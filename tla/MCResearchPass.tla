--------------------------- MODULE MCResearchPass ---------------------------
(* Instances of ResearchPass for TLC. *)
EXTENDS ResearchSafety, TLC

CONSTANTS p1, p2, s1, s2, b1, f1, f2, t1, t2

OneCampaign == [s \in Strategies |-> IF s = s2 THEN NoCampaign ELSE "camp"]
TwoTickers == (f1 :> t1) @@ (f2 :> t2)
Twin == s1 :> b1

Duties(a, b, on) ==
  (p1 :> [does |-> a, on |-> on]) @@ (p2 :> [does |-> b, on |-> on])

\* Two passes; a pass against each of the others.
Divided ==
  {Duties({"pass"}, {"pass"}, {s1}),
   Duties({"pass", "escalate"}, {"thesis"}, {s1}),
   Duties({"pass", "escalate"}, {"postmortem"}, {s2}),
   Duties({"pass", "mirror"}, {"mirror"}, {s1}),
   Duties({"proposal"}, {"postmortem"}, {})}
=============================================================================
