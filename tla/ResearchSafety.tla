---------------------------- MODULE ResearchSafety ---------------------------
(***************************************************************************)
(* What the research layer has to get right.                               *)
(***************************************************************************)
EXTENDS ResearchPass, FiniteSetsExt

(* A candidate has at most one upstream signal, and it is the right one:   *)
(* made from the same finding, for the campaign the strategy belongs to,   *)
(* whichever of the processes inserted the signal, however often the pass  *)
(* was cut off in between (candidates.py:87-132, signals.py:51-162,        *)
(* baseline.py:78-106).                                                    *)
ProvenanceSound ==
  /\ \A k, l \in links : k.cand = l.cand => k = l
  /\ \A l \in links :
       /\ l.strat = cands[l.cand].strat
       /\ TickerOf[signals[l.sig].finding] = TickerOfCand(l.cand)
       /\ l.via = "research" =>
            /\ signals[l.sig].finding = cands[l.cand].finding
            /\ signals[l.sig].camp = CampaignOf[cands[l.cand].strat]

(* Provenance is lost only by a failure: a candidate that no error and no  *)
(* crash hit has its signal once its process has moved on                  *)
(* (candidates.py:108-132).                                                *)
ProvenanceKept ==
  \A c \in CandIds \ severed :
    \/ CampaignOf[cands[c].strat] = NoCampaign
    \/ LinksOf(c) # {}
    \/ \E p \in Procs : me[p].at \in {"link", "bridge"} /\ me[p].cand = c

(* A process alone makes no doubles: of the candidates it made of one      *)
(* ticker for a strategy on one day at most one is pending                 *)
(* (candidates.py:54-60, 75, 123), and one key gets one signal             *)
(* (signals.py:51-67).  Two passes at once may: nothing locks the          *)
(* scheduled pass out of the dashboard's and the CLI's, and neither table  *)
(* has a unique key.                                                       *)
SameCandidate(c, d) ==
  /\ cands[c].disp = "pending" /\ cands[d].disp = "pending"
  /\ cands[c].by = cands[d].by
  /\ cands[c].strat = cands[d].strat
  /\ cands[c].born = cands[d].born
  /\ TickerOfCand(c) = TickerOfCand(d)

NoDoublesPerProcess ==
  /\ \A c, d \in CandIds : SameCandidate(c, d) => c = d
  /\ \A i, k \in SignalIds : signals[i] = signals[k] => i = k

-----------------------------------------------------------------------------

(* No batch of post-mortems is longer than the largest limit that is used: *)
(* the configured one, or one given with --limit.                          *)
LargestLimit == Max({LimitFor(n) : n \in Limits})

(* What a process may have paid for without another look at the budget:    *)
(* one call, or a whole batch of post-mortems.                             *)
InFlight ==
  [p \in Procs |->
     IF "postmortem" \in duty[p].does /\ LargestLimit > 0 THEN LargestLimit ELSE 1]

(* The month's logged costs pass the ceiling by no more than what was      *)
(* allowed before it was reached: each process looks before every call     *)
(* (escalation.py:62-77, thesis.py, proposer.py) except in a batch of      *)
(* post-mortems, which looks once, however long --limit makes it           *)
(* (audit.py:150-187, cli.py:902-909).                                     *)
OverspendBounded ==
  Ceiling > 0 =>
    \A m \in Months :
      costs[m] <= (Ceiling - 1) + MapThenSumSet(LAMBDA p : InFlight[p], Procs)

(* Post-mortems (audit.py:150-187) stop at the day's limit, which is the   *)
(* largest that was asked for that day if --limit was given, and do not    *)
(* examine a trade twice, in the hands of one process.                     *)
PostMortemsLimited ==
  /\ \A p \in Procs, day \in 1..MaxDay :
       Cardinality({i \in AuditsOf("cost_triggered") :
                      audits[i].by = p /\ audits[i].day = day}) <= LargestLimit
  /\ \A i, k \in AuditsOf("cost_triggered") :
       (audits[i].by = audits[k].by /\ audits[i].of = audits[k].of) => i = k
=============================================================================
