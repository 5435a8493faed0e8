---------------------------- MODULE ResearchProofs ----------------------------
(***************************************************************************)
(* Proofs about the research layer, for every budget, set of limits, set   *)
(* of processes and division of the work among them.                       *)
(***************************************************************************)
EXTENDS ResearchSafety, SumLemmas, FiniteSetTheorems, WellFoundedInduction, TLAPS

Ats == {"idle", "fetched", "item", "insert", "create", "bare", "link",
        "escalating", "batch", "answered", "twin", "bridge"} \cup Calling

(* What is left of a plan at any time. *)
Plans == {<<"score", "log">>, <<"create", "log">>, <<"log", "audit">>,
          <<"audit", "log">>, <<"audit">>, <<"log">>, << >>}

PlansToLog == Plans \ {<<"audit">>, << >>}

Holdings == [at : Ats, task : TaskNames \cup {"none"},
             strat : Strategies \cup {NoCampaign},
             todo : SUBSET Findings, new : SUBSET Nat,
             item : Findings \cup {NoCampaign},
             sig : Nat, cand : Nat, samples : SUBSET Nat, plan : Plans]

CandRows == [strat : Strategies, finding : Findings,
             disp : {"pending", "disposed"}, born : Nat, by : Procs]

SignalRows == [camp : {CampaignOf[s] : s \in Strategies}, finding : Findings,
               by : Procs]

LinkRows == [sig : Nat, cand : Nat, strat : Strategies,
             via : {"research", "baseline_mirror"}]

AuditRows == [kind : {"cost_triggered", "sampling"}, of : Nat, day : Nat,
              by : Procs]

Duties == [does : SUBSET TaskNames, on : SUBSET Strategies]

Batching(w) == w.task = "postmortem"

(* What a process holds at each step: an answer is followed by a plan, a    *)
(* batch of post-mortems stays a batch, and ids name rows.                 *)
Shape(w) ==
  /\ w.at = "answered" => w.plan # << >>
  /\ w.at \in {"batch", "mortem"} => Batching(w)
  /\ Batching(w) =>
       /\ w.at \in {"batch", "mortem", "answered"}
       /\ w.new \subseteq Losers
       /\ w.at = "answered" => w.plan \in {<<"audit", "log">>, <<"audit">>, <<"log">>}
  /\ w.at \in {"fetched", "item", "insert", "create", "bare", "link"} =>
       w.strat \in Strategies
  /\ w.at \in {"fetched", "item", "insert", "bare"} => w.sig = 0
  /\ w.at \in {"insert", "create", "bare"} => w.item \in Findings
  /\ w.at = "create" => w.sig \in SignalIds \cup {0}
  /\ w.at \in {"link", "bridge"} => w.sig \in SignalIds
  /\ w.at \in {"link", "bridge", "twin"} => w.cand \in CandIds
  /\ w.at = "twin" => cands[w.cand].strat \in DOMAIN TwinOf

TypeOK ==
  /\ now \in 1 .. MaxDay
  /\ costs \in [Months -> Nat]
  /\ cands \in Seq(CandRows)
  /\ signals \in Seq(SignalRows)
  /\ links \in SUBSET LinkRows
  /\ audits \in Seq(AuditRows)
  /\ me \in [Procs -> Holdings]
  /\ duty \in [Procs -> Duties]
  /\ \A p \in Procs : Shape(me[p])
  /\ \A l \in links : l.cand \in CandIds /\ l.sig \in SignalIds

(* Nothing is dated in the future. *)
DatesInv ==
  /\ \A c \in CandIds : cands[c].born <= now
  /\ \A i \in DOMAIN audits : audits[i].day <= now
  /\ \A m \in Months : m > MonthOf(now) => costs[m] = 0

(* The signal in hand is one of the finding the candidate is made from; a  *)
(* candidate without one belongs to no campaign.                           *)
Holds(w) ==
  /\ w.at = "create" /\ w.sig = 0 => CampaignOf[w.strat] = NoCampaign
  /\ w.at = "create" /\ w.sig # 0 => /\ signals[w.sig].finding = w.item
                                     /\ signals[w.sig].camp = CampaignOf[w.strat]
  /\ w.at = "link" => /\ signals[w.sig].finding = cands[w.cand].finding
                      /\ signals[w.sig].camp = CampaignOf[cands[w.cand].strat]
  /\ w.at = "bridge" => TickerOf[signals[w.sig].finding] = TickerOfCand(w.cand)

ProvenanceInv == ProvenanceSound /\ \A p \in Procs : Holds(me[p])

(* A process has not yet made today what it is about to make. *)
Mine(p, s, t) ==
  {c \in CandIds : /\ cands[c].by = p /\ cands[c].disp = "pending"
                   /\ cands[c].strat = s /\ cands[c].born = now
                   /\ TickerOfCand(c) = t}

Fresh(p) ==
  LET w == me[p] IN
  /\ w.at \in {"item", "insert", "create", "bare", "link"} =>
       \A f \in w.todo : Mine(p, w.strat, TickerOf[f]) = {}
  /\ w.at \in {"insert", "create", "bare"} =>
       Mine(p, w.strat, TickerOf[w.item]) = {}
  /\ w.at = "twin" =>
       Mine(p, TwinOf[cands[w.cand].strat], TickerOfCand(w.cand)) = {}
  /\ w.at = "insert" =>
       \A i \in SignalIds :
         ~(signals[i].by = p /\ signals[i].camp = CampaignOf[w.strat]
             /\ signals[i].finding = w.item)

DoublesInv == NoDoublesPerProcess /\ \A p \in Procs : Fresh(p)

(* The trades a batch of post-mortems has still to examine. *)
AuditDue(w) ==
  \/ w.at = "mortem"
  \/ w.at = "answered" /\ w.plan \in {<<"audit">>, <<"audit", "log">>}

ToAudit(w) == w.new \cup (IF AuditDue(w) THEN {w.cand} ELSE {})

MineToday(p, day) ==
  {i \in AuditsOf("cost_triggered") : audits[i].by = p /\ audits[i].day = day}

BatchInv(p) ==
  LET w == me[p] IN
  Batching(w) =>
    /\ "postmortem" \in duty[p].does
    /\ AuditDue(w) => w.cand \notin w.new
    /\ Cardinality(MineToday(p, now)) + Cardinality(ToAudit(w)) <= LargestLimit
    /\ \A i \in AuditsOf("cost_triggered") :
         audits[i].by = p => audits[i].of \notin ToAudit(w)

PostMortemInv == PostMortemsLimited /\ \A p \in Procs : BatchInv(p)

(* The calls a process may still pay for before it looks at the budget. *)
Called(w) ==
  IF w.at \in Calling \/ (w.at = "answered" /\ w.plan \in PlansToLog) THEN 1 ELSE 0

OwedBy(w) == Called(w) + (IF Batching(w) THEN Cardinality(w.new) ELSE 0)

Owed == [p \in Procs |-> OwedBy(me[p])]

BudgetInv ==
  /\ \A p \in Procs : Owed[p] <= InFlight[p]
  /\ Ceiling > 0 =>
       costs[MonthOf(now)] + Total(Owed, Procs) <= Ceiling - 1 + Total(InFlight, Procs)
  /\ OverspendBounded

-----------------------------------------------------------------------------
(* Constants and columns.                                                  *)

LEMMA Budgets ==
  /\ Ceiling \in Nat /\ DaysInMonth \in Nat /\ DaysInMonth > 0
  /\ MaxDay \in Nat /\ MaxDay > 0
  /\ MaxCands \in Nat /\ MaxCalls \in Nat
BY BudgetAssumption, LimitAssumption

(* There is a largest limit.                                               *)
LEMMA LimitsBounded ==
  /\ LargestLimit \in Nat
  /\ \A n \in Limits : LimitFor(n) \in Nat /\ LimitFor(n) <= LargestLimit
<1> DEFINE f == [n \in Limits |-> LimitFor(n)]
           S == {f[n] : n \in Limits}
           id == [x \in S |-> x]
<1>1. \A n \in Limits : LimitFor(n) \in Nat /\ f[n] = LimitFor(n)
  BY LimitAssumption DEF LimitFor
<1>2. S \in SUBSET Nat /\ S # {} /\ S = {LimitFor(n) : n \in Limits}
  BY <1>1, LimitAssumption
<1>3. IsFiniteSet(S)
  <2> HIDE DEF f
  <2> QED
    BY FiniteRange, LimitAssumption
<1> HIDE DEF S
<1>4. /\ Total(id, S) \in Nat
      /\ \A x \in S : x <= Total(id, S)
  <2>1. Total(id, S) \in Nat
    BY <1>2, <1>3, TotalType
  <2>2. ASSUME NEW x \in S PROVE x <= Total(id, S)
    <3>1. Total(id, S) = id[x] + Total(id, S \ {x})
      BY <1>2, <1>3, TotalRemove
    <3>2. Total(id, S \ {x}) \in Int /\ Total(id, S \ {x}) >= 0
      <4>1. IsFiniteSet(S \ {x})
        BY <1>3, FS_Subset
      <4> QED
        BY <1>2, <4>1, TotalType
    <3> QED
      BY <1>2, <2>1, <3>1, <3>2
  <2> QED
    BY <2>1, <2>2
<1>5. Max(S) \in S /\ \A x \in S : x <= Max(S)
  <2> PICK b \in Nat : \A x \in S : x <= b
    BY <1>4
  <2> QED
    BY <1>2, LargestNat
<1>6. LargestLimit = Max(S)
  BY <1>2 DEF LargestLimit
<1> QED
  BY <1>1, <1>2, <1>5, <1>6

(* Months go by in order, and every day falls into one.                    *)
LEMMA MonthsInOrder ==
  ASSUME NEW d \in 1 .. MaxDay, NEW e \in 1 .. MaxDay, d <= e
  PROVE  MonthOf(d) \in Months /\ MonthOf(d) <= MonthOf(e)
<1>1. \A n \in Nat \ {0} : \A a, b \in Nat :
        a <= b => a \div n \in Nat /\ a \div n <= b \div n
  OBVIOUS
<1>2. MonthOf(d) \in Nat /\ MonthOf(d) <= MonthOf(e)
  BY <1>1, Budgets DEF MonthOf
<1>3. MonthOf(d) <= MonthOf(MaxDay) /\ MonthOf(MaxDay) \in Nat
  BY <1>1, Budgets DEF MonthOf
<1> QED
  BY <1>2, <1>3 DEF Months

(* The lowest and the highest of a set of numbers, which the loops take.   *)
LEMMA LowestIn ==
  ASSUME NEW S \in SUBSET Nat, S # {}
  PROVE  Lowest(S) \in S /\ \A k \in S : Lowest(S) <= k
<1>1. \E x \in S : \A y \in S : ~(<<y, x>> \in OpToRel(<, Nat))
  BY NatLessThanWellFounded, WFMin
<1>2. \E x \in S : \A y \in S : x <= y
  <2>1. PICK x \in S : \A y \in S : ~(<<y, x>> \in OpToRel(<, Nat))
    BY <1>1
  <2>2. \A y \in S : ~(y < x)
    BY <2>1 DEF OpToRel
  <2> QED
    BY <2>2
<1> QED
  BY <1>2 DEF Lowest

(* The newest of some ids is one of them. *)
LEMMA NewestIn ==
  ASSUME NEW S \in SUBSET Nat, IsFiniteSet(S), S # {}
  PROVE  Newest(S) \in S /\ \A k \in S : k <= Newest(S)
<1> DEFINE B == {T \in SUBSET S : T # {} /\ ~ \E x \in T : \A y \in T : y <= x}
<1>1. B = {}
  <2> SUFFICES ASSUME B # {} PROVE FALSE
    OBVIOUS
  <2>1. B \in SUBSET SUBSET S
    OBVIOUS
  <2>2. PICK T \in B : \A U \in SUBSET T : U # T => U \notin B
    <3> HIDE DEF B
    <3> QED
      BY <2>1, Smallest
  <2>3. PICK z \in T : TRUE
    OBVIOUS
  <2>4. CASE T \ {z} = {}
    BY <2>3, <2>4
  <2>5. CASE T \ {z} # {}
    <3>1. PICK m \in T \ {z} : \A y \in T \ {z} : y <= m
      BY <2>2, <2>3, <2>5
    <3>2. CASE m <= z
      <4>1. \A y \in T : y <= z
        BY <3>1, <3>2
      <4> QED
        BY <2>3, <4>1
    <3>3. CASE z <= m
      <4>1. \A y \in T : y <= m
        BY <3>1, <3>3
      <4> QED
        BY <3>1, <4>1
    <3> QED
      BY <2>3, <3>1, <3>2, <3>3
  <2> QED
    BY <2>4, <2>5
<1>2. \E x \in S : \A y \in S : y <= x
  BY <1>1
<1> QED
  BY <1>2 DEF Newest

(* Row by row: what the tables hold.                                       *)
LEMMA Rows ==
  ASSUME TypeOK
  PROVE  /\ CandIds = 1 .. Len(cands) /\ \A c \in CandIds : cands[c] \in CandRows
         /\ SignalIds = 1 .. Len(signals)
         /\ \A i \in SignalIds : signals[i] \in SignalRows
         /\ DOMAIN audits = 1 .. Len(audits)
         /\ \A i \in DOMAIN audits : audits[i] \in AuditRows
         /\ Len(cands) \in Nat /\ Len(signals) \in Nat /\ Len(audits) \in Nat
         /\ \A p \in Procs : me[p] \in Holdings /\ duty[p] \in Duties
BY DEF TypeOK, CandIds, SignalIds

(* What find_signal returns is a signal of the finding and campaign.        *)
LEMMA MatchingNewest ==
  ASSUME TypeOK, NEW camp, NEW f, Matching(camp, f) # {}
  PROVE  /\ Newest(Matching(camp, f)) \in SignalIds
         /\ Newest(Matching(camp, f)) \in Nat \ {0}
         /\ signals[Newest(Matching(camp, f))].camp = camp
         /\ signals[Newest(Matching(camp, f))].finding = f
<1> DEFINE ids == Matching(camp, f)
<1>1. ids \subseteq SignalIds /\ SignalIds = 1 .. Len(signals) /\ Len(signals) \in Nat
  BY Rows DEF Matching
<1>2. IsFiniteSet(ids)
  <2>1. IsFiniteSet(1 .. Len(signals))
    BY <1>1, UpTo
  <2> QED
    BY <1>1, <2>1, FS_Subset
<1>3. Newest(ids) \in ids
  BY <1>1, <1>2, NewestIn
<1> QED
  BY <1>1, <1>3 DEF Matching

(* A process at rest is well typed. *)
LEMMA RestingType == Resting \in Holdings /\ Resting.at = "idle"
BY DEF Resting, Holdings, Ats, Plans

(* Who moves holds something of the right kind, the others what they held. *)
LEMMA BecomeType ==
  ASSUME TypeOK, NEW p \in Procs, NEW w \in Holdings, Become(p, w)
  PROVE  /\ me' \in [Procs -> Holdings]
         /\ me'[p] = w
         /\ \A q \in Procs : q # p => me'[q] = me[q]
BY DEF Become, TypeOK

(* What is left of a plan is again a plan. *)
LEMMA PlanParts ==
  /\ \A call \in Calling : Plan(call) \in PlansToLog /\ PlanUnparsed(call) \in Plans
  /\ \A plan \in Plans : plan # << >> => Tail(plan) \in Plans
  /\ PlansToLog \subseteq Plans
  /\ \A plan \in Plans : Head(plan) = "audit" /\ plan # << >> =>
       plan \in {<<"audit", "log">>, <<"audit">>}
<1>1. \A call \in Calling : Plan(call) \in PlansToLog /\ PlanUnparsed(call) \in Plans
  BY DEF Calling, Plan, PlanUnparsed, PlansToLog, Plans
<1>2. /\ Tail(<<"score", "log">>) = <<"log">> /\ Tail(<<"create", "log">>) = <<"log">>
      /\ Tail(<<"log", "audit">>) = <<"audit">> /\ Tail(<<"audit", "log">>) = <<"log">>
      /\ Tail(<<"audit">>) = << >> /\ Tail(<<"log">>) = << >>
  OBVIOUS
<1>3. \A plan \in Plans : plan # << >> => Tail(plan) \in Plans
  BY <1>2 DEF Plans
<1>4. /\ Head(<<"score", "log">>) # "audit" /\ Head(<<"create", "log">>) # "audit"
      /\ Head(<<"log", "audit">>) # "audit" /\ Head(<<"log">>) # "audit"
  OBVIOUS
<1> QED
  BY <1>1, <1>3, <1>4 DEF Plans, PlansToLog

-----------------------------------------------------------------------------
(* Types.                                                                  *)

Acts(p) == Pass(p) \/ PaidCall(p) \/ PostMortem(p) \/ Mirror(p) \/ Crash(p)

(* In the middle of an answer there is a plan to follow.                   *)
LEMMA ContinueType ==
  ASSUME TypeOK, NEW p \in Procs, NEW plan \in Plans, Continue(p, plan)
  PROVE  \E w \in Holdings : Become(p, w)
<1>1. me[p] \in Holdings
  BY Rows
<1>2. CASE plan # << >>
  <2>1. [me[p] EXCEPT !.at = "answered", !.plan = plan] \in Holdings
    BY <1>1 DEF Holdings, Ats
  <2> QED
    BY <1>2, <2>1 DEF Continue
<1>3. CASE plan = << >> /\ AfterCall(p) = "idle"
  BY <1>3, RestingType DEF Continue, Rest
<1>4. CASE plan = << >> /\ AfterCall(p) # "idle"
  <2>1. AfterCall(p) \in {"escalating", "batch"}
    BY <1>4 DEF AfterCall
  <2>2. [me[p] EXCEPT !.at = AfterCall(p), !.cand = 0, !.plan = << >>] \in Holdings
    <3>1. << >> \in Plans /\ AfterCall(p) \in Ats
      BY <2>1 DEF Plans, Ats
    <3> QED
      BY <1>1, <3>1 DEF Holdings
  <2> QED
    BY <1>4, <2>2 DEF Continue
<1> QED
  BY <1>2, <1>3, <1>4

(* What the loops take from their lists is in the lists.                   *)
LEMMA PassMoves ==
  ASSUME TypeOK, NEW p \in Procs, Pass(p)
  PROVE  \E w \in Holdings : Become(p, w)
<1> DEFINE w == me[p]
<1>1. w \in Holdings /\ duty[p] \in Duties
  BY Rows
<1>2. ASSUME NEW s \in duty[p].on, StartPass(p, s) PROVE \E v \in Holdings : Become(p, v)
  <2>1. s \in Strategies
    BY <1>1 DEF Duties
  <2>2. [Resting EXCEPT !.at = "fetched", !.task = "pass", !.strat = s] \in Holdings
    BY <2>1, RestingType DEF Holdings, Ats, TaskNames
  <2> QED
    BY <1>2, <2>2 DEF StartPass
<1>3. CASE Generate(p)
  <2>1. \A fs \in SUBSET Findings : [w EXCEPT !.at = "item", !.todo = fs] \in Holdings
    BY <1>1 DEF Holdings, Ats
  <2>2. PICK fs \in SUBSET Findings, recent \in Recent(w.strat) :
          Become(p, [w EXCEPT !.at = "item",
                       !.todo = {f \in fs : TickerOf[f] \notin
                                   {TickerOfCand(c) : c \in recent}}])
    BY <1>3 DEF Generate
  <2>3. {f \in fs : TickerOf[f] \notin {TickerOfCand(c) : c \in recent}} \in SUBSET Findings
    OBVIOUS
  <2> QED
    BY <2>1, <2>2, <2>3
<1>4. CASE PassEnds(p) \/ PassDone(p) \/ EscalateEnds(p)
  BY <1>4, RestingType DEF PassEnds, PassDone, EscalateEnds, Rest
<1>5. ASSUME NEW f \in Findings, TakeItem(p, f) \/ FindSignal(p, f)
      PROVE  \E v \in Holdings : Become(p, v)
  <2>1. \A i \in Nat : [[Take(p, f) EXCEPT !.at = "create"] EXCEPT !.sig = i] \in Holdings
    BY <1>1 DEF Take, Holdings, Ats
  <2>2. /\ [Take(p, f) EXCEPT !.at = "create"] \in Holdings
        /\ [Take(p, f) EXCEPT !.at = "insert"] \in Holdings
    BY <1>1 DEF Take, Holdings, Ats
  <2>3. Matching(CampaignOf[w.strat], f) # {} => Newest(Matching(CampaignOf[w.strat], f)) \in Nat
    BY MatchingNewest
  <2> QED
    BY <1>5, <2>1, <2>2, <2>3 DEF TakeItem, FindSignal
<1>6. CASE InsertSignal(p)
  <2>1. \A i \in Nat : [w EXCEPT !.at = "create", !.sig = i] \in Holdings
    BY <1>1 DEF Holdings, Ats
  <2>2. Len(signals) + 1 \in Nat
    BY Rows
  <2> QED
    BY <1>6, <2>1, <2>2 DEF InsertSignal
<1>7. CASE SignalRaises(p)
  <2>1. [w EXCEPT !.at = "bare"] \in Holdings
    BY <1>1 DEF Holdings, Ats
  <2> QED
    BY <1>7, <2>1 DEF SignalRaises, Goto
<1>8. CASE MakeCandidate(p)
  <2> DEFINE c == Len(cands) + 1
             left == {f \in w.todo : TickerOf[f] # TickerOf[w.item]}
  <2>1. c \in Nat /\ w.new \cup {c} \in SUBSET Nat /\ left \in SUBSET Findings
    BY <1>1, Rows DEF Holdings
  <2> HIDE DEF c, left
  <2>2. [[w EXCEPT !.new = @ \cup {c}, !.todo = left] EXCEPT !.at = "link", !.cand = c]
          \in Holdings
    BY <1>1, <2>1 DEF Holdings, Ats
  <2>3. [[w EXCEPT !.new = @ \cup {c}, !.todo = left] EXCEPT !.at = "item", !.item = NoCampaign]
          \in Holdings
    BY <1>1, <2>1 DEF Holdings, Ats
  <2> QED
    BY <1>8, <2>2, <2>3 DEF MakeCandidate, c, left
<1>9. CASE LinkCandidate(p) \/ LinkRaises(p)
  <2>1. [w EXCEPT !.at = "item", !.item = NoCampaign, !.sig = 0, !.cand = 0] \in Holdings
    BY <1>1 DEF Holdings, Ats
  <2> QED
    BY <1>9, <2>1 DEF LinkCandidate, LinkRaises, ToNextItem
<1>10. CASE Escalate(p)
  <2>1. PICK sample \in SUBSET (w.new \ High(w.new)) :
          Become(p, [Resting EXCEPT !.at = "escalating", !.task = "pass",
                                    !.new = High(w.new), !.samples = sample])
    BY <1>10 DEF Escalate
  <2>2. High(w.new) \in SUBSET Nat /\ sample \in SUBSET Nat
    BY <1>1 DEF High, Holdings
  <2>3. [Resting EXCEPT !.at = "escalating", !.task = "pass",
                        !.new = High(w.new), !.samples = sample] \in Holdings
    BY <2>2, RestingType DEF Holdings, Ats, TaskNames
  <2> QED
    BY <2>1, <2>3
<1>11. CASE EscalateNext(p)
  <2>1. CASE w.new # {}
    <3>1. Lowest(w.new) \in Nat
      BY <1>1, <2>1, LowestIn DEF Holdings
    <3>2. [w EXCEPT !.at = "thesis", !.cand = Lowest(w.new), !.new = @ \ {Lowest(w.new)}]
            \in Holdings
      BY <1>1, <3>1 DEF Holdings, Ats, Calling
    <3> QED
      BY <1>11, <2>1, <3>2 DEF EscalateNext
  <2>2. CASE w.new = {}
    <3>1. Lowest(w.samples) \in Nat
      BY <1>1, <1>11, <2>2, LowestIn DEF Holdings, EscalateNext
    <3>2. [w EXCEPT !.at = "sampling", !.cand = Lowest(w.samples),
                    !.samples = @ \ {Lowest(w.samples)}] \in Holdings
      BY <1>1, <3>1 DEF Holdings, Ats, Calling
    <3> QED
      BY <1>11, <2>2, <3>2 DEF EscalateNext
  <2> QED
    BY <2>1, <2>2
<1> QED
  BY <1>2, <1>3, <1>4, <1>5, <1>6, <1>7, <1>8, <1>9, <1>10, <1>11 DEF Pass

(* Each action changes what its own process holds, to something well typed. *)
LEMMA CallMoves ==
  ASSUME TypeOK, NEW p \in Procs, PaidCall(p)
  PROVE  \E w \in Holdings : Become(p, w)
<1>1. ASSUME NEW c \in CandIds, StartThesis(p, c) PROVE \E w \in Holdings : Become(p, w)
  <2>1. c \in Nat
    BY Rows
  <2>2. [Resting EXCEPT !.at = "thesis", !.task = "thesis", !.cand = c] \in Holdings
    BY <2>1, RestingType DEF Holdings, Ats, Calling, TaskNames
  <2> QED
    BY <1>1, <2>2 DEF StartThesis
<1>2. CASE StartProposal(p)
  <2>1. [Resting EXCEPT !.at = "proposing", !.task = "proposal"] \in Holdings
    BY RestingType DEF Holdings, Ats, Calling, TaskNames
  <2> QED
    BY <1>2, <2>1 DEF StartProposal
<1>3. CASE CallAnswered(p) \/ CallRaises(p)
  <2>1. \E plan \in Plans : Continue(p, plan)
    BY <1>3, PlanParts DEF CallAnswered, CallRaises, Plans
  <2> QED
    BY <2>1, ContinueType
<1>4. CASE WriteScore(p) \/ WriteCost(p) \/ WriteAudit(p) \/ WriteStrategy(p)
  <2>1. Continue(p, Tail(me[p].plan)) /\ At(p, "answered")
    BY <1>4 DEF WriteScore, WriteCost, WriteAudit, WriteStrategy, Doing
  <2>2. Tail(me[p].plan) \in Plans
    BY <2>1, Rows, PlanParts DEF At, TypeOK, Shape, Holdings
  <2> QED
    BY <2>1, <2>2, ContinueType
<1> QED
  BY <1>1, <1>2, <1>3, <1>4 DEF PaidCall

LEMMA PostMortemMoves ==
  ASSUME TypeOK, NEW p \in Procs, PostMortem(p)
  PROVE  \E w \in Holdings : Become(p, w)
<1>1. me[p] \in Holdings
  BY Rows
<1>2. CASE StartPostMortems(p)
  <2>1. \A n : LatestPending(n) \in SUBSET Nat
    BY LosersAssumption DEF LatestPending
  <2>2. \A new \in SUBSET Nat :
          [Resting EXCEPT !.at = "batch", !.task = "postmortem", !.new = new] \in Holdings
    BY RestingType DEF Holdings, Ats, TaskNames
  <2> QED
    BY <1>2, <2>1, <2>2 DEF StartPostMortems
<1>3. CASE NextTrade(p)
  <2> DEFINE t == Newest(me[p].new)
  <2>1. t \in Nat
    <3>1. me[p].new \subseteq Losers /\ me[p].new # {}
      BY <1>3 DEF NextTrade, At, TypeOK, Shape
    <3>2. IsFiniteSet(me[p].new) /\ me[p].new \in SUBSET Nat
      BY <3>1, LosersAssumption, FS_Subset
    <3> QED
      BY <3>1, <3>2, NewestIn
  <2> HIDE DEF t
  <2>2. /\ [[me[p] EXCEPT !.cand = t, !.new = @ \ {t}] EXCEPT !.at = "mortem"] \in Holdings
        /\ [[me[p] EXCEPT !.cand = t, !.new = @ \ {t}]
              EXCEPT !.at = "answered", !.plan = <<"audit">>] \in Holdings
    <3>1. <<"audit">> \in Plans
      BY DEF Plans
    <3> QED
      BY <1>1, <2>1, <3>1 DEF Holdings, Ats, Calling
  <2> QED
    BY <1>3, <2>2 DEF NextTrade, t
<1>4. CASE BatchDone(p)
  BY <1>4, RestingType DEF BatchDone, Rest
<1> QED
  BY <1>2, <1>3, <1>4 DEF PostMortem

LEMMA MirrorMoves ==
  ASSUME TypeOK, NEW p \in Procs, Mirror(p)
  PROVE  me' = me \/ \E w \in Holdings : Become(p, w)
<1>1. me[p] \in Holdings
  BY Rows
<1>2. \A c \in Nat : /\ [Resting EXCEPT !.at = "twin", !.task = "mirror", !.cand = c] \in Holdings
                     /\ \A i \in Nat : [Resting EXCEPT !.at = "bridge", !.task = "mirror",
                                                       !.cand = c, !.sig = i] \in Holdings
  BY RestingType DEF Holdings, Ats, TaskNames
<1>3. \A c \in CandIds : Upstream(c) \in Nat
  BY DEF Upstream, SignalOf, LinksOf, LinkRows, TypeOK
<1>4. ASSUME NEW c \in CandIds, StartMirror(p, c)
      PROVE  me' = me \/ \E w \in Holdings : Become(p, w)
  <2>1. \A m \in MirrorsOf(c) : m \in Nat
    BY Rows DEF MirrorsOf, PendingOf
  <2>2. c \in Nat /\ Upstream(c) \in Nat
    BY Rows, <1>3
  <2> QED
    BY <1>2, <1>4, <2>1, <2>2 DEF StartMirror
<1>5. CASE CreateMirror(p)
  <2> DEFINE m == Len(cands) + 1
             sig == Upstream(me[p].cand)
  <2>1. m \in Nat
    BY Rows
  <2>2. sig \in Nat
    BY DEF Upstream, SignalOf, LinksOf, LinkRows, TypeOK
  <2> HIDE DEF m, sig
  <2>3. [me[p] EXCEPT !.at = "bridge", !.cand = m, !.sig = sig] \in Holdings
    BY <1>1, <2>1, <2>2 DEF Holdings, Ats
  <2> QED
    BY <1>5, <2>3, RestingType DEF CreateMirror, m, sig, Rest
<1>6. CASE BridgeMirror(p)
  BY <1>6, RestingType DEF BridgeMirror, Rest
<1> QED
  BY <1>4, <1>5, <1>6 DEF Mirror

(* So no process touches what another holds. *)
LEMMA ActorMoves ==
  ASSUME TypeOK, NEW p \in Procs, Acts(p)
  PROVE  /\ me' \in [Procs -> Holdings]
         /\ \A q \in Procs : q # p => me'[q] = me[q]
<1>1. me' = me \/ \E w \in Holdings : Become(p, w)
  BY PassMoves, CallMoves, PostMortemMoves, MirrorMoves, RestingType
    DEF Acts, Crash, Rest
<1> QED
  BY <1>1, BecomeType DEF TypeOK

(* Which statements write which table.                                     *)
LEMMA TableMoves ==
  ASSUME [Next]_vars
  PROVE  /\ duty' = duty
         /\ me' = me \/ \E p \in Procs : Acts(p)
         /\ now' = now \/ NewDay
         /\ costs' = costs \/ \E p \in Procs : WriteCost(p)
         /\ \/ cands' = cands
            \/ Dispose
            \/ \E p \in Procs : MakeCandidate(p) \/ CreateMirror(p)
         /\ signals' = signals \/ \E p \in Procs : InsertSignal(p)
         /\ links' = links \/ \E p \in Procs : LinkCandidate(p) \/ BridgeMirror(p)
         /\ audits' = audits \/ \E p \in Procs : WriteAudit(p)
<1> USE DEF vars, budgetVars, researchTables, tableVars, history
<1>1. CASE Dispose \/ NewDay \/ UNCHANGED vars
  BY <1>1 DEF Dispose, DisposeCandidate, NewDay, NextDay
<1>2. ASSUME NEW p \in Procs, Pass(p)
      PROVE  /\ duty' = duty /\ now' = now /\ costs' = costs /\ audits' = audits
             /\ cands' = cands \/ MakeCandidate(p)
             /\ signals' = signals \/ InsertSignal(p)
             /\ links' = links \/ LinkCandidate(p)
  BY <1>2 DEF Pass, StartPass, Generate, PassEnds, TakeItem, FindSignal,
    InsertSignal, SignalRaises, MakeCandidate, LinkCandidate, LinkRaises, PassDone,
    Escalate, EscalateNext, EscalateEnds
<1>3. ASSUME NEW p \in Procs, PaidCall(p)
      PROVE  /\ duty' = duty /\ now' = now /\ cands' = cands /\ signals' = signals
             /\ links' = links
             /\ costs' = costs \/ WriteCost(p)
             /\ audits' = audits \/ WriteAudit(p)
  BY <1>3 DEF PaidCall, StartThesis, StartProposal, CallAnswered, CallRaises,
    WriteScore, WriteCost, WriteAudit, WriteStrategy
<1>4. ASSUME NEW p \in Procs, PostMortem(p) \/ Crash(p)
      PROVE  /\ duty' = duty /\ now' = now /\ cands' = cands /\ signals' = signals
             /\ links' = links /\ costs' = costs /\ audits' = audits
  BY <1>4 DEF PostMortem, StartPostMortems, NextTrade, BatchDone, Crash
<1>5. ASSUME NEW p \in Procs, Mirror(p)
      PROVE  /\ duty' = duty /\ now' = now /\ signals' = signals
             /\ costs' = costs /\ audits' = audits
             /\ cands' = cands \/ CreateMirror(p)
             /\ links' = links \/ BridgeMirror(p)
  BY <1>5 DEF Mirror, StartMirror, CreateMirror, BridgeMirror
<1> QED
  BY <1>1, <1>2, <1>3, <1>4, <1>5 DEF Next, Acts

(* A table grows at its end.                                               *)
LEMMA Appended ==
  ASSUME NEW S, NEW s \in Seq(S), NEW x \in S
  PROVE  /\ Append(s, x) \in Seq(S)
         /\ DOMAIN Append(s, x) = DOMAIN s \cup {Len(s) + 1}
         /\ Len(s) + 1 \notin DOMAIN s
         /\ Append(s, x)[Len(s) + 1] = x
         /\ \A i \in DOMAIN s : Append(s, x)[i] = s[i]
OBVIOUS

(* Rows stay where they are and keep all but their disposition.            *)
CandsStay ==
  /\ cands' \in Seq(CandRows)
  /\ \A c \in CandIds :
       /\ c \in CandIds'
       /\ cands'[c].strat = cands[c].strat /\ cands'[c].finding = cands[c].finding
       /\ cands'[c].born = cands[c].born /\ cands'[c].by = cands[c].by
       /\ cands'[c].disp = "pending" => cands[c].disp = "pending"

SignalsStay ==
  /\ signals' \in Seq(SignalRows)
  /\ \A i \in SignalIds : i \in SignalIds' /\ signals'[i] = signals[i]

(* Where a process is when it writes a table, and what it writes.          *)
LEMMA Writers ==
  ASSUME NEW p \in Procs
  PROVE  /\ InsertSignal(p) => /\ me[p].at = "insert"
                               /\ CreateSignal(CampaignOf[me[p].strat], me[p].item, p)
         /\ MakeCandidate(p) => /\ me[p].at \in {"create", "bare"}
                                /\ CreateCandidate(me[p].strat, me[p].item, now, p)
         /\ CreateMirror(p) =>
              /\ me[p].at = "twin"
              /\ CreateCandidate(TwinOf[cands[me[p].cand].strat],
                                 cands[me[p].cand].finding, now, p)
  BY Zenon DEF InsertSignal, MakeCandidate, CreateMirror, At

(* What a process is about to insert is a row.                             *)
LEMMA NewRows ==
  ASSUME TypeOK, NEW p \in Procs
  PROVE  /\ InsertSignal(p) =>
              [camp |-> CampaignOf[me[p].strat], finding |-> me[p].item, by |-> p]
                \in SignalRows
         /\ MakeCandidate(p) =>
              NewCandidate(me[p].strat, me[p].item, now, p) \in CandRows
         /\ CreateMirror(p) =>
              /\ me[p].cand \in CandIds
              /\ NewCandidate(TwinOf[cands[me[p].cand].strat],
                              cands[me[p].cand].finding, now, p) \in CandRows
<1> DEFINE w == me[p]
<1>1. Shape(w) /\ now \in Nat
  BY DEF TypeOK
<1>2. CASE InsertSignal(p)
  <2>0. w.at = "insert"
    BY <1>2, Writers
  <2>1. w.strat \in Strategies /\ w.item \in Findings
    BY <1>1, <2>0 DEF Shape
  <2> QED
    BY <1>2, <2>1, Writers DEF SignalRows
<1>3. CASE MakeCandidate(p)
  <2>1. w.strat \in Strategies /\ w.item \in Findings
    BY <1>1, <1>3, Writers DEF Shape
  <2> QED
    BY <1>1, <1>3, <2>1, Writers DEF NewCandidate, CandRows
<1>4. CASE CreateMirror(p)
  <2>1. w.cand \in CandIds /\ cands[w.cand].strat \in DOMAIN TwinOf
    BY <1>1, <1>4, Writers DEF Shape
  <2>2. TwinOf[cands[w.cand].strat] \in Strategies /\ cands[w.cand].finding \in Findings
    BY <2>1, TwinAssumption, Rows DEF CandRows
  <2> QED
    BY <1>1, <1>4, <2>1, <2>2, Writers DEF NewCandidate, CandRows
<1> QED
  BY <1>2, <1>3, <1>4

(* The row inserted is the last one, and the others stay.                  *)
LEMMA Inserted ==
  ASSUME TypeOK, NEW p \in Procs
  PROVE  /\ InsertSignal(p) =>
              /\ SignalIds' = SignalIds \cup {Len(signals) + 1}
              /\ Len(signals) + 1 \notin SignalIds
              /\ signals'[Len(signals) + 1] =
                   [camp |-> CampaignOf[me[p].strat], finding |-> me[p].item, by |-> p]
         /\ MakeCandidate(p) \/ CreateMirror(p) =>
              /\ CandIds' = CandIds \cup {Len(cands) + 1}
              /\ Len(cands) + 1 \notin CandIds
              /\ \A c \in CandIds : cands'[c] = cands[c]
         /\ MakeCandidate(p) =>
              cands'[Len(cands) + 1] = NewCandidate(me[p].strat, me[p].item, now, p)
         /\ CreateMirror(p) =>
              cands'[Len(cands) + 1] =
                NewCandidate(TwinOf[cands[me[p].cand].strat],
                             cands[me[p].cand].finding, now, p)
<1>1. cands \in Seq(CandRows) /\ signals \in Seq(SignalRows)
  BY DEF TypeOK
<1>2. ASSUME InsertSignal(p)
      PROVE   /\ SignalIds' = SignalIds \cup {Len(signals) + 1}
              /\ Len(signals) + 1 \notin SignalIds
              /\ signals'[Len(signals) + 1] =
                   [camp |-> CampaignOf[me[p].strat], finding |-> me[p].item, by |-> p]
  <2> DEFINE x == [camp |-> CampaignOf[me[p].strat], finding |-> me[p].item, by |-> p]
  <2>1. x \in SignalRows /\ signals' = Append(signals, x)
    BY <1>2, NewRows, Writers DEF CreateSignal
  <2> HIDE DEF x
  <2>2. /\ SignalIds' = SignalIds \cup {Len(signals) + 1}
        /\ Len(signals) + 1 \notin SignalIds /\ signals'[Len(signals) + 1] = x
    BY <1>1, <2>1, Appended DEF SignalIds
  <2> QED
    BY <2>2 DEF x
<1>3. ASSUME NEW x \in CandRows, cands' = Append(cands, x)
      PROVE  /\ CandIds' = CandIds \cup {Len(cands) + 1}
             /\ Len(cands) + 1 \notin CandIds
             /\ cands'[Len(cands) + 1] = x
             /\ \A c \in CandIds : cands'[c] = cands[c]
  BY <1>1, <1>3, Appended DEF CandIds
<1> QED
  BY <1>2, <1>3, NewRows, Writers DEF CreateCandidate

(* Either way the new row is one of NewCandidate. *)
LEMMA MadeRow ==
  ASSUME TypeOK, NEW p \in Procs, MakeCandidate(p) \/ CreateMirror(p)
  PROVE  \E s, f : cands'[Len(cands) + 1] = NewCandidate(s, f, now, p)
<1>1. CASE MakeCandidate(p)
  <2>1. cands'[Len(cands) + 1] = NewCandidate(me[p].strat, me[p].item, now, p)
    BY <1>1, Inserted
  <2> QED
    BY <2>1
<1>2. CASE CreateMirror(p)
  <2>1. cands'[Len(cands) + 1] = NewCandidate(TwinOf[cands[me[p].cand].strat],
                                              cands[me[p].cand].finding, now, p)
    BY <1>2, Inserted
  <2> QED
    BY <2>1
<1> QED
  BY <1>1, <1>2

(* Rows are never removed, and time does not run backwards. *)
LEMMA Grows ==
  ASSUME TypeOK, [Next]_vars
  PROVE  /\ CandsStay /\ SignalsStay
         /\ now \in Nat /\ now' \in Nat /\ now <= now' /\ now' \in 1 .. MaxDay
<1>1. now \in Nat /\ now' \in Nat /\ now <= now' /\ now' \in 1 .. MaxDay
  BY TableMoves, Budgets DEF TypeOK, NewDay, NextDay
<1>2. ASSUME NEW p \in Procs, InsertSignal(p) PROVE SignalsStay
  <2> DEFINE x == [camp |-> CampaignOf[me[p].strat], finding |-> me[p].item, by |-> p]
  <2>1. x \in SignalRows
    BY <1>2, NewRows
  <2>2. signals' = Append(signals, x) /\ signals \in Seq(SignalRows)
    BY <1>2 DEF InsertSignal, CreateSignal, TypeOK
  <2> HIDE DEF x
  <2> QED
    BY <2>1, <2>2, Appended DEF SignalIds, SignalsStay
<1>3. ASSUME NEW x \in CandRows, cands' = Append(cands, x)
      PROVE  CandsStay
  BY <1>3, Appended DEF TypeOK, CandIds, CandsStay
<1>4. ASSUME NEW p \in Procs, MakeCandidate(p) \/ CreateMirror(p)
      PROVE  \E x \in CandRows : cands' = Append(cands, x)
  BY <1>4, NewRows DEF MakeCandidate, CreateMirror, CreateCandidate
<1>6. ASSUME Dispose PROVE CandsStay
  <2>1. PICK c \in CandIds : cands[c].disp = "pending" /\ DisposeCandidate(c)
    BY <1>6 DEF Dispose
  <2>2. [cands[c] EXCEPT !.disp = "disposed"] \in CandRows
    BY <2>1, Rows DEF CandRows
  <2>3. \A d \in CandIds : d # c => cands'[d] = cands[d]
    BY <2>1 DEF DisposeCandidate
  <2>4. cands' = [cands EXCEPT ![c] = [cands[c] EXCEPT !.disp = "disposed"]]
    BY <2>1 DEF DisposeCandidate
  <2>5. cands' \in Seq(CandRows) /\ CandIds' = CandIds
    BY <2>2, <2>4 DEF TypeOK, CandIds
  <2>6. cands'[c] = [cands[c] EXCEPT !.disp = "disposed"]
    BY <2>4 DEF CandIds
  <2>7. /\ cands'[c].strat = cands[c].strat /\ cands'[c].finding = cands[c].finding
        /\ cands'[c].born = cands[c].born /\ cands'[c].by = cands[c].by
        /\ cands'[c].disp = "disposed"
    BY <2>6, Rows DEF CandRows
  <2> QED
    BY <2>3, <2>5, <2>7 DEF CandsStay
<1>7. cands' = cands => CandsStay
  BY DEF TypeOK, CandIds, CandsStay
<1>8. signals' = signals => SignalsStay
  BY DEF TypeOK, SignalIds, SignalsStay
<1> QED
  BY <1>1, <1>2, <1>3, <1>4, <1>6, <1>7, <1>8, TableMoves

(* Another process's step does not touch what this one holds.              *)
LEMMA ShapeStays ==
  ASSUME TypeOK, [Next]_vars, NEW q \in Procs, me'[q] = me[q]
  PROVE  Shape(me[q])'
<1>1. Shape(me[q])
  BY DEF TypeOK
<1> QED
  BY <1>1, Grows DEF Shape, CandsStay, SignalsStay

(* What the steps of a pass that build a candidate do to what is held.     *)
Kept(v, w) == v.strat = w.strat /\ v.task = w.task

LEMMA ItemEffects ==
  ASSUME TypeOK, NEW p \in Procs
  PROVE  LET w == me[p]
             v == me'[p] IN
    /\ \A f \in Findings : TakeItem(p, f) =>
         /\ w.at = "item" /\ f \in w.todo /\ CampaignOf[w.strat] = NoCampaign
         /\ Kept(v, w) /\ v.at = "create" /\ v.item = f /\ v.sig = w.sig
         /\ v.todo = w.todo \ {f}
    /\ \A f \in Findings : FindSignal(p, f) =>
         /\ w.at = "item" /\ f \in w.todo
         /\ Kept(v, w) /\ v.item = f /\ v.todo = w.todo \ {f}
         /\ \/ /\ Matching(CampaignOf[w.strat], f) = {}
               /\ v.at = "insert" /\ v.sig = w.sig
            \/ /\ Matching(CampaignOf[w.strat], f) # {}
               /\ v.at = "create" /\ v.sig = Newest(Matching(CampaignOf[w.strat], f))
    /\ InsertSignal(p) =>
         /\ w.at = "insert"
         /\ Kept(v, w) /\ v.item = w.item /\ v.todo = w.todo
         /\ v.at = "create" /\ v.sig = Len(signals) + 1
    /\ MakeCandidate(p) =>
         /\ w.at \in {"create", "bare"}
         /\ Kept(v, w)
         /\ v.todo = {f \in w.todo : TickerOf[f] # TickerOf[w.item]} /\ v.sig = w.sig
         /\ \/ w.sig # 0 /\ v.at = "link" /\ v.cand = Len(cands) + 1
            \/ /\ w.sig = 0 /\ v.at = "item"
               /\ w.at = "bare" => severed' = severed \cup {Len(cands) + 1}
<1> DEFINE w == me[p]
           v == me'[p]
<1>1. w \in Holdings /\ me \in [Procs -> Holdings]
  BY DEF TypeOK
<1>2. ASSUME NEW f \in Findings, NEW at, NEW sig,
             Become(p, [[w EXCEPT !.todo = @ \ {f}, !.item = f] EXCEPT !.at = at, !.sig = sig])
      PROVE  /\ Kept(v, w) /\ v.item = f /\ v.todo = w.todo \ {f}
             /\ v.at = at /\ v.sig = sig
  BY <1>1, <1>2 DEF Become, Holdings, Kept
<1>3. ASSUME NEW f \in Findings, NEW at,
             Become(p, [[w EXCEPT !.todo = @ \ {f}, !.item = f] EXCEPT !.at = at])
      PROVE  /\ Kept(v, w) /\ v.item = f /\ v.todo = w.todo \ {f}
             /\ v.at = at /\ v.sig = w.sig
  BY <1>1, <1>3 DEF Become, Holdings, Kept
<1>4. ASSUME NEW sig, Become(p, [w EXCEPT !.at = "create", !.sig = sig])
      PROVE  /\ Kept(v, w) /\ v.item = w.item /\ v.todo = w.todo
             /\ v.at = "create" /\ v.sig = sig
  BY <1>1, <1>4 DEF Become, Holdings, Kept
<1>5. ASSUME NEW c, NEW left,
             Become(p, [[w EXCEPT !.new = @ \cup {c}, !.todo = left]
                          EXCEPT !.at = "link", !.cand = c])
      PROVE  /\ Kept(v, w) /\ v.todo = left /\ v.sig = w.sig
             /\ v.at = "link" /\ v.cand = c
  BY <1>1, <1>5 DEF Become, Holdings, Kept
<1>6. ASSUME NEW c, NEW left,
             Become(p, [[w EXCEPT !.new = @ \cup {c}, !.todo = left]
                          EXCEPT !.at = "item", !.item = NoCampaign])
      PROVE  Kept(v, w) /\ v.todo = left /\ v.sig = w.sig /\ v.at = "item"
  BY <1>1, <1>6 DEF Become, Holdings, Kept
<1> HIDE DEF w, v
<1>7. ASSUME NEW f \in Findings, TakeItem(p, f)
      PROVE  /\ w.at = "item" /\ f \in w.todo /\ CampaignOf[w.strat] = NoCampaign
             /\ Kept(v, w) /\ v.at = "create" /\ v.item = f /\ v.sig = w.sig
             /\ v.todo = w.todo \ {f}
  BY <1>3, <1>7 DEF TakeItem, Wanted, Take, At, w
<1>8. ASSUME NEW f \in Findings, FindSignal(p, f)
      PROVE
         /\ w.at = "item" /\ f \in w.todo
         /\ Kept(v, w) /\ v.item = f /\ v.todo = w.todo \ {f}
         /\ \/ /\ Matching(CampaignOf[w.strat], f) = {}
               /\ v.at = "insert" /\ v.sig = w.sig
            \/ /\ Matching(CampaignOf[w.strat], f) # {}
               /\ v.at = "create" /\ v.sig = Newest(Matching(CampaignOf[w.strat], f))
  <2>1. CASE Matching(CampaignOf[w.strat], f) = {}
    BY <1>3, <1>8, <2>1 DEF FindSignal, Wanted, Take, At, w
  <2>2. CASE Matching(CampaignOf[w.strat], f) # {}
    BY <1>2, <1>8, <2>2 DEF FindSignal, Wanted, Take, At, w
  <2> QED
    BY <2>1, <2>2
<1>9. ASSUME InsertSignal(p)
      PROVE
         /\ w.at = "insert"
         /\ Kept(v, w) /\ v.item = w.item /\ v.todo = w.todo
         /\ v.at = "create" /\ v.sig = Len(signals) + 1
  BY <1>4, <1>9, Zenon DEF InsertSignal, At, w
<1>10. ASSUME MakeCandidate(p)
       PROVE
         /\ w.at \in {"create", "bare"}
         /\ Kept(v, w)
         /\ v.todo = {f \in w.todo : TickerOf[f] # TickerOf[w.item]} /\ v.sig = w.sig
         /\ \/ w.sig # 0 /\ v.at = "link" /\ v.cand = Len(cands) + 1
            \/ /\ w.sig = 0 /\ v.at = "item"
               /\ w.at = "bare" => severed' = severed \cup {Len(cands) + 1}
  <2> DEFINE c == Len(cands) + 1
             left == {f \in w.todo : TickerOf[f] # TickerOf[w.item]}
  <2>1. CASE w.sig # 0
    <3>1. Become(p, [[w EXCEPT !.new = @ \cup {c}, !.todo = left]
                          EXCEPT !.at = "link", !.cand = c])
      BY <1>10, <2>1, Zenon DEF MakeCandidate, w
    <3> QED
      BY <1>5, <1>10, <2>1, <3>1, Writers DEF w
  <2>2. CASE w.sig = 0
    <3>1. /\ Become(p, [[w EXCEPT !.new = @ \cup {c}, !.todo = left]
                          EXCEPT !.at = "item", !.item = NoCampaign])
          /\ w.at = "bare" => severed' = severed \cup {c}
      BY <1>10, <2>2, Zenon DEF MakeCandidate, At, w
    <3> QED
      BY <1>6, <1>10, <2>2, <3>1, Writers DEF w
  <2> QED
    BY <2>1, <2>2
<1> QED
  BY <1>7, <1>8, <1>9, <1>10 DEF w, v

(* ... and what its other steps do.                                        *)
LEMMA PassEffects ==
  ASSUME TypeOK, NEW p \in Procs
  PROVE  LET w == me[p]
             v == me'[p] IN
    /\ \A s : StartPass(p, s) => v.at = "fetched" /\ v.task = "pass" /\ v.strat = s
    /\ Generate(p) =>
         /\ w.at = "fetched" /\ v.at = "item" /\ v.sig = w.sig /\ Kept(v, w)
         /\ \E recent \in Recent(w.strat) : \A f \in v.todo :
              f \in Findings /\ TickerOf[f] \notin {TickerOfCand(c) : c \in recent}
    /\ SignalRaises(p) =>
         /\ w.at = "insert" /\ v.at = "bare" /\ v.sig = w.sig /\ Kept(v, w)
         /\ v.item = w.item /\ v.todo = w.todo
    /\ LinkCandidate(p) \/ LinkRaises(p) =>
         /\ w.at = "link" /\ v.at = "item" /\ Kept(v, w) /\ v.todo = w.todo
    /\ PassEnds(p) \/ PassDone(p) \/ EscalateEnds(p) => v = Resting
    /\ Escalate(p) => v.at = "escalating" /\ v.task = "pass"
    /\ EscalateNext(p) =>
         /\ w.at = "escalating" /\ v.at \in {"thesis", "sampling"} /\ v.task = w.task
<1> DEFINE w == me[p]
           v == me'[p]
<1>1. w \in Holdings /\ me \in [Procs -> Holdings]
  BY DEF TypeOK
<1>2. ASSUME NEW s, StartPass(p, s)
      PROVE  v.at = "fetched" /\ v.task = "pass" /\ v.strat = s
  BY <1>1, <1>2 DEF StartPass, Become, Resting
<1>3. ASSUME Generate(p)
      PROVE
         /\ w.at = "fetched" /\ v.at = "item" /\ v.sig = w.sig /\ Kept(v, w)
         /\ \E recent \in Recent(w.strat) : \A f \in v.todo :
              f \in Findings /\ TickerOf[f] \notin {TickerOfCand(c) : c \in recent}
  <2>1. PICK fs \in SUBSET Findings, recent \in Recent(w.strat) :
          Become(p, [w EXCEPT !.at = "item",
                       !.todo = {f \in fs : TickerOf[f] \notin
                                   {TickerOfCand(c) : c \in recent}}])
    BY <1>3 DEF Generate
  <2> DEFINE left == {f \in fs : TickerOf[f] \notin {TickerOfCand(c) : c \in recent}}
  <2>2. w.at = "fetched" /\ Become(p, [w EXCEPT !.at = "item", !.todo = left])
    BY <1>3, <2>1 DEF Generate, At
  <2> HIDE DEF left
  <2>3. v.at = "item" /\ v.sig = w.sig /\ Kept(v, w) /\ v.todo = left
    BY <1>1, <2>2 DEF Become, Holdings, Kept
  <2> QED
    BY <2>2, <2>3 DEF left
<1>4. ASSUME SignalRaises(p)
      PROVE  /\ w.at = "insert" /\ v.at = "bare" /\ v.sig = w.sig /\ Kept(v, w)
             /\ v.item = w.item /\ v.todo = w.todo
  BY <1>1, <1>4 DEF SignalRaises, Goto, At, Become, Holdings, Kept
<1>5. ASSUME LinkCandidate(p) \/ LinkRaises(p)
      PROVE  w.at = "link" /\ v.at = "item" /\ Kept(v, w) /\ v.todo = w.todo
  <2>1. w.at = "link" /\ ToNextItem(p)
    BY <1>5 DEF LinkCandidate, LinkRaises, At
  <2> QED
    BY <1>1, <2>1 DEF ToNextItem, Become, Holdings, Kept
<1>6. ASSUME PassEnds(p) \/ PassDone(p) \/ EscalateEnds(p) PROVE v = Resting
  BY <1>1, <1>6 DEF PassEnds, PassDone, EscalateEnds, Rest, Become
<1>7. ASSUME Escalate(p) PROVE v.at = "escalating" /\ v.task = "pass"
  BY <1>1, <1>7 DEF Escalate, Become, Resting
<1>8. ASSUME EscalateNext(p)
      PROVE  w.at = "escalating" /\ v.at \in {"thesis", "sampling"} /\ v.task = w.task
  BY <1>1, <1>8 DEF EscalateNext, At, Become, Holdings
<1> HIDE DEF w, v
<1> QED
  BY <1>2, <1>3, <1>4, <1>5, <1>6, <1>7, <1>8 DEF w, v

(* What is held fits the step its process is at. *)
LEMMA ShapePass ==
  ASSUME TypeOK, [Next]_vars, NEW p \in Procs, Pass(p)
  PROVE  Shape(me[p])'
<1> DEFINE w == me[p]
<1>1. w \in Holdings /\ Shape(w) /\ duty[p] \in Duties /\ me \in [Procs -> Holdings]
  BY Rows DEF TypeOK
<1>2. ASSUME NEW s \in duty[p].on, StartPass(p, s) PROVE Shape(me[p])'
  BY <1>1, <1>2 DEF StartPass, Become, Shape, Batching, Resting, Duties
<1>3. CASE Generate(p)
  BY <1>1, <1>3 DEF Generate, At, Become, Shape, Batching, Holdings
<1>4. CASE PassEnds(p) \/ PassDone(p) \/ EscalateEnds(p)
  BY <1>1, <1>4 DEF PassEnds, PassDone, EscalateEnds, Rest, Become, Shape, Batching,
    Resting
<1>5. ASSUME NEW f \in Findings, TakeItem(p, f) PROVE Shape(me[p])'
  BY <1>1, <1>5, ItemEffects DEF Shape, Batching, Kept
<1>6. ASSUME NEW f \in Findings, FindSignal(p, f) PROVE Shape(me[p])'
  <2>1. Matching(CampaignOf[w.strat], f) # {} =>
          Newest(Matching(CampaignOf[w.strat], f)) \in SignalIds
    BY MatchingNewest
  <2>2. SignalIds \subseteq SignalIds'
    BY Grows DEF SignalsStay
  <2> QED
    BY <1>1, <1>6, <2>1, <2>2, ItemEffects DEF Shape, Batching, Kept
<1>8. CASE InsertSignal(p)
  <2>1. Len(signals) + 1 \in SignalIds'
    BY <1>8, Inserted
  <2> QED
    BY <1>1, <1>8, <2>1, ItemEffects DEF Shape, Batching, Kept
<1>9. CASE SignalRaises(p)
  BY <1>1, <1>9 DEF SignalRaises, Goto, At, Become, Shape, Batching, Holdings
<1>10. CASE MakeCandidate(p)
  <2>1. Len(cands) + 1 \in CandIds'
    BY <1>10, Inserted
  <2>2. w.sig \in SignalIds => w.sig \in SignalIds'
    BY Grows DEF SignalsStay
  <2> QED
    BY <1>1, <1>10, <2>1, <2>2, ItemEffects DEF Shape, Batching, Kept
<1>11. CASE LinkCandidate(p) \/ LinkRaises(p)
  <2>1. w.at = "link" /\ ToNextItem(p)
    BY <1>11 DEF LinkCandidate, LinkRaises, At
  <2>2. LET v == me'[p]
        IN  v.at = "item" /\ v.sig = 0 /\ v.strat = w.strat /\ v.task = w.task
    BY <1>1, <2>1 DEF ToNextItem, Become, Holdings
  <2> QED
    BY <1>1, <2>1, <2>2 DEF Shape, Batching
<1>12. CASE Escalate(p)
  BY <1>1, <1>12 DEF Escalate, Become, Shape, Batching, Resting
<1>13. CASE EscalateNext(p)
  BY <1>1, <1>13 DEF EscalateNext, At, Become, Shape, Batching, Holdings
<1> QED
  BY <1>2, <1>3, <1>4, <1>5, <1>6, <1>8, <1>9, <1>10, <1>11, <1>12, <1>13 DEF Pass

(* After a paid call: on with the plan, or back to where the task goes on. *)
LEMMA ContinueEffects ==
  ASSUME TypeOK, NEW p \in Procs, NEW plan, Continue(p, plan)
  PROVE  LET w == me[p]
             v == me'[p] IN
    \/ /\ plan # << >> /\ v.at = "answered" /\ v.plan = plan
       /\ v.task = w.task /\ v.new = w.new /\ v.cand = w.cand
    \/ /\ plan = << >> /\ w.task \in {"pass", "postmortem"}
       /\ v.at = IF w.task = "pass" THEN "escalating" ELSE "batch"
       /\ v.task = w.task /\ v.new = w.new
    \/ /\ plan = << >> /\ w.task \notin {"pass", "postmortem"} /\ v = Resting
<1> DEFINE w == me[p]
<1>1. w \in Holdings /\ me \in [Procs -> Holdings]
  BY DEF TypeOK
<1>2. CASE plan # << >>
  <2>1. Become(p, [w EXCEPT !.at = "answered", !.plan = plan])
    BY <1>2 DEF Continue
  <2> HIDE DEF w
  <2>2. LET v == [w EXCEPT !.at = "answered", !.plan = plan]
        IN  /\ v.at = "answered" /\ v.plan = plan
            /\ v.task = w.task /\ v.new = w.new /\ v.cand = w.cand
    BY <1>1 DEF Holdings
  <2>3. me'[p] = [w EXCEPT !.at = "answered", !.plan = plan]
    BY <1>1, <2>1 DEF Become
  <2> QED
    BY <1>2, <2>2, <2>3 DEF w
<1>3. CASE plan = << >> /\ w.task \in {"pass", "postmortem"}
  <2>1. AfterCall(p) = IF w.task = "pass" THEN "escalating" ELSE "batch"
    BY <1>3 DEF AfterCall
  <2>2. AfterCall(p) # "idle"
    BY <2>1
  <2>3. Become(p, [w EXCEPT !.at = AfterCall(p), !.cand = 0, !.plan = << >>])
    BY <1>3, <2>2 DEF Continue
  <2> HIDE DEF w
  <2>4. LET v == [w EXCEPT !.at = AfterCall(p), !.cand = 0, !.plan = << >>]
        IN  v.at = AfterCall(p) /\ v.task = w.task /\ v.new = w.new
    BY <1>1 DEF Holdings
  <2>5. me'[p] = [w EXCEPT !.at = AfterCall(p), !.cand = 0, !.plan = << >>]
    BY <1>1, <2>3 DEF Become
  <2> QED
    BY <1>3, <2>1, <2>4, <2>5 DEF w
<1>4. CASE plan = << >> /\ w.task \notin {"pass", "postmortem"}
  BY <1>1, <1>4 DEF Continue, AfterCall, Rest, Become
<1> QED
  BY <1>2, <1>3, <1>4

(* What a call in flight belongs to.                                       *)
LEMMA ShapeCall ==
  ASSUME TypeOK, [Next]_vars, NEW p \in Procs, PaidCall(p)
  PROVE  Shape(me[p])'
<1> DEFINE w == me[p]
<1>1. w \in Holdings /\ Shape(w) /\ me \in [Procs -> Holdings]
  BY Rows DEF TypeOK
<1>2. ASSUME NEW c \in CandIds, StartThesis(p, c) PROVE Shape(me[p])'
  BY <1>1, <1>2 DEF StartThesis, Become, Shape, Batching, Resting
<1>3. CASE StartProposal(p)
  BY <1>1, <1>3 DEF StartProposal, Become, Shape, Batching, Resting
<1>4. ASSUME NEW plan, Continue(p, plan), w.at \in Calling \cup {"answered"},
             Batching(w) => plan \in {<<"audit", "log">>, <<"audit">>, <<"log">>, << >>}
      PROVE  Shape(me[p])'
  BY <1>1, <1>4, ContinueEffects DEF Shape, Batching, Resting
<1>5. CASE CallAnswered(p) \/ CallRaises(p)
  <2>1. PICK plan \in {Plan(w.at), PlanUnparsed(w.at), << >>} : Continue(p, plan)
    BY <1>5 DEF CallAnswered, CallRaises
  <2>2. w.at \in Calling
    BY <1>5 DEF CallAnswered, CallRaises
  <2>3. Batching(w) => w.at = "mortem"
    BY <1>1, <2>2 DEF Shape, Calling
  <2>4. Batching(w) => plan \in {<<"audit", "log">>, << >>}
    BY <2>1, <2>3 DEF Plan, PlanUnparsed
  <2> QED
    BY <1>4, <2>1, <2>2, <2>4
<1>6. CASE WriteScore(p) \/ WriteCost(p) \/ WriteAudit(p) \/ WriteStrategy(p)
  <2>1. Continue(p, Tail(w.plan)) /\ w.at = "answered"
    BY <1>6 DEF WriteScore, WriteCost, WriteAudit, WriteStrategy, Doing, At
  <2>2. Batching(w) => Tail(w.plan) \in {<<"log">>, << >>}
    <3>1. Tail(<<"audit", "log">>) = <<"log">> /\ Tail(<<"audit">>) = << >>
          /\ Tail(<<"log">>) = << >>
      OBVIOUS
    <3> QED
      BY <1>1, <2>1, <3>1 DEF Shape
  <2> QED
    BY <1>4, <2>1, <2>2
<1> QED
  BY <1>2, <1>3, <1>5, <1>6 DEF PaidCall

(* What a batch of post-mortems does to what is held. *)
LEMMA BatchEffects ==
  ASSUME TypeOK, NEW p \in Procs, NextTrade(p)
  PROVE  LET w == me[p]
             v == me'[p]
             t == Newest(w.new) IN
    /\ w.at = "batch" /\ t \in w.new
    /\ v.new = w.new \ {t} /\ v.cand = t /\ v.task = w.task
    /\ \/ v.at = "answered" /\ v.plan = <<"audit">>
       \/ v.at = "mortem"
<1> DEFINE w == me[p]
           t == Newest(w.new)
<1>1. w \in Holdings /\ Shape(w) /\ me \in [Procs -> Holdings]
  BY Rows DEF TypeOK
<1>2. w.at = "batch" /\ w.new # {}
  BY <1>1 DEF NextTrade, At
<1>3. t \in w.new
  <2>1. w.new \subseteq Losers
    BY <1>1, <1>2 DEF Shape
  <2>2. IsFiniteSet(w.new) /\ w.new \in SUBSET Nat
    BY <2>1, LosersAssumption, FS_Subset
  <2> QED
    BY <1>2, <2>2, NewestIn
<1>4. \/ Become(p, [[w EXCEPT !.cand = t, !.new = @ \ {t}]
                      EXCEPT !.at = "answered", !.plan = <<"audit">>])
      \/ Become(p, [[w EXCEPT !.cand = t, !.new = @ \ {t}] EXCEPT !.at = "mortem"])
  BY DEF NextTrade
<1> HIDE DEF w, t
<1>5. ASSUME Become(p, [[w EXCEPT !.cand = t, !.new = @ \ {t}]
                      EXCEPT !.at = "answered", !.plan = <<"audit">>])
      PROVE  LET v == me'[p]
             IN  /\ v.new = w.new \ {t} /\ v.cand = t /\ v.task = w.task
                 /\ v.at = "answered" /\ v.plan = <<"audit">>
  BY <1>1, <1>5 DEF Become, Holdings
<1>6. ASSUME Become(p, [[w EXCEPT !.cand = t, !.new = @ \ {t}] EXCEPT !.at = "mortem"])
      PROVE  LET v == me'[p]
             IN  /\ v.new = w.new \ {t} /\ v.cand = t /\ v.task = w.task
                 /\ v.at = "mortem"
  BY <1>1, <1>6 DEF Become, Holdings
<1> QED
  BY <1>2, <1>3, <1>4, <1>5, <1>6 DEF w, t

LEMMA ShapePostMortem ==
  ASSUME TypeOK, [Next]_vars, NEW p \in Procs, PostMortem(p)
  PROVE  Shape(me[p])'
<1>1. Shape(me[p]) /\ me \in [Procs -> Holdings]
  BY DEF TypeOK
<1>2. CASE StartPostMortems(p)
  <2>1. \A n : LatestPending(n) \subseteq Losers
    BY DEF LatestPending
  <2>2. PICK n : Become(p, [Resting EXCEPT !.at = "batch", !.task = "postmortem",
                                           !.new = LatestPending(n)])
    BY <1>2 DEF StartPostMortems
  <2>3. LET v == me'[p]
        IN  v.at = "batch" /\ v.task = "postmortem" /\ v.new = LatestPending(n)
    BY <1>1, <2>2 DEF Become, Resting
  <2> QED
    BY <2>1, <2>3 DEF Shape, Batching
<1>3. CASE NextTrade(p)
  <2> DEFINE v == me'[p]
  <2>1. Batching(me[p]) /\ me[p].new \subseteq Losers
    BY <1>1, <1>3, BatchEffects DEF Shape
  <2>2. Batching(v) /\ v.new \subseteq Losers
    BY <1>3, <2>1, BatchEffects DEF Batching
  <2>3. \/ v.at = "answered" /\ v.plan = <<"audit">>
        \/ v.at = "mortem"
    BY <1>3, BatchEffects
  <2>4. <<"audit">> # << >>
    OBVIOUS
  <2> QED
    BY <2>2, <2>3, <2>4 DEF Shape, Batching
<1>4. CASE BatchDone(p)
  BY <1>1, <1>4 DEF BatchDone, Rest, Become, Shape, Batching, Resting
<1> QED
  BY <1>2, <1>3, <1>4 DEF PostMortem

(* A mirror starts from a candidate and its signal, if it has one.         *)
LEMMA UpstreamOf ==
  ASSUME TypeOK, NEW c, Upstream(c) # 0
  PROVE  \E l \in links : l.cand = c /\ l.sig = Upstream(c)
BY DEF Upstream, SignalOf, LinksOf

(* What the steps of a mirror do to what is held. *)
LEMMA MirrorEffects ==
  ASSUME TypeOK, NEW p \in Procs
  PROVE  LET w == me[p]
             v == me'[p] IN
    /\ \A c \in CandIds : StartMirror(p, c) =>
         /\ w.at = "idle" /\ cands[c].strat \in DOMAIN TwinOf
         /\ \/ v = w
            \/ /\ MirrorsOf(c) = {}
               /\ v.at = "twin" /\ v.cand = c /\ v.task = "mirror"
            \/ /\ v.at = "bridge" /\ v.cand \in MirrorsOf(c) /\ v.task = "mirror"
               /\ v.sig = Upstream(c) /\ v.sig # 0
    /\ CreateMirror(p) =>
         /\ w.at = "twin"
         /\ \/ v = Resting /\ severed' = severed \cup {Len(cands) + 1}
            \/ /\ v.at = "bridge" /\ v.cand = Len(cands) + 1 /\ v.task = w.task
               /\ v.sig = Upstream(w.cand) /\ v.sig # 0
    /\ BridgeMirror(p) => w.at = "bridge" /\ v = Resting
<1> DEFINE w == me[p]
           v == me'[p]
<1>1. w \in Holdings /\ me \in [Procs -> Holdings]
  BY DEF TypeOK
<1>2. ASSUME NEW c, Become(p, [Resting EXCEPT !.at = "twin", !.task = "mirror", !.cand = c])
      PROVE  v.at = "twin" /\ v.cand = c /\ v.task = "mirror"
  BY <1>1, <1>2 DEF Become, Resting
<1>3. ASSUME NEW c, NEW sig,
             Become(p, [Resting EXCEPT !.at = "bridge", !.task = "mirror",
                                       !.cand = c, !.sig = sig])
      PROVE  v.at = "bridge" /\ v.cand = c /\ v.sig = sig /\ v.task = "mirror"
  BY <1>1, <1>3 DEF Become, Resting
<1>4. ASSUME NEW c, NEW sig,
             Become(p, [w EXCEPT !.at = "bridge", !.cand = c, !.sig = sig])
      PROVE  v.at = "bridge" /\ v.cand = c /\ v.sig = sig /\ v.task = w.task
  BY <1>1, <1>4 DEF Become, Holdings
<1>5. Rest(p) => v = Resting
  BY <1>1 DEF Rest, Become
<1> HIDE DEF w, v
<1>6. ASSUME NEW c \in CandIds, StartMirror(p, c)
      PROVE  /\ w.at = "idle" /\ cands[c].strat \in DOMAIN TwinOf
             /\ \/ v = w
                \/ /\ MirrorsOf(c) = {}
                   /\ v.at = "twin" /\ v.cand = c /\ v.task = "mirror"
                \/ /\ v.at = "bridge" /\ v.cand \in MirrorsOf(c) /\ v.task = "mirror"
                   /\ v.sig = Upstream(c) /\ v.sig # 0
  <2>1. w.at = "idle" /\ cands[c].strat \in DOMAIN TwinOf
    BY <1>6 DEF StartMirror, Free, At, w
  <2>2. CASE MirrorsOf(c) = {}
    BY <1>2, <1>6, <2>1, <2>2, Zenon DEF StartMirror
  <2>3. CASE MirrorsOf(c) # {}
    <3>1. PICK m \in MirrorsOf(c) :
            IF Upstream(c) # 0 /\ LinksOf(m) = {}
            THEN Become(p, [Resting EXCEPT !.at = "bridge", !.task = "mirror",
                                           !.cand = m, !.sig = Upstream(c)])
            ELSE UNCHANGED me
      BY <1>6, <2>3, Zenon DEF StartMirror
    <3> QED
      BY <1>3, <2>1, <3>1 DEF w, v
  <2> QED
    BY <2>2, <2>3
<1>7. ASSUME CreateMirror(p)
      PROVE  /\ w.at = "twin"
             /\ \/ v = Resting /\ severed' = severed \cup {Len(cands) + 1}
                \/ /\ v.at = "bridge" /\ v.cand = Len(cands) + 1 /\ v.task = w.task
                   /\ v.sig = Upstream(w.cand) /\ v.sig # 0
  <2>1. w.at = "twin"
    BY <1>7, Writers DEF w
  <2>2. CASE Upstream(w.cand) = 0
    <3>1. Rest(p) /\ severed' = severed \cup {Len(cands) + 1}
      BY <1>7, <2>2, Zenon DEF CreateMirror, w
    <3> QED
      BY <1>5, <2>1, <3>1
  <2>3. CASE Upstream(w.cand) # 0
    <3>1. Become(p, [w EXCEPT !.at = "bridge", !.cand = Len(cands) + 1,
                              !.sig = Upstream(w.cand)])
      BY <1>7, <2>3, Zenon DEF CreateMirror, w
    <3> QED
      BY <1>4, <2>1, <2>3, <3>1
  <2> QED
    BY <2>2, <2>3
<1>8. ASSUME BridgeMirror(p) PROVE w.at = "bridge" /\ v = Resting
  BY <1>5, <1>8 DEF BridgeMirror, At, w
<1> QED
  BY <1>6, <1>7, <1>8 DEF w, v

LEMMA ShapeMirror ==
  ASSUME TypeOK, [Next]_vars, NEW p \in Procs, Mirror(p)
  PROVE  Shape(me[p])'
<1> DEFINE w == me[p]
<1>1. Shape(w) /\ me \in [Procs -> Holdings]
  BY DEF TypeOK
<1>2. \A c \in CandIds : c \in CandIds' /\ cands'[c].strat = cands[c].strat
  BY Grows DEF CandsStay
<1>3. \A i \in SignalIds : i \in SignalIds'
  BY Grows DEF SignalsStay
<1>4. \A c : Upstream(c) # 0 => Upstream(c) \in SignalIds
  BY UpstreamOf DEF TypeOK
<1>5. \A c : MirrorsOf(c) \subseteq CandIds
  BY DEF MirrorsOf, PendingOf
<1>6. Shape(Resting)'
  BY DEF Shape, Batching, Resting
<1>7. me'[p] = me[p] => Shape(me[p])'
  BY ShapeStays
<1>8. ASSUME NEW c \in CandIds, StartMirror(p, c) PROVE Shape(me[p])'
  BY <1>2, <1>3, <1>4, <1>5, <1>7, <1>8, MirrorEffects DEF Shape, Batching
<1>9. CASE CreateMirror(p)
  <2>1. Len(cands) + 1 \in CandIds'
    BY <1>9, Inserted
  <2>2. ~Batching(w)
    BY <1>1, <1>9, MirrorEffects DEF Shape
  <2> QED
    BY <1>3, <1>4, <1>6, <1>9, <2>1, <2>2, MirrorEffects DEF Shape, Batching
<1>10. CASE BridgeMirror(p)
  BY <1>6, <1>10, MirrorEffects
<1> QED
  BY <1>8, <1>9, <1>10 DEF Mirror

(* The first state is well typed. *)
LEMMA TypeInit == Init => TypeOK
<1> SUFFICES ASSUME Init PROVE TypeOK
  OBVIOUS
<1>1. now \in 1 .. MaxDay /\ costs \in [Months -> Nat]
  BY BudgetAssumption DEF Init, BudgetInit
<1>2. cands = << >> /\ signals = << >> /\ audits = << >> /\ links = {}
  BY DEF Init, ResearchTablesInit
<1>3. duty \in [Procs -> Duties]
  BY DivisionsAssumption DEF Init, Duties
<1>4. me \in [Procs -> Holdings] /\ \A p \in Procs : me[p] = Resting
  BY RestingType DEF Init
<1>5. Shape(Resting)
  BY DEF Shape, Batching, Resting
<1> QED
  BY <1>1, <1>2, <1>3, <1>4, <1>5 DEF TypeOK

(* A link goes from a signal that is there to a candidate that is there.   *)
LEMMA LinkMoves ==
  ASSUME TypeOK, [Next]_vars, NEW l \in links'
  PROVE  \/ l \in links
         \/ \E p \in Procs :
              /\ me[p].at \in {"link", "bridge"}
              /\ l = [sig |-> me[p].sig, cand |-> me[p].cand,
                      strat |-> cands[me[p].cand].strat,
                      via |-> IF me[p].at = "link" THEN "research" ELSE "baseline_mirror"]
              /\ LinksOf(me[p].cand) = {}
              /\ links' = links \cup {l}
<1>1. ASSUME NEW sig, NEW c, NEW via, Link(sig, c, via)
      PROVE  \/ l \in links
             \/ /\ l = [sig |-> sig, cand |-> c, strat |-> cands[c].strat, via |-> via]
                /\ LinksOf(c) = {} /\ links' = links \cup {l}
  BY <1>1 DEF Link
<1>2. ASSUME NEW p \in Procs, LinkCandidate(p)
      PROVE  me[p].at = "link" /\ Link(me[p].sig, me[p].cand, "research")
  BY <1>2 DEF LinkCandidate, At
<1>3. ASSUME NEW p \in Procs, BridgeMirror(p)
      PROVE  /\ me[p].at = "bridge"
             /\ Link(me[p].sig, me[p].cand, "baseline_mirror") \/ links' = links
  BY <1>3 DEF BridgeMirror, At
<1> QED
  BY <1>1, <1>2, <1>3, TableMoves

(* Every step keeps the types. *)
LEMMA TypeNext == TypeOK /\ [Next]_vars => TypeOK'
<1> SUFFICES ASSUME TypeOK, [Next]_vars PROVE TypeOK'
  OBVIOUS
<1>1. me' \in [Procs -> Holdings]
  BY TableMoves, ActorMoves DEF TypeOK
<1>2. \A q \in Procs : Shape(me[q])'
  <2> SUFFICES ASSUME NEW q \in Procs PROVE Shape(me[q])'
    OBVIOUS
  <2>1. CASE Acts(q)
    <3>1. Crash(q) => me'[q] = Resting
      BY DEF Crash, Rest, Become, TypeOK
    <3>2. Shape(Resting)'
      BY DEF Shape, Batching, Resting
    <3> QED
      BY <2>1, <3>1, <3>2, ShapePass, ShapeCall, ShapePostMortem, ShapeMirror DEF Acts
  <2>2. CASE ~Acts(q)
    <3>1. me'[q] = me[q]
      BY <2>2, TableMoves, ActorMoves
    <3> QED
      BY <3>1, ShapeStays
  <2> QED
    BY <2>1, <2>2
<1>3. links' \in SUBSET LinkRows /\ \A l \in links' : l.cand \in CandIds' /\ l.sig \in SignalIds'
  <2> SUFFICES ASSUME NEW l \in links'
               PROVE  l \in LinkRows /\ l.cand \in CandIds' /\ l.sig \in SignalIds'
    OBVIOUS
  <2>1. CASE l \in links
    BY <2>1, Grows DEF TypeOK, CandsStay, SignalsStay
  <2>2. CASE l \notin links
    <3>1. PICK p \in Procs :
            /\ me[p].at \in {"link", "bridge"}
            /\ l = [sig |-> me[p].sig, cand |-> me[p].cand,
                    strat |-> cands[me[p].cand].strat,
                    via |-> IF me[p].at = "link" THEN "research" ELSE "baseline_mirror"]
      BY <2>2, LinkMoves
    <3>2. me[p].cand \in CandIds /\ me[p].sig \in SignalIds
      BY <3>1 DEF TypeOK, Shape
    <3>3. /\ me[p].cand \in Nat /\ me[p].sig \in Nat
          /\ cands[me[p].cand].strat \in Strategies
      BY <3>2, Rows DEF CandRows
    <3> QED
      BY <3>1, <3>2, <3>3, Grows DEF LinkRows, CandsStay, SignalsStay
  <2> QED
    BY <2>1, <2>2
<1>4. audits' \in Seq(AuditRows)
  <2>1. ASSUME NEW p \in Procs, WriteAudit(p) PROVE audits' \in Seq(AuditRows)
    <3>1. [kind |-> AuditKind(p), of |-> me[p].cand, day |-> now, by |-> p] \in AuditRows
      BY Rows, Grows DEF AuditKind, AuditRows, Holdings
    <3> QED
      BY <2>1, <3>1 DEF WriteAudit, LogAudit, TypeOK
  <2> QED
    BY <2>1, TableMoves DEF TypeOK
<1>5. costs' \in [Months -> Nat]
  <2>0. MonthOf(now) \in Months
    BY MonthsInOrder DEF TypeOK
  <2>1. ASSUME NEW p \in Procs, WriteCost(p) PROVE costs' \in [Months -> Nat]
    <3>1. costs' = [costs EXCEPT ![MonthOf(now)] = @ + 1]
      BY <2>1 DEF WriteCost, LogCost
    <3> QED
      BY <2>0, <3>1 DEF TypeOK
  <2> QED
    BY <2>1, TableMoves DEF TypeOK
<1>6. duty' \in [Procs -> Duties]
  BY TableMoves DEF TypeOK
<1> QED
  BY <1>1, <1>2, <1>3, <1>4, <1>5, <1>6, Grows DEF TypeOK, CandsStay, SignalsStay

(* Every column of the research tables, and what every process holds of    *)
(* them, has its type: in particular every id in hand names a row.         *)
THEOREM TypeCorrect == Spec => []TypeOK
  BY TypeInit, TypeNext, PTL DEF Spec

-----------------------------------------------------------------------------
(* Provenance.                                                             *)

(* What another process holds stays true: rows are never rewritten.        *)
LEMMA HoldsStays ==
  ASSUME TypeOK, [Next]_vars, NEW q \in Procs, Holds(me[q]), me'[q] = me[q]
  PROVE  Holds(me[q])'
<1>1. Shape(me[q])
  BY DEF TypeOK
<1> QED
  BY <1>1, Grows DEF Shape, Holds, CandsStay, SignalsStay, TickerOfCand

(* A pass links the signal and the candidate of one finding. *)
LEMMA HoldsPass ==
  ASSUME TypeOK, [Next]_vars, NEW p \in Procs, Holds(me[p]), Pass(p)
  PROVE  Holds(me[p])'
<1> DEFINE w == me[p]
<1>1. w \in Holdings /\ Shape(w) /\ Holds(w) /\ me \in [Procs -> Holdings]
  BY DEF TypeOK
<1>2. ASSUME me'[p].at \notin {"create", "link", "bridge"} PROVE Holds(me[p])'
  BY <1>2 DEF Holds
<1>3. \A i \in SignalIds : signals'[i] = signals[i]
  BY Grows DEF SignalsStay
<1>4. ASSUME NEW f \in Findings, TakeItem(p, f) PROVE Holds(me[p])'
  BY <1>1, <1>4, ItemEffects DEF Holds, Shape, Kept
<1>5. ASSUME NEW f \in Findings, FindSignal(p, f) PROVE Holds(me[p])'
  BY <1>1, <1>2, <1>3, <1>5, ItemEffects, MatchingNewest DEF Holds, Kept
<1>6. CASE InsertSignal(p)
  <2> DEFINE i == Len(signals) + 1
  <2>1. signals'[i].camp = CampaignOf[w.strat] /\ signals'[i].finding = w.item
    <3>1. signals'[i] = [camp |-> CampaignOf[w.strat], finding |-> w.item, by |-> p]
      BY <1>6, Inserted
    <3> QED
      BY <3>1
  <2>2. i # 0
    BY Rows
  <2> HIDE DEF i
  <2>3. LET v == me'[p]
        IN  v.at = "create" /\ v.sig = i /\ v.item = w.item /\ v.strat = w.strat
    BY <1>6, ItemEffects DEF i, Kept
  <2> QED
    BY <2>1, <2>2, <2>3 DEF Holds
<1>7. CASE MakeCandidate(p)
  <2> DEFINE v == me'[p]
             c == Len(cands) + 1
  <2>1. CASE v.at = "item"
    BY <1>2, <2>1
  <2>2. CASE w.sig # 0 /\ v.at = "link" /\ v.cand = c /\ v.sig = w.sig
    <3>1. cands'[c].finding = w.item /\ cands'[c].strat = w.strat
      <4>1. cands'[c] = NewCandidate(w.strat, w.item, now, p)
        BY <1>7, Inserted
      <4> QED
        BY <4>1 DEF NewCandidate
    <3>2. w.at = "create"
      BY <1>1, <1>7, <2>2, ItemEffects DEF Shape
    <3>3. /\ w.sig \in SignalIds /\ signals'[w.sig] = signals[w.sig]
          /\ signals[w.sig].finding = w.item /\ signals[w.sig].camp = CampaignOf[w.strat]
      BY <1>1, <1>3, <2>2, <3>2 DEF Shape, Holds
    <3> HIDE DEF c
    <3> QED
      BY <2>2, <3>1, <3>3 DEF Holds
  <2> QED
    BY <1>7, <2>1, <2>2, ItemEffects
<1>9. ASSUME NEW s, StartPass(p, s) PROVE Holds(me[p])'
  BY <1>2, <1>9, PassEffects
<1>10. ASSUME \/ Generate(p) \/ PassEnds(p) \/ PassDone(p) \/ SignalRaises(p)
              \/ LinkCandidate(p) \/ LinkRaises(p)
              \/ Escalate(p) \/ EscalateNext(p) \/ EscalateEnds(p)
       PROVE  Holds(me[p])'
  BY <1>2, <1>10, PassEffects DEF Resting
<1> QED
  BY <1>4, <1>5, <1>6, <1>7, <1>9, <1>10 DEF Pass

(* So does everything a process may do. *)
LEMMA HoldsNext ==
  ASSUME TypeOK, ProvenanceInv, [Next]_vars, NEW q \in Procs
  PROVE  Holds(me[q])'
<1> DEFINE w == me[q]
<1>1. w \in Holdings /\ Shape(w) /\ Holds(w) /\ me \in [Procs -> Holdings]
  BY DEF TypeOK, ProvenanceInv
<1>2. ASSUME me'[q].at \notin {"create", "link", "bridge"} PROVE Holds(me[q])'
  BY <1>2 DEF Holds
<1>3. CASE ~Acts(q)
  <2>1. me'[q] = me[q]
    BY <1>3, TableMoves, ActorMoves
  <2> QED
    BY <1>1, <2>1, HoldsStays
<1>4. CASE Pass(q)
  BY <1>1, <1>4, HoldsPass
<1>5. CASE PaidCall(q)
  <2>1. \A plan : Continue(q, plan) => me'[q].at \in {"answered", "escalating", "batch", "idle"}
    BY ContinueEffects DEF Resting
  <2>2. me'[q].at \in {"answered", "escalating", "batch", "idle", "thesis", "proposing"}
    BY <1>1, <1>5, <2>1 DEF PaidCall, StartThesis, StartProposal, CallAnswered, CallRaises,
      WriteScore, WriteCost, WriteAudit, WriteStrategy, Become, Resting
  <2> QED
    BY <1>2, <2>2
<1>6. CASE PostMortem(q) \/ Crash(q)
  <2>1. StartPostMortems(q) => me'[q].at = "batch"
    BY <1>1 DEF StartPostMortems, Become, Resting
  <2>2. Rest(q) => me'[q].at = "idle"
    BY <1>1 DEF Rest, Become, Resting
  <2>3. me'[q].at \in {"answered", "mortem", "batch", "idle"}
    BY <1>6, <2>1, <2>2, BatchEffects DEF PostMortem, BatchDone, Crash
  <2> QED
    BY <1>2, <2>3
<1>7. \A c : Upstream(c) # 0 =>
        /\ Upstream(c) \in SignalIds /\ signals'[Upstream(c)] = signals[Upstream(c)]
        /\ TickerOf[signals[Upstream(c)].finding] = TickerOfCand(c)
  <2> SUFFICES ASSUME NEW c, Upstream(c) # 0
               PROVE  /\ Upstream(c) \in SignalIds
                      /\ signals'[Upstream(c)] = signals[Upstream(c)]
                      /\ TickerOf[signals[Upstream(c)].finding] = TickerOfCand(c)
    OBVIOUS
  <2>1. PICK l \in links : l.cand = c /\ l.sig = Upstream(c)
    BY UpstreamOf
  <2> QED
    BY <2>1, Grows DEF TypeOK, SignalsStay, ProvenanceInv, ProvenanceSound
<1>8. ASSUME NEW c \in CandIds, StartMirror(q, c) PROVE Holds(me[q])'
  <2> DEFINE v == me'[q]
  <2>1. CASE v = w \/ v.at = "twin"
    BY <1>1, <1>2, <2>1, HoldsStays
  <2>2. CASE v.at = "bridge" /\ v.cand \in MirrorsOf(c) /\ v.sig = Upstream(c) /\ v.sig # 0
    <3>1. /\ v.cand \in CandIds /\ TickerOfCand(v.cand) = TickerOfCand(c)
          /\ cands'[v.cand].finding = cands[v.cand].finding
      BY <2>2, Grows DEF MirrorsOf, PendingOf, CandsStay
    <3> QED
      BY <1>7, <2>2, <3>1 DEF Holds, TickerOfCand
  <2> QED
    BY <1>8, <2>1, <2>2, MirrorEffects
<1>9. CASE CreateMirror(q)
  <2> DEFINE v == me'[q]
             c == Len(cands) + 1
  <2>1. CASE v = Resting
    BY <1>2, <2>1 DEF Resting
  <2>2. CASE v.at = "bridge" /\ v.cand = c /\ v.sig = Upstream(w.cand) /\ v.sig # 0
    <3>1. cands'[c].finding = cands[w.cand].finding
      <4>1. cands'[c] = NewCandidate(TwinOf[cands[w.cand].strat], cands[w.cand].finding, now, q)
        BY <1>9, Inserted
      <4> QED
        BY <4>1 DEF NewCandidate
    <3> HIDE DEF c
    <3> QED
      BY <1>7, <2>2, <3>1 DEF Holds, TickerOfCand
  <2> QED
    BY <1>9, <2>1, <2>2, MirrorEffects
<1>10. CASE BridgeMirror(q)
  BY <1>2, <1>10, MirrorEffects DEF Resting
<1> QED
  BY <1>3, <1>4, <1>5, <1>6, <1>8, <1>9, <1>10 DEF Acts, Mirror

(* No step makes a link that does not match. *)
LEMMA ProvenanceNext ==
  TypeOK /\ ProvenanceInv /\ [Next]_vars => ProvenanceInv'
<1> SUFFICES ASSUME TypeOK, ProvenanceInv, [Next]_vars PROVE ProvenanceInv'
  OBVIOUS
<1>1. \A q \in Procs : Holds(me[q])'
  BY HoldsNext
<1>2. \A l \in links : /\ l.cand \in CandIds /\ l.sig \in SignalIds
                       /\ signals'[l.sig] = signals[l.sig]
                       /\ cands'[l.cand].strat = cands[l.cand].strat
                       /\ cands'[l.cand].finding = cands[l.cand].finding
  BY Grows DEF TypeOK, CandsStay, SignalsStay
<1>3. ASSUME NEW l \in links', l \notin links
      PROVE  /\ LinksOf(l.cand) = {} /\ links' = links \cup {l}
             /\ l.strat = cands'[l.cand].strat
             /\ TickerOf[signals'[l.sig].finding] = TickerOf[cands'[l.cand].finding]
             /\ l.via = "research" =>
                  /\ signals'[l.sig].finding = cands'[l.cand].finding
                  /\ signals'[l.sig].camp = CampaignOf[cands'[l.cand].strat]
  <2>1. PICK p \in Procs :
              /\ me[p].at \in {"link", "bridge"}
              /\ l = [sig |-> me[p].sig, cand |-> me[p].cand,
                      strat |-> cands[me[p].cand].strat,
                      via |-> IF me[p].at = "link" THEN "research" ELSE "baseline_mirror"]
              /\ LinksOf(me[p].cand) = {}
              /\ links' = links \cup {l}
    BY <1>3, LinkMoves
  <2> DEFINE w == me[p]
  <2>2. /\ l.sig = w.sig /\ l.cand = w.cand /\ l.strat = cands[w.cand].strat
        /\ l.via = "research" => w.at = "link"
    BY <2>1
  <2>3. w.cand \in CandIds /\ w.sig \in SignalIds /\ Holds(w)
    BY <2>1 DEF TypeOK, Shape, ProvenanceInv
  <2>4. /\ signals'[w.sig] = signals[w.sig]
        /\ cands'[w.cand].strat = cands[w.cand].strat
        /\ cands'[w.cand].finding = cands[w.cand].finding
    BY <2>3, Grows DEF CandsStay, SignalsStay
  <2>5. /\ TickerOf[signals[w.sig].finding] = TickerOf[cands[w.cand].finding]
        /\ w.at = "link" => /\ signals[w.sig].finding = cands[w.cand].finding
                            /\ signals[w.sig].camp = CampaignOf[cands[w.cand].strat]
    BY <2>1, <2>3 DEF Holds, TickerOfCand
  <2> QED
    BY <2>1, <2>2, <2>4, <2>5
<1>4. \A k, l \in links' : k.cand = l.cand => k = l
  <2> SUFFICES ASSUME NEW k \in links', NEW l \in links', k.cand = l.cand, k # l PROVE FALSE
    OBVIOUS
  <2>1. ASSUME NEW m \in links', m \notin links PROVE \A n \in links : n.cand # m.cand
    BY <1>3, <2>1 DEF LinksOf
  <2>2. ASSUME NEW m \in links', m \notin links PROVE \A n \in links' : n # m => n \in links
    BY <1>3, <2>2
  <2> QED
    BY <2>1, <2>2 DEF ProvenanceInv, ProvenanceSound
<1>5. \A l \in links' :
       /\ l.strat = cands'[l.cand].strat
       /\ TickerOf[signals'[l.sig].finding] = TickerOf[cands'[l.cand].finding]
       /\ l.via = "research" =>
            /\ signals'[l.sig].finding = cands'[l.cand].finding
            /\ signals'[l.sig].camp = CampaignOf[cands'[l.cand].strat]
  <2>1. \A l \in links :
       /\ l.strat = cands[l.cand].strat
       /\ TickerOf[signals[l.sig].finding] = TickerOf[cands[l.cand].finding]
       /\ l.via = "research" =>
            /\ signals[l.sig].finding = cands[l.cand].finding
            /\ signals[l.sig].camp = CampaignOf[cands[l.cand].strat]
    BY DEF ProvenanceInv, ProvenanceSound, TickerOfCand
  <2> QED
    BY <1>2, <1>3, <2>1
<1> QED
  BY <1>1, <1>4, <1>5 DEF ProvenanceInv, ProvenanceSound, TickerOfCand

(* A candidate's upstream signal is the one it was made from, whichever    *)
(* process inserted it and however often a pass was cut off                *)
(* (candidates.py:87-132, signals.py:51-162, baseline.py:78-106).          *)
THEOREM SignalsMatchCandidates == Spec => []ProvenanceSound
<1>1. Init => ProvenanceInv
  BY DEF Init, ResearchTablesInit, ProvenanceInv, ProvenanceSound, Holds, Resting
<1>2. ProvenanceInv => ProvenanceSound
  BY DEF ProvenanceInv
<1> QED
  BY <1>1, <1>2, ProvenanceNext, TypeCorrect, PTL DEF Spec

(* A cut link is remembered, and links stay.                               *)
LEMMA LinksGrow ==
  ASSUME [Next]_vars
  PROVE  severed \subseteq severed' /\ links \subseteq links'
<1> USE DEF vars, budgetVars, researchTables, tableVars, history
<1>1. severed \subseteq severed'
  <2>1. CASE Dispose \/ NewDay \/ UNCHANGED vars
    BY <2>1 DEF Dispose, NewDay
  <2>2. ASSUME NEW p \in Procs, Pass(p) PROVE severed \subseteq severed'
    BY <2>2 DEF Pass, StartPass, Generate, PassEnds, TakeItem, FindSignal,
      InsertSignal, SignalRaises, MakeCandidate, LinkCandidate, LinkRaises, PassDone,
      Escalate, EscalateNext, EscalateEnds
  <2>3. ASSUME NEW p \in Procs, PaidCall(p) PROVE severed' = severed
    BY <2>3 DEF PaidCall, StartThesis, StartProposal, CallAnswered, CallRaises,
      WriteScore, WriteCost, WriteAudit, WriteStrategy
  <2>4. ASSUME NEW p \in Procs, PostMortem(p) \/ Crash(p) PROVE severed \subseteq severed'
    BY <2>4 DEF PostMortem, StartPostMortems, NextTrade, BatchDone, Crash
  <2>5. ASSUME NEW p \in Procs, Mirror(p) PROVE severed \subseteq severed'
    BY <2>5 DEF Mirror, StartMirror, CreateMirror, BridgeMirror
  <2> QED
    BY <2>1, <2>2, <2>3, <2>4, <2>5 DEF Next
<1>2. links \subseteq links'
  BY TableMoves DEF LinkCandidate, BridgeMirror, Link
<1> QED
  BY <1>1, <1>2

(* Before the link there are four ways on.                                 *)
LEMMA LinkingSteps ==
  ASSUME NEW p \in Procs, Acts(p), me[p].at \in {"link", "bridge"}
  PROVE  LinkCandidate(p) \/ LinkRaises(p) \/ BridgeMirror(p) \/ Crash(p)
<1>1. CASE Pass(p)
  BY <1>1 DEF Pass, StartPass, Generate, PassEnds, TakeItem, FindSignal, Wanted,
    InsertSignal, SignalRaises, MakeCandidate, PassDone, Free, At,
    Escalate, EscalateNext, EscalateEnds
<1>2. CASE PaidCall(p)
  BY <1>2 DEF PaidCall, StartThesis, StartProposal, CallAnswered, CallRaises,
    WriteScore, WriteCost, WriteAudit, WriteStrategy, Free, At, Doing, Calling
<1>3. CASE PostMortem(p)
  BY <1>3 DEF PostMortem, StartPostMortems, NextTrade, BatchDone, Free, At
<1>4. CASE Mirror(p)
  BY <1>4 DEF Mirror, StartMirror, CreateMirror, Free, At
<1> QED
  BY <1>1, <1>2, <1>3, <1>4 DEF Acts

(* Linked is linked, now or before.                                        *)
LEMMA LinkLinks ==
  ASSUME NEW sig, NEW c, NEW via, Link(sig, c, via)
  PROVE  LinksOf(c)' # {}
<1> DEFINE l == [sig |-> sig, cand |-> c, strat |-> cands[c].strat, via |-> via]
<1>1. CASE LinksOf(c) # {}
  BY <1>1 DEF Link, LinksOf
<1>2. CASE LinksOf(c) = {}
  <2>1. links' = links \cup {l}
    BY <1>2 DEF Link
  <2>2. l.cand = c
    OBVIOUS
  <2> HIDE DEF l
  <2> QED
    BY <2>1, <2>2 DEF LinksOf
<1> QED
  BY <1>1, <1>2

(* The process that is about to link a candidate leaves it with the signal *)
(* or on record as cut off.                                                *)
LEMMA KeptNext ==
  TypeOK /\ ProvenanceInv /\ ProvenanceKept /\ [Next]_vars => ProvenanceKept'
<1> SUFFICES ASSUME TypeOK, ProvenanceInv, ProvenanceKept, [Next]_vars,
                    NEW c \in CandIds', c \notin severed'
             PROVE  \/ CampaignOf[cands'[c].strat] = NoCampaign
                    \/ LinksOf(c)' # {}
                    \/ \E p \in Procs : me'[p].at \in {"link", "bridge"} /\ me'[p].cand = c
  BY DEF ProvenanceKept
<1>1. severed \subseteq severed' /\ links \subseteq links'
  BY LinksGrow
<1>2. ASSUME NEW p \in Procs, me[p].at \in {"link", "bridge"}, me[p].cand = c
      PROVE  \/ LinksOf(c)' # {}
             \/ me'[p].at \in {"link", "bridge"} /\ me'[p].cand = c
  <2>1. CASE ~Acts(p)
    <3>1. me'[p] = me[p]
      BY <2>1, TableMoves, ActorMoves
    <3> QED
      BY <1>2, <3>1
  <2>2. CASE LinkCandidate(p)
    <3>1. Link(me[p].sig, c, "research")
      BY <1>2, <2>2 DEF LinkCandidate
    <3> QED
      BY <3>1, LinkLinks
  <2>3. CASE BridgeMirror(p)
    <3>1. CASE LinksOf(c) # {}
      BY <1>1, <3>1 DEF LinksOf
    <3>2. CASE LinksOf(c) = {}
      <4>1. Link(me[p].sig, c, "baseline_mirror")
        BY <1>2, <2>3, <3>2 DEF BridgeMirror, Linkable
      <4> QED
        BY <4>1, LinkLinks
    <3> QED
      BY <3>1, <3>2
  <2>4. CASE LinkRaises(p) \/ Crash(p)
    BY <1>2, <2>4 DEF LinkRaises, Crash
  <2> QED
    BY <1>2, <2>1, <2>2, <2>3, <2>4, LinkingSteps
<1>3. CASE c \in CandIds
  <2>1. c \notin severed
    BY <1>1
  <2>2. cands'[c].strat = cands[c].strat
    BY <1>3, Grows DEF CandsStay
  <2>3. LinksOf(c) # {} => LinksOf(c)' # {}
    BY <1>1 DEF LinksOf
  <2> QED
    BY <1>2, <1>3, <2>1, <2>2, <2>3 DEF ProvenanceKept
<1>4. CASE c \notin CandIds
  <2>1. PICK p \in Procs : MakeCandidate(p) \/ CreateMirror(p)
    <3>1. Dispose => CandIds' = CandIds
      BY DEF Dispose, DisposeCandidate, CandIds
    <3> QED
      BY <1>4, <3>1, TableMoves DEF CandIds
  <2>2. c = Len(cands) + 1
    BY <1>4, <2>1, Inserted
  <2>3. CASE MakeCandidate(p)
    <3>1. me[p].sig # 0 => me'[p].at = "link" /\ me'[p].cand = c
      BY <2>2, <2>3, ItemEffects
    <3>2. me[p].sig = 0 => me[p].at = "create"
      BY <2>2, <2>3, ItemEffects
    <3>3. me[p].sig = 0 => CampaignOf[me[p].strat] = NoCampaign
      BY <3>2 DEF ProvenanceInv, Holds
    <3>4. cands'[c].strat = me[p].strat
      <4>1. cands'[c] = NewCandidate(me[p].strat, me[p].item, now, p)
        BY <2>2, <2>3, Inserted
      <4> QED
        BY <4>1 DEF NewCandidate
    <3> QED
      BY <3>1, <3>3, <3>4
  <2>4. CASE CreateMirror(p)
    BY <2>2, <2>4, MirrorEffects
  <2> QED
    BY <2>1, <2>3, <2>4
<1> QED
  BY <1>3, <1>4

(* No candidate loses its signal but to an error or a crash: until its     *)
(* process has linked it, the process is there to do so                    *)
(* (candidates.py:108-132, baseline.py:86-106).                            *)
THEOREM SignalsAreKept == Spec => []ProvenanceKept
<1>1. Init => ProvenanceInv /\ ProvenanceKept
  BY DEF Init, ResearchTablesInit, ProvenanceInv, ProvenanceSound, ProvenanceKept,
    CandIds, Holds, Resting
<1> QED
  BY <1>1, ProvenanceNext, KeptNext, TypeCorrect, PTL DEF Spec

-----------------------------------------------------------------------------
(* Dates.                                                                  *)

(* Rows carry the day they are made, and costs go to the month it is.      *)
LEMMA DatesNext == TypeOK /\ DatesInv /\ [Next]_vars => DatesInv'
<1> SUFFICES ASSUME TypeOK, DatesInv, [Next]_vars PROVE DatesInv'
  OBVIOUS
<1>1. now \in Nat /\ now' \in Nat /\ now <= now' /\ now \in 1 .. MaxDay /\ now' \in 1 .. MaxDay
  BY Grows DEF TypeOK
<1>2. ASSUME NEW c \in CandIds' PROVE cands'[c].born <= now'
  <2>1. CASE c \in CandIds
    <3>1. cands'[c].born = cands[c].born /\ cands[c].born <= now /\ cands[c].born \in Nat
      BY <2>1, Grows, Rows DEF CandsStay, DatesInv, CandRows
    <3> QED
      BY <1>1, <3>1
  <2>2. CASE c \notin CandIds
    <3>1. PICK p \in Procs : MakeCandidate(p) \/ CreateMirror(p)
      <4>1. Dispose => CandIds' = CandIds
        BY DEF Dispose, DisposeCandidate, CandIds
      <4> QED
        BY <2>2, <4>1, TableMoves DEF CandIds
    <3>2. c = Len(cands) + 1
      BY <2>2, <3>1, Inserted
    <3>3. cands'[c].born = now
      <4>1. PICK s, f : cands'[c] = NewCandidate(s, f, now, p)
        BY <3>1, <3>2, MadeRow
      <4> QED
        BY <4>1 DEF NewCandidate
    <3> QED
      BY <1>1, <3>3
  <2> QED
    BY <2>1, <2>2
<1>3. ASSUME NEW i \in DOMAIN audits' PROVE audits'[i].day <= now'
  <2>1. CASE audits' = audits
    <3>1. audits[i].day <= now /\ audits[i].day \in Nat
      BY <2>1, Rows DEF DatesInv, AuditRows
    <3> QED
      BY <1>1, <2>1, <3>1
  <2>2. ASSUME NEW p \in Procs, WriteAudit(p) PROVE audits'[i].day <= now'
    <3> DEFINE x == [kind |-> AuditKind(p), of |-> me[p].cand, day |-> now, by |-> p]
    <3>1. audits' = Append(audits, x) /\ x.day = now
      BY <2>2 DEF WriteAudit, LogAudit
    <3>2. x \in AuditRows
      BY Rows, <1>1 DEF AuditKind, AuditRows, Holdings
    <3> HIDE DEF x
    <3>3. \/ audits'[i] = x
          \/ i \in DOMAIN audits /\ audits'[i] = audits[i]
      BY <3>1, <3>2, Appended DEF TypeOK
    <3>4. i \in DOMAIN audits => audits[i].day <= now /\ audits[i].day \in Nat
      BY Rows DEF DatesInv, AuditRows
    <3> QED
      BY <1>1, <3>1, <3>3, <3>4
  <2> QED
    BY <2>1, <2>2, TableMoves
<1>4. ASSUME NEW m \in Months, m > MonthOf(now)' PROVE costs'[m] = 0
  <2>1. /\ MonthOf(now) \in Months /\ MonthOf(now') \in Months
        /\ MonthOf(now) <= MonthOf(now')
    BY <1>1, MonthsInOrder
  <2>2. m > MonthOf(now) /\ costs[m] = 0
    <3>1. \A d : MonthOf(d) \in Months => MonthOf(d) \in Int
      BY DEF Months
    <3>2. m \in Int
      BY DEF Months
    <3>3. MonthOf(now)' = MonthOf(now')
      BY DEF MonthOf
    <3>4. m > MonthOf(now)
      <4> HIDE DEF MonthOf
      <4> QED
        BY <1>4, <2>1, <3>1, <3>2, <3>3
    <3> QED
      BY <3>4 DEF DatesInv
  <2>3. costs' = costs \/ costs' = [costs EXCEPT ![MonthOf(now)] = @ + 1]
    BY TableMoves DEF WriteCost, LogCost
  <2>4. m # MonthOf(now)
    <3>1. MonthOf(now) \in Int
      BY <2>1 DEF Months
    <3> QED
      BY <2>2, <3>1
  <2> QED
    BY <2>2, <2>3, <2>4 DEF TypeOK
<1> QED
  BY <1>2, <1>3, <1>4 DEF DatesInv

(* No row is dated later than today. *)
LEMMA DatesAreSound == Spec => []DatesInv
<1>1. Init => DatesInv
  BY DEF Init, BudgetInit, ResearchTablesInit, DatesInv, CandIds
<1> QED
  BY <1>1, DatesNext, TypeCorrect, PTL DEF Spec

-----------------------------------------------------------------------------
(* Doubles.                                                                *)

(* A process gets rows of today only by making them.                       *)
LEMMA MineStays ==
  ASSUME TypeOK, DatesInv, [Next]_vars, NEW q \in Procs,
         ~MakeCandidate(q), ~CreateMirror(q), NEW s, NEW t
  PROVE  Mine(q, s, t)' \subseteq Mine(q, s, t)
<1> SUFFICES ASSUME NEW c \in Mine(q, s, t)' PROVE c \in Mine(q, s, t)
  OBVIOUS
<1>1. /\ c \in CandIds' /\ cands'[c].by = q /\ cands'[c].disp = "pending"
      /\ cands'[c].strat = s /\ cands'[c].born = now'
      /\ TickerOf[cands'[c].finding] = t
  BY DEF Mine, TickerOfCand
<1>2. CASE c \in CandIds
  <2>1. /\ cands[c].by = q /\ cands[c].disp = "pending" /\ cands[c].strat = s
        /\ cands[c].born = now' /\ TickerOf[cands[c].finding] = t
    BY <1>1, <1>2, Grows DEF CandsStay
  <2>2. now' = now
    <3>1. cands[c].born <= now
      BY <1>2 DEF DatesInv
    <3> QED
      BY <2>1, <3>1, Grows
  <2> QED
    BY <1>2, <2>1, <2>2 DEF Mine, TickerOfCand
<1>3. CASE c \notin CandIds
  <2>1. PICK p \in Procs : MakeCandidate(p) \/ CreateMirror(p)
    <3>1. Dispose => CandIds' = CandIds
      BY DEF Dispose, DisposeCandidate, CandIds
    <3> QED
      BY <1>1, <1>3, <3>1, TableMoves DEF CandIds
  <2>2. c = Len(cands) + 1
    <3>1. CandIds' = CandIds \cup {Len(cands) + 1}
      BY <2>1, Inserted
    <3> QED
      BY <1>1, <1>3, <3>1
  <2>3. PICK r, f : cands'[c] = NewCandidate(r, f, now, p)
    BY <2>1, <2>2, MadeRow
  <2>4. cands'[c].by = p
    BY <2>3 DEF NewCandidate
  <2> QED
    BY <1>1, <2>1, <2>4
<1> QED
  BY <1>2, <1>3

(* A row just made is of its own ticker, and the process's others stay.    *)
LEMMA MineGrows ==
  ASSUME TypeOK, DatesInv, [Next]_vars, NEW q \in Procs, MakeCandidate(q),
         NEW t, t # TickerOf[me[q].item]
  PROVE  Mine(q, me[q].strat, t)' \subseteq Mine(q, me[q].strat, t)
<1> DEFINE s == me[q].strat
           n == Len(cands) + 1
<1> SUFFICES ASSUME NEW c \in {d \in CandIds' : /\ cands'[d].by = q /\ cands'[d].disp = "pending"
                                  /\ cands'[d].strat = s /\ cands'[d].born = now'
                                  /\ TickerOf[cands'[d].finding] = t}
             PROVE  c \in Mine(q, s, t)
  <2>1. Mine(q, s, t)' = {d \in CandIds' : /\ cands'[d].by = q /\ cands'[d].disp = "pending"
                                  /\ cands'[d].strat = s' /\ cands'[d].born = now'
                                  /\ TickerOf[cands'[d].finding] = t}
    BY DEF Mine, TickerOfCand
  <2>2. s' = s
    BY ItemEffects DEF Kept
  <2> QED
    BY <2>1, <2>2
<1>1. cands'[n] = NewCandidate(s, me[q].item, now, q)
  BY Inserted
<1>2. cands'[n].finding = me[q].item
  BY <1>1 DEF NewCandidate
<1>3. c # n
  BY <1>2
<1>4. c \in CandIds /\ cands'[c] = cands[c]
  BY <1>3, Inserted
<1>5. now' = now
  <2>1. cands[c].born <= now /\ cands[c].born = now'
    BY <1>4 DEF DatesInv
  <2> QED
    BY <2>1, Grows
<1> QED
  BY <1>4, <1>5 DEF Mine, TickerOfCand

(* The look at what is recent sees everything made today.                  *)
LEMMA RecentCovers ==
  ASSUME TypeOK, NEW q \in Procs, NEW s, NEW recent \in Recent(s),
         NEW t, t \notin {TickerOfCand(c) : c \in recent}
  PROVE  Mine(q, s, t) = {}
<1> SUFFICES ASSUME NEW c \in Mine(q, s, t) PROVE FALSE
  OBVIOUS
<1>1. /\ c \in PendingOf(s) /\ cands[c].born = now /\ TickerOfCand(c) = t
      /\ now \in Int
  BY DEF Mine, PendingOf, TypeOK
<1>2. c \in recent
  BY <1>1 DEF Recent
<1> QED
  BY <1>1, <1>2

(* A process gets signals only by inserting them.                          *)
LEMMA SignalsOfOthers ==
  ASSUME TypeOK, [Next]_vars, NEW q \in Procs, ~InsertSignal(q), NEW i \in SignalIds'
  PROVE  \/ i \in SignalIds /\ signals'[i] = signals[i]
         \/ signals'[i].by # q
<1>1. CASE i \in SignalIds
  BY <1>1, Grows DEF SignalsStay
<1>2. CASE i \notin SignalIds
  <2>1. PICK p \in Procs : InsertSignal(p)
    BY <1>2, TableMoves DEF SignalIds
  <2>2. i = Len(signals) + 1
    BY <1>2, <2>1, Inserted
  <2>3. signals'[i].by = p
    <3>1. signals'[i] = [camp |-> CampaignOf[me[p].strat], finding |-> me[p].item, by |-> p]
      BY <2>1, <2>2, Inserted
    <3> QED
      BY <3>1
  <2> QED
    BY <2>1, <2>3
<1> QED
  BY <1>1, <1>2

(* Whoever stands still stays fresh.                                       *)
LEMMA FreshStays ==
  ASSUME TypeOK, DatesInv, [Next]_vars, NEW q \in Procs, Fresh(q), me'[q] = me[q],
         ~MakeCandidate(q), ~CreateMirror(q), ~InsertSignal(q)
  PROVE  Fresh(q)'
<1> DEFINE w == me[q]
<1>1. \A s, t : Mine(q, s, t) = {} => Mine(q, s, t)' = {}
  BY MineStays
<1>2. Shape(w)
  BY DEF TypeOK
<1>3. w.at = "twin" => /\ cands'[w.cand].strat = cands[w.cand].strat
                       /\ TickerOfCand(w.cand)' = TickerOfCand(w.cand)
  BY <1>2, Grows DEF Shape, CandsStay, TickerOfCand
<1>4. ASSUME w.at = "insert"
      PROVE  \A i \in SignalIds' :
               ~(signals'[i].by = q /\ signals'[i].camp = CampaignOf[w.strat]
                   /\ signals'[i].finding = w.item)
  BY <1>4, SignalsOfOthers DEF Fresh
<1> HIDE DEF w
<1>5. Fresh(q)' <=>
        /\ w.at \in {"item", "insert", "create", "bare", "link"} =>
             \A f \in w.todo : Mine(q, w.strat, TickerOf[f])' = {}
        /\ w.at \in {"insert", "create", "bare"} =>
             Mine(q, w.strat, TickerOf[w.item])' = {}
        /\ w.at = "twin" =>
             Mine(q, TwinOf[cands[w.cand].strat], TickerOfCand(w.cand))' = {}
        /\ w.at = "insert" =>
             \A i \in SignalIds' :
               ~(signals'[i].by = q /\ signals'[i].camp = CampaignOf[w.strat]
                   /\ signals'[i].finding = w.item)
  BY DEF Fresh, w
<1> QED
  BY <1>1, <1>3, <1>4, <1>5 DEF Fresh, w

(* What a pass goes on with it has not made today.                         *)
LEMMA FreshPass ==
  ASSUME TypeOK, DatesInv, [Next]_vars, NEW q \in Procs, Fresh(q), Pass(q)
  PROVE  Fresh(q)'
<1> DEFINE w == me[q]
<1>1. PICK v : v = me'[q]
  OBVIOUS
<1>2. Fresh(q)' <=>
        /\ v.at \in {"item", "insert", "create", "bare", "link"} =>
             \A f \in v.todo : Mine(q, v.strat, TickerOf[f])' = {}
        /\ v.at \in {"insert", "create", "bare"} =>
             Mine(q, v.strat, TickerOf[v.item])' = {}
        /\ v.at = "twin" =>
             Mine(q, TwinOf[cands[v.cand].strat], TickerOfCand(v.cand))' = {}
        /\ v.at = "insert" =>
             \A i \in SignalIds' :
               ~(signals'[i].by = q /\ signals'[i].camp = CampaignOf[v.strat]
                   /\ signals'[i].finding = v.item)
  BY <1>1 DEF Fresh, TickerOfCand
<1>3. ASSUME v.at \notin {"item", "insert", "create", "bare", "link", "twin"}
      PROVE  Fresh(q)'
  BY <1>2, <1>3
<1>4. ASSUME ~MakeCandidate(q)
      PROVE  \A s, t : Mine(q, s, t) = {} => Mine(q, s, t)' = {}
  <2>1. ~CreateMirror(q) \/ me[q].at = "twin"
    BY Writers
  <2>2. ~CreateMirror(q)
    BY <1>4, Writers DEF Pass, StartPass, Generate, PassEnds, PassDone, TakeItem,
      FindSignal, Wanted, InsertSignal, SignalRaises, LinkCandidate, LinkRaises,
      Escalate, EscalateNext, EscalateEnds, At, Free
  <2> QED
    BY <1>4, <2>2, MineStays
<1>5. ASSUME NEW s, StartPass(q, s) PROVE Fresh(q)'
  BY <1>1, <1>3, <1>5, PassEffects
<1>6. ASSUME \/ PassEnds(q) \/ PassDone(q) \/ EscalateEnds(q)
             \/ Escalate(q) \/ EscalateNext(q)
      PROVE  Fresh(q)'
  BY <1>1, <1>3, <1>6, PassEffects DEF Resting
<1>7. CASE Generate(q)
  <2>1. /\ v.at = "item" /\ v.strat = w.strat
        /\ \E recent \in Recent(w.strat) : \A f \in v.todo :
             TickerOf[f] \notin {TickerOfCand(c) : c \in recent}
    BY <1>1, <1>7, PassEffects DEF Kept
  <2>2. \A f \in v.todo : Mine(q, v.strat, TickerOf[f]) = {}
    BY <2>1, RecentCovers
  <2>3. ~MakeCandidate(q)
    BY <1>7, PassEffects, Writers
  <2> QED
    BY <1>2, <1>4, <2>1, <2>2, <2>3
<1>8. ASSUME NEW f \in Findings, TakeItem(q, f) \/ FindSignal(q, f) PROVE Fresh(q)'
  <2>1. /\ w.at = "item" /\ f \in w.todo /\ v.strat = w.strat
        /\ v.item = f /\ v.todo = w.todo \ {f} /\ v.at \in {"insert", "create"}
        /\ v.at = "insert" => Matching(CampaignOf[w.strat], f) = {}
    BY <1>1, <1>8, ItemEffects DEF Kept
  <2>2. \A g \in w.todo : Mine(q, w.strat, TickerOf[g]) = {}
    BY <2>1 DEF Fresh
  <2>3. ~MakeCandidate(q) /\ ~InsertSignal(q)
    BY <2>1, Writers
  <2>4. v.at = "insert" =>
          \A i \in SignalIds' :
            ~(signals'[i].by = q /\ signals'[i].camp = CampaignOf[v.strat]
                /\ signals'[i].finding = v.item)
    BY <2>1, <2>3, SignalsOfOthers DEF Matching
  <2> QED
    BY <1>2, <1>4, <2>1, <2>2, <2>3, <2>4
<1>9. CASE InsertSignal(q) \/ SignalRaises(q)
  <2>1. /\ w.at = "insert" /\ v.strat = w.strat
        /\ v.item = w.item /\ v.todo = w.todo /\ v.at \in {"bare", "create"}
    BY <1>1, <1>9, ItemEffects, PassEffects DEF Kept
  <2>2. /\ \A g \in w.todo : Mine(q, w.strat, TickerOf[g]) = {}
        /\ Mine(q, w.strat, TickerOf[w.item]) = {}
    BY <2>1 DEF Fresh
  <2>3. ~MakeCandidate(q)
    BY <2>1, Writers
  <2> QED
    BY <1>2, <1>4, <2>1, <2>2, <2>3
<1>10. CASE MakeCandidate(q)
  <2>1. /\ w.at \in {"create", "bare"} /\ v.strat = w.strat /\ v.at \in {"item", "link"}
        /\ v.todo = {f \in w.todo : TickerOf[f] # TickerOf[w.item]}
    BY <1>1, <1>10, ItemEffects DEF Kept
  <2>2. \A g \in w.todo : Mine(q, w.strat, TickerOf[g]) = {}
    BY <2>1 DEF Fresh
  <2>3. \A f \in v.todo : Mine(q, w.strat, TickerOf[f])' = {}
    BY <1>10, <2>1, <2>2, MineGrows
  <2>4. w.strat' = v.strat
    BY <1>1
  <2> QED
    BY <1>2, <2>1, <2>3, <2>4
<1>11. CASE LinkCandidate(q) \/ LinkRaises(q)
  <2>1. w.at = "link" /\ v.at = "item" /\ v.strat = w.strat /\ v.todo = w.todo
    BY <1>1, <1>11, PassEffects DEF Kept
  <2>2. \A g \in w.todo : Mine(q, w.strat, TickerOf[g]) = {}
    BY <2>1 DEF Fresh
  <2>3. ~MakeCandidate(q)
    BY <2>1, Writers
  <2> QED
    BY <1>2, <1>4, <2>1, <2>2, <2>3
<1> QED
  BY <1>5, <1>6, <1>7, <1>8, <1>9, <1>10, <1>11 DEF Pass

(* Nothing else makes candidates but a mirror, which looks for today's.    *)
LEMMA FreshMirror ==
  ASSUME TypeOK, DatesInv, [Next]_vars, NEW q \in Procs, Fresh(q), Mirror(q)
  PROVE  Fresh(q)'
<1>1. PICK v : v = me'[q]
  OBVIOUS
<1>2. ASSUME v.at \notin {"item", "insert", "create", "bare", "link", "twin"}
      PROVE  Fresh(q)'
  BY <1>1, <1>2 DEF Fresh
<1>3. ASSUME NEW c \in CandIds, StartMirror(q, c) PROVE Fresh(q)'
  <2>1. me[q].at = "idle"
    BY <1>3, MirrorEffects
  <2>2. ~MakeCandidate(q) /\ ~CreateMirror(q) /\ ~InsertSignal(q)
    BY <2>1, Writers
  <2>3. CASE v = me[q]
    BY <1>1, <2>2, <2>3, FreshStays
  <2>4. CASE v.at = "twin" /\ v.cand = c /\ MirrorsOf(c) = {}
    <3>1. PICK s, t : s = TwinOf[cands[c].strat] /\ t = TickerOfCand(c)
      OBVIOUS
    <3>2. Mine(q, s, t) = {}
      <4> SUFFICES ASSUME NEW m \in Mine(q, s, t) PROVE FALSE
        OBVIOUS
      <4>1. now \in Int
        BY DEF TypeOK
      <4>2. m \in MirrorsOf(c)
        BY <3>1, <4>1 DEF Mine, MirrorsOf, PendingOf
      <4> QED
        BY <2>4, <4>2
    <3>3. Mine(q, s, t)' = {}
      BY <2>2, <3>2, MineStays
    <3>4. s = TwinOf[cands'[c].strat] /\ t = TickerOfCand(c)'
      BY <3>1, Grows DEF CandsStay, TickerOfCand
    <3>5. Mine(q, TwinOf[cands[c].strat], TickerOfCand(c))' = {}
      BY <3>3, <3>4
    <3> QED
      BY <1>1, <2>4, <3>5 DEF Fresh
  <2>5. CASE v.at = "bridge"
    BY <1>2, <2>5
  <2> QED
    BY <1>1, <1>3, <2>3, <2>4, <2>5, MirrorEffects
<1>4. CASE CreateMirror(q) \/ BridgeMirror(q)
  BY <1>1, <1>2, <1>4, MirrorEffects DEF Resting
<1> QED
  BY <1>3, <1>4 DEF Mirror

(* What a process found new stays new to it until it inserts. *)
LEMMA FreshNext ==
  ASSUME TypeOK, DatesInv, [Next]_vars, NEW q \in Procs, Fresh(q)
  PROVE  Fresh(q)'
<1>1. ASSUME me'[q].at \notin {"item", "insert", "create", "bare", "link", "twin"}
      PROVE  Fresh(q)'
  BY <1>1 DEF Fresh
<1>2. CASE ~Acts(q)
  <2>1. me'[q] = me[q]
    BY <1>2, TableMoves, ActorMoves
  <2>2. ~MakeCandidate(q) /\ ~CreateMirror(q) /\ ~InsertSignal(q)
    BY <1>2 DEF Acts, Pass, Mirror
  <2> QED
    BY <2>1, <2>2, FreshStays
<1>3. CASE Pass(q)
  BY <1>3, FreshPass
<1>4. CASE Mirror(q)
  BY <1>4, FreshMirror
<1>5. CASE PaidCall(q)
  <2>1. \A plan : Continue(q, plan) => me'[q].at \in {"answered", "escalating", "batch", "idle"}
    BY ContinueEffects DEF Resting
  <2>2. me \in [Procs -> Holdings]
    BY DEF TypeOK
  <2>3. me'[q].at \in {"answered", "escalating", "batch", "idle", "thesis", "proposing"}
    BY <1>5, <2>1, <2>2 DEF PaidCall, StartThesis, StartProposal, CallAnswered, CallRaises,
      WriteScore, WriteCost, WriteAudit, WriteStrategy, Become, Resting
  <2> QED
    BY <1>1, <2>3
<1>6. CASE PostMortem(q) \/ Crash(q)
  <2>0. me \in [Procs -> Holdings]
    BY DEF TypeOK
  <2>1. StartPostMortems(q) => me'[q].at = "batch"
    BY <2>0 DEF StartPostMortems, Become, Resting
  <2>2. Rest(q) => me'[q].at = "idle"
    BY <2>0 DEF Rest, Become, Resting
  <2>3. me'[q].at \in {"answered", "mortem", "batch", "idle"}
    BY <1>6, <2>1, <2>2, BatchEffects DEF PostMortem, BatchDone, Crash
  <2> QED
    BY <1>1, <2>3
<1> QED
  BY <1>2, <1>3, <1>4, <1>5, <1>6 DEF Acts

(* The row a process makes is the first of its kind.                       *)
LEMMA FirstOfTheDay ==
  ASSUME TypeOK, NEW q \in Procs, Fresh(q), MakeCandidate(q) \/ CreateMirror(q),
         NEW d \in CandIds
  PROVE  LET n == cands'[Len(cands) + 1] IN
         ~ /\ cands[d].disp = "pending" /\ cands[d].by = n.by
           /\ cands[d].strat = n.strat /\ cands[d].born = n.born
           /\ TickerOf[cands[d].finding] = TickerOf[n.finding]
<1> DEFINE n == cands'[Len(cands) + 1]
           w == me[q]
<1>1. CASE MakeCandidate(q)
  <2>1. n = NewCandidate(w.strat, w.item, now, q)
    BY <1>1, Inserted
  <2>2. n.by = q /\ n.strat = w.strat /\ n.born = now /\ n.finding = w.item
    <3> HIDE DEF n
    <3> QED
      BY <2>1 DEF NewCandidate
  <2>3. Mine(q, w.strat, TickerOf[w.item]) = {}
    BY <1>1, Writers DEF Fresh
  <2> QED
    BY <2>2, <2>3 DEF Mine, TickerOfCand
<1>2. CASE CreateMirror(q)
  <2>1. n = NewCandidate(TwinOf[cands[w.cand].strat], cands[w.cand].finding, now, q)
    BY <1>2, Inserted
  <2>2. /\ n.by = q /\ n.strat = TwinOf[cands[w.cand].strat] /\ n.born = now
        /\ n.finding = cands[w.cand].finding
    <3> HIDE DEF n
    <3> QED
      BY <2>1 DEF NewCandidate
  <2>3. Mine(q, TwinOf[cands[w.cand].strat], TickerOfCand(w.cand)) = {}
    BY <1>2, Writers DEF Fresh
  <2> QED
    BY <2>2, <2>3 DEF Mine, TickerOfCand
<1> QED
  BY <1>1, <1>2

(* No step of a process repeats what it did within the window. *)
LEMMA DoublesNext ==
  TypeOK /\ DatesInv /\ DoublesInv /\ [Next]_vars => DoublesInv'
<1> SUFFICES ASSUME TypeOK, DatesInv, DoublesInv, [Next]_vars PROVE DoublesInv'
  OBVIOUS
<1>1. \A q \in Procs : Fresh(q)'
  BY FreshNext DEF DoublesInv
<1>2. ASSUME NEW c \in CandIds', NEW d \in CandIds', SameCandidate(c, d)', c # d
      PROVE  FALSE
  <2>1. /\ cands'[c].disp = "pending" /\ cands'[d].disp = "pending"
        /\ cands'[c].by = cands'[d].by /\ cands'[c].strat = cands'[d].strat
        /\ cands'[c].born = cands'[d].born
        /\ TickerOf[cands'[c].finding] = TickerOf[cands'[d].finding]
    BY <1>2 DEF SameCandidate, TickerOfCand
  <2>2. CASE c \in CandIds /\ d \in CandIds
    <3>1. SameCandidate(c, d)
      BY <2>1, <2>2, Grows DEF CandsStay, SameCandidate, TickerOfCand
    <3> QED
      BY <1>2, <2>2, <3>1 DEF DoublesInv, NoDoublesPerProcess
  <2>3. CASE c \notin CandIds \/ d \notin CandIds
    <3>1. PICK p \in Procs : MakeCandidate(p) \/ CreateMirror(p)
      <4>1. Dispose => CandIds' = CandIds
        BY DEF Dispose, DisposeCandidate, CandIds
      <4> QED
        BY <2>3, <4>1, TableMoves DEF CandIds
    <3>2. CandIds' = CandIds \cup {Len(cands) + 1}
      BY <3>1, Inserted
    <3>3. Fresh(p)
      BY DEF DoublesInv
    <3>4. CASE c \in CandIds /\ d = Len(cands) + 1
      <4>1. cands'[c] = cands[c]
        BY <3>1, <3>4, Inserted
      <4> QED
        BY <2>1, <3>1, <3>3, <3>4, <4>1, FirstOfTheDay
    <3>5. CASE d \in CandIds /\ c = Len(cands) + 1
      <4>1. cands'[d] = cands[d]
        BY <3>1, <3>5, Inserted
      <4> QED
        BY <2>1, <3>1, <3>3, <3>5, <4>1, FirstOfTheDay
    <3> QED
      BY <1>2, <2>3, <3>2, <3>4, <3>5
  <2> QED
    BY <2>2, <2>3
<1>3. ASSUME NEW i \in SignalIds', NEW k \in SignalIds', signals'[i] = signals'[k], i # k
      PROVE  FALSE
  <2>1. CASE i \in SignalIds /\ k \in SignalIds
    BY <1>3, <2>1, Grows DEF SignalsStay, DoublesInv, NoDoublesPerProcess
  <2>2. CASE i \notin SignalIds \/ k \notin SignalIds
    <3>1. PICK p \in Procs : InsertSignal(p)
      BY <2>2, TableMoves DEF SignalIds
    <3>2. /\ SignalIds' = SignalIds \cup {Len(signals) + 1}
          /\ signals'[Len(signals) + 1] =
               [camp |-> CampaignOf[me[p].strat], finding |-> me[p].item, by |-> p]
      BY <3>1, Inserted
    <3>3. \A j \in SignalIds :
             ~(signals[j].by = p /\ signals[j].camp = CampaignOf[me[p].strat]
                 /\ signals[j].finding = me[p].item)
      BY <3>1, Writers DEF DoublesInv, Fresh
    <3>4. \A j \in SignalIds : signals'[j] # signals'[Len(signals) + 1]
      BY <3>2, <3>3, Grows DEF SignalsStay
    <3> QED
      BY <1>3, <2>2, <3>2, <3>4
  <2> QED
    BY <2>1, <2>2
<1> QED
  BY <1>1, <1>2, <1>3 DEF DoublesInv, NoDoublesPerProcess

(* Whatever the others are doing, a process makes no second pending        *)
(* candidate of a ticker for a strategy on one day, and no second signal   *)
(* of a finding for a campaign (candidates.py:54-60, 75, 123;              *)
(* signals.py:51-67; baseline.py:78-106).                                  *)
THEOREM NoProcessDoubles == Spec => []NoDoublesPerProcess
<1>1. Init => DoublesInv
  BY DEF Init, ResearchTablesInit, DoublesInv, NoDoublesPerProcess, CandIds, SignalIds,
    Fresh, Resting
<1>2. DoublesInv => NoDoublesPerProcess
  BY DEF DoublesInv
<1> QED
  BY <1>1, <1>2, DoublesNext, DatesAreSound, TypeCorrect, PTL DEF Spec

-----------------------------------------------------------------------------
(* Post-mortems.                                                           *)

MyAudits(p) == {i \in AuditsOf("cost_triggered") : audits[i].by = p}

(* The audit written is the last one, of what is in hand, of today.        *)
LEMMA AuditWritten ==
  ASSUME TypeOK, NEW p \in Procs, WriteAudit(p)
  PROVE  LET n == Len(audits) + 1 IN
         /\ DOMAIN audits' = DOMAIN audits \cup {n} /\ n \notin DOMAIN audits
         /\ \A i \in DOMAIN audits : audits'[i] = audits[i]
         /\ audits'[n].kind = AuditKind(p) /\ audits'[n].of = me[p].cand
         /\ audits'[n].day = now /\ audits'[n].by = p
<1> DEFINE n == Len(audits) + 1
           x == [kind |-> AuditKind(p), of |-> me[p].cand, day |-> now, by |-> p]
<1>1. now \in Nat
  BY DEF TypeOK
<1>2. x \in AuditRows
  BY <1>1, Rows DEF AuditKind, AuditRows, Holdings
<1>3. audits' = Append(audits, x)
  BY DEF WriteAudit, LogAudit
<1>4. x.kind = AuditKind(p) /\ x.of = me[p].cand /\ x.day = now /\ x.by = p
  OBVIOUS
<1> HIDE DEF x
<1>5. /\ DOMAIN audits' = DOMAIN audits \cup {n} /\ n \notin DOMAIN audits
      /\ \A i \in DOMAIN audits : audits'[i] = audits[i]
      /\ audits'[n] = x
  BY <1>2, <1>3, Appended DEF TypeOK
<1> QED
  BY <1>4, <1>5

(* A process gets post-mortems only by writing them.                       *)
LEMMA MyAuditsStay ==
  ASSUME TypeOK, [Next]_vars, NEW q \in Procs, ~(WriteAudit(q) /\ Batching(me[q]))
  PROVE  /\ MyAudits(q)' = MyAudits(q)
         /\ \A i \in MyAudits(q) : audits'[i] = audits[i]
<1>1. CASE audits' = audits
  BY <1>1 DEF MyAudits, AuditsOf
<1>2. ASSUME NEW p \in Procs, WriteAudit(p)
      PROVE  /\ MyAudits(q)' = MyAudits(q)
             /\ \A i \in MyAudits(q) : audits'[i] = audits[i]
  <2> DEFINE n == Len(audits) + 1
  <2>1. /\ DOMAIN audits' = DOMAIN audits \cup {n} /\ n \notin DOMAIN audits
        /\ \A i \in DOMAIN audits : audits'[i] = audits[i]
        /\ audits'[n].kind = AuditKind(p) /\ audits'[n].by = p
    BY <1>2, AuditWritten
  <2>2. audits'[n].by # q \/ audits'[n].kind # "cost_triggered"
    BY <1>2, <2>1 DEF AuditKind, Batching
  <2> HIDE DEF n
  <2> QED
    BY <2>1, <2>2 DEF MyAudits, AuditsOf
<1> QED
  BY <1>1, <1>2, TableMoves

(* A process's post-mortems of a day are finitely many.                    *)
LEMMA MineTodayFinite ==
  ASSUME TypeOK, NEW q, NEW day
  PROVE  IsFiniteSet(MineToday(q, day)) /\ Cardinality(MineToday(q, day)) \in Nat
<1>1. MineToday(q, day) \subseteq 1 .. Len(audits) /\ Len(audits) \in Nat
  BY Rows DEF MineToday, AuditsOf
<1>2. IsFiniteSet(1 .. Len(audits))
  BY <1>1, UpTo
<1> QED
  BY <1>1, <1>2, FS_Subset, FS_CardinalityType

(* LIMIT n returns no more than n.                                         *)
LEMMA LatestPendingSize ==
  ASSUME NEW n \in Nat
  PROVE  /\ LatestPending(n) \subseteq Losers /\ IsFiniteSet(LatestPending(n))
         /\ Cardinality(LatestPending(n)) <= n
<1> DEFINE open == {t \in Losers : ~Audited(t)}
           S == LatestPending(n)
<1>1. open \subseteq Losers /\ IsFiniteSet(open) /\ open \subseteq Nat
  BY LosersAssumption, FS_Subset
<1>2. S = {t \in open : Cardinality({u \in open : u > t}) < n}
  BY DEF LatestPending
<1> HIDE DEF open, S
<1>3. S \subseteq open /\ IsFiniteSet(S) /\ S \subseteq Nat
  BY <1>1, <1>2, FS_Subset
<1>4. CASE S = {}
  BY <1>1, <1>3, <1>4, FS_EmptySet DEF S
<1>5. CASE S # {}
  <2> DEFINE m == Lowest(S)
             U == {u \in open : u > m}
  <2>1. m \in S /\ \A k \in S : m <= k
    BY <1>3, <1>5, LowestIn
  <2> HIDE DEF m
  <2>2. S \ {m} \subseteq U /\ U \subseteq open
    BY <1>3, <2>1
  <2>3. IsFiniteSet(U) /\ Cardinality(U) \in Nat /\ Cardinality(U) < n
    BY <1>1, <1>2, <2>1, <2>2, FS_Subset, FS_CardinalityType
  <2>4. Cardinality(S \ {m}) <= Cardinality(U)
    BY <2>2, <2>3, FS_Subset
  <2>5. Cardinality(S \ {m}) = Cardinality(S) - 1 /\ Cardinality(S) \in Nat
    BY <1>3, <2>1, FS_RemoveElement, FS_CardinalityType
  <2>6. Cardinality(S) <= n
    BY <2>3, <2>4, <2>5
  <2> QED
    BY <1>1, <1>3, <2>6 DEF S
<1> QED
  BY <1>4, <1>5

(* What a batch has still to audit is finite.                              *)
LEMMA ToAuditFinite ==
  ASSUME TypeOK, NEW q \in Procs, Batching(me[q])
  PROVE  IsFiniteSet(ToAudit(me[q])) /\ Cardinality(ToAudit(me[q])) \in Nat
<1>1. IsFiniteSet(me[q].new)
  BY LosersAssumption, FS_Subset DEF TypeOK, Shape
<1>2. IsFiniteSet(me[q].new \cup {me[q].cand})
  BY <1>1, FS_AddElement
<1>3. IsFiniteSet(ToAudit(me[q]))
  BY <1>1, <1>2 DEF ToAudit
<1> QED
  BY <1>3, FS_CardinalityType

(* Today's post-mortems of a process that writes none do not grow.         *)
LEMMA MineTodayStays ==
  ASSUME TypeOK, DatesInv, [Next]_vars, NEW q \in Procs,
         ~(WriteAudit(q) /\ Batching(me[q]))
  PROVE  /\ \A day : MineToday(q, day)' = MineToday(q, day)
         /\ Cardinality(MineToday(q, now)') <= Cardinality(MineToday(q, now))
<1>1. \A day : MineToday(q, day)' = {i \in MyAudits(q)' : audits'[i].day = day}
  BY DEF MineToday, MyAudits
<1>2. \A day : MineToday(q, day) = {i \in MyAudits(q) : audits[i].day = day}
  BY DEF MineToday, MyAudits
<1>3. \A day : MineToday(q, day)' = MineToday(q, day)
  BY <1>1, <1>2, MyAuditsStay
<1>4. MineToday(q, now)' = {i \in MyAudits(q) : audits[i].day = now'}
  BY MyAuditsStay DEF MineToday, MyAudits
<1>5. MineToday(q, now)' \subseteq MineToday(q, now)
  <2> SUFFICES ASSUME NEW i \in MyAudits(q), audits[i].day = now'
               PROVE  i \in MineToday(q, now)
    BY <1>4
  <2>1. i \in DOMAIN audits
    BY DEF MyAudits, AuditsOf
  <2>2. audits[i].day <= now
    BY <2>1 DEF DatesInv
  <2>3. now' = now
    BY <2>2, Grows
  <2> QED
    BY <2>3, <1>2
<1> QED
  BY <1>3, <1>5, MineTodayFinite, FS_Subset

(* A batch that goes on with no more than it had keeps to its limit.       *)
LEMMA BatchKeeps ==
  ASSUME TypeOK, DatesInv, [Next]_vars, NEW q \in Procs, BatchInv(q), Batching(me[q]),
         ~WriteAudit(q), NEW v, v = me'[q], Batching(v),
         ToAudit(v) \subseteq ToAudit(me[q]), AuditDue(v) => v.cand \notin v.new
  PROVE  BatchInv(q)'
<1> DEFINE a == Cardinality(MineToday(q, now))
           b == Cardinality(MineToday(q, now)')
           c == Cardinality(ToAudit(me[q]))
           d == Cardinality(ToAudit(v))
<1>1. "postmortem" \in duty'[q].does
  BY TableMoves DEF BatchInv
<1>2. a \in Nat /\ c \in Nat /\ a + c <= LargestLimit
  BY MineTodayFinite, ToAuditFinite DEF BatchInv
<1>3. d \in Nat /\ d <= c
  BY ToAuditFinite, FS_Subset, FS_CardinalityType
<1>4. b <= a /\ b \in Nat
  <2>1. IsFiniteSet(MineToday(q, now)')
    <3>1. MineToday(q, now)' \subseteq MyAudits(q)'
      BY DEF MineToday, MyAudits
    <3>2. MyAudits(q)' \subseteq 1 .. Len(audits) /\ Len(audits) \in Nat
      BY MyAuditsStay, Rows DEF MyAudits, AuditsOf
    <3>3. IsFiniteSet(1 .. Len(audits))
      BY <3>2, UpTo
    <3>4. MineToday(q, now)' \subseteq 1 .. Len(audits)
      BY <3>1, <3>2
    <3> QED
      BY <3>3, <3>4, FS_Subset
  <2>2. b \in Nat
    BY <2>1, FS_CardinalityType
  <2> QED
    BY <2>2, MineTodayStays
<1>5. b + d <= LargestLimit
  <2> HIDE DEF a, b, c, d
  <2> QED
    BY <1>2, <1>3, <1>4, LimitsBounded
<1>6. \A i \in MyAudits(q)' : audits'[i].of \notin ToAudit(v)
  BY MyAuditsStay DEF BatchInv, MyAudits
<1>7. \A i \in AuditsOf("cost_triggered")' : audits'[i].by = q => audits'[i].of \notin ToAudit(v)
  BY <1>6 DEF MyAudits
<1>8. ToAudit(v) = ToAudit(me[q])'
  BY DEF ToAudit, AuditDue
<1> QED
  BY <1>1, <1>5, <1>7, <1>8 DEF BatchInv, AuditDue

(* An audit written moves a trade from what is due to what is done.        *)
LEMMA BatchAudits ==
  ASSUME TypeOK, DatesInv, [Next]_vars, NEW q \in Procs, BatchInv(q), Batching(me[q]),
         WriteAudit(q)
  PROVE  LET w == me[q]
             v == me'[q]
             n == Len(audits) + 1 IN
         /\ AuditDue(w) /\ ~AuditDue(v) /\ Batching(v) /\ v.new = w.new
         /\ ToAudit(v) = ToAudit(w) \ {w.cand} /\ w.cand \in ToAudit(w)
         /\ MyAudits(q)' = MyAudits(q) \cup {n} /\ n \notin MyAudits(q)
         /\ \A i \in MyAudits(q) : audits'[i] = audits[i]
         /\ audits'[n].of = w.cand /\ audits'[n].day = now /\ now' = now
<1> DEFINE w == me[q]
           n == Len(audits) + 1
<1> PICK v : v = me'[q]
  OBVIOUS
<1>1. Shape(w) /\ w \in Holdings
  BY DEF TypeOK
<1>2. w.at = "answered" /\ w.plan \in {<<"audit">>, <<"audit", "log">>}
  <2>1. w.at = "answered" /\ Head(w.plan) = "audit" /\ w.plan \in Plans /\ w.plan # << >>
    BY <1>1 DEF WriteAudit, Doing, At, Shape, Holdings
  <2> QED
    BY <2>1, PlanParts
<1>3. AuditDue(w)
  BY <1>2 DEF AuditDue
<1>4. Continue(q, Tail(w.plan)) /\ Tail(w.plan) \in {<< >>, <<"log">>}
  <2>1. Tail(<<"audit">>) = << >> /\ Tail(<<"audit", "log">>) = <<"log">>
    OBVIOUS
  <2> QED
    BY <1>2, <2>1 DEF WriteAudit
<1>5. /\ v.task = "postmortem" /\ v.new = w.new
      /\ \/ v.at = "answered" /\ v.plan = <<"log">>
         \/ v.at = "batch"
  BY <1>4, ContinueEffects DEF Batching
<1>6. ~AuditDue(v)
  <2>1. <<"log">> # <<"audit">> /\ <<"log">> # <<"audit", "log">>
    OBVIOUS
  <2> QED
    BY <1>5, <2>1 DEF AuditDue
<1>7. w.cand \notin w.new
  BY <1>3 DEF BatchInv
<1>8. ToAudit(v) = ToAudit(w) \ {w.cand} /\ w.cand \in ToAudit(w)
  BY <1>3, <1>5, <1>6, <1>7 DEF ToAudit
<1>9. /\ MyAudits(q)' = MyAudits(q) \cup {n} /\ n \notin MyAudits(q)
      /\ \A i \in MyAudits(q) : audits'[i] = audits[i]
      /\ audits'[n].of = w.cand /\ audits'[n].day = now
  <2>1. AuditKind(q) = "cost_triggered"
    BY DEF AuditKind, Batching
  <2>2. /\ DOMAIN audits' = DOMAIN audits \cup {n} /\ n \notin DOMAIN audits
        /\ \A i \in DOMAIN audits : audits'[i] = audits[i]
        /\ audits'[n].kind = "cost_triggered" /\ audits'[n].of = me[q].cand
        /\ audits'[n].day = now /\ audits'[n].by = q
    BY <2>1, AuditWritten
  <2> HIDE DEF n
  <2> QED
    BY <2>2 DEF MyAudits, AuditsOf
<1>10. now' = now
  BY DEF WriteAudit, budgetVars
<1> QED
  BY <1>3, <1>5, <1>6, <1>8, <1>9, <1>10 DEF Batching

(* An audit that is written was counted by its batch. *)
LEMMA BatchAuditKeeps ==
  ASSUME TypeOK, DatesInv, [Next]_vars, NEW q \in Procs, BatchInv(q), Batching(me[q]),
         WriteAudit(q)
  PROVE  BatchInv(q)'
<1> DEFINE w == me[q]
           n == Len(audits) + 1
<1> PICK v : v = me'[q]
  OBVIOUS
<1>1. /\ ~AuditDue(v) /\ ToAudit(v) = ToAudit(w) \ {w.cand} /\ w.cand \in ToAudit(w)
      /\ MyAudits(q)' = MyAudits(q) \cup {n} /\ n \notin MyAudits(q)
      /\ \A i \in MyAudits(q) : audits'[i] = audits[i]
      /\ audits'[n].of = w.cand /\ audits'[n].day = now /\ now' = now
  BY BatchAudits
<1>2. MineToday(q, now)' = MineToday(q, now) \cup {n} /\ n \notin MineToday(q, now)
  <2>1. MineToday(q, now)' = {i \in MyAudits(q)' : audits'[i].day = now'}
    BY DEF MineToday, MyAudits
  <2>2. MineToday(q, now) = {i \in MyAudits(q) : audits[i].day = now}
    BY DEF MineToday, MyAudits
  <2> HIDE DEF n
  <2> QED
    BY <1>1, <2>1, <2>2
<1>3. Cardinality(MineToday(q, now)') = Cardinality(MineToday(q, now)) + 1
  <2> HIDE DEF n
  <2> QED
    BY <1>2, MineTodayFinite, FS_AddElement
<1>4. Cardinality(ToAudit(v)) = Cardinality(ToAudit(w)) - 1
  BY <1>1, ToAuditFinite, FS_RemoveElement
<1>5. Cardinality(MineToday(q, now)') + Cardinality(ToAudit(v)) <= LargestLimit
  <2>1. Cardinality(MineToday(q, now)) + Cardinality(ToAudit(w)) <= LargestLimit
    BY DEF BatchInv
  <2>2. Cardinality(MineToday(q, now)) \in Nat /\ Cardinality(ToAudit(w)) \in Nat
    BY MineTodayFinite, ToAuditFinite
  <2> HIDE DEF w
  <2> QED
    BY <1>3, <1>4, <2>1, <2>2, LimitsBounded
<1>6. \A i \in MyAudits(q)' : audits'[i].of \notin ToAudit(v)
  <2>1. \A i \in MyAudits(q) : audits[i].of \notin ToAudit(w)
    BY DEF BatchInv, MyAudits
  <2> HIDE DEF w, n
  <2> QED
    BY <1>1, <2>1
<1>7. \A i \in AuditsOf("cost_triggered")' : audits'[i].by = q => audits'[i].of \notin ToAudit(v)
  BY <1>6 DEF MyAudits
<1>8. "postmortem" \in duty'[q].does
  BY TableMoves DEF BatchInv
<1>9. ToAudit(v) = ToAudit(me[q])'
  BY DEF ToAudit, AuditDue
<1> QED
  BY <1>1, <1>5, <1>7, <1>8, <1>9 DEF BatchInv, AuditDue

(* A batch starts with what the day's limit leaves, and nothing audited.   *)
LEMMA BatchStarts ==
  ASSUME TypeOK, DatesInv, [Next]_vars, NEW q \in Procs, StartPostMortems(q)
  PROVE  BatchInv(q)'
<1> DEFINE k == Cardinality(AuditedToday)
<1>0. PICK n \in Limits :
        /\ k < LimitFor(n)
        /\ Become(q, [Resting EXCEPT !.at = "batch", !.task = "postmortem",
                                     !.new = LatestPending(LimitFor(n) - k)])
  BY DEF StartPostMortems
<1> DEFINE S == LatestPending(LimitFor(n) - k)
<1> PICK v : v = me'[q]
  OBVIOUS
<1>1. /\ me[q].at = "idle" /\ "postmortem" \in duty[q].does
      /\ k < LimitFor(n) /\ LimitFor(n) \in Nat /\ LimitFor(n) <= LargestLimit
      /\ audits' = audits /\ now' = now
  BY <1>0, LimitsBounded
     DEF StartPostMortems, Free, At, tableVars, budgetVars, researchTables
<1>2. v.at = "batch" /\ v.task = "postmortem" /\ v.new = S
  <2>1. Become(q, [Resting EXCEPT !.at = "batch", !.task = "postmortem", !.new = S])
    BY <1>0
  <2> HIDE DEF S
  <2> QED
    BY <2>1 DEF Become, Resting, TypeOK
<1>3. ~AuditDue(v) /\ ToAudit(v) = S
  BY <1>2 DEF AuditDue, ToAudit
<1>4. IsFiniteSet(AuditedToday) /\ k \in Nat
  <2>1. AuditedToday \subseteq 1 .. Len(audits) /\ Len(audits) \in Nat
    BY Rows DEF AuditedToday, AuditsOf
  <2>2. IsFiniteSet(1 .. Len(audits))
    BY <2>1, UpTo
  <2> QED
    BY <2>1, <2>2, FS_Subset, FS_CardinalityType
<1>5. Cardinality(MineToday(q, now)) \in Nat /\ Cardinality(MineToday(q, now)) <= k
  <2>1. MineToday(q, now) \subseteq AuditedToday
    BY DEF MineToday, AuditedToday
  <2> QED
    BY <1>4, <2>1, FS_Subset, MineTodayFinite
<1>6. Cardinality(S) \in Nat /\ Cardinality(S) <= LimitFor(n) - k
  <2>1. LimitFor(n) - k \in Nat
    <3> HIDE DEF k
    <3> QED
      BY <1>1, <1>4
  <2> QED
    BY <2>1, LatestPendingSize, FS_CardinalityType
<1>7. Cardinality(MineToday(q, now)') + Cardinality(ToAudit(v)) <= LargestLimit
  <2>1. MineToday(q, now)' = MineToday(q, now)
    BY <1>1 DEF MineToday, AuditsOf
  <2> HIDE DEF S, k
  <2> QED
    BY <1>1, <1>3, <1>4, <1>5, <1>6, <2>1, LimitsBounded
<1>8. \A i \in AuditsOf("cost_triggered")' : audits'[i].of \notin S
  BY <1>1 DEF AuditsOf, LatestPending, Audited
<1>9. ToAudit(v) = ToAudit(me[q])' /\ "postmortem" \in duty'[q].does
  BY <1>1, TableMoves DEF ToAudit, AuditDue
<1> QED
  BY <1>3, <1>7, <1>8, <1>9 DEF BatchInv, AuditDue

(* A paid call of a batch is for the trade in hand.                        *)
LEMMA BatchCalls ==
  ASSUME TypeOK, DatesInv, [Next]_vars, NEW q \in Procs, BatchInv(q), PaidCall(q),
         Batching(me'[q])
  PROVE  BatchInv(q)'
<1> DEFINE w == me[q]
<1> PICK v : v = me'[q]
  OBVIOUS
<1>0. Shape(w) /\ w \in Holdings /\ me \in [Procs -> Holdings] /\ v.task = "postmortem"
  BY DEF TypeOK, Batching
<1>1. ASSUME NEW c \in CandIds, StartThesis(q, c) PROVE FALSE
  <2>1. v.task = "thesis"
    BY <1>0, <1>1 DEF StartThesis, Become, Resting
  <2> QED
    BY <1>0, <2>1
<1>2. CASE StartProposal(q)
  <2>1. v.task = "proposal"
    BY <1>0, <1>2 DEF StartProposal, Become, Resting
  <2> QED
    BY <1>0, <2>1
<1>3. CASE (CallAnswered(q) \/ CallRaises(q)) /\ ~WriteAudit(q)
  <2>1. PICK plan \in {Plan(w.at), PlanUnparsed(w.at), << >>} : Continue(q, plan)
    BY <1>3 DEF CallAnswered, CallRaises
  <2>2. w.task = "postmortem"
    BY <1>0, <2>1, ContinueEffects DEF Resting
  <2>3. w.at = "mortem"
    BY <1>0, <1>3, <2>2 DEF CallAnswered, CallRaises, Shape, Batching, Calling
  <2>4. plan \in {<<"audit", "log">>, << >>} /\ <<"audit", "log">> # << >>
    BY <2>1, <2>3 DEF Plan, PlanUnparsed
  <2>5. AuditDue(w) /\ w.cand \notin w.new
    BY <2>2, <2>3 DEF AuditDue, BatchInv, Batching
  <2>6. v.new = w.new /\ (v.cand = w.cand \/ v.at = "batch")
    BY <2>1, <2>2, <2>4, ContinueEffects
  <2>7. ToAudit(v) \subseteq ToAudit(w) /\ (AuditDue(v) => v.cand \notin v.new)
    BY <2>5, <2>6 DEF ToAudit, AuditDue
  <2> QED
    BY <1>0, <1>3, <2>2, <2>7, BatchKeeps DEF Batching
<1>4. CASE WriteScore(q) \/ WriteCost(q) \/ WriteStrategy(q)
  <2>1. /\ Continue(q, Tail(w.plan)) /\ w.at = "answered"
        /\ Head(w.plan) \in {"score", "log", "create"}
    BY <1>4 DEF WriteScore, WriteCost, WriteStrategy, Doing, At
  <2>2. w.task = "postmortem"
    BY <1>0, <2>1, ContinueEffects DEF Resting
  <2>3. w.plan = <<"log">>
    <3>1. w.plan \in {<<"audit", "log">>, <<"audit">>, <<"log">>}
      BY <1>0, <2>1, <2>2 DEF Shape, Batching
    <3> QED
      BY <2>1, <3>1
  <2>4. Tail(w.plan) = << >>
    BY <2>3
  <2>5. v.at = "batch" /\ v.new = w.new
    BY <2>1, <2>2, <2>4, ContinueEffects
  <2>6. ToAudit(v) \subseteq ToAudit(w) /\ ~AuditDue(v)
    BY <2>5 DEF ToAudit, AuditDue
  <2>7. ~WriteAudit(q)
    BY <2>1 DEF WriteAudit, Doing
  <2> QED
    BY <1>0, <2>2, <2>6, <2>7, BatchKeeps DEF Batching
<1>5. CASE WriteAudit(q)
  <2>1. Continue(q, Tail(w.plan))
    BY <1>5 DEF WriteAudit
  <2>2. w.task = "postmortem"
    BY <1>0, <2>1, ContinueEffects DEF Resting
  <2> QED
    BY <1>5, <2>2, BatchAuditKeeps DEF Batching
<1> QED
  BY <1>1, <1>2, <1>3, <1>4, <1>5 DEF PaidCall

(* A pass pays for nothing but what it escalates.                          *)
LEMMA PassAts ==
  ASSUME TypeOK, [Next]_vars, NEW q \in Procs, Pass(q)
  PROVE  /\ me'[q].at # "answered" /\ ~Batching(me'[q])
         /\ me'[q].at \in Calling => EscalateNext(q)
<1> PICK v : v = me'[q]
  OBVIOUS
<1> DEFINE Quiet == v.at \notin {"batch", "answered"} \cup Calling
<1>1. ASSUME NEW s, StartPass(q, s) PROVE Quiet
  BY <1>1, PassEffects DEF Calling
<1>2. ASSUME NEW f \in Findings, TakeItem(q, f) \/ FindSignal(q, f) PROVE Quiet
  BY <1>2, ItemEffects DEF Calling
<1>3. ASSUME InsertSignal(q) \/ MakeCandidate(q) PROVE Quiet
  BY <1>3, ItemEffects DEF Calling
<1>4. ASSUME \/ Generate(q) \/ PassEnds(q) \/ PassDone(q) \/ SignalRaises(q)
             \/ LinkCandidate(q) \/ LinkRaises(q) \/ Escalate(q) \/ EscalateEnds(q)
      PROVE  Quiet
  BY <1>4, PassEffects DEF Calling, Resting
<1>5. Quiet \/ (EscalateNext(q) /\ v.at \in {"thesis", "sampling"})
  BY <1>1, <1>2, <1>3, <1>4, PassEffects DEF Pass
<1>6. v.at \notin {"batch", "mortem", "answered"}
  BY <1>5 DEF Calling
<1>7. ~Batching(v)
  BY <1>6, ShapePass DEF Shape
<1> QED
  BY <1>5, <1>6, <1>7

(* Every batch keeps to what it was given when it started.                 *)
LEMMA BatchNext ==
  ASSUME TypeOK, DatesInv, [Next]_vars, NEW q \in Procs, BatchInv(q)
  PROVE  BatchInv(q)'
<1> DEFINE w == me[q]
<1> PICK v : v = me'[q]
  OBVIOUS
<1>0. Shape(w) /\ w \in Holdings /\ me \in [Procs -> Holdings]
  BY DEF TypeOK
<1>1. CASE ~Batching(v)
  BY <1>1 DEF BatchInv
<1>2. CASE Batching(v) /\ ~Acts(q)
  <2>1. v = w
    BY <1>2, TableMoves, ActorMoves
  <2>2. ~WriteAudit(q)
    BY <1>2 DEF Acts, PaidCall
  <2> QED
    BY <1>2, <2>1, <2>2, BatchKeeps DEF BatchInv
<1>3. Pass(q) => ~Batching(v)
  BY PassAts
<1>4. CASE PaidCall(q) /\ Batching(v)
  BY <1>4, BatchCalls
<1>5. CASE PostMortem(q) /\ Batching(v)
  <2>1. CASE StartPostMortems(q)
    BY <2>1, BatchStarts
  <2>2. CASE NextTrade(q)
    <3>1. /\ w.at = "batch" /\ Newest(w.new) \in w.new
          /\ v.new = w.new \ {Newest(w.new)} /\ v.cand = Newest(w.new)
      BY <2>2, BatchEffects
    <3>2. Batching(w)
      BY <1>0, <3>1 DEF Shape
    <3>3. ToAudit(v) \subseteq ToAudit(w) /\ v.cand \notin v.new
      BY <3>1 DEF ToAudit
    <3>4. ~WriteAudit(q)
      BY <3>1 DEF WriteAudit, Doing, At
    <3> QED
      BY <1>5, <3>2, <3>3, <3>4, BatchKeeps
  <2>3. CASE BatchDone(q)
    <3>1. v = Resting
      BY <1>0, <2>3 DEF BatchDone, Rest, Become
    <3> QED
      BY <1>5, <3>1 DEF Batching, Resting
  <2> QED
    BY <1>5, <2>1, <2>2, <2>3 DEF PostMortem
<1>6. Mirror(q) => ~Batching(v)
  BY <1>0, MirrorEffects DEF Mirror, Batching, Shape, Resting
<1>7. Crash(q) => ~Batching(v)
  <2>1. Crash(q) => v = Resting
    BY <1>0 DEF Crash, Rest, Become
  <2> QED
    BY <2>1 DEF Batching, Resting
<1> QED
  BY <1>1, <1>2, <1>3, <1>4, <1>5, <1>6, <1>7 DEF Acts

(* No step takes a process beyond the largest limit. *)
LEMMA PostMortemNext ==
  TypeOK /\ DatesInv /\ PostMortemInv /\ [Next]_vars => PostMortemInv'
<1> SUFFICES ASSUME TypeOK, DatesInv, PostMortemInv, [Next]_vars PROVE PostMortemInv'
  OBVIOUS
<1>1. \A q \in Procs : BatchInv(q) /\ BatchInv(q)'
  BY BatchNext DEF PostMortemInv
<1>2. ASSUME NEW q \in Procs, NEW day \in 1 .. MaxDay
      PROVE  Cardinality(MineToday(q, day)') <= LargestLimit
  <2>1. Cardinality(MineToday(q, day)) <= LargestLimit
    BY DEF PostMortemInv, PostMortemsLimited, MineToday
  <2>2. CASE ~(WriteAudit(q) /\ Batching(me[q]))
    BY <2>1, <2>2, MineTodayStays
  <2>3. CASE WriteAudit(q) /\ Batching(me[q])
    <3> DEFINE n == Len(audits) + 1
    <3>1. /\ Batching(me'[q])
          /\ MyAudits(q)' = MyAudits(q) \cup {n}
          /\ \A i \in MyAudits(q) : audits'[i] = audits[i]
          /\ audits'[n].day = now /\ now' = now
      BY <1>1, <2>3, BatchAudits
    <3> HIDE DEF n
    <3>2. /\ MineToday(q, day)' = {i \in MyAudits(q)' : audits'[i].day = day}
          /\ MineToday(q, day) = {i \in MyAudits(q) : audits[i].day = day}
      BY DEF MineToday, MyAudits
    <3>3. CASE day # now
      <4>1. MineToday(q, day)' = MineToday(q, day)
        BY <3>1, <3>2, <3>3
      <4> QED
        BY <2>1, <4>1
    <3>4. CASE day = now
      <4> PICK v : v = me'[q]
        OBVIOUS
      <4>1. MineToday(q, day)' = MineToday(q, now)'
        BY <3>1, <3>4 DEF MineToday
      <4>2. Cardinality(MineToday(q, now)') + Cardinality(ToAudit(v)) <= LargestLimit
        BY <1>1, <3>1 DEF BatchInv, ToAudit, AuditDue
      <4>3. Cardinality(ToAudit(v)) \in Nat
        <5>1. v.new \subseteq Losers /\ IsFiniteSet(Losers)
          BY <3>1, LosersAssumption, TypeNext DEF TypeOK, Shape
        <5>2. IsFiniteSet(v.new)
          BY <5>1, FS_Subset
        <5>3. IsFiniteSet(v.new \cup {v.cand})
          BY <5>2, FS_AddElement
        <5>4. IsFiniteSet(ToAudit(v))
          BY <5>2, <5>3 DEF ToAudit
        <5> QED
          BY <5>4, FS_CardinalityType
      <4>4. Cardinality(MineToday(q, day)') \in Nat
        <5>1. MineToday(q, day)' \subseteq MineToday(q, day) \cup {n}
          BY <3>1, <3>2
        <5>2. IsFiniteSet(MineToday(q, day) \cup {n})
          BY MineTodayFinite, FS_AddElement
        <5> QED
          BY <5>1, <5>2, FS_Subset, FS_CardinalityType
      <4> QED
        BY <4>1, <4>2, <4>3, <4>4, LimitsBounded
    <3> QED
      BY <3>3, <3>4
  <2> QED
    BY <2>2, <2>3
<1>3. ASSUME NEW q \in Procs, NEW i \in MyAudits(q)', NEW k \in MyAudits(q)',
             audits'[i].of = audits'[k].of
      PROVE  i = k
  <2>1. \A j, l \in MyAudits(q) : audits[j].of = audits[l].of => j = l
    BY DEF PostMortemInv, PostMortemsLimited, MyAudits
  <2>2. CASE ~(WriteAudit(q) /\ Batching(me[q]))
    BY <1>3, <2>1, <2>2, MyAuditsStay
  <2>3. CASE WriteAudit(q) /\ Batching(me[q])
    <3> DEFINE n == Len(audits) + 1
               w == me[q]
    <3>1. /\ w.cand \in ToAudit(w)
          /\ MyAudits(q)' = MyAudits(q) \cup {n}
          /\ \A j \in MyAudits(q) : audits'[j] = audits[j]
          /\ audits'[n].of = w.cand
      BY <1>1, <2>3, BatchAudits
    <3>2. \A j \in MyAudits(q) : audits[j].of # w.cand
      BY <1>1, <2>3, <3>1 DEF BatchInv, MyAudits
    <3> HIDE DEF n, w
    <3> QED
      BY <1>3, <2>1, <3>1, <3>2
  <2> QED
    BY <2>2, <2>3
<1>4. PostMortemsLimited'
  <2>1. \A i, k \in AuditsOf("cost_triggered")' :
          audits'[i].by = audits'[k].by /\ audits'[i].of = audits'[k].of => i = k
    <3> SUFFICES ASSUME NEW i \in AuditsOf("cost_triggered")',
                        NEW k \in AuditsOf("cost_triggered")',
                        audits'[i].by = audits'[k].by, audits'[i].of = audits'[k].of
                 PROVE  i = k
      OBVIOUS
    <3>1. audits'[i].by \in Procs
      <4>1. audits' \in Seq(AuditRows) /\ i \in DOMAIN audits'
        BY TypeNext DEF TypeOK, AuditsOf
      <4>2. \A s \in Seq(AuditRows) : \A j \in DOMAIN s : s[j] \in AuditRows
        OBVIOUS
      <4>3. audits'[i] \in AuditRows
        BY <4>1, <4>2
      <4> QED
        BY <4>3 DEF AuditRows
    <3> QED
      BY <1>3, <3>1 DEF MyAudits
  <2> QED
    BY <1>2, <2>1 DEF PostMortemsLimited, MineToday
<1> QED
  BY <1>1, <1>4 DEF PostMortemInv

(* However many batches are started, a process stays within the daily      *)
(* limit, and no trade is examined twice by one process                    *)
(* (audit.py:145-187).                                                     *)
THEOREM PostMortemsStayLimited == Spec => []PostMortemsLimited
<1>1. Init => PostMortemInv
  <2> SUFFICES ASSUME Init PROVE PostMortemInv
    OBVIOUS
  <2>1. audits = << >> /\ \A p \in Procs : me[p] = Resting
    BY DEF Init, ResearchTablesInit
  <2>2. AuditsOf("cost_triggered") = {}
    BY <2>1 DEF AuditsOf
  <2>3. \A S \in SUBSET AuditsOf("cost_triggered") : Cardinality(S) = 0
    BY <2>2, FS_EmptySet
  <2> QED
    BY <2>1, <2>2, <2>3, LimitsBounded DEF PostMortemInv, PostMortemsLimited, BatchInv,
      Batching, Resting
<1>2. PostMortemInv => PostMortemsLimited
  BY DEF PostMortemInv
<1> QED
  BY <1>1, <1>2, PostMortemNext, DatesAreSound, TypeCorrect, PTL DEF Spec

-----------------------------------------------------------------------------
(* The budget.                                                             *)

(* What a process owes is a number.                                        *)
LEMMA OwedType ==
  TypeOK => \A q \in Procs : /\ OwedBy(me[q]) \in Nat
                             /\ Batching(me[q]) => /\ IsFiniteSet(me[q].new)
                                                   /\ Cardinality(me[q].new) \in Nat
<1> SUFFICES ASSUME TypeOK, NEW q \in Procs
             PROVE  /\ OwedBy(me[q]) \in Nat
                    /\ Batching(me[q]) => /\ IsFiniteSet(me[q].new)
                                          /\ Cardinality(me[q].new) \in Nat
  OBVIOUS
<1>1. Batching(me[q]) => IsFiniteSet(me[q].new)
  BY LosersAssumption, FS_Subset DEF TypeOK, Shape
<1>2. Batching(me[q]) => Cardinality(me[q].new) \in Nat
  BY <1>1, FS_CardinalityType
<1> QED
  BY <1>1, <1>2 DEF OwedBy, Called

(* The same of the next state.                                             *)
LEMMA OwedNextType ==
  (TypeOK => \A q \in Procs : /\ OwedBy(me[q]) \in Nat
                              /\ Batching(me[q]) => /\ IsFiniteSet(me[q].new)
                                                    /\ Cardinality(me[q].new) \in Nat)'
BY OwedType, PTL

(* What the first step of a plan leaves of it.                             *)
LEMMA PlanWrites ==
  ASSUME NEW plan \in Plans, plan # << >>
  PROVE  /\ Head(plan) = "log" => plan \in PlansToLog /\ Tail(plan) \notin PlansToLog
         /\ Tail(plan) \in PlansToLog => plan \in PlansToLog
<1>1. /\ Tail(<<"score", "log">>) = <<"log">> /\ Tail(<<"create", "log">>) = <<"log">>
      /\ Tail(<<"log", "audit">>) = <<"audit">> /\ Tail(<<"audit", "log">>) = <<"log">>
      /\ Tail(<<"audit">>) = << >> /\ Tail(<<"log">>) = << >>
  OBVIOUS
<1>2. /\ Head(<<"score", "log">>) # "log" /\ Head(<<"create", "log">>) # "log"
      /\ Head(<<"audit", "log">>) # "log" /\ Head(<<"audit">>) # "log"
  OBVIOUS
<1>3. /\ <<"audit">> \notin PlansToLog /\ << >> \notin PlansToLog
      /\ <<"log", "audit">> \in PlansToLog /\ <<"log">> \in PlansToLog
      /\ <<"score", "log">> \in PlansToLog /\ <<"create", "log">> \in PlansToLog
      /\ <<"audit", "log">> \in PlansToLog
  BY DEF PlansToLog, Plans
<1> QED
  BY <1>1, <1>2, <1>3 DEF Plans

(* Going on with a plan costs no more than the plan.                       *)
LEMMA ContinueOwes ==
  ASSUME TypeOK, [Next]_vars, NEW q \in Procs, NEW plan \in Plans, Continue(q, plan)
  PROVE  OwedBy(me'[q]) <= (OwedBy(me[q]) - Called(me[q]))
                             + (IF plan \in PlansToLog THEN 1 ELSE 0)
<1> PICK v : v = me'[q]
  OBVIOUS
<1> DEFINE w == me[q]
           one == IF plan \in PlansToLog THEN 1 ELSE 0
           rest == IF Batching(w) THEN Cardinality(w.new) ELSE 0
<1>1. rest \in Nat
  BY OwedType
<1>2. OwedBy(w) = Called(w) + rest /\ Called(w) \in {0, 1}
  BY DEF OwedBy, Called
<1>3. << >> \notin PlansToLog
  BY DEF PlansToLog
<1>4. CASE /\ plan # << >> /\ v.at = "answered" /\ v.plan = plan
           /\ v.task = w.task /\ v.new = w.new /\ v.cand = w.cand
  <2>1. Called(v) = one
    BY <1>4 DEF Called, Calling
  <2>2. OwedBy(v) = one + rest
    BY <1>4, <2>1 DEF OwedBy, Batching
  <2> HIDE DEF rest, w, one
  <2>3. one \in {0, 1}
    BY DEF one
  <2>4. OwedBy(v) <= (OwedBy(w) - Called(w)) + one
    BY <1>1, <1>2, <2>2, <2>3
  <2> QED
    BY <2>4 DEF w, one
<1>5. CASE /\ plan = << >> /\ w.task \in {"pass", "postmortem"}
           /\ v.at = IF w.task = "pass" THEN "escalating" ELSE "batch"
           /\ v.task = w.task /\ v.new = w.new
  <2>1. Called(v) = 0
    BY <1>5 DEF Called, Calling
  <2>2. OwedBy(v) = 0 + rest /\ one = 0
    BY <1>3, <1>5, <2>1 DEF OwedBy, Batching
  <2> HIDE DEF rest, w, one
  <2>3. OwedBy(v) <= (OwedBy(w) - Called(w)) + one
    BY <1>1, <1>2, <2>2
  <2> QED
    BY <2>3 DEF w, one
<1>6. CASE plan = << >> /\ v = Resting
  <2>1. OwedBy(v) = 0 /\ one = 0
    BY <1>3, <1>6 DEF OwedBy, Called, Calling, Batching, Resting
  <2> HIDE DEF rest, w, one
  <2>3. OwedBy(v) <= (OwedBy(w) - Called(w)) + one
    BY <1>1, <1>2, <2>1
  <2> QED
    BY <2>3 DEF w, one
<1> QED
  BY <1>4, <1>5, <1>6, ContinueEffects

(* What is owed grows behind a look at the budget only: by one call, or by *)
(* a batch within the largest limit; and what is logged is owed no more.     *)
Looked(q, v) ==
  /\ Allowed /\ now' = now /\ costs' = costs
  /\ \/ OwedBy(v) <= 1
     \/ "postmortem" \in duty[q].does /\ LargestLimit > 0 /\ OwedBy(v) <= LargestLimit

(* A paid call adds to what its process owes only after a look at the      *)
(* budget.                                                                 *)
LEMMA CallOwes ==
  ASSUME TypeOK, [Next]_vars, NEW q \in Procs, PaidCall(q), NEW v, v = me'[q]
  PROVE  \/ OwedBy(v) <= OwedBy(me[q]) /\ ~WriteCost(q)
         \/ OwedBy(v) <= OwedBy(me[q]) - 1
         \/ Looked(q, v)
<1> DEFINE w == me[q]
<1>0. /\ w \in Holdings /\ Shape(w) /\ me \in [Procs -> Holdings]
      /\ OwedBy(w) \in Nat /\ OwedBy(v) \in Nat
  BY TypeNext, OwedType, OwedNextType DEF TypeOK
<1>1. ASSUME NEW c \in CandIds, StartThesis(q, c) PROVE Looked(q, v)
  <2>1. v.at = "thesis" /\ v.task = "thesis"
    BY <1>0, <1>1 DEF StartThesis, Become, Resting
  <2>2. OwedBy(v) = 1
    BY <2>1 DEF OwedBy, Called, Calling, Batching
  <2> QED
    BY <1>1, <2>2 DEF StartThesis, Looked, tableVars, budgetVars
<1>2. CASE StartProposal(q)
  <2>1. v.at = "proposing" /\ v.task = "proposal"
    BY <1>0, <1>2 DEF StartProposal, Become, Resting
  <2>2. OwedBy(v) = 1
    BY <2>1 DEF OwedBy, Called, Calling, Batching
  <2> QED
    BY <1>2, <2>2 DEF StartProposal, Looked, tableVars, budgetVars
<1>3. CASE CallAnswered(q) \/ CallRaises(q)
  <2>1. w.at \in Calling /\ \E plan \in Plans : Continue(q, plan)
    BY <1>3, PlanParts DEF CallAnswered, CallRaises, Plans
  <2>2. Called(w) = 1 /\ w.at # "answered"
    BY <2>1 DEF Called, Calling
  <2>3. OwedBy(v) <= OwedBy(w)
    <3>1. PICK plan \in Plans : Continue(q, plan)
      BY <2>1
    <3>2. OwedBy(v) <= (OwedBy(w) - Called(w)) + (IF plan \in PlansToLog THEN 1 ELSE 0)
      BY <3>1, ContinueOwes
    <3> HIDE DEF w
    <3> QED
      BY <1>0, <2>2, <3>2
  <2>4. ~WriteCost(q)
    BY <2>2 DEF WriteCost, Doing, At
  <2> QED
    BY <2>3, <2>4
<1>4. CASE WriteScore(q) \/ WriteCost(q) \/ WriteAudit(q) \/ WriteStrategy(q)
  <2>1. Continue(q, Tail(w.plan)) /\ w.at = "answered" /\ w.plan \in Plans /\ w.plan # << >>
    BY <1>0, <1>4 DEF WriteScore, WriteCost, WriteAudit, WriteStrategy, Doing, At, Shape,
      Holdings
  <2>2. Tail(w.plan) \in Plans
    BY <2>1, PlanParts
  <2>3. Called(w) = IF w.plan \in PlansToLog THEN 1 ELSE 0
    BY <2>1 DEF Called, Calling
  <2>4. OwedBy(v) <= (OwedBy(w) - Called(w)) + (IF Tail(w.plan) \in PlansToLog THEN 1 ELSE 0)
    BY <2>1, <2>2, ContinueOwes
  <2>5. CASE WriteCost(q)
    <3>1. w.plan \in PlansToLog /\ Tail(w.plan) \notin PlansToLog
      BY <2>1, <2>5, PlanWrites DEF WriteCost, Doing
    <3> HIDE DEF w
    <3>2. OwedBy(v) <= OwedBy(w) - 1
      BY <1>0, <2>3, <2>4, <3>1
    <3> QED
      BY <3>2 DEF w
  <2>6. CASE ~WriteCost(q)
    <3>1. Tail(w.plan) \in PlansToLog => w.plan \in PlansToLog
      BY <2>1, PlanWrites
    <3> HIDE DEF w
    <3>2. OwedBy(v) <= OwedBy(w)
      BY <1>0, <2>3, <2>4, <3>1
    <3> QED
      BY <2>6, <3>2 DEF w
  <2> QED
    BY <2>5, <2>6
<1> QED
  BY <1>1, <1>2, <1>3, <1>4 DEF PaidCall

(* So does every action of a process. *)
LEMMA OwedMoves ==
  ASSUME TypeOK, [Next]_vars, NEW q \in Procs, NEW v, v = me'[q]
  PROVE  \/ OwedBy(v) <= OwedBy(me[q]) /\ ~WriteCost(q)
         \/ OwedBy(v) <= OwedBy(me[q]) - 1
         \/ Looked(q, v)
<1> DEFINE w == me[q]
<1>0. /\ w \in Holdings /\ Shape(w) /\ me \in [Procs -> Holdings]
      /\ OwedBy(w) \in Nat /\ OwedBy(v) \in Nat
  BY TypeNext, OwedType, OwedNextType DEF TypeOK
<1>1. OwedBy(Resting) = 0
  BY DEF OwedBy, Called, Calling, Batching, Resting
<1>2. WriteCost(q) => w.at = "answered"
  BY DEF WriteCost, Doing, At
<1>3. CASE ~Acts(q)
  <2>1. v = w /\ ~WriteCost(q)
    BY <1>3, TableMoves, ActorMoves DEF Acts, PaidCall
  <2> QED
    BY <1>0, <2>1
<1>4. CASE Pass(q)
  <2>1. CASE EscalateNext(q)
    <3>1. OwedBy(v) = 1
      BY <1>4, <2>1, PassAts, PassEffects DEF OwedBy, Called, Calling
    <3> QED
      BY <2>1, <3>1 DEF EscalateNext, Looked, tableVars, budgetVars
  <2>2. CASE ~EscalateNext(q)
    <3>1. OwedBy(v) = 0
      BY <1>4, <2>2, PassAts DEF OwedBy, Called
    <3>2. ~WriteCost(q)
      BY <1>2, <1>4 DEF Pass, StartPass, Generate, PassEnds, PassDone, TakeItem,
        FindSignal, Wanted, InsertSignal, SignalRaises, MakeCandidate, LinkCandidate,
        LinkRaises, Escalate, EscalateNext, EscalateEnds, At, Free
    <3> QED
      BY <1>0, <3>1, <3>2
  <2> QED
    BY <2>1, <2>2
<1>5. CASE PaidCall(q)
  BY <1>5, CallOwes
<1>6. CASE PostMortem(q)
  <2>1. CASE StartPostMortems(q)
    <3> DEFINE k == Cardinality(AuditedToday)
    <3>0. PICK n \in Limits :
            /\ k < LimitFor(n)
            /\ Become(q, [Resting EXCEPT !.at = "batch", !.task = "postmortem",
                                         !.new = LatestPending(LimitFor(n) - k)])
      BY <2>1 DEF StartPostMortems
    <3> DEFINE S == LatestPending(LimitFor(n) - k)
    <3>1. /\ "postmortem" \in duty[q].does /\ k < LimitFor(n) /\ Allowed
          /\ LimitFor(n) \in Nat /\ LimitFor(n) <= LargestLimit
          /\ Become(q, [Resting EXCEPT !.at = "batch", !.task = "postmortem", !.new = S])
      BY <2>1, <3>0, LimitsBounded DEF StartPostMortems, Free
    <3>2. k \in Nat
      <4>1. AuditedToday \subseteq 1 .. Len(audits) /\ Len(audits) \in Nat
        BY Rows DEF AuditedToday, AuditsOf
      <4>2. IsFiniteSet(1 .. Len(audits))
        BY <4>1, UpTo
      <4> QED
        BY <4>1, <4>2, FS_Subset, FS_CardinalityType
    <3>3. Cardinality(S) \in Nat /\ Cardinality(S) <= LimitFor(n) - k
      <4>1. LimitFor(n) - k \in Nat
        <5> HIDE DEF k
        <5> QED
          BY <3>1, <3>2
      <4> QED
        BY <4>1, LatestPendingSize, FS_CardinalityType
    <3> HIDE DEF S, k
    <3>4. v.at = "batch" /\ v.task = "postmortem" /\ v.new = S
      BY <1>0, <3>1 DEF Become, Resting
    <3>5. OwedBy(v) = 0 + Cardinality(S)
      BY <3>4 DEF OwedBy, Called, Calling, Batching
    <3>6. OwedBy(v) <= LargestLimit /\ LargestLimit > 0
      BY <3>1, <3>2, <3>3, <3>5, LimitsBounded
    <3> QED
      BY <2>1, <3>1, <3>6 DEF StartPostMortems, Looked, tableVars, budgetVars
  <2>2. CASE NextTrade(q)
    <3>1. LET t == Newest(w.new)
          IN  /\ w.at = "batch" /\ t \in w.new /\ v.new = w.new \ {t} /\ v.task = w.task
              /\ v.at \in {"answered", "mortem"}
      BY <2>2, BatchEffects
    <3>2. Batching(w) /\ Batching(v)
      BY <1>0, <3>1 DEF Shape, Batching
    <3>3. Cardinality(v.new) = Cardinality(w.new) - 1 /\ Cardinality(w.new) \in Nat
      <4>1. IsFiniteSet(w.new) /\ Cardinality(w.new) \in Nat
        BY <3>2, OwedType
      <4> DEFINE t == Newest(w.new)
      <4>2. t \in w.new /\ v.new = w.new \ {t}
        BY <3>1
      <4> HIDE DEF t, w
      <4> QED
        BY <4>1, <4>2, FS_RemoveElement
    <3>4. Called(w) = 0 /\ Called(v) \in {0, 1}
      BY <3>1 DEF Called, Calling
    <3>5. OwedBy(w) = Called(w) + Cardinality(w.new)
          /\ OwedBy(v) = Called(v) + Cardinality(v.new)
      BY <3>2 DEF OwedBy
    <3>6. ~WriteCost(q)
      BY <1>2, <3>1
    <3> HIDE DEF w
    <3>7. OwedBy(v) <= OwedBy(w)
      BY <3>3, <3>4, <3>5
    <3> QED
      BY <3>6, <3>7 DEF w
  <2>3. CASE BatchDone(q)
    <3>1. v = Resting /\ w.at = "batch"
      BY <1>0, <2>3 DEF BatchDone, Rest, Become, At
    <3> QED
      BY <1>0, <1>1, <1>2, <3>1
  <2> QED
    BY <1>6, <2>1, <2>2, <2>3 DEF PostMortem
<1>7. CASE Mirror(q)
  <2>1. (v = w /\ w.at = "idle") \/ OwedBy(v) = 0
    BY <1>0, <1>1, <1>7, MirrorEffects
      DEF Mirror, OwedBy, Called, Calling, Batching, Shape
  <2>2. w.at # "answered"
    BY <1>7, MirrorEffects DEF Mirror
  <2> QED
    BY <1>0, <1>2, <2>1, <2>2
<1>8. CASE Crash(q) /\ ~WriteCost(q)
  <2>1. v = Resting
    BY <1>0, <1>8 DEF Crash, Rest, Become
  <2> QED
    BY <1>0, <1>1, <1>8, <2>1
<1>9. Crash(q) /\ WriteCost(q) => PaidCall(q)
  BY DEF PaidCall
<1> QED
  BY <1>3, <1>4, <1>5, <1>6, <1>7, <1>8, <1>9 DEF Acts

(* Every process owes no more than it may have in flight.                  *)
LEMMA InFlightType ==
  ASSUME TypeOK
  PROVE  \A p \in Procs : InFlight[p] \in Nat /\ InFlight[p] >= 1
BY LimitsBounded DEF InFlight

(* The bound in terms of the sum the lemmas are about.                     *)
LEMMA OverspendIs ==
  OverspendBounded <=>
    (Ceiling > 0 =>
       \A k \in Months : costs[k] <= (Ceiling - 1) + Total(InFlight, Procs))
BY DEF OverspendBounded, Total

(* The bound of the next state, written out as a sum. *)
LEMMA OverspendNextIs ==
  (OverspendBounded <=>
    (Ceiling > 0 =>
       \A k \in Months : costs[k] <= (Ceiling - 1) + Total(InFlight, Procs)))'
BY OverspendIs, PTL

(* A look at the budget finds the month below the ceiling; what is logged  *)
(* was owed before; a new month starts from nothing.                       *)
LEMMA BudgetNext ==
  TypeOK /\ DatesInv /\ BudgetInv /\ [Next]_vars => BudgetInv'
<1> SUFFICES ASSUME TypeOK, DatesInv, BudgetInv, [Next]_vars PROVE BudgetInv'
  OBVIOUS
<1> PICK old, new, limit : old = Owed /\ new = Owed' /\ limit = InFlight
  OBVIOUS
<1> PICK m, n : m = MonthOf(now) /\ n = MonthOf(now')
  OBVIOUS
<1>1. /\ \A p \in Procs : /\ old[p] \in Nat /\ new[p] \in Nat /\ limit[p] \in Nat
                          /\ old[p] <= limit[p] /\ limit[p] >= 1
                          /\ old[p] = OwedBy(me[p]) /\ new[p] = OwedBy(me'[p])
      /\ IsFiniteSet(Procs)
  BY TypeNext, OwedType, OwedNextType, InFlightType, ProcsAssumption DEF Owed, BudgetInv
<1>2. InFlight' = limit
  BY TableMoves DEF InFlight
<1>3. \A q \in Procs : \/ new[q] <= old[q] /\ ~WriteCost(q)
                       \/ new[q] <= old[q] - 1
                       \/ Looked(q, me'[q])
  BY <1>1, OwedMoves
<1>4. \A p \in Procs : new[p] <= limit[p]
  <2> SUFFICES ASSUME NEW p \in Procs PROVE new[p] <= limit[p]
    OBVIOUS
  <2>1. CASE new[p] <= old[p] \/ new[p] <= old[p] - 1
    BY <1>1, <2>1
  <2>2. CASE Looked(p, me'[p])
    <3>1. limit[p] = IF "postmortem" \in duty[p].does /\ LargestLimit > 0 THEN LargestLimit ELSE 1
      BY DEF InFlight
    <3> QED
      BY <1>1, <2>2, <3>1, LimitsBounded DEF Looked
  <2> QED
    BY <1>3, <2>1, <2>2
<1>5. /\ Total(old, Procs) \in Int /\ Total(old, Procs) >= 0
      /\ Total(new, Procs) \in Int /\ Total(new, Procs) >= 0
      /\ Total(limit, Procs) \in Int
      /\ Total(old, Procs) <= Total(limit, Procs)
      /\ Total(new, Procs) <= Total(limit, Procs)
  <2>2. /\ Total(old, Procs) \in Int /\ Total(old, Procs) >= 0
        /\ Total(new, Procs) \in Int /\ Total(new, Procs) >= 0
        /\ Total(limit, Procs) \in Int
    BY <1>1, TotalType
  <2>3. Total(old, Procs) <= Total(limit, Procs)
    BY <1>1, TotalLeq
  <2>4. Total(new, Procs) <= Total(limit, Procs)
    BY <1>1, <1>4, TotalLeq
  <2> QED
    BY <2>2, <2>3, <2>4
<1>6. /\ m \in Months /\ n \in Months /\ m \in Int /\ n \in Int /\ m <= n
      /\ costs \in [Months -> Nat] /\ Months \subseteq Int
  BY Grows, MonthsInOrder DEF TypeOK, Months
<1>7. ASSUME Ceiling > 0 PROVE costs'[n] + Total(new, Procs) <= Ceiling - 1 + Total(limit, Procs)
  <2>1. costs[m] + Total(old, Procs) <= Ceiling - 1 + Total(limit, Procs)
    BY <1>7 DEF BudgetInv
  <2>2. CASE \E p \in Procs : WriteCost(p)
    <3>1. PICK p \in Procs : WriteCost(p)
      BY <2>2
    <3>2. /\ now' = now /\ costs' = [costs EXCEPT ![m] = @ + 1]
      BY <3>1 DEF WriteCost, LogCost
    <3>3. n = m /\ costs'[n] = costs[m] + 1
      BY <1>6, <3>2
    <3>4. \A q \in Procs \ {p} : new[q] = old[q]
      <4>1. \A q \in Procs : q # p => me'[q] = me[q]
        BY <3>1, ActorMoves DEF Acts, PaidCall
      <4> QED
        BY <1>1, <4>1
    <3>5. new[p] <= old[p] - 1
      <4>1. ~Looked(p, me'[p])
        <5>1. costs'[m] # costs[m]
          BY <1>6, <3>3
        <5> QED
          BY <5>1 DEF Looked
      <4> QED
        BY <1>3, <3>1, <4>1
    <3>6. /\ Total(new, Procs) = new[p] + Total(new, Procs \ {p})
          /\ Total(old, Procs) = old[p] + Total(old, Procs \ {p})
      BY <1>1, TotalRemove
    <3>7. IsFiniteSet(Procs \ {p})
      BY <1>1, FS_Subset
    <3>8. Total(new, Procs \ {p}) = Total(old, Procs \ {p}) /\ Total(old, Procs \ {p}) \in Int
      BY <1>1, <3>4, <3>7, TotalSame, TotalType
    <3>9. Total(new, Procs) <= Total(old, Procs) - 1
      BY <1>1, <3>5, <3>6, <3>8
    <3>10. costs[m] \in Nat
      BY <1>6
    <3> QED
      BY <1>5, <2>1, <3>3, <3>9, <3>10, Budgets
  <2>3. CASE costs' = costs /\ Allowed
    <3>1. costs[m] \in Nat /\ costs[m] < Ceiling
      BY <1>6, <1>7, <2>3, Budgets DEF Allowed, Tripped, Mtd
    <3>2. costs[n] = costs[m] \/ costs[n] = 0
      BY <1>6 DEF DatesInv
    <3> QED
      BY <1>5, <1>7, <2>3, <3>1, <3>2, Budgets
  <2>4. CASE costs' = costs /\ ~Allowed
    <3>1. \A p \in Procs : ~Looked(p, me'[p])
      BY <2>4 DEF Looked
    <3>2. \A p \in Procs : new[p] <= old[p]
      BY <1>1, <1>3, <3>1
    <3>3. Total(new, Procs) <= Total(old, Procs)
      BY <1>1, <3>2, TotalLeq
    <3>4. CASE n = m
      <4>1. costs[m] \in Nat
        BY <1>6
      <4> QED
        BY <1>5, <2>1, <2>4, <3>3, <3>4, <4>1, Budgets
    <3>5. CASE n # m
      <4>1. costs[n] = 0
        BY <1>6, <3>5 DEF DatesInv
      <4> QED
        BY <1>5, <1>7, <2>4, <4>1, Budgets
    <3> QED
      BY <3>4, <3>5
  <2> QED
    BY <2>2, <2>3, <2>4, TableMoves
<1>8. OverspendBounded'
  <2> SUFFICES ASSUME Ceiling > 0, NEW k \in Months
               PROVE  costs'[k] <= (Ceiling - 1) + Total(limit, Procs)
    BY <1>2, OverspendNextIs
  <2>1. costs[k] \in Nat /\ costs[k] <= (Ceiling - 1) + Total(limit, Procs)
    BY <1>6, OverspendIs DEF BudgetInv
  <2>2. costs' = costs \/ (costs' = [costs EXCEPT ![m] = @ + 1] /\ n = m)
    BY TableMoves DEF WriteCost, LogCost
  <2>3. CASE k = n
    <3>1. costs'[n] \in Nat
      BY <1>6, <2>2
    <3> QED
      BY <1>5, <1>7, <2>3, <3>1, Budgets
  <2>4. CASE k # n
    <3>1. costs'[k] = costs[k]
      BY <1>6, <2>2, <2>4
    <3> QED
      BY <2>1, <3>1
  <2> QED
    BY <2>3, <2>4
<1>9. BudgetInv' <=>
        /\ \A p \in Procs : new[p] <= limit[p]
        /\ Ceiling > 0 =>
             costs'[n] + Total(new, Procs) <= Ceiling - 1 + Total(limit, Procs)
        /\ OverspendBounded'
  <2>1. MonthOf(now)' = n
    BY DEF MonthOf
  <2> QED
    BY <1>2, <2>1 DEF BudgetInv
<1> QED
  BY <1>4, <1>7, <1>8, <1>9

(* The month's logged costs pass the ceiling by no more than the calls in  *)
(* flight when it was reached (cost.py:61-91, escalation.py:62-77,         *)
(* audit.py:145-187).                                                      *)
THEOREM OverspendIsBounded == Spec => []OverspendBounded
<1>1. Init => BudgetInv
  <2> SUFFICES ASSUME Init PROVE BudgetInv
    OBVIOUS
  <2>1. TypeOK
    BY TypeInit
  <2>2. \A p \in Procs : Owed[p] = 0
    BY DEF Init, Owed, OwedBy, Called, Calling, Batching, Resting
  <2>3. /\ \A p \in Procs : InFlight[p] \in Nat /\ InFlight[p] >= 1
        /\ IsFiniteSet(Procs)
    BY <2>1, InFlightType, ProcsAssumption
  <2>4. /\ Total(Owed, Procs) <= Total(InFlight, Procs)
        /\ Total(InFlight, Procs) \in Int /\ Total(InFlight, Procs) >= 0
        /\ Total(Owed, Procs) \in Int
    <3>2. Total(Owed, Procs) <= Total(InFlight, Procs)
      BY <2>2, <2>3, TotalLeq
    <3> QED
      BY <2>2, <2>3, <3>2, TotalType
  <2>5. \A k \in Months : costs[k] = 0
    BY DEF Init, BudgetInit
  <2>6. MonthOf(now) \in Months
    BY <2>1, MonthsInOrder DEF TypeOK
  <2> QED
    BY <2>2, <2>3, <2>4, <2>5, <2>6, Budgets, OverspendIs DEF BudgetInv
<1>2. BudgetInv => OverspendBounded
  BY DEF BudgetInv
<1> QED
  BY <1>1, <1>2, BudgetNext, DatesAreSound, TypeCorrect, PTL DEF Spec
=============================================================================
