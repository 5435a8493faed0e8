-------------------------- MODULE LifecycleProofs ---------------------------
(***************************************************************************)
(* Proofs about StrategyLifecycle and CycleRows, for any number of         *)
(* processes, strategies and campaigns.                                    *)
(***************************************************************************)
EXTENDS LifecycleSafety, CycleRows, TLAPS

\* The value sets the proofs take apart.
LEMMA Constants ==
  /\ MaxDepth \in Nat /\ MaxDepth > 0
  /\ <<First, 0>> \in Ids
  /\ FirstCamp \in Camps /\ DefaultCamp \in Camps /\ FirstCamp # DefaultCamp
  /\ None \notin Camps
BY DepthAssumption, NamesAssumption DEF Ids

\* A strategy below the bound has a place for its twin.
LEMMA TwinIsId ==
  ASSUME NEW id \in Ids, id[2] < MaxDepth
  PROVE  Twin(id) \in Ids /\ Twin(id)[1] = id[1] /\ Twin(id)[2] = id[2] + 1
BY Constants DEF Ids, Twin

\* The names of the two transition tables.
LEMMA Targets ==
  /\ DOMAIN Target = {"approve", "reject", "retire", "promote", "setup"}
  /\ \A req \in DOMAIN Target : Target[req] \in {"PAPER", "RETIRED", "LIVE"}
  /\ \A req \in DOMAIN Target : Target[req] = "LIVE" <=> req = "promote"
  /\ DOMAIN CampTarget = {"start", "pause", "resume", "graduate", "retire"}
  /\ \A req \in DOMAIN CampTarget : CampTarget[req] \in CampStates
BY DEF Target, CampTarget, CampStates

\* The initial journal is empty and well typed.
LEMMA TypeInit == Init => TypeOK
<1> SUFFICES ASSUME Init PROVE TypeOK
  OBVIOUS
<1>1. NoRow \in StrategyRows /\ NoCamp \in CampaignRows
  BY DEF NoRow, StrategyRows, NoCamp, CampaignRows
<1>2. Idle \in Requests /\ StepMatches(Idle)
  BY DEF Idle, Requests, StepMatches, Steps
<1> QED
  BY <1>1, <1>2 DEF Init, TypeOK

\* Ending a request keeps the requests in hand well typed.
LEMMA DoneType ==
  ASSUME TypeOK, NEW p \in Procs, Done(p)
  PROVE  work' \in [Procs -> Requests] /\ \A q \in Procs : StepMatches(work'[q])
BY DEF TypeOK, Done, Requests, Idle, StepMatches, Steps

\* Going on to another step does, when the request belongs there.
LEMMA GotoType ==
  ASSUME TypeOK, NEW p \in Procs, NEW s \in Steps, Goto(p, s),
         StepMatches([work[p] EXCEPT !.step = s])
  PROVE  work' \in [Procs -> Requests] /\ \A q \in Procs : StepMatches(work'[q])
<1>1. [work[p] EXCEPT !.step = s] \in Requests
  BY DEF TypeOK, Requests
<1>2. work' = [work EXCEPT ![p] = [work[p] EXCEPT !.step = s]]
  BY DEF Goto, TypeOK
<1> QED
  BY <1>1, <1>2 DEF TypeOK

\* The back-fill keeps the journal well typed.
LEMMA MigrateType ==
  ASSUME TypeOK, Migrate
  PROVE  strategies' \in [Ids -> StrategyRows] /\ campaigns' \in [Camps -> CampaignRows]
BY Constants DEF TypeOK, Migrate, StrategyRows, CampaignRows, CampStates

\* A new request has its type when its step belongs to it.
LEMMA OpenType ==
  ASSUME TypeOK, NEW p \in Procs, NEW req, NEW id, NEW step \in Steps,
         req \in DOMAIN Target \cup DOMAIN CampTarget \cup {"baseline", "none"},
         id \in Ids \cup Camps \cup {None},
         StepMatches([Idle EXCEPT !.step = step, !.req = req, !.id = id]),
         Open(p, req, id, step)
  PROVE  TypeOK'
<1>1. [Idle EXCEPT !.step = step, !.req = req, !.id = id] \in Requests
  BY DEF Idle, Requests
<1>2. work' \in [Procs -> Requests] /\ \A q \in Procs : StepMatches(work'[q])
  BY <1>1 DEF Open, TypeOK
<1> QED
  BY <1>2, MigrateType DEF Open, TypeOK

\* Every step of a request keeps the types.
LEMMA TypeBegin ==
  ASSUME TypeOK, NEW p \in Procs, Begin(p)
  PROVE  TypeOK'
<1>1. ASSUME NEW req \in DOMAIN Target, NEW id \in Ids,
             OpenTransition(p, req, id)
      PROVE  TypeOK'
  <2>1. req \in {"approve", "reject", "retire"} /\ Open(p, req, id, "read")
    BY <1>1 DEF OpenTransition
  <2>2. req = "approve" => id[2] < MaxDepth
    BY <1>1 DEF OpenTransition
  <2>3. StepMatches([Idle EXCEPT !.step = "read", !.req = req, !.id = id])
    BY <2>1, <2>2 DEF StepMatches, Idle
  <2> QED
    BY <2>1, <2>3, OpenType DEF Steps
<1>2. ASSUME NEW id \in Ids, OpenBaseline(p, id)
      PROVE  TypeOK'
  <2>1. id[2] < MaxDepth /\ Open(p, "baseline", id, "look")
    BY <1>2 DEF OpenBaseline
  <2>2. StepMatches([Idle EXCEPT !.step = "look", !.req = "baseline",
                                 !.id = id])
    BY <2>1 DEF StepMatches, Idle
  <2> QED
    BY <2>1, <2>2, OpenType DEF Steps
<1>3. ASSUME NEW id \in Ids, OpenPromote(p, id)
      PROVE  TypeOK'
  <2>1. Open(p, "promote", id, "peek")
    BY <1>3 DEF OpenPromote
  <2>2. StepMatches([Idle EXCEPT !.step = "peek", !.req = "promote",
                                 !.id = id])
    BY DEF StepMatches, Idle
  <2> QED
    BY <2>1, <2>2, Targets, OpenType DEF Steps
<1>4. ASSUME OpenSetup(p)
      PROVE  TypeOK'
  <2>1. Open(p, "setup", <<First, 0>>, "campaign")
    BY <1>4 DEF OpenSetup
  <2>2. StepMatches([Idle EXCEPT !.step = "campaign", !.req = "setup",
                                 !.id = <<First, 0>>])
    BY DEF StepMatches, Idle
  <2> QED
    BY <2>1, <2>2, Constants, Targets, OpenType DEF Steps
<1>5. ASSUME NEW action \in DOMAIN CampTarget, NEW c \in Camps,
             OpenCampaign(p, action, c)
      PROVE  TypeOK'
  <2>1. Open(p, action, c, "readCampaign")
    BY <1>5 DEF OpenCampaign
  <2>2. action # "setup"
    BY Targets
  <2>3. StepMatches([Idle EXCEPT !.step = "readCampaign", !.req = action,
                                 !.id = c])
    BY <2>2 DEF StepMatches, Idle
  <2> QED
    BY <2>1, <2>3, OpenType DEF Steps
<1> QED
  BY <1>1, <1>2, <1>3, <1>4, <1>5 DEF Begin

\* What one row's type gives.
LEMMA RowType ==
  ASSUME TypeOK, NEW id \in Ids
  PROVE  /\ strategies[id] \in StrategyRows
         /\ strategies[id].state \in States \cup {"none"}
         /\ strategies[id].camp \in Camps \cup {None}
         /\ strategies[id].log \in Seq(LogEntries)
BY DEF TypeOK, StrategyRows

\* What one request's type gives.
LEMMA WorkType ==
  ASSUME TypeOK, NEW p \in Procs
  PROVE  /\ work[p] \in Requests /\ StepMatches(work[p])
         /\ work[p].row \in States \cup {"none"}
         /\ work[p].camp \in Camps \cup {None}
BY DEF TypeOK, Requests

\* A row of a new strategy has its type.
LEMMA InsertType ==
  ASSUME TypeOK, NEW id \in Ids, NEW c \in Camps \cup {None},
         InsertStrategy(id, c)
  PROVE  strategies' \in [Ids -> StrategyRows]
<1>1. [state |-> "PROPOSED", camp |-> c,
       log |-> <<[from |-> "none", to |-> "PROPOSED"]>>] \in StrategyRows
  BY DEF StrategyRows, States, LogEntries
<1> QED
  BY <1>1 DEF InsertStrategy, TypeOK

\* A transition's UPDATE and log entry keep the type of the row.
LEMMA SetStateType ==
  ASSUME TypeOK, NEW id \in Ids, NEW from \in States \cup {"none"},
         NEW to \in States, SetState(id, from, to)
  PROVE  strategies' \in [Ids -> StrategyRows]
<1>1. [from |-> from, to |-> to] \in LogEntries
  BY DEF LogEntries
<1>2. Append(strategies[id].log, [from |-> from, to |-> to])
        \in Seq(LogEntries)
  BY <1>1, RowType
<1> QED
  BY <1>2 DEF SetState, TypeOK, StrategyRows

\* Every further step of a request keeps the types.
LEMMA TypeProceed ==
  ASSUME TypeOK, NEW p \in Procs, Proceed(p)
  PROVE  TypeOK'
<1> DEFINE WorkOK == /\ work' \in [Procs -> Requests]
                     /\ \A q \in Procs : StepMatches(work'[q])
<1>0. ASSUME NEW w2 \in Requests, StepMatches(w2),
             work' = [work EXCEPT ![p] = w2]
      PROVE  WorkOK
  BY <1>0 DEF TypeOK
<1>1. CASE Peek(p)
  <2> DEFINE w2 == [work[p] EXCEPT !.step = "gate",
                                   !.row = strategies[work[p].id].state]
  <2>1. work[p].id \in Ids /\ work[p].req = "promote"
    BY <1>1, WorkType DEF Peek, StepMatches
  <2>2. w2 \in Requests /\ StepMatches(w2)
    BY <1>1, <2>1, WorkType, RowType DEF Peek, Requests, StepMatches, Steps
  <2>3. work' = [work EXCEPT ![p] = w2]
    BY <1>1 DEF Peek, TypeOK
  <2> HIDE DEF w2
  <2>4. WorkOK
    BY <1>0, <2>2, <2>3
  <2> QED
    BY <1>1, <2>4 DEF Peek, TypeOK
<1>2. ASSUME NEW force \in BOOLEAN, Gate(p, force)
      PROVE  TypeOK'
  <2>1. work[p].id \in Ids /\ work[p].req = "promote"
    BY <1>2, WorkType DEF Gate, StepMatches
  <2>2. StepMatches([work[p] EXCEPT !.step = "read"])
    BY <2>1, WorkType, Targets DEF StepMatches, Requests
  <2>3. WorkOK
    BY <1>2, <2>2, DoneType, GotoType DEF Gate, Steps
  <2> QED
    BY <1>2, <2>3 DEF Gate, TypeOK
<1>3. CASE Read(p)
  <2> DEFINE w2 == [work[p] EXCEPT !.step = "write",
                                   !.row = strategies[work[p].id].state]
  <2>1. work[p].id \in Ids
    BY <1>3, WorkType DEF Read, StepMatches
  <2>2. w2 \in Requests /\ StepMatches(w2)
    BY <1>3, <2>1, WorkType, RowType DEF Read, Requests, StepMatches, Steps
  <2>3. CASE work' = [work EXCEPT ![p] = w2]
    <3> HIDE DEF w2
    <3>1. WorkOK
      BY <1>0, <2>2, <2>3
    <3> QED
      BY <1>3, <3>1 DEF Read, TypeOK
  <2>4. CASE Done(p)
    BY <1>3, <2>4, DoneType DEF Read, TypeOK
  <2> QED
    BY <1>3, <2>3, <2>4 DEF Read, TypeOK
<1>4. CASE Write(p)
  <2>1. /\ work[p].id \in Ids /\ work[p].req \in DOMAIN Target
        /\ work[p].req = "approve" => work[p].id[2] < MaxDepth
        /\ work[p].req = "setup" => work[p].id = <<First, 0>>
    BY <1>4, WorkType DEF Write, StepMatches
  <2>2. strategies' \in [Ids -> StrategyRows]
    BY <1>4, <2>1, WorkType, Targets, SetStateType DEF Write, States
  <2>3. WorkOK
    <3>1. CASE Done(p)
      BY <3>1, DoneType
    <3>2. CASE Goto(p, "look") /\ work[p].req \in {"approve", "setup"}
      <4>1. work[p].id[2] < MaxDepth
        BY <2>1, <3>2, Constants
      <4>2. StepMatches([work[p] EXCEPT !.step = "look"])
        BY <2>1, <4>1, WorkType DEF StepMatches, Requests
      <4> QED
        BY <3>2, <4>2, GotoType DEF Steps
    <3> QED
      BY <1>4, <3>1, <3>2 DEF Write
  <2> QED
    BY <1>4, <2>2, <2>3 DEF Write, TypeOK
<1>5. CASE Look(p)
  <2> DEFINE w2 == [work[p] EXCEPT !.step = "twin",
                                   !.row = strategies[work[p].id].state,
                                   !.camp = strategies[work[p].id].camp]
  <2>1. work[p].id \in Ids /\ work[p].id[2] < MaxDepth
    BY <1>5, WorkType DEF Look, StepMatches
  <2>2. w2 \in Requests /\ StepMatches(w2)
    BY <1>5, <2>1, WorkType, RowType DEF Look, Requests, StepMatches, Steps
  <2>3. WorkOK
    <3>1. CASE work' = [work EXCEPT ![p] = w2]
      <4> HIDE DEF w2
      <4> QED
        BY <1>0, <2>2, <3>1
    <3>2. CASE Done(p)
      BY <3>2, DoneType
    <3>3. CASE Goto(p, "attach") /\ work[p].req = "setup"
      <4>1. StepMatches([work[p] EXCEPT !.step = "attach"])
        BY <3>3, WorkType DEF StepMatches, Requests
      <4> QED
        BY <3>3, <4>1, GotoType DEF Steps
    <3> QED
      <4>1. CASE Exists(Twin(work[p].id))
        BY <1>5, <4>1, <3>2, <3>3 DEF Look
      <4>2. CASE ~Exists(Twin(work[p].id)) /\ Exists(work[p].id)
        <5>1. work' = [work EXCEPT ![p] = w2]
          BY <1>5, <4>2 DEF Look, TypeOK
        <5> QED
          BY <5>1, <3>1
      <4>3. CASE ~Exists(Twin(work[p].id)) /\ ~Exists(work[p].id)
        BY <1>5, <4>3, <3>2 DEF Look
      <4> QED
        BY <4>1, <4>2, <4>3
  <2> QED
    BY <1>5, <2>3 DEF Look, TypeOK
<1>6. CASE InsertTwin(p)
  <2>1. work[p].id \in Ids /\ work[p].id[2] < MaxDepth
    BY <1>6, WorkType DEF InsertTwin, StepMatches
  <2>2. TwinRow(work[p]) \in StrategyRows
    BY WorkType DEF TwinRow, StrategyRows
  <2>3. strategies' \in [Ids -> StrategyRows]
    BY <1>6, <2>2 DEF InsertTwin, TypeOK
  <2>4. WorkOK
    <3>1. CASE Done(p)
      BY <3>1, DoneType
    <3>2. CASE Goto(p, "attach") /\ work[p].req = "setup"
      <4>1. StepMatches([work[p] EXCEPT !.step = "attach"])
        BY <3>2, WorkType DEF StepMatches, Requests
      <4> QED
        BY <3>2, <4>1, GotoType DEF Steps
    <3> QED
      BY <1>6, <3>1, <3>2 DEF InsertTwin
  <2> QED
    BY <1>6, <2>3, <2>4 DEF InsertTwin, TypeOK
<1>7. CASE SetupCampaign(p)
  <2>1. work[p].req = "setup" /\ work[p].id = <<First, 0>>
    BY <1>7, WorkType DEF SetupCampaign, StepMatches
  <2>2. campaigns' \in [Camps -> CampaignRows]
    <3>1. [state |-> "ACTIVE", started |-> TRUE] \in CampaignRows
      BY DEF CampaignRows, CampStates
    <3> QED
      BY <1>7, <3>1 DEF SetupCampaign, TypeOK
  <2>3. WorkOK
    <3>1. StepMatches([work[p] EXCEPT !.step = "create"])
      BY <2>1, WorkType DEF StepMatches, Requests
    <3> QED
      BY <1>7, <3>1, DoneType, GotoType DEF SetupCampaign, Steps
  <2> QED
    BY <1>7, <2>2, <2>3 DEF SetupCampaign, TypeOK
<1>8. CASE SetupStrategy(p)
  <2>1. work[p].req = "setup" /\ work[p].id = <<First, 0>>
    BY <1>8, WorkType DEF SetupStrategy, StepMatches
  <2>2. strategies' \in [Ids -> StrategyRows]
    BY <1>8, <2>1, Constants, InsertType DEF SetupStrategy, TypeOK
  <2>3. WorkOK
    <3>1. StepMatches([work[p] EXCEPT !.step = "read"])
      BY <2>1, Constants, Targets, WorkType DEF StepMatches, Requests
    <3> QED
      BY <1>8, <3>1, DoneType, GotoType DEF SetupStrategy, Steps
  <2> QED
    BY <1>8, <2>2, <2>3 DEF SetupStrategy, TypeOK
<1>9. CASE Attach(p)
  <2>1. strategies' \in [Ids -> StrategyRows]
    BY <1>9, Constants DEF Attach, TypeOK, StrategyRows
  <2> QED
    BY <1>9, <2>1, DoneType DEF Attach, TypeOK
<1>10. CASE ReadCampaign(p)
  <2>1. work[p].id \in Camps /\ work[p].req \in DOMAIN CampTarget
    BY <1>10, WorkType DEF ReadCampaign, StepMatches
  <2>2. WorkOK
    <3>1. StepMatches([work[p] EXCEPT !.step = "writeCampaign"])
      BY <2>1, WorkType DEF StepMatches, Requests
    <3> QED
      BY <1>10, <3>1, DoneType, GotoType DEF ReadCampaign, Steps
  <2> QED
    BY <1>10, <2>2 DEF ReadCampaign, TypeOK
<1>11. CASE WriteCampaign(p)
  <2>1. work[p].id \in Camps /\ CampTarget[work[p].req] \in CampStates
    BY <1>11, WorkType, Targets DEF WriteCampaign, StepMatches
  <2>2. campaigns' \in [Camps -> CampaignRows]
    BY <1>11, <2>1 DEF WriteCampaign, SetCampState, TypeOK, CampaignRows
  <2> QED
    BY <1>11, <2>2, DoneType DEF WriteCampaign, TypeOK
<1> QED
  BY <1>1, <1>2, <1>3, <1>4, <1>5, <1>6, <1>7, <1>8, <1>9, <1>10, <1>11
     DEF Proceed

\* What happens without a request keeps the types.
LEMMA TypeEnvironment == TypeOK /\ Environment => TypeOK'
<1> SUFFICES ASSUME TypeOK, Environment PROVE TypeOK'
  OBVIOUS
<1>1. ASSUME NEW s \in Strats, NEW c \in Camps \cup {None},
             CreateStrategy(s, c)
      PROVE  TypeOK'
  <2>1. <<s, 0>> \in Ids
    BY Constants DEF Ids
  <2> QED
    BY <1>1, <2>1, InsertType DEF CreateStrategy, TypeOK
<1>2. ASSUME NEW c \in Camps, CreateCampaign(c)
      PROVE  TypeOK'
  BY <1>2 DEF CreateCampaign, TypeOK, CampaignRows, CampStates
<1>3. CASE PageLoad
  BY <1>3, MigrateType DEF PageLoad, TypeOK
<1>4. CASE FileReview \/ NewMonth
  BY <1>4 DEF FileReview, NewMonth, TypeOK
<1>5. ASSUME NEW id \in Reported, NewReport(id)
      PROVE  TypeOK'
  BY <1>5, ReportedAssumption DEF NewReport, TypeOK
<1> QED
  BY <1>1, <1>2, <1>3, <1>4, <1>5 DEF Environment

\* Every step keeps the types.
LEMMA TypeNext == TypeOK /\ [Next]_vars => TypeOK'
<1> SUFFICES ASSUME TypeOK, [Next]_vars PROVE TypeOK'
  OBVIOUS
<1>1. ASSUME NEW p \in Procs, Crash(p)
      PROVE  TypeOK'
  BY <1>1, DoneType DEF Crash, TypeOK
<1>2. CASE UNCHANGED vars
  BY <1>2 DEF vars, TypeOK
<1> QED
  BY <1>1, <1>2, TypeBegin, TypeProceed, TypeEnvironment DEF Next

\* The journal's columns and the requests in hand keep their types, whatever
\* the processes, strategies and campaigns.
THEOREM TypeCorrect == Spec => []TypeOK
BY TypeInit, TypeNext, PTL DEF Spec

-----------------------------------------------------------------------------

\* The ways a step may write the strategies table.
StrategyWrite ==
  \/ Migrate
  \/ UNCHANGED strategies
  \/ \E id \in Ids, c \in Camps \cup {None} :
       ~Exists(id) /\ id[2] = 0 /\ InsertStrategy(id, c)
  \/ \E p \in Procs :
       /\ work[p].step = "write"
       /\ SetState(work[p].id, work[p].row, Target[work[p].req])
  \/ \E p \in Procs :
       /\ work[p].step = "twin" /\ ~Exists(Twin(work[p].id))
       /\ strategies' = [strategies EXCEPT ![Twin(work[p].id)] =
                            TwinRow(work[p])]
  \/ \E p \in Procs :
       /\ work[p].step = "attach"
       /\ strategies' = [strategies EXCEPT
                            ![Twin(<<First, 0>>)].camp = FirstCamp]

\* Every step writes it in one of these ways.
LEMMA StrategyWrites == TypeOK /\ [Next]_vars => StrategyWrite
<1> SUFFICES ASSUME TypeOK, [Next]_vars PROVE StrategyWrite
  OBVIOUS
<1>1. ASSUME NEW p \in Procs, Begin(p)
      PROVE  Migrate
  BY <1>1 DEF Begin, OpenTransition, OpenBaseline, OpenPromote, OpenSetup,
    OpenCampaign, Open
<1>2. ASSUME NEW p \in Procs, Proceed(p)
      PROVE  StrategyWrite
  <2>1. CASE SetupStrategy(p)
    <3>1. work[p].id = <<First, 0>>
      BY <2>1, WorkType DEF SetupStrategy, StepMatches
    <3> QED
      BY <2>1, <3>1, Constants DEF SetupStrategy, StrategyWrite
  <2>2. CASE Attach(p)
    <3>1. work[p].id = <<First, 0>>
      BY <2>2, WorkType DEF Attach, StepMatches
    <3> QED
      BY <2>2, <3>1 DEF Attach, StrategyWrite
  <2>3. CASE Write(p)
    BY <2>3 DEF Write, StrategyWrite
  <2>4. CASE InsertTwin(p)
    BY <2>4 DEF InsertTwin, StrategyWrite
  <2> QED
    BY <1>2, <2>1, <2>2, <2>3, <2>4 DEF Proceed, Peek, Gate, Read, Look,
      SetupCampaign, ReadCampaign, WriteCampaign, StrategyWrite
<1>3. CASE Environment
  <2>1. ASSUME NEW s \in Strats, NEW c \in Camps \cup {None},
               CreateStrategy(s, c)
        PROVE  StrategyWrite
    <3>1. <<s, 0>> \in Ids /\ <<s, 0>>[2] = 0
      BY Constants DEF Ids
    <3> QED
      BY <2>1, <3>1 DEF CreateStrategy, StrategyWrite
  <2> QED
    BY <1>3, <2>1 DEF Environment, CreateCampaign, PageLoad, FileReview,
      NewMonth, NewReport, StrategyWrite
<1> QED
  BY <1>1, <1>2, <1>3 DEF Next, Crash, vars, StrategyWrite

\* What the last entry of an extended log is.
LEMMA LastOfAppend ==
  ASSUME NEW S, NEW log \in Seq(S), NEW e \in S
  PROVE  Append(log, e) # <<>> /\ Last(Append(log, e)) = e
BY DEF Last

\* The entry a transition writes.
Entry(w) == [from |-> w.row, to |-> Target[w.req]]

\* What a step may do to a row's state and log: nothing, create it, create it
\* as a baseline without a log, or move it.
RowStep(id) ==
  \/ /\ strategies'[id].state = strategies[id].state
     /\ strategies'[id].log = strategies[id].log
  \/ /\ ~Exists(id)
     /\ strategies'[id].state = "PROPOSED"
     /\ strategies'[id].log = <<[from |-> "none", to |-> "PROPOSED"]>>
  \/ ~Exists(id) /\ id[2] > 0 /\ strategies'[id].log = <<>>
  \/ \E p \in Procs :
       /\ work[p].step = "write" /\ work[p].id = id
       /\ strategies'[id].state = Entry(work[p]).to
       /\ strategies'[id].log = Append(strategies[id].log, Entry(work[p]))

\* Every write of the strategies table does one of these to each row.
LEMMA RowSteps ==
  ASSUME TypeOK, StrategyWrite, NEW id \in Ids
  PROVE  RowStep(id)
<1>1. CASE Migrate
  <2>1. /\ strategies'[id].log = strategies[id].log
        /\ strategies'[id].state = strategies[id].state
    BY <1>1, RowType DEF Migrate, StrategyRows
  <2> QED
    BY <2>1 DEF RowStep
<1>2. CASE UNCHANGED strategies
  BY <1>2 DEF RowStep
<1>3. ASSUME NEW i \in Ids, NEW c \in Camps \cup {None}, ~Exists(i),
             InsertStrategy(i, c)
      PROVE  RowStep(id)
  BY <1>3 DEF InsertStrategy, TypeOK, RowStep
<1>4. ASSUME NEW p \in Procs, work[p].step = "write",
             SetState(work[p].id, work[p].row, Target[work[p].req])
      PROVE  RowStep(id)
  <2>1. CASE id = work[p].id
    <3>1. /\ strategies'[id].log = Append(strategies[id].log, Entry(work[p]))
          /\ strategies'[id].state = Entry(work[p]).to
      BY <1>4, <2>1, RowType DEF SetState, TypeOK, StrategyRows, Entry
    <3> QED
      BY <1>4, <2>1, <3>1 DEF RowStep
  <2>2. CASE id # work[p].id
    BY <1>4, <2>2 DEF SetState, TypeOK, RowStep
  <2> QED
    BY <2>1, <2>2
<1>5. ASSUME NEW p \in Procs, work[p].step = "twin", ~Exists(Twin(work[p].id)),
             strategies' = [strategies EXCEPT ![Twin(work[p].id)] =
                              TwinRow(work[p])]
      PROVE  RowStep(id)
  <2>1. work[p].id \in Ids /\ work[p].id[2] < MaxDepth
    BY <1>5, WorkType DEF StepMatches
  <2>2. CASE id = Twin(work[p].id)
    <3>1. strategies'[id].log = <<>>
      BY <1>5, <2>2 DEF TypeOK, TwinRow
    <3>2. id[2] > 0
      BY <2>1, <2>2, TwinIsId, Constants DEF Ids
    <3> QED
      BY <1>5, <2>2, <3>1, <3>2 DEF RowStep
  <2>3. CASE id # Twin(work[p].id)
    BY <1>5, <2>3 DEF TypeOK, RowStep
  <2> QED
    BY <2>2, <2>3
<1>6. CASE strategies' = [strategies EXCEPT
                            ![Twin(<<First, 0>>)].camp = FirstCamp]
  <2>1. /\ strategies'[id].log = strategies[id].log
        /\ strategies'[id].state = strategies[id].state
    BY <1>6, RowType DEF TypeOK, StrategyRows
  <2> QED
    BY <2>1 DEF RowStep
<1> QED
  BY <1>1, <1>2, <1>3, <1>4, <1>5, <1>6 DEF StrategyWrite

\* The entry of a write has the type of one.
LEMMA EntryType ==
  ASSUME TypeOK, NEW p \in Procs, work[p].step = "write"
  PROVE  Entry(work[p]) \in LogEntries
BY WorkType, Targets DEF Entry, LogEntries, StepMatches, States

\* An append leaves the earlier entries as legal as they were.
LEMMA LegalStays ==
  ASSUME NEW S, NEW log \in Seq(S), NEW e \in S,
         NEW i \in DOMAIN log, LegalEntry(log, i)
  PROVE  LegalEntry(Append(log, e), i)
<1>1. \A j \in 1 .. i : j \in DOMAIN log /\ Append(log, e)[j] = log[j]
  OBVIOUS
<1>2. i \in 1 .. i /\ \A j \in 1 .. (i - 1) : j \in 1 .. i
  OBVIOUS
<1> QED
  BY <1>1, <1>2 DEF LegalEntry

\* The invariant: the log tells the state, and writers know a legal move.
LogInv == LogTellsState /\ WritesKnow

\* A transition's entry is a legal one: its state is the last the log names,
\* or an earlier one.
LEMMA NewEntryIsLegal ==
  ASSUME TypeOK, LogInv, NEW p \in Procs, work[p].step = "write",
         NEW log, log = strategies[work[p].id].log
  PROVE  LegalEntry(Append(log, Entry(work[p])), Len(log) + 1)
<1> SUFFICES ASSUME NEW w, w = work[p], NEW e, e = Entry(w),
                    NEW new, new = Append(log, e), NEW n, n = Len(log)
             PROVE  LegalEntry(new, n + 1)
  OBVIOUS
<1>0. w.id \in Ids /\ log \in Seq(LogEntries) /\ e \in LogEntries
  BY WorkType, RowType, EntryType DEF StepMatches
<1>1. /\ n \in Nat /\ DOMAIN log = 1 .. n
      /\ new[n + 1] = e
      /\ \A j \in 1 .. n : new[j] = log[j]
  <2>1. log \in Seq(LogEntries) /\ e \in LogEntries
    BY <1>0
  <2>2. /\ Len(log) \in Nat /\ DOMAIN log = 1 .. Len(log)
        /\ Append(log, e)[Len(log) + 1] = e
        /\ \A j \in 1 .. Len(log) : Append(log, e)[j] = log[j]
    BY <2>1
  <2> QED
    BY <2>2
<1>2. /\ w.row \in States /\ Target[w.req] \in ValidTransitions[w.row]
      /\ w.row \in StatesSeen(w.id)
  BY DEF LogInv, WritesKnow
<1>3. /\ new[n + 1].from \in States
      /\ new[n + 1].to \in ValidTransitions[new[n + 1].from]
      /\ new[n + 1].from = w.row
  <2>1. e.from = w.row /\ e.to = Target[w.req]
    BY DEF Entry
  <2> QED
    BY <1>1, <1>2, <2>1
<1>4. CASE log = <<>>
  <2>1. n + 1 = 1
    BY <1>4
  <2> QED
    BY <1>3, <2>1 DEF LegalEntry
<1>5. CASE log # <<>>
  <2>1. n \in 1 .. n /\ log[n].to = strategies[w.id].state
    BY <1>0, <1>5 DEF LogInv, LogTellsState, Last
  <2>2. \E j \in 1 .. n : w.row \in {log[j].from, log[j].to}
    BY <1>1, <1>2, <2>1 DEF StatesSeen
  <2>3. (n + 1) - 1 = n
    BY <1>1
  <2>4. \E j \in 1 .. ((n + 1) - 1) : w.row \in {new[j].from, new[j].to}
    BY <1>1, <2>2, <2>3
  <2> QED
    BY <1>3, <2>4 DEF LegalEntry
<1> QED
  BY <1>4, <1>5

\* Every write of the strategies table keeps log and state together, and
\* every entry legal.
LEMMA LogTellsStateNext ==
  TypeOK /\ LogInv /\ StrategyWrite => LogTellsState'
<1> SUFFICES ASSUME TypeOK, LogInv, StrategyWrite, NEW id \in Ids,
                    NEW log, log = strategies[id].log,
                    NEW new, new = strategies'[id].log,
                    NEW to, to = strategies'[id].state
             PROVE  /\ new # <<>> => Last(new).to = to
                    /\ new = <<>> /\ to # "none" => id[2] > 0
                    /\ \A i \in DOMAIN new : LegalEntry(new, i)
  BY DEF LogTellsState, Exists
<1>0. /\ log # <<>> => Last(log).to = strategies[id].state
      /\ log = <<>> /\ strategies[id].state # "none" => id[2] > 0
      /\ \A i \in DOMAIN log : LegalEntry(log, i)
      /\ log \in Seq(LogEntries)
  BY RowType DEF LogInv, LogTellsState, Exists
<1>1. CASE to = strategies[id].state /\ new = log
  BY <1>0, <1>1
<1>2. CASE to = "PROPOSED" /\ new = <<[from |-> "none", to |-> "PROPOSED"]>>
  <2>1. DOMAIN new = {1} /\ new[1].from = "none" /\ Last(new).to = to
    BY <1>2 DEF Last
  <2> QED
    BY <1>2, <2>1 DEF LegalEntry
<1>3. CASE id[2] > 0 /\ new = <<>>
  BY <1>3
<1>4. ASSUME NEW p \in Procs, work[p].step = "write", work[p].id = id,
             to = Entry(work[p]).to, new = Append(log, Entry(work[p]))
      PROVE  /\ new # <<>> => Last(new).to = to
             /\ new = <<>> /\ to # "none" => id[2] > 0
             /\ \A i \in DOMAIN new : LegalEntry(new, i)
  <2>1. Entry(work[p]) \in LogEntries
    BY <1>4, EntryType
  <2>2. new # <<>> /\ Last(new).to = to
    BY <1>0, <1>4, <2>1, LastOfAppend
  <2>3. ASSUME NEW i \in DOMAIN new
        PROVE  LegalEntry(new, i)
    <3>1. i \in DOMAIN log \/ i = Len(log) + 1
      BY <1>0, <1>4, <2>1
    <3>2. CASE i \in DOMAIN log
      BY <1>0, <1>4, <2>1, <3>2, LegalStays
    <3>3. CASE i = Len(log) + 1
      BY <1>4, <3>3, NewEntryIsLegal
    <3> QED
      BY <3>1, <3>2, <3>3
  <2> QED
    BY <2>2, <2>3
<1>5. RowStep(id)
  BY RowSteps
<1> QED
  BY <1>1, <1>2, <1>3, <1>4, <1>5 DEF RowStep

\* What the journal has seen of a row that is there, it goes on seeing.
LEMMA SeenStays ==
  ASSUME TypeOK, LogInv, StrategyWrite, NEW id \in Ids, Exists(id)
  PROVE  Exists(id)' /\ StatesSeen(id) \subseteq StatesSeen(id)'
<1>0. strategies[id].log \in Seq(LogEntries)
  BY RowType
<1>1. CASE /\ strategies'[id].state = strategies[id].state
           /\ strategies'[id].log = strategies[id].log
  BY <1>1 DEF Exists, StatesSeen
<1>2. ASSUME NEW p \in Procs, work[p].step = "write", work[p].id = id,
             strategies'[id].state = Entry(work[p]).to,
             strategies'[id].log = Append(strategies[id].log, Entry(work[p]))
      PROVE  Exists(id)' /\ StatesSeen(id) \subseteq StatesSeen(id)'
  <2> DEFINE log == strategies[id].log
             new == strategies'[id].log
  <2>1. Entry(work[p]) \in LogEntries /\ Entry(work[p]).from = work[p].row
    BY <1>2, EntryType DEF Entry
  <2>2. Exists(id)'
    BY <1>2, <2>1 DEF Exists, LogEntries, States
  <2>3. /\ \A j \in DOMAIN log : j \in DOMAIN new /\ new[j] = log[j]
        /\ Len(log) + 1 \in DOMAIN new /\ new[Len(log) + 1] = Entry(work[p])
    BY <1>0, <1>2, <2>1
  <2>4. strategies[id].state \in StatesSeen(id)'
    <3>1. CASE log = <<>>
      <4>1. work[p].row = strategies[id].state
        BY <1>2, <3>1 DEF LogInv, WritesKnow, StatesSeen
      <4> QED
        BY <2>1, <2>3, <4>1 DEF StatesSeen
    <3>2. CASE log # <<>>
      <4>1. /\ Len(log) \in DOMAIN log
            /\ log[Len(log)].to = strategies[id].state
        BY <1>0, <3>2 DEF LogInv, LogTellsState, Last
      <4> QED
        BY <2>3, <4>1 DEF StatesSeen
    <3> QED
      BY <3>1, <3>2
  <2>5. \A j \in DOMAIN log : /\ log[j].from \in StatesSeen(id)'
                              /\ log[j].to \in StatesSeen(id)'
    BY <2>3 DEF StatesSeen
  <2> QED
    BY <2>2, <2>4, <2>5 DEF StatesSeen
<1>3. RowStep(id)
  BY RowSteps
<1> QED
  BY <1>1, <1>2, <1>3 DEF RowStep

\* A request comes to its write by reading the row, and no other way.
LEMMA WriteWasRead ==
  ASSUME TypeOK, [Next]_vars, NEW p \in Procs, work'[p].step = "write"
  PROVE  work'[p] = work[p] \/ (Read(p) /\ work[p].step = "read")
<1>1. ASSUME NEW q \in Procs, Begin(q)
      PROVE  work'[p] = work[p]
  BY <1>1 DEF TypeOK, Begin, OpenTransition, OpenBaseline, OpenPromote,
    OpenSetup, OpenCampaign, Open, Idle
<1>2. ASSUME NEW q \in Procs, Proceed(q), ~Read(q)
      PROVE  work'[p] = work[p]
  BY <1>2, WorkType DEF TypeOK, Proceed, Peek, Gate, Write, Look, InsertTwin,
    SetupCampaign, SetupStrategy, Attach, ReadCampaign, WriteCampaign, Goto,
    Done, Idle, Requests
<1>3. ASSUME NEW q \in Procs, Read(q)
      PROVE  work'[p] = work[p] \/ (Read(p) /\ work[p].step = "read")
  BY <1>3 DEF Read, Done, Idle, TypeOK
<1>4. ASSUME NEW q \in Procs, Crash(q)
      PROVE  work'[p] = work[p]
  BY <1>4 DEF Crash, Done, Idle, TypeOK
<1>5. CASE Environment \/ UNCHANGED vars
  BY <1>5 DEF Environment, CreateStrategy, CreateCampaign, PageLoad,
    FileReview, NewMonth, NewReport, vars
<1> QED
  BY <1>1, <1>2, <1>3, <1>4, <1>5 DEF Next

\* What a write relies on was true when it read, and stays true.
LEMMA WritesKnowNext ==
  TypeOK /\ LogInv /\ [Next]_vars => WritesKnow'
<1> SUFFICES ASSUME TypeOK, LogInv, [Next]_vars, NEW p \in Procs,
                    NEW w, w = work'[p], w.step = "write"
             PROVE  /\ Exists(w.id)'
                    /\ w.row \in States
                    /\ Target[w.req] \in ValidTransitions[w.row]
                    /\ w.row \in StatesSeen(w.id)'
  BY DEF WritesKnow
<1>1. CASE w = work[p]
  <2>1. /\ Exists(w.id) /\ w.row \in States /\ w.id \in Ids
        /\ Target[w.req] \in ValidTransitions[w.row]
        /\ w.row \in StatesSeen(w.id)
    BY <1>1, WorkType DEF LogInv, WritesKnow, StepMatches
  <2> QED
    BY <2>1, SeenStays, StrategyWrites
<1>2. CASE Read(p) /\ work[p].step = "read"
  <2>1. /\ w.id = work[p].id /\ w.req = work[p].req /\ w.id \in Ids
        /\ w.row = strategies[w.id].state
        /\ Exists(w.id) /\ Target[w.req] \in ValidTransitions[w.row]
        /\ strategies' = strategies
    BY <1>2, WorkType DEF Read, Done, Idle, TypeOK, Requests, StepMatches
  <2>2. w.row \in States
    BY <2>1, RowType DEF Exists, StrategyRows
  <2> QED
    BY <2>1, <2>2 DEF Exists, StatesSeen
<1> QED
  BY <1>1, <1>2, WriteWasRead

\* The last log entry names the strategy's state and every entry is a legal
\* move from a state the strategy has been in, for any number of processes
\* that overwrite each other's transitions.
THEOREM LogIsTheTruth == Spec => []LogTellsState
<1>1. Init => LogInv
  BY DEF Init, LogInv, LogTellsState, WritesKnow, NoRow, Exists, Idle
<1>2. TypeOK /\ LogInv /\ [Next]_vars => LogInv'
  BY StrategyWrites, LogTellsStateNext, WritesKnowNext DEF LogInv
<1>3. LogInv => LogTellsState
  BY DEF LogInv
<1> QED
  BY <1>1, <1>2, <1>3, TypeCorrect, PTL DEF Spec

-----------------------------------------------------------------------------

\* A baseline has its parent.
Lineage ==
  \A id \in Ids : id[2] < MaxDepth /\ Exists(Twin(id)) => Exists(id)

\* What a request relies on after it has read the journal.
RequestKnows(w) ==
  /\ w.step = "write" => Exists(w.id)
  /\ w.step = "twin" =>
       Exists(w.id) /\ w.row # "none" /\ Home(w.camp) = CampOf(w.id)
  /\ w.req = "setup" /\ w.step \notin {"idle", "campaign", "create"} =>
       Exists(<<First, 0>>) /\ CampOf(<<First, 0>>) = FirstCamp
  /\ w.step = "attach" => Exists(Twin(<<First, 0>>))

CampInv ==
  /\ Lineage
  /\ TwinSharesCampaign
  /\ \A p \in Procs : RequestKnows(work[p])

\* A row stays, in its campaign.
LEMMA RowsStay ==
  ASSUME TypeOK, CampInv, StrategyWrite, NEW id \in Ids, Exists(id)
  PROVE  Exists(id)' /\ CampOf(id)' = CampOf(id)
<1>1. CASE Migrate
  <2>1. /\ strategies'[id].state = strategies[id].state
        /\ \/ strategies'[id].camp = strategies[id].camp
           \/ strategies[id].camp = None /\ strategies'[id].camp = DefaultCamp
    BY <1>1, RowType DEF Migrate, StrategyRows, Unattached
  <2> QED
    BY <2>1, Constants DEF Exists, CampOf, Home
<1>2. CASE UNCHANGED strategies
  BY <1>2 DEF Exists, CampOf, Home
<1>3. ASSUME NEW i \in Ids, NEW c \in Camps \cup {None}, ~Exists(i),
             InsertStrategy(i, c)
      PROVE  Exists(id)' /\ CampOf(id)' = CampOf(id)
  <2>1. strategies'[id] = strategies[id]
    BY <1>3 DEF InsertStrategy, TypeOK
  <2> QED
    BY <2>1 DEF Exists, CampOf
<1>4. ASSUME NEW p \in Procs, work[p].step = "write",
             SetState(work[p].id, work[p].row, Target[work[p].req])
      PROVE  Exists(id)' /\ CampOf(id)' = CampOf(id)
  <2>1. Target[work[p].req] # "none"
    BY <1>4, WorkType, Targets DEF StepMatches
  <2>2. /\ strategies'[id].camp = strategies[id].camp
        /\ strategies'[id].state \in {strategies[id].state,
                                      Target[work[p].req]}
    BY <1>4, RowType DEF SetState, TypeOK, StrategyRows
  <2> QED
    BY <2>1, <2>2 DEF Exists, CampOf
<1>5. ASSUME NEW p \in Procs, ~Exists(Twin(work[p].id)),
             strategies' = [strategies EXCEPT ![Twin(work[p].id)] =
                              TwinRow(work[p])]
      PROVE  Exists(id)' /\ CampOf(id)' = CampOf(id)
  <2>1. strategies'[id] = strategies[id]
    BY <1>5 DEF TypeOK
  <2> QED
    BY <2>1 DEF Exists, CampOf
<1>6. ASSUME NEW p \in Procs, work[p].step = "attach",
             strategies' = [strategies EXCEPT
                              ![Twin(<<First, 0>>)].camp = FirstCamp]
      PROVE  Exists(id)' /\ CampOf(id)' = CampOf(id)
  <2>1. /\ Exists(<<First, 0>>) /\ CampOf(<<First, 0>>) = FirstCamp
        /\ Exists(Twin(<<First, 0>>))
    BY <1>6, WorkType DEF CampInv, RequestKnows, StepMatches
  <2>2. CampOf(Twin(<<First, 0>>)) = FirstCamp
    BY <2>1, Constants DEF CampInv, TwinSharesCampaign
  <2>3. /\ strategies'[id].state = strategies[id].state
        /\ \/ strategies'[id].camp = strategies[id].camp
           \/ id = Twin(<<First, 0>>) /\ strategies'[id].camp = FirstCamp
    BY <1>6, RowType DEF TypeOK, StrategyRows
  <2> QED
    BY <2>2, <2>3, Constants DEF Exists, CampOf, Home
<1> QED
  BY <1>1, <1>2, <1>3, <1>4, <1>5, <1>6 DEF StrategyWrite

\* A new row is a created strategy or the twin some request was to insert.
LEMMA NewRows ==
  ASSUME TypeOK, CampInv, StrategyWrite, NEW id \in Ids,
         ~Exists(id), Exists(id)'
  PROVE  \/ id[2] = 0
         \/ \E p \in Procs : /\ work[p].step = "twin" /\ id = Twin(work[p].id)
                            /\ strategies'[id] = TwinRow(work[p])
<1>1. ASSUME NEW p \in Procs, work[p].step = "write",
             SetState(work[p].id, work[p].row, Target[work[p].req])
      PROVE  FALSE
  <2>1. Exists(work[p].id)
    BY <1>1 DEF CampInv, RequestKnows
  <2>2. id # work[p].id
    BY <2>1
  <2> QED
    BY <1>1, <2>2 DEF SetState, Exists, TypeOK
<1>2. ASSUME Migrate
      PROVE  FALSE
  BY <1>2, RowType DEF Migrate, Exists, StrategyRows
<1>3. ASSUME strategies' = [strategies EXCEPT
                              ![Twin(<<First, 0>>)].camp = FirstCamp]
      PROVE  FALSE
  BY <1>3, RowType DEF Exists, TypeOK, StrategyRows
<1>4. ASSUME NEW i \in Ids, NEW c, i[2] = 0, InsertStrategy(i, c)
      PROVE  id[2] = 0
  BY <1>4 DEF InsertStrategy, Exists, TypeOK
<1>5. ASSUME NEW p \in Procs,
             strategies' = [strategies EXCEPT ![Twin(work[p].id)] =
                              TwinRow(work[p])]
      PROVE  id = Twin(work[p].id) /\ strategies'[id] = TwinRow(work[p])
  BY <1>5 DEF Exists, TypeOK
<1> QED
  BY <1>1, <1>2, <1>3, <1>4, <1>5 DEF StrategyWrite, Exists

\* The name before the last suffix.
LEMMA TwinInjective ==
  ASSUME NEW i \in Ids, NEW j \in Ids, Twin(i) = Twin(j)
  PROVE  i = j
BY DEF Ids, Twin

\* Rows are only added under a parent, in its campaign.
LEMMA CampRows ==
  ASSUME TypeOK, CampInv, StrategyWrite
  PROVE  Lineage' /\ TwinSharesCampaign'
<1> SUFFICES ASSUME NEW id \in Ids, id[2] < MaxDepth, Exists(Twin(id))'
             PROVE  Exists(id)' /\ CampOf(id)' = CampOf(Twin(id))'
  BY DEF Lineage, TwinSharesCampaign
<1>0. Twin(id) \in Ids /\ Twin(id)[2] > 0
  BY TwinIsId, Constants DEF Ids
<1>1. CASE Exists(Twin(id))
  <2>1. Exists(id) /\ CampOf(id) = CampOf(Twin(id))
    BY <1>1 DEF CampInv, Lineage, TwinSharesCampaign
  <2> QED
    BY <1>0, <1>1, <2>1, RowsStay
<1>2. CASE ~Exists(Twin(id))
  <2>1. PICK p \in Procs : /\ work[p].step = "twin"
                          /\ Twin(id) = Twin(work[p].id)
                          /\ strategies'[Twin(id)] = TwinRow(work[p])
    BY <1>0, <1>2, NewRows
  <2>2. work[p].id \in Ids
    BY <2>1, WorkType DEF StepMatches
  <2>3. id = work[p].id
    BY <2>1, <2>2, TwinInjective
  <2>4. Exists(id) /\ Home(work[p].camp) = CampOf(id)
    BY <2>1, <2>3 DEF CampInv, RequestKnows
  <2>5. CampOf(Twin(id))' = Home(work[p].camp)
    BY <2>1 DEF CampOf, TwinRow, Home
  <2> QED
    BY <2>4, <2>5, RowsStay
<1> QED
  BY <1>1, <1>2

\* What a request relies on is not taken away by the others.
LEMMA KnowledgeStays ==
  ASSUME TypeOK, CampInv, StrategyWrite, NEW q \in Procs, work'[q] = work[q]
  PROVE  RequestKnows(work[q])'
<1> DEFINE w == work[q]
<1>1. RequestKnows(w)
  BY DEF CampInv
<1>2. w.step \in {"write", "twin"} => w.id \in Ids
  BY WorkType DEF StepMatches
<1>3. Twin(<<First, 0>>) \in Ids /\ <<First, 0>> \in Ids
  BY Constants, TwinIsId
<1>4. w.step = "write" => Exists(w.id)'
  BY <1>1, <1>2, RowsStay DEF RequestKnows
<1>5. w.step = "twin" => /\ Exists(w.id)' /\ w.row # "none"
                         /\ Home(w.camp) = CampOf(w.id)'
  BY <1>1, <1>2, RowsStay DEF RequestKnows
<1>6. w.req = "setup" /\ w.step \notin {"idle", "campaign", "create"} =>
        Exists(<<First, 0>>)' /\ CampOf(<<First, 0>>)' = FirstCamp
  BY <1>1, <1>3, RowsStay DEF RequestKnows
<1>7. w.step = "attach" => Exists(Twin(<<First, 0>>))'
  BY <1>1, <1>3, RowsStay DEF RequestKnows
<1>8. w' = w
  OBVIOUS
<1> HIDE DEF w
<1>9. RequestKnows(w)'
  BY <1>4, <1>5, <1>6, <1>7, <1>8 DEF RequestKnows, Exists, CampOf, Home, Twin
<1> QED
  BY <1>9 DEF w

\* A request that ends relies on nothing.
LEMMA DoneKnows ==
  ASSUME TypeOK, NEW p \in Procs, Done(p)
  PROVE  RequestKnows(work[p])'
BY DEF TypeOK, Done, RequestKnows, Idle

\* A step of a request leaves the other requests alone.
LEMMA OthersWait ==
  ASSUME TypeOK, NEW p \in Procs, Begin(p) \/ Proceed(p) \/ Crash(p),
         NEW q \in Procs, q # p
  PROVE  work'[q] = work[q]
BY DEF TypeOK, Begin, OpenTransition, OpenBaseline, OpenPromote, OpenSetup,
  OpenCampaign, Open, Proceed, Peek, Gate, Read, Write, Look, InsertTwin,
  SetupCampaign, SetupStrategy, Attach, ReadCampaign, WriteCampaign, Crash,
  Done, Goto

\* A request that begins has read nothing.
LEMMA BeginKnows ==
  ASSUME TypeOK, NEW p \in Procs, Begin(p)
  PROVE  RequestKnows(work[p])'
<1>1. ASSUME NEW req, NEW id, NEW step, Open(p, req, id, step),
             step \notin {"write", "twin", "attach"},
             req = "setup" => step = "campaign"
      PROVE  RequestKnows(work[p])'
  BY <1>1 DEF Open, TypeOK, Idle, RequestKnows
<1>2. \A req \in DOMAIN CampTarget : req # "setup"
  BY Targets
<1> QED
  BY <1>1, <1>2 DEF Begin, OpenTransition, OpenBaseline, OpenPromote,
    OpenSetup, OpenCampaign

\* A request that goes on relies on what it has just read or written.
LEMMA ProceedKnows ==
  ASSUME TypeOK, CampInv, StrategyWrite, NEW p \in Procs, Proceed(p)
  PROVE  RequestKnows(work[p])'
<1> DEFINE w == work[p]
<1>0. RequestKnows(w) /\ StepMatches(w)
  BY WorkType DEF CampInv
<1>00. Twin(<<First, 0>>) \in Ids /\ <<First, 0>> \in Ids
  BY Constants, TwinIsId
<1>1. CASE Peek(p) \/ \E force \in BOOLEAN : Gate(p, force)
  <2>1. \/ work'[p].req = w.req /\ work'[p].step \in {"gate", "read"}
        \/ Done(p)
    <3>1. Goto(p, "read") => work'[p].req = w.req /\ work'[p].step = "read"
      <4>1. Goto(p, "read") => work'[p] = [w EXCEPT !.step = "read"]
        BY DEF Goto, TypeOK
      <4> QED
        BY <4>1, WorkType DEF Requests
    <3>2. ASSUME NEW force \in BOOLEAN, Gate(p, force)
          PROVE  Goto(p, "read") \/ Done(p)
      BY <3>2 DEF Gate
    <3>3. Peek(p) => work'[p].req = w.req /\ work'[p].step = "gate"
      BY WorkType DEF Peek, TypeOK, Requests
    <3> QED
      BY <1>1, <3>1, <3>2, <3>3
  <2>2. w.req = "promote"
    BY <1>0, <1>1 DEF StepMatches, Peek, Gate
  <2> QED
    BY <2>1, <2>2, DoneKnows DEF RequestKnows
<1>2. CASE Read(p)
  <2>1. CASE Done(p)
    BY <2>1, DoneKnows
  <2>2. CASE ~Done(p)
    <3>1. /\ work'[p].step = "write" /\ work'[p].req = w.req
          /\ work'[p].id = w.id /\ Exists(w.id) /\ strategies' = strategies
      BY <1>2, <2>2, WorkType DEF Read, TypeOK, Requests
    <3>2. w.req = "setup" => /\ Exists(<<First, 0>>)
                             /\ CampOf(<<First, 0>>) = FirstCamp
      BY <1>0, <1>2 DEF RequestKnows, Read
    <3> QED
      BY <3>1, <3>2 DEF RequestKnows, Exists, CampOf
  <2> QED
    BY <2>1, <2>2
<1>3. CASE Write(p)
  <2>1. CASE Done(p)
    BY <2>1, DoneKnows
  <2>2. CASE Goto(p, "look")
    <3>1. work'[p].step = "look" /\ work'[p].req = w.req
      BY <2>2 DEF Goto, TypeOK
    <3>2. w.req = "setup" => /\ Exists(<<First, 0>>)
                             /\ CampOf(<<First, 0>>) = FirstCamp
      BY <1>0, <1>3 DEF RequestKnows, Write
    <3>3. w.req = "setup" => /\ Exists(<<First, 0>>)'
                             /\ CampOf(<<First, 0>>)' = FirstCamp
      BY <1>00, <3>2, RowsStay
    <3> QED
      BY <3>1, <3>3 DEF RequestKnows
  <2> QED
    BY <1>3, <2>1, <2>2 DEF Write
<1>4. CASE Look(p)
  <2>1. /\ strategies' = strategies
        /\ w.req = "setup" => /\ Exists(<<First, 0>>)
                              /\ CampOf(<<First, 0>>) = FirstCamp
                              /\ w.id = <<First, 0>>
    BY <1>0, <1>4 DEF RequestKnows, StepMatches, Look
  <2>2. CASE Done(p)
    BY <2>2, DoneKnows
  <2>3. CASE Goto(p, "attach") /\ w.req = "setup" /\ Exists(Twin(w.id))
    <3>1. work'[p].step = "attach" /\ work'[p].req = w.req
      BY <2>3 DEF Goto, TypeOK
    <3> QED
      BY <2>1, <2>3, <3>1 DEF RequestKnows, Exists, CampOf
  <2>4. CASE /\ Exists(w.id)
             /\ work' = [work EXCEPT ![p].step = "twin",
                                     ![p].row = strategies[w.id].state,
                                     ![p].camp = strategies[w.id].camp]
    <3>1. /\ work'[p].step = "twin" /\ work'[p].req = w.req
          /\ work'[p].id = w.id /\ work'[p].row = strategies[w.id].state
          /\ work'[p].camp = strategies[w.id].camp
      BY <2>4 DEF TypeOK, Requests
    <3> QED
      BY <2>1, <2>4, <3>1 DEF RequestKnows, Exists, CampOf
  <2> QED
    BY <1>4, <2>2, <2>3, <2>4 DEF Look
<1>5. CASE InsertTwin(p)
  <2>1. w.req = "setup" => /\ Exists(<<First, 0>>)
                           /\ CampOf(<<First, 0>>) = FirstCamp
                           /\ w.id = <<First, 0>>
    BY <1>0, <1>5 DEF RequestKnows, StepMatches, InsertTwin
  <2>2. w.req = "setup" => /\ Exists(<<First, 0>>)'
                           /\ CampOf(<<First, 0>>)' = FirstCamp
    BY <1>00, <2>1, RowsStay
  <2>3. CASE Done(p)
    BY <2>3, DoneKnows
  <2>4. CASE /\ Goto(p, "attach") /\ w.req = "setup"
             /\ strategies' = [strategies EXCEPT ![Twin(w.id)] = TwinRow(w)]
    <3>1. work'[p].step = "attach" /\ work'[p].req = w.req
      BY <2>4 DEF Goto, TypeOK
    <3>2. w.row # "none"
      BY <1>0, <1>5 DEF RequestKnows, InsertTwin
    <3>3. strategies'[Twin(<<First, 0>>)].state # "none"
      BY <1>00, <2>1, <2>4, <3>2 DEF TypeOK, TwinRow
    <3> QED
      BY <2>2, <2>4, <3>1, <3>3 DEF RequestKnows, Exists
  <2> QED
    BY <1>5, <2>3, <2>4 DEF InsertTwin
<1>6. CASE SetupCampaign(p)
  <2>1. work'[p].step = "create" \/ Done(p)
    BY <1>6, WorkType DEF SetupCampaign, Goto, TypeOK, Requests
  <2> QED
    BY <2>1, DoneKnows DEF RequestKnows
<1>7. CASE SetupStrategy(p)
  <2>1. w.id = <<First, 0>>
    BY <1>0, <1>7 DEF StepMatches, SetupStrategy
  <2>2. CASE Done(p)
    BY <2>2, DoneKnows
  <2>3. CASE Goto(p, "read") /\ InsertStrategy(w.id, FirstCamp)
    <3>1. work'[p].step = "read"
      BY <2>3 DEF Goto, TypeOK
    <3>2. /\ strategies'[<<First, 0>>].state = "PROPOSED"
          /\ strategies'[<<First, 0>>].camp = FirstCamp
      BY <1>00, <2>1, <2>3 DEF InsertStrategy, TypeOK
    <3> QED
      BY <3>1, <3>2, Constants DEF RequestKnows, Exists, CampOf, Home
  <2> QED
    BY <1>7, <2>2, <2>3 DEF SetupStrategy
<1>8. CASE Attach(p)
  BY <1>8, DoneKnows DEF Attach
<1>9. CASE ReadCampaign(p) \/ WriteCampaign(p)
  <2>1. w.req # "setup"
    BY <1>0, <1>9, Targets DEF StepMatches, ReadCampaign, WriteCampaign
  <2>2. /\ work'[p].step = "writeCampaign" /\ work'[p].req = w.req
        \/ Done(p)
    BY <1>9, WorkType DEF ReadCampaign, WriteCampaign, Goto, TypeOK, Requests
  <2> QED
    BY <2>1, <2>2, DoneKnows DEF RequestKnows
<1> QED
  BY <1>1, <1>2, <1>3, <1>4, <1>5, <1>6, <1>7, <1>8, <1>9 DEF Proceed

\* The invariant behind TwinSharesCampaign is inductive.
LEMMA CampNext == TypeOK /\ CampInv /\ [Next]_vars => CampInv'
<1> SUFFICES ASSUME TypeOK, CampInv, [Next]_vars
             PROVE  CampInv'
  OBVIOUS
<1>1. StrategyWrite
  BY StrategyWrites
<1>2. ASSUME NEW q \in Procs
      PROVE  RequestKnows(work[q])'
  <2>1. CASE work'[q] = work[q]
    BY <1>1, <2>1, KnowledgeStays
  <2>2. CASE Begin(q)
    BY <2>2, BeginKnows
  <2>3. CASE Proceed(q)
    BY <1>1, <2>3, ProceedKnows
  <2>4. CASE Crash(q)
    BY <2>4, DoneKnows DEF Crash
  <2>5. ASSUME NEW p \in Procs, p # q, Begin(p) \/ Proceed(p) \/ Crash(p)
        PROVE  work'[q] = work[q]
    BY <2>5, OthersWait
  <2>6. CASE Environment \/ UNCHANGED vars
    BY <2>6, <2>1 DEF Environment, CreateStrategy, CreateCampaign, PageLoad,
      FileReview, NewMonth, NewReport, vars
  <2> QED
    BY <2>1, <2>2, <2>3, <2>4, <2>5, <2>6 DEF Next
<1> QED
  BY <1>1, <1>2, CampRows DEF CampInv

\* A strategy and its baseline are always scored in the same campaign,
\* however creation, back-fill, approval and setup interleave and stop.
THEOREM TwinsStayTogether == Spec => []TwinSharesCampaign
<1>1. Init => CampInv
  <2> SUFFICES ASSUME Init PROVE CampInv
    OBVIOUS
  <2>1. \A id \in Ids : ~Exists(id)
    BY DEF Init, NoRow, Exists
  <2>2. Lineage /\ TwinSharesCampaign
    BY <2>1, TwinIsId DEF Lineage, TwinSharesCampaign
  <2>3. \A p \in Procs : RequestKnows(work[p])
    BY DEF Init, Idle, RequestKnows
  <2> QED
    BY <2>2, <2>3 DEF CampInv
<1>2. CampInv => TwinSharesCampaign
  BY DEF CampInv
<1> QED
  BY <1>1, <1>2, CampNext, TypeCorrect, PTL DEF Spec

-----------------------------------------------------------------------------

\* What a request that may start trading has seen.
RequestApproved(w) ==
  /\ w.step = "write" /\ w.req = "promote" => Approved(w.id)
  /\ w.step = "twin" /\ w.row \in {"PAPER", "LIVE"} => Approved(w.id)

ApprovalInv ==
  /\ ApprovedBeforeTrading
  /\ \A p \in Procs : RequestApproved(work[p])

\* A row that is not there has no log.
LEMMA NoRowNoLog ==
  ASSUME TypeOK, LogTellsState, NEW id \in Ids, ~Exists(id)
  PROVE  strategies[id].log = <<>>
<1> SUFFICES ASSUME strategies[id].log # <<>> PROVE FALSE
  OBVIOUS
<1>1. strategies[id].log \in Seq(LogEntries)
  BY RowType
<1>2. Last(strategies[id].log) \in LogEntries
  BY <1>1 DEF Last
<1>3. Last(strategies[id].log).to = "none"
  BY DEF LogTellsState, Exists
<1> QED
  BY <1>2, <1>3 DEF LogEntries, States

\* An approval stays in the log.
LEMMA ApprovalStays ==
  ASSUME TypeOK, LogTellsState, StrategyWrite, NEW id \in Ids, WasApproved(id)
  PROVE  WasApproved(id)'
<1>0. PICK i \in DOMAIN strategies[id].log :
               strategies[id].log[i].to = "PAPER"
  BY DEF WasApproved
<1>1. Exists(id) /\ strategies[id].log \in Seq(LogEntries)
  BY <1>0, NoRowNoLog, RowType
<1>2. CASE strategies'[id].log = strategies[id].log
  BY <1>0, <1>2 DEF WasApproved
<1>3. ASSUME NEW p \in Procs, work[p].step = "write", id = work[p].id,
             SetState(work[p].id, work[p].row, Target[work[p].req])
      PROVE  WasApproved(id)'
  <2> DEFINE e == [from |-> work[p].row, to |-> Target[work[p].req]]
  <2>1. strategies'[id].log = Append(strategies[id].log, e)
    BY <1>3, RowType DEF SetState, TypeOK, StrategyRows
  <2>2. e \in LogEntries
    BY <1>3, WorkType, Targets DEF LogEntries, StepMatches, States
  <2> HIDE DEF e
  <2>3. /\ i \in DOMAIN strategies'[id].log
        /\ strategies'[id].log[i] = strategies[id].log[i]
    BY <1>0, <1>1, <2>1, <2>2
  <2> QED
    BY <1>0, <2>3 DEF WasApproved
<1>4. ASSUME Migrate
      PROVE  strategies'[id].log = strategies[id].log
  BY <1>4, RowType DEF Migrate, StrategyRows
<1>5. ASSUME NEW j \in Ids, NEW c, ~Exists(j), InsertStrategy(j, c)
      PROVE  strategies'[id].log = strategies[id].log
  BY <1>1, <1>5 DEF InsertStrategy, TypeOK
<1>6. ASSUME NEW p \in Procs, work[p].step = "write", id # work[p].id,
             SetState(work[p].id, work[p].row, Target[work[p].req])
      PROVE  strategies'[id].log = strategies[id].log
  BY <1>6 DEF SetState, TypeOK
<1>7. ASSUME NEW p \in Procs, ~Exists(Twin(work[p].id)),
             strategies' = [strategies EXCEPT ![Twin(work[p].id)] =
                              TwinRow(work[p])]
      PROVE  strategies'[id].log = strategies[id].log
  BY <1>1, <1>7 DEF TypeOK
<1>8. ASSUME strategies' = [strategies EXCEPT
                              ![Twin(<<First, 0>>)].camp = FirstCamp]
      PROVE  strategies'[id].log = strategies[id].log
  BY <1>8, RowType DEF TypeOK, StrategyRows
<1> QED
  BY <1>2, <1>3, <1>4, <1>5, <1>6, <1>7, <1>8 DEF StrategyWrite

\* The ancestors of a strategy are strategies.
LEMMA AncestorsAreIds ==
  ASSUME NEW id \in Ids, NEW n \in 0 .. id[2]
  PROVE  <<id[1], n>> \in Ids
BY Constants DEF Ids

\* So does the approval of a line of strategies.
LEMMA LineApprovalStays ==
  ASSUME TypeOK, LogTellsState, StrategyWrite, NEW id \in Ids, Approved(id)
  PROVE  Approved(id)'
<1>1. PICK n \in 0 .. id[2] : WasApproved(<<id[1], n>>)
  BY DEF Approved
<1>2. WasApproved(<<id[1], n>>)'
  BY <1>1, AncestorsAreIds, ApprovalStays
<1> QED
  BY <1>2 DEF Approved, WasApproved

\* A strategy that comes to trade was approved.
LEMMA ApprovedRows ==
  ASSUME TypeOK, LogTellsState, ApprovalInv, StrategyWrite, NEW id \in Ids,
         strategies'[id].state \in {"PAPER", "LIVE"}
  PROVE  Approved(id)'
<1>0. id = <<id[1], id[2]>> /\ id[2] \in Nat
  BY Constants DEF Ids
<1>1. CASE strategies[id].state \in {"PAPER", "LIVE"}
  BY <1>1, LineApprovalStays DEF ApprovalInv, ApprovedBeforeTrading
<1>2. CASE strategies[id].state \notin {"PAPER", "LIVE"}
  <2>1. ASSUME NEW p \in Procs, work[p].step = "write",
               SetState(work[p].id, work[p].row, Target[work[p].req])
        PROVE  Approved(id)'
    <3> DEFINE e == [from |-> work[p].row, to |-> Target[work[p].req]]
    <3>1. id = work[p].id
      BY <1>2, <2>1 DEF SetState, TypeOK
    <3>2. /\ strategies'[id].log = Append(strategies[id].log, e)
          /\ strategies'[id].state = e.to
      BY <2>1, <3>1, RowType DEF SetState, TypeOK, StrategyRows
    <3>3. CASE e.to = "LIVE"
      <4>1. work[p].req = "promote"
        BY <2>1, <3>3, WorkType, Targets DEF StepMatches
      <4> QED
        BY <2>1, <3>1, <4>1, LineApprovalStays DEF ApprovalInv, RequestApproved
    <3>4. CASE e.to = "PAPER"
      <4>1. e \in LogEntries
        BY <2>1, WorkType, Targets DEF LogEntries, StepMatches, States
      <4>2. strategies[id].log \in Seq(LogEntries)
        BY RowType
      <4>3. /\ Len(strategies[id].log) + 1 \in DOMAIN strategies'[id].log
            /\ strategies'[id].log[Len(strategies[id].log) + 1] = e
        BY <3>2, <4>1, <4>2
      <4>4. WasApproved(id)'
        BY <3>4, <4>3 DEF WasApproved
      <4>5. WasApproved(<<id[1], id[2]>>)' /\ id[2] \in 0 .. id[2]
        BY <1>0, <4>4
      <4> QED
        BY <4>5 DEF Approved
    <3> QED
      BY <3>2, <3>3, <3>4
  <2>2. ASSUME NEW p \in Procs, work[p].step = "twin",
               strategies' = [strategies EXCEPT ![Twin(work[p].id)] =
                                TwinRow(work[p])]
        PROVE  Approved(id)'
    <3>1. PICK i \in Ids : i = work[p].id
      BY <2>2, WorkType DEF StepMatches
    <3>2. /\ i[2] < MaxDepth /\ id = Twin(i)
          /\ work[p].row \in {"PAPER", "LIVE"}
      BY <1>2, <2>2, <3>1, WorkType DEF TypeOK, TwinRow, StepMatches
    <3>3. Approved(i)'
      BY <2>2, <3>1, <3>2, LineApprovalStays DEF ApprovalInv, RequestApproved
    <3>4. PICK n \in 0 .. i[2] : WasApproved(<<i[1], n>>)'
      BY <3>3 DEF Approved
    <3>5. id[1] = i[1] /\ n \in 0 .. id[2]
      BY <3>2, TwinIsId, Constants DEF Ids
    <3> QED
      BY <3>4, <3>5 DEF Approved
  <2>3. ASSUME Migrate
        PROVE  FALSE
    BY <1>2, <2>3, RowType DEF Migrate, StrategyRows
  <2>4. ASSUME NEW j \in Ids, NEW c, InsertStrategy(j, c)
        PROVE  FALSE
    BY <1>2, <2>4 DEF InsertStrategy, TypeOK
  <2>5. ASSUME strategies' = [strategies EXCEPT
                                ![Twin(<<First, 0>>)].camp = FirstCamp]
        PROVE  FALSE
    BY <1>2, <2>5, RowType DEF TypeOK, StrategyRows
  <2> QED
    BY <1>2, <2>1, <2>2, <2>3, <2>4, <2>5 DEF StrategyWrite
<1> QED
  BY <1>1, <1>2

\* A request writes or inserts what was approved when it read it.
LEMMA ApprovedRequests ==
  ASSUME TypeOK, LogTellsState, ApprovalInv, StrategyWrite, [Next]_vars,
         NEW q \in Procs
  PROVE  RequestApproved(work[q])'
<1>1. CASE work'[q] = work[q]
  <2>1. CASE work[q].step \notin {"write", "twin"}
    BY <1>1, <2>1 DEF RequestApproved
  <2>2. CASE work[q].step \in {"write", "twin"}
    <3>1. PICK i \in Ids : i = work[q].id
      BY <2>2, WorkType DEF StepMatches
    <3>2. Approved(i) => Approved(i)'
      BY LineApprovalStays
    <3>3. RequestApproved(work[q])
      BY DEF ApprovalInv
    <3>4. work'[q].id = i
      BY <1>1, <3>1
    <3>5. Approved(work[q].id)' <=> Approved(i)'
      BY <3>4
    <3> QED
      BY <1>1, <3>1, <3>2, <3>3, <3>5 DEF RequestApproved
  <2> QED
    BY <2>1, <2>2
<1>2. ASSUME work'[q].step \notin {"write", "twin"}
      PROVE  RequestApproved(work[q])'
  BY <1>2 DEF RequestApproved
<1>3. CASE Begin(q)
  <2>1. ASSUME NEW req, NEW id, NEW step, Open(q, req, id, step),
               step \notin {"write", "twin"}
        PROVE  work'[q].step \notin {"write", "twin"}
    BY <2>1 DEF Open, TypeOK, Idle
  <2> QED
    BY <1>2, <1>3, <2>1 DEF Begin, OpenTransition, OpenBaseline, OpenPromote,
      OpenSetup, OpenCampaign
<1>4. ASSUME Done(q)
      PROVE  work'[q].step \notin {"write", "twin"}
  BY <1>4 DEF Done, TypeOK, Idle
<1>5. CASE Read(q)
  <2>1. CASE Done(q)
    BY <1>2, <1>4, <2>1
  <2>2. CASE ~Done(q)
    <3>1. /\ work'[q].step = "write" /\ work'[q].req = work[q].req
          /\ work'[q].id = work[q].id /\ strategies' = strategies
          /\ work[q].id \in Ids /\ Exists(work[q].id)
          /\ Target[work[q].req] \in
               ValidTransitions[strategies[work[q].id].state]
      BY <1>5, <2>2, WorkType DEF Read, TypeOK, Requests, StepMatches
    <3>2. work[q].req = "promote" => strategies[work[q].id].state = "PAPER"
      <4>1. strategies[work[q].id].state \in States
        BY <3>1, RowType DEF Exists
      <4> QED
        BY <3>1, <4>1 DEF Target, ValidTransitions, States
    <3>3. work[q].req = "promote" => Approved(work[q].id)
      BY <3>1, <3>2 DEF ApprovalInv, ApprovedBeforeTrading
    <3> QED
      BY <3>1, <3>3 DEF RequestApproved, Approved, WasApproved
  <2> QED
    BY <2>1, <2>2
<1>6. CASE Look(q)
  <2>1. CASE Done(q) \/ Goto(q, "attach")
    <3>1. work'[q].step \notin {"write", "twin"}
      BY <1>4, <2>1, WorkType DEF Goto, TypeOK, Requests
    <3> QED
      BY <1>2, <3>1
  <2>2. CASE work' = [work EXCEPT ![q].step = "twin",
                                  ![q].row = strategies[work[q].id].state,
                                  ![q].camp = strategies[work[q].id].camp]
    <3>1. /\ work'[q].step = "twin" /\ work'[q].id = work[q].id
          /\ work'[q].row = strategies[work[q].id].state
          /\ strategies' = strategies /\ work[q].id \in Ids
      BY <1>6, <2>2, WorkType DEF Look, TypeOK, Requests, StepMatches
    <3> QED
      BY <3>1 DEF ApprovalInv, ApprovedBeforeTrading, RequestApproved,
        Approved, WasApproved
  <2> QED
    BY <1>6, <2>1, <2>2 DEF Look
<1>7. ASSUME \/ Peek(q) \/ (\E force \in BOOLEAN : Gate(q, force))
             \/ Write(q) \/ InsertTwin(q) \/ SetupCampaign(q)
             \/ SetupStrategy(q) \/ Attach(q) \/ ReadCampaign(q)
             \/ WriteCampaign(q) \/ Crash(q)
      PROVE  work'[q].step \notin {"write", "twin"}
  BY <1>7, <1>4, WorkType DEF Peek, Gate, Write, InsertTwin, SetupCampaign,
    SetupStrategy, Attach, ReadCampaign, WriteCampaign, Crash, Goto, TypeOK,
    Requests
<1>8. ASSUME NEW p \in Procs, p # q, Begin(p) \/ Proceed(p) \/ Crash(p)
      PROVE  work'[q] = work[q]
  BY <1>8, OthersWait
<1>9. CASE Environment \/ UNCHANGED vars
  BY <1>9, <1>1 DEF Environment, CreateStrategy, CreateCampaign, PageLoad,
    FileReview, NewMonth, NewReport, vars
<1> QED
  BY <1>1, <1>2, <1>3, <1>5, <1>6, <1>7, <1>8, <1>9 DEF Next, Proceed

\* Nothing is PAPER or LIVE that the operator has not approved, or that is
\* not the baseline of something approved.
THEOREM OperatorDecides == Spec => []ApprovedBeforeTrading
<1>1. Init => ApprovalInv
  BY DEF Init, ApprovalInv, ApprovedBeforeTrading, RequestApproved, NoRow, Idle
<1>2. TypeOK /\ LogTellsState /\ ApprovalInv /\ [Next]_vars => ApprovalInv'
  <2> SUFFICES ASSUME TypeOK, LogTellsState, ApprovalInv, [Next]_vars
               PROVE  ApprovalInv'
    OBVIOUS
  <2>1. StrategyWrite
    BY StrategyWrites
  <2> QED
    BY <2>1, ApprovedRows, ApprovedRequests DEF ApprovalInv,
      ApprovedBeforeTrading
<1>3. ApprovalInv => ApprovedBeforeTrading
  BY DEF ApprovalInv
<1> QED
  BY <1>1, <1>2, <1>3, LogIsTheTruth, TypeCorrect, PTL DEF Spec

-----------------------------------------------------------------------------

\* A row that left PROPOSED never returns.
LEMMA NoReturn ==
  ASSUME TypeOK, StrategyWrite, NEW id \in Ids,
         strategies[id].state \notin {"none", "PROPOSED"}
  PROVE  strategies'[id].state \notin {"none", "PROPOSED"}
<1>1. ASSUME NEW p \in Procs, work[p].step = "write",
             SetState(work[p].id, work[p].row, Target[work[p].req])
      PROVE  strategies'[id].state \notin {"none", "PROPOSED"}
  <2>1. Target[work[p].req] \in {"PAPER", "RETIRED", "LIVE"}
    BY <1>1, WorkType, Targets DEF StepMatches
  <2>2. strategies'[id].state \in {strategies[id].state, Target[work[p].req]}
    BY <1>1, RowType DEF SetState, TypeOK, StrategyRows
  <2> QED
    BY <2>1, <2>2
<1>2. ASSUME Migrate
      PROVE  strategies'[id].state = strategies[id].state
  BY <1>2, RowType DEF Migrate, StrategyRows
<1>3. ASSUME NEW i \in Ids, NEW c, ~Exists(i), InsertStrategy(i, c)
      PROVE  strategies'[id] = strategies[id]
  BY <1>3 DEF InsertStrategy, Exists, TypeOK
<1>4. ASSUME NEW p \in Procs, ~Exists(Twin(work[p].id)),
             strategies' = [strategies EXCEPT ![Twin(work[p].id)] =
                              TwinRow(work[p])]
      PROVE  strategies'[id] = strategies[id]
  BY <1>4 DEF Exists, TypeOK
<1>5. ASSUME strategies' = [strategies EXCEPT
                              ![Twin(<<First, 0>>)].camp = FirstCamp]
      PROVE  strategies'[id].state = strategies[id].state
  BY <1>5, RowType DEF TypeOK, StrategyRows
<1> QED
  BY <1>1, <1>2, <1>3, <1>4, <1>5 DEF StrategyWrite

\* The rows and positions of the cycle name strategies.
RowsType == rows \subseteq Ids /\ positions \subseteq Ids

\* Rows and positions come from the PAPER and LIVE listings, and no row
\* returns to PROPOSED.
LEMMA RowsAreApproved == RowsSpec => [](RowsType /\ NothingProposedTrades)
<1> DEFINE Inv == TypeOK /\ RowsType /\ NothingProposedTrades
<1>1. RowsInit => Inv
  BY TypeInit DEF RowsInit, RowsType, NothingProposedTrades
<1>2. Inv /\ [RowsNext]_allVars => Inv'
  <2> SUFFICES ASSUME TypeOK, RowsType, NothingProposedTrades,
                      [RowsNext]_allVars
               PROVE  Inv'
    OBVIOUS
  <2>1. CASE Next /\ UNCHANGED cycleVars
    <3>1. StrategyWrite /\ TypeOK'
      BY <2>1, StrategyWrites, TypeNext
    <3>2. rows' = rows /\ positions' = positions
      BY <2>1 DEF cycleVars
    <3> QED
      BY <3>1, <3>2, NoReturn DEF RowsType, NothingProposedTrades
  <2>2. ASSUME UNCHANGED vars
        PROVE  TypeOK' /\ strategies' = strategies
    BY <2>2 DEF vars, TypeOK
  <2>3. CASE ListAttached \/ ListState
    <3>1. /\ UNCHANGED vars /\ positions' = positions
          /\ rows' \subseteq rows \cup InState("PAPER") \cup InState("LIVE")
      BY <2>3 DEF ListAttached, Attached, ListState, Query
    <3> QED
      BY <2>2, <3>1 DEF RowsType, NothingProposedTrades, InState
  <2>4. ASSUME NEW id \in Ids, Process(id)
        PROVE  Inv'
    <3>1. /\ UNCHANGED vars /\ rows' \subseteq rows /\ id \in rows
          /\ positions' \subseteq positions \cup {id}
      BY <2>4 DEF Process
    <3> QED
      BY <2>2, <3>1 DEF RowsType, NothingProposedTrades
  <2>5. CASE \/ ListCampaigns \/ EndCycle \/ CycleCrash
             \/ UNCHANGED allVars
    <3>1. /\ UNCHANGED vars /\ rows' \subseteq rows /\ positions' = positions
      BY <2>5 DEF ListCampaigns, EndCycle, CycleCrash, Reset, allVars, cycleVars
    <3> QED
      BY <2>2, <3>1 DEF RowsType, NothingProposedTrades
  <2> QED
    BY <2>1, <2>3, <2>4, <2>5 DEF RowsNext
<1>3. Inv => RowsType /\ NothingProposedTrades
  OBVIOUS
<1> QED
  BY <1>1, <1>2, <1>3, PTL DEF RowsSpec

\* The cycle never works on a strategy that was never approved, and none
\* holds a position.
THEOREM CycleTradesApproved == RowsSpec => []NothingProposedTrades
  BY RowsAreApproved, PTL

-----------------------------------------------------------------------------

\* What no step does to a campaign: take its row away.
LEMMA CampaignsStay ==
  ASSUME TypeOK, [Next]_vars, NEW c \in Camps, CampExists(c)
  PROVE  CampExists(c)'
<1>1. ASSUME Migrate PROVE CampExists(c)'
  BY <1>1, Constants DEF Migrate, CampExists, TypeOK
<1>2. ASSUME NEW p \in Procs, WriteCampaign(p) PROVE CampExists(c)'
  <2>1. work[p].req \in DOMAIN CampTarget /\ work[p].id \in Camps
    BY <1>2, WorkType DEF WriteCampaign, StepMatches
  <2>2. CampTarget[work[p].req] # "none"
    BY <2>1, Targets DEF CampStates
  <2> QED
    BY <1>2, <2>1, <2>2 DEF WriteCampaign, SetCampState, CampExists, TypeOK
<1>3. ASSUME NEW p \in Procs, SetupCampaign(p) PROVE CampExists(c)'
  BY <1>3 DEF SetupCampaign, CampExists, TypeOK
<1>4. ASSUME NEW d \in Camps, CreateCampaign(d) PROVE CampExists(c)'
  BY <1>4 DEF CreateCampaign, CampExists, TypeOK
<1>5. ASSUME campaigns' = campaigns PROVE CampExists(c)'
  BY <1>5 DEF CampExists
<1>6. ASSUME NEW p \in Procs, Begin(p) PROVE Migrate
  BY <1>6 DEF Begin, OpenTransition, OpenBaseline, OpenPromote, OpenSetup,
    OpenCampaign, Open
<1>7. ASSUME NEW p \in Procs, Proceed(p), ~SetupCampaign(p), ~WriteCampaign(p)
      PROVE  campaigns' = campaigns
  BY <1>7 DEF Proceed, Peek, Gate, Read, Write, Look, InsertTwin, SetupStrategy,
    Attach, ReadCampaign
<1>8. CASE Environment
  BY <1>1, <1>4, <1>5, <1>8 DEF Environment, CreateStrategy, PageLoad, FileReview,
    NewMonth, NewReport
<1> QED
  BY <1>1, <1>2, <1>3, <1>5, <1>6, <1>7, <1>8 DEF Next, Crash, vars

\* A wizard that is past its first step has created the campaign that stops
\* the others.
Building(w) == w.req = "setup" /\ w.step # "campaign"

SetupInv ==
  /\ SetupIsExclusive
  /\ \A p \in Procs : Building(work[p]) => CampExists(FirstCamp)

\* Only the first step of the wizard makes a request one that builds.
LEMMA WhoBuilds ==
  ASSUME TypeOK, [Next]_vars, NEW q \in Procs, Building(work'[q])
  PROVE  \/ Building(work[q])
         \/ SetupCampaign(q) /\ ~CampExists(FirstCamp) /\ CampExists(FirstCamp)'
<1>1. CASE work'[q] = work[q]
  BY <1>1
<1>2. CASE Begin(q)
  <2>1. ASSUME NEW req, NEW id, NEW step, Open(q, req, id, step),
               req = "setup" => step = "campaign"
        PROVE  ~Building(work'[q])
    BY <2>1 DEF Open, TypeOK, Idle, Building
  <2>2. \A req \in DOMAIN CampTarget : req # "setup"
    BY Targets
  <2> QED
    BY <1>2, <2>1, <2>2 DEF Begin, OpenTransition, OpenBaseline, OpenPromote,
      OpenSetup, OpenCampaign
<1>3. CASE Proceed(q) /\ ~SetupCampaign(q)
  <2>1. Done(q) => ~Building(work'[q])
    BY DEF Done, Idle, Building, TypeOK
  <2>2. \A s : Goto(q, s) => work'[q].req = work[q].req
    BY DEF Goto, TypeOK, Requests
  <2>3. \/ Done(q)
        \/ work'[q].req = work[q].req /\ work[q].step # "campaign"
    BY <1>3, <2>2 DEF Proceed, Peek, Gate, Read, Write, Look, InsertTwin,
      SetupStrategy, Attach, ReadCampaign, WriteCampaign, TypeOK, Requests
  <2> QED
    BY <2>1, <2>3 DEF Building
<1>4. CASE SetupCampaign(q)
  <2>1. Done(q) => ~Building(work'[q])
    BY DEF Done, Idle, Building, TypeOK
  <2> QED
    BY <1>4, <2>1, Constants DEF SetupCampaign, CampExists, TypeOK
<1>5. CASE Crash(q)
  BY <1>5 DEF Crash, Done, Idle, Building, TypeOK
<1>6. ASSUME NEW p \in Procs, Begin(p) \/ Proceed(p) \/ Crash(p), p # q
      PROVE  work'[q] = work[q]
  BY <1>6, OthersWait
<1>7. CASE Environment \/ UNCHANGED vars
  BY <1>7 DEF Environment, CreateStrategy, CreateCampaign, PageLoad, FileReview,
    NewMonth, NewReport, vars
<1> QED
  BY <1>1, <1>2, <1>3, <1>4, <1>5, <1>6, <1>7 DEF Next

LEMMA SetupNext == TypeOK /\ SetupInv /\ [Next]_vars => SetupInv'
<1> SUFFICES ASSUME TypeOK, SetupInv, [Next]_vars PROVE SetupInv'
  OBVIOUS
<1>1. \A q \in Procs : Building(work'[q]) => CampExists(FirstCamp)'
  <2> SUFFICES ASSUME NEW q \in Procs, Building(work'[q])
               PROVE  CampExists(FirstCamp)'
    OBVIOUS
  <2>1. CASE Building(work[q])
    BY <2>1, CampaignsStay, Constants DEF SetupInv
  <2> QED
    BY <2>1, WhoBuilds
<1>2. ASSUME NEW p \in Procs, NEW q \in Procs, Building(work'[p]), Building(work'[q])
      PROVE  p = q
  <2>1. CASE Building(work[p]) /\ Building(work[q])
    BY <2>1 DEF SetupInv, SetupIsExclusive, Building
  <2>2. ASSUME NEW r \in Procs, SetupCampaign(r), ~CampExists(FirstCamp)
        PROVE  \A s \in Procs : Building(work'[s]) => s = r
    <3>1. \A s \in Procs : ~Building(work[s])
      BY <2>2 DEF SetupInv
    <3>2. \A s \in Procs : s # r => work'[s] = work[s]
      BY <2>2, OthersWait DEF Proceed
    <3> QED
      BY <3>1, <3>2
  <2> QED
    BY <1>2, <2>1, <2>2, WhoBuilds
<1> QED
  BY <1>1, <1>2 DEF SetupInv, SetupIsExclusive, Building

\* Of any number of setup wizards that found the journal empty one builds:
\* the campaign it creates first is what the others find (setup.py:113).
THEOREM OneWizardBuilds == Spec => []SetupIsExclusive
<1>1. Init => SetupInv
  BY DEF Init, SetupInv, SetupIsExclusive, Building, Idle
<1>2. SetupInv => SetupIsExclusive
  BY DEF SetupInv
<1> QED
  BY <1>1, <1>2, SetupNext, TypeCorrect, PTL DEF Spec

-----------------------------------------------------------------------------

\* What one process alone may rely on between its read of a row and its
\* write: that the row is as it was read.
RequestAlone(w) ==
  w.step = "write" => /\ Exists(w.id) /\ strategies[w.id].state = w.row
                      /\ Target[w.req] \in ValidTransitions[w.row]

AloneInv == \A p \in Procs : RequestAlone(work[p])

\* How a strategy comes to another state: it is new, or a request that has
\* read it writes its target.
LEMMA StateMoves ==
  ASSUME TypeOK, [Next]_vars, NEW id \in Ids,
         strategies'[id].state # strategies[id].state
  PROVE  \/ ~Exists(id)
         \/ \E p \in Procs : /\ work[p].step = "write" /\ work[p].id = id
                             /\ strategies'[id].state = Target[work[p].req]
<1>1. ASSUME NEW p \in Procs, work[p].step = "write",
             SetState(work[p].id, work[p].row, Target[work[p].req])
      PROVE  \E q \in Procs : /\ work[q].step = "write" /\ work[q].id = id
                              /\ strategies'[id].state = Target[work[q].req]
  BY <1>1, RowType DEF SetState, TypeOK, StrategyRows
<1>2. ASSUME Migrate
      PROVE  strategies'[id].state = strategies[id].state
  BY <1>2, RowType DEF Migrate, StrategyRows
<1>3. ASSUME NEW i \in Ids, NEW c, ~Exists(i), InsertStrategy(i, c)
      PROVE  ~Exists(id)
  BY <1>3 DEF InsertStrategy, Exists, TypeOK
<1>4. ASSUME NEW p \in Procs, ~Exists(Twin(work[p].id)),
             strategies' = [strategies EXCEPT ![Twin(work[p].id)] = TwinRow(work[p])]
      PROVE  ~Exists(id)
  BY <1>4 DEF Exists, TypeOK
<1>5. ASSUME strategies' = [strategies EXCEPT ![Twin(<<First, 0>>)].camp = FirstCamp]
      PROVE  strategies'[id].state = strategies[id].state
  BY <1>5, RowType DEF TypeOK, StrategyRows
<1> QED
  BY <1>1, <1>2, <1>3, <1>4, <1>5, StrategyWrites DEF StrategyWrite

\* A strategy that somebody else writes is a new one, in PROPOSED.
LEMMA EnvironmentAlone ==
  ASSUME TypeOK, AloneInv, NEW p, Procs = {p}, Environment \/ UNCHANGED vars
  PROVE  AloneInv'
<1> DEFINE w == work[p]
<1>1. work' = work
  BY DEF Environment, CreateStrategy, CreateCampaign, PageLoad, FileReview,
    NewMonth, NewReport, vars
<1>2. \A id \in Ids : \/ strategies'[id].state = strategies[id].state
                      \/ ~Exists(id) /\ strategies'[id].state = "PROPOSED"
  <2>1. ASSUME NEW s \in Strats, NEW c \in Camps \cup {None}, CreateStrategy(s, c)
        PROVE  \A id \in Ids : \/ strategies'[id].state = strategies[id].state
                               \/ ~Exists(id) /\ strategies'[id].state = "PROPOSED"
    BY <2>1 DEF CreateStrategy, InsertStrategy, TypeOK
  <2>2. ASSUME Migrate
        PROVE  \A id \in Ids : strategies'[id].state = strategies[id].state
    BY <2>2, RowType DEF Migrate, StrategyRows
  <2> QED
    BY <2>1, <2>2 DEF Environment, CreateCampaign, PageLoad, FileReview, NewMonth,
      NewReport, vars
<1>3. StepMatches(w) /\ RequestAlone(w) /\ p \in Procs
  BY WorkType DEF AloneInv
<1>4. RequestAlone(work[p])'
  <2>1. w.step = "write" => w.id \in Ids
    BY <1>3 DEF StepMatches
  <2>2. \A id \in Ids : Exists(id) =>
          Exists(id)' /\ strategies'[id].state = strategies[id].state
    BY <1>2 DEF Exists
  <2> QED
    BY <1>1, <1>3, <2>1, <2>2 DEF RequestAlone
<1> QED
  BY <1>4 DEF AloneInv

LEMMA BeginAlone ==
  ASSUME TypeOK, NEW p \in Procs, Begin(p)
  PROVE  RequestAlone(work[p])'
<1>1. ASSUME NEW req, NEW id, NEW step, Open(p, req, id, step), step # "write"
      PROVE  RequestAlone(work[p])'
  BY <1>1 DEF Open, TypeOK, Idle, RequestAlone
<1> QED
  BY <1>1 DEF Begin, OpenTransition, OpenBaseline, OpenPromote, OpenSetup,
    OpenCampaign

\* Only a read takes a request to its write, and what it read is still so.
LEMMA ProceedAlone ==
  ASSUME TypeOK, AloneInv, NEW p \in Procs, Proceed(p) \/ Crash(p)
  PROVE  RequestAlone(work[p])'
<1> DEFINE w == work[p]
<1>1. w \in Requests
  BY WorkType
<1>2. ASSUME work'[p].step # "write" PROVE RequestAlone(work[p])'
  BY <1>2 DEF RequestAlone
<1>3. Done(p) => work'[p].step = "idle"
  BY DEF Done, Idle, TypeOK
<1>4. \A s : Goto(p, s) => work'[p].step = s
  BY <1>1 DEF Goto, TypeOK, Requests
<1>5. CASE Read(p)
  <2>1. CASE Done(p)
    BY <1>2, <1>3, <2>1
  <2>2. CASE ~Done(p)
    <3>1. /\ work'[p].step = "write" /\ work'[p].id = w.id /\ work'[p].req = w.req
          /\ work'[p].row = strategies[w.id].state /\ strategies' = strategies
          /\ Exists(w.id) /\ Target[w.req] \in ValidTransitions[strategies[w.id].state]
      BY <1>1, <1>5, <2>2 DEF Read, TypeOK, Requests
    <3> QED
      BY <3>1 DEF RequestAlone, Exists
  <2> QED
    BY <2>1, <2>2
<1>6. CASE ~Read(p)
  <2>1. Peek(p) => work'[p].step # "write"
    BY <1>1 DEF Peek, TypeOK, Requests
  <2>2. ASSUME NEW force \in BOOLEAN, Gate(p, force)
        PROVE  work'[p].step # "write"
    BY <1>1, <1>3, <1>4, <2>2 DEF Gate
  <2>3. Look(p) => work'[p].step # "write"
    <3>1. work' = [work EXCEPT ![p].step = "twin",
                               ![p].row = strategies[w.id].state,
                               ![p].camp = strategies[w.id].camp]
            => work'[p].step = "twin"
      BY <1>1 DEF TypeOK, Requests
    <3> QED
      BY <1>3, <1>4, <3>1 DEF Look
  <2>4. ASSUME \/ Write(p) \/ InsertTwin(p) \/ SetupCampaign(p) \/ SetupStrategy(p)
               \/ Attach(p) \/ ReadCampaign(p) \/ WriteCampaign(p) \/ Crash(p)
        PROVE  work'[p].step # "write"
    <3>1. CASE Write(p) \/ SetupStrategy(p) \/ Attach(p)
      BY <1>3, <1>4, <3>1 DEF Write, SetupStrategy, Attach
    <3>2. CASE InsertTwin(p) \/ SetupCampaign(p)
      BY <1>3, <1>4, <3>2 DEF InsertTwin, SetupCampaign
    <3>3. CASE ReadCampaign(p) \/ WriteCampaign(p) \/ Crash(p)
      BY <1>3, <1>4, <3>3 DEF ReadCampaign, WriteCampaign, Crash
    <3> QED
      BY <2>4, <3>1, <3>2, <3>3
  <2>5. work'[p].step # "write"
    <3>1. CASE Peek(p)
      BY <2>1, <3>1
    <3>2. CASE \E force \in BOOLEAN : Gate(p, force)
      BY <2>2, <3>2
    <3>3. CASE Look(p)
      BY <2>3, <3>3
    <3>4. CASE \/ Write(p) \/ InsertTwin(p) \/ SetupCampaign(p) \/ SetupStrategy(p)
               \/ Attach(p) \/ ReadCampaign(p) \/ WriteCampaign(p) \/ Crash(p)
      BY <2>4, <3>4
    <3> QED
      BY <1>6, <3>1, <3>2, <3>3, <3>4 DEF Proceed
  <2> QED
    BY <1>2, <2>5
<1> QED
  BY <1>5, <1>6

LEMMA AloneNext ==
  ASSUME TypeOK, AloneInv, NEW p, Procs = {p}, [Next]_vars
  PROVE  AloneInv'
<1>1. CASE Begin(p)
  BY <1>1, BeginAlone DEF AloneInv
<1>2. CASE Proceed(p) \/ Crash(p)
  BY <1>2, ProceedAlone DEF AloneInv
<1> QED
  BY <1>1, <1>2, EnvironmentAlone DEF Next

-----------------------------------------------------------------------------

\* While the listings go on: what is seen is among the rows, and after the
\* PAPER listing so is every strategy on paper that holds a position.
ListingInv ==
  /\ at \in {"first", "second"} => seen \subseteq rows
  /\ at = "second" =>
       \A id \in positions : strategies[id].state = "PAPER" => id \in rows

\* No strategy that has been approved comes to PAPER again, with one process
\* at work: PAPER is valid from PROPOSED only.
LEMMA NothingReturnsToPaper ==
  ASSUME TypeOK, AloneInv, [Next]_vars, NEW id \in Ids,
         strategies[id].state \notin {"none", "PROPOSED"},
         strategies'[id].state = "PAPER"
  PROVE  strategies[id].state = "PAPER"
<1> SUFFICES ASSUME strategies[id].state # "PAPER" PROVE FALSE
  OBVIOUS
<1>1. PICK p \in Procs : /\ work[p].step = "write" /\ work[p].id = id
                         /\ strategies'[id].state = Target[work[p].req]
  BY StateMoves DEF Exists
<1>2. "PAPER" \in ValidTransitions[strategies[id].state]
  BY <1>1 DEF AloneInv, RequestAlone
<1>3. strategies[id].state \in {"PAPER", "LIVE", "RETIRED"}
  BY RowType DEF StrategyRows, States
<1> QED
  BY <1>2, <1>3 DEF ValidTransitions

\* "better not to silently drop a position" (cycle.py): with one process
\* handling requests while the cycle runs, whatever is promoted between its
\* listings is in one of them.
THEOREM OneProcessDropsNoPosition ==
  ASSUME NEW one, Procs = {one}
  PROVE  RowsSpec => RunningPositionsAreListed
<1> DEFINE Inv == TypeOK /\ AloneInv /\ RowsType /\ NothingProposedTrades
                    /\ ListingInv
<1>1. RowsInit => TypeOK /\ AloneInv /\ ListingInv
  BY TypeInit DEF RowsInit, Init, AloneInv, RequestAlone, Idle, ListingInv
<1>2. TypeOK /\ AloneInv /\ [RowsNext]_allVars => TypeOK' /\ AloneInv'
  <2> SUFFICES ASSUME TypeOK, AloneInv, [RowsNext]_allVars
               PROVE  TypeOK' /\ AloneInv'
    OBVIOUS
  <2>1. [Next]_vars
    BY DEF RowsNext, ListCampaigns, ListAttached, ListState, Process, EndCycle,
      CycleCrash, Reset, allVars
  <2> QED
    BY <2>1, TypeNext, AloneNext
<1>3. Inv /\ [RowsNext]_allVars => ListingInv'
  <2> SUFFICES ASSUME Inv, [RowsNext]_allVars PROVE ListingInv'
    OBVIOUS
  <2>1. CASE Next /\ UNCHANGED cycleVars
    <3>1. \A id \in positions : strategies'[id].state = "PAPER" =>
            strategies[id].state = "PAPER"
      BY <2>1, NothingReturnsToPaper DEF RowsType, NothingProposedTrades
    <3> QED
      BY <2>1, <3>1 DEF ListingInv, cycleVars
  <2>2. CASE ListAttached
    BY <2>2 DEF ListAttached, ListingInv
  <2>3. CASE ListState
    <3>1. CASE at = "first" /\ at' = "second"
      <4>1. /\ rows' = rows \cup (InState("PAPER") \ seen) /\ seen' = seen
            /\ positions' = positions /\ strategies' = strategies
        BY <2>3, <3>1 DEF ListState, Query, vars
      <4>2. \A id \in positions : strategies[id].state = "PAPER" => id \in InState("PAPER")
        BY DEF InState, RowsType
      <4> QED
        BY <3>1, <4>1, <4>2 DEF ListingInv
    <3>2. CASE at' = "work"
      BY <3>2 DEF ListingInv
    <3> QED
      BY <2>3, <3>1, <3>2 DEF ListState
  <2>4. CASE ListCampaigns \/ EndCycle \/ CycleCrash \/ \E id \in Ids : Process(id)
    <3>1. at' \notin {"first", "second"}
      BY <2>4 DEF ListCampaigns, EndCycle, CycleCrash, Reset, Process
    <3> QED
      BY <3>1 DEF ListingInv
  <2>5. CASE UNCHANGED allVars
    BY <2>5 DEF allVars, vars, cycleVars, ListingInv
  <2> QED
    BY <2>1, <2>2, <2>3, <2>4, <2>5 DEF RowsNext
<1>4. Inv /\ [RowsNext]_allVars
        => [at = "second" /\ at' = "work" =>
              positions \cap (InState("PAPER") \cup InState("LIVE")) \subseteq rows'
           ]_allVars
  <2> SUFFICES ASSUME Inv, [RowsNext]_allVars, at = "second", at' = "work"
               PROVE  positions \cap (InState("PAPER") \cup InState("LIVE"))
                        \subseteq rows'
    OBVIOUS
  <2>1. ListState
    BY DEF RowsNext, ListCampaigns, ListAttached, Process, EndCycle, CycleCrash,
      Reset, allVars, cycleVars
  <2>2. rows' = rows \cup (InState("LIVE") \ seen)
    BY <2>1 DEF ListState, Query
  <2> QED
    BY <2>2 DEF ListingInv, InState
<1> QED
  BY <1>1, <1>2, <1>3, <1>4, RowsAreApproved, PTL
    DEF RowsSpec, RunningPositionsAreListed
=============================================================================
