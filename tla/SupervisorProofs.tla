--------------------------- MODULE SupervisorProofs --------------------------
(***************************************************************************)
(* Proofs about the supervisor, for any number of jobs, commands, runs,    *)
(* locked-journal errors and crashes.                                      *)
(***************************************************************************)
EXTENDS SupervisorSafety, SequenceTheorems, TLAPS

-----------------------------------------------------------------------------
(* The inductive invariant: the properties and what they rest on.          *)

\* An instance or a `--once` process that runs has its row.
RowsExist ==
  /\ \A j \in Jobs : inst[j].at = "body" => inst[j].row \in DOMAIN runs
  /\ once.row # 0 => once.row \in DOMAIN runs

\* The poller has commands in hand that wait, the oldest of them.
BatchIsOldest ==
  /\ batch \subseteq Pending
  /\ poll # "wait" =>
       \A p \in Pending : p \in batch \/ \A b \in batch : b < p

\* Nothing older than an applied command waits, though it may wait itself.
AppliedIsOldest == \A a \in applied, p \in Pending : a <= p

\* A daemon about to start has registered every job anew.
FreshJobs == phase = "starting" => \A j \in Jobs : next[j] = "cron"

RowInv == RowsExist /\ RunningIsExplained

CommandInv ==
  /\ BatchIsOldest
  /\ AppliedIsOldest
  /\ FreshJobs
  /\ SettledInOrder
  /\ NewestCommandRules

IInv == TypeOK /\ RowInv /\ CommandInv

-----------------------------------------------------------------------------
(* The two tables under an insert and an update.                           *)

\* _begin_run's INSERT: the rows before it stay as they are.
LEMMA RunInserted ==
  ASSUME TypeOK, NEW j \in Jobs, runs' = Append(runs, NewRow(j))
  PROVE  /\ runs' \in Seq(Run)
         /\ DOMAIN runs' = DOMAIN runs \cup {Len(runs) + 1}
         /\ Len(runs) + 1 \notin DOMAIN runs
         /\ \A r \in DOMAIN runs : runs'[r] = runs[r]
<1>1. NewRow(j) \in Run
  BY DEF NewRow, Run
<1>2. runs \in Seq(Run) /\ Len(runs) \in Nat /\ DOMAIN runs = 1..Len(runs)
  BY DEF TypeOK
<1>3. Len(runs') = Len(runs) + 1 /\ runs' \in Seq(Run)
      /\ \A r \in 1..Len(runs) : runs'[r] = runs[r]
  BY <1>1, <1>2, AppendProperties
<1>4. DOMAIN runs' = 1..Len(runs')
  BY <1>3
<1> QED
  BY <1>2, <1>3, <1>4

\* _finish_run's UPDATE touches one row's status.
LEMMA RunUpdated ==
  ASSUME TypeOK, NEW row \in DOMAIN runs, NEW status \in {"ok", "error"},
         runs' = [runs EXCEPT ![row].status = status]
  PROVE  /\ runs' \in Seq(Run)
         /\ DOMAIN runs' = DOMAIN runs
         /\ runs'[row].status = status
         /\ \A r \in DOMAIN runs : r # row => runs'[r] = runs[r]
<1> DEFINE e == [runs[row] EXCEPT !.status = status]
<1>1. runs \in Seq(Run) /\ DOMAIN runs = 1..Len(runs)
  BY DEF TypeOK
<1>2. runs[row] \in Run
  BY <1>1, ElementOfSeq
<1>3. e \in Run /\ e.status = status
  BY <1>2 DEF Run
<1>4. runs' = [runs EXCEPT ![row] = e]
  OBVIOUS
<1> HIDE DEF e
<1>5. runs' \in Seq(Run) /\ Len(runs') = Len(runs)
      /\ \A r \in 1..Len(runs) : runs'[r] = IF r = row THEN e ELSE runs[r]
  BY <1>1, <1>3, <1>4, ExceptSeq
<1>6. DOMAIN runs' = 1..Len(runs')
  BY <1>5
<1> QED
  BY <1>1, <1>3, <1>5, <1>6

\* request_command's INSERT: a command newer than every other, that waits.
LEMMA CommandInserted ==
  ASSUME TypeOK, NEW j \in Jobs \cup {UnknownJob}, NEW a \in Actions,
         cmds' = Append(cmds, [job |-> j, action |-> a, status |-> "pending"])
  PROVE  /\ cmds' \in Seq(Command)
         /\ CmdIds \subseteq Nat
         /\ CmdIds' = CmdIds \cup {Len(cmds) + 1}
         /\ Len(cmds) + 1 \in Nat
         /\ \A i \in CmdIds : i < Len(cmds) + 1
         /\ Pending' = Pending \cup {Len(cmds) + 1}
         /\ \A i \in CmdIds : cmds'[i] = cmds[i]
<1> DEFINE row == [job |-> j, action |-> a, status |-> "pending"]
<1>1. row \in Command /\ row.status = "pending"
  BY DEF Command
<1> HIDE DEF row
<1>2. cmds \in Seq(Command) /\ Len(cmds) \in Nat /\ CmdIds = 1..Len(cmds)
  BY DEF TypeOK, CmdIds
<1>3. cmds' = Append(cmds, row)
  BY DEF row
<1>4. Len(cmds') = Len(cmds) + 1 /\ cmds' \in Seq(Command)
      /\ (\A i \in 1..Len(cmds) : cmds'[i] = cmds[i])
      /\ cmds'[Len(cmds) + 1] = row
  BY <1>1, <1>2, <1>3, AppendProperties
<1>5. CmdIds' = 1..(Len(cmds) + 1)
  BY <1>4 DEF CmdIds
<1>6. CmdIds' = CmdIds \cup {Len(cmds) + 1}
  BY <1>2, <1>5
<1>7. Pending' = Pending \cup {Len(cmds) + 1}
  BY <1>1, <1>2, <1>4, <1>6 DEF Pending
<1> QED
  BY <1>2, <1>4, <1>6, <1>7

\* _consume_pending's UPDATE: one command waits no more.
LEMMA CommandUpdated ==
  ASSUME TypeOK, NEW i \in CmdIds, NEW status \in {"consumed", "error"},
         cmds' = [cmds EXCEPT ![i].status = status]
  PROVE  /\ cmds' \in Seq(Command)
         /\ CmdIds' = CmdIds
         /\ Pending' = Pending \ {i}
         /\ \A k \in CmdIds : /\ cmds'[k].job = cmds[k].job
                             /\ cmds'[k].action = cmds[k].action
<1> DEFINE e == [cmds[i] EXCEPT !.status = status]
<1>1. cmds \in Seq(Command) /\ CmdIds = 1..Len(cmds)
  BY DEF TypeOK, CmdIds
<1>2. cmds[i] \in Command
  BY <1>1, ElementOfSeq
<1>3. e \in Command /\ e.status = status
      /\ e.job = cmds[i].job /\ e.action = cmds[i].action
  BY <1>2 DEF Command
<1>4. cmds' = [cmds EXCEPT ![i] = e]
  OBVIOUS
<1> HIDE DEF e
<1>5. cmds' \in Seq(Command) /\ Len(cmds') = Len(cmds)
      /\ \A k \in 1..Len(cmds) : cmds'[k] = IF k = i THEN e ELSE cmds[k]
  BY <1>1, <1>3, <1>4, ExceptSeq
<1>6. CmdIds' = CmdIds
  BY <1>1, <1>5 DEF CmdIds
<1>7. Pending' = Pending \ {i}
  BY <1>1, <1>3, <1>5, <1>6 DEF Pending
<1> QED
  BY <1>1, <1>3, <1>5, <1>6, <1>7
-----------------------------------------------------------------------------
(* Type correctness.                                                       *)

\* The empty journal and a daemon that is down.
LEMMA TypeInit == Init => TypeOK
<1> SUFFICES ASSUME Init PROVE TypeOK
  OBVIOUS
<1>1. runs \in Seq(Run) /\ cmds \in Seq(Command)
  BY EmptySeq DEF Init
<1>2. inst \in [Jobs -> [at : {"idle", "queued", "body"}, row : Nat]]
      /\ once \in [job : Jobs \cup {UnknownJob}, row : Nat]
  BY DEF Init, Idle
<1>3. faults \in Nat /\ crashes \in Nat
  BY DEF Init
<1> QED
  BY <1>1, <1>2, <1>3 DEF Init, TypeOK, CmdIds

\* What a command makes of the next run time.
LEMMA RearmedType ==
  ASSUME NEW a \in Actions
  PROVE  /\ Rearmed(a) \in {"cron", "now", "paused"}
         /\ Rearmed(a) = "paused" <=> a = "pause"
BY DEF Actions, Rearmed

\* A command names a known action.
LEMMA CommandType ==
  ASSUME TypeOK, NEW i \in CmdIds
  PROVE  cmds[i] \in Command
BY ElementOfSeq DEF TypeOK, CmdIds

\* The rows of running instances are in the table.
LEMMA RowsOfInstancesExist ==
  ASSUME RowsExist
  PROVE  RowsOfInstances \subseteq DOMAIN runs
BY DEF RowsExist, RowsOfInstances

\* Every step of the daemon's life keeps the types.
LEMMA LifeType ==
  ASSUME TypeOK, RowsExist, Launch \/ Start \/ Stop \/ StopDone \/ Crash
  PROVE  TypeOK'
<1>1. CASE Launch
  BY <1>1 DEF Launch, TypeOK, CmdIds, pollVars, countVars
<1>2. CASE Start
  BY <1>2 DEF Start, TypeOK, CmdIds, countVars
<1>3. CASE Stop
  BY <1>3 DEF Stop, TypeOK, CmdIds, pollVars, countVars
<1>4. CASE StopDone
  BY <1>4 DEF StopDone, PollerGone, TypeOK, CmdIds, countVars
<1>5. CASE Crash
  <2>1. crashes' \in Nat
    BY <1>5 DEF Crash, TypeOK
  <2>2. inst' \in [Jobs -> [at : {"idle", "queued", "body"}, row : Nat]]
    BY <1>5 DEF Crash, Idle
  <2> QED
    BY <1>5, <2>1, <2>2, RowsOfInstancesExist
    DEF Crash, PollerGone, TypeOK, CmdIds
<1> QED
  BY <1>1, <1>2, <1>3, <1>4, <1>5

\* Every step of a job instance does.
LEMMA InstanceType ==
  ASSUME TypeOK, RowsExist, Instances
  PROVE  TypeOK'
<1>1. PICK j \in Jobs :
        \/ Fire(j) \/ Misfire(j) \/ BeginRun(j) \/ BeginRunRaises(j)
        \/ \E status \in {"ok", "error"} : FinishRun(j, status)
        \/ FinishRunRaises(j)
  BY DEF Instances
<1>2. CASE Fire(j)
  BY <1>2 DEF Fire, TypeOK, CmdIds, Queued, pollVars, countVars
<1>3. CASE Misfire(j)
  BY <1>3 DEF Misfire, TypeOK, CmdIds, Idle, pollVars
<1>4. CASE BeginRun(j)
  <2>1. /\ runs' \in Seq(Run)
        /\ DOMAIN runs \subseteq DOMAIN runs'
    BY <1>4, RunInserted DEF BeginRun
  <2>2. Len(runs) + 1 \in Nat
    BY DEF TypeOK
  <2>3. inst' \in [Jobs -> [at : {"idle", "queued", "body"}, row : Nat]]
    BY <1>4, <2>2 DEF BeginRun, TypeOK, Running
  <2> QED
    BY <1>4, <2>1, <2>3 DEF BeginRun, TypeOK, CmdIds, pollVars, countVars
<1>5. CASE BeginRunRaises(j)
  BY <1>5 DEF BeginRunRaises, TypeOK, CmdIds, Idle, pollVars, countVars
<1>6. ASSUME NEW status \in {"ok", "error"}, FinishRun(j, status)
      PROVE  TypeOK'
  <2>1. inst[j].row \in DOMAIN runs
    BY <1>6 DEF FinishRun, RowsExist
  <2>2. runs' \in Seq(Run) /\ DOMAIN runs' = DOMAIN runs
    BY <1>6, <2>1, RunUpdated DEF FinishRun
  <2> QED
    BY <1>6, <2>2 DEF FinishRun, TypeOK, CmdIds, Idle, pollVars, countVars
<1>7. CASE FinishRunRaises(j)
  <2>1. inst[j].row \in DOMAIN runs
    BY <1>7 DEF FinishRunRaises, RowsExist
  <2> QED
    BY <1>7, <2>1 DEF FinishRunRaises, TypeOK, CmdIds, Idle, pollVars
<1> QED
  BY <1>1, <1>2, <1>3, <1>4, <1>5, <1>6, <1>7

\* Every step of the `--once` process does.
LEMMA OnceType ==
  ASSUME TypeOK, RowsExist, Once
  PROVE  TypeOK'
<1>1. ASSUME NEW j \in Jobs, OnceBegin(j)
      PROVE  TypeOK'
  <2>1. runs' \in Seq(Run) /\ DOMAIN runs \subseteq DOMAIN runs'
    BY <1>1, RunInserted DEF OnceBegin
  <2>2. Len(runs) + 1 \in Nat
    BY DEF TypeOK
  <2> QED
    BY <1>1, <2>1, <2>2 DEF OnceBegin, TypeOK, CmdIds, pollVars, countVars
<1>2. ASSUME NEW status \in {"ok", "error"}, OnceFinish(status)
      PROVE  TypeOK'
  <2>1. once.row \in DOMAIN runs
    BY <1>2 DEF OnceFinish, RowsExist
  <2>2. runs' \in Seq(Run) /\ DOMAIN runs' = DOMAIN runs
    BY <1>2, <2>1, RunUpdated DEF OnceFinish
  <2> QED
    BY <1>2, <2>2 DEF OnceFinish, TypeOK, CmdIds, pollVars, countVars
<1>3. CASE OnceCutOff
  <2>1. once.row \in DOMAIN runs
    BY <1>3 DEF OnceCutOff, RowsExist
  <2> QED
    BY <1>3, <2>1 DEF OnceCutOff, TypeOK, CmdIds, pollVars, countVars
<1> QED
  BY <1>1, <1>2, <1>3 DEF Once

\* Every step of the poller does.
LEMMA PollerType ==
  ASSUME TypeOK, Poller
  PROVE  TypeOK'
<1>1. CASE PollRead
  BY <1>1 DEF PollRead, TypeOK, CmdIds, Pending, procVars, countVars
<1>2. ASSUME NEW i \in CmdIds, PollApply(i)
      PROVE  TypeOK'
  <2>1. Rearmed(cmds[i].action) \in {"cron", "now", "paused"}
    BY CommandType, RearmedType DEF Command
  <2> QED
    BY <1>2, <2>1 DEF PollApply, TypeOK, CmdIds, countVars
<1>3. ASSUME NEW i \in CmdIds, PollApplyRaises(i)
      PROVE  TypeOK'
  BY <1>3 DEF PollApplyRaises, TypeOK, CmdIds, procVars, countVars
<1>4. ASSUME NEW i \in CmdIds, PollMark(i)
      PROVE  TypeOK'
  <2>1. /\ cmds' \in Seq(Command)
        /\ CmdIds' = CmdIds
    BY <1>4, CommandUpdated DEF PollMark
  <2> QED
    BY <1>4, <2>1 DEF PollMark, NextRow, TypeOK, procVars, countVars
<1>5. ASSUME NEW i \in CmdIds, PollMarkRaises(i)
      PROVE  TypeOK'
  <2>1. faults' \in Nat
    BY <1>5 DEF PollMarkRaises, TypeOK
  <2> QED
    BY <1>5, <2>1 DEF PollMarkRaises, TypeOK, CmdIds, procVars
<1> QED
  BY <1>1, <1>2, <1>3, <1>4, <1>5 DEF Poller

\* A new command does.
LEMMA RequestType ==
  ASSUME TypeOK, NEW j \in Jobs \cup {UnknownJob}, NEW a \in Actions,
         Request(j, a)
  PROVE  TypeOK'
<1>1. /\ cmds' \in Seq(Command)
      /\ CmdIds \subseteq CmdIds'
  BY CommandInserted DEF Request
<1> QED
  BY <1>1 DEF Request, TypeOK, procVars, pollVars, countVars

\* No step leaves the types.
LEMMA TypeStep ==
  ASSUME TypeOK, RowsExist, [Next]_vars
  PROVE  TypeOK'
<1>1. CASE Instances
  BY <1>1, InstanceType
<1>2. CASE Once
  BY <1>2, OnceType
<1>3. CASE Poller
  BY <1>3, PollerType
<1>4. CASE Operator
  BY <1>4, LifeType, RequestType DEF Operator
<1>5. CASE UNCHANGED vars
  BY <1>5 DEF vars, procVars, pollVars, countVars, TypeOK, CmdIds
<1> QED
  BY <1>1, <1>2, <1>3, <1>4, <1>5 DEF Next
-----------------------------------------------------------------------------
(* The rows of scheduler_runs.                                             *)

\* A row that no step of this kind touches stays explained.
LEMMA RowsUntouched ==
  ASSUME TypeOK, RowInv,
         runs' = runs, once' = once,
         \A j \in Jobs : inst'[j].at = "body" => inst'[j] = inst[j],
         orphaned \subseteq orphaned',
         RowsOfInstances \subseteq RowsOfInstances' \cup orphaned'
  PROVE  RowInv'
BY DEF RowInv, RowsExist, RunningIsExplained

\* No step leaves a row that says "running" unexplained.
LEMMA RowStep ==
  ASSUME TypeOK, RowInv, [Next]_vars
  PROVE  RowInv'
<1>1. ASSUME UNCHANGED <<runs, once, inst, orphaned>>
      PROVE  RowInv'
  BY <1>1, RowsUntouched DEF RowsOfInstances
<1>2. CASE Crash
  <2>1. UNCHANGED <<runs, once>> /\ orphaned' = orphaned \cup RowsOfInstances
    BY <1>2 DEF Crash
  <2>2. \A j \in Jobs : inst'[j].at # "body"
    BY <1>2 DEF Crash, Idle
  <2> QED
    BY <2>1, <2>2, RowsUntouched
<1>3. ASSUME NEW j \in Jobs,
             Fire(j) \/ Misfire(j) \/ BeginRunRaises(j)
      PROVE  RowInv'
  <2>1. UNCHANGED <<runs, once, orphaned>>
    BY <1>3 DEF Fire, Misfire, BeginRunRaises
  <2>2. inst[j].at # "body" => inst'[j].at # "body"
    BY <1>3 DEF Fire, Misfire, BeginRunRaises, TypeOK, Idle, Queued
  <2>3. \A k \in Jobs : k # j => inst'[k] = inst[k]
    BY <1>3 DEF Fire, Misfire, BeginRunRaises, TypeOK
  <2>4. inst[j].at = "body" => inst'[j] = inst[j]
    BY <1>3 DEF Fire, Misfire, BeginRunRaises, TypeOK, Idle, Queued
  <2>5. RowsOfInstances \subseteq RowsOfInstances'
    BY <2>3, <2>4 DEF RowsOfInstances
  <2> QED
    BY <2>1, <2>2, <2>3, <2>4, <2>5, RowsUntouched
<1>4. ASSUME NEW j \in Jobs, BeginRun(j)
      PROVE  RowInv'
  <2> DEFINE new == Len(runs) + 1
  <2>1. /\ DOMAIN runs' = DOMAIN runs \cup {new}
        /\ \A r \in DOMAIN runs : runs'[r] = runs[r]
    BY <1>4, RunInserted DEF BeginRun
  <2>2. inst[j].at # "body" /\ inst'[j].at = "body" /\ inst'[j].row = new
    BY <1>4 DEF BeginRun, TypeOK, Queued, Running
  <2>3. \A k \in Jobs : k # j => inst'[k] = inst[k]
    BY <1>4 DEF BeginRun, TypeOK
  <2>4. UNCHANGED <<once, orphaned>>
    BY <1>4 DEF BeginRun
  <2> HIDE DEF new
  <2>5. RowsOfInstances \cup {new} \subseteq RowsOfInstances'
    BY <2>2, <2>3 DEF RowsOfInstances
  <2> QED
    BY <2>1, <2>2, <2>3, <2>4, <2>5 DEF RowInv, RowsExist, RunningIsExplained
<1>5. ASSUME NEW j \in Jobs, NEW status \in {"ok", "error"},
             FinishRun(j, status)
      PROVE  RowInv'
  <2>1. inst[j].at = "body" /\ inst[j].row \in DOMAIN runs
    BY <1>5 DEF FinishRun, RowInv, RowsExist
  <2>2. /\ DOMAIN runs' = DOMAIN runs
        /\ runs'[inst[j].row].status = status
        /\ \A r \in DOMAIN runs : r # inst[j].row => runs'[r] = runs[r]
    BY <1>5, <2>1, RunUpdated DEF FinishRun
  <2>3. inst'[j].at # "body" /\ \A k \in Jobs : k # j => inst'[k] = inst[k]
    BY <1>5 DEF FinishRun, TypeOK, Idle
  <2>4. UNCHANGED <<once, orphaned>>
    BY <1>5 DEF FinishRun
  <2>5. RowsOfInstances \subseteq RowsOfInstances' \cup {inst[j].row}
    BY <2>3 DEF RowsOfInstances
  <2>6. status # "running"
    OBVIOUS
  <2> QED
    BY <2>1, <2>2, <2>3, <2>4, <2>5, <2>6
    DEF RowInv, RowsExist, RunningIsExplained
<1>6. ASSUME NEW j \in Jobs, FinishRunRaises(j)
      PROVE  RowInv'
  <2>1. UNCHANGED <<runs, once>> /\ orphaned' = orphaned \cup {inst[j].row}
    BY <1>6 DEF FinishRunRaises
  <2>2. inst'[j].at # "body" /\ \A k \in Jobs : k # j => inst'[k] = inst[k]
    BY <1>6 DEF FinishRunRaises, TypeOK, Idle
  <2>3. RowsOfInstances \subseteq RowsOfInstances' \cup orphaned'
    BY <2>1, <2>2 DEF RowsOfInstances
  <2> QED
    BY <2>1, <2>2, <2>3, RowsUntouched
<1>7. ASSUME NEW j \in Jobs, OnceBegin(j)
      PROVE  RowInv'
  <2> DEFINE new == Len(runs) + 1
  <2>1. /\ DOMAIN runs' = DOMAIN runs \cup {new}
        /\ \A r \in DOMAIN runs : runs'[r] = runs[r]
    BY <1>7, RunInserted DEF OnceBegin
  <2>2. once.row = 0 /\ once'.row = new /\ UNCHANGED <<inst, orphaned>>
    BY <1>7 DEF OnceBegin
  <2>3. 0 \notin DOMAIN runs
    BY DEF TypeOK
  <2>4. RowsOfInstances' = RowsOfInstances
    BY <2>2 DEF RowsOfInstances
  <2> HIDE DEF new
  <2> QED
    BY <2>1, <2>2, <2>3, <2>4 DEF RowInv, RowsExist, RunningIsExplained
<1>8. ASSUME NEW status \in {"ok", "error"}, OnceFinish(status)
      PROVE  RowInv'
  <2>1. once.row \in DOMAIN runs
    BY <1>8 DEF OnceFinish, RowInv, RowsExist
  <2>2. /\ DOMAIN runs' = DOMAIN runs
        /\ runs'[once.row].status = status
        /\ \A r \in DOMAIN runs : r # once.row => runs'[r] = runs[r]
    BY <1>8, <2>1, RunUpdated DEF OnceFinish
  <2>3. once'.row = 0 /\ UNCHANGED <<inst, orphaned>>
    BY <1>8 DEF OnceFinish
  <2>4. RowsOfInstances' = RowsOfInstances
    BY <2>3 DEF RowsOfInstances
  <2>5. status # "running"
    OBVIOUS
  <2> QED
    BY <2>1, <2>2, <2>3, <2>4, <2>5 DEF RowInv, RowsExist, RunningIsExplained
<1>14. CASE OnceCutOff
  <2>1. /\ UNCHANGED <<runs, inst>> /\ once'.row = 0
        /\ orphaned' = orphaned \cup {once.row}
    BY <1>14 DEF OnceCutOff
  <2>2. RowsOfInstances' = RowsOfInstances
    BY <2>1 DEF RowsOfInstances
  <2> QED
    BY <2>1, <2>2 DEF RowInv, RowsExist, RunningIsExplained
<1>9. CASE Instances
  BY <1>9, <1>3, <1>4, <1>5, <1>6 DEF Instances
<1>10. CASE Once
  BY <1>10, <1>7, <1>8, <1>14 DEF Once
<1>11. CASE Operator
  <2>1. Operator /\ ~Crash => UNCHANGED <<runs, once, inst, orphaned>>
    BY DEF Operator, Launch, Start, Stop, StopDone, Request, procVars
  <2> QED
    BY <1>11, <1>1, <1>2, <2>1
<1>12. CASE Poller
  <2>1. UNCHANGED <<runs, once, inst, orphaned>>
    BY <1>12 DEF Poller, PollRead, PollApply, PollApplyRaises, PollMark,
       PollMarkRaises, procVars
  <2> QED
    BY <1>1, <2>1
<1>13. CASE UNCHANGED vars
  BY <1>13, <1>1 DEF vars, procVars
<1> QED
  BY <1>9, <1>10, <1>11, <1>12, <1>13 DEF Next
-----------------------------------------------------------------------------
(* The commands.                                                           *)

\* The poller's turn goes to the oldest command that waits.
LEMMA TurnIsOldest ==
  ASSUME TypeOK, BatchIsOldest, poll # "wait", NEW i, InTurn(i)
  PROVE  /\ i \in Pending /\ i \in Nat
         /\ \A p \in Pending : i <= p
<1>1. CmdIds \subseteq Nat /\ batch \subseteq CmdIds
  BY DEF TypeOK, CmdIds
<1>2. Pending \subseteq CmdIds
  BY DEF Pending
<1> QED
  BY <1>1, <1>2 DEF BatchIsOldest, InTurn

\* What a step leaves alone if the commands do not notice it.
LEMMA CommandsUntouched ==
  ASSUME CommandInv, cmds' = cmds, applied' = applied,
         batch' \subseteq batch,
         poll' # "wait" => poll' = poll /\ batch' = batch,
         phase' = "starting" => FreshJobs',
         phase' = "up" => phase = "up" /\ \A j \in Jobs :
                            next'[j] = "paused" <=> next[j] = "paused"
  PROVE  CommandInv'
<1>1. Pending' = Pending /\ CmdIds' = CmdIds
  BY DEF Pending, CmdIds
<1>2. \A j \in Jobs : NewestIsPause(j)' <=> NewestIsPause(j)
  BY DEF NewestIsPause, AppliedTo
<1>3. BatchIsOldest' /\ AppliedIsOldest' /\ SettledInOrder'
  BY <1>1 DEF CommandInv, BatchIsOldest, AppliedIsOldest, SettledInOrder
<1>4. FreshJobs'
  BY DEF FreshJobs
<1>5. NewestCommandRules'
  BY <1>2 DEF CommandInv, NewestCommandRules
<1> QED
  BY <1>3, <1>4, <1>5 DEF CommandInv

\* A stop, a crash or a start takes the applied commands with the job table.
LEMMA CommandsForgotten ==
  ASSUME CommandInv, cmds' = cmds, applied' = {}, phase' # "starting",
         batch' \subseteq batch,
         poll' # "wait" => poll' = poll /\ batch' = batch,
         phase' = "up" => \A j \in Jobs : next'[j] # "paused"
  PROVE  CommandInv'
<1>1. Pending' = Pending /\ CmdIds' = CmdIds
  BY DEF Pending, CmdIds
<1>2. \A j \in Jobs : ~NewestIsPause(j)'
  BY DEF NewestIsPause, AppliedTo
<1>3. BatchIsOldest' /\ AppliedIsOldest' /\ SettledInOrder' /\ FreshJobs'
  BY <1>1
  DEF CommandInv, BatchIsOldest, AppliedIsOldest, SettledInOrder, FreshJobs
<1>4. NewestCommandRules'
  BY <1>2 DEF NewestCommandRules
<1> QED
  BY <1>3, <1>4 DEF CommandInv

\* The daemon's life keeps the order of the commands.
LEMMA LifeCommands ==
  ASSUME TypeOK, CommandInv, Launch \/ Start \/ Stop \/ StopDone \/ Crash
  PROVE  CommandInv'
<1>1. CASE Launch
  <2>1. FreshJobs'
    BY <1>1 DEF Launch, FreshJobs
  <2> QED
    BY <1>1, <2>1, CommandsUntouched DEF Launch, pollVars
<1>2. CASE Start
  <2>1. \A j \in Jobs : next'[j] # "paused"
    BY <1>2 DEF Start, CommandInv, FreshJobs
  <2> QED
    BY <1>2, <2>1, CommandsForgotten DEF Start
<1>3. CASE Stop
  BY <1>3, CommandsUntouched DEF Stop, pollVars
<1>4. CASE StopDone \/ Crash
  BY <1>4, CommandsForgotten DEF StopDone, Crash, PollerGone
<1> QED
  BY <1>1, <1>2, <1>3, <1>4

\* Job instances and the `--once` process do: only a job that is not paused
\* fires, and it stays so.
LEMMA InstanceCommands ==
  ASSUME TypeOK, CommandInv, Instances \/ Once
  PROVE  CommandInv'
<1>1. ASSUME NEW j \in Jobs, Fire(j)
      PROVE  CommandInv'
  <2>1. \A k \in Jobs : next'[k] = "paused" <=> next[k] = "paused"
    BY <1>1 DEF Fire, TypeOK
  <2> QED
    BY <1>1, <2>1, CommandsUntouched DEF Fire, pollVars
<1>2. ASSUME UNCHANGED <<phase, next, cmds, pollVars>>
      PROVE  CommandInv'
  BY <1>2, CommandsUntouched DEF pollVars, CommandInv, FreshJobs
<1>3. Instances /\ (\A j \in Jobs : ~Fire(j))
        => UNCHANGED <<phase, next, cmds, pollVars>>
  BY DEF Instances, Misfire, BeginRun, BeginRunRaises, FinishRun,
     FinishRunRaises
<1>4. Once => UNCHANGED <<phase, next, cmds, pollVars>>
  BY DEF Once, OnceBegin, OnceFinish, OnceCutOff
<1> QED
  BY <1>1, <1>2, <1>3, <1>4

\* A command that is queued is newer than every other.
LEMMA RequestCommands ==
  ASSUME TypeOK, CommandInv, NEW j \in Jobs \cup {UnknownJob},
         NEW a \in Actions, Request(j, a)
  PROVE  CommandInv'
<1> DEFINE new == Len(cmds) + 1
<1>1. /\ CmdIds \subseteq Nat /\ new \in Nat
      /\ CmdIds' = CmdIds \cup {new}
      /\ \A i \in CmdIds : i < new
      /\ Pending' = Pending \cup {new}
      /\ \A i \in CmdIds : cmds'[i] = cmds[i]
  BY CommandInserted DEF Request
<1>2. UNCHANGED <<phase, next, poll, batch, applied>>
  BY DEF Request, procVars, pollVars
<1>3. applied \subseteq CmdIds /\ batch \subseteq CmdIds
  BY DEF TypeOK
<1> HIDE DEF new
<1>4. BatchIsOldest'
  BY <1>1, <1>2, <1>3 DEF CommandInv, BatchIsOldest
<1>5. AppliedIsOldest'
  BY <1>1, <1>2, <1>3 DEF CommandInv, AppliedIsOldest
<1>6. SettledInOrder'
  BY <1>1 DEF CommandInv, SettledInOrder
<1>7. \A k \in Jobs : NewestIsPause(k)' <=> NewestIsPause(k)
  <2>1. \A k \in Jobs : AppliedTo(k)' = AppliedTo(k)
    BY <1>1, <1>2, <1>3 DEF AppliedTo
  <2>2. \A k \in Jobs : AppliedTo(k) \subseteq CmdIds
    BY <1>3 DEF AppliedTo
  <2> QED
    BY <1>1, <2>1, <2>2 DEF NewestIsPause
<1> QED
  BY <1>2, <1>4, <1>5, <1>6, <1>7
  DEF CommandInv, FreshJobs, NewestCommandRules
\* The command applied is the newest of those applied so far.
LEMMA ApplyCommands ==
  ASSUME TypeOK, CommandInv, NEW i \in CmdIds, PollApply(i)
  PROVE  CommandInv'
<1> DEFINE job == cmds[i].job
<1>1. /\ CmdIds \subseteq Nat /\ Pending \subseteq CmdIds
      /\ applied \subseteq CmdIds
  BY DEF TypeOK, CmdIds, Pending
<1>2. i \in Pending /\ \A p \in Pending : i <= p
  BY TurnIsOldest DEF PollApply, CommandInv
<1>3. \A a \in applied : a <= i
  BY <1>2 DEF CommandInv, AppliedIsOldest
<1>4. UNCHANGED <<phase, cmds, batch>> /\ poll # "wait"
      /\ applied' = applied \cup {i} /\ phase = "up" /\ job \in Jobs
      /\ next' = [next EXCEPT ![job] = Rearmed(cmds[i].action)]
  BY DEF PollApply
<1>5. Pending' = Pending /\ CmdIds' = CmdIds
  BY <1>4 DEF Pending, CmdIds
<1>6. BatchIsOldest' /\ AppliedIsOldest' /\ SettledInOrder' /\ FreshJobs'
  BY <1>1, <1>2, <1>4, <1>5
  DEF CommandInv, BatchIsOldest, AppliedIsOldest, SettledInOrder, FreshJobs
<1>7. \A k \in Jobs : k # job => AppliedTo(k)' = AppliedTo(k)
  BY <1>4 DEF AppliedTo
<1>8. AppliedTo(job)' = AppliedTo(job) \cup {i}
  BY <1>4 DEF AppliedTo
<1>9. NewestIsPause(job)' <=> cmds[i].action = "pause"
  <2>1. \A k \in AppliedTo(job)' : k <= i /\ k \in Nat
    BY <1>1, <1>2, <1>3, <1>8 DEF AppliedTo
  <2> QED
    BY <1>1, <1>4, <1>8, <2>1 DEF NewestIsPause
<1>10. \A k \in Jobs : k # job => NewestIsPause(k)' <=> NewestIsPause(k)
  BY <1>4, <1>7 DEF NewestIsPause
<1>11. cmds[i].action \in Actions
  BY CommandType DEF Command
<1>12. next'[job] = "paused" <=> cmds[i].action = "pause"
  BY <1>4, <1>11, RearmedType DEF TypeOK
<1>13. \A k \in Jobs : k # job => next'[k] = next[k]
  BY <1>4 DEF TypeOK
<1>14. NewestCommandRules'
  BY <1>4, <1>9, <1>10, <1>12, <1>13 DEF CommandInv, NewestCommandRules
<1> QED
  BY <1>6, <1>14 DEF CommandInv

\* The command settled is older than every one that still waits.
LEMMA MarkCommands ==
  ASSUME TypeOK, CommandInv, NEW i \in CmdIds, PollMark(i)
  PROVE  CommandInv'
<1>1. /\ CmdIds \subseteq Nat /\ Pending \subseteq CmdIds
      /\ applied \subseteq CmdIds
  BY DEF TypeOK, CmdIds, Pending
<1>2. i \in Pending /\ \A p \in Pending : i <= p
  BY TurnIsOldest DEF PollMark, CommandInv
<1>3. (IF err THEN "error" ELSE "consumed") \in {"consumed", "error"}
  OBVIOUS
<1>4. /\ CmdIds' = CmdIds
      /\ Pending' = Pending \ {i}
      /\ \A k \in CmdIds : /\ cmds'[k].job = cmds[k].job
                          /\ cmds'[k].action = cmds[k].action
  BY <1>3, CommandUpdated DEF PollMark
<1>5. /\ UNCHANGED <<phase, next, applied>> /\ poll # "wait"
      /\ batch' = batch \ {i}
  BY DEF PollMark, procVars
<1>6. BatchIsOldest'
  BY <1>4, <1>5 DEF CommandInv, BatchIsOldest
<1>7. AppliedIsOldest'
  BY <1>4, <1>5 DEF CommandInv, AppliedIsOldest
<1>8. SettledInOrder'
  BY <1>1, <1>2, <1>4 DEF CommandInv, SettledInOrder
<1>9. \A k \in Jobs : NewestIsPause(k)' <=> NewestIsPause(k)
  <2>1. \A k \in Jobs : AppliedTo(k)' = AppliedTo(k)
    BY <1>1, <1>4, <1>5 DEF AppliedTo
  <2>2. \A k \in Jobs : AppliedTo(k) \subseteq CmdIds
    BY <1>1 DEF AppliedTo
  <2> QED
    BY <1>4, <2>1, <2>2 DEF NewestIsPause
<1> QED
  BY <1>5, <1>6, <1>7, <1>8, <1>9
  DEF CommandInv, FreshJobs, NewestCommandRules

\* Every step of the poller keeps the order.
LEMMA PollerCommands ==
  ASSUME TypeOK, CommandInv, Poller
  PROVE  CommandInv'
<1>1. CASE PollRead
  <2>1. UNCHANGED <<phase, next, cmds, applied>> /\ batch' = Pending
    BY <1>1 DEF PollRead, procVars
  <2>2. Pending' = Pending /\ CmdIds' = CmdIds
    BY <2>1 DEF Pending, CmdIds
  <2>3. \A j \in Jobs : NewestIsPause(j)' <=> NewestIsPause(j)
    BY <2>1 DEF NewestIsPause, AppliedTo
  <2> QED
    BY <2>1, <2>2, <2>3 DEF CommandInv, BatchIsOldest, AppliedIsOldest,
       FreshJobs, SettledInOrder, NewestCommandRules
<1>2. ASSUME NEW i \in CmdIds, PollApplyRaises(i)
      PROVE  CommandInv'
  <2>1. UNCHANGED <<phase, next, cmds, batch, applied>> /\ poll # "wait"
    BY <1>2 DEF PollApplyRaises, procVars
  <2>2. Pending' = Pending /\ CmdIds' = CmdIds
    BY <2>1 DEF Pending, CmdIds
  <2>3. \A j \in Jobs : NewestIsPause(j)' <=> NewestIsPause(j)
    BY <2>1 DEF NewestIsPause, AppliedTo
  <2> QED
    BY <2>1, <2>2, <2>3 DEF CommandInv, BatchIsOldest, AppliedIsOldest,
       FreshJobs, SettledInOrder, NewestCommandRules
<1>3. ASSUME NEW i \in CmdIds, PollMarkRaises(i)
      PROVE  CommandInv'
  BY <1>3, CommandsUntouched DEF PollMarkRaises, procVars, CommandInv, FreshJobs
<1> QED
  BY <1>1, <1>2, <1>3, ApplyCommands, MarkCommands DEF Poller

\* No step breaks the order of the commands or what the newest one says.
LEMMA CommandStep ==
  ASSUME TypeOK, CommandInv, [Next]_vars
  PROVE  CommandInv'
<1>1. CASE Instances \/ Once
  BY <1>1, InstanceCommands
<1>2. CASE Poller
  BY <1>2, PollerCommands
<1>3. CASE Operator
  BY <1>3, LifeCommands, RequestCommands DEF Operator
<1>4. CASE UNCHANGED vars
  BY <1>4, CommandsUntouched
  DEF vars, procVars, pollVars, CommandInv, FreshJobs
<1> QED
  BY <1>1, <1>2, <1>3, <1>4 DEF Next

-----------------------------------------------------------------------------
(* The theorems.                                                           *)

\* The invariant holds at the start.
LEMMA InvInit == Init => IInv
<1> SUFFICES ASSUME Init PROVE IInv
  OBVIOUS
<1>1. TypeOK
  BY TypeInit
<1>2. DOMAIN runs = {} /\ CmdIds = {}
  BY DEF Init, CmdIds
<1>3. RowInv
  BY <1>2 DEF Init, RowInv, RowsExist, RunningIsExplained, Idle
<1>4. CommandInv
  BY <1>2 DEF Init, CommandInv, BatchIsOldest, AppliedIsOldest, FreshJobs,
     SettledInOrder, NewestCommandRules
<1> QED
  BY <1>1, <1>3, <1>4 DEF IInv

\* Every step keeps it.
LEMMA InvStep == IInv /\ [Next]_vars => IInv'
BY TypeStep, RowStep, CommandStep DEF IInv, RowInv

\* It holds in every reachable state.
LEMMA Invariance == Spec => []IInv
BY InvInit, InvStep, PTL DEF Spec

\* The daemon, the poller and the two tables are well typed
\* (supervisor.py, journal/__init__.py:345-363).
THEOREM TypeCorrect == Spec => []TypeOK
BY Invariance, PTL DEF IInv

\* However many polls fail half way, commands are settled in the order of
\* their ids (_consume_pending).
THEOREM CommandsInOrder == Spec => []SettledInOrder
<1>1. IInv => SettledInOrder
  BY DEF IInv, CommandInv
<1> QED
  BY <1>1, Invariance, PTL

\* However often a command is applied again, a job is paused exactly when the
\* newest command applied to it is a pause (_apply_command).
THEOREM NewestCommandWins == Spec => []NewestCommandRules
<1>1. IInv => NewestCommandRules
  BY DEF IInv, CommandInv
<1> QED
  BY <1>1, Invariance, PTL

\* A row says "running" only while its run goes on or because its daemon died
\* or could not write it (_wrap, _invoke, _finish_run).
THEOREM RunningRowsExplained == Spec => []RunningIsExplained
<1>1. IInv => RunningIsExplained
  BY DEF IInv, RowInv
<1> QED
  BY <1>1, Invariance, PTL

-----------------------------------------------------------------------------
(* The supervisor implements CommandQueue.                                 *)

\* Only a daemon that runs has a poller half way.
PollerIsUp == poll # "wait" => phase \in {"up", "stopping"}

\* What the queue does not notice.
Unnoticed == cmds' = cmds /\ Tried' = Tried /\ PausedJobs' = PausedJobs

LEMMA StutterOfQueue == Unnoticed => UNCHANGED Queue!vars
BY DEF Unnoticed, Queue!vars

\* A poller half way has its daemon.
LEMMA PollerStep == PollerIsUp /\ [Next]_vars => PollerIsUp'
<1> SUFFICES ASSUME PollerIsUp, [Next]_vars PROVE PollerIsUp'
  OBVIOUS
<1>1. CASE Instances \/ Once
  BY <1>1 DEF Instances, Once, Fire, Misfire, BeginRun, BeginRunRaises,
     FinishRun, FinishRunRaises, OnceBegin, OnceFinish, OnceCutOff, pollVars, PollerIsUp
<1>2. CASE Poller
  BY <1>2 DEF Poller, PollRead, PollApply, PollApplyRaises, PollMark,
     PollMarkRaises, procVars, PollerIsUp
<1>3. CASE Operator
  BY <1>3 DEF Operator, Launch, Start, Stop, StopDone, Crash, PollerGone,
     Request, procVars, pollVars, PollerIsUp
<1>4. CASE UNCHANGED vars
  BY <1>4 DEF vars, procVars, pollVars, PollerIsUp
<1> QED
  BY <1>1, <1>2, <1>3, <1>4 DEF Next

\* The command whose turn it is is the queue's oldest open one.
LEMMA TurnOfQueue ==
  ASSUME TypeOK, CommandInv, poll # "wait", NEW i, InTurn(i)
  PROVE  Queue!Oldest(i) /\ i \in DOMAIN cmds
<1>1. Queue!Open = Pending
  BY DEF Queue!Open, Pending, CmdIds
<1>2. i \in Pending /\ \A k \in Pending : i <= k
  BY TurnIsOldest DEF CommandInv
<1> QED
  BY <1>1, <1>2 DEF Queue!Oldest, Pending, CmdIds

\* A stop or a crash forgets at most what was tried, a launch the pauses.
LEMMA LifeOfQueue ==
  ASSUME TypeOK, PollerIsUp, Launch \/ Start \/ Stop \/ StopDone \/ Crash
  PROVE  Queue!Restart \/ Queue!GiveUp \/ Unnoticed
<1>1. CASE Launch
  <2>1. Tried = "no" /\ Tried' = "no" /\ cmds' = cmds
    BY <1>1 DEF Launch, pollVars, PollerIsUp, Tried
  <2>2. PausedJobs' = {}
    BY <1>1 DEF Launch, PausedJobs
  <2> QED
    BY <2>1, <2>2 DEF Queue!Restart
<1>2. CASE Start \/ Stop
  BY <1>2 DEF Start, Stop, pollVars, Unnoticed, Tried, PausedJobs
<1>3. CASE StopDone \/ Crash
  <2>1. Tried' = "no" /\ cmds' = cmds /\ PausedJobs' = PausedJobs
    BY <1>3 DEF StopDone, Crash, PollerGone, Tried, PausedJobs
  <2> QED
    BY <2>1 DEF Queue!GiveUp, Unnoticed
<1> QED
  BY <1>1, <1>2, <1>3

\* Runs of jobs touch neither the commands nor a pause.
LEMMA InstancesOfQueue ==
  ASSUME TypeOK, Instances \/ Once
  PROVE  Unnoticed
<1>1. ASSUME NEW j \in Jobs, Fire(j)
      PROVE  Unnoticed
  <2>1. PausedJobs' = PausedJobs
    BY <1>1 DEF Fire, TypeOK, PausedJobs
  <2> QED
    BY <1>1, <2>1 DEF Fire, pollVars, Unnoticed, Tried
<1>2. ASSUME UNCHANGED <<next, cmds, pollVars>>
      PROVE  Unnoticed
  BY <1>2 DEF pollVars, Unnoticed, Tried, PausedJobs
<1>3. Instances /\ (\A j \in Jobs : ~Fire(j)) => UNCHANGED <<next, cmds, pollVars>>
  BY DEF Instances, Misfire, BeginRun, BeginRunRaises, FinishRun,
     FinishRunRaises
<1>4. Once => UNCHANGED <<next, cmds, pollVars>>
  BY DEF Once, OnceBegin, OnceFinish, OnceCutOff
<1> QED
  BY <1>1, <1>2, <1>3, <1>4

\* Each step of the poller is a step of the queue.
LEMMA PollerOfQueue ==
  ASSUME TypeOK, CommandInv, Poller
  PROVE  Queue!Next \/ Unnoticed
<1>1. CASE PollRead
  BY <1>1 DEF PollRead, procVars, Unnoticed, Tried, PausedJobs
<1>2. ASSUME NEW i \in CmdIds, PollApply(i)
      PROVE  Queue!Apply(i) /\ i \in DOMAIN cmds
  <2> DEFINE job == cmds[i].job
  <2>1. Queue!Oldest(i) /\ i \in DOMAIN cmds
    BY <1>2, TurnOfQueue DEF PollApply
  <2>2. Tried = "no" /\ Tried' = "applied" /\ job \in Jobs /\ cmds' = cmds
    BY <1>2 DEF PollApply, Tried
  <2>3. next'[job] = "paused" <=> cmds[i].action = "pause"
    <3>1. cmds[i].action \in Actions
      BY CommandType DEF Command
    <3> QED
      BY <1>2, <2>2, <3>1, RearmedType DEF PollApply, TypeOK
  <2>4. \A k \in Jobs : k # job => next'[k] = next[k]
    BY <1>2 DEF PollApply, TypeOK
  <2>5. PausedJobs' = (PausedJobs \ {job})
                        \cup (IF cmds[i].action = "pause" THEN {job} ELSE {})
    BY <2>2, <2>3, <2>4 DEF PausedJobs
  <2> QED
    BY <2>1, <2>2, <2>5 DEF Queue!Apply
<1>3. ASSUME NEW i \in CmdIds, PollApplyRaises(i)
      PROVE  Queue!Refuse(i) /\ i \in DOMAIN cmds
  <2>1. Queue!Oldest(i) /\ i \in DOMAIN cmds
    BY <1>3, TurnOfQueue DEF PollApplyRaises
  <2>2. Tried = "no" /\ Tried' = "refused" /\ UNCHANGED <<cmds, PausedJobs>>
    BY <1>3 DEF PollApplyRaises, procVars, Tried, PausedJobs
  <2> QED
    BY <2>1, <2>2 DEF Queue!Refuse
<1>4. ASSUME NEW i \in CmdIds, PollMark(i)
      PROVE  Queue!Settle(i) /\ i \in DOMAIN cmds
  <2>1. Queue!Oldest(i) /\ i \in DOMAIN cmds
    BY <1>4, TurnOfQueue DEF PollMark
  <2>2. /\ Tried # "no" /\ (Tried = "refused" <=> err)
        /\ Tried' = "no" /\ PausedJobs' = PausedJobs
    BY <1>4 DEF PollMark, procVars, Tried, PausedJobs, NextRow, TypeOK
  <2>3. cmds' = [cmds EXCEPT ![i].status =
                   IF Tried = "refused" THEN "error" ELSE "consumed"]
    BY <1>4, <2>2 DEF PollMark
  <2> QED
    BY <2>1, <2>2, <2>3 DEF Queue!Settle
<1>5. ASSUME NEW i \in CmdIds, PollMarkRaises(i)
      PROVE  Queue!GiveUp
  BY <1>5 DEF PollMarkRaises, procVars, Queue!GiveUp, Tried, PausedJobs
<1> QED
  BY <1>1, <1>2, <1>3, <1>4, <1>5 DEF Poller, Queue!Next

\* An operator's request is one of the queue.
LEMMA RequestOfQueue ==
  ASSUME NEW j \in Jobs \cup {UnknownJob}, NEW a \in Actions, Request(j, a)
  PROVE  Queue!Ask(j, a)
BY DEF Request, procVars, pollVars, Queue!Ask, Tried, PausedJobs

\* Every step of the supervisor is a step of the queue or none.
LEMMA QueueStep ==
  ASSUME TypeOK, CommandInv, PollerIsUp, [Next]_vars
  PROVE  [Queue!Next]_Queue!vars
<1>1. CASE Instances \/ Once
  BY <1>1, InstancesOfQueue, StutterOfQueue
<1>2. CASE Poller
  BY <1>2, PollerOfQueue, StutterOfQueue
<1>3. CASE Operator
  <2>1. CASE Launch \/ Start \/ Stop \/ StopDone \/ Crash
    BY <2>1, LifeOfQueue, StutterOfQueue DEF Queue!Next
  <2>2. ASSUME NEW j \in Jobs \cup {UnknownJob}, NEW a \in Actions,
               Request(j, a)
        PROVE  Queue!Next
    BY <2>2, RequestOfQueue DEF Queue!Next
  <2> QED
    BY <1>3, <2>1, <2>2 DEF Operator
<1>4. CASE UNCHANGED vars
  <2>1. Unnoticed
    BY <1>4 DEF vars, procVars, pollVars, Unnoticed, Tried, PausedJobs
  <2> QED
    BY <2>1, StutterOfQueue
<1> QED
  BY <1>1, <1>2, <1>3, <1>4 DEF Next

\* The supervisor is a first-in first-out command queue that tries each
\* command at least once before it settles it, whatever polls fail, daemons
\* die and start again in between (_consume_pending, _apply_command, start).
THEOREM QueueIsImplemented == Spec => ImplementsQueue
<1>1. Init => Queue!Init /\ PollerIsUp
  BY DEF Init, Queue!Init, Tried, PausedJobs, PollerIsUp
<1>2. IInv /\ PollerIsUp /\ [Next]_vars => PollerIsUp'
  BY PollerStep
<1>3. IInv /\ PollerIsUp /\ [Next]_vars => [Queue!Next]_Queue!vars
  BY QueueStep DEF IInv
<1> QED
  BY <1>1, <1>2, <1>3, Invariance, PTL DEF Spec, ImplementsQueue, Queue!Spec
=============================================================================
