----------------------------- MODULE Supervisor ------------------------------
(***************************************************************************)
(* The scheduler daemon (heron/runtime/supervisor.py), the `heron run`     *)
(* command that starts and stops it, the `heron run --once` process beside *)
(* it and the operator's commands from the dashboard, over the two tables  *)
(* they share: scheduler_runs and scheduler_commands.                      *)
(*                                                                         *)
(* APScheduler is outside the repository.  Of it is modelled what the code *)
(* asks for: a job is due at its trigger's time, at once, or never while   *)
(* it is paused; a due job whose instance still runs is skipped            *)
(* (max_instances=1); an instance that starts too late is dropped; a       *)
(* scheduler that is shut down knows no job any more.                      *)
(***************************************************************************)
EXTENDS Integers, Sequences, FiniteSets

CONSTANTS
  Jobs,          \* job ids of DEFAULT_JOBS
  UnknownJob,    \* a job id of a command that no job has
  MaxCommands,   \* bound: rows of scheduler_commands
  MaxRuns,       \* bound: rows of scheduler_runs
  MaxFaults,     \* bound: misfires and locked-journal errors of the daemon
  MaxCrashes     \* bound: crashes of the daemon

ASSUME JobAssumption == UnknownJob \notin Jobs
ASSUME BoundAssumption ==
  /\ MaxCommands \in Nat /\ MaxRuns \in Nat
  /\ MaxFaults \in Nat /\ MaxCrashes \in Nat

VARIABLES
  shared,    \* worker threads may use the connection given to Supervisor
  phase,     \* the daemon: down, starting, up, stopping
  next,      \* APScheduler's next_run_time of each job
  inst,      \* the instance of each job in the daemon's worker threads
  once,      \* the process of `heron run --once`
  runs,      \* the scheduler_runs table
  cmds,      \* the scheduler_commands table
  poll,      \* where the command poller is
  batch,     \* ids it has read and not gone through yet
  err,       \* the command it applied raised
  applied,   \* history: commands applied to this start's job table
  orphaned,  \* history: rows whose run was cut off or could not be written
  faults,    \* counted against MaxFaults
  crashes    \* counted against MaxCrashes

procVars == <<phase, next, inst, once>>
pollVars == <<poll, batch, err, applied>>
countVars == <<faults, crashes>>
vars == <<shared, procVars, runs, cmds, pollVars, orphaned, countVars>>

Actions == {"run_now", "pause", "resume"}

Idle == [at |-> "idle", row |-> 0]
Queued == [at |-> "queued", row |-> 0]
Running(r) == [at |-> "body", row |-> r]

CmdIds == DOMAIN cmds
Pending == {i \in CmdIds : cmds[i].status = "pending"}

(* get_journal_conn leaves sqlite3's check_same_thread at its default, so  *)
(* what `heron run` passes is bound to its main thread (shared = FALSE);   *)
(* Supervisor takes any connection, one that may be shared included.       *)
Init ==
  /\ shared \in BOOLEAN
  /\ phase = "down"
  /\ next = [j \in Jobs |-> "cron"]
  /\ inst = [j \in Jobs |-> Idle]
  /\ once = [job |-> UnknownJob, row |-> 0]
  /\ runs = << >>
  /\ cmds = << >>
  /\ poll = "wait"
  /\ batch = {}
  /\ err = FALSE
  /\ applied = {}
  /\ orphaned = {}
  /\ faults = 0
  /\ crashes = 0

-----------------------------------------------------------------------------
(* The daemon's life.                                                      *)

(* preflight's blockers: a missing variable, or drift in live mode.        *)
PreflightOk(mode, missing, drift) == ~missing /\ ~(mode = "live" /\ drift)

(* `heron run` up to the Supervisor object: every job is registered anew.  *)
Launch ==
  /\ phase = "down"
  /\ \E mode \in {"paper", "live"}, missing, drift, skipped \in BOOLEAN :
       skipped \/ PreflightOk(mode, missing, drift)
  /\ phase' = "starting"
  /\ next' = [j \in Jobs |-> "cron"]
  /\ UNCHANGED <<shared, inst, once, runs, cmds, pollVars, orphaned, countVars>>

(* Supervisor.start: the scheduler, then the polling thread. *)
Start ==
  /\ phase = "starting"
  /\ phase' = "up"
  /\ applied' = {}
  /\ UNCHANGED <<shared, next, inst, once, runs, cmds, poll, batch, err,
                 orphaned, countVars>>

(* SIGINT or SIGTERM: no job is due any more, no poll starts. *)
Stop ==
  /\ phase = "up"
  /\ phase' = "stopping"
  /\ UNCHANGED <<shared, next, inst, once, runs, cmds, pollVars, orphaned,
                 countVars>>

PollerGone ==
  /\ poll' = "wait"
  /\ batch' = {}
  /\ err' = FALSE
  /\ applied' = {}

(* shutdown(wait=True) has waited for the workers; the poller, a daemon    *)
(* thread, is given five seconds and dies with the process.                *)
StopDone ==
  /\ phase = "stopping"
  /\ \A j \in Jobs : inst[j] = Idle
  /\ phase' = "down"
  /\ PollerGone
  /\ UNCHANGED <<shared, next, inst, once, runs, cmds, orphaned, countVars>>

RowsOfInstances == {inst[j].row : j \in {k \in Jobs : inst[k].at = "body"}}

Crash ==
  /\ phase # "down"
  /\ crashes < MaxCrashes
  /\ crashes' = crashes + 1
  /\ phase' = "down"
  /\ inst' = [j \in Jobs |-> Idle]
  /\ orphaned' = orphaned \cup RowsOfInstances
  /\ PollerGone
  /\ UNCHANGED <<shared, next, once, runs, cmds, faults>>

-----------------------------------------------------------------------------
(* Job instances and their scheduler_runs row.                             *)

Room == Len(runs) + Cardinality({j \in Jobs : inst[j] = Queued}) < MaxRuns

(* The job is due: at its trigger's time or because of a run_now. *)
Fire(j) ==
  /\ phase = "up"
  /\ Room
  /\ next[j] # "paused"
  /\ next' = [next EXCEPT ![j] = "cron"]
  /\ inst' = [inst EXCEPT ![j] = IF @ = Idle THEN Queued ELSE @]
  /\ UNCHANGED <<shared, phase, once, runs, cmds, pollVars, orphaned, countVars>>

(* Dropped before the job's function is called: later than APScheduler's   *)
(* misfire_grace_time, or _begin_run found the journal locked.             *)
Misfire(j) ==
  /\ inst[j] = Queued
  /\ faults < MaxFaults
  /\ faults' = faults + 1
  /\ inst' = [inst EXCEPT ![j] = Idle]
  /\ UNCHANGED <<shared, phase, next, once, runs, cmds, pollVars, orphaned,
                 crashes>>

NewRow(j) == [job |-> j, status |-> "running"]

(* _begin_run, committed before the job's function is called. *)
BeginRun(j) ==
  /\ inst[j] = Queued
  /\ shared
  /\ runs' = Append(runs, NewRow(j))
  /\ inst' = [inst EXCEPT ![j] = Running(Len(runs) + 1)]
  /\ UNCHANGED <<shared, phase, next, once, cmds, pollVars, orphaned, countVars>>

(* _begin_run raises ProgrammingError in the worker thread, outside the    *)
(* wrapper's try: no row, no run, one line in the log.                     *)
BeginRunRaises(j) ==
  /\ inst[j] = Queued
  /\ ~shared
  /\ inst' = [inst EXCEPT ![j] = Idle]
  /\ UNCHANGED <<shared, phase, next, once, runs, cmds, pollVars, orphaned,
                 countVars>>

(* Mutant: the wrapper has no except branch. *)
FinishRunOkOnly(j, status) ==
  /\ inst[j].at = "body"
  /\ runs' = IF status = "ok"
             THEN [runs EXCEPT ![inst[j].row].status = status] ELSE runs
  /\ inst' = [inst EXCEPT ![j] = Idle]
  /\ UNCHANGED <<shared, phase, next, once, cmds, pollVars, orphaned, countVars>>

(* The job returned ("ok") or raised ("error"). *)
FinishRun(j, status) ==
  /\ inst[j].at = "body"
  /\ runs' = [runs EXCEPT ![inst[j].row].status = status]
  /\ inst' = [inst EXCEPT ![j] = Idle]
  /\ UNCHANGED <<shared, phase, next, once, cmds, pollVars, orphaned, countVars>>

(* The journal is locked for both attempts of _finish_run. *)
FinishRunRaises(j) ==
  /\ inst[j].at = "body"
  /\ faults < MaxFaults
  /\ faults' = faults + 1
  /\ orphaned' = orphaned \cup {inst[j].row}
  /\ inst' = [inst EXCEPT ![j] = Idle]
  /\ UNCHANGED <<shared, phase, next, once, runs, cmds, pollVars, crashes>>

(* `heron run --once j`: _invoke in a process of its own, on its own       *)
(* connection; the daemon's max_instances does not see it.                 *)
OnceBegin(j) ==
  /\ once.row = 0
  /\ Room
  /\ runs' = Append(runs, NewRow(j))
  /\ once' = [job |-> j, row |-> Len(runs) + 1]
  /\ UNCHANGED <<shared, phase, next, inst, cmds, pollVars, orphaned, countVars>>

OnceFinish(status) ==
  /\ once.row # 0
  /\ runs' = [runs EXCEPT ![once.row].status = status]
  /\ once' = [job |-> UnknownJob, row |-> 0]
  /\ UNCHANGED <<shared, phase, next, inst, cmds, pollVars, orphaned, countVars>>

(* It is killed or interrupted in the middle of its job (_invoke catches   *)
(* Exception, and KeyboardInterrupt is none), or finds the journal locked  *)
(* for both attempts of _finish_run.                                       *)
OnceCutOff ==
  /\ once.row # 0
  /\ orphaned' = orphaned \cup {once.row}
  /\ once' = [job |-> UnknownJob, row |-> 0]
  /\ UNCHANGED <<shared, phase, next, inst, runs, cmds, pollVars, countVars>>

-----------------------------------------------------------------------------
(* Operator commands: request_command and the poller.                      *)

Request(j, a) ==
  /\ Len(cmds) < MaxCommands
  /\ cmds' = Append(cmds, [job |-> j, action |-> a, status |-> "pending"])
  /\ UNCHANGED <<shared, procVars, runs, pollVars, orphaned, countVars>>

PollRead ==
  /\ phase = "up"
  /\ poll = "wait"
  /\ Pending # {}
  /\ poll' = "apply"
  /\ batch' = Pending
  /\ UNCHANGED <<shared, procVars, runs, cmds, err, applied, orphaned, countVars>>

(* Mutant: the newest first. *)
InTurnDescending(i) == i \in batch /\ \A k \in batch : k <= i

(* ORDER BY id *)
InTurn(i) == i \in batch /\ \A k \in batch : i <= k

(* next_run_time after the command. *)
Rearmed(a) ==
  CASE a = "run_now" -> "now"
    [] a = "pause"   -> "paused"
    [] a = "resume"  -> "cron"

(* _apply_command finds the job in the running scheduler. *)
PollApply(i) ==
  /\ poll = "apply"
  /\ InTurn(i)
  /\ phase = "up" /\ cmds[i].job \in Jobs
  /\ next' = [next EXCEPT ![cmds[i].job] = Rearmed(cmds[i].action)]
  /\ applied' = applied \cup {i}
  /\ err' = FALSE
  /\ poll' = "mark"
  /\ UNCHANGED <<shared, phase, inst, once, runs, cmds, batch, orphaned,
                 countVars>>

(* Mutant: the exception of a command ends the poll. *)
PollApplyRaisesEscapes(i) ==
  /\ poll = "apply"
  /\ InTurn(i)
  /\ phase = "stopping" \/ cmds[i].job \notin Jobs
  /\ batch' = {}
  /\ poll' = "wait"
  /\ UNCHANGED <<shared, procVars, runs, cmds, err, applied, orphaned,
                 countVars>>

(* No such job, or the scheduler was shut down under the poller. *)
PollApplyRaises(i) ==
  /\ poll = "apply"
  /\ InTurn(i)
  /\ phase = "stopping" \/ cmds[i].job \notin Jobs
  /\ err' = TRUE
  /\ poll' = "mark"
  /\ UNCHANGED <<shared, procVars, runs, cmds, batch, applied, orphaned,
                 countVars>>

NextRow(rest) == IF rest = {} THEN "wait" ELSE "apply"

(* Mutant: a status the table does not know. *)
PollMarkFailed(i) ==
  /\ poll = "mark"
  /\ InTurn(i)
  /\ cmds' = [cmds EXCEPT ![i].status = IF err THEN "failed" ELSE "consumed"]
  /\ batch' = batch \ {i}
  /\ poll' = NextRow(batch \ {i})
  /\ err' = FALSE
  /\ UNCHANGED <<shared, procVars, runs, applied, orphaned, countVars>>

PollMark(i) ==
  /\ poll = "mark"
  /\ InTurn(i)
  /\ cmds' = [cmds EXCEPT ![i].status = IF err THEN "error" ELSE "consumed"]
  /\ batch' = batch \ {i}
  /\ poll' = NextRow(batch \ {i})
  /\ err' = FALSE
  /\ UNCHANGED <<shared, procVars, runs, applied, orphaned, countVars>>

(* Mutant: a row that cannot be marked is passed over. *)
PollMarkRaisesGoesOn(i) ==
  /\ poll = "mark"
  /\ InTurn(i)
  /\ faults < MaxFaults
  /\ faults' = faults + 1
  /\ batch' = batch \ {i}
  /\ poll' = NextRow(batch \ {i})
  /\ err' = FALSE
  /\ UNCHANGED <<shared, procVars, runs, cmds, applied, orphaned, crashes>>

(* The journal is locked: the exception ends the whole poll, and the row   *)
(* is read and applied again by the next one.                              *)
PollMarkRaises(i) ==
  /\ poll = "mark"
  /\ InTurn(i)
  /\ faults < MaxFaults
  /\ faults' = faults + 1
  /\ batch' = {}
  /\ poll' = "wait"
  /\ err' = FALSE
  /\ UNCHANGED <<shared, procVars, runs, cmds, applied, orphaned, crashes>>

-----------------------------------------------------------------------------

Instances ==
  \E j \in Jobs :
    \/ Fire(j) \/ Misfire(j) \/ BeginRun(j) \/ BeginRunRaises(j)
    \/ \E status \in {"ok", "error"} : FinishRun(j, status)
    \/ FinishRunRaises(j)

Once ==
  \/ \E j \in Jobs : OnceBegin(j)
  \/ \E status \in {"ok", "error"} : OnceFinish(status)
  \/ OnceCutOff

Poller ==
  \/ PollRead
  \/ \E i \in CmdIds :
       PollApply(i) \/ PollApplyRaises(i) \/ PollMark(i) \/ PollMarkRaises(i)

Operator ==
  \/ Launch \/ Start \/ Stop \/ StopDone \/ Crash
  \/ \E j \in Jobs \cup {UnknownJob}, a \in Actions : Request(j, a)

Next == Instances \/ Once \/ Poller \/ Operator

Spec == Init /\ [][Next]_vars

(* The poller is a thread of the running daemon; a journal that is locked  *)
(* does not stay locked (MaxFaults).  Of the scheduler and the operator    *)
(* nothing is assumed.                                                     *)
FairSpec ==
  /\ Spec
  /\ WF_vars(PollRead)
  /\ \A i \in 1..MaxCommands :
       WF_vars(PollApply(i) \/ PollApplyRaises(i)) /\ WF_vars(PollMark(i))

(* The daemon as `heron run` starts it. *)
RunCmdSpec == Init /\ ~shared /\ [][Next]_vars
=============================================================================
