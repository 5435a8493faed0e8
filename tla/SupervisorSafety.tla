-------------------------- MODULE SupervisorSafety ---------------------------
(***************************************************************************)
(* What the supervisor has to get right.                                   *)
(***************************************************************************)
EXTENDS Supervisor

Run == [job : Jobs, status : {"running", "ok", "error"}]

Command == [job : Jobs \cup {UnknownJob}, action : Actions,
            status : {"pending", "consumed", "error"}]

(* Type correctness of the daemon, its poller and the two tables           *)
(* (supervisor.py, journal/__init__.py:345-363).                           *)
TypeOK ==
  /\ shared \in BOOLEAN
  /\ phase \in {"down", "starting", "up", "stopping"}
  /\ next \in [Jobs -> {"cron", "now", "paused"}]
  /\ inst \in [Jobs -> [at : {"idle", "queued", "body"}, row : Nat]]
  /\ once \in [job : Jobs \cup {UnknownJob}, row : Nat]
  /\ runs \in Seq(Run)
  /\ cmds \in Seq(Command)
  /\ poll \in {"wait", "apply", "mark"}
  /\ batch \subseteq CmdIds
  /\ err \in BOOLEAN
  /\ applied \subseteq CmdIds
  /\ orphaned \subseteq DOMAIN runs
  /\ faults \in Nat /\ crashes \in Nat

-----------------------------------------------------------------------------

AppliedTo(j) == {i \in applied : cmds[i].job = j}

NewestIsPause(j) ==
  \E i \in AppliedTo(j) :
    /\ cmds[i].action = "pause"
    /\ \A k \in AppliedTo(j) : k <= i

(* Commands are applied before they are marked, so a lock or a restart     *)
(* makes the poller apply some again.  All the same the newest command     *)
(* wins: a job is paused exactly when the newest command applied to it     *)
(* since the start is a pause (_consume_pending, _apply_command).          *)
NewestCommandRules ==
  phase = "up" => \A j \in Jobs : next[j] = "paused" <=> NewestIsPause(j)

(* Commands are settled in the order of their ids, across polls that fail  *)
(* half way, stops and crashes: none is overtaken by a newer one.          *)
SettledInOrder ==
  \A i, k \in CmdIds : i < k /\ k \notin Pending => i \notin Pending

(* The supervisor as the operator sees it.  Between the apply of a command *)
(* and its mark the command has been tried; a job's pause is its           *)
(* next_run_time, None.                                                    *)
Tried == IF poll # "mark" THEN "no" ELSE IF err THEN "refused" ELSE "applied"

PausedJobs == {j \in Jobs : next[j] = "paused"}

Queue == INSTANCE CommandQueue WITH tried <- Tried, paused <- PausedJobs

(* The daemon, with its batches read from the table, its polls that a      *)
(* locked journal ends half way, its stops and crashes between apply and   *)
(* mark and its job table that a start registers anew, is a first-in       *)
(* first-out queue that applies each command at least once, or refuses it, *)
(* before it says so (_consume_pending, _apply_command, start).            *)
ImplementsQueue == Queue!Spec

(* A row says "running" only while its run goes on, but for the rows whose *)
(* process, the daemon or `heron run --once`, was cut off in the middle or *)
(* found the journal locked at the end (_wrap, _invoke, _finish_run).      *)
RunningIsExplained ==
  \A r \in DOMAIN runs :
    runs[r].status = "running" =>
      r \in RowsOfInstances \cup {once.row} \cup orphaned

(* Every command the dashboard queued is consumed or refused, whatever     *)
(* fails in between, unless the daemon goes down.                          *)
CommandsAreSettled ==
  \A i \in 1..MaxCommands :
    (i \in CmdIds /\ i \in Pending) ~> (i \notin Pending \/ phase # "up")

-----------------------------------------------------------------------------
(* supervisor.py:5: "Run history is journaled to `scheduler_runs`": an     *)
(* instance that a worker thread takes up leaves a row.                    *)
ScheduledRunsAreJournaled ==
  [][\A j \in Jobs :
       inst[j] = Queued /\ inst'[j] # Queued /\ crashes' = crashes
         => Len(runs') = Len(runs) + 1]_vars
=============================================================================
