---------------------------- MODULE CommandQueue -----------------------------
(***************************************************************************)
(* What the supervisor promises the operator who queues commands, with no  *)
(* polling thread, batch, worker or `heron run` in sight: commands are     *)
(* taken strictly in the order they were queued; the oldest open one is    *)
(* tried, any number of times, until it is settled, as consumed if it was  *)
(* applied and as an error if it was refused; and a job is paused by       *)
(* nothing but a pause and released by nothing but another command or a    *)
(* new start of the daemon.                                                *)
(***************************************************************************)
EXTENDS Integers, Sequences

CONSTANTS
  Jobs,        \* job ids of DEFAULT_JOBS
  UnknownJob,  \* a job id that no job has
  Actions      \* what a command may ask for

VARIABLES
  cmds,    \* the commands in the order they were queued
  tried,   \* what came of trying the oldest open one: "no", "applied", "refused"
  paused   \* the jobs that are paused

vars == <<cmds, tried, paused>>

Open == {i \in DOMAIN cmds : cmds[i].status = "pending"}

Oldest(i) == i \in Open /\ \A k \in Open : i <= k

Init ==
  /\ cmds = << >>
  /\ tried = "no"
  /\ paused = {}

Ask(j, a) ==
  /\ cmds' = Append(cmds, [job |-> j, action |-> a, status |-> "pending"])
  /\ UNCHANGED <<tried, paused>>

(* The command's effect: only a pause leaves its job paused. *)
Apply(i) ==
  /\ Oldest(i) /\ tried = "no"
  /\ cmds[i].job \in Jobs
  /\ paused' = (paused \ {cmds[i].job})
                 \cup (IF cmds[i].action = "pause" THEN {cmds[i].job} ELSE {})
  /\ tried' = "applied"
  /\ UNCHANGED cmds

(* No such job, or no scheduler left to apply it to: no effect. *)
Refuse(i) ==
  /\ Oldest(i) /\ tried = "no"
  /\ tried' = "refused"
  /\ UNCHANGED <<cmds, paused>>

Settle(i) ==
  /\ Oldest(i) /\ tried # "no"
  /\ cmds' = [cmds EXCEPT ![i].status =
                IF tried = "refused" THEN "error" ELSE "consumed"]
  /\ tried' = "no"
  /\ UNCHANGED paused

(* What was tried is not written down: it will be tried again. *)
GiveUp ==
  /\ tried # "no"
  /\ tried' = "no"
  /\ UNCHANGED <<cmds, paused>>

(* A new daemon pauses nothing, and no command is half done. *)
Restart ==
  /\ tried = "no"
  /\ paused' = {}
  /\ UNCHANGED <<cmds, tried>>

Next ==
  \/ \E j \in Jobs \cup {UnknownJob}, a \in Actions : Ask(j, a)
  \/ \E i \in DOMAIN cmds : Apply(i) \/ Refuse(i) \/ Settle(i)
  \/ GiveUp \/ Restart

Spec == Init /\ [][Next]_vars
=============================================================================
