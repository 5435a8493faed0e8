---------------------------- MODULE MCCycleRows -----------------------------
(* Instances of CycleRows for TLC. *)
EXTENDS CycleRows, LifecycleSafety

CONSTANTS pead, first, default, p1

\* Backtests are run for the strategy, not for its baseline.
Variants == {<<pead, 0>>}

AllPaper == [c \in Camps |-> "paper"]
=============================================================================
