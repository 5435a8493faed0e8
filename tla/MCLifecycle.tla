---------------------------- MODULE MCLifecycle ----------------------------
(* Instances of StrategyLifecycle for TLC. *)
EXTENDS LifecycleSafety, TLC

CONSTANTS pead, first, default, desk, p1, p2

Symmetry == Permutations(Procs)
=============================================================================
