--------------------------- MODULE MCExecutorCycle --------------------------
(* Instances of ExecutorCycle for TLC. *)
EXTENDS ExecutorSafety, TLC

CONSTANTS c1, c2, s1, s2, t1, t2, p1, p2

OneStrategy == [c \in Cands |-> s1]
OneTicker == [c \in Cands |-> t1]
TwoTickers == [c \in Cands |-> IF c = c1 THEN t1 ELSE t2]
Long == [c \in Cands |-> "buy"]
LongAndShort == [c \in Cands |-> IF c = c1 THEN "buy" ELSE "sell"]
Short == [c \in Cands |-> "sell"]

Symmetry == Permutations(Procs)

=============================================================================
