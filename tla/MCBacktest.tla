----------------------------- MODULE MCBacktest ------------------------------
(* Three shapes of a day around ten dollars, and two seeded surprises. *)
EXTENDS BacktestSafety

MCTickers == {1, 2}
MCBars ==
  {[low |-> 9750, close |-> 10000, high |-> 10250],    \* quiet
   [low |-> 4900, close |-> 9900, high |-> 10000],     \* a fall through any stop
   [low |-> 9500, close |-> 10000, high |-> 12000]}    \* a spike through a target
MCCandidates == {[surprise |-> 8, hours |-> 12], [surprise |-> -8, hours |-> 12]}
=============================================================================
