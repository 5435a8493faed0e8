------------------------------ MODULE CostGuard ------------------------------
(***************************************************************************)
(* The monthly budget of the research layer: the cost_tracking table       *)
(* (heron/journal/ops.py) and check_budget over it                         *)
(* (heron/research/cost_guard.py).  Costs and the ceiling are whole units, *)
(* a paid call costs one.                                                  *)
(***************************************************************************)
EXTENDS Integers

CONSTANTS
  Ceiling,       \* MONTHLY_COST_CEILING
  DaysInMonth,   \* calendar.monthrange
  FirstDay,      \* the day a behaviour starts on
  MaxDay         \* bound: the day it ends on

ASSUME BudgetAssumption ==
  /\ Ceiling \in Nat /\ DaysInMonth \in Nat \ {0} /\ MaxDay \in Nat \ {0}
  /\ FirstDay \in 1..MaxDay

VARIABLES
  now,     \* the UTC day, counted from the first of some month
  costs    \* cost_tracking, summed by month

budgetVars == <<now, costs>>

MonthOf(d) == (d - 1) \div DaysInMonth
DayOf(d) == ((d - 1) % DaysInMonth) + 1
Months == 0..MonthOf(MaxDay)

BudgetInit ==
  /\ now = FirstDay
  /\ costs = [m \in Months |-> 0]

Mtd == costs[MonthOf(now)]

(* project_month_end's run rate, times the month's days, against n: both   *)
(* sides multiplied with the days gone by.                                 *)
ProjectedAtLeast(n) == Mtd * DaysInMonth >= n * DayOf(now)

Tripped == Ceiling > 0 /\ (Mtd >= Ceiling \/ ProjectedAtLeast(Ceiling))

(* research_allowed; the warning at 80 % halts nothing. *)
Allowed == ~Tripped

LogCost == costs' = [costs EXCEPT ![MonthOf(now)] = @ + 1]

NextDay ==
  /\ now < MaxDay
  /\ now' = now + 1
  /\ UNCHANGED costs
=============================================================================
