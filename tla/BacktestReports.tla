--------------------------- MODULE BacktestReports ---------------------------
(***************************************************************************)
(* The backtest_reports table and what reads and writes a row of it:       *)
(* run_strategy_backtest, save_report, reparity_report,                    *)
(* find_baseline_report (heron/backtest), and the month arithmetic of the  *)
(* walk-forward windows.                                                   *)
(*                                                                         *)
(* Dates are days counted from the first of some month.  The engine is     *)
(* left to BacktestEngine: here a replay trades every candidate its        *)
(* strategy screens, and a curve is known by the equity it starts from and *)
(* its trades.                                                             *)
(***************************************************************************)
EXTENDS EarningsCache

CONSTANTS
  BarDays,          \* days with cached bars
  MonthStarts,      \* calendar: the first day of each month, and of the next
  Frequency,        \* frequency_days of the synthetic seeder
  SeedThreshold,    \* surprise_threshold of run_strategy_backtest
  Threshold,        \* the strategies' surprise_threshold_pct
  MinTrades,        \* MIN_TRADES_FOR_OBJECTIVE
  Surprise(_, _, _),\* what a seed draws, with the momentum, for a bar of a window
  Merit(_, _),      \* the objective of a run with these inputs and trades
  EndOf(_, _)       \* the equity its curve ends with

ASSUME ReportsAssumption ==
  /\ BarDays \subseteq Nat /\ IsFiniteSet(BarDays)
  /\ MonthStarts \in Seq(Nat)
  /\ \A m \in 2..Len(MonthStarts) : MonthStarts[m - 1] < MonthStarts[m]
  /\ Frequency \in Nat \ {0} /\ SeedThreshold \in Nat /\ Threshold \in Nat
  /\ MinTrades \in Nat

VARIABLES
  reports,     \* backtest_reports, by id; created_at grows with it
  forks        \* strategies forked from a sweep: sweep_id -> overrides

reportVars == <<reports, forks>>

Strategies == {"s", "s_baseline"}
Seeders == {"synthetic", "real"}
NoId == 0
NoVerdict == [base |-> NoId, passes |-> FALSE]
Stored == 0          \* the stored config, without an override
NoPlan == [start |-> 1, end |-> 0, train |-> 0, test |-> 1, step |-> 1, axes |-> FALSE]

ReportsInit == reports = <<>> /\ forks = [tag \in {} |-> Stored]

------------------------------------------------------------------------------
(* The calendar of walkforward.py; _add_months clips to the last day of    *)
(* the month.                                                              *)
MonthOf(d) ==
  CHOOSE m \in 1..(Len(MonthStarts) - 1) : MonthStarts[m] <= d /\ d < MonthStarts[m + 1]
AddMonths(d, k) ==
  LET m == MonthOf(d)
  IN  Min({MonthStarts[m + k] + d - MonthStarts[m], MonthStarts[m + k + 1] - 1})

(* One turn of plan_windows, both windows inclusive.  The plan is made in  *)
(* advance in the code; nothing in it depends on the runs.                 *)
WindowSharingItsEnd(cur, plan) ==
  LET testStart == IF plan.train > 0 THEN AddMonths(cur, plan.train) ELSE cur
  IN  [train |-> <<cur, testStart - 1>>,
       test |-> <<testStart, AddMonths(testStart, plan.test)>>]
WindowAt(cur, plan) ==
  LET testStart == IF plan.train > 0 THEN AddMonths(cur, plan.train) ELSE cur
  IN  [train |-> <<cur, testStart - 1>>,
       test |-> <<testStart, AddMonths(testStart, plan.test) - 1>>]
Fits(cur, plan) == WindowAt(cur, plan).test[2] <= plan.end

------------------------------------------------------------------------------
(* What a run is given: seeder, seed, window, override and initial_equity; *)
(* a walk-forward's parent also its plan.                                  *)
Input(seeder, seed, window, over, equity) ==
  [seeder |-> seeder, seed |-> seed, window |-> window, over |-> over,
   equity |-> equity, plan |-> NoPlan]

(* get_bars, and synthetic_pead_candidates: every Frequency-th bar of the  *)
(* window but the first, if what the seed draws is surprise enough.        *)
BarsIn(window) == BarDays \cap (window[1]..window[2])
SyntheticCandidates(seed, window) ==
  LET nth(d) == Cardinality({b \in BarsIn(window) : b < d})
      drawn == {[event |-> d, value |-> Surprise(seed, window, d)] :
                  d \in {b \in BarsIn(window) : nth(b) > 0 /\ nth(b) % Frequency = 0}}
  IN  {c \in drawn : c.value >= SeedThreshold \/ -c.value >= SeedThreshold}

(* real_pead_candidates: as_of is the end of the window.                   *)
KnownCandidates(window) == RealCandidates(earnings, window, SeedThreshold, window[2])

(* run_strategy_backtest up to the engine.                                 *)
CandidatesFor(ran) ==
  IF ran.seeder = "synthetic" THEN SyntheticCandidates(ran.seed, ran.window)
  ELSE KnownCandidates(ran.window)

(* Its ValueErrors: no bars, or no real candidates. *)
Runs(seeder, window) ==
  /\ BarsIn(window) # {}
  /\ seeder = "real" => KnownCandidates(window) # {}

(* The engine enters what the strategy screens; an override replaces its   *)
(* threshold.  The LLM's part is off for every strategy: a strategy and    *)
(* its baseline run the same code on the same stored config.               *)
ThresholdOf(over) == IF over = Stored THEN Threshold ELSE over
TradesOf(ran) == {c \in CandidatesFor(ran) : c.value >= ThresholdOf(ran.over)}

(* The row of a run: its dates are those of the bars it found. *)
Result(strategy, ran) ==
  [strategy |-> strategy, dates |-> <<Min(BarsIn(ran.window)), Max(BarsIn(ran.window))>>,
   ran |-> ran, trades |-> TradesOf(ran), on |-> today,
   sweep |-> NoId, wf |-> NoId, parent |-> FALSE, kids |-> {}, parity |-> NoVerdict]

------------------------------------------------------------------------------
(* find_baseline_report: the newest with the same dates; nothing tells a   *)
(* sweep's, a walk-forward's or another seeder's report apart.             *)
BaselineIdOf(strategy) == IF strategy = "s" THEN "s_baseline" ELSE "none"
Baselines(strategy, dates) ==
  {i \in DOMAIN reports :
     reports[i].strategy = BaselineIdOf(strategy) /\ reports[i].dates = dates}

(* Runs over the same bars have the same daily returns if they trade alike *)
(* and size alike, from the same equity, or do not trade at all.  The      *)
(* stitched curves of two parents may differ all the same.                 *)
SameCurve(a, b) ==
  /\ ~a.parent /\ ~b.parent
  /\ a.trades = b.trades
  /\ a.trades = {} \/ a.ran.equity = b.ran.equity

(* compute_parity_report: equal curves never pass, and with others the     *)
(* bootstrap, which is not seeded, decides.                                *)
VerdictsAllowingTies(row, baseline) == {[base |-> baseline, passes |-> b] : b \in BOOLEAN}
Verdicts(row, baseline) ==
  {[base |-> baseline, passes |-> b] :
     b \in IF SameCurve(row, reports[baseline]) THEN {FALSE} ELSE BOOLEAN}
Parities(row) ==
  LET bases == Baselines(row.strategy, row.dates)
  IN  IF bases = {} THEN {NoVerdict} ELSE Verdicts(row, Max(bases))

(* save_report's row, its verdict against the baseline found now. *)
Judged(row) == {[row EXCEPT !.parity = parity] : parity \in Parities(row)}
=============================================================================
