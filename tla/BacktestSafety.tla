--------------------------- MODULE BacktestSafety ----------------------------
(***************************************************************************)
(* What a replay promises: risk, holding periods and accounts.             *)
(***************************************************************************)
EXTENDS BacktestEngine

(* The realized equity a trade was sized with: what was closed up to its   *)
(* entry date was closed before the day's entries, but for the closings    *)
(* after the last day.                                                     *)
EquityAt(entryDate) ==
  InitialEquity + MapThenSumSet(NetOf,
    {tr \in trades : tr.exitDate <= entryDate /\ tr.reason # "end_of_backtest"})

(* Slippage of the entry and of an exit below it, and the fees. *)
Costs(tr) ==
  2 * tr.qty * ((tr.entry * SlippageBps) \div 10000 + 1) + SellFees(tr.qty, tr.entry)

(* A closed trade loses no more than RiskPct of the equity it was sized    *)
(* with, beside slippage and fees, whatever the bars did in between: gaps, *)
(* days without a bar, the end of the window.  (sizing.py:3, "Never risks  *)
(* more than the configured per-trade max")                                *)
LossWithinRisk ==
  \A tr \in trades :
    -tr.net * 100 <= RiskPct * EquityAt(tr.entryDate) + 100 * Costs(tr)

(* What the open positions cost exceeds the realized equity only after     *)
(* losses: entries do not look at the capital already in use, so while one *)
(* position is held on, others may lose what it was sized with.  Up to     *)
(* Cover percent of the equity may be put into positions, slippage         *)
(* included; they are covered while each was sized with no more than       *)
(* 100/Cover of what there is now.  (sizing.py:28, engine.py:147)          *)
CostOf(t) == open[t].entry * open[t].qty
NotLeveraged == MapThenSumSet(CostOf, DOMAIN open) <= equity
SizedWithin(m) ==
  equity >= 0 /\ \A t \in DOMAIN open : m * EquityAt(open[t].entryDate) <= 100 * equity
Cover == 1 + (MaxPositions * MaxCapitalPct * 1001) \div 1000
OnlyLossesLeverage == SizedWithin(Cover) => NotLeveraged

(* Nothing is sold on its entry date but by the end of the window, and a   *)
(* position the day's exits leave open is younger than the longest hold.   *)
HoldsAreBounded ==
  /\ \A tr \in trades : tr.exitDate > tr.entryDate \/ tr.reason = "end_of_backtest"
  /\ \A tr \in trades : tr.reason = "time_exit" => tr.daysHeld >= MinHoldDays
  /\ phase = "entries" =>
       \A t \in DOMAIN open :
         HasBar(t) => DaysHeld(t, open[t].entryDate) < Max({MaxHoldDays, MinHoldDays, 1})

(* A position leaves the book with its trade, or, at the end of the        *)
(* window, without one because its ticker has no bar on the last date; the *)
(* realized equity moves by the net of the trades of the step, no more and *)
(* no less, so that it is what the report's trades add up to.              *)
PositionsAccounted ==
  [][/\ \A t \in DOMAIN open :
          t \in DOMAIN open' \/ (phase' = "done" /\ ~HasBar(t))
            \/ \E tr \in trades' \ trades :
                 tr.ticker = t /\ tr.entryDate = open[t].entryDate /\ tr.qty = open[t].qty
     /\ equity' = equity + MapThenSumSet(NetOf, trades' \ trades)]_vars
=============================================================================
