--------------------------- MODULE BacktestEngine ----------------------------
(***************************************************************************)
(* run_backtest (heron/backtest/engine.py) over the PEAD strategy          *)
(* (heron/strategy/pead.py), its sizing (heron/strategy/sizing.py) and the *)
(* cost model (heron/backtest/costs.py).  Money is in mils, a thousandth   *)
(* of a dollar, and shares are whole: quotients are rounded down where the *)
(* code keeps a fraction.  The bars of a day, and the candidates seeded    *)
(* for it, are chosen when the replay gets there: the code reads nothing   *)
(* of a later day.                                                         *)
(***************************************************************************)
EXTENDS Integers, Sequences, FiniteSets, FiniteSetsExt, Functions

CONSTANTS
  Tickers,          \* numbers, in the alphabetical order of the names
  Universe,         \* config["universe"]
  Bars,             \* daily bars: [low, high, close]
  Candidates,       \* seeded candidates: [surprise, hours]
  InitialEquity,
  AtrPeriod,
  SurpriseThreshold, SurpriseWindow,
  StopMult, TargetMult, MinEdgeBps,
  RiskPct, MaxCapitalPct, MaxPositions,
  MinHoldDays, MaxHoldDays,
  MaxDays           \* bound: trading days of the window

ASSUME EngineAssumption ==
  /\ Tickers \subseteq Nat /\ IsFiniteSet(Tickers) /\ Universe \subseteq Tickers
  /\ Bars \subseteq [low: Nat, high: Nat, close: Nat]
  /\ \A bar \in Bars : bar.low <= bar.close /\ bar.close <= bar.high
  /\ Candidates \subseteq [surprise: Int, hours: Nat]
  /\ InitialEquity \in Nat /\ AtrPeriod \in Nat \ {0}
  /\ SurpriseThreshold \in Nat /\ SurpriseWindow \in Nat
  /\ StopMult \in Nat /\ TargetMult \in Nat /\ MinEdgeBps \in Nat
  /\ RiskPct \in Nat /\ MaxCapitalPct \in Nat
  /\ MaxPositions \in Nat /\ MinHoldDays \in Nat /\ MaxHoldDays \in Nat
  /\ MaxDays \in Nat \ {0}

VARIABLES
  date,       \* position in all_dates, 0 before the first
  series,     \* bars_by_ticker up to date: ticker -> <<[date, bar]>>
  todo,       \* today's candidates still to be looked at
  phase,      \* where the loop over the days stands
  equity,     \* realized
  open,       \* open_positions
  trades,     \* closed_trades; (ticker, entry date) tells them apart
  curve,      \* equity_curve, its dates left out
  maxDd       \* max_dd, in thousandths of the peak

vars == <<date, series, todo, phase, equity, open, trades, curve, maxDd>>

------------------------------------------------------------------------------
(* costs.py *)
SlippageBps == 10
ApplySlippage(price, side) ==
  LET adj == (price * SlippageBps) \div 10000
  IN  IF side = "buy" THEN price + adj ELSE price - adj

SellFees(qty, price) ==
  (((qty * price) \div 1000) * 278) \div 10000 + Min({(qty * 166) \div 1000, 8300})

(* sizing.py *)
Distance(a, b) == Max({a - b, b - a})
ByRisk(cash, entry, stop) == ((cash * RiskPct) \div 100) \div Distance(entry, stop)
ByCapital(cash, entry) == ((cash * MaxCapitalPct) \div 100) \div entry
(* Mutants: one of the two caps is forgotten. *)
SizePositionByRisk(cash, entry, stop) ==
  IF entry = stop THEN 0 ELSE ByRisk(cash, entry, stop)
SizePositionByCapital(cash, entry, stop) ==
  IF entry = stop THEN 0 ELSE ByCapital(cash, entry)
SizePosition(cash, entry, stop) ==
  IF entry = stop THEN 0
  ELSE Min({ByRisk(cash, entry, stop), ByCapital(cash, entry)})

Stop(entry, atr) == Max({entry - atr * StopMult, 10})
Target(entry, atr) == entry + atr * TargetMult
EdgePasses(entry, target) ==
  (target - entry) * 10000 >= (25 + MinEdgeBps) * entry

------------------------------------------------------------------------------
NoBar == [low |-> 0, high |-> 0, close |-> 0]

HasBar(t) == series[t] # <<>> /\ series[t][Len(series[t])].date = date
Today(t) == series[t][Len(series[t])].bar

(* _count_trading_days: the ticker's own bars, so that a position entered  *)
(* on a day without a bar starts one day late.                             *)
DaysHeld(t, entryDate) ==
  Cardinality({i \in DOMAIN series[t] : series[t][i].date >= entryDate}) - 1

(* The AtrPeriod + 1 bars up to date; the last may be older than today.    *)
Enough(t) == Len(series[t]) >= AtrPeriod + 1
TrueRange(bar, prev) ==
  Max({bar.high - bar.low, Distance(bar.high, prev), Distance(bar.low, prev)})
Atr(t) ==
  LET n == Len(series[t])
      tr(i) == TrueRange(series[t][i].bar, series[t][i - 1].bar.close)
  IN  MapThenSumSet(tr, (n - AtrPeriod + 1)..n) \div AtrPeriod
LastClose(t) == series[t][Len(series[t])].bar.close

Screened(t, cand) ==
  /\ t \in Universe
  /\ cand.surprise >= SurpriseThreshold
  /\ cand.hours <= SurpriseWindow

------------------------------------------------------------------------------
(* A trade is closed at its raw price less slippage, and pays the fees.    *)
Closed(t, raw, reason) ==
  LET pos == open[t]
      exit == ApplySlippage(raw, "sell")
  IN  [ticker |-> t, entry |-> pos.entry, qty |-> pos.qty,
       entryDate |-> pos.entryDate, exitDate |-> date,
       stop |-> pos.stop, reason |-> reason, daysHeld |-> DaysHeld(t, pos.entryDate),
       net |-> (exit - pos.entry) * pos.qty - SellFees(pos.qty, exit)]

NetOf(tr) == tr.net
Book(closing) ==
  /\ equity' = equity + MapThenSumSet(NetOf, closing)
  /\ trades' = trades \cup closing

(* The stop is looked at first and the low decides; neither it nor the     *)
(* target waits for the minimum hold.                                      *)
StopHit(t) == Today(t).low <= open[t].stop
TargetHit(t) == ~StopHit(t) /\ Today(t).high >= open[t].target
(* should_exit: with the intraday stop and target out of the way the close *)
(* can meet neither, which leaves the time exit.                           *)
(* Mutant: one day late. *)
TimeExitLate(t) ==
  /\ ~StopHit(t) /\ ~TargetHit(t)
  /\ DaysHeld(t, open[t].entryDate) > MaxHoldDays
  /\ DaysHeld(t, open[t].entryDate) >= MinHoldDays
TimeExit(t) ==
  /\ ~StopHit(t) /\ ~TargetHit(t)
  /\ DaysHeld(t, open[t].entryDate) >= MaxHoldDays
  /\ DaysHeld(t, open[t].entryDate) >= MinHoldDays

ToClose(t) ==
  IF StopHit(t) THEN {Closed(t, open[t].stop, "stop")}
  ELSE IF TargetHit(t) THEN {Closed(t, open[t].target, "target")}
  ELSE IF TimeExit(t) THEN {Closed(t, Today(t).close, "time_exit")}
  ELSE {}

Init ==
  /\ date = 0 /\ phase = "between"
  /\ series = [t \in Tickers |-> <<>>]
  /\ todo = [t \in {} |-> {}]
  /\ equity = InitialEquity
  /\ open = [t \in {} |-> {}]
  /\ trades = {} /\ curve = <<>>
  /\ maxDd = 0

(* The next of all_dates: some ticker has a bar on it.                     *)
NextDate ==
  /\ phase = "between" /\ date < MaxDays
  /\ \E bar \in [Tickers -> Bars \cup {NoBar}] :
       /\ \E t \in Tickers : bar[t] # NoBar
       /\ series' = [t \in Tickers |->
            IF bar[t] = NoBar THEN series[t]
            ELSE Append(series[t], [date |-> date + 1, bar |-> bar[t]])]
  /\ date' = date + 1 /\ phase' = "exits"
  /\ UNCHANGED <<todo, equity, open, trades, curve, maxDd>>

(* Step 1; a position whose ticker has no bar today is passed over.        *)
(* Mutant: it is forgotten. *)
CheckExitsForgets ==
  /\ phase = "exits"
  /\ LET closing == UNION {ToClose(t) : t \in {u \in DOMAIN open : HasBar(u)}}
         gone == {tr.ticker : tr \in closing}
     IN  /\ Book(closing)
         /\ open' = Restrict(open, {t \in DOMAIN open \ gone : HasBar(t)})
  /\ \E S \in SUBSET Tickers : todo' \in [S -> Candidates]
  /\ phase' = "entries"
  /\ UNCHANGED <<date, series, curve, maxDd>>
CheckExits ==
  /\ phase = "exits"
  /\ LET closing == UNION {ToClose(t) : t \in {u \in DOMAIN open : HasBar(u)}}
         gone == {tr.ticker : tr \in closing}
     IN  /\ Book(closing)
         /\ open' = Restrict(open, DOMAIN open \ gone)
  /\ \E S \in SUBSET Tickers : todo' \in [S -> Candidates]
  /\ phase' = "entries"
  /\ UNCHANGED <<date, series, curve, maxDd>>

------------------------------------------------------------------------------
(* Step 2, one candidate at a time in the order of the tickers.            *)
First == Min(DOMAIN todo)
Rest == todo' = Restrict(todo, DOMAIN todo \ {First})
Full == Cardinality(DOMAIN open) >= MaxPositions

(* compute_levels, at the last close the ticker has. *)
Levels(t) ==
  LET atr == Atr(t)
      entry == LastClose(t)
      stop == Stop(entry, atr)
  IN  [entry |-> entry, atr |-> atr, stop |-> stop, target |-> Target(entry, atr),
       qty |-> SizePosition(equity, entry, stop)]

Enterable(t, cand) ==
  /\ t \notin DOMAIN open
  /\ Enough(t) /\ Screened(t, cand)
  /\ LET lv == Levels(t)
     IN  lv.entry > 0 /\ lv.atr > 0 /\ EdgePasses(lv.entry, lv.target) /\ lv.qty > 0

PassOver ==
  /\ phase = "entries" /\ todo # <<>>
  /\ IF First \notin DOMAIN open /\ Full
       THEN todo' = [t \in {} |-> {}]                     \* break
       ELSE ~Enterable(First, todo[First]) /\ Rest
  /\ UNCHANGED <<date, series, phase, equity, open, trades, curve, maxDd>>

Enter ==
  /\ phase = "entries" /\ todo # <<>> /\ ~Full
  /\ Enterable(First, todo[First])
  /\ LET lv == Levels(First)
         bought == [entry |-> ApplySlippage(lv.entry, "buy"), stop |-> lv.stop,
                    target |-> lv.target, qty |-> lv.qty, entryDate |-> date]
     IN  open' = [t \in DOMAIN open \cup {First} |-> IF t = First THEN bought ELSE open[t]]
  /\ Rest
  /\ UNCHANGED <<date, series, phase, equity, trades, curve, maxDd>>

(* Step 3: a position without a bar today counts for nothing. *)
Gain(t) == (Today(t).close - open[t].entry) * open[t].qty
Mtm == equity + MapThenSumSet(Gain, {t \in DOMAIN open : HasBar(t)})
Peak == Max({InitialEquity, Mtm} \cup {curve[i] : i \in DOMAIN curve})

Mark ==
  /\ phase = "entries" /\ todo = <<>>
  /\ curve' = Append(curve, Mtm)
  /\ maxDd' = IF Peak > 0 THEN Max({maxDd, ((Peak - Mtm) * 1000) \div Peak}) ELSE maxDd
  /\ phase' = "between"
  /\ UNCHANGED <<date, series, todo, equity, open, trades>>

(* The window is over: what has a bar on its last date is sold at that     *)
(* close; the rest is dropped and no trade records it.                     *)
ForceClose ==
  /\ phase = "between" /\ date > 0
  /\ Book({Closed(t, Today(t).close, "end_of_backtest") :
             t \in {u \in DOMAIN open : HasBar(u)}})
  /\ open' = [t \in {} |-> {}]
  /\ phase' = "done"
  /\ UNCHANGED <<date, series, todo, curve, maxDd>>

(* _compute_metrics *)
Wins == {tr \in trades : tr.net > 0}
Metrics ==
  [n_trades |-> Cardinality(trades), n_wins |-> Cardinality(Wins),
   n_losses |-> Cardinality(trades \ Wins),
   profit |-> equity - InitialEquity, max_drawdown |-> maxDd]

Next == NextDate \/ CheckExits \/ PassOver \/ Enter \/ Mark \/ ForceClose

Spec == Init /\ [][Next]_vars
=============================================================================
