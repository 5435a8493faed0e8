--------------------------- MODULE BacktestProofs ---------------------------
(***************************************************************************)
(* Proofs about the replay: its accounts, its holding periods and the risk *)
(* of a trade, for any bars, tickers, candidates and parameters.           *)
(***************************************************************************)
EXTENDS BacktestSafety, SumLemmas, FiniteSetTheorems, TLAPS

Position == [entry : Nat, stop : Nat, target : Nat, qty : Nat, entryDate : Nat]

Trade ==
  [ticker : Tickers, entry : Nat, qty : Nat, entryDate : Nat, exitDate : Nat,
   stop : Nat, reason : {"stop", "target", "time_exit", "end_of_backtest"},
   daysHeld : Int, net : Int]

(* A ticker's bars are those of some of the days so far, oldest first. *)
SeriesInv ==
  /\ date \in Nat
  /\ series \in [Tickers -> Seq([date : Nat, bar : Bars])]
  /\ \A t \in Tickers : \A i \in DOMAIN series[t] :
       /\ series[t][i].date <= date
       /\ \A j \in DOMAIN series[t] : i < j => series[t][i].date < series[t][j].date

BookInv ==
  /\ phase \in {"between", "exits", "entries", "done"}
  /\ DOMAIN open \subseteq Tickers
  /\ \A t \in DOMAIN open : open[t] \in Position
  /\ IsFiniteSet(trades) /\ trades \subseteq Trade
  /\ equity = InitialEquity + MapThenSumSet(NetOf, trades)

(* When a position or a trade was entered and closed.  A ticker's trades   *)
(* are older than the position it has, so that a closing is a new trade.   *)
DatesInv ==
  /\ \A t \in DOMAIN open :
       /\ open[t].entryDate <= date
       /\ phase = "exits" => open[t].entryDate < date
  /\ \A tr \in trades :
       /\ tr.exitDate <= date
       /\ phase = "exits" => tr.exitDate < date
       /\ tr.exitDate > tr.entryDate \/ tr.reason = "end_of_backtest"
       /\ tr.reason = "end_of_backtest" => phase = "done"
       /\ tr.reason = "time_exit" => tr.daysHeld >= MinHoldDays
       /\ phase # "done" /\ tr.ticker \in DOMAIN open
            => tr.entryDate < open[tr.ticker].entryDate

YoungEnough(t) ==
  HasBar(t) => DaysHeld(t, open[t].entryDate) < Max({MaxHoldDays, MinHoldDays, 1})
YoungInv == phase = "entries" => \A t \in DOMAIN open : YoungEnough(t)

(* A position was bought at the close e of some bar, at a size whose loss  *)
(* down to the stop is within the risk and whose price is within the       *)
(* capital of one position.                                                *)
SizedAt(pos, e) ==
  /\ pos.entry = ApplySlippage(e, "buy") /\ pos.qty > 0 /\ pos.target >= e
  /\ 100 * (pos.qty * Distance(e, pos.stop)) <= RiskPct * EquityAt(pos.entryDate)
  /\ 100 * (pos.qty * e) <= MaxCapitalPct * EquityAt(pos.entryDate)

(* Once the day's exits are done no close of today is beyond the stop. *)
CloseHolds(t, e) ==
  phase \in {"entries", "between"} /\ HasBar(t)
    => e - Today(t).close <= Distance(e, open[t].stop)

Sized(t) == \E bar \in Bars : SizedAt(open[t], bar.close) /\ CloseHolds(t, bar.close)
SizeInv == \A t \in DOMAIN open : Sized(t)

CountInv == Cardinality(DOMAIN open) <= MaxPositions

ReplayInv ==
  /\ SeriesInv /\ BookInv /\ DatesInv /\ YoungInv /\ SizeInv /\ CountInv
  /\ LossWithinRisk

-----------------------------------------------------------------------------
(* The operators.                                                          *)

LEMMA DistanceIs ==
  ASSUME NEW a \in Int, NEW b \in Int
  PROVE  /\ Distance(a, b) = IF a >= b THEN a - b ELSE b - a
         /\ Distance(a, b) \in Nat /\ a - b <= Distance(a, b)
<1>1. Max({a - b, b - a}) = IF a - b >= b - a THEN a - b ELSE b - a
  BY LargerOfTwo
<1> QED
  BY <1>1 DEF Distance

(* What slippage takes from a price is a natural that grows with it, and   *)
(* not faster.                                                             *)
Slip(price) == (price * SlippageBps) \div 10000

LEMMA SlipGrows ==
  ASSUME NEW a \in Nat, NEW b \in Nat, a <= b
  PROVE  /\ Slip(a) \in Nat /\ Slip(b) \in Nat /\ Slip(a) <= Slip(b)
         /\ a - Slip(a) \in Nat /\ a - Slip(a) <= b - Slip(b)
BY DEF Slip, SlippageBps

(* Slippage raises what is paid and lowers what is got. *)
LEMMA SlippageIs ==
  ASSUME NEW price
  PROVE  /\ ApplySlippage(price, "buy") = price + Slip(price)
         /\ ApplySlippage(price, "sell") = price - Slip(price)
BY DEF ApplySlippage, Slip

(* The part of the fees that goes with the amount, and the part that does  *)
(* not.                                                                    *)
Fee(amount) == ((amount \div 1000) * 278) \div 10000
Levy(qty) == Min({(qty * 166) \div 1000, 8300})

LEMMA FeeGrows ==
  ASSUME NEW a \in Nat, NEW b \in Nat
  PROVE  /\ Fee(a) \in Nat
         /\ a <= b => Fee(a) <= Fee(b)
         /\ Fee(a + b) <= Fee(a) + b + 2
BY DEF Fee

(* The fees are the two parts together. *)
LEMMA FeesAre ==
  ASSUME NEW qty \in Nat, NEW price \in Nat
  PROVE  /\ SellFees(qty, price) = Fee(qty * price) + Levy(qty)
         /\ Levy(qty) \in Int
<1>1. (qty * 166) \div 1000 \in Int
  OBVIOUS
<1>2. Levy(qty) \in Int
  <2>1. PICK c \in Int : c = (qty * 166) \div 1000
    BY <1>1
  <2> QED
    BY <2>1, SmallerOfTwo DEF Levy
<1> QED
  BY <1>2 DEF SellFees, Fee, Levy

(* Multiplying by a natural keeps the order. *)
LEMMA TimesKeepsOrder ==
  ASSUME NEW a \in Int, NEW b \in Int, NEW q \in Nat, a <= b
  PROVE  q * a <= q * b
OBVIOUS

(* The loss of a position bought at the price e and sold at the price r,   *)
(* neither with slippage: no more than the distance d that r fell, beside  *)
(* the costs, which are counted at the entry even when r is above it.      *)
LEMMA LossOf ==
  ASSUME NEW e \in Nat, NEW r \in Nat, NEW q \in Nat, q > 0, NEW d \in Nat, e - r <= d,
         NEW en \in Nat, en = e + Slip(e), NEW x \in Nat, x = r - Slip(r)
  PROVE  -((x - en) * q - SellFees(q, x))
            <= q * d + 2 * q * (Slip(en) + 1) + SellFees(q, en)
<1>1. /\ Slip(e) \in Nat /\ Slip(en) \in Nat /\ Slip(r) \in Nat
      /\ Slip(e) <= Slip(en)
  BY SlipGrows
<1>2. PICK s \in Nat : s = Slip(en)
  BY <1>1
<1>3. en - x <= d + 2 * s
  <2>1. CASE r <= en
    <3>1. Slip(r) <= Slip(en)
      BY <2>1, SlipGrows
    <3> QED
      BY <1>1, <1>2, <3>1
  <2>2. CASE r > en
    <3>1. en - Slip(en) <= r - Slip(r)
      BY <2>2, SlipGrows
    <3> QED
      BY <1>1, <1>2, <3>1
  <2> QED
    BY <2>1, <2>2
<1>4. PICK lx \in Int : SellFees(q, x) = Fee(q * x) + lx /\ SellFees(q, en) = Fee(q * en) + lx
  BY FeesAre
<1>5. q * x \in Nat /\ q * en \in Nat
  OBVIOUS
<1>6. Fee(q * x) \in Nat /\ Fee(q * en) \in Nat
  BY <1>5, FeeGrows
<1>7. PICK fx \in Nat, fe \in Nat : fx = Fee(q * x) /\ fe = Fee(q * en)
  BY <1>6
<1>8. (en - x) * q + fx <= q * d + 2 * q * (s + 1) + fe
  <2>1. CASE x <= en
    <3>1. q * x <= q * en
      BY <2>1, TimesKeepsOrder
    <3>2. fx <= fe
      BY <1>5, <1>7, <3>1, FeeGrows
    <3>3. q * (en - x) <= q * (d + 2 * s)
      BY <1>3, TimesKeepsOrder
    <3>4. q * (d + 2 * s) <= q * d + 2 * q * (s + 1) /\ (en - x) * q = q * (en - x)
      OBVIOUS
    <3> QED
      BY <3>2, <3>3, <3>4
  <2>2. CASE x > en
    <3>1. PICK k \in Nat : k = q * (x - en)
      BY <2>2
    <3>2. q * x = q * en + k
      BY <3>1
    <3>3. fx <= fe + k + 2
      BY <1>5, <1>7, <3>1, <3>2, FeeGrows
    <3>4. (en - x) * q = -k
      BY <3>1
    <3>5. 2 <= q * d + 2 * q * (s + 1)
      <4>1. q * d \in Nat /\ q * s \in Nat
        OBVIOUS
      <4>2. 2 * q * (s + 1) = 2 * (q * s) + 2 * q
        OBVIOUS
      <4> QED
        BY <4>1, <4>2
    <3>6. PICK z \in Int : z = q * d + 2 * q * (s + 1)
      OBVIOUS
    <3> QED
      BY <3>3, <3>4, <3>5, <3>6
  <2> QED
    BY <2>1, <2>2
<1>9. PICK z \in Int : z = q * d + 2 * q * (s + 1)
  OBVIOUS
<1>10. PICK y \in Int : y = (en - x) * q /\ (x - en) * q = -y
  OBVIOUS
<1> QED
  BY <1>2, <1>4, <1>7, <1>8, <1>9, <1>10

-----------------------------------------------------------------------------
(* Sums over trades and over bars.                                         *)

(* The sum of what trades brought in is the sum of a function. *)
LEMMA SumOfNets ==
  ASSUME NEW S, IsFiniteSet(S)
  PROVE  MapThenSumSet(NetOf, S) = Total([tr \in S |-> tr.net], S)
<1> DEFINE f == [tr \in S |-> tr.net]
           Fits(g) == g = [s \in SUBSET S |->
                             IF s = {} THEN 0 ELSE NetOf(Pick(s)) + g[s \ {Pick(s)}]]
           h == CHOOSE g : Fits(g)
<1>1. MapThenSumSet(NetOf, S) = h[S]
  BY DEF MapThenSumSet, MapThenFoldSet, Pick
<1>2. \A s \in SUBSET S : s # {} => f[Pick(s)] = NetOf(Pick(s))
  BY PickIn DEF NetOf
<1> HIDE DEF f
<1>3. \A g : Fits(g) <=> Sums(g, f, S)
  BY <1>2 DEF Sums
<1>4. \E g : Sums(g, f, S)
  BY SumsExist
<1> HIDE DEF Fits
<1>5. Sums(h, f, S)
  BY <1>3, <1>4
<1> HIDE DEF h
<1>6. Total(f, S) = h[S]
  BY <1>5, TotalOf
<1> QED
  BY <1>1, <1>6 DEF f

(* What a set of trades brought in, and a disjoint one, adds up. *)
LEMMA NetsAddUp ==
  ASSUME NEW S, IsFiniteSet(S), NEW T, IsFiniteSet(T), S \cap T = {},
         \A tr \in S \cup T : tr.net \in Int
  PROVE  /\ MapThenSumSet(NetOf, S) \in Int /\ MapThenSumSet(NetOf, T) \in Int
         /\ MapThenSumSet(NetOf, S \cup T) = MapThenSumSet(NetOf, S) + MapThenSumSet(NetOf, T)
<1> DEFINE U == S \cup T
           f == [tr \in U |-> tr.net]
           fS == [tr \in S |-> tr.net]
           fT == [tr \in T |-> tr.net]
<1>1. IsFiniteSet(U)
  BY FS_Union
<1>2. /\ MapThenSumSet(NetOf, S) = Total(fS, S)
      /\ MapThenSumSet(NetOf, T) = Total(fT, T)
      /\ MapThenSumSet(NetOf, U) = Total(f, U)
  BY <1>1, SumOfNets
<1>3. \A tr \in U : f[tr] \in Int
  OBVIOUS
<1>4. (\A tr \in S : f[tr] = fS[tr]) /\ (\A tr \in T : f[tr] = fT[tr])
  OBVIOUS
<1> HIDE DEF f, fS, fT
<1>5. Total(f, S) = Total(fS, S) /\ Total(f, T) = Total(fT, T)
  BY <1>4, TotalSame
<1>6. Total(f, S) \in Int /\ Total(f, T) \in Int
  BY <1>3, TotalType
<1>7. Total(f, U) = Total(f, S) + Total(f, T)
  BY <1>3, TotalUnion
<1> QED
  BY <1>2, <1>5, <1>6, <1>7

(* No trades, nothing earned. *)
LEMMA NoNets == MapThenSumSet(NetOf, {}) = 0
<1>1. IsFiniteSet({})
  BY FS_EmptySet
<1>2. MapThenSumSet(NetOf, {}) = Total([tr \in {} |-> tr.net], {})
  BY <1>1, SumOfNets
<1> QED
  BY <1>2, TotalEmpty

(* The true range is a natural, and so is their average. *)
LEMMA TrueRangeType ==
  ASSUME NEW bar \in Bars, NEW prev \in Nat
  PROVE  TrueRange(bar, prev) \in Nat
<1>1. bar.high \in Nat /\ bar.low \in Nat /\ bar.high - bar.low \in Nat
  BY EngineAssumption
<1>2. PICK a \in Nat : a = bar.high - bar.low
  BY <1>1
<1>3. PICK b \in Nat : b = Distance(bar.high, prev)
  <2>1. PICK hi \in Nat : hi = bar.high
    BY <1>1
  <2>2. Distance(hi, prev) \in Nat
    BY DistanceIs
  <2> QED
    BY <2>1, <2>2
<1>4. PICK c \in Nat : c = Distance(bar.low, prev)
  <2>1. PICK lo \in Nat : lo = bar.low
    BY <1>1
  <2>2. Distance(lo, prev) \in Nat
    BY DistanceIs
  <2> QED
    BY <2>1, <2>2
<1>5. Max({a, b, c}) \in {a, b, c}
  <2>1. \A x \in {a, b, c} : x <= a + b + c
    OBVIOUS
  <2> QED
    BY <2>1, LargestNat
<1>6. TrueRange(bar, prev) = Max({a, b, c})
  BY <1>2, <1>3, <1>4 DEF TrueRange
<1> QED
  BY <1>5, <1>6

(* The bars of a ticker are bars, its dates naturals. *)
LEMMA BarsOf ==
  ASSUME SeriesInv, NEW t \in Tickers
  PROVE  /\ Len(series[t]) \in Nat /\ DOMAIN series[t] = 1 .. Len(series[t])
         /\ \A i \in 1 .. Len(series[t]) :
              series[t][i].date \in Nat /\ series[t][i].bar \in Bars
<1> DEFINE Dated == [date : Nat, bar : Bars]
<1>1. series[t] \in Seq(Dated)
  BY DEF SeriesInv
<1> HIDE DEF Dated
<1>2. Len(series[t]) \in Nat /\ DOMAIN series[t] = 1 .. Len(series[t])
  BY <1>1
<1>3. \A i \in 1 .. Len(series[t]) : series[t][i] \in Dated
  BY <1>1
<1> QED
  BY <1>2, <1>3 DEF Dated

(* The average true range is a natural. *)
LEMMA AtrType ==
  ASSUME SeriesInv, NEW t \in Tickers, Enough(t)
  PROVE  Atr(t) \in Nat
<1> DEFINE n == Len(series[t])
           S == (n - AtrPeriod + 1) .. n
           f == [i \in S |-> TrueRange(series[t][i].bar, series[t][i - 1].bar.close)]
           Fits(g) ==
             g = [s \in SUBSET S |->
                    IF s = {} THEN 0
                    ELSE TrueRange(series[t][Pick(s)].bar, series[t][Pick(s) - 1].bar.close)
                           + g[s \ {Pick(s)}]]
           h == CHOOSE g : Fits(g)
<1>1. AtrPeriod \in Nat \ {0} /\ n \in Nat /\ n >= AtrPeriod + 1
  BY EngineAssumption DEF SeriesInv, Enough
<1>2. Atr(t) = h[S] \div AtrPeriod
  BY DEF Atr, MapThenSumSet, MapThenFoldSet, Pick
<1>3. \A i \in S : f[i] \in Nat
  <2> SUFFICES ASSUME NEW i \in S PROVE f[i] \in Nat
    OBVIOUS
  <2>1. i \in 1 .. n /\ i - 1 \in 1 .. n
    BY <1>1
  <2>2. series[t][i].bar \in Bars /\ series[t][i - 1].bar \in Bars
    BY <2>1, BarsOf
  <2>3. series[t][i - 1].bar.close \in Nat
    BY <2>2, EngineAssumption
  <2> QED
    BY <2>2, <2>3, TrueRangeType
<1>4. IsFiniteSet(S)
  <2>1. S \subseteq 1 .. n
    BY <1>1
  <2>2. IsFiniteSet(1 .. n)
    BY <1>1, UpTo
  <2> HIDE DEF S, n
  <2> QED
    BY <2>1, <2>2, FS_Subset
<1>5. \A s \in SUBSET S : s # {} =>
        f[Pick(s)] = TrueRange(series[t][Pick(s)].bar, series[t][Pick(s) - 1].bar.close)
  BY PickIn
<1> HIDE DEF f, S
<1>6. \A g : Fits(g) <=> Sums(g, f, S)
  BY <1>5 DEF Sums
<1>7. \E g : Sums(g, f, S)
  BY <1>4, SumsExist
<1> HIDE DEF Fits
<1>8. Sums(h, f, S)
  BY <1>6, <1>7
<1> HIDE DEF h
<1>9. Total(f, S) = h[S]
  BY <1>4, <1>8, TotalOf
<1>10. Total(f, S) \in Int /\ Total(f, S) >= 0
  BY <1>3, <1>4, TotalType
<1>11. PICK k \in Nat : k = h[S]
  BY <1>9, <1>10
<1>12. k \div AtrPeriod \in Nat
  BY <1>1
<1> QED
  BY <1>2, <1>11, <1>12

-----------------------------------------------------------------------------
(* A day's bar, and the days a position was held.                          *)

LEMMA TodayType ==
  ASSUME SeriesInv, NEW t \in Tickers, series[t] # <<>>
  PROVE  /\ Today(t) \in Bars /\ LastClose(t) = Today(t).close
         /\ Today(t).low \in Nat /\ Today(t).close \in Nat
         /\ Today(t).low <= Today(t).close
<1>1. Len(series[t]) \in 1 .. Len(series[t])
  <2>1. series[t] \in Seq([date : Nat, bar : Bars])
    BY DEF SeriesInv
  <2>2. Len(series[t]) \in Nat /\ Len(series[t]) # 0
    BY <2>1
  <2> QED
    BY <2>2
<1>2. Today(t) \in Bars /\ LastClose(t) = Today(t).close
  BY <1>1, BarsOf DEF Today, LastClose
<1> QED
  BY <1>2, EngineAssumption

(* Days held are a number, and not positive on the entry date. *)
LEMMA HeldType ==
  ASSUME SeriesInv, NEW t \in Tickers, NEW d \in Nat
  PROVE  DaysHeld(t, d) \in Int /\ (d = date => DaysHeld(t, d) <= 0)
<1> DEFINE n == Len(series[t])
           S == {i \in DOMAIN series[t] : series[t][i].date >= d}
<1>1. n \in Nat /\ DOMAIN series[t] = 1 .. n
  BY BarsOf
<1>2. IsFiniteSet(S)
  <2>1. IsFiniteSet(1 .. n)
    BY <1>1, UpTo
  <2> QED
    BY <1>1, <2>1, FS_Subset
<1>3. Cardinality(S) \in Nat
  BY <1>2, FS_CardinalityType
<1>4. ASSUME d = date PROVE Cardinality(S) <= 1
  <2>1. S \subseteq {n}
    <3> SUFFICES ASSUME NEW i \in S, i # n PROVE FALSE
      OBVIOUS
    <3>1. i \in DOMAIN series[t] /\ n \in DOMAIN series[t] /\ i < n
      BY <1>1
    <3>2. series[t][i].date < series[t][n].date /\ series[t][n].date <= date
      BY <3>1 DEF SeriesInv
    <3>3. series[t][i].date \in Nat /\ series[t][n].date \in Nat /\ date \in Nat
      BY <1>1, <3>1, BarsOf DEF SeriesInv
    <3>4. series[t][i].date >= date
      BY <1>4
    <3> QED
      BY <3>2, <3>3, <3>4
  <2>2. IsFiniteSet({n}) /\ Cardinality({n}) = 1
    BY FS_Singleton
  <2>3. Cardinality(S) <= Cardinality({n})
    <3> HIDE DEF S
    <3> QED
      BY <2>1, <2>2, FS_Subset
  <2> QED
    BY <2>2, <2>3
<1>5. DaysHeld(t, d) = Cardinality(S) - 1
  BY DEF DaysHeld
<1> HIDE DEF S
<1> QED
  BY <1>3, <1>4, <1>5

-----------------------------------------------------------------------------
(* Closing a position.                                                     *)

Reasons == {"stop", "target", "time_exit", "end_of_backtest"}

LossBounded(tr) ==
  -tr.net * 100 <= RiskPct * EquityAt(tr.entryDate) + 100 * Costs(tr)

(* c is the trade that closes the position in t today. *)
Closing(c, t) ==
  /\ t \in DOMAIN open /\ c \in Trade
  /\ c.ticker = t /\ c.qty = open[t].qty
  /\ c.entryDate = open[t].entryDate /\ c.exitDate = date
  /\ c.daysHeld = DaysHeld(t, c.entryDate)
  /\ LossBounded(c)

(* What a share is sold and bought for. *)
LEMMA SellPrice ==
  ASSUME NEW r \in Nat
  PROVE  ApplySlippage(r, "sell") \in Nat /\ ApplySlippage(r, "sell") = r - Slip(r)
BY SlipGrows, SlippageIs

LEMMA BuyPrice ==
  ASSUME NEW e \in Nat
  PROVE  ApplySlippage(e, "buy") \in Nat /\ ApplySlippage(e, "buy") = e + Slip(e)
BY SlipGrows, SlippageIs

(* Fees are a number. *)
LEMMA FeesType ==
  ASSUME NEW q \in Nat, NEW x \in Nat
  PROVE  SellFees(q, x) \in Int
<1>1. q * x \in Nat
  OBVIOUS
<1>2. Fee(q * x) \in Nat
  BY <1>1, FeeGrows
<1> QED
  BY <1>2, FeesAre

(* Whatever the bars did, a sale no further below the price e of the entry *)
(* than its stop loses no more than was risked, beside the costs.          *)
LEMMA ClosingIs ==
  ASSUME SeriesInv, BookInv, NEW t \in DOMAIN open, NEW raw \in Nat, NEW why \in Reasons,
         NEW e \in Nat, SizedAt(open[t], e), e - raw <= Distance(e, open[t].stop),
         NEW c, c = Closed(t, raw, why),
         \A d \in Nat : EquityAt(d) \in Int
  PROVE  Closing(c, t) /\ c.reason = why
<1>1. PICK pos : pos = open[t]
  OBVIOUS
<1>2. /\ pos \in Position /\ t \in Tickers
      /\ pos.entry \in Nat /\ pos.stop \in Nat /\ pos.qty \in Nat /\ pos.entryDate \in Nat
  BY <1>1 DEF BookInv, Position
<1>3. PICK x \in Nat : x = ApplySlippage(raw, "sell") /\ x = raw - Slip(raw)
  BY SellPrice
<1>4. PICK en \in Nat, q \in Nat, stop \in Nat, d0 \in Nat :
        en = pos.entry /\ q = pos.qty /\ stop = pos.stop /\ d0 = pos.entryDate
  BY <1>2
<1>5. en = e + Slip(e)
  BY <1>1, <1>4, BuyPrice DEF SizedAt
<1>6. PICK held \in Int : held = DaysHeld(t, d0)
  BY <1>2, HeldType
<1>7. PICK net \in Int : net = (x - en) * q - SellFees(q, x)
  <2>1. PICK fees \in Int : fees = SellFees(q, x)
    BY FeesType
  <2>2. (x - en) * q - fees \in Int
    OBVIOUS
  <2> QED
    BY <2>1, <2>2
<1>8. c = [ticker |-> t, entry |-> en, qty |-> q, entryDate |-> d0, exitDate |-> date,
           stop |-> stop, reason |-> why, daysHeld |-> held, net |-> net]
  BY <1>1, <1>3, <1>4, <1>6, <1>7 DEF Closed
<1>9. date \in Nat
  BY DEF SeriesInv
<1>10. c \in Trade /\ c.reason = why
  BY <1>2, <1>8, <1>9 DEF Trade, Reasons
<1>11. LossBounded(c)
  <2>1. PICK dist \in Nat : dist = Distance(e, stop)
    BY DistanceIs
  <2>2. e - raw <= dist
    BY <1>1, <1>4, <2>1
  <2>3. q > 0
    BY <1>1, <1>4 DEF SizedAt
  <2>4. PICK s \in Nat : s = Slip(en)
    BY SlipGrows
  <2>5. PICK costs \in Int : costs = 2 * q * (s + 1) + SellFees(q, en)
    <3>1. PICK fees \in Int : fees = SellFees(q, en)
      BY FeesType
    <3>2. 2 * q * (s + 1) + fees \in Int
      OBVIOUS
    <3> QED
      BY <3>1, <3>2
  <2>6. -net <= q * dist + costs
    <3>1. -((x - en) * q - SellFees(q, x))
             <= q * dist + 2 * q * (Slip(en) + 1) + SellFees(q, en)
      BY <1>3, <1>5, <2>2, <2>3, LossOf
    <3>2. PICK fees \in Int : fees = SellFees(q, en)
      BY FeesType
    <3>3. PICK k \in Int : k = 2 * q * (s + 1)
      OBVIOUS
    <3>4. PICK z \in Int : z = q * dist
      OBVIOUS
    <3>5. -net <= z + k + fees
      BY <1>7, <2>4, <3>1, <3>2, <3>3, <3>4
    <3> QED
      BY <2>5, <3>2, <3>3, <3>4, <3>5
  <2>7. PICK risked \in Int : risked = RiskPct * EquityAt(d0)
    <3>1. PICK cash \in Int : cash = EquityAt(d0)
      OBVIOUS
    <3>2. RiskPct * cash \in Int
      BY EngineAssumption
    <3> QED
      BY <3>1, <3>2
  <2>8. 100 * (q * dist) <= risked
    BY <1>1, <1>4, <2>1, <2>7 DEF SizedAt
  <2>9. PICK z \in Int : z = q * dist
    OBVIOUS
  <2>10. -net * 100 <= risked + 100 * costs
    BY <2>6, <2>8, <2>9
  <2>11. c.net = net /\ c.entryDate = d0 /\ c.qty = q /\ c.entry = en
    BY <1>8
  <2>12. Costs(c) = costs
    BY <2>4, <2>5, <2>11 DEF Costs, Slip
  <2> QED
    BY <2>7, <2>10, <2>11, <2>12 DEF LossBounded
<1> QED
  BY <1>1, <1>4, <1>6, <1>8, <1>10, <1>11 DEF Closing

(* So is the equity, today's and any day's. *)
LEMMA EquityAtType ==
  ASSUME BookInv
  PROVE  (\A d \in Nat : EquityAt(d) \in Int) /\ equity \in Int
<1>1. ASSUME NEW S \in SUBSET trades PROVE MapThenSumSet(NetOf, S) \in Int
  <2>1. IsFiniteSet(S) /\ IsFiniteSet({})
    BY FS_Subset, FS_EmptySet DEF BookInv
  <2>2. \A tr \in S \cup {} : tr.net \in Int
    BY DEF BookInv, Trade
  <2> QED
    BY <2>1, <2>2, NetsAddUp
<1>2. ASSUME NEW d \in Nat PROVE EquityAt(d) \in Int
  <2> DEFINE S == {tr \in trades : tr.exitDate <= d /\ tr.reason # "end_of_backtest"}
  <2>1. MapThenSumSet(NetOf, S) \in Int
    BY <1>1
  <2>2. EquityAt(d) = InitialEquity + MapThenSumSet(NetOf, S)
    BY DEF EquityAt
  <2> HIDE DEF S
  <2> QED
    BY <2>1, <2>2, EngineAssumption
<1>3. MapThenSumSet(NetOf, trades) \in Int
  BY <1>1
<1>4. equity \in Int
  BY <1>3, EngineAssumption DEF BookInv
<1> QED
  BY <1>2, <1>4

(* What the day's entries are sized with is the equity of their date. *)
LEMMA EquityNow ==
  ASSUME BookInv, DatesInv, phase = "entries"
  PROVE  EquityAt(date) = equity
<1>1. {tr \in trades : tr.exitDate <= date /\ tr.reason # "end_of_backtest"} = trades
  BY DEF DatesInv
<1> QED
  BY <1>1 DEF EquityAt, BookInv

(* The price an open position was sized at. *)
LEMMA SizedPositions ==
  ASSUME SeriesInv, BookInv, NEW t \in DOMAIN open, Sized(t)
  PROVE  \E e \in Nat : SizedAt(open[t], e) /\ CloseHolds(t, e) /\
           e <= open[t].target /\ open[t].stop \in Nat /\ open[t].target \in Nat
<1>1. PICK bar \in Bars : SizedAt(open[t], bar.close) /\ CloseHolds(t, bar.close)
  BY DEF Sized
<1>2. bar.close \in Nat
  BY EngineAssumption
<1>3. open[t].stop \in Nat /\ open[t].target \in Nat
  BY DEF BookInv, Position
<1>4. bar.close <= open[t].target
  BY <1>1, <1>2, <1>3 DEF SizedAt
<1> QED
  BY <1>1, <1>2, <1>3, <1>4

(* Above the stop the close is above it too. *)
LEMMA CloseAboveStop ==
  ASSUME SeriesInv, BookInv, NEW t \in DOMAIN open, series[t] # <<>>, ~StopHit(t), NEW e \in Nat
  PROVE  e - Today(t).close <= Distance(e, open[t].stop)
<1>1. t \in Tickers
  BY DEF BookInv
<1>2. PICK lo \in Nat, cl \in Nat : lo = Today(t).low /\ cl = Today(t).close /\ lo <= cl
  BY <1>1, TodayType
<1>3. PICK s \in Nat : s = open[t].stop
  BY DEF BookInv, Position
<1>4. lo > s
  BY <1>2, <1>3 DEF StopHit
<1>5. PICK d \in Nat : d = Distance(e, s) /\ e - s <= d
  <2>1. Distance(e, s) \in Nat /\ e - s <= Distance(e, s)
    BY DistanceIs
  <2> QED
    BY <2>1
<1>6. e - cl <= d
  BY <1>2, <1>4, <1>5
<1> QED
  BY <1>2, <1>3, <1>5, <1>6

(* The day's exits, and the sales at the end of the window. *)
LEMMA ExitIs ==
  ASSUME SeriesInv, BookInv, NEW t \in DOMAIN open, Sized(t), HasBar(t), NEW c \in ToClose(t)
  PROVE  /\ Closing(c, t) /\ c.reason # "end_of_backtest"
         /\ c.reason = "time_exit" => c.daysHeld >= MinHoldDays
<1>1. PICK e \in Nat : SizedAt(open[t], e) /\ e <= open[t].target
                         /\ open[t].stop \in Nat /\ open[t].target \in Nat
  BY SizedPositions
<1>2. \A d \in Nat : EquityAt(d) \in Int
  BY EquityAtType
<1>3. t \in Tickers /\ series[t] # <<>>
  BY DEF BookInv, HasBar
<1>4. PICK s \in Nat, g \in Nat : s = open[t].stop /\ g = open[t].target
  BY <1>1
<1>5. e - s <= Distance(e, s) /\ Distance(e, s) \in Nat
  BY DistanceIs
<1>6. CASE StopHit(t)
  <2>1. c = Closed(t, s, "stop")
    BY <1>4, <1>6 DEF ToClose
  <2>2. Closing(c, t) /\ c.reason = "stop"
    BY <1>1, <1>2, <1>4, <1>5, <2>1, ClosingIs DEF Reasons
  <2> QED
    BY <2>2
<1>7. CASE ~StopHit(t) /\ TargetHit(t)
  <2>1. c = Closed(t, g, "target")
    BY <1>4, <1>7 DEF ToClose
  <2>2. e - g <= Distance(e, s)
    BY <1>1, <1>4, <1>5
  <2>3. Closing(c, t) /\ c.reason = "target"
    BY <1>1, <1>2, <1>4, <2>1, <2>2, ClosingIs DEF Reasons
  <2> QED
    BY <2>3
<1>8. CASE ~StopHit(t) /\ ~TargetHit(t)
  <2>1. TimeExit(t) /\ c = Closed(t, Today(t).close, "time_exit")
    BY <1>8 DEF ToClose
  <2>2. PICK cl \in Nat : cl = Today(t).close
    BY <1>3, TodayType
  <2>3. e - cl <= Distance(e, open[t].stop)
    BY <1>3, <1>8, <2>2, CloseAboveStop
  <2>4. Closing(c, t) /\ c.reason = "time_exit"
    BY <1>1, <1>2, <2>1, <2>2, <2>3, ClosingIs DEF Reasons
  <2>5. DaysHeld(t, open[t].entryDate) >= MinHoldDays
    BY <2>1 DEF TimeExit
  <2> QED
    BY <2>4, <2>5 DEF Closing
<1> QED
  BY <1>6, <1>7, <1>8

(* A position sold at the end of the window is closed as any other. *)
LEMMA ForcedIs ==
  ASSUME SeriesInv, BookInv, NEW t \in DOMAIN open, Sized(t), HasBar(t), phase = "between",
         NEW c, c = Closed(t, Today(t).close, "end_of_backtest")
  PROVE  Closing(c, t) /\ c.reason = "end_of_backtest"
<1>1. PICK e \in Nat : SizedAt(open[t], e) /\ CloseHolds(t, e)
  BY SizedPositions
<1>2. \A d \in Nat : EquityAt(d) \in Int
  BY EquityAtType
<1>3. t \in Tickers /\ series[t] # <<>>
  BY DEF BookInv, HasBar
<1>4. PICK cl \in Nat : cl = Today(t).close
  BY <1>3, TodayType
<1>5. e - cl <= Distance(e, open[t].stop)
  BY <1>1, <1>4 DEF CloseHolds
<1> QED
  BY <1>1, <1>2, <1>4, <1>5, ClosingIs DEF Reasons

-----------------------------------------------------------------------------
(* The accounts.                                                           *)

(* What is closed is new among the trades, so that the equity is still     *)
(* what all of them brought in.                                            *)
LEMMA BookStep ==
  ASSUME BookInv, DatesInv, phase # "done",
         NEW closing, IsFiniteSet(closing),
         \A c \in closing : \E t \in DOMAIN open : Closing(c, t),
         Book(closing)
  PROVE  /\ trades' = trades \cup closing /\ trades' \ trades = closing
         /\ IsFiniteSet(trades') /\ trades' \subseteq Trade
         /\ equity' = InitialEquity + MapThenSumSet(NetOf, trades')
         /\ equity' = equity + MapThenSumSet(NetOf, closing)
<1>1. trades' = trades \cup closing /\ equity' = equity + MapThenSumSet(NetOf, closing)
  BY DEF Book
<1>2. ASSUME NEW c \in closing, c \in trades PROVE FALSE
  <2>1. PICK t \in DOMAIN open : Closing(c, t)
    OBVIOUS
  <2>2. c.ticker = t /\ c.entryDate = open[t].entryDate /\ c.entryDate \in Nat
    BY <2>1 DEF Closing, Trade
  <2>3. c.entryDate < open[c.ticker].entryDate
    BY <1>2, <2>2 DEF DatesInv
  <2> QED
    BY <2>2, <2>3
<1>3. trades \cap closing = {} /\ (trades \cup closing) \ trades = closing
  BY <1>2
<1>4. trades \cup closing \subseteq Trade
  BY DEF Closing, BookInv
<1>5. IsFiniteSet(trades) /\ IsFiniteSet(trades \cup closing)
  BY FS_Union DEF BookInv
<1>6. \A tr \in trades \cup closing : tr.net \in Int
  BY <1>4 DEF Trade
<1>7. /\ MapThenSumSet(NetOf, trades) \in Int /\ MapThenSumSet(NetOf, closing) \in Int
      /\ MapThenSumSet(NetOf, trades \cup closing)
           = MapThenSumSet(NetOf, trades) + MapThenSumSet(NetOf, closing)
  BY <1>3, <1>5, <1>6, NetsAddUp
<1>8. PICK a \in Int, b \in Int : a = MapThenSumSet(NetOf, trades) /\ b = MapThenSumSet(NetOf, closing)
  BY <1>7
<1>9. equity + b = InitialEquity + (a + b)
  BY <1>8, EngineAssumption DEF BookInv
<1>10. MapThenSumSet(NetOf, trades') = a + b
  BY <1>1, <1>7, <1>8
<1> QED
  BY <1>1, <1>3, <1>4, <1>5, <1>8, <1>9, <1>10

(* Equity is not rewritten: what is closed later, or after the last day,   *)
(* does not count at an earlier date.                                      *)
LEMMA EquityAtKept ==
  ASSUME NEW closing, trades' = trades \cup closing, NEW d \in Nat,
         \A c \in closing : ~(c.exitDate <= d) \/ c.reason = "end_of_backtest"
  PROVE  EquityAt(d)' = EquityAt(d)
<1>1. {tr \in trades' : tr.exitDate <= d /\ tr.reason # "end_of_backtest"}
        = {tr \in trades : tr.exitDate <= d /\ tr.reason # "end_of_backtest"}
  OBVIOUS
<1> QED
  BY <1>1 DEF EquityAt

(* The losses stay within what was risked when the equities they are       *)
(* measured by stay.                                                       *)
LEMMA LossStep ==
  ASSUME LossWithinRisk, NEW closing, trades' = trades \cup closing,
         \A tr \in trades \cup closing :
           tr.entryDate \in Nat /\ EquityAt(tr.entryDate)' = EquityAt(tr.entryDate),
         \A c \in closing : LossBounded(c)
  PROVE  LossWithinRisk'
<1>1. \A tr \in trades' : LossBounded(tr)
  BY DEF LossWithinRisk, LossBounded
<1>2. ASSUME NEW tr \in trades \cup closing, LossBounded(tr) PROVE LossBounded(tr)'
  BY <1>2 DEF LossBounded, Costs
<1>3. ASSUME NEW tr \in trades' PROVE LossBounded(tr)'
  BY <1>1, <1>2
<1> QED
  BY <1>3 DEF LossWithinRisk, LossBounded

-----------------------------------------------------------------------------
(* What the two closing steps do.                                          *)

LEMMA ExitsAre ==
  ASSUME SeriesInv, BookInv, SizeInv, CheckExits
  PROVE  \E closing :
           /\ IsFiniteSet(closing) /\ Book(closing)
           /\ open' = [t \in DOMAIN open \ {tr.ticker : tr \in closing} |-> open[t]]
           /\ \A c \in closing :
                /\ \E t \in DOMAIN open : Closing(c, t)
                /\ c.reason # "end_of_backtest"
                /\ c.reason = "time_exit" => c.daysHeld >= MinHoldDays
           /\ \A t \in DOMAIN open \ {tr.ticker : tr \in closing} :
                HasBar(t) => ToClose(t) = {}
<1>1. PICK closing : /\ closing = UNION {ToClose(t) : t \in {u \in DOMAIN open : HasBar(u)}}
                     /\ Book(closing)
                     /\ open' = Restrict(open, DOMAIN open \ {tr.ticker : tr \in closing})
  BY DEF CheckExits
<1>2. ASSUME NEW c \in closing
      PROVE  \E t \in DOMAIN open : HasBar(t) /\ c \in ToClose(t)
  BY <1>1
<1>3. ASSUME NEW c \in closing
      PROVE  /\ \E t \in DOMAIN open : Closing(c, t)
             /\ c.reason # "end_of_backtest"
             /\ c.reason = "time_exit" => c.daysHeld >= MinHoldDays
  <2>1. PICK t \in DOMAIN open : HasBar(t) /\ c \in ToClose(t)
    BY <1>2
  <2>2. Sized(t)
    BY DEF SizeInv
  <2>3. /\ Closing(c, t) /\ c.reason # "end_of_backtest"
        /\ c.reason = "time_exit" => c.daysHeld >= MinHoldDays
    BY <2>1, <2>2, ExitIs
  <2> QED
    BY <2>3
<1>4. IsFiniteSet(closing)
  <2> DEFINE g == [t \in DOMAIN open |-> CHOOSE c : c \in ToClose(t)]
  <2>1. IsFiniteSet(DOMAIN open)
    BY EngineAssumption, FS_Subset DEF BookInv
  <2>2. IsFiniteSet({g[t] : t \in DOMAIN open})
    <3> HIDE DEF g
    <3> QED
      BY <2>1, FiniteRange
  <2>3. \A t \in DOMAIN open : \A c, d \in ToClose(t) : c = d
    BY DEF ToClose
  <2>4. \A t \in DOMAIN open : \A c \in ToClose(t) : c = g[t]
    BY <2>3
  <2>5. closing \subseteq {g[t] : t \in DOMAIN open}
    <3> HIDE DEF g
    <3> QED
      BY <1>2, <2>4
  <2> HIDE DEF g
  <2> QED
    BY <2>2, <2>5, FS_Subset
<1>5. ASSUME NEW t \in DOMAIN open \ {tr.ticker : tr \in closing}, HasBar(t)
      PROVE  ToClose(t) = {}
  <2>1. SUFFICES ASSUME NEW c \in ToClose(t) PROVE FALSE
    OBVIOUS
  <2>2. c \in closing
    BY <1>1, <1>5
  <2>3. Closing(c, t)
    <3>1. Sized(t)
      BY DEF SizeInv
    <3> QED
      BY <1>5, <3>1, ExitIs
  <2> QED
    BY <2>2, <2>3 DEF Closing
<1>6. open' = [t \in DOMAIN open \ {tr.ticker : tr \in closing} |-> open[t]]
  BY <1>1 DEF Restrict
<1> QED
  BY <1>1, <1>3, <1>4, <1>5, <1>6

(* The end of the window closes every position that has a bar today. *)
LEMMA ForcedAre ==
  ASSUME SeriesInv, BookInv, SizeInv, ForceClose
  PROVE  \E closing :
           /\ IsFiniteSet(closing) /\ Book(closing)
           /\ \A c \in closing :
                (\E t \in DOMAIN open : Closing(c, t)) /\ c.reason = "end_of_backtest"
           /\ \A t \in DOMAIN open : HasBar(t) => \E c \in closing : c.ticker = t
<1> DEFINE sold(t) == Closed(t, Today(t).close, "end_of_backtest")
           closing == {sold(t) : t \in {u \in DOMAIN open : HasBar(u)}}
<1>1. Book(closing) /\ phase = "between"
  BY DEF ForceClose
<1>2. ASSUME NEW t \in DOMAIN open, HasBar(t)
      PROVE  Closing(sold(t), t) /\ sold(t).reason = "end_of_backtest"
  <2>1. PICK c : c = sold(t)
    OBVIOUS
  <2>2. Sized(t)
    BY DEF SizeInv
  <2> QED
    BY <1>1, <1>2, <2>1, <2>2, ForcedIs
<1>3. IsFiniteSet(closing)
  <2> DEFINE g == [t \in DOMAIN open |-> sold(t)]
  <2>1. IsFiniteSet(DOMAIN open)
    BY EngineAssumption, FS_Subset DEF BookInv
  <2>2. closing \subseteq {g[t] : t \in DOMAIN open}
    OBVIOUS
  <2>3. IsFiniteSet({g[t] : t \in DOMAIN open})
    <3> HIDE DEF g
    <3> QED
      BY <2>1, FiniteRange
  <2> HIDE DEF g, closing
  <2> QED
    BY <2>2, <2>3, FS_Subset
<1> HIDE DEF sold
<1>4. \A c \in closing :
        (\E t \in DOMAIN open : Closing(c, t)) /\ c.reason = "end_of_backtest"
  BY <1>2
<1>5. \A t \in DOMAIN open : HasBar(t) => \E c \in closing : c.ticker = t
  <2> SUFFICES ASSUME NEW t \in DOMAIN open, HasBar(t) PROVE \E c \in closing : c.ticker = t
    OBVIOUS
  <2>1. sold(t) \in closing /\ sold(t).ticker = t
    BY <1>2 DEF Closing
  <2> QED
    BY <2>1
<1> HIDE DEF closing
<1> QED
  BY <1>1, <1>3, <1>4, <1>5

(* n times a share of the cash, rounded down, is within that share. *)
LEMMA ShareOf ==
  ASSUME NEW cash \in Int, NEW pct \in Nat, NEW d \in Nat, d > 0, NEW q \in Int,
         q <= ((cash * pct) \div 100) \div d
  PROVE  100 * (q * d) <= pct * cash
<1>1. PICK m \in Int : m = (cash * pct) \div 100
  OBVIOUS
<1>2. PICK r \in Int : r = m \div d
  OBVIOUS
<1>3. q * d <= r * d
  BY <1>1, <1>2
<1>4. r * d <= m
  BY <1>2
<1>5. 100 * m <= pct * cash
  BY <1>1
<1>6. PICK z \in Int, w \in Int, v \in Int : z = q * d /\ w = r * d /\ v = pct * cash
  OBVIOUS
<1>7. 100 * z <= v
  BY <1>3, <1>4, <1>5, <1>6
<1> QED
  BY <1>6, <1>7

(* The size a position gets risks no more than RiskPct of the cash and     *)
(* costs no more than MaxCapitalPct of it.                                 *)
LEMMA SizeIs ==
  ASSUME NEW cash \in Int, NEW e \in Nat, e > 0, NEW stop \in Nat,
         SizePosition(cash, e, stop) > 0
  PROVE  /\ SizePosition(cash, e, stop) \in Nat
         /\ 100 * (SizePosition(cash, e, stop) * Distance(e, stop)) <= RiskPct * cash
         /\ 100 * (SizePosition(cash, e, stop) * e) <= MaxCapitalPct * cash
<1>1. e # stop
  BY DEF SizePosition
<1>2. PICK d \in Nat : d = Distance(e, stop) /\ d > 0
  <2>1. Distance(e, stop) = IF e >= stop THEN e - stop ELSE stop - e
    BY DistanceIs
  <2> QED
    BY <1>1, <2>1
<1>3. PICK risk \in Nat, cap \in Nat : risk = RiskPct /\ cap = MaxCapitalPct
  BY EngineAssumption
<1>4. PICK r \in Int : r = ((cash * risk) \div 100) \div d
  BY <1>2
<1>5. PICK k \in Int : k = ((cash * cap) \div 100) \div e
  OBVIOUS
<1>6. SizePosition(cash, e, stop) = Min({r, k})
  BY <1>1, <1>2, <1>3, <1>4, <1>5 DEF SizePosition, ByRisk, ByCapital
<1>7. PICK q \in Int : q = Min({r, k}) /\ q <= r /\ q <= k
  <2>1. Min({r, k}) = IF r <= k THEN r ELSE k
    BY SmallerOfTwo
  <2> QED
    BY <2>1
<1>8. 100 * (q * d) <= risk * cash
  BY <1>2, <1>4, <1>7, ShareOf
<1>9. 100 * (q * e) <= cap * cash
  BY <1>5, <1>7, ShareOf
<1>10. SizePosition(cash, e, stop) = q /\ q > 0
  BY <1>6, <1>7
<1> HIDE DEF SizePosition, Distance
<1> QED
  BY <1>2, <1>3, <1>8, <1>9, <1>10

(* The levels of an enterable candidate, and the risk of its size. *)
LEMMA LevelsAre ==
  ASSUME SeriesInv, BookInv, NEW t \in Tickers, NEW cand, Enterable(t, cand)
  PROVE  LET lv == Levels(t)
         IN  /\ series[t] # <<>> /\ lv.entry = Today(t).close /\ lv.entry \in Nat
             /\ lv.stop \in Nat /\ lv.target \in Nat /\ lv.target >= lv.entry
             /\ lv.qty \in Nat /\ lv.qty > 0
             /\ 100 * (lv.qty * Distance(lv.entry, lv.stop)) <= RiskPct * equity
             /\ 100 * (lv.qty * lv.entry) <= MaxCapitalPct * equity
<1>1. Enough(t) /\ Levels(t).entry > 0 /\ Levels(t).qty > 0
  BY DEF Enterable
<1>2. series[t] # <<>>
  <2>1. Len(series[t]) \in Nat /\ AtrPeriod \in Nat
    BY EngineAssumption, BarsOf
  <2>2. Len(series[t]) > 0
    BY <1>1, <2>1 DEF Enough
  <2>3. Len(<<>>) = 0
    OBVIOUS
  <2> QED
    BY <2>2, <2>3
<1>3. PICK e \in Nat : e = LastClose(t) /\ e = Today(t).close
  BY <1>2, TodayType
<1>4. PICK atr \in Nat : atr = Atr(t)
  BY <1>1, AtrType
<1>5. PICK stop \in Nat : stop = Stop(e, atr)
  <2>1. PICK low \in Int : low = e - atr * StopMult
    BY EngineAssumption
  <2>2. Max({low, 10}) = IF low >= 10 THEN low ELSE 10
    BY LargerOfTwo
  <2>3. Max({low, 10}) \in Nat
    BY <2>2
  <2> QED
    BY <2>1, <2>3 DEF Stop
<1>6. PICK target \in Nat : target = Target(e, atr) /\ target >= e
  <2>1. atr * TargetMult \in Nat
    BY EngineAssumption
  <2> QED
    BY <2>1 DEF Target
<1>7. PICK qty : qty = SizePosition(equity, e, stop)
  OBVIOUS
<1>8. Levels(t) = [entry |-> e, atr |-> atr, stop |-> stop, target |-> target, qty |-> qty]
  BY <1>3, <1>4, <1>5, <1>6, <1>7 DEF Levels
<1>9. e > 0 /\ qty > 0
  BY <1>1, <1>8
<1>10. equity \in Int
  BY EquityAtType
<1>11. /\ qty \in Nat /\ 100 * (qty * Distance(e, stop)) <= RiskPct * equity
       /\ 100 * (qty * e) <= MaxCapitalPct * equity
  BY <1>7, <1>9, <1>10, SizeIs
<1> QED
  BY <1>2, <1>3, <1>5, <1>6, <1>8, <1>9, <1>11

(* An entry adds one position, sized with today's equity. *)
LEMMA EnterIs ==
  ASSUME SeriesInv, BookInv, DatesInv, Enter
  PROVE  \E t \in Tickers \ DOMAIN open : \E pos \in Position :
           /\ open' = [u \in DOMAIN open \cup {t} |-> IF u = t THEN pos ELSE open[u]]
           /\ series[t] # <<>> /\ pos.entryDate = date
           /\ SizedAt(pos, Today(t).close)
<1>1. phase = "entries" /\ Enterable(First, todo[First])
  BY DEF Enter
<1>2. PICK t : t = First
  OBVIOUS
<1>3. t \in Tickers \ DOMAIN open
  BY <1>1, <1>2, EngineAssumption DEF Enterable, Screened
<1>4. PICK lv : lv = Levels(t)
  OBVIOUS
<1>5. /\ series[t] # <<>> /\ lv.entry = Today(t).close /\ lv.entry \in Nat
      /\ lv.stop \in Nat /\ lv.target \in Nat /\ lv.target >= lv.entry
      /\ lv.qty \in Nat /\ lv.qty > 0
      /\ 100 * (lv.qty * Distance(lv.entry, lv.stop)) <= RiskPct * equity
      /\ 100 * (lv.qty * lv.entry) <= MaxCapitalPct * equity
  BY <1>1, <1>2, <1>3, <1>4, LevelsAre
<1>6. PICK e \in Nat, stop \in Nat, target \in Nat, qty \in Nat, en \in Nat :
        e = lv.entry /\ stop = lv.stop /\ target = lv.target /\ qty = lv.qty
          /\ en = ApplySlippage(lv.entry, "buy")
  BY <1>5, BuyPrice
<1>7. PICK pos : pos = [entry |-> en, stop |-> stop, target |-> target, qty |-> qty,
                        entryDate |-> date]
  OBVIOUS
<1>8. open' = [u \in DOMAIN open \cup {t} |-> IF u = t THEN pos ELSE open[u]]
  BY <1>2, <1>4, <1>6, <1>7 DEF Enter
<1>9. pos \in Position /\ pos.entryDate = date
  BY <1>7 DEF Position, SeriesInv
<1>10. EquityAt(date) = equity
  BY <1>1, EquityNow
<1>11. SizedAt(pos, e)
  BY <1>5, <1>6, <1>7, <1>9, <1>10 DEF SizedAt
<1> QED
  BY <1>3, <1>5, <1>6, <1>8, <1>9, <1>11

-----------------------------------------------------------------------------
(* One step.                                                               *)

(* PassOver, Mark and stuttering leave book, bars and date alone. *)
Quiet ==
  /\ UNCHANGED <<date, series, equity, open, trades>>
  /\ phase' = phase \/ (phase = "entries" /\ phase' = "between")

LEMMA Steps ==
  ASSUME [Next]_vars
  PROVE  NextDate \/ CheckExits \/ Enter \/ ForceClose \/ Quiet
BY DEF Next, vars, PassOver, Mark, Quiet

(* Bars are only appended, each with the date of its day. *)
LEMMA SeriesNext ==
  ASSUME SeriesInv, [Next]_vars
  PROVE  SeriesInv'
<1>1. CASE NextDate
  <2>1. PICK bar \in [Tickers -> Bars \cup {NoBar}] :
          series' = [t \in Tickers |->
            IF bar[t] = NoBar THEN series[t]
            ELSE Append(series[t], [date |-> date + 1, bar |-> bar[t]])]
    BY <1>1 DEF NextDate
  <2>2. date' = date + 1 /\ date' \in Nat /\ date \in Nat
    BY <1>1 DEF NextDate, SeriesInv
  <2> DEFINE Dated == [date : Nat, bar : Bars]
             Tiled(s, d) == \A i \in DOMAIN s :
               /\ s[i].date <= d
               /\ \A j \in DOMAIN s : i < j => s[i].date < s[j].date
  <2>3. ASSUME NEW t \in Tickers
        PROVE  series'[t] \in Seq(Dated) /\ Tiled(series'[t], date + 1)
    <3>1. PICK s : s = series[t]
      OBVIOUS
    <3>2. s \in Seq(Dated) /\ Tiled(s, date)
      BY <3>1 DEF SeriesInv
    <3>3. Len(s) \in Nat /\ DOMAIN s = 1 .. Len(s)
      <4> HIDE DEF Dated
      <4> QED
        BY <3>2
    <3>4. \A i \in 1 .. Len(s) : s[i].date \in Nat
      BY <3>1, <3>3, BarsOf
    <3>5. CASE bar[t] = NoBar
      <4>1. series'[t] = s
        BY <2>1, <3>1, <3>5
      <4>2. Tiled(s, date + 1)
        BY <2>2, <3>2, <3>3, <3>4
      <4> HIDE DEF Tiled, Dated
      <4> QED
        BY <3>2, <4>1, <4>2
    <3>6. CASE bar[t] # NoBar
      <4>1. PICK new : new = [date |-> date + 1, bar |-> bar[t]]
        OBVIOUS
      <4>2. new \in Dated /\ new.date = date + 1
        BY <2>1, <2>2, <3>6, <4>1
      <4>3. series'[t] = Append(s, new)
        BY <2>1, <3>1, <3>6, <4>1
      <4>4. PICK z : z = Append(s, new)
        OBVIOUS
      <4>5. /\ z \in Seq(Dated) /\ DOMAIN z = 1 .. Len(s) + 1
            /\ \A i \in 1 .. Len(s) : z[i] = s[i]
            /\ z[Len(s) + 1] = new
        <5> HIDE DEF Dated
        <5> QED
          BY <3>2, <4>2, <4>4
      <4>6. ASSUME NEW i \in 1 .. Len(s) + 1
            PROVE  z[i].date <= date + 1 /\ (i <= Len(s) => z[i].date <= date)
        <5>1. CASE i <= Len(s)
          <6>1. z[i] = s[i] /\ s[i].date \in Nat /\ s[i].date <= date
            BY <3>2, <3>3, <3>4, <4>5, <5>1
          <6> QED
            BY <2>2, <6>1
        <5>2. CASE i = Len(s) + 1
          BY <2>2, <3>3, <4>2, <4>5, <5>2
        <5> QED
          BY <3>3, <5>1, <5>2
      <4>7. ASSUME NEW i \in 1 .. Len(s) + 1, NEW j \in 1 .. Len(s) + 1, i < j
            PROVE  z[i].date < z[j].date
        <5>1. i \in 1 .. Len(s) /\ z[i] = s[i] /\ s[i].date \in Nat
          BY <3>3, <3>4, <4>5, <4>7
        <5>2. CASE j <= Len(s)
          <6>1. j \in 1 .. Len(s) /\ z[j] = s[j]
            BY <3>3, <4>5, <5>2
          <6> QED
            BY <3>2, <3>3, <4>7, <5>1, <6>1
        <5>3. CASE j = Len(s) + 1
          <6>1. z[j].date = date + 1 /\ z[i].date <= date
            BY <3>3, <4>2, <4>5, <4>6, <5>1, <5>3
          <6> QED
            BY <2>2, <5>1, <6>1
        <5> QED
          BY <3>3, <5>2, <5>3
      <4>8. Tiled(z, date + 1)
        BY <4>5, <4>6, <4>7
      <4> HIDE DEF Tiled, Dated
      <4> QED
        BY <4>3, <4>4, <4>5, <4>8
    <3> HIDE DEF Tiled, Dated
    <3> QED
      BY <3>5, <3>6
  <2>4. series' \in [Tickers -> Seq(Dated)]
    <3> HIDE DEF Dated
    <3> QED
      BY <2>1, <2>3
  <2> QED
    BY <2>2, <2>3, <2>4 DEF SeriesInv
<1>2. CASE UNCHANGED <<date, series>>
  BY <1>2 DEF SeriesInv
<1>3. NextDate \/ UNCHANGED <<date, series>>
  BY DEF Next, CheckExits, PassOver, Enter, Mark, ForceClose, vars
<1> QED
  BY <1>1, <1>2, <1>3

(* Every step keeps book, trades and equity together. *)
LEMMA BookNext ==
  ASSUME SeriesInv, BookInv, DatesInv, SizeInv, [Next]_vars
  PROVE  BookInv'
<1>1. CASE NextDate
  <2>1. UNCHANGED <<open, trades, equity>> /\ phase' = "exits"
    BY <1>1 DEF NextDate
  <2> QED
    BY <2>1 DEF BookInv
<1>2. CASE CheckExits
  <2>1. PICK closing :
          /\ IsFiniteSet(closing) /\ Book(closing)
          /\ open' = [t \in DOMAIN open \ {tr.ticker : tr \in closing} |-> open[t]]
          /\ \A c \in closing : \E t \in DOMAIN open : Closing(c, t)
    BY <1>2, ExitsAre
  <2>2. phase = "exits" /\ phase' = "entries"
    BY <1>2 DEF CheckExits
  <2>3. /\ IsFiniteSet(trades') /\ trades' \subseteq Trade
        /\ equity' = InitialEquity + MapThenSumSet(NetOf, trades')
    BY <2>1, <2>2, BookStep
  <2>4. DOMAIN open' \subseteq Tickers /\ \A t \in DOMAIN open' : open'[t] \in Position
    BY <2>1 DEF BookInv
  <2> QED
    BY <2>2, <2>3, <2>4 DEF BookInv
<1>3. CASE Enter
  <2>1. PICK t \in Tickers \ DOMAIN open, pos \in Position :
          open' = [u \in DOMAIN open \cup {t} |-> IF u = t THEN pos ELSE open[u]]
    BY <1>3, EnterIs
  <2>2. UNCHANGED <<trades, equity, phase>>
    BY <1>3 DEF Enter
  <2>3. DOMAIN open' \subseteq Tickers /\ \A u \in DOMAIN open' : open'[u] \in Position
    BY <2>1 DEF BookInv
  <2> QED
    BY <2>2, <2>3 DEF BookInv
<1>4. CASE ForceClose
  <2>1. PICK closing :
          /\ IsFiniteSet(closing) /\ Book(closing)
          /\ \A c \in closing : \E t \in DOMAIN open : Closing(c, t)
    BY <1>4, ForcedAre
  <2>2. phase = "between" /\ phase' = "done" /\ open' = [t \in {} |-> {}]
    BY <1>4 DEF ForceClose
  <2>3. /\ IsFiniteSet(trades') /\ trades' \subseteq Trade
        /\ equity' = InitialEquity + MapThenSumSet(NetOf, trades')
    BY <2>1, <2>2, BookStep
  <2> QED
    BY <2>2, <2>3 DEF BookInv
<1>5. CASE Quiet
  BY <1>5 DEF Quiet, BookInv
<1> QED
  BY <1>1, <1>2, <1>3, <1>4, <1>5, Steps

(* Typing facts that the comparisons of dates rest on. *)
LEMMA DatesType ==
  ASSUME SeriesInv, BookInv
  PROVE  /\ date \in Nat /\ MinHoldDays \in Nat
         /\ \A t \in DOMAIN open : open[t].entryDate \in Nat
         /\ \A tr \in trades : tr.entryDate \in Nat /\ tr.exitDate \in Nat
BY EngineAssumption DEF SeriesInv, BookInv, Position, Trade

(* Every step keeps the dates in order. *)
LEMMA DatesNext ==
  ASSUME SeriesInv, BookInv, DatesInv, SizeInv, [Next]_vars
  PROVE  DatesInv'
<1>1. CASE NextDate
  <2>1. UNCHANGED <<open, trades>> /\ phase = "between" /\ phase' = "exits" /\ date' = date + 1
    BY <1>1 DEF NextDate
  <2> QED
    BY <2>1, DatesType DEF DatesInv
<1>2. CASE CheckExits
  <2>1. PICK closing :
          /\ IsFiniteSet(closing) /\ Book(closing)
          /\ open' = [t \in DOMAIN open \ {tr.ticker : tr \in closing} |-> open[t]]
          /\ \A c \in closing :
               /\ \E t \in DOMAIN open : Closing(c, t)
               /\ c.reason # "end_of_backtest"
               /\ c.reason = "time_exit" => c.daysHeld >= MinHoldDays
    BY <1>2, ExitsAre
  <2>2. phase = "exits" /\ phase' = "entries" /\ date' = date
    BY <1>2 DEF CheckExits
  <2>3. trades' = trades \cup closing
    BY <2>1 DEF Book
  <2>4. ASSUME NEW t \in DOMAIN open' PROVE open'[t].entryDate <= date
    BY <2>1, <2>2 DEF DatesInv
  <2>5. ASSUME NEW tr \in closing
        PROVE  /\ tr.exitDate <= date /\ tr.exitDate > tr.entryDate
               /\ tr.ticker \notin DOMAIN open'
    <3>1. PICK t \in DOMAIN open : Closing(tr, t)
      BY <2>1
    <3>2. tr.exitDate = date /\ tr.entryDate = open[t].entryDate
      BY <3>1 DEF Closing
    <3>3. open[t].entryDate < date
      BY <2>2 DEF DatesInv
    <3>4. tr.ticker \notin DOMAIN open'
      BY <2>1
    <3> QED
      BY <3>2, <3>3, <3>4, DatesType
  <2>6. ASSUME NEW tr \in trades
        PROVE  /\ tr.exitDate <= date
               /\ tr.exitDate > tr.entryDate \/ tr.reason = "end_of_backtest"
               /\ tr.reason # "end_of_backtest"
               /\ tr.reason = "time_exit" => tr.daysHeld >= MinHoldDays
               /\ tr.ticker \in DOMAIN open' => tr.entryDate < open'[tr.ticker].entryDate
    BY <2>1, <2>2 DEF DatesInv
  <2> QED
    BY <2>1, <2>2, <2>3, <2>4, <2>5, <2>6 DEF DatesInv
<1>3. CASE Enter
  <2>1. PICK t \in Tickers \ DOMAIN open, pos \in Position :
          /\ open' = [u \in DOMAIN open \cup {t} |-> IF u = t THEN pos ELSE open[u]]
          /\ pos.entryDate = date
    BY <1>3, EnterIs
  <2>2. UNCHANGED <<trades, phase, date>> /\ phase = "entries"
    BY <1>3 DEF Enter
  <2>3. ASSUME NEW tr \in trades PROVE tr.entryDate < date
    <3>1. tr.exitDate > tr.entryDate /\ tr.exitDate <= date
      BY <2>2 DEF DatesInv
    <3> QED
      BY <3>1, DatesType
  <2>4. ASSUME NEW u \in DOMAIN open' PROVE open'[u].entryDate <= date
    <3>1. u = t \/ (u \in DOMAIN open /\ open'[u] = open[u])
      BY <2>1
    <3>2. u = t => open'[u].entryDate = date
      BY <2>1
    <3> QED
      BY <3>1, <3>2, DatesType DEF DatesInv
  <2>5. ASSUME NEW tr \in trades, tr.ticker \in DOMAIN open'
        PROVE  tr.entryDate < open'[tr.ticker].entryDate
    <3>1. CASE tr.ticker = t
      BY <2>1, <2>3, <3>1
    <3>2. CASE tr.ticker # t
      BY <2>1, <2>2, <2>5, <3>2 DEF DatesInv
    <3> QED
      BY <3>1, <3>2
  <2> QED
    BY <2>2, <2>4, <2>5 DEF DatesInv
<1>4. CASE ForceClose
  <2>1. PICK closing :
          /\ Book(closing)
          /\ \A c \in closing :
               (\E t \in DOMAIN open : Closing(c, t)) /\ c.reason = "end_of_backtest"
    BY <1>4, ForcedAre
  <2>2. phase' = "done" /\ phase = "between" /\ open' = [t \in {} |-> {}] /\ date' = date
    BY <1>4 DEF ForceClose
  <2>3. trades' = trades \cup closing
    BY <2>1 DEF Book
  <2>4. ASSUME NEW tr \in closing PROVE tr.exitDate <= date /\ tr.reason = "end_of_backtest"
    BY <2>1, DatesType DEF Closing
  <2> QED
    BY <2>2, <2>3, <2>4 DEF DatesInv
<1>5. CASE Quiet
  BY <1>5 DEF Quiet, DatesInv
<1> QED
  BY <1>1, <1>2, <1>3, <1>4, <1>5, Steps

(* The longest hold is at least each of the three. *)
LEMMA LongestHold ==
         /\ Max({MaxHoldDays, MinHoldDays, 1}) \in Nat
         /\ MaxHoldDays <= Max({MaxHoldDays, MinHoldDays, 1})
         /\ MinHoldDays <= Max({MaxHoldDays, MinHoldDays, 1})
         /\ 1 <= Max({MaxHoldDays, MinHoldDays, 1})
<1>1. PICK a \in Nat, b \in Nat : a = MaxHoldDays /\ b = MinHoldDays
  BY EngineAssumption
<1>2. \A x \in {a, b, 1} : x <= a + b + 1
  OBVIOUS
<1>3. Max({a, b, 1}) \in {a, b, 1} /\ \A x \in {a, b, 1} : x <= Max({a, b, 1})
  BY <1>2, LargestNat
<1> QED
  BY <1>1, <1>3

(* A day's exits leave no position open beyond the longest hold. *)
LEMMA YoungNext ==
  ASSUME SeriesInv, BookInv, DatesInv, YoungInv, SizeInv, [Next]_vars
  PROVE  YoungInv'
<1>1. CASE CheckExits
  <2>1. PICK closing :
          /\ open' = [t \in DOMAIN open \ {tr.ticker : tr \in closing} |-> open[t]]
          /\ \A t \in DOMAIN open \ {tr.ticker : tr \in closing} : HasBar(t) => ToClose(t) = {}
    BY <1>1, ExitsAre
  <2>2. UNCHANGED <<series, date>>
    BY <1>1 DEF CheckExits
  <2>3. ASSUME NEW t \in DOMAIN open', HasBar(t)
        PROVE  DaysHeld(t, open'[t].entryDate) < Max({MaxHoldDays, MinHoldDays, 1})
    <3>1. t \in DOMAIN open /\ open'[t] = open[t] /\ ToClose(t) = {}
      BY <2>1, <2>3
    <3>2. t \in Tickers /\ open[t].entryDate \in Nat
      BY <3>1, DatesType DEF BookInv
    <3>3. PICK held \in Int : held = DaysHeld(t, open[t].entryDate)
      BY <3>2, HeldType
    <3>4. ~TimeExit(t) /\ ~StopHit(t) /\ ~TargetHit(t)
      BY <3>1 DEF ToClose
    <3>5. ~(held >= MaxHoldDays /\ held >= MinHoldDays)
      BY <3>3, <3>4 DEF TimeExit
    <3>6. MaxHoldDays \in Nat /\ MinHoldDays \in Nat
      BY EngineAssumption
    <3> QED
      BY <3>1, <3>3, <3>5, <3>6, LongestHold
  <2>4. ASSUME NEW t \in DOMAIN open' PROVE YoungEnough(t)'
    BY <2>2, <2>3, <2>4 DEF YoungEnough, HasBar, DaysHeld
  <2> QED
    BY <2>4 DEF YoungInv
<1>2. CASE Enter
  <2>1. PICK t \in Tickers \ DOMAIN open, pos \in Position :
          /\ open' = [u \in DOMAIN open \cup {t} |-> IF u = t THEN pos ELSE open[u]]
          /\ pos.entryDate = date
    BY <1>2, EnterIs
  <2>2. UNCHANGED <<series, date, phase>> /\ phase = "entries"
    BY <1>2 DEF Enter
  <2>3. DaysHeld(t, date) < Max({MaxHoldDays, MinHoldDays, 1})
    <3>1. DaysHeld(t, date) \in Int /\ DaysHeld(t, date) <= 0
      BY DatesType, HeldType
    <3> QED
      BY <3>1, LongestHold
  <2>4. ASSUME NEW u \in DOMAIN open', HasBar(u)
        PROVE  DaysHeld(u, open'[u].entryDate) < Max({MaxHoldDays, MinHoldDays, 1})
    <3>1. CASE u = t
      <4>1. open'[u].entryDate = date
        BY <2>1, <3>1
      <4> QED
        BY <2>3, <3>1, <4>1
    <3>2. CASE u # t
      <4>1. u \in DOMAIN open /\ open'[u] = open[u]
        BY <2>1, <3>2
      <4> QED
        BY <2>2, <2>4, <4>1 DEF YoungInv, YoungEnough
    <3> QED
      BY <3>1, <3>2
  <2>5. ASSUME NEW u \in DOMAIN open' PROVE YoungEnough(u)'
    BY <2>2, <2>4, <2>5 DEF YoungEnough, HasBar, DaysHeld
  <2> QED
    BY <2>5 DEF YoungInv
<1>3. CASE Quiet
  BY <1>3 DEF Quiet, YoungInv, YoungEnough, HasBar, DaysHeld
<1>4. CASE NextDate
  BY <1>4 DEF NextDate, YoungInv
<1>5. CASE ForceClose
  BY <1>5 DEF ForceClose, YoungInv
<1> QED
  BY <1>1, <1>2, <1>3, <1>4, <1>5, Steps

(* A position stays sized while the equity of its entry date stays. *)
LEMMA SizedStep ==
  ASSUME NEW t, NEW pos, pos = open'[t], NEW bar \in Bars,
         SizedAt(pos, bar.close), EquityAt(pos.entryDate)' = EquityAt(pos.entryDate),
         CloseHolds(t, bar.close)'
  PROVE  Sized(t)'
<1>1. SizedAt(pos, bar.close)'
  BY DEF SizedAt
<1>2. SizedAt(open[t], bar.close)'
  BY <1>1 DEF SizedAt, EquityAt
<1> QED
  BY <1>2 DEF Sized

(* Every step keeps every position sized. *)
LEMMA SizeNext ==
  ASSUME SeriesInv, BookInv, DatesInv, SizeInv, [Next]_vars
  PROVE  SizeInv'
<1>1. CASE NextDate \/ Quiet
  <2>1. UNCHANGED <<open, trades>>
    BY <1>1 DEF NextDate, Quiet
  <2>2. phase' = "exits" \/ (UNCHANGED <<date, series>> /\ (phase' = phase \/ phase = "entries"))
    BY <1>1 DEF NextDate, Quiet
  <2>3. ASSUME NEW t \in DOMAIN open' PROVE Sized(t)'
    <3>1. PICK bar \in Bars : SizedAt(open[t], bar.close) /\ CloseHolds(t, bar.close)
      BY <2>1 DEF SizeInv, Sized
    <3>2. PICK pos : pos = open[t] /\ pos = open'[t]
      BY <2>1
    <3>3. EquityAt(pos.entryDate)' = EquityAt(pos.entryDate)
      BY <2>1 DEF EquityAt
    <3>4. CloseHolds(t, bar.close)'
      BY <2>1, <2>2, <3>1 DEF CloseHolds, HasBar, Today
    <3> QED
      BY <3>1, <3>2, <3>3, <3>4, SizedStep
  <2> QED
    BY <2>3 DEF SizeInv
<1>2. CASE CheckExits
  <2>1. PICK closing :
          /\ IsFiniteSet(closing) /\ Book(closing)
          /\ open' = [t \in DOMAIN open \ {tr.ticker : tr \in closing} |-> open[t]]
          /\ \A c \in closing : \E t \in DOMAIN open : Closing(c, t)
          /\ \A t \in DOMAIN open \ {tr.ticker : tr \in closing} : HasBar(t) => ToClose(t) = {}
    BY <1>2, ExitsAre
  <2>2. UNCHANGED <<series, date>> /\ phase = "exits"
    BY <1>2 DEF CheckExits
  <2>3. trades' = trades \cup closing
    BY <2>1 DEF Book
  <2>4. ASSUME NEW t \in DOMAIN open' PROVE Sized(t)'
    <3>1. t \in DOMAIN open /\ open'[t] = open[t] /\ (HasBar(t) => ToClose(t) = {})
      BY <2>1
    <3>2. PICK bar \in Bars : SizedAt(open[t], bar.close)
      BY <3>1 DEF SizeInv, Sized
    <3>3. PICK pos : pos = open[t] /\ pos = open'[t]
      BY <3>1
    <3>4. pos.entryDate \in Nat /\ pos.entryDate < date /\ date \in Nat
      BY <2>2, <3>1, <3>3, DatesType DEF DatesInv
    <3>5. ASSUME NEW c \in closing PROVE ~(c.exitDate <= pos.entryDate)
      <4>1. c.exitDate = date
        BY <2>1 DEF Closing
      <4> QED
        BY <3>4, <4>1
    <3>6. EquityAt(pos.entryDate)' = EquityAt(pos.entryDate)
      BY <2>3, <3>4, <3>5, EquityAtKept
    <3>7. bar.close \in Nat
      BY EngineAssumption
    <3>8. HasBar(t) => bar.close - Today(t).close <= Distance(bar.close, open[t].stop)
      <4>1. SUFFICES ASSUME HasBar(t)
                     PROVE  bar.close - Today(t).close <= Distance(bar.close, open[t].stop)
        OBVIOUS
      <4>2. ~StopHit(t) /\ series[t] # <<>>
        BY <3>1, <4>1 DEF ToClose, HasBar
      <4> QED
        BY <3>1, <3>7, <4>2, CloseAboveStop
    <3>9. CloseHolds(t, bar.close)'
      BY <2>2, <3>1, <3>8 DEF CloseHolds, HasBar, Today
    <3> QED
      BY <3>2, <3>3, <3>6, <3>9, SizedStep
  <2> QED
    BY <2>4 DEF SizeInv
<1>3. CASE Enter
  <2>1. PICK t \in Tickers \ DOMAIN open, new \in Position :
          /\ open' = [u \in DOMAIN open \cup {t} |-> IF u = t THEN new ELSE open[u]]
          /\ series[t] # <<>>
          /\ SizedAt(new, Today(t).close)
    BY <1>3, EnterIs
  <2>2. UNCHANGED <<trades, phase, date, series>> /\ phase = "entries"
    BY <1>3 DEF Enter
  <2>3. Sized(t)'
    <3>1. PICK bar \in Bars : bar = Today(t)
      BY <2>1, TodayType
    <3>2. open'[t] = new /\ bar.close \in Nat /\ new.stop \in Nat
      BY <2>1, EngineAssumption DEF Position
    <3>3. EquityAt(new.entryDate)' = EquityAt(new.entryDate)
      BY <2>2 DEF EquityAt
    <3>4. bar.close - bar.close <= Distance(bar.close, new.stop)
      <4>1. PICK e \in Nat, s \in Nat : e = bar.close /\ s = new.stop
        BY <3>2
      <4>2. Distance(e, s) \in Nat
        BY DistanceIs
      <4> QED
        BY <4>1, <4>2
    <3>5. CloseHolds(t, bar.close)'
      BY <2>2, <3>1, <3>2, <3>4 DEF CloseHolds, HasBar, Today
    <3> QED
      BY <2>1, <3>1, <3>2, <3>3, <3>5, SizedStep
  <2>4. ASSUME NEW u \in DOMAIN open', u # t PROVE Sized(u)'
    <3>1. u \in DOMAIN open /\ open'[u] = open[u]
      BY <2>1, <2>4
    <3>2. PICK bar \in Bars : SizedAt(open[u], bar.close) /\ CloseHolds(u, bar.close)
      BY <3>1 DEF SizeInv, Sized
    <3>3. PICK pos : pos = open[u] /\ pos = open'[u]
      BY <3>1
    <3>4. EquityAt(pos.entryDate)' = EquityAt(pos.entryDate)
      BY <2>2 DEF EquityAt
    <3>5. CloseHolds(u, bar.close)'
      BY <2>2, <3>1, <3>2 DEF CloseHolds, HasBar, Today
    <3> QED
      BY <3>2, <3>3, <3>4, <3>5, SizedStep
  <2> QED
    BY <2>3, <2>4 DEF SizeInv
<1>4. CASE ForceClose
  BY <1>4 DEF ForceClose, SizeInv
<1> QED
  BY <1>1, <1>2, <1>3, <1>4, Steps

(* Every step keeps the losses within the risk. *)
LEMMA LossNext ==
  ASSUME SeriesInv, BookInv, DatesInv, SizeInv, LossWithinRisk, [Next]_vars
  PROVE  LossWithinRisk'
<1>1. CASE NextDate \/ Enter \/ Quiet
  <2>1. UNCHANGED trades
    BY <1>1 DEF NextDate, Enter, Quiet
  <2> QED
    BY <2>1 DEF LossWithinRisk, EquityAt, Costs
<1>2. CASE CheckExits
  <2>1. PICK closing :
          /\ Book(closing)
          /\ \A c \in closing : \E t \in DOMAIN open : Closing(c, t)
    BY <1>2, ExitsAre
  <2>2. phase = "exits"
    BY <1>2 DEF CheckExits
  <2>3. trades' = trades \cup closing
    BY <2>1 DEF Book
  <2>4. ASSUME NEW tr \in trades \cup closing
        PROVE  tr.entryDate \in Nat /\ tr.entryDate < date
    <3>1. CASE tr \in trades
      <4>1. tr.exitDate > tr.entryDate /\ tr.exitDate < date
        BY <2>2, <3>1 DEF DatesInv
      <4> QED
        BY <3>1, <4>1, DatesType
    <3>2. CASE tr \in closing
      <4>1. PICK t \in DOMAIN open : tr.entryDate = open[t].entryDate
        BY <2>1, <3>2 DEF Closing
      <4> QED
        BY <2>2, <4>1, DatesType DEF DatesInv
    <3> QED
      BY <3>1, <3>2
  <2>5. ASSUME NEW d \in Nat, d < date PROVE EquityAt(d)' = EquityAt(d)
    <3>1. ASSUME NEW c \in closing PROVE ~(c.exitDate <= d)
      <4>1. c.exitDate = date
        BY <2>1 DEF Closing
      <4> QED
        BY <2>5, <4>1, DatesType
    <3> QED
      BY <2>3, <3>1, EquityAtKept
  <2>6. \A tr \in trades \cup closing :
          tr.entryDate \in Nat /\ EquityAt(tr.entryDate)' = EquityAt(tr.entryDate)
    BY <2>4, <2>5
  <2>7. \A c \in closing : LossBounded(c)
    BY <2>1 DEF Closing
  <2> QED
    BY <2>3, <2>6, <2>7, LossStep
<1>3. CASE ForceClose
  <2>1. PICK closing :
          /\ Book(closing)
          /\ \A c \in closing :
               (\E t \in DOMAIN open : Closing(c, t)) /\ c.reason = "end_of_backtest"
    BY <1>3, ForcedAre
  <2>2. trades' = trades \cup closing
    BY <2>1 DEF Book
  <2>3. ASSUME NEW d \in Nat PROVE EquityAt(d)' = EquityAt(d)
    BY <2>1, <2>2, EquityAtKept
  <2>4. \A tr \in trades \cup closing : tr.entryDate \in Nat
    BY <2>1, DatesType DEF Closing
  <2>5. \A tr \in trades \cup closing :
          tr.entryDate \in Nat /\ EquityAt(tr.entryDate)' = EquityAt(tr.entryDate)
    BY <2>3, <2>4
  <2>6. \A c \in closing : LossBounded(c)
    BY <2>1 DEF Closing
  <2> QED
    BY <2>2, <2>5, <2>6, LossStep
<1> QED
  BY <1>1, <1>2, <1>3, Steps

(* The book has finitely many positions. *)
LEMMA OpenFinite ==
  ASSUME BookInv
  PROVE  IsFiniteSet(DOMAIN open) /\ Cardinality(DOMAIN open) \in Nat
BY EngineAssumption, FS_Subset, FS_CardinalityType DEF BookInv

(* An entry is made only where the book has room, and nothing else adds to *)
(* it.                                                                     *)
LEMMA CountNext ==
  ASSUME SeriesInv, BookInv, DatesInv, SizeInv, CountInv, [Next]_vars
  PROVE  CountInv'
<1>1. IsFiniteSet(DOMAIN open) /\ Cardinality(DOMAIN open) \in Nat /\ MaxPositions \in Nat
  BY OpenFinite, EngineAssumption
<1>2. CASE DOMAIN open' \subseteq DOMAIN open
  <2>1. /\ Cardinality(DOMAIN open') <= Cardinality(DOMAIN open)
        /\ Cardinality(DOMAIN open') \in Nat
    BY <1>1, <1>2, FS_Subset, FS_CardinalityType
  <2> QED
    BY <1>1, <2>1 DEF CountInv
<1>3. CASE Enter
  <2>1. PICK t : t \notin DOMAIN open /\ DOMAIN open' = DOMAIN open \cup {t}
    <3>1. PICK t \in Tickers \ DOMAIN open, pos \in Position :
            open' = [u \in DOMAIN open \cup {t} |-> IF u = t THEN pos ELSE open[u]]
      BY <1>3, EnterIs
    <3> QED
      BY <3>1
  <2>2. Cardinality(DOMAIN open') = Cardinality(DOMAIN open) + 1
    BY <1>1, <2>1, FS_AddElement
  <2>3. ~(Cardinality(DOMAIN open) >= MaxPositions)
    BY <1>3 DEF Enter, Full
  <2> QED
    BY <1>1, <2>2, <2>3 DEF CountInv
<1>4. CASE CheckExits
  <2>1. PICK closing : open' = [t \in DOMAIN open \ {tr.ticker : tr \in closing} |-> open[t]]
    BY <1>4, ExitsAre
  <2> QED
    BY <1>2, <2>1
<1>5. CASE NextDate \/ Quiet \/ ForceClose
  <2>1. DOMAIN open' \subseteq DOMAIN open
    BY <1>5 DEF NextDate, Quiet, ForceClose
  <2> QED
    BY <1>2, <2>1
<1> QED
  BY <1>3, <1>4, <1>5, Steps

(* A replay starts with no position and no trade. *)
LEMMA ReplayInit == Init => ReplayInv
<1> SUFFICES ASSUME Init PROVE ReplayInv
  OBVIOUS
<1>1. SeriesInv
  <2> DEFINE Dated == [date : Nat, bar : Bars]
  <2>1. <<>> \in Seq(Dated) /\ DOMAIN <<>> = {}
    OBVIOUS
  <2>2. series = [t \in Tickers |-> <<>>] /\ date = 0
    BY DEF Init
  <2>3. series \in [Tickers -> Seq(Dated)]
    <3> HIDE DEF Dated
    <3> QED
      BY <2>1, <2>2
  <2>4. \A t \in Tickers : DOMAIN series[t] = {}
    BY <2>1, <2>2
  <2> QED
    BY <2>2, <2>3, <2>4 DEF SeriesInv
<1>2. BookInv
  <2>1. IsFiniteSet({})
    BY FS_EmptySet
  <2> QED
    BY <2>1, NoNets, EngineAssumption DEF Init, BookInv
<1>3. DatesInv /\ YoungInv /\ SizeInv /\ LossWithinRisk
  BY DEF Init, DatesInv, YoungInv, SizeInv, LossWithinRisk
<1>4. CountInv
  <2>1. DOMAIN open = {} /\ Cardinality({}) = 0
    BY FS_EmptySet DEF Init
  <2> QED
    BY <2>1, EngineAssumption DEF CountInv
<1> QED
  BY <1>1, <1>2, <1>3, <1>4 DEF ReplayInv

(* Every step keeps it sound. *)
LEMMA ReplayNext == ReplayInv /\ [Next]_vars => ReplayInv'
BY SeriesNext, BookNext, DatesNext, YoungNext, SizeNext, CountNext, LossNext DEF ReplayInv

(* Book, dates, sizes and accounts fit together in every state of a        *)
(* replay; in particular the realized equity is what its trades add up to. *)
THEOREM ReplayIsSound == Spec => []ReplayInv
BY ReplayInit, ReplayNext, PTL DEF Spec

(* Every closed trade, whatever the bars were between its entry and its    *)
(* exit, lost no more than RiskPct of the equity it was sized with, beside *)
(* slippage and fees (sizing.py:3; engine.py:101-127 and 185-213).         *)
THEOREM LossesStayWithinRisk == Spec => []LossWithinRisk
<1>1. ReplayInv => LossWithinRisk
  BY DEF ReplayInv
<1> QED
  BY <1>1, ReplayIsSound, PTL

(* What the open positions cost is the sum of a function. *)
LEMMA SumOfCosts ==
  ASSUME NEW S, IsFiniteSet(S)
  PROVE  MapThenSumSet(CostOf, S) = Total([t \in S |-> CostOf(t)], S)
<1> DEFINE f == [t \in S |-> CostOf(t)]
           Fits(g) == g = [s \in SUBSET S |->
                             IF s = {} THEN 0 ELSE CostOf(Pick(s)) + g[s \ {Pick(s)}]]
           h == CHOOSE g : Fits(g)
<1>1. MapThenSumSet(CostOf, S) = h[S]
  BY DEF MapThenSumSet, MapThenFoldSet, Pick
<1>2. \A s \in SUBSET S : s # {} => f[Pick(s)] = CostOf(Pick(s))
  BY PickIn
<1> HIDE DEF f
<1>3. \A g : Fits(g) <=> Sums(g, f, S)
  BY <1>2 DEF Sums
<1>4. \E g : Sums(g, f, S)
  BY SumsExist
<1> HIDE DEF Fits
<1>5. Sums(h, f, S)
  BY <1>3, <1>4
<1> HIDE DEF h
<1>6. Total(f, S) = h[S]
  BY <1>5, TotalOf
<1> QED
  BY <1>1, <1>6 DEF f

(* The price of one position, slippage included, against the equity of its *)
(* entry date.                                                             *)
LEMMA PriceOf ==
  ASSUME SeriesInv, BookInv, NEW t \in DOMAIN open, Sized(t)
  PROVE  /\ CostOf(t) \in Nat
         /\ 100000 * CostOf(t) <= 1001 * (MaxCapitalPct * EquityAt(open[t].entryDate))
<1>1. PICK bar \in Bars : SizedAt(open[t], bar.close)
  BY DEF Sized
<1>2. PICK e \in Nat : e = bar.close
  BY EngineAssumption
<1>3. PICK q \in Nat, en \in Nat : q = open[t].qty /\ en = open[t].entry
  BY DEF BookInv, Position
<1>4. 1000 * en <= 1001 * e
  <2>1. en = e + (e * 10) \div 10000
    BY <1>1, <1>2, <1>3 DEF SizedAt, ApplySlippage, SlippageBps
  <2> QED
    BY <2>1
<1>5. PICK share \in Int : share = MaxCapitalPct * EquityAt(open[t].entryDate)
  <2>1. PICK cash \in Int : cash = EquityAt(open[t].entryDate)
    BY EquityAtType DEF BookInv, Position
  <2> QED
    BY <2>1, EngineAssumption
<1>6. 100 * (q * e) <= share
  BY <1>1, <1>2, <1>3, <1>5 DEF SizedAt
<1>7. q * (1000 * en) <= q * (1001 * e)
  BY <1>4
<1>8. PICK z \in Nat, w \in Nat : z = en * q /\ w = q * e
  OBVIOUS
<1>9. 100000 * z <= 1001 * share
  <2>1. q * (1000 * en) = 1000 * z /\ q * (1001 * e) = 1001 * w
    BY <1>8
  <2> QED
    BY <1>6, <1>7, <1>8, <2>1
<1> QED
  BY <1>3, <1>5, <1>8, <1>9 DEF CostOf

(* An n-th of the equity that is left, if n positions of that size are     *)
(* within m percent of any equity.                                         *)
LEMMA PartOf ==
  ASSUME NEW n \in Nat, NEW c \in Nat, NEW m \in Nat \ {0}, n * c * 1001 <= 1000 * m,
         NEW cost \in Nat, NEW cash \in Int, NEW now \in Int, now >= 0,
         100000 * cost <= 1001 * (c * cash), m * cash <= 100 * now
  PROVE  n * cost <= now
<1>1. CASE cash < 0
  <2>1. c * cash <= 0
    BY <1>1
  <2>2. PICK z \in Int : z = c * cash
    OBVIOUS
  <2>3. cost = 0
    BY <2>1, <2>2
  <2> QED
    BY <2>3
<1>2. CASE cash >= 0
  <2>1. PICK nc \in Nat : nc = n * c /\ nc * 1001 <= 1000 * m
    OBVIOUS
  <2>2. n * (100000 * cost) <= n * (1001 * (c * cash))
    <3>1. PICK a \in Int, b \in Int : a = 100000 * cost /\ b = 1001 * (c * cash) /\ a <= b
      OBVIOUS
    <3>2. n * a <= n * b
      BY <3>1
    <3> QED
      BY <3>1, <3>2
  <2>3. n * (1001 * (c * cash)) = (nc * 1001) * cash
    BY <2>1
  <2>4. (nc * 1001) * cash <= (1000 * m) * cash
    <3>1. PICK a \in Nat, b \in Nat : a = nc * 1001 /\ b = 1000 * m /\ a <= b
      BY <2>1
    <3>2. a * cash <= b * cash
      BY <1>2, <3>1
    <3> QED
      BY <3>1, <3>2
  <2>5. (1000 * m) * cash = 1000 * (m * cash)
    OBVIOUS
  <2>6. PICK x \in Int, y \in Int : x = n * cost /\ y = m * cash
    OBVIOUS
  <2>7. n * (100000 * cost) = 100000 * x
    BY <2>6
  <2>8. 100000 * x <= 1000 * y
    BY <2>2, <2>3, <2>4, <2>5, <2>6, <2>7
  <2>9. x <= now
    BY <2>6, <2>8
  <2> QED
    BY <2>6, <2>9
<1> QED
  BY <1>1, <1>2

(* At most n numbers, none of them more than an n-th, add up to no more    *)
(* than the whole.                                                         *)
LEMMA SumWithin ==
  ASSUME NEW n \in Nat, NEW now \in Nat, NEW S, IsFiniteSet(S), Cardinality(S) \in 0..n,
         NEW f, \A t \in S : f[t] \in Nat /\ n * f[t] <= now
  PROVE  Total(f, S) <= now
<1>1. CASE S = {}
  BY <1>1, TotalEmpty
<1>2. CASE S # {}
  <2>1. n > 0
    BY <1>2, FS_EmptySet
  <2>2. PICK part \in Nat : part = now \div n
    BY <2>1
  <2>3. ASSUME NEW t \in S
        PROVE  f[t] \in Nat /\ f[t] <= part
    <3>1. PICK cost \in Nat : cost = f[t] /\ n * cost <= now
      OBVIOUS
    <3>2. cost <= now \div n
      BY <2>1, <3>1
    <3> QED
      BY <2>2, <3>1, <3>2
  <2>4. Total(f, S) <= Cardinality(S) * part
    <3>1. \A t \in S : f[t] \in Int /\ f[t] <= part
      BY <2>3
    <3>2. part \in Int
      BY <2>2
    <3> QED BY <3>1, <3>2, TotalAtMost
  <2>5. PICK k \in 0..n : k = Cardinality(S)
    OBVIOUS
  <2>6. k * part <= n * part
    BY <2>2
  <2>7. n * part <= now
    BY <2>1, <2>2
  <2>8. Total(f, S) \in Int
    BY <2>3, TotalType
  <2>9. PICK a \in Nat, b \in Nat : a = k * part /\ b = n * part
    BY <2>2
  <2> QED
    BY <2>4, <2>5, <2>6, <2>7, <2>8, <2>9
<1> QED
  BY <1>1, <1>2

(* When no open position was sized with so much equity that m percent of   *)
(* it is more than all there is now, their costs add up to no more than it.*)
LEMMA CostsAreCovered ==
  ASSUME NEW m \in Nat \ {0}, MaxPositions * MaxCapitalPct * 1001 <= 1000 * m,
         ReplayInv, SizedWithin(m)
  PROVE  NotLeveraged
<1>1. SeriesInv /\ BookInv /\ SizeInv /\ CountInv
  BY DEF ReplayInv
<1>2. PICK now \in Nat : now = equity
  BY <1>1, EquityAtType DEF SizedWithin
<1>3. PICK n \in Nat, c \in Nat : n = MaxPositions /\ c = MaxCapitalPct
  BY EngineAssumption
<1>4. IsFiniteSet(DOMAIN open) /\ Cardinality(DOMAIN open) \in 0..n
  BY <1>1, <1>3, OpenFinite DEF CountInv
<1>5. ASSUME NEW t \in DOMAIN open
      PROVE  CostOf(t) \in Nat /\ n * CostOf(t) <= now
  <2>1. PICK cost \in Nat : cost = CostOf(t)
    BY <1>1, PriceOf DEF SizeInv
  <2>2. PICK cash \in Int : cash = EquityAt(open[t].entryDate)
    BY <1>1, EquityAtType DEF BookInv, Position
  <2>3. 100000 * cost <= 1001 * (c * cash)
    BY <1>1, <1>3, <2>1, <2>2, PriceOf DEF SizeInv
  <2>4. m * cash <= 100 * now
    BY <1>2, <2>2 DEF SizedWithin
  <2>5. n * c * 1001 <= 1000 * m
    BY <1>3
  <2>6. n * cost <= now
    BY <2>3, <2>4, <2>5, PartOf
  <2> QED
    BY <2>1, <2>6
<1> DEFINE costs == [t \in DOMAIN open |-> CostOf(t)]
<1>6. Total(costs, DOMAIN open) <= now
  <2>1. \A t \in DOMAIN open : costs[t] \in Nat /\ n * costs[t] <= now
    BY <1>5
  <2> HIDE DEF costs
  <2> QED
    BY <1>4, <2>1, SumWithin
<1>7. MapThenSumSet(CostOf, DOMAIN open) = Total(costs, DOMAIN open)
  BY <1>4, SumOfCosts
<1> HIDE DEF costs
<1> QED
  BY <1>2, <1>6, <1>7 DEF NotLeveraged

(* If the positions the book has room for are worth at most m percent of   *)
(* the equity when they are sized, then the replay is not leveraged unless *)
(* the realized equity has since fallen below m percent of what an open    *)
(* position was sized with: with 3 positions of 15 percent each, the       *)
(* strategy's defaults, m is 46 (sizing.py:28, engine.py:147).             *)
THEOREM LeverageNeedsLosses ==
  ASSUME NEW m \in Nat \ {0}, MaxPositions * MaxCapitalPct * 1001 <= 1000 * m
  PROVE  Spec => [](SizedWithin(m) => NotLeveraged)
<1>1. ReplayInv => (SizedWithin(m) => NotLeveraged)
  BY CostsAreCovered
<1> QED
  BY <1>1, ReplayIsSound, PTL

(* So it is with what the limits of a replay put into positions, whatever  *)
(* they are (sizing.py:28, engine.py:147).                                 *)
THEOREM LossesAloneLeverage == Spec => []OnlyLossesLeverage
<1>1. Cover \in Nat \ {0} /\ MaxPositions * MaxCapitalPct * 1001 <= 1000 * Cover
  <2>1. PICK a \in Nat : a = MaxPositions * MaxCapitalPct * 1001
    BY EngineAssumption
  <2>2. 1 + a \div 1000 \in Nat \ {0} /\ a <= 1000 * (1 + a \div 1000)
    BY <2>1
  <2> QED
    BY <2>1, <2>2 DEF Cover
<1>2. ReplayInv => OnlyLossesLeverage
  BY <1>1, CostsAreCovered DEF OnlyLossesLeverage
<1> QED
  BY <1>2, ReplayIsSound, PTL

(* A position is never sold on its entry date but by the end of the        *)
(* window, no time exit comes before the minimum hold, and none comes      *)
(* later than it is due (engine.py:90-116, pead.py:141-171).               *)
THEOREM HoldsStayBounded == Spec => []HoldsAreBounded
<1>1. ReplayInv => HoldsAreBounded
  BY DEF ReplayInv, DatesInv, YoungInv, YoungEnough, HoldsAreBounded
<1> QED
  BY <1>1, ReplayIsSound, PTL

(* A position leaves the book only with its trade, or at the end of the    *)
(* window on a day without a bar, and the equity moves by what the trades  *)
(* of the step brought in (engine.py:118-140 and 185-213).                 *)
THEOREM EveryPositionIsAccounted == Spec => PositionsAccounted
<1>1. ReplayInv /\ [Next]_vars =>
        [/\ \A t \in DOMAIN open :
              t \in DOMAIN open' \/ (phase' = "done" /\ ~HasBar(t))
                \/ \E tr \in trades' \ trades :
                     tr.ticker = t /\ tr.entryDate = open[t].entryDate /\ tr.qty = open[t].qty
         /\ equity' = equity + MapThenSumSet(NetOf, trades' \ trades)]_vars
  <2> SUFFICES ASSUME ReplayInv, [Next]_vars, ~UNCHANGED vars
               PROVE  /\ \A t \in DOMAIN open :
                           t \in DOMAIN open' \/ (phase' = "done" /\ ~HasBar(t))
                             \/ \E tr \in trades' \ trades :
                                  /\ tr.ticker = t /\ tr.entryDate = open[t].entryDate
                                  /\ tr.qty = open[t].qty
                      /\ equity' = equity + MapThenSumSet(NetOf, trades' \ trades)
    OBVIOUS
  <2>1. SeriesInv /\ BookInv /\ DatesInv /\ SizeInv
    BY DEF ReplayInv
  <2>2. CASE NextDate \/ Quiet \/ Enter
    <3>1. UNCHANGED <<trades, equity>> /\ trades' \ trades = {}
      BY <2>2 DEF NextDate, Quiet, Enter
    <3>2. DOMAIN open \subseteq DOMAIN open'
      <4>1. CASE NextDate \/ Quiet
        BY <4>1 DEF NextDate, Quiet
      <4>2. CASE Enter
        BY <4>2 DEF Enter
      <4> QED
        BY <2>2, <4>1, <4>2
    <3>3. equity \in Int
      BY <2>1, EquityAtType
    <3>4. equity' = equity + MapThenSumSet(NetOf, trades' \ trades)
      BY <3>1, <3>3, NoNets
    <3> QED
      BY <3>2, <3>4
  <2>3. CASE CheckExits
    <3>1. PICK closing :
            /\ IsFiniteSet(closing) /\ Book(closing)
            /\ open' = [t \in DOMAIN open \ {tr.ticker : tr \in closing} |-> open[t]]
            /\ \A c \in closing : \E t \in DOMAIN open : Closing(c, t)
      BY <2>1, <2>3, ExitsAre
    <3>2. phase # "done"
      BY <2>3 DEF CheckExits
    <3>3. trades' \ trades = closing /\ equity' = equity + MapThenSumSet(NetOf, closing)
      BY <2>1, <3>1, <3>2, BookStep
    <3>4. ASSUME NEW t \in DOMAIN open, t \notin DOMAIN open'
          PROVE  \E tr \in closing :
                   tr.ticker = t /\ tr.entryDate = open[t].entryDate /\ tr.qty = open[t].qty
      BY <3>1, <3>4 DEF Closing
    <3> QED
      BY <3>3, <3>4
  <2>4. CASE ForceClose
    <3>1. PICK closing :
            /\ IsFiniteSet(closing) /\ Book(closing)
            /\ \A c \in closing : \E t \in DOMAIN open : Closing(c, t)
            /\ \A t \in DOMAIN open : HasBar(t) => \E c \in closing : c.ticker = t
      BY <2>1, <2>4, ForcedAre
    <3>2. phase # "done" /\ phase' = "done"
      BY <2>4 DEF ForceClose
    <3>3. trades' \ trades = closing /\ equity' = equity + MapThenSumSet(NetOf, closing)
      BY <2>1, <3>1, <3>2, BookStep
    <3>4. ASSUME NEW t \in DOMAIN open, HasBar(t)
          PROVE  \E tr \in closing :
                   tr.ticker = t /\ tr.entryDate = open[t].entryDate /\ tr.qty = open[t].qty
      BY <3>1, <3>4 DEF Closing
    <3> QED
      BY <3>2, <3>3, <3>4
  <2> QED
    BY <2>2, <2>3, <2>4, Steps
<1> QED
  BY <1>1, ReplayIsSound, PTL DEF Spec, PositionsAccounted
=============================================================================
