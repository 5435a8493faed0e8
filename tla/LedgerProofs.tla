---------------------------- MODULE LedgerProofs ----------------------------
(***************************************************************************)
(* ExecutorCycle implements PositionLedger, and what follows for totals:   *)
(* for any number of processes, candidates, strategies and tickers.        *)
(***************************************************************************)
EXTENDS ExecutorProofs, SumLemmas

(* A request that IInv and BookFits both vouch for. *)
Proper(id, ticker, side, qty) ==
  /\ id \in OrderIds /\ ticker \in Tickers /\ side \in Sides /\ qty \in Nat
  /\ RequestSound(id, side, qty)
  /\ RequestFits(id, ticker, side, qty)

-----------------------------------------------------------------------------
(* What a step can do to the book.                                         *)

SameTerms(id) == /\ orders'[id].ticker = orders[id].ticker
                 /\ orders'[id].side = orders[id].side
                 /\ orders'[id].qty = orders[id].qty

BookKept ==
  /\ Placed' = Placed
  /\ \A id \in Placed : SameTerms(id) /\ orders'[id].filled = orders[id].filled

Places(id, ticker, side, qty) ==
  /\ id \notin Placed /\ Placed' = Placed \cup {id}
  /\ \A x \in Placed : orders'[x] = orders[x]
  /\ orders'[id] = NewOrder(ticker, side, qty)

Fills(id) ==
  /\ Placed' = Placed
  /\ \A x \in Placed : SameTerms(x)
  /\ \A x \in Placed \ {id} : orders'[x].filled = orders[x].filled
  /\ orders[id].filled < orders[id].qty
  /\ orders'[id].filled = orders[id].filled + 1

(* The book after a request. *)
LEMMA BookAfter ==
  ASSUME NEW id, NEW ticker, NEW side, NEW qty,
         orders' = BookWith(id, ticker, side, qty)
  PROVE  BookKept \/ Places(id, ticker, side, qty)
<1>1. CASE id \in Placed
  BY <1>1 DEF BookWith, BookKept, SameTerms, Placed
<1>2. CASE id \notin Placed
  BY <1>2 DEF BookWith, Places, Placed
<1> QED
  BY <1>1, <1>2

(* What a process asks the broker for is proper, and the book and the wire *)
(* change by it alone.                                                     *)
LEMMA SubmitKind ==
  ASSUME IInv, BookFits, NEW p \in Procs,
         SubmitClose(p) \/ SubmitCloseRaised(p) \/ SubmitEntry(p) \/ SubmitEntryRaised(p)
  PROVE  \E id, ticker, side, qty :
           /\ Proper(id, ticker, side, qty)
           /\ BookKept \/ Places(id, ticker, side, qty)
           /\ inflight' \subseteq inflight \cup
                {[id |-> id, ticker |-> ticker, side |-> side, qty |-> qty]}
           /\ trades' = trades
<1>1. /\ TablesTyped /\ ProcsTyped /\ ProcessSound(p)
  BY TypeParts DEF IInv, ProcessesSound
<1>2. ASSUME NEW id, NEW ticker, NEW side, NEW qty, Proper(id, ticker, side, qty),
             \/ SubmitAnswered(id, ticker, side, qty)
             \/ SubmitRaised(id, ticker, side, qty)
      PROVE  /\ BookKept \/ Places(id, ticker, side, qty)
             /\ inflight' \subseteq inflight \cup
                  {[id |-> id, ticker |-> ticker, side |-> side, qty |-> qty]}
  <2>1. CASE orders' = BookWith(id, ticker, side, qty) /\ inflight' = inflight
    BY <2>1, BookAfter
  <2>2. CASE orders' = orders
    <3>1. BookKept
      BY <2>2 DEF BookKept, SameTerms, Placed
    <3> QED
      BY <1>2, <2>2, <3>1, BookAfter DEF SubmitAnswered, SubmitRaised, brokerVars
  <2> QED
    BY <1>2, <2>1, <2>2 DEF SubmitAnswered, SubmitRaised, brokerVars
<1>3. CASE SubmitClose(p) \/ SubmitCloseRaised(p)
  <2> DEFINE i == held[p]
  <2>1. i \in TradeIds /\ trades[i].fill > 0 /\ trades[i] \in Trade /\ i \in Nat
    BY <1>1, <1>3 DEF SubmitClose, SubmitCloseRaised, At, ProcessSound, TablesTyped, TradeIds
  <2>2. Proper(CloseOrderId(i), TickerOf[trades[i].cand], CloseSide(i), trades[i].fill)
    BY <2>1, TickerOfAssumption
    DEF Proper, CloseOrderId, OrderIds, Trade, Sides, CloseSide, Opposite, RequestSound,
        RequestFits
  <2>3. trades' = trades
    BY <1>3 DEF SubmitClose, SubmitCloseRaised, journalVars
  <2>4. \/ SubmitAnswered(CloseOrderId(i), TickerOf[trades[i].cand], CloseSide(i), trades[i].fill)
        \/ SubmitRaised(CloseOrderId(i), TickerOf[trades[i].cand], CloseSide(i), trades[i].fill)
    BY <1>3 DEF SubmitClose, SubmitCloseRaised, CloseQty
  <2> QED
    BY <1>2, <2>2, <2>3, <2>4
<1>4. CASE SubmitEntry(p) \/ SubmitEntryRaised(p)
  <2> DEFINE c == pick[p]
  <2>1. c \in Cands /\ size[p] \in 1..FullQty
    BY <1>1, <1>4 DEF SubmitEntry, SubmitEntryRaised, At, ProcessSound, BookFits
  <2>2. Proper(EntryOrderId(c), TickerOf[c], SideOf[c], size[p])
    BY <2>1, TickerOfAssumption, SideOfAssumption, QtyAssumption
    DEF Proper, EntryOrderId, OrderIds, RequestSound, RequestFits
  <2>3. trades' = trades
    BY <1>4 DEF SubmitEntry, SubmitEntryRaised, journalVars
  <2>4. \/ SubmitAnswered(EntryOrderId(c), TickerOf[c], SideOf[c], size[p])
        \/ SubmitRaised(EntryOrderId(c), TickerOf[c], SideOf[c], size[p])
    BY <1>4 DEF SubmitEntry, SubmitEntryRaised
  <2> QED
    BY <1>2, <2>2, <2>3, <2>4
<1> QED
  BY <1>3, <1>4

(* What the broker does on its own. *)
LEMMA BrokerKind ==
  ASSUME IInv, BookFits, Broker \/ NextDay
  PROVE  /\ trades' = trades /\ inflight' \subseteq inflight
         /\ \/ BookKept
            \/ \E id \in Placed : Fills(id)
            \/ \E id, ticker, side, qty :
                 Proper(id, ticker, side, qty) /\ Places(id, ticker, side, qty)
<1>1. orders \in [Placed -> Order] /\ inflight \subseteq Request
  BY DEF IInv, TypeOK
<1>2. \A x \in Placed : orders[x] \in Order
  BY <1>1
<1>3. trades' = trades /\ inflight' \subseteq inflight
  BY DEF Broker, NextDay, Fill, FillUnit, CancelRest, Deliver, MarketClose, journalVars
<1>4. ASSUME NEW r \in inflight, Deliver(r)
      PROVE  BookKept \/ \E id, ticker, side, qty :
               Proper(id, ticker, side, qty) /\ Places(id, ticker, side, qty)
  <2>1. Proper(r.id, r.ticker, r.side, r.qty)
    BY <1>1 DEF Proper, Request, IInv, OrdersSound, BookFits
  <2>2. orders' = BookWith(r.id, r.ticker, r.side, r.qty)
    BY <1>4 DEF Deliver
  <2>3. BookKept \/ Places(r.id, r.ticker, r.side, r.qty)
    BY <2>2, BookAfter
  <2> QED
    BY <2>1, <2>3
<1>5. ASSUME NEW id \in Placed, Fill(id)
      PROVE  Fills(id)
  <2>1. orders' = [orders EXCEPT ![id].filled = @ + 1]
    BY <1>5 DEF Fill, FillUnit
  <2>2. orders[id].filled < orders[id].qty
    BY <1>5 DEF Fill, FillUnit
  <2> QED
    BY <1>1, <1>2, <2>1, <2>2 DEF Fills, SameTerms, Placed, Order
<1>6. ASSUME NEW id \in Placed, CancelRest(id)
      PROVE  BookKept
  <2>1. orders' = [orders EXCEPT ![id].live = FALSE]
    BY <1>6 DEF CancelRest
  <2> QED
    BY <1>1, <1>2, <2>1 DEF BookKept, SameTerms, Placed, Order
<1>7. ASSUME MarketClose
      PROVE  BookKept
  BY <1>1, <1>2, <1>7 DEF MarketClose, BookKept, SameTerms, Placed, Order
<1> QED
  BY <1>3, <1>4, <1>5, <1>6, <1>7 DEF Broker, NextDay

(* The three steps that write to the trades table. *)
Writes(p) == RecordTrade(p) \/ RecordFill(p) \/ JournalClose(p)

(* Every other step of a process or of the operator leaves both alone. *)
LEMMA QuietKind ==
  ASSUME \/ Operator
         \/ \E p \in Procs :
              /\ Step(p) \/ Crash(p)
              /\ ~(SubmitClose(p) \/ SubmitCloseRaised(p)
                   \/ SubmitEntry(p) \/ SubmitEntryRaised(p) \/ Writes(p))
         \/ UNCHANGED vars
  PROVE  trades' = trades /\ orders' = orders /\ inflight' = inflight
<1> USE DEF sharedVars, brokerVars, journalVars, vars
<1>1. CASE Operator \/ UNCHANGED vars
  BY <1>1 DEF Operator
<1>2. ASSUME NEW p \in Procs, Crash(p) \/ StartCycle(p) \/ EndCycle(p) \/ AbandonRow(p)
                 \/ \E s \in Strategies : TakeRow(p, s) \/ SkipRow(p, s)
      PROVE  trades' = trades /\ orders' = orders /\ inflight' = inflight
  BY <1>2 DEF Crash, StartCycle, EndCycle, AbandonRow, TakeRow, SkipRow
<1>3. ASSUME NEW p \in Procs, ListAccepted(p)
                 \/ \E i \in TradeIds : HoldTrade(p, i) \/ ExitSignal(p, i)
      PROVE  trades' = trades /\ orders' = orders /\ inflight' = inflight
  BY <1>3 DEF ListAccepted, HoldTrade, ExitSignal
<1>4. ASSUME NEW p \in Procs,
             \/ EndRow(p) \/ EquityUnavailable(p)
             \/ \E c \in Cands : SkipCandidate(p, c) \/ PickCandidate(p, c)
             \/ ApproveEntry(p) \/ RefuseEntry(p) \/ EntryRaised(p)
             \/ RecordTradeRaised(p) \/ FillPollTimeout(p)
      PROVE  trades' = trades /\ orders' = orders /\ inflight' = inflight
  BY <1>4 DEF EndRow, EquityUnavailable, SkipCandidate, PickCandidate, ApproveEntry,
     RefuseEntry, EntryRaised, RecordTradeRaised, FillPollTimeout
<1> QED
  BY <1>1, <1>2, <1>3, <1>4 DEF Step, Exits, Entries, Writes

(* So a step writes to the trades table and leaves the book alone, or      *)
(* changes at most one order.                                              *)
LEMMA StepKinds ==
  ASSUME IInv, BookFits, [Next]_vars
  PROVE  \/ /\ trades' = trades
            /\ \/ BookKept
               \/ \E id \in Placed : Fills(id)
               \/ \E id, ticker, side, qty :
                    Proper(id, ticker, side, qty) /\ Places(id, ticker, side, qty)
         \/ BookKept /\ \E p \in Procs : Writes(p)
<1>1. ASSUME trades' = trades, orders' = orders PROVE BookKept
  BY <1>1 DEF BookKept, SameTerms, Placed
<1>2. ASSUME NEW p \in Procs, Writes(p) PROVE BookKept
  BY <1>2 DEF Writes, RecordTrade, RecordFill, JournalClose, brokerVars, BookKept,
     SameTerms, Placed
<1>3. ASSUME NEW p \in Procs,
             SubmitClose(p) \/ SubmitCloseRaised(p) \/ SubmitEntry(p) \/ SubmitEntryRaised(p)
      PROVE  /\ trades' = trades
             /\ BookKept \/ \E id, ticker, side, qty :
                  Proper(id, ticker, side, qty) /\ Places(id, ticker, side, qty)
  BY <1>3, SubmitKind
<1> QED
  BY <1>1, <1>2, <1>3, BrokerKind, QuietKind DEF Next

-----------------------------------------------------------------------------
(* BookFits holds.                                                         *)

(* What a write to the trades table does to the rows. *)
LEMMA WriteKinds ==
  ASSUME IInv, NEW p \in Procs, Writes(p)
  PROVE  /\ TradeIds \subseteq TradeIds'
         /\ \A i \in TradeIds : trades'[i].cand = trades[i].cand
         /\ inflight' = inflight
         /\ pc'[p] # "submit" /\ \A q \in Procs \ {p} : pc'[q] = pc[q] /\ size'[q] = size[q]
<1>1. TablesTyped /\ ProcsTyped /\ ProcessSound(p) /\ trades \in Seq(Trade) /\ today \in Nat
  BY TypeParts DEF IInv, ProcessesSound, TablesTyped
<1>2. /\ inflight' = inflight
      /\ pc'[p] # "submit" /\ \A q \in Procs \ {p} : pc'[q] = pc[q] /\ size'[q] = size[q]
  BY <1>1 DEF Writes, RecordTrade, RecordFill, JournalClose, brokerVars, ProcsTyped
<1>3. CASE RecordTrade(p)
  <2>1. /\ pick[p] \in Cands /\ size[p] \in Nat /\ EntryOrderId(pick[p]) \in OrderIds
        /\ CreateTrade(pick[p], EntryOrderId(pick[p]), size[p])
    BY <1>1, <1>3 DEF RecordTrade, At, ProcessSound, ProcsTyped, EntryOrderId, OrderIds
  <2> QED
    BY <1>1, <1>2, <2>1, CreateTradeRow
<1>4. CASE RecordFill(p)
  <2>1. held[p] \in TradeIds /\ EntryOrderId(pick[p]) \in Placed
    BY <1>1, <1>4 DEF RecordFill, At, ProcessSound
  <2>2. \E f \in Nat : FillTrade(held[p], f)
    BY <1>1, <1>4, <2>1 DEF RecordFill, TablesTyped, Order
  <2> QED
    BY <1>1, <1>2, <2>1, <2>2, WriteTradeRow
<1>5. CASE JournalClose(p)
  <2>1. held[p] \in TradeIds /\ \E loss \in BOOLEAN : CloseTrade(held[p], loss)
    BY <1>1, <1>5 DEF JournalClose, At, ProcessSound
  <2> QED
    BY <1>1, <1>2, <2>1, WriteTradeRow
<1> QED
  BY <1>3, <1>4, <1>5 DEF Writes

(* Rows keep their candidates. *)
LEMMA RowsStay ==
  ASSUME IInv, BookFits, [Next]_vars
  PROVE  /\ TradeIds \subseteq TradeIds'
         /\ \A i \in TradeIds : trades'[i].cand = trades[i].cand
<1>1. ASSUME trades' = trades
      PROVE  /\ TradeIds \subseteq TradeIds'
             /\ \A i \in TradeIds : trades'[i].cand = trades[i].cand
  BY <1>1 DEF TradeIds
<1> QED
  BY <1>1, StepKinds, WriteKinds

(* So what fits keeps fitting. *)
LEMMA FitsStays ==
  ASSUME IInv, BookFits, [Next]_vars,
         NEW id, NEW ticker, NEW side, NEW qty, RequestFits(id, ticker, side, qty)
  PROVE  RequestFits(id, ticker, side, qty)'
BY RowsStay DEF RequestFits, CloseSide, CloseOrderId, EntryOrderId

(* Requests on the wire are proper ones. *)
LEMMA WireFits ==
  ASSUME IInv, BookFits, [Next]_vars
  PROVE  \A r \in inflight' : RequestFits(r.id, r.ticker, r.side, r.qty)
<1>1. ASSUME inflight' \subseteq inflight
      PROVE  \A r \in inflight' : RequestFits(r.id, r.ticker, r.side, r.qty)
  BY <1>1 DEF BookFits
<1>2. ASSUME NEW p \in Procs,
             SubmitClose(p) \/ SubmitCloseRaised(p) \/ SubmitEntry(p) \/ SubmitEntryRaised(p)
      PROVE  \A r \in inflight' : RequestFits(r.id, r.ticker, r.side, r.qty)
  <2>1. PICK id, ticker, side, qty :
          /\ RequestFits(id, ticker, side, qty)
          /\ inflight' \subseteq inflight \cup
               {[id |-> id, ticker |-> ticker, side |-> side, qty |-> qty]}
    BY <1>2, SubmitKind DEF Proper
  <2>2. \A r \in inflight : RequestFits(r.id, r.ticker, r.side, r.qty)
    BY DEF BookFits
  <2> QED
    BY <2>1, <2>2
<1>3. ASSUME NEW p \in Procs, Writes(p)
      PROVE  inflight' \subseteq inflight
  BY <1>3, WriteKinds
<1> QED
  BY <1>1, <1>2, <1>3, BrokerKind, QuietKind DEF Next

(* The quantity of an entry is fixed when it is approved. *)
LEMMA SizeFits ==
  ASSUME IInv, BookFits, [Next]_vars
  PROVE  \A p \in Procs : pc'[p] = "submit" => size'[p] \in 1..FullQty
<1> SUFFICES ASSUME NEW p \in Procs, pc'[p] = "submit"
             PROVE  size'[p] \in 1..FullQty
  OBVIOUS
<1> USE DEF sharedVars, brokerVars, journalVars, controlVars, loopVars, workVars,
            procVars, vars
<1>1. ProcsTyped
  BY TypeParts DEF IInv
<1>2. CASE pc'[p] = pc[p] /\ size'[p] = size[p]
  BY <1>2 DEF BookFits
<1>3. ASSUME NEW q \in Procs, Step(q) \/ Crash(q), q # p
      PROVE  pc'[p] = pc[p] /\ size'[p] = size[p]
  <2>1. CASE \/ Crash(q) \/ StartCycle(q) \/ EndCycle(q) \/ AbandonRow(q)
             \/ \E s \in Strategies : TakeRow(q, s) \/ SkipRow(q, s)
    BY <1>1, <1>3, <2>1 DEF ProcsTyped, Crash, StartCycle, EndCycle, AbandonRow, TakeRow, SkipRow
  <2>2. CASE Exits(q)
    BY <1>1, <1>3, <2>2 DEF ProcsTyped, Exits, HoldTrade, ExitSignal, SubmitClose,
       SubmitCloseRaised, JournalClose, ListAccepted
  <2>3. CASE Entries(q)
    BY <1>1, <1>3, <2>3 DEF ProcsTyped, Entries, EndRow, EquityUnavailable, SkipCandidate,
       PickCandidate, ApproveEntry, RefuseEntry, EntryRaised, SubmitEntry,
       SubmitEntryRaised, RecordTrade, RecordTradeRaised, RecordFill, FillPollTimeout
  <2> QED
    BY <1>3, <2>1, <2>2, <2>3 DEF Step
<1>4. CASE ApproveEntry(p)
  BY <1>1, <1>4, QtyAssumption DEF ApproveEntry, EntryQty, ProcsTyped
<1>5. ASSUME Step(p) \/ Crash(p), ~ApproveEntry(p)
      PROVE  pc'[p] = pc[p] /\ size'[p] = size[p]
  <2>1. CASE \/ Crash(p) \/ StartCycle(p) \/ EndCycle(p) \/ AbandonRow(p)
             \/ \E s \in Strategies : TakeRow(p, s) \/ SkipRow(p, s)
    BY <1>1, <2>1 DEF ProcsTyped, Crash, StartCycle, EndCycle, AbandonRow, TakeRow, SkipRow
  <2>2. CASE Exits(p)
    BY <1>1, <2>2 DEF ProcsTyped, Exits, HoldTrade, ExitSignal, SubmitClose,
       SubmitCloseRaised, JournalClose, ListAccepted
  <2>3. CASE Entries(p)
    BY <1>1, <1>5, <2>3 DEF ProcsTyped, Entries, EndRow, EquityUnavailable, SkipCandidate,
       PickCandidate, RefuseEntry, EntryRaised, SubmitEntry,
       SubmitEntryRaised, RecordTrade, RecordTradeRaised, RecordFill, FillPollTimeout
  <2> QED
    BY <1>5, <2>1, <2>2, <2>3 DEF Step
<1>6. ASSUME Operator \/ Broker \/ NextDay \/ UNCHANGED vars
      PROVE  pc'[p] = pc[p] /\ size'[p] = size[p]
  BY <1>6 DEF Operator, Broker, NextDay, Fill
<1> QED
  BY <1>2, <1>3, <1>4, <1>5, <1>6 DEF Next

(* The book starts empty and stays fit. *)
LEMMA BookFitsInit == Init => BookFits
BY FS_EmptySet DEF Init, BrokerInit, BookFits, Placed

(* No step makes the book unfit. *)
LEMMA BookFitsNext ==
  ASSUME IInv, BookFits, [Next]_vars
  PROVE  BookFits'
<1> DEFINE Fit(x) == /\ RequestFits(x, orders[x].ticker, orders[x].side, orders[x].qty)
                     /\ orders[x].filled <= orders[x].qty
<1>1. orders \in [Placed -> Order] /\ \A x \in Placed : orders[x].filled \in Nat /\ orders[x].qty \in Nat
  BY DEF IInv, TypeOK, Order
<1>2. \A r \in inflight' : RequestFits(r.id, r.ticker, r.side, r.qty)'
  BY WireFits, FitsStays
<1>3. ASSUME BookKept
      PROVE  IsFiniteSet(Placed') /\ \A x \in Placed' : Fit(x)'
  <2>1. \A x \in Placed' :
          /\ RequestFits(x, orders'[x].ticker, orders'[x].side, orders'[x].qty)
          /\ orders'[x].filled <= orders'[x].qty
    BY <1>3 DEF BookKept, SameTerms, BookFits
  <2>2. IsFiniteSet(Placed')
    BY <1>3 DEF BookKept, BookFits
  <2> QED
    BY <2>1, <2>2, FitsStays
<1>4. ASSUME NEW id \in Placed, Fills(id)
      PROVE  IsFiniteSet(Placed') /\ \A x \in Placed' : Fit(x)'
  <2>1. \A x \in Placed' :
          /\ RequestFits(x, orders'[x].ticker, orders'[x].side, orders'[x].qty)
          /\ orders'[x].filled <= orders'[x].qty
    BY <1>1, <1>4 DEF Fills, SameTerms, BookFits
  <2>2. IsFiniteSet(Placed')
    BY <1>4 DEF Fills, BookFits
  <2> QED
    BY <2>1, <2>2, FitsStays
<1>5. ASSUME NEW id, NEW ticker, NEW side, NEW qty,
             Proper(id, ticker, side, qty), Places(id, ticker, side, qty)
      PROVE  IsFiniteSet(Placed') /\ \A x \in Placed' : Fit(x)'
  <2>1. /\ orders'[id].ticker = ticker /\ orders'[id].side = side
        /\ orders'[id].qty = qty /\ orders'[id].filled = 0
    BY <1>5 DEF Places, NewOrder
  <2>2. \A x \in Placed' :
          /\ RequestFits(x, orders'[x].ticker, orders'[x].side, orders'[x].qty)
          /\ orders'[x].filled <= orders'[x].qty
    BY <1>5, <2>1 DEF Places, Proper, BookFits
  <2>3. IsFiniteSet(Placed')
    BY <1>5, FS_AddElement DEF Places, BookFits
  <2> QED
    BY <2>2, <2>3, FitsStays
<1>6. IsFiniteSet(Placed') /\ \A x \in Placed' : Fit(x)'
  <2> HIDE DEF Fit
  <2> QED
    BY <1>3, <1>4, <1>5, StepKinds
<1> QED
  BY <1>2, <1>6, SizeFits DEF BookFits

(* Every reachable state has a fit book: entry and exit of a candidate are *)
(* of one ticker and of opposite sides, no order is filled beyond its      *)
(* quantity, and no entry is beyond FullQty (executor.py:100-126, 225-247).*)
THEOREM BookStaysFit == Spec => [](IInv /\ BookFits)
<1>1. IInv /\ BookFits /\ [Next]_vars => IInv' /\ BookFits'
  BY NextInv, BookFitsNext
<1> QED
  BY <1>1, InitInv, BookFitsInit, PTL DEF Spec

-----------------------------------------------------------------------------
(* The position of a candidate, order by order.                            *)

(* What an order id stands for in the book: nothing before it is placed. *)
QtyOf(id) == IF id \in Placed THEN orders[id].qty ELSE 0
FilledOf(id) == IF id \in Placed THEN orders[id].filled ELSE 0

Pos(o, b, p, r, a, s, x) ==
  [ordered |-> o, entered |-> b, opened |-> p, recorded |-> r,
   asked |-> a, exited |-> s, closed |-> x]

(* The position of a candidate traded in row i, and of one with no trade. *)
TradedAs(c, i) ==
  Pos(QtyOf(EntryOrderId(c)), FilledOf(EntryOrderId(c)), TRUE, trades[i].fill,
      QtyOf(CloseOrderId(i)), FilledOf(CloseOrderId(i)), trades[i].closed)

Untraded(c) ==
  Pos(QtyOf(EntryOrderId(c)), FilledOf(EntryOrderId(c)), FALSE, 0, 0, 0, FALSE)

PositionShapes ==
  \A c \in Cands :
    /\ \A i \in TradeIds : trades[i].cand = c => Position(c) = TradedAs(c, i)
    /\ ~TradedAlready(c) => Position(c) = Untraded(c)

(* One trade for a candidate at most, so its position has one shape. *)
LEMMA Shapes == IInv => PositionShapes
<1> SUFFICES ASSUME IInv, NEW c \in Cands
             PROVE  /\ \A i \in TradeIds :
                         trades[i].cand = c => Position(c) = TradedAs(c, i)
                    /\ ~TradedAlready(c) => Position(c) = Untraded(c)
  BY DEF PositionShapes
<1>1. ASSUME NEW i \in TradeIds, trades[i].cand = c
      PROVE  Position(c) = TradedAs(c, i)
  <2>1. TradeOf(c) = i /\ TradedAlready(c)
    BY <1>1 DEF TradeOf, TradedAlready, IInv, OneTradePerCandidate
  <2>2. trades[i] \in Trade
    BY DEF IInv, TypeOK, TradeIds
  <2>3. trades[i].closed \in BOOLEAN
    BY <2>2 DEF Trade
  <2> QED
    BY <2>1, <2>3 DEF Position, TradedAs, Pos, QtyOf, FilledOf
<1>2. ASSUME ~TradedAlready(c)
      PROVE  Position(c) = Untraded(c)
  <2>1. TradedAlready(c) = FALSE
    BY <1>2 DEF TradedAlready
  <2>2. (TradedAlready(c) /\ trades[TradeOf(c)].closed) = FALSE
    BY <2>1
  <2> QED
    BY <2>1, <2>2 DEF Position, Untraded, Pos, QtyOf, FilledOf
<1> QED
  BY <1>1, <1>2

(* The same after a step. *)
LEMMA ShapesNext == IInv' => PositionShapes'
BY Shapes, PTL

-----------------------------------------------------------------------------
(* Steps of the detailed specification as steps of the ledger.             *)

SameOrder(id) == QtyOf(id)' = QtyOf(id) /\ FilledOf(id)' = FilledOf(id)

SameRow(i) == /\ i \in TradeIds'
              /\ trades'[i].cand = trades[i].cand
              /\ trades'[i].fill = trades[i].fill
              /\ trades'[i].closed = trades[i].closed

(* What touches neither a candidate's row nor its orders leaves its        *)
(* position as it is.                                                      *)
LEMMA PositionKept ==
  ASSUME IInv, IInv', NEW d \in Cands, SameOrder(EntryOrderId(d)),
         \A i \in TradeIds : trades[i].cand = d => SameRow(i) /\ SameOrder(CloseOrderId(i)),
         TradedAlready(d)' => TradedAlready(d)
  PROVE  Position(d)' = Position(d)
<1>1. PositionShapes /\ PositionShapes'
  BY Shapes, ShapesNext
<1>2. CASE TradedAlready(d)
  <2>1. PICK i \in TradeIds : trades[i].cand = d
    BY <1>2 DEF TradedAlready
  <2>2. Position(d) = TradedAs(d, i) /\ Position(d)' = TradedAs(d, i)'
    BY <1>1, <2>1 DEF PositionShapes, SameRow
  <2> QED
    BY <2>1, <2>2 DEF TradedAs, SameRow, SameOrder, EntryOrderId, CloseOrderId
<1>3. CASE ~TradedAlready(d)
  <2>1. Position(d) = Untraded(d) /\ Position(d)' = Untraded(d)'
    BY <1>1, <1>3 DEF PositionShapes
  <2> QED
    BY <2>1 DEF Untraded, SameOrder, EntryOrderId
<1> QED
  BY <1>2, <1>3

(* A step of the ledger that changes one candidate's position, given field *)
(* by field.                                                               *)
Moves(c, o, b, p, r, a, s, x) ==
  \/ Position(c)' = Position(c)
  \/ \E n \in 1..FullQty : o = 0 /\ Position(c)' = Pos(n, b, p, r, a, s, x)
  \/ b < o /\ Position(c)' = Pos(o, b + 1, p, r, a, s, x)
  \/ o > 0 /\ ~p /\ Position(c)' = Pos(o, b, TRUE, r, a, s, x)
  \/ p /\ r = 0 /\ Position(c)' = Pos(o, b, p, b, a, s, x)
  \/ a = 0 /\ Position(c)' = Pos(o, b, p, r, r, s, x)
  \/ s < a /\ Position(c)' = Pos(o, b, p, r, a, s + 1, x)
  \/ a > 0 /\ ~x /\ Position(c)' = Pos(o, b, p, r, a, s, TRUE)

(* Every step of the detailed specification is one of these. *)
LedgerStep ==
  Ledger!Next \/ [c \in Cands |-> Position(c)]' = [c \in Cands |-> Position(c)]

(* One candidate's position moved the way the ledger allows. *)
LEMMA LedgerMoves ==
  ASSUME NEW c \in Cands, \A d \in Cands \ {c} : Position(d)' = Position(d),
         NEW o, NEW b, NEW p, NEW r, NEW a, NEW s, NEW x,
         Position(c) = Pos(o, b, p, r, a, s, x), Moves(c, o, b, p, r, a, s, x)
  PROVE  LedgerStep
<1> DEFINE book == [d \in Cands |-> Position(d)]
<1>1. \A y : Position(c)' = y => book' = [book EXCEPT ![c] = y]
  <2> SUFFICES ASSUME NEW y, Position(c)' = y PROVE book' = [book EXCEPT ![c] = y]
    OBVIOUS
  <2> QED
    OBVIOUS
<1>2. book[c] = Pos(o, b, p, r, a, s, x)
  OBVIOUS
<1>3. ASSUME Position(c)' = Position(c) PROVE LedgerStep
  BY <1>3 DEF LedgerStep
<1> HIDE DEF book
<1>4. ASSUME NEW n \in 1..FullQty, o = 0, Position(c)' = Pos(n, b, p, r, a, s, x)
      PROVE  Ledger!Order(c, n)
  BY <1>1, <1>2, <1>4 DEF Ledger!Order, book, Pos
<1>5. ASSUME b < o, Position(c)' = Pos(o, b + 1, p, r, a, s, x)
      PROVE  Ledger!Enter(c)
  BY <1>1, <1>2, <1>5 DEF Ledger!Enter, book, Pos
<1>6. ASSUME o > 0, ~p, Position(c)' = Pos(o, b, TRUE, r, a, s, x)
      PROVE  Ledger!Open(c)
  BY <1>1, <1>2, <1>6 DEF Ledger!Open, book, Pos
<1>7. ASSUME p, r = 0, Position(c)' = Pos(o, b, p, b, a, s, x)
      PROVE  Ledger!Record(c)
  BY <1>1, <1>2, <1>7 DEF Ledger!Record, book, Pos
<1>8. ASSUME a = 0, Position(c)' = Pos(o, b, p, r, r, s, x)
      PROVE  Ledger!AskToExit(c)
  BY <1>1, <1>2, <1>8 DEF Ledger!AskToExit, book, Pos
<1>9. ASSUME s < a, Position(c)' = Pos(o, b, p, r, a, s + 1, x)
      PROVE  Ledger!Exit(c)
  BY <1>1, <1>2, <1>9 DEF Ledger!Exit, book, Pos
<1>10. ASSUME a > 0, ~x, Position(c)' = Pos(o, b, p, r, a, s, TRUE)
      PROVE  Ledger!Close(c)
  BY <1>1, <1>2, <1>10 DEF Ledger!Close, book, Pos
<1>11. ASSUME \/ \E n \in 1..FullQty : Ledger!Order(c, n)
              \/ Ledger!Enter(c) \/ Ledger!Open(c) \/ Ledger!Record(c)
              \/ Ledger!AskToExit(c) \/ Ledger!Exit(c) \/ Ledger!Close(c)
       PROVE  LedgerStep
  BY <1>11 DEF LedgerStep, Ledger!Next
<1> QED
  BY <1>3, <1>4, <1>5, <1>6, <1>7, <1>8, <1>9, <1>10, <1>11 DEF Moves

(* Orders that a step of the book does not name stay as they are. *)
LEMMA OrdersSame ==
  /\ BookKept => \A id : SameOrder(id)
  /\ \A x, id : id \in Placed /\ Fills(id) /\ x # id => SameOrder(x)
  /\ \A x, id, ticker, side, qty : Places(id, ticker, side, qty) /\ x # id => SameOrder(x)
BY DEF BookKept, Fills, Places, SameTerms, SameOrder, QtyOf, FilledOf

(* The ids of two candidates' orders are different. *)
LEMMA IdsApart ==
  /\ \A c, d : EntryOrderId(c) = EntryOrderId(d) => c = d
  /\ \A i, j : CloseOrderId(i) = CloseOrderId(j) => i = j
  /\ \A c, i : EntryOrderId(c) # CloseOrderId(i)
BY DEF EntryOrderId, CloseOrderId

(* Rows stay as they are when the table does. *)
LEMMA RowsSame == trades' = trades => /\ \A i \in TradeIds : SameRow(i)
                                      /\ \A c : TradedAlready(c)' = TradedAlready(c)
BY DEF SameRow, TradeIds, TradedAlready

(* One more unit of an order is filled. *)
OneMore(id) ==
  /\ QtyOf(id)' = QtyOf(id) /\ FilledOf(id)' = FilledOf(id) + 1
  /\ FilledOf(id) < QtyOf(id)

(* The rows are typed. *)
LEMMA RowTyped ==
  ASSUME IInv, NEW i \in TradeIds
  PROVE  trades[i] \in Trade /\ trades[i].cand \in Cands /\ trades[i].fill \in Nat
<1>1. trades[i] \in Trade
  BY DEF IInv, TypeOK, TradeIds
<1> QED
  BY <1>1 DEF Trade

(* A fill at the broker opens or closes one unit of one position. *)
LEMMA FillMoves ==
  ASSUME IInv, BookFits, IInv', NEW id \in Placed, Fills(id), trades' = trades
  PROVE  LedgerStep
<1>1. orders \in [Placed -> Order] /\ \A x \in Placed : orders[x].filled \in Nat
  BY DEF IInv, TypeOK, Order
<1>2. PositionShapes /\ PositionShapes'
  BY Shapes, ShapesNext
<1>3. \A i \in TradeIds : SameRow(i)
  BY RowsSame
<1>4. \A x : x # id => SameOrder(x)
  BY OrdersSame
<1>5. OneMore(id)
  BY <1>1 DEF Fills, SameTerms, QtyOf, FilledOf, OneMore
<1>6. CASE \E c \in Cands : id = EntryOrderId(c)
  <2>1. PICK c \in Cands : id = EntryOrderId(c)
    BY <1>6
  <2>2. \A d \in Cands \ {c} : Position(d)' = Position(d)
    BY <1>3, <1>4, <2>1, IdsApart, PositionKept, RowsSame
  <2>3. OneMore(EntryOrderId(c))
    BY <1>5, <2>1
  <2>4. CASE TradedAlready(c)
    <3>1. PICK i \in TradeIds : trades[i].cand = c
      BY <2>4 DEF TradedAlready
    <3>2. Position(c) = TradedAs(c, i) /\ Position(c)' = TradedAs(c, i)'
      BY <1>2, <1>3, <3>1 DEF PositionShapes, SameRow
    <3>3. SameOrder(CloseOrderId(i)) /\ SameRow(i)
      BY <1>3, <1>4, <2>1, IdsApart
    <3>4. Moves(c, QtyOf(EntryOrderId(c)), FilledOf(EntryOrderId(c)), TRUE,
                trades[i].fill, QtyOf(CloseOrderId(i)), FilledOf(CloseOrderId(i)),
                trades[i].closed)
      BY <2>3, <3>2, <3>3
      DEF Moves, TradedAs, SameRow, SameOrder, OneMore, EntryOrderId, CloseOrderId
    <3> QED
      BY <2>2, <3>2, <3>4, LedgerMoves DEF TradedAs
  <2>5. CASE ~TradedAlready(c)
    <3>1. Position(c) = Untraded(c) /\ Position(c)' = Untraded(c)'
      BY <1>2, <2>5, RowsSame DEF PositionShapes
    <3>2. Moves(c, QtyOf(EntryOrderId(c)), FilledOf(EntryOrderId(c)), FALSE, 0, 0, 0, FALSE)
      BY <2>3, <3>1 DEF Moves, Untraded, OneMore, EntryOrderId
    <3> QED
      BY <2>2, <3>1, <3>2, LedgerMoves DEF Untraded
  <2> QED
    BY <2>4, <2>5
<1>7. CASE \E i \in TradeIds : id = CloseOrderId(i)
  <2>1. PICK i \in TradeIds : id = CloseOrderId(i)
    BY <1>7
  <2>2. PICK c \in Cands : c = trades[i].cand
    BY RowTyped
  <2>3. \A d \in Cands \ {c} : Position(d)' = Position(d)
    BY <1>3, <1>4, <2>1, <2>2, IdsApart, PositionKept, RowsSame
  <2>4. Position(c) = TradedAs(c, i) /\ Position(c)' = TradedAs(c, i)'
    BY <1>2, <1>3, <2>2 DEF PositionShapes, SameRow
  <2>5. SameOrder(EntryOrderId(c)) /\ SameRow(i) /\ OneMore(CloseOrderId(i))
    BY <1>3, <1>4, <1>5, <2>1, IdsApart
  <2>6. Moves(c, QtyOf(EntryOrderId(c)), FilledOf(EntryOrderId(c)), TRUE,
              trades[i].fill, QtyOf(CloseOrderId(i)), FilledOf(CloseOrderId(i)),
              trades[i].closed)
    BY <2>4, <2>5
    DEF Moves, TradedAs, SameRow, SameOrder, OneMore, EntryOrderId, CloseOrderId
  <2> QED
    BY <2>3, <2>4, <2>6, LedgerMoves DEF TradedAs
<1> QED
  BY <1>6, <1>7 DEF BookFits, RequestFits

(* An order that was not there before this step. *)
NewHere(id, qty) ==
  /\ QtyOf(id) = 0 /\ FilledOf(id) = 0
  /\ QtyOf(id)' = qty /\ FilledOf(id)' = 0

(* A new order at the broker is a candidate's entry or a trade's exit. *)
LEMMA PlaceMoves ==
  ASSUME IInv, BookFits, IInv', trades' = trades,
         NEW id, NEW ticker, NEW side, NEW qty,
         Proper(id, ticker, side, qty), Places(id, ticker, side, qty)
  PROVE  LedgerStep
<1>1. PositionShapes /\ PositionShapes'
  BY Shapes, ShapesNext
<1>2. \A i \in TradeIds : SameRow(i)
  BY RowsSame
<1>3. \A x : x # id => SameOrder(x)
  BY OrdersSame
<1>4. NewHere(id, qty)
  BY DEF Places, NewOrder, QtyOf, FilledOf, NewHere
<1>5. CASE \E c \in Cands : id = EntryOrderId(c)
  <2>1. PICK c \in Cands : id = EntryOrderId(c)
    BY <1>5
  <2>2. \A d \in Cands \ {c} : Position(d)' = Position(d)
    BY <1>2, <1>3, <2>1, IdsApart, PositionKept, RowsSame
  <2>3. NewHere(EntryOrderId(c), qty) /\ qty \in 1..FullQty
    BY <1>4, <2>1, IdsApart DEF Proper, RequestFits
  <2>4. CASE TradedAlready(c)
    <3>1. PICK i \in TradeIds : trades[i].cand = c
      BY <2>4 DEF TradedAlready
    <3>2. Position(c) = TradedAs(c, i) /\ Position(c)' = TradedAs(c, i)'
      BY <1>1, <1>2, <3>1 DEF PositionShapes, SameRow
    <3>3. SameOrder(CloseOrderId(i)) /\ SameRow(i)
      BY <1>2, <1>3, <2>1, IdsApart
    <3>4. Moves(c, QtyOf(EntryOrderId(c)), FilledOf(EntryOrderId(c)), TRUE,
                trades[i].fill, QtyOf(CloseOrderId(i)), FilledOf(CloseOrderId(i)),
                trades[i].closed)
      BY <2>3, <3>2, <3>3
      DEF Moves, TradedAs, SameRow, SameOrder, NewHere, EntryOrderId, CloseOrderId
    <3> QED
      BY <2>2, <3>2, <3>4, LedgerMoves DEF TradedAs
  <2>5. CASE ~TradedAlready(c)
    <3>1. Position(c) = Untraded(c) /\ Position(c)' = Untraded(c)'
      BY <1>1, <2>5, RowsSame DEF PositionShapes
    <3>2. Moves(c, QtyOf(EntryOrderId(c)), FilledOf(EntryOrderId(c)), FALSE, 0, 0, 0, FALSE)
      BY <2>3, <3>1 DEF Moves, Untraded, NewHere, EntryOrderId
    <3> QED
      BY <2>2, <3>1, <3>2, LedgerMoves DEF Untraded
  <2> QED
    BY <2>4, <2>5
<1>6. CASE \E i \in TradeIds : id = CloseOrderId(i)
  <2>1. PICK i \in TradeIds : id = CloseOrderId(i) /\ qty = trades[i].fill
    BY <1>6, IdsApart DEF Proper, RequestSound
  <2>2. PICK c \in Cands : c = trades[i].cand
    BY RowTyped
  <2>3. \A d \in Cands \ {c} : Position(d)' = Position(d)
    BY <1>2, <1>3, <2>1, <2>2, IdsApart, PositionKept, RowsSame
  <2>4. Position(c) = TradedAs(c, i) /\ Position(c)' = TradedAs(c, i)'
    BY <1>1, <1>2, <2>2 DEF PositionShapes, SameRow
  <2>5. SameOrder(EntryOrderId(c)) /\ SameRow(i) /\ NewHere(CloseOrderId(i), qty)
    BY <1>2, <1>3, <1>4, <2>1, IdsApart
  <2>6. Moves(c, QtyOf(EntryOrderId(c)), FilledOf(EntryOrderId(c)), TRUE,
              trades[i].fill, QtyOf(CloseOrderId(i)), FilledOf(CloseOrderId(i)),
              trades[i].closed)
    BY <2>1, <2>4, <2>5
    DEF Moves, TradedAs, SameRow, SameOrder, NewHere, EntryOrderId, CloseOrderId
  <2> QED
    BY <2>3, <2>4, <2>6, LedgerMoves DEF TradedAs
<1> QED
  BY <1>5, <1>6 DEF Proper, RequestFits

(* create_trade opens the position of its candidate. *)
LEMMA OpenMoves ==
  ASSUME IInv, BookFits, IInv', NEW p \in Procs, RecordTrade(p), BookKept
  PROVE  LedgerStep
<1>1. TablesTyped /\ ProcsTyped /\ ProcessSound(p) /\ PositionShapes /\ PositionShapes'
  BY TypeParts, Shapes, ShapesNext DEF IInv, ProcessesSound
<1>2. PICK c \in Cands : c = pick[p] /\ EntryOrderId(c) \in Placed
  BY <1>1 DEF RecordTrade, At, ProcessSound, ProcsTyped
<1> PICK n : n = Len(trades) + 1
  OBVIOUS
<1>3. EntryOrderId(c) \in OrderIds
  BY <1>2 DEF EntryOrderId, OrderIds
<1>4. ~TradedAlready(c)
  BY <1>2 DEF RecordTrade, OrderIdTaken, TradedAlready, IInv, RowsSound
<1>5. /\ TradeIds' = TradeIds \cup {n} /\ n \notin TradeIds
      /\ \A i \in TradeIds : trades'[i] = trades[i]
      /\ trades'[n].cand = c /\ trades'[n].fill = 0 /\ trades'[n].closed = FALSE
  <2>1. trades \in Seq(Trade) /\ today \in Nat /\ size[p] \in Nat
    BY <1>1 DEF TablesTyped, ProcsTyped
  <2>2. CreateTrade(c, EntryOrderId(c), size[p])
    BY <1>2 DEF RecordTrade
  <2> QED
    BY <1>2, <1>3, <2>1, <2>2, CreateTradeRow
<1>6. \A x : SameOrder(x)
  BY OrdersSame
<1>7. CloseOrderId(n) \notin Placed
  BY <1>5, IdsApart DEF IInv, OrdersSound, RequestSound
<1>8. \A d \in Cands \ {c} : Position(d)' = Position(d)
  <2> SUFFICES ASSUME NEW d \in Cands, d # c
               PROVE  Position(d)' = Position(d)
    OBVIOUS
  <2>1. \A i \in TradeIds : SameRow(i)
    BY <1>5 DEF SameRow
  <2>2. TradedAlready(d)' => TradedAlready(d)
    BY <1>5 DEF TradedAlready
  <2> QED
    BY <1>6, <2>1, <2>2, PositionKept
<1>9. Position(c) = Untraded(c) /\ Position(c)' = TradedAs(c, n)'
  <2>1. Position(c) = Untraded(c)
    BY <1>1, <1>2, <1>4 DEF PositionShapes
  <2>2. n \in TradeIds' /\ trades'[n].cand = c
    BY <1>5
  <2>3. \A i \in TradeIds' : trades'[i].cand = c => Position(c)' = TradedAs(c, i)'
    BY <1>1, <1>2 DEF PositionShapes
  <2> QED
    BY <2>1, <2>2, <2>3
<1>10. QtyOf(CloseOrderId(n)) = 0 /\ FilledOf(CloseOrderId(n)) = 0 /\ QtyOf(EntryOrderId(c)) > 0
  <2>1. orders[EntryOrderId(c)].qty \in 1..FullQty
    BY <1>2, IdsApart DEF BookFits, RequestFits
  <2> QED
    BY <1>2, <1>7, <2>1, QtyAssumption DEF QtyOf, FilledOf
<1>11. SameOrder(EntryOrderId(c)) /\ SameOrder(CloseOrderId(n))
  BY <1>6
<1>12. Position(c)' = Pos(QtyOf(EntryOrderId(c)), FilledOf(EntryOrderId(c)), TRUE, 0, 0, 0, FALSE)
  BY <1>5, <1>9, <1>10, <1>11 DEF TradedAs, SameOrder, EntryOrderId, CloseOrderId
<1>13. Moves(c, QtyOf(EntryOrderId(c)), FilledOf(EntryOrderId(c)), FALSE, 0, 0, 0, FALSE)
  BY <1>10, <1>12 DEF Moves
<1> QED
  BY <1>2, <1>8, <1>9, <1>13, LedgerMoves DEF Untraded

(* fill_trade records what the entry order had filled by then. *)
LEMMA RecordMoves ==
  ASSUME IInv, BookFits, IInv', NEW p \in Procs, RecordFill(p), BookKept
  PROVE  LedgerStep
<1>1. /\ TablesTyped /\ ProcsTyped /\ ProcessSound(p) /\ PositionShapes /\ PositionShapes'
      /\ trades \in Seq(Trade) /\ today \in Nat /\ orders \in [Placed -> Order]
  BY TypeParts, Shapes, ShapesNext DEF IInv, ProcessesSound, TablesTyped
<1>2. PICK c \in Cands, i \in TradeIds :
        /\ c = pick[p] /\ i = held[p] /\ trades[i].cand = c /\ trades[i].fill = 0
        /\ EntryOrderId(c) \in Placed
  BY <1>1 DEF RecordFill, At, ProcessSound
<1>3. /\ orders[EntryOrderId(c)].filled \in Nat
      /\ FillTrade(i, orders[EntryOrderId(c)].filled)
  BY <1>1, <1>2 DEF RecordFill, Order
<1>4. /\ TradeIds' = TradeIds
      /\ \A k \in TradeIds : trades'[k].cand = trades[k].cand
      /\ \A k \in TradeIds \ {i} : trades'[k] = trades[k]
  BY <1>1, <1>3, WriteTradeRow
<1>5. /\ trades'[i].fill = FilledOf(EntryOrderId(c)) /\ trades'[i].closed = trades[i].closed
  BY <1>1, <1>2, <1>3, WrittenFields DEF FilledOf
<1>6. \A x : SameOrder(x)
  BY OrdersSame
<1>7. \A d \in Cands \ {c} : Position(d)' = Position(d)
  <2> SUFFICES ASSUME NEW d \in Cands, d # c
               PROVE  Position(d)' = Position(d)
    OBVIOUS
  <2>1. \A k \in TradeIds : trades[k].cand = d => SameRow(k)
    BY <1>2, <1>4 DEF SameRow
  <2>2. TradedAlready(d)' => TradedAlready(d)
    BY <1>4 DEF TradedAlready
  <2> QED
    BY <1>6, <2>1, <2>2, PositionKept
<1>8. Position(c) = TradedAs(c, i) /\ Position(c)' = TradedAs(c, i)'
  BY <1>1, <1>2, <1>4 DEF PositionShapes
<1>9. SameOrder(EntryOrderId(c)) /\ SameOrder(CloseOrderId(i))
  BY <1>6
<1>10. Position(c)' = Pos(QtyOf(EntryOrderId(c)), FilledOf(EntryOrderId(c)), TRUE,
                          FilledOf(EntryOrderId(c)),
                          QtyOf(CloseOrderId(i)), FilledOf(CloseOrderId(i)),
                          trades[i].closed)
  BY <1>5, <1>8, <1>9 DEF TradedAs, SameOrder, EntryOrderId, CloseOrderId
<1>11. Moves(c, QtyOf(EntryOrderId(c)), FilledOf(EntryOrderId(c)), TRUE, trades[i].fill,
             QtyOf(CloseOrderId(i)), FilledOf(CloseOrderId(i)), trades[i].closed)
  BY <1>2, <1>10 DEF Moves
<1> QED
  BY <1>7, <1>8, <1>11, LedgerMoves DEF TradedAs

(* close_trade closes a position whose exit order is at the broker, or one *)
(* that is closed already.                                                 *)
LEMMA CloseMoves ==
  ASSUME IInv, BookFits, IInv', NEW p \in Procs, JournalClose(p), BookKept
  PROVE  LedgerStep
<1>1. /\ ProcessSound(p) /\ PositionShapes /\ PositionShapes'
      /\ trades \in Seq(Trade) /\ today \in Nat /\ orders \in [Placed -> Order]
  BY TypeParts, Shapes, ShapesNext DEF IInv, ProcessesSound, TablesTyped
<1>2. PICK i \in TradeIds : i = held[p] /\ trades[i].fill > 0 /\ CloseOrderId(i) \in Placed
  BY <1>1 DEF JournalClose, At, ProcessSound
<1>3. PICK loss \in BOOLEAN : CloseTrade(i, loss)
  BY <1>2 DEF JournalClose
<1>4. PICK c \in Cands : c = trades[i].cand
  BY RowTyped
<1>5. /\ TradeIds' = TradeIds
      /\ \A k \in TradeIds : trades'[k].cand = trades[k].cand
      /\ \A k \in TradeIds \ {i} : trades'[k] = trades[k]
  BY <1>1, <1>3, WriteTradeRow
<1>6. trades'[i].fill = trades[i].fill /\ trades'[i].closed = TRUE
  <2>1. trades[i] \in Trade
    BY RowTyped
  <2>2. trades'[i].closed = TRUE
    BY <1>3, <2>1 DEF CloseTrade, TradeIds, Trade
  <2> QED
    BY <1>1, <1>3, <2>2, WrittenFields
<1>7. \A x : SameOrder(x)
  BY OrdersSame
<1>8. \A d \in Cands \ {c} : Position(d)' = Position(d)
  <2> SUFFICES ASSUME NEW d \in Cands, d # c
               PROVE  Position(d)' = Position(d)
    OBVIOUS
  <2>1. \A k \in TradeIds : trades[k].cand = d => SameRow(k)
    BY <1>4, <1>5 DEF SameRow
  <2>2. TradedAlready(d)' => TradedAlready(d)
    BY <1>5 DEF TradedAlready
  <2> QED
    BY <1>7, <2>1, <2>2, PositionKept
<1>9. Position(c) = TradedAs(c, i) /\ Position(c)' = TradedAs(c, i)'
  BY <1>1, <1>4, <1>5 DEF PositionShapes
<1>10. SameOrder(EntryOrderId(c)) /\ SameOrder(CloseOrderId(i))
  BY <1>7
<1>11. Position(c)' = Pos(QtyOf(EntryOrderId(c)), FilledOf(EntryOrderId(c)), TRUE,
                          trades[i].fill, QtyOf(CloseOrderId(i)),
                          FilledOf(CloseOrderId(i)), TRUE)
  BY <1>6, <1>9, <1>10 DEF TradedAs, SameOrder, EntryOrderId, CloseOrderId
<1>12. QtyOf(CloseOrderId(i)) > 0
  <2>1. RequestSound(CloseOrderId(i), orders[CloseOrderId(i)].side,
                     orders[CloseOrderId(i)].qty)
    BY <1>2 DEF IInv, OrdersSound
  <2>2. orders[CloseOrderId(i)].qty = trades[i].fill
    BY <2>1, IdsApart DEF RequestSound
  <2> QED
    BY <1>2, <2>2 DEF QtyOf
<1>13. CASE trades[i].closed = TRUE
  BY <1>8, <1>9, <1>11, <1>13, LedgerMoves DEF TradedAs, Moves
<1>14. CASE trades[i].closed = FALSE
  <2>1. Moves(c, QtyOf(EntryOrderId(c)), FilledOf(EntryOrderId(c)), TRUE, trades[i].fill,
              QtyOf(CloseOrderId(i)), FilledOf(CloseOrderId(i)), trades[i].closed)
    BY <1>11, <1>12, <1>14 DEF Moves
  <2> QED
    BY <1>8, <1>9, <2>1, LedgerMoves DEF TradedAs
<1>15. trades[i].closed \in BOOLEAN
  <2>1. trades[i] \in Trade
    BY RowTyped
  <2> QED
    BY <2>1 DEF Trade
<1> QED
  BY <1>13, <1>14, <1>15

(* A step that leaves the book and the rows alone leaves the ledger alone. *)
LEMMA NothingMoves ==
  ASSUME IInv, IInv', BookKept, trades' = trades
  PROVE  LedgerStep
<1>1. \A d \in Cands : Position(d)' = Position(d)
  BY OrdersSame, RowsSame, PositionKept
<1> QED
  BY <1>1 DEF LedgerStep

(* Every step is one of the ledger, or none. *)
LEMMA EveryStepMoves ==
  ASSUME IInv, BookFits, [Next]_vars
  PROVE  LedgerStep
<1>1. IInv'
  BY NextInv
<1>2. CASE trades' = trades /\ BookKept
  BY <1>1, <1>2, NothingMoves
<1>3. CASE trades' = trades /\ \E id \in Placed : Fills(id)
  BY <1>1, <1>3, FillMoves
<1>4. CASE /\ trades' = trades
           /\ \E id, ticker, side, qty :
                Proper(id, ticker, side, qty) /\ Places(id, ticker, side, qty)
  BY <1>1, <1>4, PlaceMoves
<1>5. CASE BookKept /\ \E p \in Procs : Writes(p)
  BY <1>1, <1>5, OpenMoves, RecordMoves, CloseMoves DEF Writes
<1> QED
  BY <1>2, <1>3, <1>4, <1>5, StepKinds

(* Executor and cycle keep the promise of PositionLedger: with any number  *)
(* of processes that race, crash, retry and lose answers, every step is a  *)
(* step of one candidate's position, or none (executor.py:80-126 and       *)
(* 239-270, cycle.py:140-215).                                             *)
THEOREM LedgerIsImplemented == Spec => ImplementsLedger
<1>1. Init => Ledger!Init
  <2> SUFFICES ASSUME Init PROVE Ledger!Init
    OBVIOUS
  <2>1. Placed = {} /\ TradeIds = {}
    BY DEF Init, BrokerInit, JournalInit, Placed, TradeIds
  <2>2. IInv
    BY InitInv
  <2>3. \A c \in Cands : Position(c) = Untraded(c)
    BY <2>1, <2>2, Shapes DEF PositionShapes, TradedAlready
  <2> QED
    BY <2>1, <2>3 DEF Ledger!Init, Ledger!Empty, Untraded, QtyOf, FilledOf, Pos
<1>2. IInv /\ BookFits /\ [Next]_vars
        => [Ledger!Next]_([c \in Cands |-> Position(c)])
  BY EveryStepMoves DEF LedgerStep
<1>3. Spec => Ledger!Init /\ [][Ledger!Next]_([c \in Cands |-> Position(c)])
  BY <1>1, <1>2, BookStaysFit, PTL DEF Spec
<1> QED
  BY <1>3, PTL DEF ImplementsLedger, Ledger!Spec

(* Nothing is closed that was not entered and recorded first: for each     *)
(* candidate, exited <= asked <= recorded <= entered <= ordered <= FullQty *)
(* (executor.py:105-126 and 225-247).                                      *)
THEOREM NothingUncoveredIsClosed == Spec => []PositionsCovered
<1>1. IInv /\ BookFits => PositionsCovered
  <2> SUFFICES ASSUME IInv, BookFits, NEW c \in Cands
               PROVE  LET l == Position(c)
                      IN  /\ l.exited <= l.asked /\ l.asked <= l.recorded
                          /\ l.recorded <= l.entered
                          /\ l.entered <= l.ordered /\ l.ordered <= FullQty
                          /\ l.closed => l.asked = l.recorded /\ l.recorded > 0
    BY DEF PositionsCovered, Ledger!Covered
  <2>1. PositionShapes
    BY Shapes
  <2>2. orders \in [Placed -> Order]
    BY DEF IInv, TypeOK
  <2>3. \A id \in Placed : orders[id].filled \in Nat /\ orders[id].qty \in Nat
    BY <2>2 DEF Order
  <2>4. \A id : /\ FilledOf(id) <= QtyOf(id) /\ FilledOf(id) \in Nat /\ QtyOf(id) \in Nat
    BY <2>3 DEF BookFits, FilledOf, QtyOf
  <2>5. QtyOf(EntryOrderId(c)) <= FullQty
    <3>1. EntryOrderId(c) \in Placed => orders[EntryOrderId(c)].qty \in 1..FullQty
      BY IdsApart DEF BookFits, RequestFits
    <3> QED
      BY <3>1, QtyAssumption DEF QtyOf
  <2>6. CASE ~TradedAlready(c)
    BY <2>1, <2>4, <2>5, <2>6 DEF PositionShapes, Untraded, Pos
  <2>7. ASSUME NEW i \in TradeIds, trades[i].cand = c
        PROVE  LET l == Position(c)
               IN  /\ l.exited <= l.asked /\ l.asked <= l.recorded
                   /\ l.recorded <= l.entered
                   /\ l.entered <= l.ordered /\ l.ordered <= FullQty
                   /\ l.closed => l.asked = l.recorded /\ l.recorded > 0
    <3>1. Position(c) = TradedAs(c, i)
      BY <2>1, <2>7 DEF PositionShapes
    <3>2. trades[i].fill \in Nat
      BY RowTyped
    <3>3. CloseOrderId(i) \in Placed =>
            orders[CloseOrderId(i)].qty = trades[i].fill /\ trades[i].fill > 0
      BY IdsApart DEF IInv, OrdersSound, RequestSound
    <3>4. /\ QtyOf(CloseOrderId(i)) <= trades[i].fill
          /\ trades[i].closed => /\ QtyOf(CloseOrderId(i)) = trades[i].fill
                                 /\ trades[i].fill > 0
      BY <3>2, <3>3 DEF QtyOf, IInv, RowsSound
    <3>5. trades[i].fill <= FilledOf(EntryOrderId(c))
      BY <2>7 DEF IInv, RowsSound, FilledOf
    <3> QED
      BY <2>4, <2>5, <3>1, <3>2, <3>4, <3>5 DEF TradedAs, Pos
  <2> QED
    BY <2>6, <2>7 DEF TradedAlready
<1> QED
  BY <1>1, BookStaysFit, PTL

-----------------------------------------------------------------------------
(* Totals over the book.                                                   *)

(* The sum a property takes over orders is the sum of a function. *)
LEMMA SumOfFills ==
  ASSUME NEW S, IsFiniteSet(S)
  PROVE  MapThenSumSet(LAMBDA id : orders[id].filled, S)
           = Total([id \in S |-> orders[id].filled], S)
<1> DEFINE f == [id \in S |-> orders[id].filled]
           Fits(g) == g = [s \in SUBSET S |->
                             IF s = {} THEN 0
                             ELSE orders[Pick(s)].filled + g[s \ {Pick(s)}]]
           h == CHOOSE g : Fits(g)
<1>1. MapThenSumSet(LAMBDA id : orders[id].filled, S) = h[S]
  BY DEF MapThenSumSet, MapThenFoldSet, Pick
<1>2. \A s \in SUBSET S : s # {} => f[Pick(s)] = orders[Pick(s)].filled
  BY PickIn
<1> HIDE DEF f
<1>3. \A g : Fits(g) <=> Sums(g, f, S)
  BY <1>2 DEF Sums
<1>4. \E g : Sums(g, f, S)
  BY SumsExist
<1> HIDE DEF Fits
<1>5. Sums(h, f, S)
  BY <1>3, <1>4
<1> HIDE DEF h
<1>6. Total(f, S) = h[S]
  BY <1>5, TotalOf
<1> QED
  BY <1>1, <1>6 DEF f

(* However many processes close a trade, retry or crash, no more of a      *)
(* ticker is closed on either side than was opened on the other: each      *)
(* closing order has a trade of its own, with a filled entry order of its  *)
(* own behind it, long or short (executor.py:225-247: the close order's id *)
(* is made from the trade's, and its side is the trade's turned round).    *)
THEOREM NeverClosedPastFlat == Spec => []NeverPastFlat
<1>1. IInv /\ BookFits => NeverPastFlat
  <2> SUFFICES ASSUME IInv, BookFits, NEW t \in Tickers, NEW side \in Sides
               PROVE  Filled("c", t, Opposite(side)) <= Filled("e", t, side)
    BY DEF NeverPastFlat
  <2> DEFINE S == OrdersFor("c", t, Opposite(side))
             B == OrdersFor("e", t, side)
             f == [id \in S |-> orders[id].filled]
             h == [id \in B |-> orders[id].filled]
             m == [id \in S |-> trades[id[2]].oid]
  <2>1. IsFiniteSet(S) /\ IsFiniteSet(B)
    BY FS_Subset DEF BookFits, OrdersFor
  <2>2. /\ Filled("c", t, Opposite(side)) = Total(f, S)
        /\ Filled("e", t, side) = Total(h, B)
    BY <2>1, SumOfFills DEF Filled
  <2>3. orders \in [Placed -> Order] /\ S \subseteq Placed /\ B \subseteq Placed
    BY DEF IInv, TypeOK, OrdersFor
  <2>4. \A id \in Placed : orders[id].filled \in Nat /\ orders[id].qty \in Nat
    BY <2>3 DEF Order
  <2>5. ASSUME NEW id \in S
        PROVE  \E i \in TradeIds :
                 /\ id = CloseOrderId(i) /\ m[id] = trades[i].oid
                 /\ m[id] \in B /\ orders[id].filled <= orders[m[id]].filled
    <3>1. /\ id \in Placed /\ id[1] = "c" /\ orders[id].ticker = t
          /\ orders[id].side = Opposite(side)
      BY DEF OrdersFor
    <3>2. PICK i \in TradeIds : id = CloseOrderId(i) /\ orders[id].qty = trades[i].fill
      BY <3>1 DEF IInv, OrdersSound, RequestSound, EntryOrderId
    <3>3. m[id] = trades[i].oid
      BY <3>2 DEF CloseOrderId
    <3>4. t = TickerOf[trades[i].cand] /\ side = SideOf[trades[i].cand]
      <4>1. t = TickerOf[trades[i].cand] /\ Opposite(side) = CloseSide(i)
        BY <3>1, <3>2, IdsApart DEF BookFits, RequestFits
      <4>2. SideOf[trades[i].cand] \in Sides
        BY RowTyped, SideOfAssumption
      <4> QED
        BY <4>1, <4>2 DEF CloseSide, Opposite, Sides
    <3>5. /\ trades[i].oid = EntryOrderId(trades[i].cand) /\ trades[i].oid \in Placed
          /\ trades[i].fill <= orders[trades[i].oid].filled
      BY DEF IInv, RowsSound
    <3>6. /\ orders[trades[i].oid].side = side /\ orders[trades[i].oid].ticker = t
          /\ trades[i].oid[1] = "e"
      BY <3>4, <3>5, IdsApart DEF BookFits, RequestFits, EntryOrderId
    <3>7. orders[id].filled <= trades[i].fill
      BY <3>1, <3>2 DEF BookFits
    <3>8. trades[i].fill \in Nat
      BY RowTyped
    <3> QED
      BY <2>4, <3>1, <3>2, <3>3, <3>5, <3>6, <3>7, <3>8 DEF OrdersFor
  <2>6. \A id \in S : f[id] \in Int /\ m[id] \in B /\ f[id] <= h[m[id]]
    BY <2>3, <2>4, <2>5
  <2>7. \A id \in B : h[id] \in Nat
    BY <2>3, <2>4
  <2>8. \A x, y \in S : m[x] = m[y] => x = y
    <3> SUFFICES ASSUME NEW x \in S, NEW y \in S, m[x] = m[y] PROVE x = y
      OBVIOUS
    <3>1. PICK i \in TradeIds : x = CloseOrderId(i) /\ m[x] = trades[i].oid
      BY <2>5
    <3>2. PICK j \in TradeIds : y = CloseOrderId(j) /\ m[y] = trades[j].oid
      BY <2>5
    <3>3. trades[i].cand = trades[j].cand
      BY <3>1, <3>2, IdsApart DEF IInv, RowsSound
    <3> QED
      BY <3>1, <3>2, <3>3 DEF IInv, OneTradePerCandidate
  <2> HIDE DEF f, h, m, S, B
  <2>9. Total(f, S) <= Total(h, B)
    BY <2>1, <2>6, <2>7, <2>8, TotalBelow
  <2> QED
    BY <2>2, <2>9
<1> QED
  BY <1>1, BookStaysFit, PTL

=============================================================================
