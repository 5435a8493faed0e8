--------------------------- MODULE ExecutorProofs ---------------------------
(***************************************************************************)
(* Proofs about ExecutorCycle, for any number of processes, candidates and *)
(* strategies and any limits.                                              *)
(***************************************************************************)
EXTENDS ExecutorSafety, FiniteSetTheorems, TLAPS

(* Nothing is placed, traded or held at the start. *)
LEMMA InitInv == Init => IInv
<1> SUFFICES ASSUME Init PROVE IInv
  OBVIOUS
<1> USE DEF Init, BrokerInit, JournalInit, Placed, TradeIds
<1>1. TypeOK
  BY StratOfAssumption DEF TypeOK, PCs, Modes, Dispositions
<1>2. ProcessesSound /\ FillersDistinct
  BY DEF ProcessesSound, ProcessSound, FillersDistinct
<1>3. RowsSound /\ OrdersSound /\ OneTradePerCandidate
  BY DEF RowsSound, OrdersSound, OneTradePerCandidate
<1> QED
  BY <1>1, <1>2, <1>3 DEF IInv

-----------------------------------------------------------------------------
(* Steps that leave the book and the journal's trades alone.               *)

(* The typing of what the processes hold. *)
ProcsTyped ==
  /\ pc \in [Procs -> PCs]
  /\ rows \in [Procs -> SUBSET Strategies]
  /\ row \in [Procs -> Strategies \cup {None}]
  /\ exits \in [Procs -> SUBSET Nat]
  /\ entries \in [Procs -> SUBSET Cands]
  /\ held \in [Procs -> Nat]
  /\ pick \in [Procs -> Cands \cup {None}]
  /\ size \in [Procs -> Nat]

(* The typing of what they share. *)
TablesTyped ==
  /\ Placed \subseteq OrderIds
  /\ orders \in [Placed -> Order]
  /\ inflight \subseteq Request
  /\ trades \in Seq(Trade)
  /\ disp \in [Cands -> Dispositions]
  /\ today \in Nat
  /\ sysMode \in Modes
  /\ stage \in [Strategies -> {"proposed", "active", "retired"}]

(* Type correctness in two parts: the tables and the processes. *)
LEMMA TypeParts == TypeOK <=> TablesTyped /\ ProcsTyped
BY DEF TypeOK, TablesTyped, ProcsTyped

(* The labels of the steps. *)
LEMMA Labels ==
  /\ "idle" \in PCs /\ "rows" \in PCs /\ "exits" \in PCs /\ "close" \in PCs
  /\ "closing" \in PCs /\ "entries" \in PCs /\ "check" \in PCs
  /\ "submit" \in PCs /\ "record" \in PCs /\ "filling" \in PCs
BY DEF PCs

(* p may change what it holds; nobody else's changes. *)
OthersAlone(p) ==
  \A q \in Procs \ {p} :
    /\ pc'[q] = pc[q] /\ exits'[q] = exits[q]
    /\ held'[q] = held[q] /\ pick'[q] = pick[q]

(* A step that changes neither the book nor the trades keeps the           *)
(* invariant if what the stepping process holds afterwards is sound and it *)
(* is not about to record a fill.                                          *)
LEMMA ProcessStep ==
  ASSUME IInv, NEW p \in Procs,
         UNCHANGED <<orders, inflight, trades>>,
         TablesTyped', ProcsTyped', OthersAlone(p),
         ProcessSound(p)', pc'[p] # "filling"
  PROVE  IInv'
<1>1. TypeOK'
  BY TypeParts DEF TypeOK, TablesTyped, ProcsTyped
<1>2. ProcessesSound'
  BY DEF IInv, ProcessesSound, ProcessSound, OthersAlone, Placed, TradeIds,
     EntryOrderId, CloseOrderId
<1>3. FillersDistinct'
  BY DEF IInv, FillersDistinct, OthersAlone
<1>4. RowsSound' /\ OneTradePerCandidate'
  BY DEF IInv, RowsSound, OneTradePerCandidate, TradeIds, Placed,
     EntryOrderId, CloseOrderId
<1>5. OrdersSound'
  BY DEF IInv, OrdersSound, RequestSound, CloseSide, TradeIds, Placed,
     EntryOrderId, CloseOrderId
<1> QED
  BY <1>1, <1>2, <1>3, <1>4, <1>5 DEF IInv

(* The steps that only move a process on. *)
LEMMA CycleSteps ==
  ASSUME IInv, NEW p \in Procs,
         \/ StartCycle(p) \/ EndCycle(p) \/ AbandonRow(p) \/ Crash(p)
         \/ \E s \in Strategies : TakeRow(p, s) \/ SkipRow(p, s)
  PROVE  IInv'
<1>1. TablesTyped /\ ProcsTyped /\ ProcessSound(p)
  BY TypeParts DEF IInv, ProcessesSound
<1>2. TradeIds \subseteq Nat
  BY <1>1 DEF TablesTyped, TradeIds
<1> USE DEF sharedVars, brokerVars, journalVars, controlVars, loopVars, workVars
<1>3. CASE StartCycle(p)
  <2>1. TablesTyped'
    BY <1>1, <1>3, ModesAssumption DEF StartCycle, TablesTyped, Placed
  <2>2. ProcsTyped'
    BY <1>1, <1>3, Labels DEF StartCycle, ProcsTyped, Active
  <2>3. ProcessSound(p)' /\ pc'[p] # "filling"
    BY <1>1, <1>3 DEF StartCycle, ProcessSound, ProcsTyped, TradeIds
  <2>4. OthersAlone(p)
    BY <1>1, <1>3 DEF StartCycle, OthersAlone, ProcsTyped
  <2> QED
    BY <1>3, <2>1, <2>2, <2>3, <2>4, ProcessStep DEF StartCycle
<1>4. CASE EndCycle(p)
  <2>1. TablesTyped'
    BY <1>1, <1>4 DEF EndCycle, TablesTyped, Placed
  <2>2. ProcsTyped'
    BY <1>1, <1>4, Labels DEF EndCycle, ProcsTyped
  <2>3. ProcessSound(p)' /\ pc'[p] # "filling"
    BY <1>1, <1>4 DEF EndCycle, ProcessSound, ProcsTyped, TradeIds
  <2>4. OthersAlone(p)
    BY <1>1, <1>4 DEF EndCycle, OthersAlone, ProcsTyped
  <2> QED
    BY <1>4, <2>1, <2>2, <2>3, <2>4, ProcessStep DEF EndCycle
<1>5. CASE AbandonRow(p)
  <2>1. TablesTyped'
    BY <1>1, <1>5 DEF AbandonRow, TablesTyped, Placed
  <2>2. ProcsTyped'
    BY <1>1, <1>5, Labels DEF AbandonRow, ProcsTyped
  <2>3. ProcessSound(p)' /\ pc'[p] # "filling"
    BY <1>1, <1>5 DEF AbandonRow, ProcessSound, ProcsTyped, TradeIds
  <2>4. OthersAlone(p)
    BY <1>1, <1>5 DEF AbandonRow, OthersAlone, ProcsTyped
  <2> QED
    BY <1>5, <2>1, <2>2, <2>3, <2>4, ProcessStep DEF AbandonRow
<1>6. CASE Crash(p)
  <2>1. TablesTyped'
    BY <1>1, <1>6 DEF Crash, TablesTyped, Placed
  <2>2. ProcsTyped'
    BY <1>1, <1>6, Labels DEF Crash, ProcsTyped
  <2>3. ProcessSound(p)' /\ pc'[p] # "filling"
    BY <1>1, <1>6 DEF Crash, ProcessSound, ProcsTyped, TradeIds
  <2>4. OthersAlone(p)
    BY <1>1, <1>6 DEF Crash, OthersAlone, ProcsTyped
  <2> QED
    BY <1>6, <2>1, <2>2, <2>3, <2>4, ProcessStep DEF Crash
<1>7. ASSUME NEW s \in Strategies, TakeRow(p, s)
      PROVE  IInv'
  <2>1. TablesTyped'
    BY <1>1, <1>7 DEF TakeRow, TablesTyped, Placed
  <2>0. FilledOpen(s) \in SUBSET TradeIds
    BY DEF FilledOpen, OpenTradesOf, OpenTrades
  <2>2. ProcsTyped'
    BY <1>1, <1>2, <1>7, <2>0, Labels DEF TakeRow, ProcsTyped
  <2>3. ProcessSound(p)' /\ pc'[p] # "filling"
    <3>1. exits'[p] \subseteq {i \in TradeIds : trades[i].fill > 0}
      BY <1>1, <1>7 DEF TakeRow, ProcsTyped, FilledOpen, OpenTradesOf, OpenTrades
    <3> QED
      BY <1>1, <1>7, <3>1 DEF TakeRow, ProcessSound, ProcsTyped, TradeIds
  <2>4. OthersAlone(p)
    BY <1>1, <1>7 DEF TakeRow, OthersAlone, ProcsTyped
  <2> QED
    BY <1>7, <2>1, <2>2, <2>3, <2>4, ProcessStep DEF TakeRow
<1>8. ASSUME NEW s \in Strategies, SkipRow(p, s)
      PROVE  IInv'
  <2>1. TablesTyped'
    BY <1>1, <1>8 DEF SkipRow, TablesTyped, Placed
  <2>2. ProcsTyped'
    BY <1>1, <1>8, Labels DEF SkipRow, ProcsTyped
  <2>3. ProcessSound(p)' /\ pc'[p] # "filling"
    BY <1>1, <1>8 DEF SkipRow, At, ProcessSound, ProcsTyped, TradeIds
  <2>4. OthersAlone(p)
    BY <1>1, <1>8 DEF SkipRow, OthersAlone, ProcsTyped
  <2> QED
    BY <1>8, <2>1, <2>2, <2>3, <2>4, ProcessStep DEF SkipRow
<1> QED
  BY <1>3, <1>4, <1>5, <1>6, <1>7, <1>8

(* check_exits up to the order it submits. *)
LEMMA PollSteps ==
  ASSUME IInv, NEW p \in Procs,
         \/ \E i \in TradeIds : HoldTrade(p, i) \/ ExitSignal(p, i)
         \/ ListAccepted(p)
  PROVE  IInv'
<1>1. TablesTyped /\ ProcsTyped /\ ProcessSound(p)
  BY TypeParts DEF IInv, ProcessesSound
<1>2. TradeIds \subseteq Nat
  BY <1>1 DEF TablesTyped, TradeIds
<1> USE DEF sharedVars, brokerVars, journalVars, controlVars, loopVars, workVars
<1>3. ASSUME NEW i \in TradeIds, HoldTrade(p, i)
      PROVE  IInv'
  <2>1. TablesTyped'
    BY <1>1, <1>3 DEF HoldTrade, TablesTyped, Placed
  <2>2. ProcsTyped'
    BY <1>1, <1>2, <1>3, Labels DEF HoldTrade, ProcsTyped
  <2>3. ProcessSound(p)' /\ pc'[p] # "filling"
    BY <1>1, <1>3 DEF HoldTrade, At, ProcessSound, ProcsTyped, TradeIds,
       Placed
  <2>4. OthersAlone(p)
    BY <1>1, <1>3 DEF HoldTrade, OthersAlone, ProcsTyped
  <2> QED
    BY <1>3, <2>1, <2>2, <2>3, <2>4, ProcessStep DEF HoldTrade
<1>4. ASSUME NEW i \in TradeIds, ExitSignal(p, i)
      PROVE  IInv'
  <2>1. TablesTyped'
    BY <1>1, <1>4 DEF ExitSignal, TablesTyped, Placed
  <2>2. ProcsTyped'
    BY <1>1, <1>2, <1>4, Labels DEF ExitSignal, ProcsTyped
  <2>3. ProcessSound(p)' /\ pc'[p] # "filling"
    BY <1>1, <1>4 DEF ExitSignal, At, ProcessSound, ProcsTyped, TradeIds,
       Placed
  <2>4. OthersAlone(p)
    BY <1>1, <1>4 DEF ExitSignal, OthersAlone, ProcsTyped
  <2> QED
    BY <1>4, <2>1, <2>2, <2>3, <2>4, ProcessStep DEF ExitSignal
<1>5. CASE ListAccepted(p)
  <2>1. TablesTyped'
    BY <1>1, <1>5 DEF ListAccepted, TablesTyped, Placed
  <2>2. ProcsTyped'
    BY <1>1, <1>2, <1>5, Labels DEF ListAccepted, ProcsTyped, AcceptedOf
  <2>3. ProcessSound(p)' /\ pc'[p] # "filling"
    BY <1>1, <1>5 DEF ListAccepted, At, ProcessSound, ProcsTyped, TradeIds,
       Placed
  <2>4. OthersAlone(p)
    BY <1>1, <1>5 DEF ListAccepted, OthersAlone, ProcsTyped
  <2> QED
    BY <1>5, <2>1, <2>2, <2>3, <2>4, ProcessStep DEF ListAccepted
<1> QED
  BY <1>3, <1>4, <1>5

(* The entry loop and enter_position where they write to neither table. *)
LEMMA EntryLoopSteps ==
  ASSUME IInv, NEW p \in Procs,
         \/ EndRow(p) \/ EquityUnavailable(p)
         \/ \E c \in Cands : SkipCandidate(p, c) \/ PickCandidate(p, c)
         \/ ApproveEntry(p) \/ RefuseEntry(p) \/ EntryRaised(p)
         \/ RecordTradeRaised(p) \/ FillPollTimeout(p)
  PROVE  IInv'
<1>1. TablesTyped /\ ProcsTyped /\ ProcessSound(p)
  BY TypeParts DEF IInv, ProcessesSound
<1>2. TradeIds \subseteq Nat
  BY <1>1 DEF TablesTyped, TradeIds
<1> USE DEF sharedVars, brokerVars, journalVars, controlVars, loopVars, workVars
<1>3. ASSUME NEW c \in Cands, SkipCandidate(p, c)
      PROVE  IInv'
  <2>1. TablesTyped'
    BY <1>1, <1>3 DEF SkipCandidate, TablesTyped, Placed
  <2>2. ProcsTyped'
    BY <1>1, <1>2, <1>3, Labels DEF SkipCandidate, ProcsTyped
  <2>3. ProcessSound(p)' /\ pc'[p] # "filling"
    BY <1>1, <1>3 DEF SkipCandidate, At, ProcessSound, ProcsTyped, TradeIds,
       Placed
  <2>4. OthersAlone(p)
    BY <1>1, <1>3 DEF SkipCandidate, OthersAlone, ProcsTyped
  <2> QED
    BY <1>3, <2>1, <2>2, <2>3, <2>4, ProcessStep DEF SkipCandidate
<1>4. ASSUME NEW c \in Cands, PickCandidate(p, c)
      PROVE  IInv'
  <2>1. TablesTyped'
    BY <1>1, <1>4 DEF PickCandidate, TablesTyped, Placed
  <2>2. ProcsTyped'
    BY <1>1, <1>2, <1>4, Labels DEF PickCandidate, ProcsTyped
  <2>3. ProcessSound(p)' /\ pc'[p] # "filling"
    BY <1>1, <1>4 DEF PickCandidate, At, ProcessSound, ProcsTyped, TradeIds,
       Placed
  <2>4. OthersAlone(p)
    BY <1>1, <1>4 DEF PickCandidate, OthersAlone, ProcsTyped
  <2> QED
    BY <1>4, <2>1, <2>2, <2>3, <2>4, ProcessStep DEF PickCandidate
<1>5. CASE EndRow(p)
  <2>1. TablesTyped'
    BY <1>1, <1>5 DEF EndRow, TablesTyped, Placed
  <2>2. ProcsTyped'
    BY <1>1, <1>2, <1>5, Labels DEF EndRow, ProcsTyped
  <2>3. ProcessSound(p)' /\ pc'[p] # "filling"
    BY <1>1, <1>5 DEF EndRow, At, ProcessSound, ProcsTyped, TradeIds,
       Placed
  <2>4. OthersAlone(p)
    BY <1>1, <1>5 DEF EndRow, OthersAlone, ProcsTyped
  <2> QED
    BY <1>5, <2>1, <2>2, <2>3, <2>4, ProcessStep DEF EndRow
<1>6. CASE EquityUnavailable(p)
  <2>1. TablesTyped'
    BY <1>1, <1>6 DEF EquityUnavailable, TablesTyped, Placed
  <2>2. ProcsTyped'
    BY <1>1, <1>2, <1>6, Labels DEF EquityUnavailable, ProcsTyped
  <2>3. ProcessSound(p)' /\ pc'[p] # "filling"
    BY <1>1, <1>6 DEF EquityUnavailable, At, ProcessSound, ProcsTyped, TradeIds,
       Placed
  <2>4. OthersAlone(p)
    BY <1>1, <1>6 DEF EquityUnavailable, OthersAlone, ProcsTyped
  <2> QED
    BY <1>6, <2>1, <2>2, <2>3, <2>4, ProcessStep DEF EquityUnavailable
<1>7. CASE ApproveEntry(p)
  <2>1. TablesTyped'
    BY <1>1, <1>7 DEF ApproveEntry, TablesTyped, Placed
  <2>2. ProcsTyped'
    BY <1>1, <1>2, <1>7, Labels, QtyAssumption DEF ApproveEntry, ProcsTyped, EntryQty
  <2>3. ProcessSound(p)' /\ pc'[p] # "filling"
    BY <1>1, <1>7 DEF ApproveEntry, At, ProcessSound, ProcsTyped, TradeIds,
       Placed
  <2>4. OthersAlone(p)
    BY <1>1, <1>7 DEF ApproveEntry, OthersAlone, ProcsTyped
  <2> QED
    BY <1>7, <2>1, <2>2, <2>3, <2>4, ProcessStep DEF ApproveEntry
<1>8. CASE RefuseEntry(p)
  <2>1. TablesTyped'
    BY <1>1, <1>8 DEF RefuseEntry, DisposeCandidate, TablesTyped, Placed,
       Dispositions
  <2>2. ProcsTyped'
    BY <1>1, <1>2, <1>8, Labels DEF RefuseEntry, ProcsTyped
  <2>3. ProcessSound(p)' /\ pc'[p] # "filling"
    BY <1>1, <1>8 DEF RefuseEntry, At, ProcessSound, ProcsTyped, TradeIds,
       Placed
  <2>4. OthersAlone(p)
    BY <1>1, <1>8 DEF RefuseEntry, OthersAlone, ProcsTyped
  <2> QED
    BY <1>8, <2>1, <2>2, <2>3, <2>4, ProcessStep DEF RefuseEntry
<1>9. CASE EntryRaised(p)
  <2>1. TablesTyped'
    BY <1>1, <1>9 DEF EntryRaised, TablesTyped, Placed
  <2>2. ProcsTyped'
    BY <1>1, <1>2, <1>9, Labels DEF EntryRaised, ProcsTyped
  <2>3. ProcessSound(p)' /\ pc'[p] # "filling"
    BY <1>1, <1>9 DEF EntryRaised, At, ProcessSound, ProcsTyped, TradeIds,
       Placed
  <2>4. OthersAlone(p)
    BY <1>1, <1>9 DEF EntryRaised, OthersAlone, ProcsTyped
  <2> QED
    BY <1>9, <2>1, <2>2, <2>3, <2>4, ProcessStep DEF EntryRaised
<1>10. CASE RecordTradeRaised(p)
  <2>1. TablesTyped'
    BY <1>1, <1>10 DEF RecordTradeRaised, TablesTyped, Placed
  <2>2. ProcsTyped'
    BY <1>1, <1>2, <1>10, Labels DEF RecordTradeRaised, ProcsTyped
  <2>3. ProcessSound(p)' /\ pc'[p] # "filling"
    BY <1>1, <1>10 DEF RecordTradeRaised, At, ProcessSound, ProcsTyped, TradeIds,
       Placed
  <2>4. OthersAlone(p)
    BY <1>1, <1>10 DEF RecordTradeRaised, OthersAlone, ProcsTyped
  <2> QED
    BY <1>10, <2>1, <2>2, <2>3, <2>4, ProcessStep DEF RecordTradeRaised
<1>11. CASE FillPollTimeout(p)
  <2>1. TablesTyped'
    BY <1>1, <1>11 DEF FillPollTimeout, TablesTyped, Placed
  <2>2. ProcsTyped'
    BY <1>1, <1>2, <1>11, Labels DEF FillPollTimeout, ProcsTyped
  <2>3. ProcessSound(p)' /\ pc'[p] # "filling"
    BY <1>1, <1>11 DEF FillPollTimeout, At, ProcessSound, ProcsTyped, TradeIds,
       Placed
  <2>4. OthersAlone(p)
    BY <1>1, <1>11 DEF FillPollTimeout, OthersAlone, ProcsTyped
  <2> QED
    BY <1>11, <2>1, <2>2, <2>3, <2>4, ProcessStep DEF FillPollTimeout
<1> QED
  BY <1>3, <1>4, <1>5, <1>6, <1>7, <1>8, <1>9, <1>10, <1>11

-----------------------------------------------------------------------------
(* Steps that put an order in the book or move it on there.                *)

(* No order leaves the book or changes its terms, and no fill is undone. *)
BookGrows ==
  /\ Placed \subseteq Placed'
  /\ \A id \in Placed : /\ orders'[id].qty = orders[id].qty
                        /\ orders'[id].filled >= orders[id].filled

(* The orders and the requests for them. *)
BookTyped ==
  /\ Placed \subseteq OrderIds
  /\ orders \in [Placed -> Order]
  /\ inflight \subseteq Request

(* What a process holds stays sound when the book grows under it. *)
LEMMA BookStep ==
  ASSUME IInv, trades' = trades, BookGrows, OrdersSound',
         TablesTyped', ProcsTyped',
         \A q \in Procs :
           \/ /\ pc'[q] = pc[q] /\ exits'[q] = exits[q]
              /\ held'[q] = held[q] /\ pick'[q] = pick[q]
           \/ ProcessSound(q)' /\ pc'[q] # "filling"
  PROVE  IInv'
<1>1. TypeOK'
  BY TypeParts DEF TypeOK, TablesTyped, ProcsTyped
<1>2. ProcessesSound'
  BY DEF IInv, ProcessesSound, ProcessSound, BookGrows, TradeIds,
     EntryOrderId, CloseOrderId
<1>3. FillersDistinct'
  BY DEF IInv, FillersDistinct
<1>4. RowsSound'
  <2> SUFFICES ASSUME NEW i \in TradeIds'
               PROVE  /\ trades'[i].oid = EntryOrderId(trades'[i].cand)
                      /\ trades'[i].oid \in Placed'
                      /\ trades'[i].fill <= orders'[trades'[i].oid].filled
                      /\ trades'[i].closed => CloseOrderId(i) \in Placed'
    BY DEF RowsSound, EntryOrderId, CloseOrderId
  <2>1. i \in TradeIds /\ trades[i] \in Trade
    BY DEF TradeIds, IInv, TypeOK
  <2>2. /\ trades[i].oid = EntryOrderId(trades[i].cand)
        /\ trades[i].oid \in Placed
        /\ trades[i].fill <= orders[trades[i].oid].filled
        /\ trades[i].closed => CloseOrderId(i) \in Placed
    BY <2>1 DEF IInv, RowsSound
  <2>3. /\ trades[i].fill \in Nat
        /\ orders[trades[i].oid].filled \in Nat
        /\ orders'[trades[i].oid].filled \in Nat
    BY <2>1, <2>2 DEF IInv, TypeOK, TablesTyped, Trade, Order, BookGrows
  <2> QED
    BY <2>2, <2>3 DEF BookGrows
<1>5. OneTradePerCandidate'
  BY DEF IInv, OneTradePerCandidate, TradeIds
<1> QED
  BY <1>1, <1>2, <1>3, <1>4, <1>5 DEF IInv

(* A request that reaches the broker adds its order or changes nothing. *)
LEMMA PlaceOrder ==
  ASSUME BookTyped, NEW id \in OrderIds, NEW ticker \in Tickers,
         NEW side \in Sides, NEW qty \in Nat,
         orders' = BookWith(id, ticker, side, qty)
  PROVE  /\ Placed' = Placed \cup {id}
         /\ orders' \in [Placed' -> Order]
         /\ BookGrows
         /\ \A x \in Placed' :
              \/ x \in Placed /\ orders'[x] = orders[x]
              \/ x = id /\ orders'[x].side = side /\ orders'[x].qty = qty
<1>1. NewOrder(ticker, side, qty) \in Order
  BY DEF NewOrder, Order
<1>2. CASE id \in Placed
  <2>1. orders' = orders /\ Placed' = Placed
    BY <1>2 DEF BookWith, Placed
  <2>2. \A x \in Placed : orders[x].filled \in Nat
    BY DEF BookTyped, Order
  <2> QED
    BY <1>2, <2>1, <2>2 DEF BookTyped, BookGrows
<1>3. CASE id \notin Placed
  <2>1. orders' = [x \in Placed \cup {id} |->
                     IF x = id THEN NewOrder(ticker, side, qty) ELSE orders[x]]
    BY <1>3 DEF BookWith
  <2>2. Placed' = Placed \cup {id}
    BY <2>1 DEF Placed
  <2>3. orders' \in [Placed' -> Order]
    BY <1>1, <2>1, <2>2 DEF BookTyped
  <2>4. \A x \in Placed : orders'[x] = orders[x] /\ orders[x].filled \in Nat
    BY <1>3, <2>1 DEF BookTyped, Order
  <2>5. orders'[id].side = side /\ orders'[id].qty = qty
    BY <2>1 DEF NewOrder
  <2> QED
    BY <2>2, <2>3, <2>4, <2>5 DEF BookGrows
<1> QED
  BY <1>2, <1>3

(* A sound request leaves sound orders, whatever becomes of it. *)
LEMMA SubmitStep ==
  ASSUME BookTyped, OrdersSound, trades' = trades,
         NEW id \in OrderIds, NEW ticker \in Tickers,
         NEW side \in Sides, NEW qty \in Nat,
         RequestSound(id, side, qty),
         \/ SubmitAnswered(id, ticker, side, qty)
         \/ SubmitRaised(id, ticker, side, qty)
  PROVE  /\ BookTyped' /\ OrdersSound' /\ BookGrows
         /\ SubmitAnswered(id, ticker, side, qty) => id \in Placed'
<1>1. \A x, s, n : RequestSound(x, s, n) => RequestSound(x, s, n)'
  BY DEF RequestSound, CloseSide, TradeIds, EntryOrderId, CloseOrderId
<1>2. CASE orders' = BookWith(id, ticker, side, qty) /\ inflight' = inflight
  <2>1. /\ Placed' = Placed \cup {id}
        /\ orders' \in [Placed' -> Order]
        /\ BookGrows
        /\ \A x \in Placed' :
             \/ x \in Placed /\ orders'[x] = orders[x]
             \/ x = id /\ orders'[x].side = side /\ orders'[x].qty = qty
    BY <1>2, PlaceOrder
  <2>2. BookTyped'
    BY <1>2, <2>1 DEF BookTyped
  <2>3. \A x \in Placed' : RequestSound(x, orders'[x].side, orders'[x].qty)
    BY <2>1 DEF OrdersSound
  <2>4. OrdersSound'
    BY <1>1, <1>2, <2>3
    DEF OrdersSound, RequestSound, CloseSide, TradeIds, EntryOrderId, CloseOrderId
  <2> QED
    BY <2>1, <2>2, <2>4
<1>3. CASE UNCHANGED brokerVars
  <2>1. orders' = orders /\ inflight' = inflight /\ Placed' = Placed
    BY <1>3 DEF brokerVars, Placed
  <2>2. BookTyped' /\ BookGrows
    BY <2>1 DEF BookTyped, BookGrows, Order
  <2>3. OrdersSound'
    BY <1>1, <2>1
    DEF OrdersSound, RequestSound, CloseSide, TradeIds, EntryOrderId, CloseOrderId
  <2>4. ASSUME SubmitAnswered(id, ticker, side, qty) PROVE id \in Placed'
    BY <2>4, PlaceOrder DEF SubmitAnswered
  <2> QED
    BY <2>2, <2>3, <2>4
<1>4. CASE /\ inflight' = inflight \cup
                {[id |-> id, ticker |-> ticker, side |-> side, qty |-> qty]}
           /\ UNCHANGED orders
  <2> DEFINE r == [id |-> id, ticker |-> ticker, side |-> side, qty |-> qty]
  <2>1. orders' = orders /\ Placed' = Placed /\ inflight' = inflight \cup {r}
    BY <1>4 DEF Placed
  <2>2. r \in Request /\ RequestSound(r.id, r.side, r.qty)
    BY DEF Request
  <2>3. BookTyped' /\ BookGrows
    BY <2>1, <2>2 DEF BookTyped, BookGrows, Order
  <2>4. \A x \in inflight' : RequestSound(x.id, x.side, x.qty)
    BY <2>1, <2>2 DEF OrdersSound
  <2>5. OrdersSound'
    BY <1>1, <2>1, <2>4
    DEF OrdersSound, RequestSound, CloseSide, TradeIds, EntryOrderId, CloseOrderId
  <2>6. ASSUME SubmitAnswered(id, ticker, side, qty) PROVE id \in Placed'
    BY <2>6, PlaceOrder DEF SubmitAnswered
  <2> QED
    BY <2>3, <2>5, <2>6
<1> QED
  BY <1>2, <1>3, <1>4 DEF SubmitAnswered, SubmitRaised

(* _close_position up to the journal, and the entry order. *)
LEMMA SubmitSteps ==
  ASSUME IInv, NEW p \in Procs,
         \/ SubmitClose(p) \/ SubmitCloseRaised(p)
         \/ SubmitEntry(p) \/ SubmitEntryRaised(p)
  PROVE  IInv'
<1>1. /\ TablesTyped /\ ProcsTyped /\ ProcessSound(p)
      /\ BookTyped /\ OrdersSound
  BY TypeParts DEF IInv, ProcessesSound, TablesTyped, BookTyped
<1> USE DEF journalVars, controlVars, loopVars, workVars
<1>2. CASE SubmitClose(p) \/ SubmitCloseRaised(p)
  <2> DEFINE i == held[p]
  <2>1. i \in TradeIds /\ trades[i].fill > 0 /\ trades[i] \in Trade /\ i \in Nat
    BY <1>1, <1>2 DEF SubmitClose, SubmitCloseRaised, At, ProcessSound, TablesTyped, TradeIds
  <2>2. /\ CloseOrderId(i) \in OrderIds
        /\ TickerOf[trades[i].cand] \in Tickers
        /\ CloseSide(i) \in Sides
        /\ trades[i].fill \in Nat
    BY <2>1, TickerOfAssumption
    DEF CloseOrderId, OrderIds, Trade, Sides, CloseSide, Opposite
  <2>3. RequestSound(CloseOrderId(i), CloseSide(i), trades[i].fill)
    BY <2>1 DEF RequestSound
  <2>4. /\ trades' = trades
        /\ \/ SubmitAnswered(CloseOrderId(i), TickerOf[trades[i].cand], CloseSide(i),
                             trades[i].fill)
           \/ SubmitRaised(CloseOrderId(i), TickerOf[trades[i].cand], CloseSide(i),
                           trades[i].fill)
    BY <1>2 DEF SubmitClose, SubmitCloseRaised, CloseQty
  <2>5. /\ BookTyped' /\ OrdersSound' /\ BookGrows
        /\ SubmitClose(p) => CloseOrderId(i) \in Placed'
    <3>1. /\ BookTyped' /\ OrdersSound' /\ BookGrows
          /\ SubmitAnswered(CloseOrderId(i), TickerOf[trades[i].cand], CloseSide(i),
                            trades[i].fill)
             => CloseOrderId(i) \in Placed'
      BY <1>1, <2>2, <2>3, <2>4, SubmitStep
    <3> QED
      BY <3>1 DEF SubmitClose, CloseQty
  <2>6. TablesTyped'
    BY <1>1, <1>2, <2>5 DEF SubmitClose, SubmitCloseRaised, TablesTyped, BookTyped
  <2>7. ProcsTyped' /\ OthersAlone(p)
    BY <1>1, <1>2, Labels DEF SubmitClose, SubmitCloseRaised, ProcsTyped, OthersAlone
  <2>8. pc'[p] # "filling" /\ pc'[p] \in {"closing", "exits"}
    BY <1>1, <1>2 DEF SubmitClose, SubmitCloseRaised, ProcsTyped
  <2>9. exits'[p] \subseteq {k \in TradeIds' : trades'[k].fill > 0}
    BY <1>1, <1>2, <2>4 DEF SubmitClose, SubmitCloseRaised, ProcessSound, TradeIds
  <2>10. pc'[p] = "closing" =>
           /\ held'[p] \in TradeIds' /\ trades'[held'[p]].fill > 0
           /\ CloseOrderId(held'[p]) \in Placed'
    BY <1>1, <1>2, <2>1, <2>4, <2>5
    DEF SubmitClose, SubmitCloseRaised, ProcsTyped, TradeIds
  <2>11. ProcessSound(p)'
    BY <2>8, <2>9, <2>10 DEF ProcessSound, CloseOrderId
  <2> QED
    BY <2>4, <2>5, <2>6, <2>7, <2>8, <2>11, BookStep DEF OthersAlone
<1>3. CASE SubmitEntry(p) \/ SubmitEntryRaised(p)
  <2> DEFINE c == pick[p]
  <2>1. c \in Cands /\ size[p] \in Nat
    BY <1>1, <1>3 DEF SubmitEntry, SubmitEntryRaised, At, ProcessSound, ProcsTyped
  <2>2. EntryOrderId(c) \in OrderIds /\ TickerOf[c] \in Tickers /\ SideOf[c] \in Sides
    BY <2>1, TickerOfAssumption, SideOfAssumption DEF EntryOrderId, OrderIds
  <2>3. RequestSound(EntryOrderId(c), SideOf[c], size[p])
    BY <2>1 DEF RequestSound
  <2>4. /\ trades' = trades
        /\ \/ SubmitAnswered(EntryOrderId(c), TickerOf[c], SideOf[c], size[p])
           \/ SubmitRaised(EntryOrderId(c), TickerOf[c], SideOf[c], size[p])
    BY <1>3 DEF SubmitEntry, SubmitEntryRaised
  <2>5. /\ BookTyped' /\ OrdersSound' /\ BookGrows
        /\ SubmitEntry(p) => EntryOrderId(c) \in Placed'
    <3>1. /\ BookTyped' /\ OrdersSound' /\ BookGrows
          /\ SubmitAnswered(EntryOrderId(c), TickerOf[c], SideOf[c], size[p])
             => EntryOrderId(c) \in Placed'
      BY <1>1, <2>1, <2>2, <2>3, <2>4, SubmitStep
    <3> QED
      BY <3>1 DEF SubmitEntry
  <2>6. TablesTyped'
    BY <1>1, <1>3, <2>5 DEF SubmitEntry, SubmitEntryRaised, TablesTyped, BookTyped
  <2>7. ProcsTyped' /\ OthersAlone(p)
    BY <1>1, <1>3, Labels DEF SubmitEntry, SubmitEntryRaised, ProcsTyped, OthersAlone
  <2>8. pc'[p] # "filling" /\ pc'[p] \in {"record", "entries"}
    BY <1>1, <1>3 DEF SubmitEntry, SubmitEntryRaised, ProcsTyped
  <2>9. exits'[p] \subseteq {k \in TradeIds' : trades'[k].fill > 0}
    BY <1>1, <1>3, <2>4 DEF SubmitEntry, SubmitEntryRaised, ProcessSound, TradeIds
  <2>10. pc'[p] = "record" => pick'[p] \in Cands /\ EntryOrderId(pick'[p]) \in Placed'
    BY <1>1, <1>3, <2>1, <2>5 DEF SubmitEntry, SubmitEntryRaised, ProcsTyped
  <2>11. ProcessSound(p)'
    BY <2>8, <2>9, <2>10 DEF ProcessSound, EntryOrderId
  <2> QED
    BY <2>4, <2>5, <2>6, <2>7, <2>8, <2>11, BookStep DEF OthersAlone
<1> QED
  BY <1>2, <1>3

(* The two actions that change one order change its fill or its liveness. *)
LEMMA OrderMoves ==
  ASSUME NEW o \in Order, NEW n \in Nat
  PROVE  [o EXCEPT !.filled = n] \in Order /\ [o EXCEPT !.live = FALSE] \in Order
BY DEF Order

(* A request is delivered, an order fills, ends, or outlives its day. *)
LEMMA BrokerSteps ==
  ASSUME IInv, Broker \/ NextDay
  PROVE  IInv'
<1>1. TablesTyped /\ ProcsTyped /\ BookTyped /\ OrdersSound
  BY TypeParts DEF IInv, TablesTyped, BookTyped
<1>2. /\ trades' = trades /\ disp' = disp /\ sysMode' = sysMode /\ stage' = stage
      /\ UNCHANGED procVars /\ today' \in Nat
  BY <1>1 DEF Broker, NextDay, Fill, journalVars, controlVars, TablesTyped
<1>3. ProcsTyped'
  BY <1>1, <1>2 DEF ProcsTyped, procVars, loopVars, workVars
<1>4. BookTyped' /\ OrdersSound' /\ BookGrows
  <2>1. ASSUME NEW r \in inflight, Deliver(r)
        PROVE  BookTyped' /\ OrdersSound' /\ BookGrows
    <3>1. /\ r.id \in OrderIds /\ r.ticker \in Tickers /\ r.side \in Sides
          /\ r.qty \in Nat /\ RequestSound(r.id, r.side, r.qty)
      BY <1>1 DEF BookTyped, Request, OrdersSound
    <3>2. /\ Placed' = Placed \cup {r.id}
          /\ orders' \in [Placed' -> Order]
          /\ BookGrows
          /\ \A x \in Placed' :
               \/ x \in Placed /\ orders'[x] = orders[x]
               \/ x = r.id /\ orders'[x].side = r.side /\ orders'[x].qty = r.qty
      BY <1>1, <2>1, <3>1, PlaceOrder DEF Deliver
    <3>3. inflight' \subseteq inflight
      BY <2>1 DEF Deliver
    <3>4. BookTyped'
      BY <1>1, <3>1, <3>2, <3>3 DEF BookTyped
    <3>5. \A x \in Placed' : RequestSound(x, orders'[x].side, orders'[x].qty)
      BY <1>1, <3>1, <3>2 DEF OrdersSound
    <3>6. OrdersSound'
      BY <1>1, <1>2, <3>3, <3>5
      DEF OrdersSound, RequestSound, CloseSide, TradeIds, EntryOrderId, CloseOrderId
    <3> QED
      BY <3>2, <3>4, <3>6
  <2>2. ASSUME Placed' = Placed, inflight' \subseteq inflight,
               orders' \in [Placed -> Order],
               \A x \in Placed : /\ orders'[x].side = orders[x].side
                                 /\ orders'[x].qty = orders[x].qty
                                 /\ orders'[x].filled >= orders[x].filled
        PROVE  BookTyped' /\ OrdersSound' /\ BookGrows
    <3>1. BookTyped' /\ BookGrows
      BY <1>1, <2>2 DEF BookTyped, BookGrows
    <3>2. OrdersSound'
      BY <1>1, <1>2, <2>2
      DEF OrdersSound, RequestSound, CloseSide, TradeIds, EntryOrderId, CloseOrderId
    <3> QED
      BY <3>1, <3>2
  <2>3. ASSUME NEW id \in Placed, Fill(id) \/ CancelRest(id)
        PROVE  BookTyped' /\ OrdersSound' /\ BookGrows
    <3>1. /\ orders[id] \in Order /\ inflight' = inflight
          /\ \/ orders' = [orders EXCEPT ![id].filled = @ + 1]
             \/ orders' = [orders EXCEPT ![id].live = FALSE]
      BY <1>1, <2>3 DEF Fill, FillUnit, CancelRest, BookTyped
    <3>2. Placed' = Placed
      BY <1>1, <3>1 DEF BookTyped, Placed
    <3>3. \A x \in Placed : orders[x] \in Order
      BY <1>1 DEF BookTyped
    <3>4. orders' \in [Placed -> Order]
      <4>1. /\ [orders[id] EXCEPT !.filled = @ + 1] \in Order
            /\ [orders[id] EXCEPT !.live = FALSE] \in Order
        <5>1. orders[id].filled + 1 \in Nat
          BY <3>1 DEF Order
        <5> QED
          BY <3>1, <5>1, OrderMoves
      <4>2. orders \in [Placed -> Order]
        BY <1>1 DEF BookTyped
      <4> QED
        BY <3>1, <4>1, <4>2
    <3>5. \A x \in Placed : /\ orders'[x].side = orders[x].side
                            /\ orders'[x].qty = orders[x].qty
                            /\ orders'[x].filled >= orders[x].filled
      BY <1>1, <3>1, <3>3 DEF BookTyped, Order
    <3> QED
      BY <2>2, <3>1, <3>2, <3>4, <3>5
  <2>4. CASE MarketClose
    <3>1. \A x \in Placed : orders[x] \in Order
      BY <1>1 DEF BookTyped
    <3>2. orders' = [x \in Placed |-> [orders[x] EXCEPT !.live = FALSE]]
      BY <2>4 DEF MarketClose
    <3>3. Placed' = Placed /\ orders' \in [Placed -> Order]
      BY <3>1, <3>2 DEF Placed, Order
    <3>4. \A x \in Placed : /\ orders'[x].side = orders[x].side
                            /\ orders'[x].qty = orders[x].qty
                            /\ orders'[x].filled >= orders[x].filled
      BY <3>1, <3>2 DEF Order
    <3>5. inflight' \subseteq inflight
      BY <2>4 DEF MarketClose
    <3> QED
      BY <2>2, <3>3, <3>4, <3>5
  <2> QED
    BY <2>1, <2>3, <2>4 DEF Broker, NextDay
<1>5. TablesTyped'
  BY <1>1, <1>2, <1>4 DEF TablesTyped, BookTyped
<1> QED
  BY <1>2, <1>3, <1>4, <1>5, BookStep DEF procVars, loopVars, workVars

-----------------------------------------------------------------------------
(* Steps that write to the trades table.                                   *)

(* create_trade adds one open, unfilled row. *)
LEMMA CreateTradeRow ==
  ASSUME trades \in Seq(Trade), today \in Nat,
         NEW c \in Cands, NEW oid \in OrderIds, NEW qty \in Nat,
         CreateTrade(c, oid, qty)
  PROVE  /\ trades' \in Seq(Trade)
         /\ TradeIds' = TradeIds \cup {Len(trades) + 1}
         /\ Len(trades) + 1 \notin TradeIds /\ Len(trades) + 1 \in Nat
         /\ \A i \in TradeIds : trades'[i] = trades[i]
         /\ trades'[Len(trades) + 1].cand = c
         /\ trades'[Len(trades) + 1].oid = oid
         /\ trades'[Len(trades) + 1].fill = 0
         /\ trades'[Len(trades) + 1].closed = FALSE
<1> DEFINE new == [cand |-> c, oid |-> oid, qty |-> qty, day |-> today,
                   fill |-> 0, fillDay |-> 0,
                   closed |-> FALSE, lots |-> 0, dayTrades |-> 0]
<1>1. new \in Trade
  BY DEF Trade
<1>2. trades' = Append(trades, new)
  BY DEF CreateTrade
<1>3. /\ new.cand = c /\ new.oid = oid /\ new.fill = 0 /\ new.closed = FALSE
  OBVIOUS
<1> HIDE DEF new
<1>4. /\ trades' \in Seq(Trade)
      /\ TradeIds = 1..Len(trades) /\ Len(trades) \in Nat
      /\ TradeIds' = 1..(Len(trades) + 1)
      /\ \A i \in 1..Len(trades) : trades'[i] = trades[i]
      /\ trades'[Len(trades) + 1] = new
  BY <1>1, <1>2 DEF TradeIds
<1> QED
  BY <1>3, <1>4

(* fill_trade and close_trade keep a row's candidate, order and quantity. *)
LEMMA WriteTradeRow ==
  ASSUME trades \in Seq(Trade), today \in Nat, NEW i \in TradeIds,
         \/ \E f \in Nat : FillTrade(i, f)
         \/ \E loss \in BOOLEAN : CloseTrade(i, loss)
  PROVE  /\ trades' \in Seq(Trade)
         /\ TradeIds' = TradeIds
         /\ \A k \in TradeIds :
              trades'[k].cand = trades[k].cand /\ trades'[k].oid = trades[k].oid
         /\ \A k \in TradeIds \ {i} : trades'[k] = trades[k]
<1>1. PICK t \in Trade : /\ trades' = [trades EXCEPT ![i] = t]
                         /\ t.cand = trades[i].cand /\ t.oid = trades[i].oid
  <2>1. trades[i] \in Trade
    BY DEF TradeIds
  <2>2. ASSUME NEW f \in Nat, FillTrade(i, f)
        PROVE  \E t \in Trade : /\ trades' = [trades EXCEPT ![i] = t]
                                /\ t.cand = trades[i].cand /\ t.oid = trades[i].oid
    <3> DEFINE t == [trades[i] EXCEPT !.fill = f, !.fillDay = today]
    <3>1. t \in Trade /\ t.cand = trades[i].cand /\ t.oid = trades[i].oid
      BY <2>1 DEF Trade
    <3>2. trades' = [trades EXCEPT ![i] = t]
      BY <2>1, <2>2 DEF FillTrade, TradeIds, Trade
    <3> QED
      BY <3>1, <3>2
  <2>3. ASSUME NEW loss \in BOOLEAN, CloseTrade(i, loss)
        PROVE  \E t \in Trade : /\ trades' = [trades EXCEPT ![i] = t]
                                /\ t.cand = trades[i].cand /\ t.oid = trades[i].oid
    <3> DEFINE l == IF loss THEN trades[i].lots + 1 ELSE trades[i].lots
               d == IF trades[i].fillDay = today
                    THEN trades[i].dayTrades + 1 ELSE trades[i].dayTrades
               t == [trades[i] EXCEPT !.closed = TRUE, !.lots = l, !.dayTrades = d]
    <3>1. l \in Nat /\ d \in Nat
      <4>1. trades[i].lots \in Nat /\ trades[i].dayTrades \in Nat
        BY <2>1 DEF Trade
      <4> QED
        BY <4>1
    <3>2. trades' = [trades EXCEPT ![i] = t]
      BY <2>1, <2>3 DEF CloseTrade, TradeIds, Trade
    <3>3. t \in Trade /\ t.cand = trades[i].cand /\ t.oid = trades[i].oid
      <4> HIDE DEF l, d
      <4> QED
        BY <2>1, <3>1 DEF Trade
    <3> QED
      BY <3>2, <3>3
  <2> QED
    BY <2>2, <2>3
<1> QED
  BY <1>1 DEF TradeIds

(* What they write to the row, besides. *)
LEMMA WrittenFields ==
  ASSUME trades \in Seq(Trade), NEW i \in TradeIds
  PROVE  /\ \A f \in Nat : FillTrade(i, f) =>
              trades'[i].fill = f /\ trades'[i].closed = trades[i].closed
         /\ \A loss \in BOOLEAN : CloseTrade(i, loss) => trades'[i].fill = trades[i].fill
<1>1. trades[i] \in Trade
  BY DEF TradeIds
<1>2. ASSUME NEW f \in Nat, FillTrade(i, f)
      PROVE  trades'[i].fill = f /\ trades'[i].closed = trades[i].closed
  BY <1>1, <1>2 DEF FillTrade, TradeIds, Trade
<1>3. ASSUME NEW loss \in BOOLEAN, CloseTrade(i, loss)
      PROVE  trades'[i].fill = trades[i].fill
  BY <1>1, <1>3 DEF CloseTrade, TradeIds, Trade
<1> QED
  BY <1>2, <1>3

(* enter_position inserts the row: the lookup by order id leaves no row of *)
(* the candidate behind.                                                   *)
LEMMA RecordTradeStep ==
  ASSUME IInv, NEW p \in Procs, RecordTrade(p)
  PROVE  IInv'
<1> DEFINE c == pick[p]
           n == Len(trades) + 1
<1>1. TablesTyped /\ ProcsTyped /\ ProcessSound(p)
  BY TypeParts DEF IInv, ProcessesSound
<1>2. c \in Cands /\ EntryOrderId(c) \in Placed /\ size[p] \in Nat
  BY <1>1 DEF RecordTrade, At, ProcessSound, ProcsTyped
<1>3. EntryOrderId(c) \in OrderIds
  BY <1>2 DEF EntryOrderId, OrderIds
<1>4. /\ trades' \in Seq(Trade)
      /\ TradeIds' = TradeIds \cup {n}
      /\ n \notin TradeIds /\ n \in Nat
      /\ \A i \in TradeIds : trades'[i] = trades[i]
      /\ trades'[n].cand = c /\ trades'[n].oid = EntryOrderId(c)
      /\ trades'[n].fill = 0 /\ trades'[n].closed = FALSE
  <2>1. CreateTrade(c, EntryOrderId(c), size[p])
    BY DEF RecordTrade
  <2>2. trades \in Seq(Trade) /\ today \in Nat
    BY <1>1 DEF TablesTyped
  <2> QED
    BY <1>2, <1>3, <2>1, <2>2, CreateTradeRow
<1>5. \A i \in TradeIds : trades[i].cand # c
  BY DEF RecordTrade, OrderIdTaken, IInv, RowsSound
<1>6. /\ orders' = orders /\ inflight' = inflight /\ Placed' = Placed
      /\ disp' = disp /\ today' = today /\ sysMode' = sysMode /\ stage' = stage
      /\ pc' = [pc EXCEPT ![p] = "filling"] /\ held' = [held EXCEPT ![p] = n]
      /\ exits' = exits /\ pick' = pick
  BY DEF RecordTrade, brokerVars, controlVars, loopVars, Placed
<1> HIDE DEF n
<1>7. TypeOK'
  <2>1. TablesTyped'
    BY <1>1, <1>4, <1>6 DEF TablesTyped
  <2>2. ProcsTyped'
    BY <1>1, <1>4, <1>6, Labels DEF RecordTrade, loopVars, ProcsTyped
  <2> QED
    BY <2>1, <2>2 DEF TablesTyped, ProcsTyped, TypeOK
<1>8. ProcessesSound'
  <2> SUFFICES ASSUME NEW q \in Procs PROVE ProcessSound(q)'
    BY DEF ProcessesSound
  <2>1. ProcessSound(q)
    BY DEF IInv, ProcessesSound
  <2>2. CASE q = p
    <3>1. pc'[p] = "filling" /\ held'[p] = n
      BY <1>1, <1>6 DEF ProcsTyped
    <3> QED
      BY <1>2, <1>4, <1>6, <2>1, <2>2, <3>1 DEF ProcessSound, EntryOrderId
  <2>3. CASE q # p
    <3>1. pc'[q] = pc[q] /\ held'[q] = held[q]
      BY <1>6, <2>3, <1>1 DEF ProcsTyped
    <3>2. exits'[q] \subseteq {i \in TradeIds' : trades'[i].fill > 0}
      BY <1>4, <1>6, <2>1 DEF ProcessSound
    <3>3. /\ pc'[q] \in {"check", "submit", "record", "filling"} => pick'[q] \in Cands
          /\ pc'[q] \in {"record", "filling"} => EntryOrderId(pick'[q]) \in Placed'
          /\ pc'[q] = "closing" => CloseOrderId(held'[q]) \in Placed'
      BY <1>6, <2>1, <3>1 DEF ProcessSound, EntryOrderId, CloseOrderId
    <3>4. pc'[q] = "filling" \/ pc'[q] \in {"close", "closing"} =>
            held'[q] \in TradeIds' /\ trades'[held'[q]] = trades[held[q]]
      BY <1>4, <2>1, <3>1 DEF ProcessSound
    <3> QED
      BY <1>6, <2>1, <3>1, <3>2, <3>3, <3>4 DEF ProcessSound, EntryOrderId, CloseOrderId
  <2> QED
    BY <2>2, <2>3
<1>9. FillersDistinct'
  <2> SUFFICES ASSUME NEW q \in Procs, NEW r \in Procs,
                      pc'[q] = "filling", pc'[r] = "filling", held'[q] = held'[r]
               PROVE  q = r
    BY DEF FillersDistinct
  <2>1. \A x \in Procs \ {p} : pc'[x] = "filling" => held'[x] \in TradeIds
    BY <1>6, <1>1 DEF IInv, ProcessesSound, ProcessSound, ProcsTyped
  <2>2. \A x \in Procs \ {p} : pc'[x] = pc[x] /\ held'[x] = held[x]
    BY <1>6, <1>1 DEF ProcsTyped
  <2>3. held'[p] = n
    BY <1>6, <1>1 DEF ProcsTyped
  <2> QED
    BY <1>4, <2>1, <2>2, <2>3 DEF IInv, FillersDistinct
<1>10. RowsSound'
  <2>1. \A i \in TradeIds : /\ trades'[i].oid = EntryOrderId(trades'[i].cand)
                            /\ trades'[i].oid \in Placed'
                            /\ trades'[i].fill <= orders'[trades'[i].oid].filled
                            /\ trades'[i].closed => CloseOrderId(i) \in Placed'
    BY <1>4, <1>6 DEF IInv, RowsSound
  <2>2. orders[EntryOrderId(c)].filled \in Nat
    BY <1>1, <1>2 DEF TablesTyped, Order
  <2>3. /\ trades'[n].oid = EntryOrderId(trades'[n].cand)
        /\ trades'[n].oid \in Placed'
        /\ trades'[n].fill <= orders'[trades'[n].oid].filled
        /\ ~trades'[n].closed
    BY <1>2, <1>4, <1>6, <2>2
  <2> QED
    BY <1>4, <2>1, <2>3 DEF RowsSound, EntryOrderId, CloseOrderId
<1>11. OrdersSound'
  BY <1>4, <1>6
  DEF IInv, OrdersSound, RequestSound, CloseSide, EntryOrderId, CloseOrderId
<1>12. OneTradePerCandidate'
  BY <1>4, <1>5 DEF IInv, OneTradePerCandidate
<1> QED
  BY <1>7, <1>8, <1>9, <1>10, <1>11, <1>12 DEF IInv

(* The fill recorded is the order's, and is recorded by one process only. *)
LEMMA RecordFillStep ==
  ASSUME IInv, NEW p \in Procs, RecordFill(p)
  PROVE  IInv'
<1> DEFINE i == held[p]
           f == orders[EntryOrderId(pick[p])].filled
<1>1. TablesTyped /\ ProcsTyped /\ ProcessSound(p)
  BY TypeParts DEF IInv, ProcessesSound
<1>2. /\ i \in TradeIds /\ trades[i].cand = pick[p] /\ trades[i].fill = 0
      /\ pick[p] \in Cands /\ EntryOrderId(pick[p]) \in Placed
      /\ trades[i].oid = EntryOrderId(pick[p])
  BY <1>1 DEF RecordFill, At, ProcessSound, IInv, RowsSound
<1>3. f \in Nat /\ f > 0 /\ FillTrade(i, f)
  BY <1>1, <1>2 DEF RecordFill, TablesTyped, Order
<1>4. trades \in Seq(Trade) /\ today \in Nat
  BY <1>1 DEF TablesTyped
<1>5. /\ trades' \in Seq(Trade)
      /\ TradeIds' = TradeIds
      /\ \A k \in TradeIds :
           trades'[k].cand = trades[k].cand /\ trades'[k].oid = trades[k].oid
      /\ \A k \in TradeIds \ {i} : trades'[k] = trades[k]
      /\ trades'[i].fill = f /\ trades'[i].closed = trades[i].closed
  BY <1>2, <1>3, <1>4, WriteTradeRow, WrittenFields
<1>6. /\ orders' = orders /\ inflight' = inflight /\ Placed' = Placed
      /\ disp' = disp /\ today' = today /\ sysMode' = sysMode /\ stage' = stage
      /\ pc' = [pc EXCEPT ![p] = "entries"] /\ held' = [held EXCEPT ![p] = 0]
      /\ exits' = exits /\ pick' = [pick EXCEPT ![p] = None]
  BY DEF RecordFill, brokerVars, controlVars, loopVars, Placed
<1>7. TypeOK'
  <2>1. TablesTyped'
    BY <1>1, <1>5, <1>6 DEF TablesTyped
  <2>2. ProcsTyped'
    BY <1>1, <1>6, Labels DEF RecordFill, loopVars, ProcsTyped
  <2> QED
    BY <2>1, <2>2 DEF TablesTyped, ProcsTyped, TypeOK
<1> HIDE DEF f
<1>8. ProcessesSound'
  <2> SUFFICES ASSUME NEW q \in Procs PROVE ProcessSound(q)'
    BY DEF ProcessesSound
  <2>1. ProcessSound(q)
    BY DEF IInv, ProcessesSound
  <2>2. CASE q = p
    BY <1>1, <1>3, <1>5, <1>6, <2>1, <2>2 DEF ProcessSound, ProcsTyped
  <2>3. CASE q # p
    <3>1. pc'[q] = pc[q] /\ held'[q] = held[q] /\ pick'[q] = pick[q]
      BY <1>6, <2>3, <1>1 DEF ProcsTyped
    <3>2. pc[q] = "filling" => held[q] # i
      BY <2>3 DEF IInv, FillersDistinct, RecordFill, At
    <3> QED
      BY <1>3, <1>5, <1>6, <2>1, <3>1, <3>2 DEF ProcessSound, EntryOrderId, CloseOrderId
  <2> QED
    BY <2>2, <2>3
<1>9. FillersDistinct'
  <2>1. pc'[p] # "filling"
    BY <1>6, <1>1 DEF ProcsTyped
  <2>2. \A x \in Procs \ {p} : pc'[x] = pc[x] /\ held'[x] = held[x]
    BY <1>6, <1>1 DEF ProcsTyped
  <2> QED
    BY <2>1, <2>2 DEF IInv, FillersDistinct
<1>10. RowsSound'
  <2>1. trades'[i].fill <= orders'[trades'[i].oid].filled
    BY <1>2, <1>3, <1>5, <1>6 DEF f
  <2> QED
    BY <1>2, <1>5, <1>6, <2>1 DEF IInv, RowsSound, EntryOrderId, CloseOrderId
<1>11. OrdersSound'
  <2>1. \A k \in TradeIds : trades[k].fill > 0 => trades'[k].fill = trades[k].fill
    BY <1>2, <1>5
  <2> QED
    BY <1>5, <1>6, <2>1
    DEF IInv, OrdersSound, RequestSound, CloseSide, EntryOrderId, CloseOrderId
<1>12. OneTradePerCandidate'
  BY <1>5 DEF IInv, OneTradePerCandidate
<1> QED
  BY <1>7, <1>8, <1>9, <1>10, <1>11, <1>12 DEF IInv

(* A trade is closed with its closing order in the book. *)
LEMMA JournalCloseStep ==
  ASSUME IInv, NEW p \in Procs, JournalClose(p)
  PROVE  IInv'
<1> DEFINE i == held[p]
<1>1. TablesTyped /\ ProcsTyped /\ ProcessSound(p)
  BY TypeParts DEF IInv, ProcessesSound
<1>2. i \in TradeIds /\ trades[i].fill > 0 /\ CloseOrderId(i) \in Placed
  BY <1>1 DEF JournalClose, At, ProcessSound
<1>3. \E loss \in BOOLEAN : CloseTrade(i, loss)
  BY DEF JournalClose
<1>4. trades \in Seq(Trade) /\ today \in Nat
  BY <1>1 DEF TablesTyped
<1>5. /\ trades' \in Seq(Trade)
      /\ TradeIds' = TradeIds
      /\ \A k \in TradeIds :
           trades'[k].cand = trades[k].cand /\ trades'[k].oid = trades[k].oid
      /\ \A k \in TradeIds \ {i} : trades'[k] = trades[k]
      /\ trades'[i].fill = trades[i].fill
  BY <1>2, <1>3, <1>4, WriteTradeRow, WrittenFields
<1>6. /\ orders' = orders /\ inflight' = inflight /\ Placed' = Placed
      /\ disp' = disp /\ today' = today /\ sysMode' = sysMode /\ stage' = stage
      /\ pc' = [pc EXCEPT ![p] = "exits"] /\ held' = [held EXCEPT ![p] = 0]
      /\ exits' = exits /\ pick' = pick
  BY DEF JournalClose, brokerVars, controlVars, loopVars, Placed
<1>7. TypeOK'
  <2>1. TablesTyped'
    BY <1>1, <1>5, <1>6 DEF TablesTyped
  <2>2. ProcsTyped'
    BY <1>1, <1>6, Labels DEF JournalClose, loopVars, ProcsTyped
  <2> QED
    BY <2>1, <2>2 DEF TablesTyped, ProcsTyped, TypeOK
<1>8. /\ TradeIds' = TradeIds
      /\ \A k \in TradeIds : /\ trades'[k].fill = trades[k].fill
                             /\ trades'[k].cand = trades[k].cand
  BY <1>2, <1>5
<1>9. ProcessesSound'
  <2> SUFFICES ASSUME NEW q \in Procs PROVE ProcessSound(q)'
    BY DEF ProcessesSound
  <2>1. ProcessSound(q)
    BY DEF IInv, ProcessesSound
  <2>2. CASE q = p
    BY <1>1, <1>5, <1>6, <1>8, <2>1, <2>2 DEF ProcessSound, ProcsTyped
  <2>3. CASE q # p
    <3>1. pc'[q] = pc[q] /\ held'[q] = held[q]
      BY <1>6, <2>3, <1>1 DEF ProcsTyped
    <3> QED
      BY <1>6, <1>8, <2>1, <3>1 DEF ProcessSound, EntryOrderId, CloseOrderId
  <2> QED
    BY <2>2, <2>3
<1>10. FillersDistinct'
  <2>1. pc'[p] # "filling"
    BY <1>6, <1>1 DEF ProcsTyped
  <2>2. \A x \in Procs \ {p} : pc'[x] = pc[x] /\ held'[x] = held[x]
    BY <1>6, <1>1 DEF ProcsTyped
  <2> QED
    BY <2>1, <2>2 DEF IInv, FillersDistinct
<1>11. RowsSound'
  BY <1>2, <1>5, <1>6, <1>8 DEF IInv, RowsSound, EntryOrderId, CloseOrderId
<1>12. OrdersSound'
  BY <1>5, <1>6, <1>8
  DEF IInv, OrdersSound, RequestSound, CloseSide, EntryOrderId, CloseOrderId
<1>13. OneTradePerCandidate'
  BY <1>5 DEF IInv, OneTradePerCandidate
<1> QED
  BY <1>7, <1>9, <1>10, <1>11, <1>12, <1>13 DEF IInv

-----------------------------------------------------------------------------
(* The operator writes dispositions, the mode and strategy states only. *)
LEMMA OperatorStep ==
  ASSUME IInv, Operator
  PROVE  IInv'
<1>1. TablesTyped /\ ProcsTyped
  BY TypeParts DEF IInv
<1>2. /\ orders' = orders /\ inflight' = inflight /\ Placed' = Placed
      /\ trades' = trades /\ today' = today /\ UNCHANGED procVars
  BY DEF Operator, brokerVars, journalVars, Placed
<1>3. /\ disp' \in [Cands -> Dispositions] /\ sysMode' \in Modes
      /\ stage' \in [Strategies -> {"proposed", "active", "retired"}]
  BY <1>1, OperatorDispAssumption, ModesAssumption
  DEF Operator, DisposeCandidate, TablesTyped, Dispositions, journalVars,
      controlVars
<1>4. TablesTyped' /\ ProcsTyped'
  BY <1>1, <1>2, <1>3 DEF TablesTyped, ProcsTyped, procVars, loopVars, workVars
<1>5. BookGrows
  BY <1>1, <1>2 DEF BookGrows, TablesTyped, Order
<1>6. OrdersSound'
  BY <1>2
  DEF IInv, OrdersSound, RequestSound, CloseSide, TradeIds, EntryOrderId, CloseOrderId
<1> QED
  BY <1>2, <1>4, <1>5, <1>6, BookStep DEF procVars, loopVars, workVars

(* A step that changes nothing keeps the inductive invariant. *)
LEMMA StutterStep ==
  ASSUME IInv, UNCHANGED vars
  PROVE  IInv'
BY DEF vars, sharedVars, brokerVars, journalVars, controlVars, procVars, loopVars,
       workVars, IInv, TypeOK, ProcessesSound, ProcessSound, FillersDistinct,
       RowsSound, OrdersSound, RequestSound, CloseSide, OneTradePerCandidate, Placed, TradeIds,
       EntryOrderId, CloseOrderId

(* Every step keeps the inductive invariant. *)
LEMMA NextInv == IInv /\ [Next]_vars => IInv'
<1> SUFFICES ASSUME IInv, [Next]_vars PROVE IInv'
  OBVIOUS
<1>1. ASSUME NEW p \in Procs, Step(p) PROVE IInv'
  <2>1. CASE \/ StartCycle(p) \/ EndCycle(p) \/ AbandonRow(p)
             \/ \E s \in Strategies : TakeRow(p, s) \/ SkipRow(p, s)
    BY <2>1, CycleSteps
  <2>2. CASE Exits(p)
    BY <2>2, PollSteps, SubmitSteps, JournalCloseStep DEF Exits
  <2>3. CASE Entries(p)
    BY <2>3, EntryLoopSteps, SubmitSteps, RecordTradeStep, RecordFillStep DEF Entries
  <2> QED
    BY <1>1, <2>1, <2>2, <2>3 DEF Step
<1>2. ASSUME NEW p \in Procs, Crash(p) PROVE IInv'
  BY <1>2, CycleSteps
<1> QED
  BY <1>1, <1>2, OperatorStep, BrokerSteps, StutterStep DEF Next

(* The inductive invariant holds of every state the cycle, the operator and *)
(* the broker reach together.                                              *)
THEOREM Inductive == Spec => []IInv
BY InitInv, NextInv, PTL DEF Spec

(* The journal tables, the broker's book and what the processes of         *)
(* run_executor_cycle hold stay well formed in every run, with any number  *)
(* of processes that crash and restart.                                    *)
THEOREM TypeCorrect == Spec => []TypeOK
<1>1. IInv => TypeOK
  BY DEF IInv
<1> QED
  BY <1>1, Inductive, PTL

(* No two rows of the trades table are for one candidate, whichever cycles *)
(* race, retry or crash between the lookup by candidate_id and the insert  *)
(* (cycle.py:157, executor.py:108).                                        *)
THEOREM NoDoubleEntry == Spec => []OneTradePerCandidate
<1>1. IInv => OneTradePerCandidate
  BY DEF IInv
<1> QED
  BY <1>1, Inductive, PTL

(* The journal never runs ahead of the broker: every row has its order,    *)
(* its fill is at most the order's, and a closed row has its closing       *)
(* order, of the other side and for exactly the recorded fill              *)
(* (executor.py:105-126 and 233-247).                                      *)
THEOREM JournalIsBacked == Spec => []JournalBacked
<1>1. IInv => JournalBacked
  <2> SUFFICES ASSUME IInv, NEW i \in TradeIds
               PROVE  /\ trades[i].oid \in Placed
                      /\ trades[i].fill <= orders[trades[i].oid].filled
                      /\ trades[i].closed =>
                           /\ CloseOrderId(i) \in Placed
                           /\ orders[CloseOrderId(i)].qty = trades[i].fill
                           /\ orders[CloseOrderId(i)].side
                                = Opposite(orders[trades[i].oid].side)
    BY DEF JournalBacked
  <2>1. /\ trades[i].oid \in Placed
        /\ trades[i].fill <= orders[trades[i].oid].filled
        /\ trades[i].closed => CloseOrderId(i) \in Placed
    BY DEF IInv, RowsSound
  <2>2. ASSUME CloseOrderId(i) \in Placed
        PROVE  /\ orders[CloseOrderId(i)].qty = trades[i].fill
               /\ orders[CloseOrderId(i)].side = CloseSide(i)
    <3>1. RequestSound(CloseOrderId(i), orders[CloseOrderId(i)].side,
                       orders[CloseOrderId(i)].qty)
      BY <2>2 DEF IInv, OrdersSound
    <3> QED
      BY <3>1 DEF RequestSound, CloseSide, EntryOrderId, CloseOrderId
  <2>3. orders[trades[i].oid].side = SideOf[trades[i].cand]
    <3>1. RequestSound(trades[i].oid, orders[trades[i].oid].side,
                       orders[trades[i].oid].qty)
      BY <2>1 DEF IInv, OrdersSound
    <3>2. trades[i].oid = EntryOrderId(trades[i].cand)
      BY DEF IInv, RowsSound
    <3> QED
      BY <3>1, <3>2 DEF RequestSound, CloseSide, EntryOrderId, CloseOrderId
  <2> QED
    BY <2>1, <2>2, <2>3 DEF CloseSide
<1> QED
  BY <1>1, Inductive, PTL

-----------------------------------------------------------------------------
(* Several processes between a look at the journal and the write that      *)
(* follows it: what each of them can still add, and no more.               *)

(* The rows of the trades table are finitely many. *)
LEMMA RowsFinite ==
  ASSUME trades \in Seq(Trade)
  PROVE  /\ IsFiniteSet(TradeIds) /\ IsFiniteSet(OpenTrades) /\ IsFiniteSet(EnteredToday)
         /\ Cardinality(OpenTrades) \in Nat /\ Cardinality(EnteredToday) \in Nat
         /\ \A i \in TradeIds : trades[i] \in Trade
<1>1. TradeIds = 1..Len(trades) /\ Len(trades) \in Nat
  BY DEF TradeIds
<1>2. IsFiniteSet(TradeIds)
  BY <1>1, FS_Interval
<1>3. OpenTrades \subseteq TradeIds /\ EnteredToday \subseteq TradeIds
  BY DEF OpenTrades, EnteredToday
<1> QED
  BY <1>2, <1>3, FS_Subset, FS_CardinalityType DEF TradeIds

(* The sets of processes that RaceInv counts are finite. *)
LEMMA ProcsFinite ==
  /\ Racers \in Nat \ {0} /\ IsFiniteSet(Entering)
  /\ Cardinality(Entering) \in 0..Racers
  /\ \A i : IsFiniteSet(Holders(i)) /\ Cardinality(Holders(i)) \in 0..Racers
<1>1. \A S : S \subseteq Procs =>
        IsFiniteSet(S) /\ Cardinality(S) \in Nat /\ Cardinality(S) <= Cardinality(Procs)
  BY ProcsAssumption, FS_Subset, FS_CardinalityType
<1>2. Cardinality(Procs) \in Nat \ {0}
  BY ProcsAssumption, FS_CardinalityType, FS_EmptySet
<1>3. Entering \subseteq Procs /\ \A i : Holders(i) \subseteq Procs
  BY DEF Entering, Holders
<1> QED
  BY <1>1, <1>2, <1>3 DEF Racers

(* The same after a step. *)
LEMMA ProcsFiniteNext ==
  /\ IsFiniteSet(Entering') /\ Cardinality(Entering') \in 0..Racers
  /\ \A i : IsFiniteSet(Holders(i)') /\ Cardinality(Holders(i)') \in 0..Racers
<1>1. \A S : S \subseteq Procs =>
        IsFiniteSet(S) /\ Cardinality(S) \in Nat /\ Cardinality(S) <= Cardinality(Procs)
  BY ProcsAssumption, FS_Subset, FS_CardinalityType
<1>3. Entering' \subseteq Procs /\ \A i : Holders(i)' \subseteq Procs
  BY DEF Entering, Holders
<1> QED
  BY <1>1, <1>3 DEF Racers

(* At first nothing is in hand. *)
LEMMA RaceInit ==
  ASSUME Init PROVE RaceInv
<1>1. OpenTrades = {} /\ EnteredToday = {} /\ TradeIds = {}
  BY DEF Init, JournalInit, OpenTrades, EnteredToday, TradeIds
<1>2. \A p \in Procs : pc[p] = "idle"
  BY DEF Init
<1>3. Entering = {} /\ Cardinality({}) = 0
  BY <1>2, FS_EmptySet DEF Entering, AboutToEnter
<1>4. RoomLeft
  BY <1>1, <1>3, ProcsFinite, LimitAssumption DEF RoomLeft
<1> QED
  BY <1>1, <1>2, <1>4 DEF RaceInv, CloseSound

(* What the sets of processes owe to the others does not change when p     *)
(* moves.                                                                  *)
LEMMA OthersCounted ==
  ASSUME NEW p \in Procs, OthersAlone(p)
  PROVE  /\ Entering' \ {p} = Entering \ {p}
         /\ \A i : Holders(i)' \ {p} = Holders(i) \ {p}
BY DEF OthersAlone, Entering, AboutToEnter, Holders, ClosesTrade

(* A step of p that leaves the rows and the day alone: p may come to hold  *)
(* an open trade, and to enter where it has seen the limits unreached.     *)
LEMMA RaceQuiet ==
  ASSUME TypeOK, RaceInv, NEW p \in Procs, OthersAlone(p),
         trades' = trades, today' = today, CloseSound(p)',
         \A i \in TradeIds \ OpenTrades : p \in Holders(i)' => p \in Holders(i),
         p \in Entering' => \/ p \in Entering
                           \/ /\ Cardinality(OpenTrades) < MaxPositions
                              /\ Cardinality(EnteredToday) < MaxDaily
  PROVE  RaceInv'
<1>1. /\ OpenTrades' = OpenTrades /\ EnteredToday' = EnteredToday /\ TradeIds' = TradeIds
      /\ trades \in Seq(Trade)
  BY DEF OpenTrades, EnteredToday, TradeIds, TypeOK
<1>2. RoomLeft'
  <2>1. CASE p \in Entering' => p \in Entering
    <3>1. Entering' \subseteq Entering
      BY <2>1, OthersCounted
    <3>2. Cardinality(Entering') <= Cardinality(Entering)
      BY <3>1, ProcsFinite, FS_Subset
    <3> QED
      BY <1>1, <3>1, <3>2, ProcsFinite, ProcsFiniteNext, RowsFinite, LimitAssumption
      DEF RaceInv, RoomLeft
  <2>2. CASE /\ Cardinality(OpenTrades) < MaxPositions
             /\ Cardinality(EnteredToday) < MaxDaily
    BY <1>1, <2>2, ProcsFinite, ProcsFiniteNext, RowsFinite, LimitAssumption DEF RoomLeft
  <2> QED
    BY <2>1, <2>2
<1>3. ASSUME NEW i \in TradeIds
      PROVE  SideRowsBounded(i)'
  <2>1. CASE trades[i].closed
    <3>1. Holders(i)' \subseteq Holders(i)
      BY <2>1, OthersCounted DEF OpenTrades
    <3>2. Cardinality(Holders(i)') <= Cardinality(Holders(i))
      BY <3>1, ProcsFinite, FS_Subset
    <3>3. trades[i].lots \in Nat /\ trades[i].dayTrades \in Nat
      BY <1>1, RowsFinite DEF Trade
    <3> QED
      BY <2>1, <3>2, <3>3, ProcsFinite, ProcsFiniteNext DEF RaceInv, SideRowsBounded
  <2>2. CASE ~trades[i].closed
    BY <2>2 DEF RaceInv, SideRowsBounded
  <2> QED
    BY <2>1, <2>2
<1>4. \A q \in Procs : CloseSound(q)'
  BY DEF RaceInv, CloseSound, OthersAlone
<1> QED
  BY <1>1, <1>2, <1>3, <1>4 DEF RaceInv

(* The steps of a cycle that place no entry order. *)
LEMMA RaceCycleSteps ==
  ASSUME IInv, RaceInv, NEW p \in Procs,
         \/ StartCycle(p) \/ EndCycle(p) \/ AbandonRow(p) \/ Crash(p)
         \/ \E s \in Strategies : TakeRow(p, s) \/ SkipRow(p, s)
         \/ \E i \in TradeIds : HoldTrade(p, i) \/ ExitSignal(p, i)
         \/ SubmitClose(p) \/ SubmitCloseRaised(p) \/ ListAccepted(p)
  PROVE  RaceInv'
<1> USE DEF sharedVars, brokerVars, journalVars, controlVars, loopVars, workVars
<1>1. ProcsTyped /\ CloseSound(p) /\ TypeOK
  BY TypeParts DEF IInv, RaceInv
<1>2. trades' = trades /\ today' = today
  BY DEF StartCycle, EndCycle, AbandonRow, Crash, TakeRow, SkipRow, HoldTrade,
     ExitSignal, SubmitClose, SubmitCloseRaised, ListAccepted
<1>3. OthersAlone(p)
  BY <1>1 DEF ProcsTyped, OthersAlone, StartCycle, EndCycle, AbandonRow, Crash, TakeRow,
     SkipRow, HoldTrade, ExitSignal, SubmitClose, SubmitCloseRaised, ListAccepted
<1>4. SUFFICES /\ CloseSound(p)'
               /\ \A i \in TradeIds \ OpenTrades : p \in Holders(i)' => p \in Holders(i)
               /\ p \notin Entering'
  BY <1>1, <1>2, <1>3, RaceQuiet
<1>5. CASE \/ StartCycle(p) \/ EndCycle(p) \/ AbandonRow(p) \/ Crash(p)
           \/ \E s \in Strategies : TakeRow(p, s) \/ SkipRow(p, s)
  <2>1. pc'[p] \in {"idle", "rows", "exits"} /\ exits'[p] \subseteq exits[p] \cup OpenTrades
    BY <1>1, <1>5 DEF ProcsTyped, StartCycle, EndCycle, AbandonRow, Crash, TakeRow,
       SkipRow, At, FilledOpen, OpenTradesOf
  <2> QED
    BY <2>1 DEF CloseSound, Holders, ClosesTrade, Entering, AboutToEnter
<1>6. CASE SubmitClose(p) \/ SubmitCloseRaised(p) \/ ListAccepted(p)
  <2>1. /\ pc'[p] \in {"closing", "exits", "entries"} /\ exits'[p] = exits[p]
        /\ pc'[p] = "closing" => pc[p] = "close" /\ held'[p] = held[p]
    BY <1>1, <1>6 DEF ProcsTyped, SubmitClose, SubmitCloseRaised, ListAccepted, At
  <2> QED
    BY <1>1, <1>2, <2>1 DEF CloseSound, Holders, ClosesTrade, Entering, AboutToEnter
<1>7. ASSUME NEW i \in TradeIds, HoldTrade(p, i)
      PROVE  /\ CloseSound(p)' /\ p \notin Entering'
             /\ \A k \in TradeIds \ OpenTrades : p \in Holders(k)' => p \in Holders(k)
  <2>1. pc'[p] = "exits" /\ exits'[p] \subseteq exits[p]
    BY <1>1, <1>7 DEF ProcsTyped, HoldTrade, At
  <2> QED
    BY <2>1 DEF CloseSound, Holders, ClosesTrade, Entering, AboutToEnter
<1>8. ASSUME NEW i \in TradeIds, ExitSignal(p, i)
      PROVE  /\ CloseSound(p)' /\ p \notin Entering'
             /\ \A k \in TradeIds \ OpenTrades : p \in Holders(k)' => p \in Holders(k)
  <2>1. /\ pc'[p] = "close" /\ exits'[p] = exits[p] \ {i} /\ held'[p] = i
        /\ i \in exits[p] /\ today - trades[i].fillDay >= MinHold
    BY <1>1, <1>8 DEF ProcsTyped, ExitSignal, At
  <2> QED
    BY <1>2, <2>1 DEF CloseSound, Holders, ClosesTrade, Entering, AboutToEnter
<1> QED
  BY <1>5, <1>6, <1>7, <1>8

(* The steps of an entry that write no trade. *)
LEMMA RaceEntrySteps ==
  ASSUME IInv, RaceInv, NEW p \in Procs,
         \/ EndRow(p) \/ EquityUnavailable(p)
         \/ \E c \in Cands : SkipCandidate(p, c) \/ PickCandidate(p, c)
         \/ ApproveEntry(p) \/ RefuseEntry(p) \/ EntryRaised(p)
         \/ SubmitEntry(p) \/ SubmitEntryRaised(p)
         \/ RecordTradeRaised(p) \/ FillPollTimeout(p)
  PROVE  RaceInv'
<1> USE DEF sharedVars, brokerVars, journalVars, controlVars, loopVars, workVars
<1>1. ProcsTyped /\ TypeOK
  BY TypeParts DEF IInv
<1>2. trades' = trades /\ today' = today /\ exits' = exits
  BY DEF EndRow, EquityUnavailable, SkipCandidate, PickCandidate, ApproveEntry,
     RefuseEntry, EntryRaised, SubmitEntry, SubmitEntryRaised, RecordTradeRaised,
     FillPollTimeout
<1>3. OthersAlone(p)
  BY <1>1 DEF ProcsTyped, OthersAlone, EndRow, EquityUnavailable, SkipCandidate,
     PickCandidate, ApproveEntry, RefuseEntry, EntryRaised, SubmitEntry,
     SubmitEntryRaised, RecordTradeRaised, FillPollTimeout
<1>4. /\ pc'[p] \notin {"close", "closing"}
      /\ pc'[p] \in {"submit", "record"} => pc[p] \in {"submit", "record"} \/ ApproveEntry(p)
  BY <1>1 DEF ProcsTyped, At, EndRow, EquityUnavailable, SkipCandidate,
     PickCandidate, ApproveEntry, RefuseEntry, EntryRaised, SubmitEntry,
     SubmitEntryRaised, RecordTradeRaised, FillPollTimeout
<1>5. ApproveEntry(p) => /\ Cardinality(OpenTrades) < MaxPositions
                         /\ Cardinality(EnteredToday) < MaxDaily
  BY DEF ApproveEntry, RiskChecksPass
<1>6. CloseSound(p)' /\ \A i : p \in Holders(i)' => p \in Holders(i)
  BY <1>2, <1>4 DEF CloseSound, Holders, ClosesTrade
<1>7. p \in Entering' => p \in Entering \/ ApproveEntry(p)
  BY <1>4 DEF Entering, AboutToEnter
<1> QED
  BY <1>1, <1>2, <1>3, <1>5, <1>6, <1>7, RaceQuiet

(* What the three writes leave in the rows, in the columns the limits and  *)
(* the side tables are about.                                              *)
LEMMA CreatedColumns ==
  ASSUME trades \in Seq(Trade), today \in Nat,
         NEW c \in Cands, NEW oid \in OrderIds, NEW qty \in Nat, CreateTrade(c, oid, qty)
  PROVE  \E n : /\ n \notin TradeIds /\ TradeIds' = TradeIds \cup {n}
                /\ \A i \in TradeIds : trades'[i] = trades[i]
                /\ trades'[n].day = today /\ trades'[n].fillDay = 0
                /\ trades'[n].closed = FALSE
                /\ trades'[n].lots = 0 /\ trades'[n].dayTrades = 0
<1> DEFINE new == [cand |-> c, oid |-> oid, qty |-> qty, day |-> today,
                   fill |-> 0, fillDay |-> 0,
                   closed |-> FALSE, lots |-> 0, dayTrades |-> 0]
<1>1. new \in Trade
  BY DEF Trade
<1>2. trades' = Append(trades, new)
  BY DEF CreateTrade
<1>3. /\ new.day = today /\ new.fillDay = 0 /\ new.closed = FALSE
      /\ new.lots = 0 /\ new.dayTrades = 0
  OBVIOUS
<1> HIDE DEF new
<1>4. /\ TradeIds = 1..Len(trades) /\ Len(trades) \in Nat
      /\ TradeIds' = 1..(Len(trades) + 1)
      /\ \A i \in 1..Len(trades) : trades'[i] = trades[i]
      /\ trades'[Len(trades) + 1] = new
  BY <1>1, <1>2 DEF TradeIds
<1>5. Len(trades) + 1 \notin TradeIds /\ TradeIds' = TradeIds \cup {Len(trades) + 1}
  BY <1>4
<1> QED
  BY <1>3, <1>4, <1>5

(* What fill_trade leaves of the other columns and rows. *)
LEMMA FilledColumns ==
  ASSUME trades \in Seq(Trade), NEW i \in TradeIds, NEW f \in Nat, FillTrade(i, f)
  PROVE  /\ TradeIds' = TradeIds
         /\ \A k \in TradeIds \ {i} : trades'[k] = trades[k]
         /\ trades'[i].fillDay = today
         /\ trades'[i].day = trades[i].day /\ trades'[i].closed = trades[i].closed
         /\ trades'[i].lots = trades[i].lots /\ trades'[i].dayTrades = trades[i].dayTrades
<1>1. trades[i] \in Trade
  BY DEF TradeIds
<1> QED
  BY <1>1 DEF FillTrade, TradeIds, Trade

(* What close_trade leaves of them, and what it adds to the side tables. *)
LEMMA ClosedColumns ==
  ASSUME trades \in Seq(Trade), NEW i \in TradeIds, NEW loss \in BOOLEAN, CloseTrade(i, loss)
  PROVE  /\ TradeIds' = TradeIds
         /\ \A k \in TradeIds \ {i} : trades'[k] = trades[k]
         /\ trades'[i].closed = TRUE
         /\ trades'[i].day = trades[i].day /\ trades'[i].fillDay = trades[i].fillDay
         /\ trades'[i].lots \in trades[i].lots..(trades[i].lots + 1)
         /\ trades'[i].dayTrades = IF trades[i].fillDay = today
                                   THEN trades[i].dayTrades + 1 ELSE trades[i].dayTrades
<1> DEFINE l == IF loss THEN trades[i].lots + 1 ELSE trades[i].lots
           d == IF trades[i].fillDay = today
                THEN trades[i].dayTrades + 1 ELSE trades[i].dayTrades
           t == [trades[i] EXCEPT !.closed = TRUE, !.lots = l, !.dayTrades = d]
<1>1. trades[i] \in Trade
  BY DEF TradeIds
<1>2. trades' = [trades EXCEPT ![i] = t]
  BY <1>1 DEF CloseTrade, TradeIds, Trade
<1>3. l \in trades[i].lots..(trades[i].lots + 1)
  <2>1. trades[i].lots \in Nat
    BY <1>1 DEF Trade
  <2> QED
    BY <2>1
<1>4. /\ t.closed = TRUE /\ t.day = trades[i].day /\ t.fillDay = trades[i].fillDay
      /\ t.lots = l /\ t.dayTrades = d
  <2> HIDE DEF l, d
  <2> QED
    BY <1>1 DEF Trade
<1> HIDE DEF t, l
<1> QED
  BY <1>1, <1>2, <1>3, <1>4 DEF TradeIds

(* A row is entered by a process that is no longer about to enter one. *)
LEMMA RaceRecordTrade ==
  ASSUME IInv, RaceInv, NEW p \in Procs, RecordTrade(p)
  PROVE  RaceInv'
<1>1. /\ TablesTyped /\ ProcsTyped /\ ProcessSound(p)
      /\ trades \in Seq(Trade) /\ today \in Nat
  BY TypeParts DEF IInv, ProcessesSound, TablesTyped
<1>2. pick[p] \in Cands /\ EntryOrderId(pick[p]) \in OrderIds /\ size[p] \in Nat
  BY <1>1 DEF RecordTrade, At, ProcessSound, ProcsTyped, EntryOrderId, OrderIds
<1>3. PICK n : /\ n \notin TradeIds /\ TradeIds' = TradeIds \cup {n}
               /\ \A i \in TradeIds : trades'[i] = trades[i]
               /\ trades'[n].day = today /\ trades'[n].fillDay = 0
               /\ trades'[n].closed = FALSE
               /\ trades'[n].lots = 0 /\ trades'[n].dayTrades = 0
  <2>1. CreateTrade(pick[p], EntryOrderId(pick[p]), size[p])
    BY DEF RecordTrade
  <2> QED
    BY <1>1, <1>2, <2>1, CreatedColumns
<1>4. /\ today' = today /\ exits' = exits /\ OthersAlone(p)
      /\ pc[p] = "record" /\ pc'[p] = "filling"
  BY <1>1 DEF RecordTrade, loopVars, OthersAlone, At, ProcsTyped
<1>5. /\ OpenTrades' = OpenTrades \cup {n} /\ n \notin OpenTrades
      /\ EnteredToday' = EnteredToday \cup {n} /\ n \notin EnteredToday
  BY <1>3, <1>4 DEF OpenTrades, EnteredToday
<1>6. RoomLeft'
  <2>1. /\ Cardinality(OpenTrades') = Cardinality(OpenTrades) + 1
        /\ Cardinality(EnteredToday') = Cardinality(EnteredToday) + 1
    BY <1>1, <1>5, RowsFinite, FS_AddElement
  <2>2. p \in Entering /\ Entering' = Entering \ {p}
    BY <1>4, OthersCounted DEF Entering, AboutToEnter
  <2>3. Cardinality(Entering') = Cardinality(Entering) - 1
    BY <2>2, ProcsFinite, FS_RemoveElement
  <2>4. PICK a \in Nat, b \in Nat, c \in Nat :
               /\ a = Cardinality(OpenTrades) /\ b = Cardinality(EnteredToday)
               /\ c = Cardinality(Entering)
    BY <1>1, RowsFinite, ProcsFinite, FS_CardinalityType
  <2>5. /\ Entering # {} /\ MaxDaily > 0
        /\ a + c <= MaxPositions + Racers - 1 /\ b + c <= MaxDaily + Racers - 1
    BY <2>2, <2>4 DEF RaceInv, RoomLeft
  <2> QED
    BY <2>1, <2>3, <2>4, <2>5, LimitAssumption, ProcsFinite DEF RoomLeft
<1>7. ASSUME NEW i \in TradeIds'
      PROVE  /\ trades'[i].day <= today' /\ trades'[i].fillDay <= today'
             /\ SideRowsBounded(i)'
  <2>1. CASE i = n
    BY <1>1, <1>3, <1>4, <2>1 DEF SideRowsBounded
  <2>2. CASE i \in TradeIds
    <3>1. Holders(i)' \subseteq Holders(i)
      BY <1>4, OthersCounted DEF Holders, ClosesTrade
    <3>2. Cardinality(Holders(i)') <= Cardinality(Holders(i))
      BY <3>1, ProcsFinite, FS_Subset
    <3>3. trades[i].lots \in Nat /\ trades[i].dayTrades \in Nat
      BY <1>1, <2>2, RowsFinite DEF Trade
    <3>4. trades'[i] = trades[i]
      BY <1>3, <2>2
    <3>5. SideRowsBounded(i)
      BY <2>2 DEF RaceInv
    <3>6. SideRowsBounded(i)'
      BY <3>2, <3>3, <3>4, <3>5, ProcsFinite, ProcsFiniteNext DEF SideRowsBounded
    <3> QED
      BY <1>4, <2>2, <3>4, <3>6 DEF RaceInv
  <2> QED
    BY <1>3, <2>1, <2>2
<1>8. ASSUME NEW q \in Procs
      PROVE  CloseSound(q)'
  <2>1. CASE q = p
    BY <1>4, <2>1 DEF CloseSound
  <2>2. CASE q # p
    <3>1. pc[q] \in {"close", "closing"} => held[q] \in TradeIds
      BY DEF IInv, ProcessesSound, ProcessSound
    <3>2. CloseSound(q) /\ pc'[q] = pc[q] /\ held'[q] = held[q] /\ exits'[q] = exits[q]
      BY <1>4, <2>2 DEF RaceInv, OthersAlone
    <3> QED
      BY <1>3, <1>4, <3>1, <3>2 DEF CloseSound
  <2> QED
    BY <2>1, <2>2
<1> QED
  BY <1>6, <1>7, <1>8 DEF RaceInv

(* A fill is recorded in a row that nobody closes: it had none before. *)
LEMMA RaceRecordFill ==
  ASSUME IInv, RaceInv, NEW p \in Procs, RecordFill(p)
  PROVE  RaceInv'
<1>1. /\ TablesTyped /\ ProcsTyped /\ ProcessSound(p)
      /\ trades \in Seq(Trade) /\ today \in Nat /\ orders \in [Placed -> Order]
  BY TypeParts DEF IInv, ProcessesSound, TablesTyped
<1>2. PICK i \in TradeIds :
        i = held[p] /\ EntryOrderId(pick[p]) \in Placed /\ trades[i].fill = 0
  BY <1>1 DEF RecordFill, At, ProcessSound
<1>3. \E f \in Nat : FillTrade(i, f)
  BY <1>1, <1>2 DEF RecordFill, Order
<1>4. /\ TradeIds' = TradeIds
      /\ \A k \in TradeIds \ {i} : trades'[k] = trades[k]
      /\ trades'[i].fillDay = today
      /\ trades'[i].day = trades[i].day /\ trades'[i].closed = trades[i].closed
      /\ trades'[i].lots = trades[i].lots /\ trades'[i].dayTrades = trades[i].dayTrades
  BY <1>1, <1>3, FilledColumns
<1>5. /\ today' = today /\ exits' = exits /\ OthersAlone(p)
      /\ pc[p] = "filling" /\ pc'[p] = "entries"
  BY <1>1 DEF RecordFill, loopVars, OthersAlone, At, ProcsTyped
<1>6. OpenTrades' = OpenTrades /\ EnteredToday' = EnteredToday
  BY <1>4, <1>5 DEF OpenTrades, EnteredToday
<1>7. /\ Entering' = Entering /\ \A k : Holders(k)' = Holders(k)
  BY <1>5 DEF Entering, AboutToEnter, Holders, ClosesTrade, OthersAlone
<1>8. RoomLeft'
  BY <1>6, <1>7 DEF RaceInv, RoomLeft
<1>9. ASSUME NEW k \in TradeIds'
      PROVE  /\ trades'[k].day <= today' /\ trades'[k].fillDay <= today'
             /\ SideRowsBounded(k)'
  <2>1. /\ trades'[k].day = trades[k].day /\ trades'[k].closed = trades[k].closed
        /\ trades'[k].lots = trades[k].lots /\ trades'[k].dayTrades = trades[k].dayTrades
        /\ trades'[k].fillDay \in {trades[k].fillDay, today}
    BY <1>4
  <2>2. k \in TradeIds /\ Holders(k)' = Holders(k)
    BY <1>4, <1>7
  <2> QED
    BY <1>1, <1>5, <2>1, <2>2 DEF RaceInv, SideRowsBounded
<1>10. ASSUME NEW q \in Procs
       PROVE  CloseSound(q)'
  <2>1. CASE q = p
    BY <1>5, <2>1 DEF CloseSound
  <2>2. CASE q # p
    <3>1. pc[q] \in {"close", "closing"} => held[q] \in TradeIds \ {i}
      BY <1>2 DEF IInv, ProcessesSound, ProcessSound
    <3>2. CloseSound(q) /\ pc'[q] = pc[q] /\ held'[q] = held[q] /\ exits'[q] = exits[q]
      BY <1>5, <2>2 DEF RaceInv, OthersAlone
    <3> QED
      BY <1>4, <1>5, <3>1, <3>2 DEF CloseSound
  <2> QED
    BY <2>1, <2>2
<1> QED
  BY <1>8, <1>9, <1>10 DEF RaceInv

(* Who closes a trade no longer holds it, so what it may add to the side   *)
(* tables it has added now.                                                *)
LEMMA RaceJournalClose ==
  ASSUME IInv, RaceInv, NEW p \in Procs, JournalClose(p)
  PROVE  RaceInv'
<1>1. /\ ProcsTyped /\ ProcessSound(p) /\ CloseSound(p)
      /\ trades \in Seq(Trade) /\ today \in Nat
  BY TypeParts DEF IInv, RaceInv, ProcessesSound, TablesTyped
<1>2. PICK i \in TradeIds :
        i = held[p] /\ i \notin exits[p] /\ today - trades[i].fillDay >= MinHold
  BY <1>1 DEF JournalClose, At, ProcessSound, CloseSound
<1>3. PICK loss \in BOOLEAN : CloseTrade(i, loss)
  BY <1>2 DEF JournalClose
<1>4. /\ TradeIds' = TradeIds
      /\ \A k \in TradeIds \ {i} : trades'[k] = trades[k]
      /\ trades'[i].closed = TRUE
      /\ trades'[i].day = trades[i].day /\ trades'[i].fillDay = trades[i].fillDay
      /\ trades'[i].lots \in trades[i].lots..(trades[i].lots + 1)
      /\ trades'[i].dayTrades = IF trades[i].fillDay = today
                                THEN trades[i].dayTrades + 1 ELSE trades[i].dayTrades
  BY <1>1, <1>3, ClosedColumns
<1>5. /\ today' = today /\ exits' = exits /\ OthersAlone(p)
      /\ pc[p] = "closing" /\ pc'[p] = "exits"
  BY <1>1 DEF JournalClose, loopVars, OthersAlone, At, ProcsTyped
<1>6. /\ OpenTrades' \subseteq OpenTrades /\ EnteredToday' = EnteredToday
  BY <1>4, <1>5 DEF OpenTrades, EnteredToday
<1>7. RoomLeft'
  <2>1. /\ Cardinality(OpenTrades') <= Cardinality(OpenTrades)
        /\ Cardinality(OpenTrades') \in Nat
    BY <1>1, <1>6, RowsFinite, FS_Subset, FS_CardinalityType
  <2>2. Entering' = Entering
    BY <1>5 DEF Entering, AboutToEnter, OthersAlone
  <2> QED
    BY <1>1, <1>6, <2>1, <2>2, RowsFinite, ProcsFinite, LimitAssumption DEF RaceInv, RoomLeft
<1>8. SideRowsBounded(i)'
  <2>1. p \in Holders(i) /\ Holders(i)' = Holders(i) \ {p}
    <3>1. p \in Holders(i) /\ p \notin Holders(i)'
      BY <1>2, <1>5 DEF Holders, ClosesTrade
    <3> QED
      BY <3>1, <1>5, OthersCounted
  <2>2. Cardinality(Holders(i)') = Cardinality(Holders(i)) - 1
    BY <2>1, ProcsFinite, FS_RemoveElement
  <2>3. /\ trades[i].lots \in Nat /\ trades[i].dayTrades \in Nat
        /\ trades[i].fillDay \in Nat /\ trades[i].closed \in BOOLEAN
    BY <1>1, RowsFinite DEF Trade
  <2>4. /\ trades'[i].lots \in Nat /\ trades'[i].lots <= trades[i].lots + 1
        /\ trades'[i].dayTrades \in Nat /\ trades'[i].dayTrades <= trades[i].dayTrades + 1
    BY <1>4, <2>3
  <2>5. /\ trades[i].lots + Cardinality(Holders(i)) <= Racers
        /\ trades[i].dayTrades + Cardinality(Holders(i)) <= Racers
    BY <2>3, ProcsFinite DEF RaceInv, SideRowsBounded
  <2>6. MinHold > 0 => trades'[i].dayTrades = 0
    BY <1>1, <1>2, <1>4, <2>3, LimitAssumption DEF RaceInv, SideRowsBounded
  <2> QED
    BY <1>4, <2>2, <2>3, <2>4, <2>5, <2>6, ProcsFinite DEF SideRowsBounded
<1>9. ASSUME NEW k \in TradeIds \ {i}
      PROVE  SideRowsBounded(k)'
  <2>1. Holders(k)' = Holders(k)
    BY <1>2, <1>5 DEF Holders, ClosesTrade, OthersAlone
  <2> QED
    BY <1>4, <2>1 DEF RaceInv, SideRowsBounded
<1>10. \A k \in TradeIds' : trades'[k].day <= today' /\ trades'[k].fillDay <= today'
  BY <1>4, <1>5 DEF RaceInv
<1>11. ASSUME NEW q \in Procs
       PROVE  CloseSound(q)'
  <2>1. CASE q = p
    BY <1>5, <2>1 DEF CloseSound
  <2>2. CASE q # p
    <3>1. pc[q] \in {"close", "closing"} => held[q] \in TradeIds
      BY DEF IInv, ProcessesSound, ProcessSound
    <3>2. CloseSound(q) /\ pc'[q] = pc[q] /\ held'[q] = held[q] /\ exits'[q] = exits[q]
      BY <1>5, <2>2 DEF RaceInv, OthersAlone
    <3>3. \A k \in TradeIds : trades'[k].fillDay = trades[k].fillDay
      BY <1>4
    <3> QED
      BY <1>5, <3>1, <3>2, <3>3 DEF CloseSound
  <2> QED
    BY <2>1, <2>2
<1> QED
  BY <1>4, <1>7, <1>8, <1>9, <1>10, <1>11 DEF RaceInv

(* The operator, the broker and the calendar. *)
LEMMA RaceOthers ==
  ASSUME IInv, RaceInv, Operator \/ Broker \/ NextDay \/ UNCHANGED vars
  PROVE  RaceInv'
<1> USE DEF sharedVars, brokerVars, journalVars, controlVars, loopVars, workVars,
            procVars, vars
<1>1. trades \in Seq(Trade) /\ today \in Nat
  BY DEF IInv, TypeOK
<1>2. /\ trades' = trades /\ pc' = pc /\ exits' = exits /\ held' = held
      /\ today' \in {today, today + 1}
  BY DEF Operator, Broker, NextDay, Fill
<1>3. /\ Entering' = Entering /\ OpenTrades' = OpenTrades /\ TradeIds' = TradeIds
      /\ \A i : Holders(i)' = Holders(i)
  BY <1>2 DEF Entering, AboutToEnter, OpenTrades, TradeIds, Holders, ClosesTrade
<1>4. \A i \in TradeIds :
        /\ trades[i].day \in Nat /\ trades[i].day <= today
        /\ trades[i].fillDay \in Nat /\ trades[i].fillDay <= today
  BY <1>1, RowsFinite DEF RaceInv, Trade
<1>5. \A i \in TradeIds' : /\ trades'[i].day <= today' /\ trades'[i].fillDay <= today'
                          /\ SideRowsBounded(i)'
  BY <1>1, <1>2, <1>3, <1>4 DEF RaceInv, SideRowsBounded
<1>6. RoomLeft'
  <2>1. CASE today' = today
    <3>1. EnteredToday' = EnteredToday
      BY <1>2, <1>3, <2>1 DEF EnteredToday
    <3> QED
      BY <1>3, <3>1 DEF RaceInv, RoomLeft
  <2>2. CASE today' = today + 1
    <3>1. EnteredToday' = {} /\ Cardinality({}) = 0
      BY <1>1, <1>2, <1>3, <1>4, <2>2, FS_EmptySet DEF EnteredToday
    <3>2. Entering # {} \/ Cardinality(Entering) = 0
      BY FS_EmptySet
    <3> QED
      BY <1>3, <3>1, <3>2, ProcsFinite, LimitAssumption DEF RaceInv, RoomLeft
  <2> QED
    BY <1>2, <2>1, <2>2
<1>7. ASSUME NEW q \in Procs
      PROVE  CloseSound(q)'
  <2> SUFFICES ASSUME pc[q] \in {"close", "closing"}
               PROVE  /\ held[q] \notin exits[q]
                      /\ today' - trades[held[q]].fillDay >= MinHold
    BY <1>2 DEF CloseSound
  <2>1. held[q] \in TradeIds
    BY DEF IInv, ProcessesSound, ProcessSound
  <2>2. held[q] \notin exits[q] /\ today - trades[held[q]].fillDay >= MinHold
    BY DEF RaceInv, CloseSound
  <2> QED
    BY <1>1, <1>2, <1>4, <2>1, <2>2, LimitAssumption
<1> QED
  BY <1>5, <1>6, <1>7 DEF RaceInv

(* Every step of every process, and of those around them. *)
LEMMA RaceNext ==
  ASSUME IInv, RaceInv, [Next]_vars
  PROVE  RaceInv'
<1>1. ASSUME NEW p \in Procs, Step(p) \/ Crash(p)
      PROVE  RaceInv'
  BY <1>1, RaceCycleSteps, RaceEntrySteps, RaceRecordTrade, RaceRecordFill,
     RaceJournalClose DEF Step, Exits, Entries
<1> QED
  BY <1>1, RaceOthers DEF Next

(* The race invariant holds throughout. *)
LEMMA RacesBounded == Spec => [](IInv /\ RaceInv)
<1>1. IInv /\ RaceInv /\ [Next]_vars => RaceInv'
  BY RaceNext
<1>2. Init => RaceInv
  BY RaceInit
<1> QED
  BY <1>1, <1>2, Inductive, PTL DEF Spec

(* However many processes run the cycle, the entries go beyond             *)
(* max_positions and the daily entry limit by at most one for each process *)
(* after the first, whatever crashes and retries there are in between: one *)
(* process keeps the limits exactly (cycle.py:176-205: the checks and the  *)
(* insert that follows them).                                              *)
THEOREM EntriesStayLimited == Spec => []LimitsRespected
<1>1. ASSUME IInv, RaceInv
      PROVE  LimitsRespected
  <2>1. trades \in Seq(Trade)
    BY <1>1 DEF IInv, TypeOK
  <2> QED
    BY <1>1, <2>1, RowsFinite, ProcsFinite, LimitAssumption
    DEF RaceInv, RoomLeft, LimitsRespected
<1> QED
  BY <1>1, RacesBounded, PTL

(* close_trade writes its side rows at most once for each process: what a  *)
(* process closes it had listed as open, and it lets go of the trade with  *)
(* the same write.  Under a minimum hold there is no day-trade row at all  *)
(* (executor.py:195-270, journal/trades.py close_trade).                   *)
THEOREM SideTablesStayBounded == Spec => []SideTablesAgree
<1>1. ASSUME IInv, RaceInv
      PROVE  SideTablesAgree
  <2> SUFFICES ASSUME NEW i \in TradeIds
               PROVE  /\ trades[i].lots <= Racers /\ trades[i].dayTrades <= Racers
                      /\ MinHold > 0 => trades[i].dayTrades = 0
    BY DEF SideTablesAgree
  <2>1. /\ trades[i].lots \in Nat /\ trades[i].dayTrades \in Nat
        /\ trades[i].closed \in BOOLEAN
    BY <1>1, RowsFinite DEF IInv, TypeOK, Trade
  <2>2. SideRowsBounded(i)
    BY <1>1 DEF RaceInv
  <2> QED
    BY <2>1, <2>2, ProcsFinite DEF SideRowsBounded
<1> QED
  BY <1>1, RacesBounded, PTL

-----------------------------------------------------------------------------
(* SAFE and the entries under way.                                         *)

(* The processes that are about to send an entry order were before. *)
NoneApproved == \A q \in Procs : At(q, "submit")' => At(q, "submit") /\ pick'[q] = pick[q]

(* Steps that leave the book and the wire alone: under SAFE none of them   *)
(* approves an entry.                                                      *)
LEMMA DrainQuiet ==
  ASSUME IInv, [Next]_vars, sysMode = "SAFE", orders' = orders, inflight' = inflight
  PROVE  NoneApproved
<1> USE DEF sharedVars, brokerVars, journalVars, controlVars, loopVars, workVars,
            procVars, vars, At
<1>1. ProcsTyped
  BY TypeParts DEF IInv
<1>2. CASE Operator \/ Broker \/ NextDay \/ UNCHANGED vars
  BY <1>2 DEF NoneApproved, Operator, Broker, NextDay, Fill
<1>3. ASSUME NEW p \in Procs,
             \/ StartCycle(p) \/ EndCycle(p) \/ AbandonRow(p) \/ Crash(p)
             \/ \E s \in Strategies : TakeRow(p, s) \/ SkipRow(p, s)
      PROVE  NoneApproved
  BY <1>1, <1>3 DEF NoneApproved, ProcsTyped, StartCycle, EndCycle, AbandonRow, Crash,
     TakeRow, SkipRow
<1>4. ASSUME NEW p \in Procs, Exits(p)
      PROVE  NoneApproved
  BY <1>1, <1>4 DEF NoneApproved, ProcsTyped, Exits, HoldTrade, ExitSignal, SubmitClose,
     SubmitCloseRaised, JournalClose, ListAccepted
<1>5. ASSUME NEW p \in Procs, Entries(p)
      PROVE  NoneApproved
  <2>1. ~ApproveEntry(p)
    BY DEF ApproveEntry, RiskChecksPass
  <2> QED
    BY <1>1, <1>5, <2>1 DEF NoneApproved, ProcsTyped, Entries, EndRow, EquityUnavailable,
       SkipCandidate, PickCandidate, RefuseEntry, EntryRaised, SubmitEntry,
       SubmitEntryRaised, RecordTrade, RecordTradeRaised, RecordFill, FillPollTimeout
<1> QED
  BY <1>2, <1>3, <1>4, <1>5 DEF Next, Step

(* A request puts its own id in the book or on the wire, and no other. *)
LEMMA SubmitAdds ==
  ASSUME NEW id, NEW ticker, NEW side, NEW qty,
         \/ SubmitAnswered(id, ticker, side, qty)
         \/ SubmitRaised(id, ticker, side, qty)
  PROVE  /\ Placed' \subseteq Placed \cup {id}
         /\ \A r \in inflight' : r \in inflight \/ r.id = id
<1>1. orders' = orders \/ orders' = BookWith(id, ticker, side, qty)
  BY DEF SubmitAnswered, SubmitRaised, brokerVars
<1>2. Placed' \subseteq Placed \cup {id}
  BY <1>1 DEF BookWith, Placed
<1> QED
  BY <1>2 DEF SubmitAnswered, SubmitRaised, brokerVars

(* The order of an entry is sent by a process that was about to send it. *)
LEMMA DrainSubmit ==
  ASSUME IInv, NEW p \in Procs, NEW c \in Cands, EntryUnderWay(c)',
         \/ SubmitClose(p) \/ SubmitCloseRaised(p)
         \/ SubmitEntry(p) \/ SubmitEntryRaised(p)
  PROVE  EntryUnderWay(c)
<1>1. ProcsTyped
  BY TypeParts DEF IInv
<1>2. NoneApproved
  BY <1>1 DEF NoneApproved, At, ProcsTyped, loopVars, workVars, SubmitClose,
     SubmitCloseRaised, SubmitEntry, SubmitEntryRaised
<1>3. CASE SubmitClose(p) \/ SubmitCloseRaised(p)
  <2>1. /\ Placed' \subseteq Placed \cup {CloseOrderId(held[p])}
        /\ \A r \in inflight' : r \in inflight \/ r.id = CloseOrderId(held[p])
    BY <1>3, SubmitAdds DEF SubmitClose, SubmitCloseRaised
  <2> QED
    BY <1>2, <2>1 DEF NoneApproved, EntryUnderWay, EntryOrderId, CloseOrderId
<1>4. CASE SubmitEntry(p) \/ SubmitEntryRaised(p)
  <2>1. At(p, "submit")
    BY <1>4 DEF SubmitEntry, SubmitEntryRaised
  <2>2. /\ Placed' \subseteq Placed \cup {EntryOrderId(pick[p])}
        /\ \A r \in inflight' : r \in inflight \/ r.id = EntryOrderId(pick[p])
    BY <1>4, SubmitAdds DEF SubmitEntry, SubmitEntryRaised
  <2> QED
    BY <1>2, <2>1, <2>2 DEF NoneApproved, EntryUnderWay, EntryOrderId
<1> QED
  BY <1>3, <1>4

(* The broker takes entries from the wire into the book. *)
LEMMA DrainBroker ==
  ASSUME IInv, NEW c \in Cands, EntryUnderWay(c)', Broker \/ NextDay
  PROVE  EntryUnderWay(c)
<1>1. orders \in [Placed -> Order] /\ inflight \subseteq Request
  BY DEF IInv, TypeOK
<1>2. pc' = pc /\ pick' = pick
  BY DEF Broker, NextDay, Fill, procVars, workVars
<1>3. ASSUME NEW r \in inflight, Deliver(r)
      PROVE  /\ Placed' \subseteq Placed \cup {r.id}
             /\ inflight' \subseteq inflight
  BY <1>3 DEF Deliver, BookWith, Placed
<1>4. ASSUME \/ MarketClose
             \/ \E id \in Placed : Fill(id) \/ CancelRest(id)
      PROVE  Placed' = Placed /\ inflight' \subseteq inflight
  BY <1>1, <1>4 DEF MarketClose, Fill, FillUnit, CancelRest, Placed
<1>5. CASE \E r \in inflight : Deliver(r)
  BY <1>2, <1>3, <1>5 DEF EntryUnderWay, At
<1>6. CASE \/ MarketClose
           \/ \E id \in Placed : Fill(id) \/ CancelRest(id)
  BY <1>2, <1>4, <1>6 DEF EntryUnderWay, At
<1> QED
  BY <1>5, <1>6 DEF Broker, NextDay

(* Steps that touch neither the book nor the wire. *)
LEMMA OthersTouchNoOrder ==
  ASSUME [Next]_vars, ~(Broker \/ NextDay),
         \A p \in Procs : ~(\/ SubmitClose(p) \/ SubmitCloseRaised(p)
                            \/ SubmitEntry(p) \/ SubmitEntryRaised(p))
  PROVE  orders' = orders /\ inflight' = inflight
<1> USE DEF sharedVars, brokerVars, vars
<1>1. CASE Operator \/ UNCHANGED vars
  BY <1>1 DEF Operator
<1>2. ASSUME NEW p \in Procs,
             \/ StartCycle(p) \/ EndCycle(p) \/ AbandonRow(p) \/ Crash(p)
             \/ \E s \in Strategies : TakeRow(p, s) \/ SkipRow(p, s)
      PROVE  orders' = orders /\ inflight' = inflight
  BY <1>2 DEF StartCycle, EndCycle, AbandonRow, Crash, TakeRow, SkipRow
<1>3. ASSUME NEW p \in Procs, Exits(p)
      PROVE  orders' = orders /\ inflight' = inflight
  BY <1>3 DEF Exits, HoldTrade, ExitSignal, JournalClose, ListAccepted
<1>4. ASSUME NEW p \in Procs, Entries(p)
      PROVE  orders' = orders /\ inflight' = inflight
  BY <1>4 DEF Entries, EndRow, EquityUnavailable, SkipCandidate, PickCandidate,
     ApproveEntry, RefuseEntry, EntryRaised, RecordTrade, RecordTradeRaised, RecordFill,
     FillPollTimeout
<1> QED
  BY <1>1, <1>2, <1>3, <1>4 DEF Next, Step

(* While the mode is SAFE no entry comes under way, whichever of any       *)
(* number of processes had passed its checks before, crashes or retries,   *)
(* and whoever set the mode in the middle of them (cycle.py:93-111 and     *)
(* 176-205, strategy/risk.py:164).                                         *)
THEOREM SafeDrainsEntries == Spec => SafeOnlyDrains
<1>1. IInv /\ [Next]_vars =>
        [sysMode = "SAFE" =>
           \A c \in Cands : EntryUnderWay(c)' => EntryUnderWay(c)]_vars
  <2> SUFFICES ASSUME IInv, [Next]_vars, sysMode = "SAFE", NEW c \in Cands,
                      EntryUnderWay(c)'
               PROVE  EntryUnderWay(c)
    OBVIOUS
  <2>1. CASE orders' = orders /\ inflight' = inflight
    <3>1. NoneApproved
      BY <2>1, DrainQuiet
    <3> QED
      BY <2>1, <3>1 DEF NoneApproved, EntryUnderWay, Placed
  <2>2. CASE \E p \in Procs : \/ SubmitClose(p) \/ SubmitCloseRaised(p)
                              \/ SubmitEntry(p) \/ SubmitEntryRaised(p)
    BY <2>2, DrainSubmit
  <2>3. CASE Broker \/ NextDay
    BY <2>3, DrainBroker
  <2> QED
    BY <2>1, <2>2, <2>3, OthersTouchNoOrder
<1> QED
  BY <1>1, Inductive, PTL DEF Spec, SafeOnlyDrains
=============================================================================
