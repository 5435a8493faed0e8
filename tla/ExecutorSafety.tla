--------------------------- MODULE ExecutorSafety ---------------------------
(***************************************************************************)
(* What ExecutorCycle has to get right, as invariants, action properties   *)
(* and liveness properties.                                                *)
(***************************************************************************)
EXTENDS ExecutorCycle

PCs == {"idle", "rows", "exits", "close", "closing", "entries", "check",
        "submit", "record", "filling"}

OrderIds == ({"e"} \X Cands) \cup ({"c"} \X Nat)

Request == [id : OrderIds, ticker : Tickers, side : Sides, qty : Nat]

Trade == [cand : Cands, oid : OrderIds, qty : Nat, day : Nat, fill : Nat,
          fillDay : Nat, closed : BOOLEAN, lots : Nat, dayTrades : Nat]

(* Type correctness of the journal tables, the broker's book and what the  *)
(* cycle processes hold (executor.py, cycle.py, journal/trades.py).        *)
TypeOK ==
  /\ Placed \subseteq OrderIds
  /\ orders \in [Placed -> Order]
  /\ inflight \subseteq Request
  /\ trades \in Seq(Trade)
  /\ disp \in [Cands -> Dispositions]
  /\ today \in Nat
  /\ sysMode \in Modes
  /\ stage \in [Strategies -> {"proposed", "active", "retired"}]
  /\ pc \in [Procs -> PCs]
  /\ rows \in [Procs -> SUBSET Strategies]
  /\ row \in [Procs -> Strategies \cup {None}]
  /\ exits \in [Procs -> SUBSET Nat]
  /\ entries \in [Procs -> SUBSET Cands]
  /\ held \in [Procs -> Nat]
  /\ pick \in [Procs -> Cands \cup {None}]
  /\ size \in [Procs -> Nat]

-----------------------------------------------------------------------------

(* The orders of one kind ("e" for entry, "c" for close) in the book.      *)
OrdersFor(kind, t, side) ==
  {id \in Placed :
     id[1] = kind /\ orders[id].ticker = t /\ orders[id].side = side}

Filled(kind, t, side) ==
  MapThenSumSet(LAMBDA id : orders[id].filled, OrdersFor(kind, t, side))

(* Executor._close_position never takes a position past flat: of a ticker, *)
(* no more is sold to close than was bought to open, and no more bought to *)
(* close than was sold to open, however many processes close the same      *)
(* trade, retry or crash.                                                  *)
NeverPastFlat ==
  \A t \in Tickers, side \in Sides :
    Filled("c", t, Opposite(side)) <= Filled("e", t, side)

(* The journal never runs ahead of the broker: every trade row has its     *)
(* order, no recorded fill exceeds what the broker filled, and a closed    *)
(* trade has an order of the other side at the broker, for exactly its     *)
(* recorded fill.                                                          *)
JournalBacked ==
  \A i \in TradeIds :
    /\ trades[i].oid \in Placed
    /\ trades[i].fill <= orders[trades[i].oid].filled
    /\ trades[i].closed =>
         /\ CloseOrderId(i) \in Placed
         /\ orders[CloseOrderId(i)].qty = trades[i].fill
         /\ orders[CloseOrderId(i)].side = Opposite(orders[trades[i].oid].side)

(* A candidate is traded at most once (the lookup by candidate_id before   *)
(* the entry and the UNIQUE client_order_id behind it).                    *)
OneTradePerCandidate ==
  \A i, j \in TradeIds : trades[i].cand = trades[j].cand => i = j

Racers == Cardinality(Procs)

(* max_positions and the daily entry limit, in the journal's count.  The   *)
(* checks and the insert that follows them are not one transaction: one    *)
(* process keeps the limits exactly, and every further process that is     *)
(* between its checks and its insert at the same time can take one entry   *)
(* beyond them, never two (cycle.py:176-205).                              *)
LimitsRespected ==
  /\ Cardinality(OpenTrades) <= MaxPositions + Racers - 1
  /\ Cardinality(EnteredToday) <= MaxDaily + Racers - 1

(* What close_trade writes beside the trade: it never looks whether the    *)
(* trade is closed already, yet a process that listed it open closes it    *)
(* once, so that there is at most one wash-sale lot and one day-trade row  *)
(* for each process; and no day-trade row under a minimum hold.            *)
SideTablesAgree ==
  \A i \in TradeIds :
    /\ trades[i].lots <= Racers /\ trades[i].dayTrades <= Racers
    /\ MinHold > 0 => trades[i].dayTrades = 0

(* The entry order of c is in the book, on the wire, or about to be sent.  *)
EntryUnderWay(c) ==
  \/ EntryOrderId(c) \in Placed
  \/ \E r \in inflight : r.id = EntryOrderId(c)
  \/ \E p \in Procs : At(p, "submit") /\ pick[p] = c

(* SAFE blocks entries: it can come, from the operator or from another     *)
(* process's policy verdict, between the risk checks and the order, and    *)
(* then only the entries that had passed them go through.  For as long as  *)
(* it lasts no entry comes under way that was not, nor one again whose     *)
(* request was lost.                                                       *)
SafeOnlyDrains ==
  [][sysMode = "SAFE" =>
       \A c \in Cands : EntryUnderWay(c)' => EntryUnderWay(c)]_vars

-----------------------------------------------------------------------------
(* What makes the invariants inductive.                                    *)

(* What a process holds is in the tables: the candidate of an entry, the   *)
(* order behind the row it is about to write, the filled trade it closes.  *)
ProcessSound(p) ==
  /\ exits[p] \subseteq {i \in TradeIds : trades[i].fill > 0}
  /\ pc[p] \in {"check", "submit", "record", "filling"} => pick[p] \in Cands
  /\ pc[p] \in {"record", "filling"} => EntryOrderId(pick[p]) \in Placed
  /\ pc[p] = "filling" =>
       /\ held[p] \in TradeIds
       /\ trades[held[p]].cand = pick[p]
       /\ trades[held[p]].fill = 0
  /\ pc[p] \in {"close", "closing"} =>
       held[p] \in TradeIds /\ trades[held[p]].fill > 0
  /\ pc[p] = "closing" => CloseOrderId(held[p]) \in Placed

ProcessesSound == \A p \in Procs : ProcessSound(p)

(* The process that entered a trade is the only one to record its fill. *)
FillersDistinct ==
  \A p, q \in Procs :
    pc[p] = "filling" /\ pc[q] = "filling" /\ held[p] = held[q] => p = q

(* Every row has its candidate's order behind it. *)
RowsSound ==
  \A i \in TradeIds :
    /\ trades[i].oid = EntryOrderId(trades[i].cand)
    /\ trades[i].oid \in Placed
    /\ trades[i].fill <= orders[trades[i].oid].filled
    /\ trades[i].closed => CloseOrderId(i) \in Placed

(* A request, placed or on the wire, opens for a candidate on its side or  *)
(* closes the recorded fill of a trade on the other.                       *)
RequestSound(id, side, qty) ==
  \/ \E c \in Cands : id = EntryOrderId(c) /\ side = SideOf[c]
  \/ \E i \in TradeIds :
       /\ id = CloseOrderId(i) /\ side = CloseSide(i)
       /\ trades[i].fill > 0 /\ qty = trades[i].fill

OrdersSound ==
  /\ \A id \in Placed : RequestSound(id, orders[id].side, orders[id].qty)
  /\ \A r \in inflight : RequestSound(r.id, r.side, r.qty)

(* The inductive invariant. *)
IInv ==
  /\ TypeOK
  /\ ProcessesSound
  /\ FillersDistinct
  /\ RowsSound
  /\ OrdersSound
  /\ OneTradePerCandidate

(* A request is of the ticker and the side of its candidate and opens      *)
(* between one unit and FullQty, or is of the ticker and the other side of *)
(* its trade.                                                              *)
RequestFits(id, ticker, side, qty) ==
  \/ /\ qty \in 1..FullQty
     /\ \E c \in Cands :
          id = EntryOrderId(c) /\ ticker = TickerOf[c] /\ side = SideOf[c]
  \/ \E i \in TradeIds :
       /\ id = CloseOrderId(i)
       /\ ticker = TickerOf[trades[i].cand] /\ side = CloseSide(i)

(* What the totals and the quantities rest on, beside IInv. *)
BookFits ==
  /\ IsFiniteSet(Placed)
  /\ \A id \in Placed : /\ RequestFits(id, orders[id].ticker, orders[id].side,
                                       orders[id].qty)
                        /\ orders[id].filled <= orders[id].qty
  /\ \A r \in inflight : RequestFits(r.id, r.ticker, r.side, r.qty)
  /\ \A p \in Procs : pc[p] = "submit" => size[p] \in 1..FullQty

(* What the processes can still do to the limits and the side tables: the  *)
(* entries that are past their checks, and the processes that have a trade *)
(* to poll or to close.                                                    *)
AboutToEnter(p) == pc[p] \in {"submit", "record"}

Entering == {p \in Procs : AboutToEnter(p)}

ClosesTrade(p, i) == pc[p] \in {"close", "closing"} /\ held[p] = i

Holders(i) == {p \in Procs : i \in exits[p] \/ ClosesTrade(p, i)}

(* An open trade has no side rows; a closed one has those its past holders *)
(* have written, and each of its present holders can write one more.       *)
SideRowsBounded(i) ==
  /\ ~trades[i].closed => trades[i].lots = 0 /\ trades[i].dayTrades = 0
  /\ trades[i].closed => /\ trades[i].lots + Cardinality(Holders(i)) <= Racers
                         /\ trades[i].dayTrades + Cardinality(Holders(i)) <= Racers
  /\ MinHold > 0 => trades[i].dayTrades = 0

(* What is being closed is off the list, and has been held long enough.    *)
CloseSound(p) ==
  pc[p] \in {"close", "closing"} =>
    held[p] \notin exits[p] /\ today - trades[held[p]].fillDay >= MinHold

(* Room: an entry past its checks saw the limits unreached.                *)
RoomLeft ==
  /\ Entering # {} => MaxDaily > 0
  /\ Cardinality(OpenTrades) + Cardinality(Entering) <= MaxPositions + Racers - 1
  /\ Cardinality(EnteredToday) + Cardinality(Entering) <= MaxDaily + Racers - 1

RaceInv ==
  /\ \A i \in TradeIds : /\ trades[i].day <= today /\ trades[i].fillDay <= today
                         /\ SideRowsBounded(i)
  /\ \A p \in Procs : CloseSound(p)
  /\ RoomLeft

-----------------------------------------------------------------------------
(* The position of a candidate, as PositionLedger sees it.                 *)

TradeOf(c) == CHOOSE i \in TradeIds : trades[i].cand = c

Position(c) ==
  LET traded == TradedAlready(c)
      placed == EntryOrderId(c) \in Placed
      exit   == CloseOrderId(TradeOf(c))
      asked  == traded /\ exit \in Placed
  IN  [ordered  |-> IF placed THEN orders[EntryOrderId(c)].qty ELSE 0,
       entered  |-> IF placed THEN orders[EntryOrderId(c)].filled ELSE 0,
       opened   |-> traded,
       recorded |-> IF traded THEN trades[TradeOf(c)].fill ELSE 0,
       asked    |-> IF asked THEN orders[exit].qty ELSE 0,
       exited   |-> IF asked THEN orders[exit].filled ELSE 0,
       closed   |-> traded /\ trades[TradeOf(c)].closed]

Ledger == INSTANCE PositionLedger WITH ledger <- [c \in Cands |-> Position(c)]

(* Executor and cycle, with their processes, crashes and retries, keep the *)
(* ledger's promise: one entry and one exit order for each candidate.      *)
ImplementsLedger == Ledger!Spec

(* No more is closed than was entered and recorded first: the ledger's     *)
(* chain of quantities, at the broker and in the journal.                  *)
PositionsCovered == Ledger!Covered

-----------------------------------------------------------------------------

FillRecorded(i) == i \in TradeIds /\ trades[i].fill > 0

(* An exit condition that persists closes the trade in the journal, in     *)
(* spite of crashes, lost answers and stale quotes, unless the strategy is *)
(* taken out of PAPER/LIVE; a strategy without a template is passed over.  *)
ExitsAreNotMissed ==
  \A i \in 1..Cardinality(Cands), s \in Templated :
    (i \in OpenTradesOf(s) /\ FillRecorded(i))
      ~> (i \notin OpenTrades \/ s \notin Active)

-----------------------------------------------------------------------------
(* What a comment promises and the code does not keep.                     *)

(* executor.py:26: an order that is not filled when the poll gives up is   *)
(* picked up later.                                                        *)
LateFillIsRecorded ==
  \A i \in 1..Cardinality(Cands) :
    (i \in TradeIds /\ orders[trades[i].oid].filled > 0) ~> FillRecorded(i)

=============================================================================
