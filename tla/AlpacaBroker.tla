---------------------------- MODULE AlpacaBroker ----------------------------
(***************************************************************************)
(* The brokerage as the adapter in heron/execution/alpaca_adapter.py sees  *)
(* it: a book of orders keyed by client_order_id, and the submit requests  *)
(* that are still on the wire.  The book is outside the repository; what   *)
(* is modelled of it is what the code relies on (an id that is already     *)
(* taken is refused, orders are DAY orders, fills may be late or partial). *)
(*                                                                         *)
(* Quantities are whole units.  A price is left out: every unit costs one. *)
(***************************************************************************)
EXTENDS Integers, FiniteSets

CONSTANT Tickers

VARIABLES
  orders,     \* client_order_id -> the order the broker holds under it
  inflight    \* submit requests sent, not yet at the broker

brokerVars == <<orders, inflight>>

Sides == {"buy", "sell"}

Opposite(side) == IF side = "buy" THEN "sell" ELSE "buy"

Order ==
  [ticker : Tickers, side : Sides, qty : Nat, filled : Nat, live : BOOLEAN]

BrokerInit ==
  /\ orders = << >>
  /\ inflight = {}

Placed == DOMAIN orders

NewOrder(ticker, side, qty) ==
  [ticker |-> ticker, side |-> side, qty |-> qty, filled |-> 0, live |-> TRUE]

(* The book after a request: an id already taken leaves it as it is (422). *)
BookWith(id, ticker, side, qty) ==
  IF id \in Placed
  THEN orders
  ELSE [x \in Placed \cup {id} |->
          IF x = id THEN NewOrder(ticker, side, qty) ELSE orders[x]]

-----------------------------------------------------------------------------
(* Executor._submit_with_retry over AlpacaPaperAdapter.submit_order.       *)

(* The caller gets an order back: the answer to its request, the order the *)
(* adapter looks up on a 422, or the one get_order finds after an error.   *)
SubmitAnswered(id, ticker, side, qty) ==
  /\ orders' = BookWith(id, ticker, side, qty)
  /\ UNCHANGED inflight

(* The caller gets an exception: the request never left, is still on the   *)
(* wire, or was accepted while the answer and the look-up were both lost.  *)
SubmitRaised(id, ticker, side, qty) ==
  \/ UNCHANGED brokerVars
  \/ /\ id \notin Placed
     /\ inflight' = inflight \cup
          {[id |-> id, ticker |-> ticker, side |-> side, qty |-> qty]}
     /\ UNCHANGED orders
  \/ /\ orders' = BookWith(id, ticker, side, qty)
     /\ UNCHANGED inflight

-----------------------------------------------------------------------------
(* What the broker does on its own.                                        *)

Deliver(r) ==
  /\ r \in inflight
  /\ orders' = BookWith(r.id, r.ticker, r.side, r.qty)
  /\ inflight' = inflight \ {r}

(* One more unit of the order trades. *)
FillUnit(id) ==
  /\ id \in Placed
  /\ orders[id].live
  /\ orders[id].filled < orders[id].qty
  /\ orders' = [orders EXCEPT ![id].filled = @ + 1]
  /\ UNCHANGED inflight

(* The broker gives up on the rest of the order. *)
CancelRest(id) ==
  /\ id \in Placed
  /\ orders[id].live
  /\ orders[id].filled < orders[id].qty
  /\ orders' = [orders EXCEPT ![id].live = FALSE]
  /\ UNCHANGED inflight

(* time_in_force=DAY: at the close every order ends, and a request that is *)
(* still on the wire arrives too late.                                     *)
MarketClose ==
  /\ orders' = [id \in Placed |-> [orders[id] EXCEPT !.live = FALSE]]
  /\ inflight' = {}
=============================================================================
