---------------------------- MODULE TradeJournal ----------------------------
(***************************************************************************)
(* The SQLite tables the executor reads and writes: trades, candidates,    *)
(* wash_sale_lots and pdt_daytrades (heron/journal/trades.py, candidates.py*)
(* and the schema in heron/journal/__init__.py).  Every write function     *)
(* commits before it returns, so each is one atomic step.                  *)
(*                                                                         *)
(* A trade's row id is its place in the sequence trades.  A NULL fill is a *)
(* fill of 0, a NULL close_price is closed = FALSE.  lots and dayTrades    *)
(* count the rows of the two side tables that refer to the trade.          *)
(***************************************************************************)
EXTENDS Integers, Sequences, FiniteSets

CONSTANTS
  Cands,        \* candidate ids
  Strategies,   \* strategy ids
  StratOf       \* candidates.strategy_id

ASSUME StratOfAssumption == StratOf \in [Cands -> Strategies]

VARIABLES
  trades,       \* the trades table, in insertion order
  disp,         \* candidates.disposition
  today         \* the New York trading day

journalVars == <<trades, disp, today>>

Dispositions == {"pending", "accepted", "rejected", "expired"}

JournalInit ==
  /\ trades = << >>
  /\ disp = [c \in Cands |-> "pending"]
  /\ today = 1

TradeIds == DOMAIN trades

(* Mutant: open_only is ignored. *)
OpenTradesAll == TradeIds

(* list_trades(open_only=True): close_price IS NULL. *)
OpenTrades == {i \in TradeIds : ~trades[i].closed}

OpenTradesOf(s) == {i \in OpenTrades : StratOf[trades[i].cand] = s}

(* SELECT id FROM trades WHERE candidate_id=? *)
TradedAlready(c) == \E i \in TradeIds : trades[i].cand = c

(* Mutant: no UNIQUE constraint. *)
OrderIdTakenNever(oid) == FALSE

(* client_order_id TEXT UNIQUE *)
OrderIdTaken(oid) == \E i \in TradeIds : trades[i].oid = oid

EnteredToday == {i \in TradeIds : trades[i].day = today}

AcceptedOf(s) == {c \in Cands : StratOf[c] = s /\ disp[c] = "accepted"}

-----------------------------------------------------------------------------

CreateTrade(c, oid, qty) ==
  trades' = Append(trades,
    [cand |-> c, oid |-> oid, qty |-> qty, day |-> today,
     fill |-> 0, fillDay |-> 0,
     closed |-> FALSE, lots |-> 0, dayTrades |-> 0])

FillTrade(i, filled) ==
  trades' = [trades EXCEPT ![i].fill = filled, ![i].fillDay = today]

(* Raises without a fill; never asks whether the trade is closed already.  *)
CloseTrade(i, loss) ==
  /\ trades[i].fill > 0
  /\ trades' = [trades EXCEPT
       ![i].closed = TRUE,
       ![i].lots = IF loss THEN @ + 1 ELSE @,
       ![i].dayTrades = IF trades[i].fillDay = today THEN @ + 1 ELSE @]

(* Mutant: the disposition is written without the check of its name. *)
DisposeCandidateUnchecked(c, d) == disp' = [disp EXCEPT ![c] = "skipped"]

(* No look at the current disposition: any value may overwrite any other.  *)
DisposeCandidate(c, d) == disp' = [disp EXCEPT ![c] = d]
=============================================================================
