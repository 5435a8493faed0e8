---------------------------- MODULE ExecutorCycle ---------------------------
(***************************************************************************)
(* run_executor_cycle (heron/execution/cycle.py) driving Executor          *)
(* (heron/execution/executor.py) over the journal and the broker, in any   *)
(* number of processes: the supervisor's executor job and every            *)
(* `heron run --once executor_cycle` run it, and nothing locks them out of *)
(* each other.  Only the fairness assumes that something does run it.      *)
(*                                                                         *)
(* A step of a process is the code between two points where another actor  *)
(* can get in: a broker call, a journal commit, the next loop iteration.   *)
(* A process can stop at any of them and forget everything it held.        *)
(* The operator (dashboard and CLI) writes to the same journal between any *)
(* two steps.                                                              *)
(***************************************************************************)
EXTENDS AlpacaBroker, TradeJournal, FiniteSetsExt

CONSTANTS
  Procs,          \* processes that run the cycle
  TickerOf,       \* candidates.ticker
  SideOf,         \* candidates.side
  WithData,       \* candidates whose context_json carries market_data: given,
                  \* nothing under src/ writes it there
  Templated,      \* strategies _instantiate_strategy can make from a template
  FullQty,        \* units compute_levels asks for
  DeriskQty,      \* the same after derisk_qty
  MinHold,        \* min_hold_days
  MaxPositions,   \* max_positions
  MaxDaily,       \* check_daily_entries max_daily
  MaxExposure,    \* check_exposure limit, in units
  PolicyModes,    \* modes the configured policies can resolve to
  OperatorModes,  \* modes the operator overrides to
  OperatorDisp,   \* what the operator disposes candidates as
  MaxDay,         \* bound: trading days of a behaviour
  None            \* no candidate, no strategy

Modes == {"NORMAL", "DERISK", "SAFE"}

ASSUME ProcsAssumption == IsFiniteSet(Procs) /\ Procs # {}
ASSUME TickerOfAssumption == TickerOf \in [Cands -> Tickers]
ASSUME SideOfAssumption == SideOf \in [Cands -> Sides]
ASSUME WithDataAssumption == WithData \subseteq Cands
ASSUME TemplatedAssumption == Templated \subseteq Strategies
ASSUME QtyAssumption == FullQty \in Nat /\ DeriskQty \in 0..FullQty
ASSUME LimitAssumption ==
  /\ MinHold \in Nat /\ MaxPositions \in Nat /\ MaxDaily \in Nat
  /\ MaxExposure \in Nat /\ MaxDay \in Nat
ASSUME ModesAssumption ==
  PolicyModes \subseteq Modes /\ OperatorModes \subseteq Modes
ASSUME OperatorDispAssumption ==
  OperatorDisp \subseteq {"accepted", "rejected"}

VARIABLES
  sysMode,    \* the latest system_mode event
  stage,      \* strategies.state, PAPER and LIVE taken together as "active"
  pc,         \* where each process is in the cycle
  rows,       \* strategies it has still to process
  row,        \* the strategy it is processing
  exits,      \* open trades it has still to poll
  entries,    \* accepted candidates it has still to process
  held,       \* the trade it is closing or filling
  pick,       \* the candidate it is entering
  size        \* the quantity of that entry

controlVars == <<sysMode, stage>>

sharedVars == <<brokerVars, journalVars, controlVars>>

loopVars == <<rows, row, exits, entries>>

workVars == <<held, pick, size>>

procVars == <<pc, loopVars, workVars>>

vars == <<sharedVars, procVars>>

Init ==
  /\ BrokerInit
  /\ JournalInit
  /\ sysMode = "NORMAL"
  /\ stage = [s \in Strategies |-> "proposed"]
  /\ pc = [p \in Procs |-> "idle"]
  /\ rows = [p \in Procs |-> {}]
  /\ row = [p \in Procs |-> None]
  /\ exits = [p \in Procs |-> {}]
  /\ entries = [p \in Procs |-> {}]
  /\ held = [p \in Procs |-> 0]
  /\ pick = [p \in Procs |-> None]
  /\ size = [p \in Procs |-> 0]

(* Mutant: a nonce in place of the trade id. *)
CloseOrderIdNonce(i) == <<"c", i, Cardinality(Placed)>>

(* make_entry_order_id and make_close_order_id. *)
EntryOrderId(c) == <<"e", c>>
CloseOrderId(i) == <<"c", i>>

At(p, where) == pc[p] = where

Active == {s \in Strategies : stage[s] = "active"}

-----------------------------------------------------------------------------
(* The cycle: policies, rows, and the end of the loops.                    *)

(* The policy verdict (resolve_mode with prior_mode="NORMAL") replaces the *)
(* mode, whoever set it, and leaves it if the evaluation raises; then the  *)
(* PAPER and LIVE strategies are listed.                                   *)
StartCycle(p) ==
  /\ At(p, "idle")
  /\ \E target \in PolicyModes \cup {sysMode} : sysMode' = target
  /\ pc' = [pc EXCEPT ![p] = "rows"]
  /\ rows' = [rows EXCEPT ![p] = Active]
  /\ UNCHANGED <<brokerVars, journalVars, stage, row, exits, entries,
                 workVars>>

(* check_exits leaves out the trades whose fill is not recorded. *)
FilledOpen(s) == {i \in OpenTradesOf(s) : trades[i].fill > 0}

(* Mutant: only the trades entered today are polled. *)
TakeRowToday(p, s) ==
  /\ At(p, "rows")
  /\ s \in rows[p] \cap Templated
  /\ pc' = [pc EXCEPT ![p] = "exits"]
  /\ rows' = [rows EXCEPT ![p] = @ \ {s}]
  /\ row' = [row EXCEPT ![p] = s]
  /\ exits' = [exits EXCEPT ![p] = FilledOpen(s) \cap EnteredToday]
  /\ UNCHANGED <<sharedVars, entries, workVars>>

(* The next strategy, and check_exits' list of its open trades. *)
TakeRow(p, s) ==
  /\ At(p, "rows")
  /\ s \in rows[p] \cap Templated
  /\ pc' = [pc EXCEPT ![p] = "exits"]
  /\ rows' = [rows EXCEPT ![p] = @ \ {s}]
  /\ row' = [row EXCEPT ![p] = s]
  /\ exits' = [exits EXCEPT ![p] = FilledOpen(s)]
  /\ UNCHANGED <<sharedVars, entries, workVars>>

(* No template: the strategy is passed over, its trades and candidates too. *)
SkipRow(p, s) ==
  /\ At(p, "rows")
  /\ s \in rows[p] \ Templated
  /\ rows' = [rows EXCEPT ![p] = @ \ {s}]
  /\ UNCHANGED <<sharedVars, pc, row, exits, entries, workVars>>

EndCycle(p) ==
  /\ At(p, "rows")
  /\ rows[p] = {}
  /\ pc' = [pc EXCEPT ![p] = "idle"]
  /\ UNCHANGED <<sharedVars, loopVars, workVars>>

(* An exception outside the per-trade and per-candidate handlers: the rest *)
(* of this strategy's work is left for the next cycle.                     *)
AbandonRow(p) ==
  /\ At(p, "exits") \/ At(p, "entries")
  /\ pc' = [pc EXCEPT ![p] = "rows"]
  /\ row' = [row EXCEPT ![p] = None]
  /\ exits' = [exits EXCEPT ![p] = {}]
  /\ entries' = [entries EXCEPT ![p] = {}]
  /\ UNCHANGED <<sharedVars, rows, workVars>>

-----------------------------------------------------------------------------
(* check_exits and _close_position.                                        *)

(* Stale quote, broker error, no exit condition, or min hold not met. *)
HoldTrade(p, i) ==
  /\ At(p, "exits")
  /\ i \in exits[p]
  /\ exits' = [exits EXCEPT ![p] = @ \ {i}]
  /\ UNCHANGED <<sharedVars, pc, rows, row, entries, workVars>>

(* should_exit and check_min_hold agree to close. *)
ExitSignal(p, i) ==
  /\ At(p, "exits")
  /\ i \in exits[p]
  /\ today - trades[i].fillDay >= MinHold
  /\ pc' = [pc EXCEPT ![p] = "close"]
  /\ exits' = [exits EXCEPT ![p] = @ \ {i}]
  /\ held' = [held EXCEPT ![p] = i]
  /\ UNCHANGED <<sharedVars, rows, row, entries, pick, size>>

(* Mutant: the ordered quantity is closed, not the filled one. *)
CloseQtyOrdered(i) == trades[i].qty

(* trade["fill_qty"] *)
CloseQty(i) == trades[i].fill

(* A long trade is sold, a short one bought back. *)
CloseSide(i) == Opposite(SideOf[trades[i].cand])

SubmitClose(p) ==
  /\ At(p, "close")
  /\ SubmitAnswered(CloseOrderId(held[p]), TickerOf[trades[held[p]].cand],
                    CloseSide(held[p]), CloseQty(held[p]))
  /\ pc' = [pc EXCEPT ![p] = "closing"]
  /\ UNCHANGED <<journalVars, controlVars, loopVars, workVars>>

(* Mutant: the trade is closed in the journal although the order failed. *)
SubmitCloseRaisedGoesOn(p) ==
  /\ At(p, "close")
  /\ SubmitRaised(CloseOrderId(held[p]), TickerOf[trades[held[p]].cand],
                  CloseSide(held[p]), CloseQty(held[p]))
  /\ pc' = [pc EXCEPT ![p] = "closing"]
  /\ UNCHANGED <<journalVars, controlVars, loopVars, workVars>>

(* Logged as close_failed; the trade stays open for the next cycle. *)
SubmitCloseRaised(p) ==
  /\ At(p, "close")
  /\ SubmitRaised(CloseOrderId(held[p]), TickerOf[trades[held[p]].cand],
                  CloseSide(held[p]), CloseQty(held[p]))
  /\ pc' = [pc EXCEPT ![p] = "exits"]
  /\ held' = [held EXCEPT ![p] = 0]
  /\ UNCHANGED <<journalVars, controlVars, loopVars, pick, size>>

(* _await_fill, then close_trade at the fill price if there is one and at  *)
(* the quoted price if there is none: the order's state is not a condition.*)
JournalClose(p) ==
  /\ At(p, "closing")
  /\ \E loss \in BOOLEAN : CloseTrade(held[p], loss)
  /\ pc' = [pc EXCEPT ![p] = "exits"]
  /\ held' = [held EXCEPT ![p] = 0]
  /\ UNCHANGED <<brokerVars, disp, today, controlVars, loopVars, pick, size>>

(* The exits are through: list the accepted candidates. *)
ListAccepted(p) ==
  /\ At(p, "exits")
  /\ exits[p] = {}
  /\ pc' = [pc EXCEPT ![p] = "entries"]
  /\ entries' = [entries EXCEPT ![p] = AcceptedOf(row[p])]
  /\ UNCHANGED <<sharedVars, rows, row, exits, workVars>>

-----------------------------------------------------------------------------
(* The entry loop and enter_position.                                      *)

EndRow(p) ==
  /\ At(p, "entries")
  /\ entries[p] = {}
  /\ pc' = [pc EXCEPT ![p] = "rows"]
  /\ row' = [row EXCEPT ![p] = None]
  /\ UNCHANGED <<sharedVars, rows, exits, entries, workVars>>

(* get_equity raises: the remaining candidates wait for the next cycle. *)
EquityUnavailable(p) ==
  /\ At(p, "entries")
  /\ entries[p] # {}
  /\ entries' = [entries EXCEPT ![p] = {}]
  /\ UNCHANGED <<sharedVars, pc, rows, row, exits, workVars>>

(* A trade exists for the candidate, or its context has no market data. *)
SkipCandidate(p, c) ==
  /\ At(p, "entries")
  /\ c \in entries[p]
  /\ TradedAlready(c) \/ c \notin WithData
  /\ entries' = [entries EXCEPT ![p] = @ \ {c}]
  /\ UNCHANGED <<sharedVars, pc, rows, row, exits, workVars>>

PickCandidate(p, c) ==
  /\ At(p, "entries")
  /\ c \in entries[p]
  /\ ~TradedAlready(c) /\ c \in WithData
  /\ pc' = [pc EXCEPT ![p] = "check"]
  /\ entries' = [entries EXCEPT ![p] = @ \ {c}]
  /\ pick' = [pick EXCEPT ![p] = c]
  /\ UNCHANGED <<sharedVars, rows, row, exits, held, size>>

EntryQty == IF sysMode = "DERISK" THEN DeriskQty ELSE FullQty

(* check_exposure: an open trade counts with its recorded fill. *)
Exposure == MapThenSumSet(LAMBDA i : trades[i].fill, OpenTrades)

(* Mutant: the system mode is not checked. *)
RiskChecksPassAnyMode(n) ==
  /\ Cardinality(OpenTrades) < MaxPositions
  /\ Cardinality(EnteredToday) < MaxDaily
  /\ Exposure + n <= MaxExposure

(* Mutant: the number of open positions is not checked. *)
RiskChecksPassNoCount(n) ==
  /\ sysMode # "SAFE"
  /\ Cardinality(EnteredToday) < MaxDaily
  /\ Exposure + n <= MaxExposure

(* The part of pre_trade_checks the journal decides. *)
RiskChecksPass(n) ==
  /\ sysMode # "SAFE"
  /\ Cardinality(OpenTrades) < MaxPositions
  /\ Cardinality(EnteredToday) < MaxDaily
  /\ Exposure + n <= MaxExposure

ApproveEntry(p) ==
  /\ At(p, "check")
  /\ EntryQty > 0
  /\ RiskChecksPass(EntryQty)
  /\ pc' = [pc EXCEPT ![p] = "submit"]
  /\ size' = [size EXCEPT ![p] = EntryQty]
  /\ UNCHANGED <<sharedVars, loopVars, held, pick>>

(* No levels, a stale quote or a failed check: the candidate is rejected,  *)
(* whatever its disposition is by now.                                     *)
RefuseEntry(p) ==
  /\ At(p, "check")
  /\ DisposeCandidate(pick[p], "rejected")
  /\ pc' = [pc EXCEPT ![p] = "entries"]
  /\ pick' = [pick EXCEPT ![p] = None]
  /\ UNCHANGED <<brokerVars, trades, today, controlVars, loopVars, held, size>>

(* Any other exception before the order: the candidate stays accepted. *)
EntryRaised(p) ==
  /\ At(p, "check")
  /\ pc' = [pc EXCEPT ![p] = "entries"]
  /\ pick' = [pick EXCEPT ![p] = None]
  /\ UNCHANGED <<sharedVars, loopVars, held, size>>

(* cand["side"]: no risk check looks at it, so an entry may open a short. *)
SubmitEntry(p) ==
  /\ At(p, "submit")
  /\ SubmitAnswered(EntryOrderId(pick[p]), TickerOf[pick[p]], SideOf[pick[p]],
                    size[p])
  /\ pc' = [pc EXCEPT ![p] = "record"]
  /\ UNCHANGED <<journalVars, controlVars, loopVars, workVars>>

(* Reported in the cycle's errors; the candidate stays accepted. *)
SubmitEntryRaised(p) ==
  /\ At(p, "submit")
  /\ SubmitRaised(EntryOrderId(pick[p]), TickerOf[pick[p]], SideOf[pick[p]],
                    size[p])
  /\ pc' = [pc EXCEPT ![p] = "entries"]
  /\ pick' = [pick EXCEPT ![p] = None]
  /\ size' = [size EXCEPT ![p] = 0]
  /\ UNCHANGED <<journalVars, controlVars, loopVars, held>>

RecordTrade(p) ==
  /\ At(p, "record")
  /\ ~OrderIdTaken(EntryOrderId(pick[p]))
  /\ CreateTrade(pick[p], EntryOrderId(pick[p]), size[p])
  /\ pc' = [pc EXCEPT ![p] = "filling"]
  /\ size' = [size EXCEPT ![p] = 0]
  /\ held' = [held EXCEPT ![p] = Len(trades) + 1]
  /\ UNCHANGED <<brokerVars, disp, today, controlVars, loopVars, pick>>

(* IntegrityError on the UNIQUE client_order_id. *)
RecordTradeRaised(p) ==
  /\ At(p, "record")
  /\ OrderIdTaken(EntryOrderId(pick[p]))
  /\ pc' = [pc EXCEPT ![p] = "entries"]
  /\ pick' = [pick EXCEPT ![p] = None]
  /\ size' = [size EXCEPT ![p] = 0]
  /\ UNCHANGED <<sharedVars, loopVars, held>>

(* _await_fill saw a fill: what had filled by then is recorded, once. *)
RecordFill(p) ==
  LET filled == orders[EntryOrderId(pick[p])].filled
  IN  /\ At(p, "filling")
      /\ filled > 0
      /\ FillTrade(held[p], filled)
      /\ pc' = [pc EXCEPT ![p] = "entries"]
      /\ pick' = [pick EXCEPT ![p] = None]
      /\ held' = [held EXCEPT ![p] = 0]
      /\ UNCHANGED <<brokerVars, disp, today, controlVars, loopVars, size>>

(* Three seconds without one (or without an answer): nothing is recorded. *)
FillPollTimeout(p) ==
  /\ At(p, "filling")
  /\ pc' = [pc EXCEPT ![p] = "entries"]
  /\ pick' = [pick EXCEPT ![p] = None]
  /\ held' = [held EXCEPT ![p] = 0]
  /\ UNCHANGED <<sharedVars, loopVars, size>>

(* The process dies; another cycle is started by the scheduler. *)
Crash(p) ==
  /\ ~At(p, "idle")
  /\ pc' = [pc EXCEPT ![p] = "idle"]
  /\ rows' = [rows EXCEPT ![p] = {}]
  /\ row' = [row EXCEPT ![p] = None]
  /\ exits' = [exits EXCEPT ![p] = {}]
  /\ entries' = [entries EXCEPT ![p] = {}]
  /\ held' = [held EXCEPT ![p] = 0]
  /\ pick' = [pick EXCEPT ![p] = None]
  /\ size' = [size EXCEPT ![p] = 0]
  /\ UNCHANGED sharedVars

-----------------------------------------------------------------------------
(* The operator: accept_candidate, reject_candidate, policies_override,    *)
(* approve_strategy, reject_strategy and retire_strategy.                  *)

Operator ==
  \/ \E c \in Cands, d \in OperatorDisp :
       /\ DisposeCandidate(c, d)
       /\ UNCHANGED <<brokerVars, trades, today, controlVars, procVars>>
  \/ \E m \in OperatorModes :
       /\ sysMode' = m
       /\ UNCHANGED <<brokerVars, journalVars, stage, procVars>>
  \/ \E s \in Strategies :
       /\ \/ stage[s] = "proposed" /\ stage' = [stage EXCEPT ![s] = "active"]
          \/ stage[s] # "retired" /\ stage' = [stage EXCEPT ![s] = "retired"]
       /\ UNCHANGED <<brokerVars, journalVars, sysMode, procVars>>

Fill(id) ==
  /\ FillUnit(id)
  /\ UNCHANGED <<journalVars, controlVars, procVars>>

Broker ==
  \/ \E id \in Placed : Fill(id)
  \/ /\ (\E r \in inflight : Deliver(r)) \/ (\E id \in Placed : CancelRest(id))
     /\ UNCHANGED <<journalVars, controlVars, procVars>>

NextDay ==
  /\ today < MaxDay
  /\ MarketClose
  /\ today' = today + 1
  /\ UNCHANGED <<trades, disp, controlVars, procVars>>

Exits(p) ==
  \/ \E i \in TradeIds : HoldTrade(p, i) \/ ExitSignal(p, i)
  \/ SubmitClose(p) \/ SubmitCloseRaised(p) \/ JournalClose(p)
  \/ ListAccepted(p)

Entries(p) ==
  \/ EndRow(p) \/ EquityUnavailable(p)
  \/ \E c \in Cands : SkipCandidate(p, c) \/ PickCandidate(p, c)
  \/ ApproveEntry(p) \/ RefuseEntry(p) \/ EntryRaised(p)
  \/ SubmitEntry(p) \/ SubmitEntryRaised(p)
  \/ RecordTrade(p) \/ RecordTradeRaised(p)
  \/ RecordFill(p) \/ FillPollTimeout(p)

Step(p) ==
  \/ StartCycle(p) \/ EndCycle(p) \/ AbandonRow(p)
  \/ \E s \in Strategies : TakeRow(p, s) \/ SkipRow(p, s)
  \/ Exits(p) \/ Entries(p)

Next ==
  \/ \E p \in Procs : Step(p) \/ Crash(p)
  \/ Operator \/ Broker \/ NextDay

Spec == Init /\ [][Next]_vars

(* The scheduler starts a cycle every five minutes and a started cycle     *)
(* runs on (WF).  A crash, a stale quote or a lost answer does not come    *)
(* back for ever on the one trade (SF).  Nothing is assumed of the         *)
(* operator, of entries or of the broker's fills.                          *)
Fairness ==
  \A p \in Procs :
    /\ WF_vars(Step(p))
    /\ SF_vars(StartCycle(p))
    /\ \A s \in Strategies : SF_vars(TakeRow(p, s))
    /\ \A i \in 1..Cardinality(Cands) : SF_vars(ExitSignal(p, i))
    /\ SF_vars(SubmitClose(p))
    /\ SF_vars(JournalClose(p))

FairSpec == Spec /\ Fairness

(* The broker's fills on top: an order that stays live is filled. *)
FillingSpec ==
  /\ FairSpec
  /\ \A c \in Cands : WF_vars(Fill(EntryOrderId(c)))
  /\ \A i \in 1..Cardinality(Cands) : WF_vars(Fill(CloseOrderId(i)))
=============================================================================
