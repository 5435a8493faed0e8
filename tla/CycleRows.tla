----------------------------- MODULE CycleRows ------------------------------
(***************************************************************************)
(* Which strategies run_executor_cycle (heron/execution/cycle.py) works    *)
(* on: three listings of the journal, one after the other, while the       *)
(* requests of StrategyLifecycle go on.  What the cycle does with a row is *)
(* ExecutorCycle; here it only leaves the row with or without an open      *)
(* position.                                                               *)
(***************************************************************************)
EXTENDS StrategyLifecycle

CONSTANTS
  CampMode,   \* campaigns.mode
  CycleMode   \* the mode the cycle runs in

Modes == {"paper", "live"}

ASSUME CampModeAssumption == CampMode \in [Camps -> Modes]
ASSUME CycleModeAssumption == CycleMode \in Modes

VARIABLES
  at,         \* where the cycle is
  listed,     \* campaigns it iterates
  seen,       \* seen_ids
  rows,       \* rows it has still to process
  positions   \* strategies with an open position

cycleVars == <<at, listed, seen, rows, positions>>

allVars == <<vars, cycleVars>>

RowsInit ==
  /\ Init
  /\ at = "idle" /\ listed = {} /\ seen = {} /\ rows = {} /\ positions = {}

InState(state) == {id \in Ids : strategies[id].state = state}

\* list_campaigns(mode, state="ACTIVE")
ListCampaigns ==
  /\ at = "idle"
  /\ at' = "attached"
  /\ listed' = {c \in Camps : campaigns[c].state = "ACTIVE"
                              /\ CampMode[c] = CycleMode}
  /\ UNCHANGED <<vars, seen, rows, positions>>

(* Mutant: every strategy of the campaign is taken. *)
AttachedAnyState == {id \in Ids : Exists(id) /\ strategies[id].camp \in listed}

\* The PAPER and LIVE strategies of the listed campaigns.
Attached == {id \in InState("PAPER") \cup InState("LIVE") :
               strategies[id].camp \in listed}

\* One query for each campaign; strategies do not move between campaigns.
ListAttached ==
  /\ at = "attached"
  /\ at' = "first"
  /\ seen' = Attached
  /\ rows' = Attached
  /\ UNCHANGED <<vars, listed, positions>>

(* Mutant: the two listings change places. *)
QuerySwapped == [first |-> "LIVE", second |-> "PAPER"]

\* The state each of the two last listings asks for.
Query == [first |-> "PAPER", second |-> "LIVE"]

\* list_strategies(state), without the ids seen under a campaign; after the
\* second of them neither these nor the campaigns are read again.
ListState ==
  /\ at \in DOMAIN Query
  /\ rows' = rows \cup (InState(Query[at]) \ seen)
  /\ \/ at = "first" /\ at' = "second" /\ UNCHANGED <<listed, seen>>
     \/ at = "second" /\ at' = "work" /\ listed' = {} /\ seen' = {}
  /\ UNCHANGED <<vars, positions>>

\* check_exits and the accepted candidates of one row.
Process(id) ==
  /\ at = "work" /\ id \in rows
  /\ rows' = rows \ {id}
  /\ positions' \in {positions \ {id}, positions \cup {id}}
  /\ UNCHANGED <<vars, at, listed, seen>>

Reset ==
  /\ at' = "idle" /\ listed' = {} /\ seen' = {} /\ rows' = {}
  /\ UNCHANGED <<vars, positions>>

EndCycle == at = "work" /\ rows = {} /\ Reset

\* The process stops before its end.
CycleCrash == at # "idle" /\ (at = "work" => rows # {}) /\ Reset

RowsNext ==
  \/ Next /\ UNCHANGED cycleVars
  \/ ListCampaigns \/ ListAttached \/ ListState
  \/ \E id \in Ids : Process(id)
  \/ EndCycle \/ CycleCrash

RowsSpec == RowsInit /\ [][RowsNext]_allVars

-----------------------------------------------------------------------------

\* No strategy is worked on or holds a position that was never approved,
\* whatever is approved, promoted or retired between the listings.
NothingProposedTrades ==
  \A id \in rows \cup positions :
    strategies[id].state \notin {"none", "PROPOSED"}

\* "better not to silently drop a position": a strategy that holds one and
\* is PAPER or LIVE when the listings end is among the rows, though it may
\* have moved from one listing's state to the other's meanwhile.
RunningPositionsAreListed ==
  [][at = "second" /\ at' = "work" =>
       positions \cap (InState("PAPER") \cup InState("LIVE")) \subseteq rows'
    ]_allVars

=============================================================================
