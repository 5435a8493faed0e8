---------------------------- MODULE EarningsCache ----------------------------
(***************************************************************************)
(* The point-in-time cache of earnings events (heron/data/earnings.py):    *)
(* cache_earnings_events writes it, get_earnings_events reads it.  An      *)
(* event is named by its date (one ticker, one source); its surprise_pct   *)
(* stands for all its values.  A time stamp keeps its day and the order of *)
(* an event's versions, which is what the comparisons with the end of a    *)
(* day can tell apart.                                                     *)
(***************************************************************************)
EXTENDS Integers, Sequences, FiniteSets, FiniteSetsExt, SequencesExt

CONSTANTS
  EventDays,       \* dates of the earnings events
  Surprises,       \* surprise_pct of a reported event
  MaxDay,          \* bound: days of a behaviour
  MaxRestatements  \* bound: values the provider changes after the report

ASSUME EarningsAssumption ==
  /\ EventDays \subseteq Nat /\ IsFiniteSet(EventDays)
  /\ Surprises \subseteq Int
  /\ MaxDay \in Nat \ {0} /\ MaxRestatements \in Nat

VARIABLES
  today,       \* the wall clock
  published,   \* what the provider serves for each event
  restated,    \* how often it has changed a reported value
  earnings     \* earnings_events

earningsVars == <<today, published, restated, earnings>>

Unreported == 1000    \* eps_actual missing: surprise_pct is NULL
Current == 1001       \* superseded_at is NULL

(* No day of a behaviour is taken for a NULL. *)
ASSUME DaysAssumption == MaxDay < Current

EarningsInit ==
  /\ today = 1
  /\ published = [e \in EventDays |-> Unreported]
  /\ restated = 0
  /\ earnings = {}

(* The provider reports an event on its day and may restate it later. *)
Report(e) ==
  /\ e <= today /\ published[e] = Unreported
  /\ \E v \in Surprises : published' = [published EXCEPT ![e] = v]
  /\ UNCHANGED <<today, restated, earnings>>

Restate(e) ==
  /\ published[e] # Unreported /\ restated < MaxRestatements
  /\ \E v \in Surprises \ {published[e]} : published' = [published EXCEPT ![e] = v]
  /\ restated' = restated + 1
  /\ UNCHANGED <<today, earnings>>

NextDay ==
  /\ today < MaxDay
  /\ today' = today + 1
  /\ UNCHANGED <<published, restated, earnings>>

------------------------------------------------------------------------------
Versions(table, e) == {row \in table : row.event = e}

(* The SELECT of cache_earnings_events: the current row, if there is one.  *)
CurrentRow(table, e) == {row \in Versions(table, e) : row.superseded = Current}

Unchanged(table, e, v) == \E row \in CurrentRow(table, e) : row.value = v

(* The UPDATE of the row read, and the INSERT; a version is never older    *)
(* than the last.                                                          *)
SupersededLeftOpen(row, stamp) == row
Superseded(row, stamp) == [row EXCEPT !.superseded = stamp]
Cached(table, read, e, v, now) ==
  LET stamp == Max({now} \cup {row.asOf : row \in read})
  IN  (table \ read) \cup {Superseded(row, stamp) : row \in read}
        \cup {[event |-> e, version |-> Cardinality(Versions(table, e)) + 1, value |-> v,
               asOf |-> stamp, superseded |-> Current]}

(* The batch: what has not changed keeps its row and its time stamp. *)
CacheAll(table, batch, now) ==
  LET step(acc, item) ==
        IF Unchanged(acc, item.event, item.value) THEN acc
        ELSE Cached(acc, CurrentRow(acc, item.event), item.event, item.value, now)
  IN  FoldLeft(step, table, batch)

(* A fetch reads the provider's values for a range of dates, in the order  *)
(* the provider lists them, and caches them in one transaction.            *)
FetchAndCache(range) ==
  /\ \E listed \in SetToSeqs({e \in EventDays : e \in range[1]..range[2]}) :
       earnings' = CacheAll(earnings,
         [i \in DOMAIN listed |-> [event |-> listed[i], value |-> published[listed[i]]]],
         today)
  /\ UNCHANGED <<today, published, restated>>

(* get_earnings_events with as_of the end of a day. *)
KnownToday(table, day) == {row \in table : row.superseded = Current}
KnownAt(table, day) ==
  {row \in table : row.asOf <= day /\ row.superseded > day}

(* real_pead_candidates (heron/backtest/seeders.py) for one window. *)
RealCandidates(table, window, threshold, day) ==
  {[event |-> row.event, value |-> row.value] :
     row \in {r \in KnownAt(table, day) :
                /\ r.event \in window[1]..window[2]
                /\ r.value # Unreported
                /\ r.value >= threshold \/ -r.value >= threshold}}
=============================================================================
