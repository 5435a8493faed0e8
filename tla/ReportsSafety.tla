---------------------------- MODULE ReportsSafety ----------------------------
(***************************************************************************)
(* What the table of reports and the earnings cache promise while several  *)
(* handlers write them.                                                    *)
(***************************************************************************)
EXTENDS BacktestRequests

Ids == DOMAIN reports

(* An event's versions follow each other without a gap or an overlap, and  *)
(* one is current: every as_of finds at most one value, whatever order the *)
(* fetches, reports and restatements came in.  (earnings.py:107-110)       *)
VersionsTile ==
  \A e \in EventDays :
    LET versions == Versions(earnings, e)
        n == Cardinality(versions)
    IN  /\ {row.version : row \in versions} = 1..n
        /\ \A row \in versions :
             IF row.version = n THEN row.superseded = Current
             ELSE \E after \in versions :
                    after.version = row.version + 1 /\ after.asOf = row.superseded
                      /\ after.asOf >= row.asOf /\ after.value # row.value

(* A run whose data were final when it ran: real earnings over a window    *)
(* that was over, or no earnings at all.                                   *)
Closed(i) ==
  /\ ~reports[i].parent
  /\ reports[i].ran.seeder = "synthetic" \/ reports[i].ran.window[2] < reports[i].on

(* A run on real earnings over a window that was over when it ran gives    *)
(* the same trades whenever it is repeated: later fetches and restatements *)
(* do not reach back.  So does a synthetic run with its seed.              *)
(* (engine.py:9, runner.py:62, 74-75)                                      *)
ReplaysAreRepeatable ==
  \A i \in Ids :
    Closed(i) => reports[i].trades = TradesOf(reports[i].ran)

(* A report whose run had an override and that carries no tag, so that it  *)
(* looks like a run of the stored config.                                  *)
Untagged ==
  {i \in Ids : reports[i].ran.over # Stored /\ reports[i].sweep = NoId /\ reports[i].wf = NoId}

(* A walk-forward's parent names exactly the reports that carry its id,    *)
(* all of its strategy and older; nothing belongs to a sweep and a         *)
(* walk-forward; a fork applies the override of a report of its sweep; and *)
(* an untagged override is about to be tagged or its handler died first    *)
(* (sweep.py, walkforward.py, dashboard/__init__.py).                      *)
FamiliesAgree ==
  /\ \A i \in Ids : reports[i].parent =>
       /\ reports[i].kids = {k \in Ids \ {i} : reports[k].wf = reports[i].wf}
       /\ \A k \in reports[i].kids : k < i /\ reports[k].strategy = reports[i].strategy
  /\ \A i \in Ids : reports[i].sweep = NoId \/ reports[i].wf = NoId
  /\ \A tag \in DOMAIN forks :
       \E i \in Ids : reports[i].sweep = tag /\ reports[i].ran.over = forks[tag]
  /\ Untagged \subseteq orphans \cup {job[p].saved : p \in {q \in Procs : At(q, "tag")}}

(* With a step no shorter than the test window and a start day every month *)
(* has, the test windows of one walk-forward are disjoint and in order,    *)
(* and with a step as long as the test window every bar between the first  *)
(* and the last of them is in one: the stitched curve has each date once.  *)
Regular(plan) ==
  /\ plan.step >= plan.test
  /\ \A m \in 1..(Len(MonthStarts) - 1) :
       plan.start - MonthStarts[MonthOf(plan.start)] < MonthStarts[m + 1] - MonthStarts[m]
WindowsTile ==
  \A i \in Ids : (reports[i].parent /\ Regular(reports[i].ran.plan)) =>
    /\ \A k, l \in reports[i].kids : k < l =>
         reports[k].ran.window[2] < reports[l].ran.window[1]
    /\ (reports[i].ran.plan.step = reports[i].ran.plan.test
          /\ reports[i].ran.seeder = "synthetic") =>
         \A k, l \in reports[i].kids, d \in BarDays :
           (reports[k].ran.window[1] <= d /\ d <= reports[l].ran.window[2]) =>
             \E j \in reports[i].kids : d \in BarsIn(reports[j].ran.window)

(* A verdict that opens the promotion gate never comes from two runs with  *)
(* the same inputs (seeder, seed, window, override, initial equity): the   *)
(* LLM is not replayed, so a strategy beats its mirrored baseline only by  *)
(* a difference in one of them or by knowledge gained between the two runs *)
(* (runner.py:57-137, report.py:44-57, parity.py:31-58).                   *)
Inputs(i) == reports[i].ran
LikeNeverBeatsLike ==
  \A i \in Ids : reports[i].parity.passes =>
    LET base == reports[i].parity.base
    IN  \/ Inputs(i) # Inputs(base)
        \/ ~Closed(i) \/ ~Closed(base)

(* The runner's message: what a fetch has cached for a window is found by  *)
(* a run over it.  (runner.py:110-113, "Run `heron data earnings fetch     *)
(* --start ... --end ...` first.")                                         *)
FetchedEventsAreFound ==
  \A p \in Procs :
    (At(p, "run") /\ job[p].op = "backtest" /\ job[p].seeder = "real" /\ job[p].todo # <<>>) =>
      LET window == job[p].window
      IN  (\E row \in earnings :
             /\ row.superseded = Current /\ row.event \in window[1]..window[2]
             /\ row.value # Unreported /\ row.value >= SeedThreshold)
          => KnownCandidates(window) # {}
=============================================================================
