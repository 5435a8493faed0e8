-------------------------- MODULE BacktestRequests ---------------------------
(***************************************************************************)
(* The dashboard's and the command line's backtest handlers side by side:  *)
(* single runs, sweeps (heron/backtest/sweep.py), walk-forwards with       *)
(* fitting (walkforward.py, fitter.py), reparity, forks of a sweep's       *)
(* winner, and earnings fetches.  A handler commits after each save and    *)
(* after each tag; others run in between, and it may die there.            *)
(***************************************************************************)
EXTENDS BacktestReports

CONSTANTS
  Procs,            \* handlers that run at once
  Divisions,        \* what each of them is used for: [does, on, seeders, given],
                    \* with the pairs of a seed and an initial equity it is given
  Windows,          \* windows of single runs and sweeps
  Combos,           \* expand_grid: a sequence of overrides
  Plans,            \* walk-forwards: [start, end, train, test, step, axes]
  FetchRanges,      \* ranges of an earnings fetch
  MaxReports,       \* bound: rows of backtest_reports
  MaxCrashes        \* bound: handlers that die

ASSUME RequestsAssumption ==
  /\ IsFiniteSet(Procs)
  /\ Windows \subseteq Nat \X Nat /\ FetchRanges \subseteq Nat \X Nat
  /\ Len(Combos) <= 50
  /\ \A plan \in Plans : plan.train >= 0 /\ plan.test > 0 /\ plan.step > 0
  /\ Divisions \subseteq
       [Procs -> [does : SUBSET {"backtest", "sweep", "walkforward", "reparity", "fork", "fetch"},
                  on : SUBSET Strategies, seeders : SUBSET Seeders,
                  given : SUBSET (Nat \X Nat)]]
  /\ MaxReports \in Nat /\ MaxCrashes \in Nat

(* The calendar goes on: it begins before a plan does and has the months   *)
(* the plan may look at after its end.                                     *)
ASSUME CalendarAssumption ==
  \A plan \in Plans :
    /\ plan \in [start : Nat, end : Nat, train : Nat, test : Nat, step : Nat, axes : BOOLEAN]
    /\ MonthStarts[1] <= plan.start
    /\ \E m \in DOMAIN MonthStarts :
         /\ plan.start < MonthStarts[m] /\ plan.end + 1 < MonthStarts[m]
         /\ m + plan.train + plan.test + plan.step <= Len(MonthStarts)

VARIABLES
  job,       \* what each handler is doing and holds in locals
  duty,      \* what each is used for
  crashes,
  orphans    \* history: reports whose handler died before it tagged them

vars == <<earningsVars, reportVars, job, duty, crashes, orphans>>
rest == <<earningsVars, duty, crashes, orphans>>

Idle ==
  [at |-> "idle", op |-> "none", strategy |-> "s", seeder |-> "synthetic",
   seed |-> 0, initial |-> 0, equity |-> 0, window |-> <<1, 0>>, todo |-> <<>>,
   plan |-> NoPlan, cur |-> 1, tag |-> NoId,
   row |-> {}, saved |-> NoId, kids |-> {}]

Init ==
  /\ EarningsInit /\ ReportsInit
  /\ job = [p \in Procs |-> Idle]
  /\ duty \in Divisions
  /\ crashes = 0 /\ orphans = {}

At(p, where) == job[p].at = where
Free(p, op) == At(p, "idle") /\ op \in duty[p].does
Become(p, state) == job' = [job EXCEPT ![p] = state]
Room == Len(reports) < MaxReports

(* What a form or a command line may ask a run for. *)
Request(op, strategy, seeder, given) ==
  [Idle EXCEPT !.at = "run", !.op = op, !.strategy = strategy, !.seeder = seeder,
               !.seed = given[1], !.initial = given[2], !.equity = given[2]]
Asked(p, op) ==
  {Request(op, s, seeder, given) :
     s \in duty[p].on, seeder \in duty[p].seeders, given \in duty[p].given}

(* secrets.token_hex: a sweep_id or walkforward_id nothing has yet. *)
FreshTag ==
  LET used == {job[p].tag : p \in Procs}
                \cup UNION {{reports[i].sweep, reports[i].wf} : i \in DOMAIN reports}
  IN  Min((1..(Cardinality(used) + 1)) \ used)

------------------------------------------------------------------------------
(* The requests. *)
StartBacktest(p) ==
  /\ Free(p, "backtest")
  /\ \E asked \in Asked(p, "backtest"), w \in Windows :
       Become(p, [asked EXCEPT !.window = w, !.todo = <<Stored>>])
  /\ UNCHANGED <<rest, reportVars>>

StartSweep(p) ==
  /\ Free(p, "sweep")
  /\ \E asked \in Asked(p, "sweep"), w \in Windows :
       Become(p, [asked EXCEPT !.window = w, !.todo = Combos, !.tag = FreshTag])
  /\ UNCHANGED <<rest, reportVars>>

(* A plan that holds no window is refused. *)
StartWalkForward(p) ==
  /\ Free(p, "walkforward")
  /\ \E asked \in Asked(p, "walkforward"), plan \in Plans :
       /\ Fits(plan.start, plan)
       /\ Become(p, [asked EXCEPT !.plan = plan, !.cur = plan.start, !.tag = FreshTag])
  /\ UNCHANGED <<rest, reportVars>>

------------------------------------------------------------------------------
(* A run and save_report up to its INSERT: the row, with the verdict, is   *)
(* computed from what the database holds now; the bootstrap takes a while. *)
InputOf(p, window, over) ==
  Input(job[p].seeder, job[p].seed, window, over, job[p].equity)
RunAndHold(p, window, over) ==
  \E row \in Judged(Result(job[p].strategy, InputOf(p, window, over))) :
    Become(p, [job[p] EXCEPT !.at = "save", !.row = {row}])

(* The next combo of a sweep, or the one run of a backtest. *)
RunCombo(p) ==
  /\ At(p, "run") /\ job[p].op # "walkforward" /\ job[p].todo # <<>>
  /\ Runs(job[p].seeder, job[p].window)
  /\ RunAndHold(p, job[p].window, Head(job[p].todo))
  /\ UNCHANGED <<rest, reportVars>>

(* A run that fails is passed over by a sweep and ends a backtest; so does *)
(* the end of the grid.                                                    *)
ComboFails(p) ==
  /\ At(p, "run") /\ job[p].op # "walkforward" /\ job[p].todo # <<>>
  /\ ~Runs(job[p].seeder, job[p].window)
  /\ Become(p, [job[p] EXCEPT !.todo = Tail(@)])
  /\ UNCHANGED <<rest, reportVars>>

GridDone(p) ==
  /\ At(p, "run") /\ job[p].op # "walkforward" /\ job[p].todo = <<>>
  /\ Become(p, Idle)
  /\ UNCHANGED <<rest, reportVars>>

(* _score and fit_params, on the train window with the first equity: runs  *)
(* with too few trades rank below the others, and the first of equals wins.*)
Bucket(trades) == IF Cardinality(trades) < MinTrades THEN -1 ELSE 0
Better(a, b) ==
  LET ta == TradesOf(a)
      tb == TradesOf(b)
  IN  \/ Bucket(ta) > Bucket(tb)
      \/ Bucket(ta) = Bucket(tb) /\ Merit(a, ta) > Merit(b, tb)
Fitted(p, train) ==
  LET run(i) == Input(job[p].seeder, job[p].seed, train, Combos[i], job[p].initial)
  IN  Combos[CHOOSE i \in DOMAIN Combos :
               \A k \in DOMAIN Combos \ {i} :
                 \/ Better(run(i), run(k))
                 \/ i < k /\ ~Better(run(k), run(i))]

(* An empty train window, no axes, or a fit without a single run: the      *)
(* stored config.                                                          *)
Locked(p, train) ==
  IF job[p].plan.axes /\ train[1] <= train[2] /\ Runs(job[p].seeder, train)
  THEN Fitted(p, train) ELSE Stored

Turn(p) == WindowAt(job[p].cur, job[p].plan)
MoreWindows(p) == Fits(job[p].cur, job[p].plan)
NextWindow(p) == AddMonths(job[p].cur, job[p].plan.step)

RunWindow(p) ==
  /\ At(p, "run") /\ job[p].op = "walkforward" /\ MoreWindows(p)
  /\ Runs(job[p].seeder, Turn(p).test)
  /\ RunAndHold(p, Turn(p).test, Locked(p, Turn(p).train))
  /\ UNCHANGED <<rest, reportVars>>

WindowFails(p) ==
  /\ At(p, "run") /\ job[p].op = "walkforward" /\ MoreWindows(p)
  /\ ~Runs(job[p].seeder, Turn(p).test)
  /\ Become(p, [job[p] EXCEPT !.cur = NextWindow(p)])
  /\ UNCHANGED <<rest, reportVars>>

SaveResult(p) ==
  /\ At(p, "save") /\ Room
  /\ \E row \in job[p].row : reports' = Append(reports, row)
  /\ Become(p, IF job[p].op = "backtest" THEN Idle
               ELSE [job[p] EXCEPT !.at = "tag", !.row = {}, !.saved = Len(reports) + 1])
  /\ UNCHANGED <<rest, forks>>

(* A sweep's report is given its sweep_id, a window's its walkforward_id,  *)
(* in an UPDATE of its own.                                                *)
TagCombo(p) ==
  /\ At(p, "tag") /\ job[p].op = "sweep"
  /\ reports' = [reports EXCEPT ![job[p].saved].sweep = job[p].tag]
  /\ Become(p, [job[p] EXCEPT !.at = "run", !.todo = Tail(@), !.saved = NoId])
  /\ UNCHANGED <<rest, forks>>

(* The next window starts with the equity this one ended with.             *)
AfterWindow(p) ==
  LET row == reports[job[p].saved]
  IN  [job[p] EXCEPT !.at = "run", !.cur = NextWindow(p), !.saved = NoId,
                     !.kids = @ \cup {job[p].saved},
                     !.equity = EndOf(row.ran, row.trades)]
TagWindowNeverStored(p) ==
  /\ At(p, "tag") /\ job[p].op = "walkforward"
  /\ Become(p, AfterWindow(p))
  /\ UNCHANGED <<rest, reportVars>>
TagWindow(p) ==
  /\ At(p, "tag") /\ job[p].op = "walkforward"
  /\ reports' = [reports EXCEPT ![job[p].saved].wf = job[p].tag]
  /\ Become(p, AfterWindow(p))
  /\ UNCHANGED <<rest, forks>>

(* The parent row: the windows' trades together, the dates asked for and   *)
(* no verdict.                                                             *)
Aggregate(p) ==
  /\ At(p, "run") /\ job[p].op = "walkforward" /\ ~MoreWindows(p)
  /\ job[p].kids # {} /\ Room
  /\ reports' = Append(reports,
       [strategy |-> job[p].strategy, dates |-> <<job[p].plan.start, job[p].plan.end>>,
        ran |-> [Input(job[p].seeder, job[p].seed, <<job[p].plan.start, job[p].plan.end>>,
                       Stored, job[p].initial) EXCEPT !.plan = job[p].plan],
        trades |-> UNION {reports[k].trades : k \in job[p].kids}, on |-> today,
        sweep |-> NoId, wf |-> job[p].tag, parent |-> TRUE, kids |-> job[p].kids,
        parity |-> NoVerdict])
  /\ Become(p, Idle)
  /\ UNCHANGED <<rest, forks>>

NothingToAggregate(p) ==
  /\ At(p, "run") /\ job[p].op = "walkforward" /\ ~MoreWindows(p) /\ job[p].kids = {}
  /\ Become(p, Idle)
  /\ UNCHANGED <<rest, reportVars>>

------------------------------------------------------------------------------
(* reparity_report reads a report and its baseline, and later replaces the *)
(* report's verdict.                                                       *)
ReadParity(p) ==
  /\ Free(p, "reparity")
  /\ \E id \in DOMAIN reports :
       \E row \in Judged(reports[id]) :
         Become(p, [Idle EXCEPT !.at = "verdict", !.saved = id, !.row = {row}])
  /\ UNCHANGED <<rest, reportVars>>

WriteParity(p) ==
  /\ At(p, "verdict")
  /\ \E row \in job[p].row :
       reports' = [reports EXCEPT ![job[p].saved].parity = row.parity]
  /\ Become(p, Idle)
  /\ UNCHANGED <<rest, forks>>

(* backtest_sweep_promote: the new strategy's id is the sweep's, so a      *)
(* sweep is forked once.                                                   *)
Fork(p) ==
  /\ Free(p, "fork")
  /\ \E id \in DOMAIN reports :
       LET tag == reports[id].sweep
       IN  /\ tag # NoId /\ tag \notin DOMAIN forks
           /\ reports[id].ran.over # Stored
           /\ forks' = [t \in DOMAIN forks \cup {tag} |->
                          IF t = tag THEN reports[id].ran.over ELSE forks[t]]
  /\ UNCHANGED <<rest, reports, job>>

Fetch(p) ==
  /\ Free(p, "fetch")
  /\ \E range \in FetchRanges : FetchAndCache(range)
  /\ UNCHANGED <<reportVars, job, duty, crashes, orphans>>

(* The handler dies with its process; what it committed stays. *)
Crash(p) ==
  /\ ~At(p, "idle") /\ crashes < MaxCrashes
  /\ crashes' = crashes + 1
  /\ orphans' = orphans \cup IF At(p, "tag") THEN {job[p].saved} ELSE {}
  /\ Become(p, Idle)
  /\ UNCHANGED <<earningsVars, reportVars, duty>>

(* The world moves on where somebody fetches. *)
World ==
  /\ \E p \in Procs : "fetch" \in duty[p].does
  /\ \/ \E e \in EventDays : Report(e) \/ Restate(e)
     \/ NextDay
  /\ UNCHANGED <<reportVars, job, duty, crashes, orphans>>

Next ==
  \/ World
  \/ \E p \in Procs :
       \/ StartBacktest(p) \/ StartSweep(p) \/ StartWalkForward(p)
       \/ RunCombo(p) \/ ComboFails(p) \/ GridDone(p)
       \/ RunWindow(p) \/ WindowFails(p)
       \/ SaveResult(p) \/ TagCombo(p) \/ TagWindow(p)
       \/ Aggregate(p) \/ NothingToAggregate(p)
       \/ ReadParity(p) \/ WriteParity(p) \/ Fork(p) \/ Fetch(p) \/ Crash(p)

Spec == Init /\ [][Next]_vars
=============================================================================
