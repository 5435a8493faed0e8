# HERON: a TLA+ model

HERON is an automated trading program. A research pass reads news and proposes
*candidates*; an operator accepts or rejects them in a dashboard; an executor
cycle, run every five minutes of the session, enters accepted candidates and
closes positions whose exit condition holds; a supervisor runs these as
scheduled jobs; backtests decide which strategies may be promoted; everything is
written to one SQLite *journal*, and orders go to an Alpaca account. Strategies
move from proposal through paper to live trading and are grouped in campaigns.
This directory holds TLA+ modules of the parts where money moves (the executor),
that decide which strategies may move it (lifecycle, backtest reports), that
propose what to buy (research) and that keep it all running (supervisor), the
TLC configurations that check them, and proofs that TLAPS checks. Paths below
are relative to `src/`.

## 1. The system

| Component | State | Operations | Talks to |
|---|---|---|---|
| Executor, cycle (`heron/execution/executor.py`, `cycle.py`) | none of its own: locals of a running cycle | `run_executor_cycle`, `enter_position`, `check_exits`, `_close_position`, `reconcile` | broker, journal, policies |
| Broker adapter (`execution/alpaca_adapter.py`, `broker.py`) | the account at Alpaca | `submit_order`, `get_order`, `get_quote`, deterministic order ids | Alpaca |
| Journal: trades, candidates (`journal/`) | tables `trades`, `candidates`, `wash_sale_lots`, `pdt_daytrades` | `create_trade`, `fill_trade`, `close_trade`, `dispose_candidate`, queries | everybody |
| Risk checks (`strategy/risk.py`) | none | `pre_trade_checks` | journal |
| Policy engine (`strategy/policy.py`) | the newest `system_mode` event | `evaluate_policies`, `resolve_mode`, `set_system_mode`, `derisk_qty` | journal, cycle, dashboard |
| Strategy and campaign lifecycle (`journal/strategies.py`, `campaigns.py`, `strategy/baseline.py`) | `strategies`, `campaigns`, state logs | transitions, `attach_strategy`, `ensure_baseline`, candidate mirrors | dashboard, CLI, cycle |
| First-run setup (`runtime/setup.py`) | the whole journal | `apply_initial_setup` | journal |
| Supervisor (`runtime/supervisor.py`, `jobs.py`) | job table, `scheduler_runs`, `scheduler_commands` | cron jobs, `run_once`, command poller thread | all jobs, dashboard |
| Preflight, audit, shutdown (`runtime/preflight.py`, `resilience/`) | `events` | `preflight`, `run_startup_audit`, `log_shutdown` | broker, journal |
| Cost guard, escalation (`research/cost_guard.py`, `escalation.py`, `thesis.py`, `proposer.py`, `audit.py`) | `cost_tracking`, `audits` | `check_budget`, model calls, `log_cost`, post-mortems | Claude, journal |
| Research pass (`research/orchestrator.py`, `candidates.py`, `classifier.py`; `journal/signals.py`) | `candidates`, `signals`, `signal_candidates` | fetch, classify, create candidates, link, mirror | data feed, local model, journal |
| Strategies, sizing (`strategy/pead.py`, `sizing.py`, `portfolio.py`) | none | `compute_levels`, `should_exit`, allocation | cycle, backtest |
| Backtest engine (`backtest/engine.py`, `costs.py`) | locals of a replay | `run_backtest`: exits, entries, marks, forced close | strategy, bars |
| Backtest requests and reports (`backtest/runner.py`, `sweep.py`, `walkforward.py`, `fitter.py`, `report.py`, `parity.py`, `seeders.py`) | `backtest_reports` | single runs, sweeps, walk-forwards, reparity, forks | engine, earnings, promotion gate |
| Market data (`data/`) | `earnings_events`, bar and news caches | `cache_earnings_events`, as-of reads, fetches | providers, backtest, research |
| Alerts (`alerts/`), dashboard, CLI | none | render, deliver, start all of the above | everything |

What makes it hard is that the executor keeps nothing between cycles. The
process can die between any two lines, a broker call can fail after it took
effect, an order can fill seconds or never after it was placed, and a second
process may be running the same cycle: the scheduler's `max_instances=1` does
not reach a `heron run --once executor_cycle` in another shell, and nothing
locks the journal. The only defences are the order ids (one for each candidate,
one for each close of a trade, refused by the broker when taken), the UNIQUE
column in `trades`, and look-ups in the journal. The operator writes to the same
tables between any two steps.

The strategy lifecycle is hard for another reason. Each dashboard request and
each command opens its own connection; a transition reads a row, validates, and
writes it in a later commit with `WHERE id=?` only; approving a strategy or
setting up a first journal takes several commits. Requests overlap, and a
process can stop between any two commits. Every new connection also runs the
migration, which moves strategies without a campaign into `default_paper`.

The supervisor is hard because three parties write its two tables: worker
threads, a command poller and a `--once` process. A command is applied to the
in-memory job table first and marked in the journal second; either can fail, the
daemon can die between them, and the poller then starts over. Research is hard
because a budget is asked before a call and charged after it, and because a
candidate, its signal and the link between them are three commits, by passes
that nothing keeps apart. Backtest reports are hard because a report is saved
first and tagged with its family later, because verdicts are computed against
what another handler may be replacing, and because the earnings they rest on are
restated.

What would make it correct: no candidate is entered twice, no position closed
twice or closed past flat, every journal row is backed by an order, limits hold,
SAFE lets through what was under way and nothing else, a filled position is
watched until it is closed; the log tells where a strategy is and how it came
there; nothing trades that no operator approved; a strategy and its baseline
twin stay comparable, in one campaign; the cycle works on every running strategy
that holds a position, and on no other; operator commands take effect in the
order they were given, and run history tells the truth; a candidate knows the
signal it came from; the budget is passed by no more than what was in flight; a
replay loses no more than it risked, accounts for what it trades and gives the
same result when it is repeated; and no report opens the promotion gate by
comparing a strategy with its own copy.

## 2. Modules

| Module | Models |
|---|---|
| `AlpacaBroker` | the order book behind the adapter, and what a caller of `_submit_with_retry` may see |
| `TradeJournal` | the four tables and the functions that write them |
| `ExecutorCycle` | `run_executor_cycle` driving `Executor` in any number of processes, with crashes, operator and broker; extends the two above |
| `ExecutorSafety` | its invariants, action and liveness properties, the inductive invariant, and the refinement mapping |
| `PositionLedger` | the abstract promise: one entry order, one row, one recorded fill, one closing order for each candidate |
| `ExecutorProofs` | the inductive invariant proved, and what follows for one and for many processes |
| `LedgerProofs` | the proofs that relate the broker's book to the ledger: the refinement, and never closed past flat |
| `StrategyLifecycle` | `strategies`, `campaigns` and their logs, and every request that writes them: create, approve, reject, retire, promote, baseline, setup, campaign transitions, the migration |
| `LifecycleSafety` | its invariants and action properties |
| `CycleRows` | the cycle's selection of strategies, extending `StrategyLifecycle` |
| `LifecycleProofs` | the proofs about the two |
| `Supervisor` | the daemon, its workers, the command poller, `--once` and the operator, over `scheduler_runs` and `scheduler_commands` |
| `CommandQueue` | the abstract promise to the operator: commands are tried oldest first until they are settled |
| `SupervisorSafety`, `SupervisorProofs` | its properties and the refinement mapping; the proofs of all but liveness |
| `CostGuard` | `cost_tracking`, the month's projection and the trip |
| `ResearchJournal` | `candidates`, `signals`, `signal_candidates`, `audits` and their write functions |
| `ResearchPass` | the research processes over the two: passes, escalations, theses, proposals, post-mortems, mirrors |
| `ResearchSafety`, `ResearchProofs` | their properties; the proofs of all of them |
| `BacktestEngine`, `BacktestSafety`, `BacktestProofs` | `run_backtest` with the PEAD strategy, sizing and costs; its properties; the proofs of all of them |
| `EarningsCache` | the point-in-time table of earnings events |
| `BacktestReports` | rows of `backtest_reports`, windows, seeders, look-up of the baseline, verdicts; extends `EarningsCache` |
| `BacktestRequests` | the handlers that run backtests, side by side; extends `BacktestReports` |
| `ReportsSafety`, `ReportsProofs` | their properties; the proofs of all of them |
| `SumLemmas` | lemmas about sums over finite sets, Min and Max, for the proofs |
| `MC...` | instances for TLC |

### State and code: executor

`orders` maps a `client_order_id` to the broker's order (ticker, side, quantity,
filled quantity, whether it can still fill). A candidate has a side (`SideOf`),
as candidates.py:83 gives it one: its entry is submitted on that side
(cycle.py:198), its close on the `Opposite` one (executor.py:233). Prices are
left out: a unit costs one, so a recorded fill is also its exposure. `inflight`
are submit requests that have left the process and not reached the broker.
`trades` is the table in insertion order, so a row id is an index; `fill = 0` is
a NULL `fill_price`; `lots` and `dayTrades` count the rows of `wash_sale_lots`
and `pdt_daytrades` that refer to the trade. `disp` is `candidates.disposition`;
`today` the New York trading day. `sysMode` is the newest `system_mode` event,
`stage` is `strategies.state` with PAPER and LIVE as one. `pc[p]` says where
process `p` is, and `rows`, `row`, `exits`, `entries`, `held`, `pick`, `size`
are the locals of its cycle: the strategies, trades and candidates still to
process and the one in hand.

`WithData` is the set of candidates with `market_data` in their `context_json`,
and is given: the cycle asks for it (cycle.py:182-185) and nothing under src/
writes it (section 5). `Templated` are the strategies that
`_instantiate_strategy` can make.

A step runs from one point where another actor can get in to the next: a broker
call, a commit, a loop iteration. `StartCycle` is the policy evaluation and the
list of strategies (cycle.py:93-140); `TakeRow` is `check_exits`' query
(executor.py:186-191), `SkipRow` a row without a template (cycle.py:144-147);
`ExitSignal` or `HoldTrade` is one trade of its loop;
`SubmitClose`/`SubmitCloseRaised` and `JournalClose` are `_close_position`;
`ListAccepted`, `SkipCandidate`, `PickCandidate`, `EquityUnavailable`, `EndRow`
are the candidate loop; `ApproveEntry`, `RefuseEntry`, `EntryRaised` are
`enter_position` up to the order, `SubmitEntry`, `RecordTrade`, `RecordFill`,
`FillPollTimeout` the rest of it; `AbandonRow` is the per-strategy exception
handler. `Crash` forgets a process' locals and nothing else.

### State and code: lifecycle

A strategy's id is the name it was created under and a number of `_baseline`
suffixes. `strategies[id]` is its row (`state`, `campaign_id` as `camp`, NULL as
`None`) with its rows of `strategy_state_log`; `campaigns[c]` a campaign's state
and whether `started_at` is set. `filed` says that this month's review is filed,
`parity` which ids have a latest backtest report with a passing verdict.
`work[p]` is the request process `p` has in hand: `step` is where it is, `row`
and `camp` what it has read.

`Open...` is the arrival of a request, with the `init_journal` that every
connection starts with (`Migrate`). `Read` and `Write` are the two halves of
`transition_strategy` (strategies.py:66-75 and 77-91), `ReadCampaign` and
`WriteCampaign` of `transition_campaign`. `Peek` is `going_live` and `Gate` the
two gates of `promote_strategy` (dashboard/__init__.py:1613-1643). `Look` and
`InsertTwin` are the look-ups and the INSERT of `ensure_baseline`. Setup is
`SetupCampaign`, `SetupStrategy`, `Read`, `Write`, `Look`, `InsertTwin`,
`Attach`: the commits of `apply_initial_setup` in order. `Crash` drops the
request.

`CycleRows` adds the locals of a cycle (`listed`, `seen`, `rows`) and the set of
strategies with an open position. `ListCampaigns`, `ListAttached` and
`ListState` (for PAPER, then for LIVE) are cycle.py:119-138, `Process` stands
for all the executor does with a row.

### State and code: supervisor

`phase` is the daemon's life, `next[j]` APScheduler's `next_run_time` as far as
the code sets it ("cron": at its trigger, "now": after `run_now`, "paused"),
`inst[j]` the one instance a job may have in a worker thread, `once` the
`--once` process. `runs` and `cmds` are the two tables. `poll`, `batch`, `err`
are the poller's place, the rows it has read, and whether the command it applied
raised. `shared` says whether worker threads may use the connection that was
handed to `Supervisor`; both are considered, and `RunCmdSpec` is what `heron run`
does today. `BeginRun` and `FinishRun` are the two commits around a job
(supervisor.py:152-184), `BeginRunRaises`, `FinishRunRaises`, `Misfire` the ways
in which they do not happen. `OnceBegin` and `OnceFinish` are the same two of a
`--once` process, and `OnceCutOff` what comes between: it is killed, or
interrupted (`_invoke` catches `Exception`, and `KeyboardInterrupt` is none), or
the journal is locked at its end. `PollRead`, `PollApply`, `PollMark` and their
failures are `_consume_pending` row by row (:205-224), with the `except` of
`_poll_commands` around it. `applied` and `orphaned` are histories.

### State and code: research

`now` counts UTC days; `costs` is `cost_tracking` summed by month, a paid call
costing one unit. A finding is an article about one ticker as the local model
classified it. `me[p]` holds where a process is and the locals of its functions:
the findings still to go through (`todo`), the one in hand (`item`), the signal
(`sig`) and candidate (`cand`) it has made, the candidates to escalate (`new`)
and to sample (`samples`), and, after a paid call, the commits that still follow
(`plan`: write the score, log the cost, create, audit). `StartPass` and
`Generate` are the two budget checks and the dedup window of a pass
(orchestrator.py, candidates.py:37-75), `FindSignal` and `InsertSignal` the two
statements of `create_or_get_signal`, `MakeCandidate` and the link steps the
commits that follow (candidates.py:87-132), each with the exception that is
logged and passed over. `EscalateNext` and its samples are escalation.py:55-130;
a thesis, a proposal and a batch of post-mortems are the CLI's commands. A batch
takes the day's limit or the one given with `heron audit run --limit`
(audit.py:152, cli.py:902-909); `Limits` is what may be given, 0 being nothing.

### State and code: backtests

`BacktestEngine` is the loop over `all_dates` with its locals: `series` the bars
up to today, `open` and `trades`, `equity`, `curve`, `maxDd`. A day is
`CheckExits`, then an entry for each candidate, then the mark; `ForceClose` ends
the window. Bars and candidates of a day are chosen when the replay gets there,
which is every possible history. Money is in mils with quotients rounded down,
where the code keeps a fraction.

In the reports, dates are days counted from the first of some month, and a
replay is known by what it was given (`ran`: seeder, seed, window, override,
initial equity) and the candidates it traded. What a seed draws (`Surprise`),
what the objective makes of a run (`Merit`) and the equity a curve ends with
(`EndOf`) are constant operators; the children of a walk-forward begin with the
equity of the window before (walkforward.py:127). `job[p]` holds a handler's
locals: the combos still to run (`todo`), where the walk-forward stands (`cur`),
the row computed and not saved yet (`row`), the one saved and not tagged yet
(`saved`), the windows done (`kids`). `RunCombo`, `SaveResult`, `TagCombo` are
sweep.py:103-130, `RunWindow`, `SaveResult`, `TagWindow`, `Aggregate`
walkforward.py:119-260. In `EarningsCache` a time stamp keeps its day and the
order of an event's versions.

### Abstractions, and why they keep what matters

* Quotes, prices and strategy arithmetic decide only *whether* an entry is
  refused or an exit signalled, so those are nondeterministic. A refusal for any
  reason (stale quote, DERISK quantity of zero, money checks) is `RefuseEntry`,
  possible whatever the counted limits say.
* The sequence of reads in `pre_trade_checks` is one step. It contains no broker
  call; between its queries another process could write, so with two processes
  the model is slightly more orderly than the code there. `LimitsRespected`
  does not depend on it: each limit is read by one query, and what counts is how
  many processes are between that query and their insert. `SafeOnlyDrains` does
  not either, since the mode is one of these queries: it counts an entry whose
  checks have read another mode as under way.
* The journal's write functions are atomic. SQLite errors other than the UNIQUE
  violation are covered by `Crash`, which stops at the same commits.
* `days_held` counts 24-hour periods; the model counts calendar days, which
  lets an exit happen earlier than the code would, never later.
* One mode of trading: rows of `paper` and `live` do not mix.
* Candidates exist from the start as pending, on strategies that exist from the
  start as proposed.
* The two look-ups of `ensure_baseline` are one step, as are the queries of the
  campaigns' strategies one after the other: the only thing that could come
  between and matter is another INSERT of the same twin, which `InsertTwin`
  meets, or a state change between two campaigns' queries, which is the same as
  one before or after, since a strategy belongs to one campaign.
* `ensure_baseline` finds a twin by its name. A strategy that somebody creates by
  hand under the name `X_baseline` is not in the inputs.
* `file_review` has no caller outside the tests, so today the review gate never
  opens; `FileReview` is the journal function the gate was written for. It leaves
  out the decision because `is_review_current` does: a filed "no-go" opens the
  gate as well.
* RETIRED to PROPOSED, and RETIRED to DRAFT for campaigns, are in the tables but
  no handler or command asks for them.
* The supervisor's jobs are bodies that succeed or raise; what two of them do is
  `ExecutorCycle` and `ResearchPass`. APScheduler is external: of it is modelled
  only what the code asks for.
* In the research model prompts and answers are left out, but not whether an
  answer parses. A candidate 24 hours old counts as yesterday's or not.
* `run_strategy_backtest` trades every candidate its strategy screens: whether
  the engine enters it depends on prices, which `BacktestEngine` covers.
* The bootstrap of the parity verdict is a free choice, since it is not seeded
  (significance.py:22), except for equal curves, which never pass.
* A fetch of earnings is one transaction; two fetches at once are not modelled.
* The `initial_setup` event and the columns that only annotate (names, reasons,
  capital, tags) are left out.

## 3. Runs

Bounds are named constants in the cfg files.

| Run | Shows | Bounds |
|---|---|---|
| `exec_one` | one process, a long and a short candidate, an operator's DERISK so that a retry may come with another quantity: types, the position and daily limits kept exactly, no position closed past flat, one lot and one day-trade row per trade at most and none under a minimum hold | 2 candidates, 2 days, limits of 1 |
| `exec_two` | two processes over a short candidate, a busy operator, policies that go into SAFE and out of it: every row backed by its order, no more lots or day-trade rows for a trade than there are processes, one trade for each candidate, `PositionLedger` implemented, its chain exited <= asked <= recorded <= entered <= ordered kept, and under SAFE only what was under way goes through | 1 candidate, 2 days |
| `exec_live` | exits are not missed, beside a strategy without a template | 1 candidate, 2 strategies, 2 days |
| `life_rows` | one process, every request but the campaign forms, crashes anywhere, next to a cycle that lists its rows: types, nothing trades unapproved, no running strategy with a position is left out | 1 strategy and its twin, 2 campaigns |
| `life_two` | two processes approving, promoting, setting up, moving campaigns: the log tells the state by legal moves, twins share their campaign, one wizard builds | the same, and a third campaign from the desk form |
| `sup_all` | daemon, workers, poller, `--once`, crashes and locks, which may hit the `--once` process as well: types, the newest command rules, `CommandQueue` implemented, "running" is explained, commands are settled at last | 1 job, 2 commands, 2 runs, 1 lock, 2 crashes |
| `research` | two research processes: provenance sound and kept, no doubles by one process, overspend bounded, post-mortems limited, with the day's limit of 1 and a `--limit` of 2 | 2 findings, 2 candidates, 4 calls, ceiling 2, the last day of a month of 2 and the first of the next, 1 fault |
| `backtest` | a replay: losses within risk, leverage only after losses, holds bounded, positions and equity accounted for | 2 tickers, 4 days, 3 shapes of a bar, two positions of 49% |
| `reports` | two backtest handlers: earnings versions tile time, closed windows replay alike, families agree, windows tile, like never beats like | 3 reports, 2 seeds, 2 equities, 4 days, 1 restatement, 1 crash |
| `exec_latefill`, `sup_threads`, `real_replay` | the disagreements of section 5 that are findings | as above |

*Executor.* One or two candidates, strategies, processes and tickers, quantities
of 2 (1 under DERISK: the smallest with a partial fill), limits of one or two,
`MaxDay` of 2 (the smallest in which DAY orders expire and a minimum hold is
met). Crashes, retries, cycles and operator actions are not bounded. Two
processes compete for one candidate, one row, two order ids; a second candidate
shares nothing with the first but the counters, which `exec_one` exercises.
`LimitsRespected` and `SideTablesAgree` are about any number of processes: what
they bound grows with it, and with one process they are the limits and the one
row themselves. Two processes can both pass the check before either inserts its
row, and both can close the same trade in the journal (the broker closes once all
the same: `NeverPastFlat`); two open positions under a limit of one, and two lots
and two day-trade rows of one trade, are reached with two processes. SAFE comes
in `exec_two` with the policy verdict of either process, so also between the
other's checks and its order.

*Lifecycle.* One strategy name with one level of baseline (`MaxDepth` = 1), the
setup's campaign and the default one. `Ops` is the set of requests of a run and
`Reported` the ids that get backtest reports. One name is enough because rows of
different names share nothing but their campaign. Requests, crashes and page
loads are not bounded: the transition tables have no cycle that a request can
take, except pausing and resuming a campaign, so the logs are finite.
That every transition is valid, and every promotion to LIVE gated, is not among
the properties: with two processes, which the code allows, neither is true
(section 5). What is left of the first is part of `LogTellsState`: each entry of
the log is a legal move from a state that the strategy has been in, perhaps not
the one it is in. `RunningPositionsAreListed` is stated with one
process handling requests next to the cycle; with two, an overwritten RETIRED
could make a strategy run again behind the listing.

*Supervisor.* Two commands are the smallest number with an order, one job keeps
both on the same row of the job table, and a command for no job (`UnknownJob`)
is the one that raises. Jobs share nothing but the tables. Two crashes allow a
restart within a restart. `sup_threads` has `~shared`.

*Research.* `Divisions` names the pairs worth considering: two passes, and a
pass against each of the others; two findings on two tickers, for a strategy
with a campaign and one without. Behaviours begin on the last day of a month of
two days and end on the first of the next, so that the month's sum starts over
behind a projection; the ceiling of two is reached by escalation as well as by
projection. `Limits` has the plain command and a `--limit` above the day's, so
that a batch of two is paid for behind one look at the budget.

*Backtests.* Three bars (quiet, a fall through any stop, a spike through a
target) with gaps of any length, and candidates on any day, in a window of four
days: long enough for a warm-up, an entry, a time exit and a second entry. Two
positions may take up nearly all of the equity (49% each), so that one which falls
through its stop and is entered again, while the other has no bar, does make them
cost more than what is left: the condition of `OnlyLossesLeverage` decides.
The calendar of the reports has months of two to four days, so that a plan that
starts on the third meets a month without one; an event on the second day with
two surprises, one of which only the lower threshold takes. Single runs of the
baseline may come with another seed or another initial equity than the
strategy's.

`exec_two` and `life_two` use the symmetry of the two processes; no liveness is
checked with symmetry.
`CHECK_DEADLOCK FALSE` stands where the bounds (calls, reports, days) let the
system run out of work.

### Fairness

*Supervisor.* `FairSpec` makes the poller's steps weakly fair: it is a thread of
the daemon with a loop of its own (supervisor.py:193-203), and a locked journal
does not stay locked (`MaxFaults`). Nothing is assumed of the scheduler or the
operator; a daemon that goes down keeps its commands for the next one, so
`CommandsAreSettled` lets the daemon's end discharge it.

*Executor.* `Step(p)` is weakly fair: the scheduler fires the cycle every five
minutes (supervisor.py:43-45) and a running cycle runs on. This is an assumption
about whoever runs the cycle. As the code stands, the scheduler's worker threads
use a connection that the main thread opened (`get_journal_conn`,
journal/__init__.py:432, keeps sqlite3's default `check_same_thread`), so a job
fails when it writes its `scheduler_runs` row (supervisor.py:163), and the
cycles that do run are those started with `heron run --once executor_cycle`,
again and again. The safety properties do not depend on it. The strong fairness
of the steps from `StartCycle` to `JournalClose` says that a crash, a stale
quote, a lost answer or an exception does not come back for ever at the same
trade; without that no retrying program makes progress. Nothing of the kind is
assumed of entries, about which no liveness is claimed. Nothing is assumed of
the operator, and the broker's fills are fair only in `FillingSpec`, which
`exec_latefill` uses so that its property is not refuted by an idle market.
`ExitsAreNotMissed` excepts strategies that are no longer PAPER or LIVE, because
the cycle then never looks at their positions (a hazard of its own).

## 4. Proofs

### Executor

`ExecutorProofs` proves, for every number of processes, candidates, strategies
and tickers, every limit and every mode set:

* `TypeCorrect`: `Spec => []TypeOK`
* `NoDoubleEntry`: `Spec => []OneTradePerCandidate`
* `JournalIsBacked`: `Spec => []JournalBacked`

from `Inductive`: `Spec => []IInv`. None of the properties is inductive alone.
That a recorded fill never exceeds the order's needs to know that only the
process that inserted the row records it (`FillersDistinct`), and that its
candidate in hand is the row's (`ProcessesSound`). That a closed row has an
order of the other side for exactly its fill needs that every request, in the
book or on the wire, is on its candidate's side or closes the fill of a trade on
the other (`OrdersSound`), and that a fill
once recorded does not change, which again is `FillersDistinct` with the
`fill = 0` of a process that is about to record. `OneTradePerCandidate` follows
because a row's order id is its candidate's (`RowsSound`) and the insert refuses
a taken id.

The proof has one lemma for each group of actions. `ProcessStep` carries the
actions that change neither table: it is enough that what the stepping process
holds afterwards is sound. `BookStep`, `PlaceOrder` and `SubmitStep` carry those
that change the book: orders are never removed and a taken id is never
overwritten. Assumptions are the named ones in `TradeJournal` and
`ExecutorCycle`: the candidate's strategy and ticker are functions, quantities
and limits are naturals, and there are finitely many processes, one at least.

Two more say what is left of a check when several processes make it at once:

* `EntriesStayLimited`: `Spec => []LimitsRespected`: open positions and the
  day's entries exceed their limits by less than the number of processes
* `SideTablesStayBounded`: `Spec => []SideTablesAgree`: a trade has at most as
  many lots and day-trade rows as there are processes, and no day-trade row
  under a minimum hold

They follow from `RaceInv`, next to `IInv`. For the limits it counts the
processes between their check and their insert (`Entering`) together with the
rows: a check that passes adds one to the first under the limit, an insert moves
one from the first to the second, and nobody else adds anything, so the sum
stays below limit plus processes (`RoomLeft`). For a close it counts the
processes that hold the trade as open (`ClosesTrade`, `Holders`): a trade that
is closed is listed no more, so each process adds its row once. Counting needs
the library's facts about cardinalities; the lemmas `Race...` take the actions by
what they do to these sets. With one process both are what the code intends.

And one is about a step, again for any number of processes:

* `SafeDrainsEntries`: `Spec => SafeOnlyDrains`: while the mode is SAFE no entry
  comes under way that was not

Whoever sets the mode, the one step that brings a process in front of an entry's
submission is `ApproveEntry`, which wants the mode not to be SAFE. A submission
(`DrainSubmit`) and the broker (`DrainBroker`) only take the same entry on, from
the process to the wire and into the book; every other step adds no order and
puts nobody in front of one (`DrainQuiet`, `OthersTouchNoOrder`).

### The ledger

`LedgerProofs` proves, for the same constants:

* `LedgerIsImplemented`: `Spec => ImplementsLedger`, the refinement
* `NothingUncoveredIsClosed`: `Spec => []PositionsCovered`
* `NeverClosedPastFlat`: `Spec => []NeverPastFlat`

`BookStaysFit` adds to `IInv` that orders and requests on the wire have the
ticker, side and quantity of the candidate or trade their id is made from
(`BookFits`). Each step then changes the position of at most one candidate, by
one of the ledger's operations. The lemmas take the steps by what they do to the
book and the table (an order placed, filled, dropped; a row inserted, filled,
closed) and not by the action they come from; a crash and the locals of a
process do not move a position at all. `NeverClosedPastFlat` is about totals, of
a ticker and a side: each closing order belongs to the one entry order of the
same candidate, on the other side, which has been filled at least as far, so the
sum over the ones is at most the sum over the others. `SumLemmas` proves what
that needs of `MapThenSumSet`. The sum is a recursive function over subsets, and
the library's induction theorems cannot be instantiated here (see below), so
each lemma takes a smallest set for which it would fail.

### Lifecycle

`LifecycleProofs` proves, for every number of processes, strategies, campaigns
and levels of baselines, and every choice of requests:

* `TypeCorrect`: `Spec => []TypeOK` (and that a step is reached only by requests
  it belongs to)
* `LogIsTheTruth`: `Spec => []LogTellsState`, legal moves included
* `TwinsStayTogether`: `Spec => []TwinSharesCampaign`
* `OperatorDecides`: `Spec => []ApprovedBeforeTrading`
* `CycleTradesApproved`: `RowsSpec => []NothingProposedTrades`

Each step of the lifecycle changes one row or, in the back-fill, only the
campaign column; the lemma `StrategyWrite` says so once, and the later proofs
split on its cases instead of on the actions. The log needs what a transition
knows between its read and its write (`WritesKnow`): the state it read is the
row's, or one that the log names meanwhile, since whoever overwrote the row has
written where it came from and where it went (`SeenStays`). The twin's campaign
needs a strengthening (`CampInv`): a request that has read the parent for its
twin still knows the parent's campaign up to back-fill, and the setup's own
strategies are in `first_paper`. Comparing campaigns after back-fill (`Home`) is
what makes it inductive, since the migration may come between the read and the
INSERT. `OperatorDecides` needs that a request about to write a running state
over an earlier one, and one about to copy its parent's state, has an approval
in the log behind it (`ApprovalInv`); logs only grow. `CycleTradesApproved`
needs only that no row ever returns to PROPOSED: every target of a handler is
another state.

* `OneWizardBuilds`: `Spec => []SetupIsExclusive`, for any number of wizards
* `OneProcessDropsNoPosition`: `RowsSpec => RunningPositionsAreListed`

The first needs that a wizard past its first commit has created `first_paper`
(`SetupInv`), which the emptiness check of every other then sees. The second has
the hypothesis `Procs = {p}`: with one process the state a request has read is
still the row's (`AloneInv`), since a back-fill moves the campaign only. It also
needs what the cycle has seen while its listings go on (`ListingInv`), and that no
approved strategy comes back to PAPER.

### Supervisor

`SupervisorProofs` proves, for every number of jobs, commands, runs, locks and
crashes:

* `TypeCorrect`: `Spec => []TypeOK`
* `CommandsInOrder`: `Spec => []SettledInOrder`
* `NewestCommandWins`: `Spec => []NewestCommandRules`
* `RunningRowsExplained`: `Spec => []RunningIsExplained`
* `QueueIsImplemented`: `Spec => ImplementsQueue`, the refinement of
  `CommandQueue`

The rows need `RowsExist` (an instance that runs has its row); the reasons for a
row to stay on "running" are the crashes, the locked journal and what cuts a
`--once` process off. For the commands
neither property is inductive. What carries them is that the poller's batch is
the oldest part of what waits (`BatchIsOldest`: a command that comes later is
newer than all of it) and that nothing older than an applied command waits
(`AppliedIsOldest`): then the command whose turn it is is at least as new as
every command applied so far, the ones applied for a second time included, and
what it does to the job is the newest word on it. A start registers every job
anew and forgets what was applied (`FreshJobs`). `CommandsUntouched` and
`CommandsForgotten` carry the steps that do not notice commands or drop them
all; the two steps with content are `ApplyCommands` and `MarkCommands`.

The refinement maps a job to paused when its `next_run_time` is, and the oldest
command to tried between its apply and its mark. Then `PollApply` is the queue's
`Apply`, `PollApplyRaises` its `Refuse`, `PollMark` its `Settle`; a lock, a stop
or a crash between apply and mark is `GiveUp`, a launch `Restart`, and reading a
batch, running jobs and starting are no steps of the queue. It rests on the same
`BatchIsOldest`, which makes the command in turn the queue's oldest one, and on
`PollerIsUp`: a launch finds no poller half way. `SettledInOrder` says in one
invariant what the queue says step by step.

### Research

`ResearchProofs` proves, for every set of processes and division of the work
among them, every budget, daily limit, set of `--limit`s and number of findings:

* `TypeCorrect`: `Spec => []TypeOK`, with what a process holds at each step
* `SignalsMatchCandidates`: `Spec => []ProvenanceSound`
* `SignalsAreKept`: `Spec => []ProvenanceKept`
* `NoProcessDoubles`: `Spec => []NoDoublesPerProcess`
* `PostMortemsStayLimited`: `Spec => []PostMortemsLimited`
* `OverspendIsBounded`: `Spec => []OverspendBounded`

Each is about the time between a read and the commit that relies on it, and is
inductive only with what the process holds in that time. The signal in hand was
made from the finding in hand (`Holds`). A process about to create has not
created the same today (`Fresh`; it may hold one thing at a time, and no other
process writes its rows). A batch of post-mortems has no more to examine than
the largest limit in use leaves, and nothing it has examined (`BatchInv`); the
bound on the overspend is as large, since a batch looks at the budget once. For
the budget the sum of what all processes may still pay for without asking again
(`Owed`) is part of the invariant: the check makes room for what it adds, and a
charge moves one unit from the sum to the month's cost. A new month starts with
a cost of zero.

### Backtest requests and the earnings cache

`ReportsProofs` proves, for any finite set of handlers and every calendar, plan,
provider and number of reports:

* `FamiliesStayTogether`: `Spec => []FamiliesAgree`
* `VersionsStayTiled`: `Spec => []VersionsTile`
* `ReplaysStayRepeatable`: `Spec => []ReplaysAreRepeatable`
* `NoVerdictOnACopy`: `Spec => []LikeNeverBeatsLike`
* `WindowsStayTiled`: `Spec => []WindowsTile`

`FamiliesAgree` says nothing of a walk-forward on its way. `FamiliesInv` adds
that handlers have ids of their own (`Apart`), that the rows with a handler's id
are the ones it collected (`Family`), and that a saved row is untagged until it
is tagged. A batch of a fetch is a fold over events; the proof shows that the
fold keeps the table in order from one event to the next (`CacheInv`), and that
no fetch changes what a look-up as of a day gone by finds (`PastStays`). From
that follows that a run over a window that was over would find the same today,
and so that two runs with the same inputs (seeder, seed, window, override,
initial equity) have the same curve, which no verdict prefers. For the windows
the plan's start must be on a day every month has (`Regular`, which also asks
for a step no shorter than the test): `WindowsTile` is stated for those, and the
29th to 31st are in section 5. The calendar lemmas (`OnCalendar`,
`StartOnCalendar`) say that adding months then stays on that day and is
monotone. Assumptions: `CalendarAssumption` (months follow each other),
`DaysAssumption` (no day is the number that stands for NULL).

### The replay

`BacktestProofs` proves, for any tickers, bars, candidates and parameters:

* `LossesStayWithinRisk`: `Spec => []LossWithinRisk`
* `HoldsStayBounded`: `Spec => []HoldsAreBounded`
* `EveryPositionIsAccounted`: `Spec => PositionsAccounted`
* `LossesAloneLeverage`: `Spec => []OnlyLossesLeverage`
* `LeverageNeedsLosses`: `Spec => [](SizedWithin(m) => NotLeveraged)`, for every
  whole number m with `MaxPositions * MaxCapitalPct * 1001 <= 1000 * m`

from `ReplayIsSound`: `Spec => []ReplayInv`. The realized equity is the sum of
the trades' nets (`BookInv`). A ticker's trades are older than the position it
has (`DatesInv`), so a closing is a trade that was not there and the sum grows
by exactly it. A position was sized with the equity of its entry day: `EquityAt`
adds up the trades closed until then, and leaves out the forced closings, which
come behind the last day's entries. An exit at the stop loses the distance to
it, and a close that the day's exits leave standing is no further from the entry
(`SizeInv`); slippage and fees are bounded by arithmetic on quotients
(`SlipGrows`, `FeeGrows`, `LossOf`). After the day's exits nothing is older than
the longest hold (`YoungInv`). `LeverageNeedsLosses` is about the sum of what
the open positions cost. Each was capped at `MaxCapitalPct` of the equity of its
entry, and there are at most `MaxPositions` of them; so when none was sized with
more than 100/m times today's equity (`SizedWithin`), together they cost no more
than it, the slippage of a tenth of a percent included. `LossesAloneLeverage` is
that for one such m, `Cover`, which the limits decide. With the defaults of the
code, three positions of 15%, it is 46: a replay is leveraged only after more
than half of the equity that sized an open position is lost. That it is never
leveraged is not true of every parameter: nothing in the code relates the sum of
the caps to the equity, and the equity may shrink while a ticker without bars is
held on. The sum is over a finite set of positions, by `TotalAtMost` of
`SumLemmas`. `EngineAssumption` types the parameters and says that a bar's close
is between its low and its high.

### What stays with TLC

* Liveness: `ExitsAreNotMissed`, `CommandsAreSettled`. The provers have neither
  fairness with ENABLED nor well-founded arguments over time.
* The three disagreements, which are violations.

Induction over data is out of reach as well: the library's induction theorems
take an operator as a parameter, which none of the provers used here can
instantiate. Where a proof needed induction over a finite set it uses a smallest
counterexample instead, as above.

## 5. Where code and documents disagree

Each of these has a run in which TLC finds the violation:

1. `LateFillIsRecorded` (executor.py:190, `exec_latefill`). The comments at
   executor.py:25 and :160 leave a late fill to the reconciler; the reconciler
   only logs. Cycles start at 09:00 and the market opens at 09:30, so an entry
   before the open does not fill within three seconds.
2. `ScheduledRunsAreJournaled` (supervisor.py:143, `sup_threads`). The journal
   connection of `heron run` is opened by its main thread with sqlite3's default
   `check_same_thread` (journal/__init__.py:432-440) and used by worker threads:
   every scheduled job fails before it runs.
3. `FetchedEventsAreFound` (backtest/runner.py:91, `real_replay`). Events are
   stamped with the time of their fetch, and a replay reads what was known at the
   end of its window: history fetched after the fact is never found, though
   runner.py:110-113 asks for exactly that fetch.

These follow from the models or from reading the code for them, and have no run
of their own. Executor, cycle and lifecycle:

* No side is checked on the way from a finding to an order: a bearish finding
  makes a "sell" candidate (candidates.py:83), which is entered as such
  (cycle.py:198) and opens a short. Project-HERON-v4.md:394 says "No shorting,
  options, or leveraged products." The model has these entries (`SideOf`), and
  every property of it is about both sides.
* Nothing under src/ writes `market_data` into a candidate's `context_json`
  (candidates.py:252-264), which the cycle requires (cycle.py:182-185): as it is,
  no accepted candidate is entered. The model is given the candidates that have
  it.
* Strategies that the proposer makes have no template (proposer.py:128), and the
  cycle passes over them unless their id starts with "pead" (cycle.py:144-147):
  their accepted candidates are never decided, and a position of theirs would
  not be watched.
* A closing order that does not fill is journaled as a close at the quoted price,
  and nothing closes the position again (executor.py:246; cycle.py:149 "never
  miss a stop").
* Orders not yet filled count as no exposure (risk.py:85).
* An order whose attempt was lost is stranded when the retry is refused: the
  candidate becomes rejected (cycle.py:210), though executor.py:100 calls an
  entry with a candidate id retry-safe.
* The cycle resolves the mode with `prior_mode="NORMAL"` (cycle.py:106), so an
  operator's stricter override is replaced within five minutes (policy.py:78).
* A retired strategy's open positions are in no listing and checked by nobody;
  strategies of paused campaigns are listed (cycle.py:133).
* LIVE strategies trade in the cycle's own mode (cycle.py:204); executor.py:57
  says the mode should match the strategy's state.
* With two processes a transition validated against the state read before
  overwrites a newer one (strategies.py:84): reject and approve together leave a
  RETIRED strategy in PAPER; a promotion that saw its strategy PROPOSED skips
  the parity gate (dashboard/__init__.py:1614).
* A crash between `approve_strategy`'s transition and `ensure_baseline`
  (dashboard/__init__.py:1577), or a baseline created while its parent was
  PROPOSED (baseline.py:30), leaves a paper strategy without a running twin. A
  baseline becomes LIVE when it is promoted by its id or created for a LIVE
  parent (baseline.py:49); Project-HERON-v3.md:74 keeps it on paper.
* A setup that failed behind its first commit is refused for ever (setup.py:113,
  against :109-110).
* A filed review opens the gate whatever its decision (ops.py:100), and nothing
  but the tests files one.
* The day-trade window is counted in calendar days (trades.py:222).

Supervisor:

* `run_now` resumes a paused job (supervisor.py:231); a pause is lost at every
  restart; commands read before a stop are marked as errors.
* A `--once` process that is killed or interrupted leaves its row on "running"
  (supervisor.py:152-161), and nothing looks at such rows again.
* `heron run` calls `preflight` without a broker (cli.py:1534), so the drift it
  blocks on (preflight.py:3-6) is always empty.

Research:

* An answer that does not parse is paid for and not logged, in `write_thesis`
  (thesis.py:95) and `propose_strategy`; the budget bounds what is logged.
* The debrief pays for a call that is neither checked against the budget nor
  logged (alerts/debrief.py:113).
* `heron audit run --limit N` goes beyond the day's limit of post-mortems, with N
  calls behind one look at the budget (audit.py:152, cli.py:902-909).
* Two passes of one strategy can both create a candidate or a signal
  (candidates.py:54, signals.py:54). `mirror_candidate_to_baseline` has no caller,
  and mirrors again once its mirror is decided (baseline.py:74).

Backtests and data:

* Every replay runs with `is_llm_variant=False` (runner.py:132) and a baseline
  copies its parent's config: a strategy and its twin replay identically.
  The gate looks at the newest report of any kind (parity.py:60-65), so a sweep's
  child can open or shut it, and `reparity` draws a new bootstrap each time.
* A walk-forward that starts on the 29th to 31st has windows that overlap or leave
  days out (walkforward.py:50), its parent is always saved as uncontaminated
  (:243), and a sweep over thresholds below 5 changes nothing (runner.py:63).
* The engine drops a position whose ticker has no bar on the last date
  (engine.py:191), enters at a stale close on a day without a bar (:151), and
  takes announcements after the close at that day's close (seeders.py:74-86).
* Two earnings fetches at once can both insert a current row (earnings.py:139).
  `fetch_bars` looks only at the newest cached bar (alpaca_market.py:33).

## 6. Not modelled, and what is left

Not modelled: the statistics of the reports, the bootstrap and the regimes
(floating point); fetching and parsing of bars and news, secrets hygiene, alerts
and debrief, configuration and logging (input and output that nothing reads
back); page rendering and argument parsing; `portfolio.py`, templates, live
mode next to paper.

Left, in order of what would hurt most:

1. `SystemMode`: rule verdicts, operator overrides and the cycle's replacement
   of them.
2. `StartupAudit` composed with `ExecutorCycle`: which drift the audit reports.
3. Pure operators against reference definitions: the day-trade and wash-sale
   windows, the portfolio allocator.
4. Theorems: the invariants of the modules above once they are written, and a
   bound on the window under which `SizedWithin` holds. Every other safety
   property of a passing run is proved.
