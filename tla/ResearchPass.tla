----------------------------- MODULE ResearchPass ----------------------------
(***************************************************************************)
(* The research layer's processes over the budget and the journal: a       *)
(* research pass (orchestrator.py, candidates.py, escalation.py), started  *)
(* by the scheduler, the dashboard's background thread or the CLI; a       *)
(* thesis, a strategy proposal and a batch of post-mortems from the CLI    *)
(* (thesis.py, proposer.py, audit.py); and mirror_candidate_to_baseline    *)
(* (strategy/baseline.py).  Nothing locks any of them out of another.      *)
(*                                                                         *)
(* A step is the code between two journal commits or calls to a model.     *)
(* Ids are taken lowest first where the code loops over a list of them.    *)
(***************************************************************************)
EXTENDS CostGuard, ResearchJournal

CONSTANTS
  Procs,
  Divisions,    \* the cases to consider: what each process is used for, and
                \* the strategies it runs passes on
  TwinOf,       \* the baseline of a strategy
  Losers,       \* ids of losing trades with a candidate, by closing time
  PreCutoff,    \* those older than the model's knowledge cutoff
  DailyLimit,   \* POST_MORTEM_DAILY_LIMIT
  Limits,       \* what `heron audit run --limit` is given, 0 when it is not
  MaxCands,     \* bound: candidates
  MaxCalls,     \* bound: paid calls
  MaxFaults     \* bound: exceptions and crashes

TaskNames == {"pass", "escalate", "thesis", "proposal", "postmortem", "mirror"}

ASSUME DivisionsAssumption ==
  Divisions \subseteq [Procs -> [does : SUBSET TaskNames, on : SUBSET Strategies]]
ASSUME ProcsAssumption == IsFiniteSet(Procs)
ASSUME TwinAssumption == \A s \in DOMAIN TwinOf : TwinOf[s] \in Strategies
ASSUME LosersAssumption ==
  Losers \subseteq Nat /\ IsFiniteSet(Losers) /\ PreCutoff \subseteq Losers
ASSUME LimitAssumption ==
  /\ DailyLimit \in Nat
  /\ Limits \subseteq Nat /\ IsFiniteSet(Limits) /\ 0 \in Limits
  /\ MaxCands \in Nat /\ MaxCalls \in Nat /\ MaxFaults \in Nat

VARIABLES
  me,        \* what each process is doing and holds
  duty,      \* what each process is used for
  paid,      \* history: calls the provider has charged
  faults,    \* history: exceptions and crashes
  severed    \* history: candidates whose link failed or was cut off

vars == <<budgetVars, researchTables, me, duty, paid, faults, severed>>

Resting == [at |-> "idle", task |-> "none", strat |-> NoCampaign, todo |-> {},
            new |-> {}, item |-> NoCampaign, sig |-> 0, cand |-> 0, samples |-> {}, plan |-> << >>]

Init ==
  /\ BudgetInit
  /\ ResearchTablesInit
  /\ me = [p \in Procs |-> Resting]
  /\ duty \in Divisions
  /\ paid = 0
  /\ faults = 0
  /\ severed = {}

At(p, where) == me[p].at = where

Become(p, state) == me' = [me EXCEPT ![p] = state]
Goto(p, where) == Become(p, [me[p] EXCEPT !.at = where])
Rest(p) == Become(p, Resting)

(* Back to the loop of a pass: what the item left in locals is not read    *)
(* again.                                                                  *)
ToNextItem(p) ==
  Become(p, [me[p] EXCEPT !.at = "item", !.item = NoCampaign, !.sig = 0, !.cand = 0])

Free(p, task) == At(p, "idle") /\ task \in duty[p].does

Lowest(ids) == CHOOSE i \in ids : \A k \in ids : i <= k

history == <<duty, paid, faults>>
tableVars == <<budgetVars, researchTables, history, severed>>

Fault == faults < MaxFaults /\ faults' = faults + 1

-----------------------------------------------------------------------------
(* ResearchPass.run and generate_candidates.                               *)

StartPass(p, s) ==
  /\ Free(p, "pass")
  /\ Allowed
  /\ Become(p, [Resting EXCEPT !.at = "fetched", !.task = "pass", !.strat = s])
  /\ UNCHANGED tableVars

(* Candidates that count as recent: pending and less than 24 hours old;    *)
(* yesterday's may be either side of the line.                             *)
Recent(s) ==
  {{c \in PendingOf(s) : cands[c].born >= now},
   {c \in PendingOf(s) : cands[c].born >= now - 1}}

(* Mutant: no look at what is there already. *)
GenerateBlind(p) ==
  /\ At(p, "fetched")
  /\ Allowed
  /\ \E fs \in SUBSET Findings :
       Become(p, [me[p] EXCEPT !.at = "item", !.todo = fs])
  /\ UNCHANGED tableVars

(* News fetched and classified, minutes later: the budget once more, and   *)
(* the relevant findings whose ticker has no recent candidate.             *)
Generate(p) ==
  /\ At(p, "fetched")
  /\ Allowed
  /\ \E fs \in SUBSET Findings, recent \in Recent(me[p].strat) :
       LET seen == {TickerOfCand(c) : c \in recent}
       IN  Become(p, [me[p] EXCEPT !.at = "item",
                                   !.todo = {f \in fs : TickerOf[f] \notin seen}])
  /\ UNCHANGED tableVars

(* No news, an error, or the budget tripped meanwhile. *)
PassEnds(p) ==
  /\ At(p, "fetched")
  /\ Rest(p)
  /\ UNCHANGED tableVars

Wanted(p, f) == At(p, "item") /\ f \in me[p].todo

Take(p, f) == [me[p] EXCEPT !.todo = @ \ {f}, !.item = f]

(* No campaign, no signal. *)
TakeItem(p, f) ==
  /\ Wanted(p, f)
  /\ CampaignOf[me[p].strat] = NoCampaign
  /\ Become(p, [Take(p, f) EXCEPT !.at = "create"])
  /\ UNCHANGED tableVars

(* Mutant: what the look-up finds is not returned. *)
FindSignalForgets(p, f) ==
  LET ids == Matching(CampaignOf[me[p].strat], f)
  IN  /\ Wanted(p, f)
      /\ CampaignOf[me[p].strat] # NoCampaign
      /\ Become(p, [Take(p, f) EXCEPT !.at = IF ids = {} THEN "insert" ELSE "create"])
      /\ UNCHANGED tableVars

(* create_or_get_signal, the look-up. *)
FindSignal(p, f) ==
  LET ids == Matching(CampaignOf[me[p].strat], f)
  IN  /\ Wanted(p, f)
      /\ CampaignOf[me[p].strat] # NoCampaign
      /\ Become(p, IF ids = {} THEN [Take(p, f) EXCEPT !.at = "insert"]
                   ELSE [Take(p, f) EXCEPT !.at = "create", !.sig = Newest(ids)])
      /\ UNCHANGED tableVars

(* create_or_get_signal, the insert. *)
InsertSignal(p) ==
  /\ At(p, "insert")
  /\ CreateSignal(CampaignOf[me[p].strat], me[p].item, p)
  /\ Become(p, [me[p] EXCEPT !.at = "create", !.sig = Len(signals) + 1])
  /\ UNCHANGED <<budgetVars, cands, links, audits, history, severed>>

(* create_or_get_signal raises: a warning, and the candidate is made       *)
(* without a signal.                                                       *)
SignalRaises(p) ==
  /\ At(p, "insert")
  /\ Goto(p, "bare")
  /\ Fault
  /\ UNCHANGED <<budgetVars, researchTables, duty, paid, severed>>

(* The findings left on the ticker are passed over from here on. *)
MakeCandidate(p) ==
  LET c == Len(cands) + 1
      made == [me[p] EXCEPT !.new = @ \cup {c},
                            !.todo = {f \in @ : TickerOf[f] # TickerOf[me[p].item]}]
  IN  /\ At(p, "create") \/ At(p, "bare")
      /\ Len(cands) < MaxCands
      /\ CreateCandidate(me[p].strat, me[p].item, now, p)
      /\ IF me[p].sig # 0
         THEN /\ Become(p, [made EXCEPT !.at = "link", !.cand = c])
              /\ UNCHANGED severed
         ELSE /\ Become(p, [made EXCEPT !.at = "item", !.item = NoCampaign])
              /\ severed' = IF At(p, "bare") THEN severed \cup {c} ELSE severed
      /\ UNCHANGED <<budgetVars, signals, links, audits, history>>

LinkCandidate(p) ==
  /\ At(p, "link")
  /\ Linkable(me[p].sig, me[p].cand)
  /\ Link(me[p].sig, me[p].cand, "research")
  /\ ToNextItem(p)
  /\ UNCHANGED <<budgetVars, cands, signals, audits, history, severed>>

LinkRaises(p) ==
  /\ At(p, "link")
  /\ ToNextItem(p)
  /\ severed' = severed \cup {me[p].cand}
  /\ Fault
  /\ UNCHANGED <<budgetVars, researchTables, duty, paid>>

(* The list is through. *)
PassDone(p) ==
  /\ At(p, "item")
  /\ me[p].todo = {}
  /\ Rest(p)
  /\ UNCHANGED tableVars

-----------------------------------------------------------------------------
(* escalate_candidates: theses for the high scores, a sample of the rest.  *)

High(ids) == {c \in ids : cands[c].finding \in HighScore}

(* With the escalate flag, an API key and new candidates; a tripped budget *)
(* ends the pass.                                                          *)
Escalate(p) ==
  /\ At(p, "item")
  /\ me[p].todo = {}
  /\ me[p].new # {}
  /\ "escalate" \in duty[p].does
  /\ Allowed
  /\ \E sample \in SUBSET (me[p].new \ High(me[p].new)) :
       Become(p, [Resting EXCEPT !.at = "escalating", !.task = "pass",
                                 !.new = High(me[p].new), !.samples = sample])
  /\ UNCHANGED tableVars

(* Mutant: the budget is not asked between two calls. *)
EscalateNextUnchecked(p) ==
  /\ At(p, "escalating")
  /\ me[p].new \cup me[p].samples # {}
  /\ Become(p, IF me[p].new # {}
               THEN [me[p] EXCEPT !.at = "thesis", !.cand = Lowest(me[p].new),
                                  !.new = @ \ {Lowest(me[p].new)}]
               ELSE [me[p] EXCEPT !.at = "sampling", !.cand = Lowest(me[p].samples),
                                  !.samples = @ \ {Lowest(me[p].samples)}])
  /\ UNCHANGED tableVars

(* The next thesis, then the next sample, each behind a look at the budget.*)
EscalateNext(p) ==
  /\ At(p, "escalating")
  /\ me[p].new \cup me[p].samples # {}
  /\ Allowed
  /\ Become(p, IF me[p].new # {}
               THEN [me[p] EXCEPT !.at = "thesis", !.cand = Lowest(me[p].new),
                                  !.new = @ \ {Lowest(me[p].new)}]
               ELSE [me[p] EXCEPT !.at = "sampling", !.cand = Lowest(me[p].samples),
                                  !.samples = @ \ {Lowest(me[p].samples)}])
  /\ UNCHANGED tableVars

EscalateEnds(p) ==
  /\ At(p, "escalating")
  /\ me[p].new \cup me[p].samples = {} \/ ~Allowed
  /\ Rest(p)
  /\ UNCHANGED tableVars

-----------------------------------------------------------------------------
(* Paid calls: what each of the four does once the answer is there.        *)

(* `heron research thesis`. *)
StartThesis(p, c) ==
  /\ Free(p, "thesis")
  /\ Allowed
  /\ Become(p, [Resting EXCEPT !.at = "thesis", !.task = "thesis", !.cand = c])
  /\ UNCHANGED tableVars

(* propose_strategy, which also stops at a daily limit. *)
StartProposal(p) ==
  /\ Free(p, "proposal")
  /\ Allowed
  /\ Become(p, [Resting EXCEPT !.at = "proposing", !.task = "proposal"])
  /\ UNCHANGED tableVars

Calling == {"thesis", "proposing", "sampling", "mortem"}

(* What follows a paid answer that parses, in the order of the commits.    *)
Plan(call) ==
  CASE call = "thesis"    -> <<"score", "log">>
    [] call = "proposing" -> <<"create", "log">>
    [] call = "sampling"  -> <<"log", "audit">>
    [] call = "mortem"    -> <<"audit", "log">>

(* A sample that does not parse is logged, not audited; a post-mortem is   *)
(* both, with the answer taken as {}; a thesis or a proposal that does not *)
(* parse, and a proposal that is refused, is paid and not logged.          *)
PlanUnparsed(call) ==
  CASE call = "sampling" -> <<"log">>
    [] call = "mortem"   -> Plan(call)
    [] OTHER             -> << >>

AfterCall(p) ==
  CASE me[p].task = "pass"       -> "escalating"
    [] me[p].task = "postmortem" -> "batch"
    [] OTHER                     -> "idle"

Continue(p, plan) ==
  IF plan # << >> THEN Become(p, [me[p] EXCEPT !.at = "answered", !.plan = plan])
  ELSE IF AfterCall(p) = "idle" THEN Rest(p)
  ELSE Become(p, [me[p] EXCEPT !.at = AfterCall(p), !.cand = 0, !.plan = << >>])

CallAnswered(p) ==
  /\ me[p].at \in Calling
  /\ paid < MaxCalls
  /\ paid' = paid + 1
  /\ \E plan \in {Plan(me[p].at), PlanUnparsed(me[p].at)} : Continue(p, plan)
  /\ UNCHANGED <<budgetVars, researchTables, duty, faults, severed>>

(* No answer, no charge: the caller goes on. *)
CallRaises(p) ==
  /\ me[p].at \in Calling
  /\ Continue(p, << >>)
  /\ UNCHANGED tableVars

Doing(p, what) == At(p, "answered") /\ Head(me[p].plan) = what

(* api_score and thesis of the candidate: data here. *)
WriteScore(p) ==
  /\ Doing(p, "score")
  /\ Continue(p, Tail(me[p].plan))
  /\ UNCHANGED tableVars

WriteCost(p) ==
  /\ Doing(p, "log")
  /\ LogCost
  /\ Continue(p, Tail(me[p].plan))
  /\ UNCHANGED <<now, researchTables, history, severed>>

AuditKind(p) ==
  IF me[p].task = "postmortem" THEN "cost_triggered" ELSE "sampling"

WriteAudit(p) ==
  /\ Doing(p, "audit")
  /\ LogAudit(AuditKind(p), me[p].cand, now, p)
  /\ Continue(p, Tail(me[p].plan))
  /\ UNCHANGED <<budgetVars, cands, signals, links, history, severed>>

(* create_strategy: the row itself belongs to StrategyLifecycle. *)
WriteStrategy(p) ==
  /\ Doing(p, "create")
  /\ Continue(p, Tail(me[p].plan))
  /\ UNCHANGED tableVars

-----------------------------------------------------------------------------
(* run_pending_post_mortems: the budget is asked once for the whole batch. *)

Audited(t) == \E i \in AuditsOf("cost_triggered") : audits[i].of = t

AuditedToday == {i \in AuditsOf("cost_triggered") : audits[i].day = now}

(* The n trades closed last among those without an audit. *)
LatestPending(n) ==
  LET open == {t \in Losers : ~Audited(t)}
  IN  {t \in open : Cardinality({u \in open : u > t}) < n}

(* limit or POST_MORTEM_DAILY_LIMIT *)
LimitFor(n) == IF n = 0 THEN DailyLimit ELSE n

(* Mutant: today's post-mortems are not counted. *)
StartPostMortemsUncounted(p) ==
  /\ Free(p, "postmortem")
  /\ Allowed
  /\ \E n \in Limits :
       Become(p, [Resting EXCEPT !.at = "batch", !.task = "postmortem",
                                 !.new = LatestPending(LimitFor(n))])
  /\ UNCHANGED tableVars

StartPostMortems(p) ==
  /\ Free(p, "postmortem")
  /\ Allowed
  /\ \E n \in Limits :
       /\ Cardinality(AuditedToday) < LimitFor(n)
       /\ Become(p, [Resting EXCEPT !.at = "batch", !.task = "postmortem",
                       !.new = LatestPending(LimitFor(n) - Cardinality(AuditedToday))])
  /\ UNCHANGED tableVars

(* A trade whose candidate predates the cutoff is audited without a call.  *)
NextTrade(p) ==
  LET t == Newest(me[p].new)
      rest == [me[p] EXCEPT !.cand = t, !.new = @ \ {t}]
  IN  /\ At(p, "batch")
      /\ me[p].new # {}
      /\ Become(p, IF t \in PreCutoff
                   THEN [rest EXCEPT !.at = "answered", !.plan = <<"audit">>]
                   ELSE [rest EXCEPT !.at = "mortem"])
      /\ UNCHANGED tableVars

BatchDone(p) ==
  /\ At(p, "batch")
  /\ me[p].new = {}
  /\ Rest(p)
  /\ UNCHANGED tableVars

-----------------------------------------------------------------------------
(* mirror_candidate_to_baseline.                                           *)

MirrorsOf(c) ==
  {m \in PendingOf(TwinOf[cands[c].strat]) :
     TickerOfCand(m) = TickerOfCand(c) /\ cands[m].born >= now - 1}

Upstream(c) == IF LinksOf(c) = {} THEN 0 ELSE SignalOf(c)

(* A pending mirror of the day is kept, and gets the signal if it has none.*)
StartMirror(p, c) ==
  /\ Free(p, "mirror")
  /\ cands[c].strat \in DOMAIN TwinOf
  /\ IF MirrorsOf(c) = {}
     THEN Become(p, [Resting EXCEPT !.at = "twin", !.task = "mirror", !.cand = c])
     ELSE \E m \in MirrorsOf(c) :
            IF Upstream(c) # 0 /\ LinksOf(m) = {}
            THEN Become(p, [Resting EXCEPT !.at = "bridge", !.task = "mirror",
                                           !.cand = m, !.sig = Upstream(c)])
            ELSE UNCHANGED me
  /\ UNCHANGED tableVars

CreateMirror(p) ==
  LET m == Len(cands) + 1
      sig == Upstream(me[p].cand)
  IN  /\ At(p, "twin")
      /\ Len(cands) < MaxCands
      /\ CreateCandidate(TwinOf[cands[me[p].cand].strat],
                         cands[me[p].cand].finding, now, p)
      /\ IF sig = 0 THEN Rest(p) /\ severed' = severed \cup {m}
         ELSE Become(p, [me[p] EXCEPT !.at = "bridge", !.cand = m, !.sig = sig])
              /\ UNCHANGED severed
      /\ UNCHANGED <<budgetVars, signals, links, audits, history>>

BridgeMirror(p) ==
  /\ At(p, "bridge")
  /\ IF Linkable(me[p].sig, me[p].cand)
     THEN Link(me[p].sig, me[p].cand, "baseline_mirror") ELSE UNCHANGED links
  /\ Rest(p)
  /\ UNCHANGED <<budgetVars, cands, signals, audits, history, severed>>

-----------------------------------------------------------------------------

(* An exception nobody catches, or the end of the process. *)
Crash(p) ==
  /\ ~At(p, "idle")
  /\ Rest(p)
  /\ severed' = IF me[p].at \in {"link", "bridge"}
                THEN severed \cup {me[p].cand} ELSE severed
  /\ Fault
  /\ UNCHANGED <<budgetVars, researchTables, duty, paid>>

Pass(p) ==
  \/ \E s \in duty[p].on : StartPass(p, s)
  \/ Generate(p) \/ PassEnds(p) \/ PassDone(p)
  \/ \E f \in Findings : TakeItem(p, f) \/ FindSignal(p, f)
  \/ InsertSignal(p) \/ SignalRaises(p)
  \/ MakeCandidate(p) \/ LinkCandidate(p) \/ LinkRaises(p)
  \/ Escalate(p) \/ EscalateNext(p) \/ EscalateEnds(p)

PaidCall(p) ==
  \/ \E c \in CandIds : StartThesis(p, c)
  \/ StartProposal(p)
  \/ CallAnswered(p) \/ CallRaises(p)
  \/ WriteScore(p) \/ WriteCost(p) \/ WriteAudit(p) \/ WriteStrategy(p)

PostMortem(p) == StartPostMortems(p) \/ NextTrade(p) \/ BatchDone(p)

Mirror(p) ==
  (\E c \in CandIds : StartMirror(p, c)) \/ CreateMirror(p) \/ BridgeMirror(p)

(* Accept, reject or expire (dashboard, CLI, executor). *)
Dispose ==
  /\ \E c \in CandIds : cands[c].disp = "pending" /\ DisposeCandidate(c)
  /\ UNCHANGED <<budgetVars, signals, links, audits, me, history, severed>>

NewDay == NextDay /\ UNCHANGED <<researchTables, me, history, severed>>

Next ==
  \/ \E p \in Procs : Pass(p) \/ PaidCall(p) \/ PostMortem(p) \/ Mirror(p) \/ Crash(p)
  \/ Dispose \/ NewDay

Spec == Init /\ [][Next]_vars
=============================================================================
