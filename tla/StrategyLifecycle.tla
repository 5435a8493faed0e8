------------------------- MODULE StrategyLifecycle -------------------------
(***************************************************************************)
(* Strategies, their baseline twins and the campaigns they belong to, as   *)
(* the dashboard, the command line, the research proposer and the first-   *)
(* run setup write them: heron/journal/strategies.py, journal/campaigns.py,*)
(* strategy/baseline.py, runtime/setup.py and their callers.               *)
(*                                                                         *)
(* Every request runs in a process of its own (a dashboard thread or a     *)
(* command) and opens its own connection.  A transition reads the row in   *)
(* one statement and writes it, with its log entry, in a later commit that *)
(* does not look again; a step of a process is the code between two such   *)
(* points, and the process can stop at any of them.                        *)
(***************************************************************************)
EXTENDS Naturals, SequencesExt

CONSTANTS
  Procs,        \* processes that handle requests
  Strats,       \* names a strategy is created under
  MaxDepth,     \* bound: baselines of baselines
  Camps,        \* campaign ids
  First,        \* "pead_v1", the strategy of the setup wizard
  FirstCamp,    \* "first_paper", its campaign
  DefaultCamp,  \* "default_paper", the campaign of the back-fill
  Ops,          \* bound: the requests of a behaviour
  Reported,     \* bound: the ids backtests are run for
  None          \* NULL, and no request

\* A strategy row is named by the name it was created under and the number
\* of "_baseline" suffixes.
Ids == Strats \X (0 .. MaxDepth)

Twin(id) == <<id[1], id[2] + 1>>

States == {"PROPOSED", "PAPER", "LIVE", "RETIRED"}

CampStates == {"DRAFT", "ACTIVE", "PAUSED", "GRADUATED", "RETIRED"}

ASSUME DepthAssumption == MaxDepth \in Nat \ {0}
ASSUME ReportedAssumption == Reported \subseteq Ids
ASSUME NamesAssumption ==
  /\ First \in Strats
  /\ FirstCamp \in Camps /\ DefaultCamp \in Camps /\ FirstCamp # DefaultCamp
  /\ None \notin Camps

ValidTransitions ==
  [PROPOSED |-> {"PAPER", "RETIRED"}, PAPER   |-> {"LIVE", "RETIRED"},
   LIVE     |-> {"RETIRED"},          RETIRED |-> {"PROPOSED"}]

ValidCampTransitions ==
  [DRAFT  |-> {"ACTIVE", "RETIRED"},  ACTIVE    |-> {"PAUSED", "GRADUATED",
                                                     "RETIRED"},
   PAUSED |-> {"ACTIVE", "RETIRED"},  GRADUATED |-> {"RETIRED"},
   RETIRED |-> {"DRAFT"}]

\* Where a request moves its strategy.
Target == [approve |-> "PAPER", reject |-> "RETIRED", retire |-> "RETIRED",
           promote |-> "LIVE",  setup  |-> "PAPER"]

\* Where an operator's action moves a campaign.
CampTarget == [start |-> "ACTIVE", pause |-> "PAUSED", resume |-> "ACTIVE",
               graduate |-> "GRADUATED", retire |-> "RETIRED"]

VARIABLES
  strategies,  \* strategies and strategy_state_log
  campaigns,   \* campaigns: state and started_at
  filed,       \* this month's review is filed
  parity,      \* ids whose latest backtest report beats the baseline
  work         \* the request each process has in hand

vars == <<strategies, campaigns, filed, parity, work>>

NoRow == [state |-> "none", camp |-> None, log |-> <<>>]

NoCamp == [state |-> "none", started |-> FALSE]

\* A process without a request.  id is the strategy (or campaign) it is
\* about, row and camp what it has read of it.
Idle == [step |-> "idle", req |-> "none", id |-> None,
         row |-> "none", camp |-> None]

Exists(id) == strategies[id].state # "none"

CampExists(c) == campaigns[c].state # "none"

Init ==
  /\ strategies = [id \in Ids |-> NoRow]
  /\ campaigns = [c \in Camps |-> NoCamp]
  /\ filed = FALSE
  /\ parity = {}
  /\ work = [p \in Procs |-> Idle]

Goto(p, s) == work' = [work EXCEPT ![p].step = s]

Done(p) == work' = [work EXCEPT ![p] = Idle]

-----------------------------------------------------------------------------
(* The journal's statements.                                               *)

Unattached == {id \in Ids : Exists(id) /\ strategies[id].camp = None}

\* init_journal on a new connection: strategies without a campaign go to
\* default_paper, which is created ACTIVE when it is missing.
Migrate ==
  /\ strategies' = [id \in Ids |-> IF id \in Unattached
                      THEN [strategies[id] EXCEPT !.camp = DefaultCamp]
                      ELSE strategies[id]]
  /\ campaigns' = IF Unattached # {} /\ ~CampExists(DefaultCamp)
                  THEN [campaigns EXCEPT ![DefaultCamp] =
                          [state |-> "ACTIVE", started |-> TRUE]]
                  ELSE campaigns

(* Mutant: the campaign column gets the strategy's name. *)
InsertStrategySwapped(id, c) ==
  strategies' = [strategies EXCEPT ![id] =
    [state |-> "PROPOSED", camp |-> id[1],
     log |-> <<[from |-> "none", to |-> "PROPOSED"]>>]]

\* The INSERT of create_strategy and its first log entry.
InsertStrategy(id, c) ==
  strategies' = [strategies EXCEPT ![id] =
    [state |-> "PROPOSED", camp |-> c,
     log |-> <<[from |-> "none", to |-> "PROPOSED"]>>]]

(* Mutant: the UPDATE looks at the state again, the log entry does not. *)
SetStateGuarded(id, from, to) ==
  strategies' = [strategies EXCEPT
    ![id].state = IF @ = from THEN to ELSE @,
    ![id].log = Append(@, [from |-> from, to |-> to])]

\* The UPDATE of transition_strategy, WHERE id=? only, and its log entry,
\* which names the state read before.
SetState(id, from, to) ==
  strategies' = [strategies EXCEPT
    ![id].state = to,
    ![id].log = Append(@, [from |-> from, to |-> to])]

\* The UPDATE of transition_campaign.
SetCampState(c, to) ==
  campaigns' = [campaigns EXCEPT
    ![c] = [state |-> to, started |-> @.started \/ to = "ACTIVE"]]

Populated == (\E id \in Ids : Exists(id))
             \/ (\E c \in Camps \ {DefaultCamp} : CampExists(c))

-----------------------------------------------------------------------------
(* What needs no more than one commit.                                     *)

\* strategy_new (a campaign or none), propose_strategy and the sweep fork
\* (none): a PROPOSED row under a new name.  The connection was opened, and
\* the journal migrated, earlier: by as much as a model call takes.
CreateStrategy(s, c) ==
  /\ ~Exists(<<s, 0>>)
  /\ c # None => CampExists(c)
  /\ InsertStrategy(<<s, 0>>, c)
  /\ UNCHANGED <<campaigns, filed, parity, work>>

\* A page that only reads still opens a connection.
PageLoad == Migrate /\ UNCHANGED <<filed, parity, work>>

\* The desk form: a new campaign is a DRAFT.
CreateCampaign(c) ==
  /\ ~CampExists(c) /\ c \notin {FirstCamp, DefaultCamp}
  /\ campaigns' = [campaigns EXCEPT ![c] = [state   |-> "DRAFT",
                                            started |-> FALSE]]
  /\ UNCHANGED <<strategies, filed, parity, work>>

\* file_review for this month, whatever the decision; bound: only where
\* promotions ask for it.
FileReview == /\ "promote" \in Ops
              /\ ~filed /\ filed' = TRUE
              /\ UNCHANGED <<strategies, campaigns, parity, work>>

\* The calendar month ends: is_review_current asks for another review.
NewMonth == /\ filed /\ filed' = FALSE
            /\ UNCHANGED <<strategies, campaigns, parity, work>>

\* A newer backtest report changes the latest verdict.
NewReport(id) ==
  /\ Exists(id)
  /\ parity' = IF id \in parity THEN parity \ {id} ELSE parity \cup {id}
  /\ UNCHANGED <<strategies, campaigns, filed, work>>

-----------------------------------------------------------------------------
(* Requests.                                                               *)

\* A request arrives and opens its connection.
Open(p, req, id, step) ==
  /\ req \in Ops
  /\ work[p].step = "idle"
  /\ Migrate
  /\ work' = [work EXCEPT ![p] = [Idle EXCEPT !.step = step, !.req = req,
                                              !.id = id]]
  /\ UNCHANGED <<filed, parity>>

\* approve, reject and retire go straight to the transition.
OpenTransition(p, req, id) ==
  /\ req \in {"approve", "reject", "retire"}
  /\ req = "approve" => id[2] < MaxDepth
  /\ Open(p, req, id, "read")

\* `heron baseline create`.
OpenBaseline(p, id) == id[2] < MaxDepth /\ Open(p, "baseline", id, "look")

\* promote_strategy reads the row first: only a PAPER row is going live.
OpenPromote(p, id) == Open(p, "promote", id, "peek")

\* The wizard and `heron init` refuse a populated journal.
OpenSetup(p) == ~Populated /\ Open(p, "setup", <<First, 0>>, "campaign")

OpenCampaign(p, action, c) ==
  /\ action \in DOMAIN CampTarget
  /\ Open(p, action, c, "readCampaign")

\* going_live
Peek(p) ==
  /\ work[p].step = "peek"
  /\ work' = [work EXCEPT ![p].step = "gate",
                          ![p].row = strategies[work[p].id].state]
  /\ UNCHANGED <<strategies, campaigns, filed, parity>>

\* The review is asked for whatever the state, the parity verdict only of a
\* strategy that was PAPER; force skips the verdict.
Gate(p, force) ==
  LET goingLive == work[p].row = "PAPER"
      beaten == force \/ work[p].id \in parity IN
  /\ work[p].step = "gate"
  /\ IF filed /\ (goingLive => beaten)
     THEN Goto(p, "read")
     ELSE Done(p)
  /\ UNCHANGED <<strategies, campaigns, filed, parity>>

\* get_strategy and the validation in transition_strategy.
Read(p) ==
  LET w == work[p]
      from == strategies[w.id].state IN
  /\ w.step = "read"
  /\ IF Exists(w.id) /\ Target[w.req] \in ValidTransitions[from]
     THEN work' = [work EXCEPT ![p].step = "write", ![p].row = from]
     ELSE Done(p)
  /\ UNCHANGED <<strategies, campaigns, filed, parity>>

\* The commit of transition_strategy; approve and setup go on to the twin.
Write(p) ==
  LET w == work[p] IN
  /\ w.step = "write"
  /\ SetState(w.id, w.row, Target[w.req])
  /\ IF w.req \in {"approve", "setup"} THEN Goto(p, "look") ELSE Done(p)
  /\ UNCHANGED <<campaigns, filed, parity>>

\* ensure_baseline: a twin that is there is left as it is; otherwise the
\* parent's row is read.
Look(p) ==
  LET w == work[p] IN
  /\ w.step = "look"
  /\ \/ /\ Exists(Twin(w.id))
        /\ IF w.req = "setup" THEN Goto(p, "attach") ELSE Done(p)
     \/ /\ ~Exists(Twin(w.id)) /\ Exists(w.id)
        /\ work' = [work EXCEPT ![p].step = "twin",
                                ![p].row = strategies[w.id].state,
                                ![p].camp = strategies[w.id].camp]
     \/ /\ ~Exists(Twin(w.id)) /\ ~Exists(w.id)
        /\ Done(p)
  /\ UNCHANGED <<strategies, campaigns, filed, parity>>

(* Mutant: the baseline starts outside every campaign. *)
TwinRowDetached(w) == [state |-> w.row, camp |-> None, log |-> <<>>]

(* Mutant: the baseline starts on paper whatever its parent's state. *)
TwinRowOnPaper(w) == [state |-> "PAPER", camp |-> w.camp, log |-> <<>>]

\* The baseline's row: its parent's state and campaign.
TwinRow(w) == [state |-> w.row, camp |-> w.camp, log |-> <<>>]

\* Its INSERT writes no log; it raises when another process was faster.
InsertTwin(p) ==
  LET w == work[p] IN
  /\ w.step = "twin"
  /\ IF Exists(Twin(w.id))
     THEN Done(p) /\ UNCHANGED strategies
     ELSE /\ strategies' = [strategies EXCEPT ![Twin(w.id)] = TwinRow(w)]
          /\ IF w.req = "setup" THEN Goto(p, "attach") ELSE Done(p)
  /\ UNCHANGED <<campaigns, filed, parity>>

(* Mutant: the wizard skips a campaign that is there. *)
SetupCampaignOrSkip(p) ==
  /\ work[p].step = "campaign"
  /\ campaigns' = [campaigns EXCEPT ![FirstCamp] =
                     [state |-> "ACTIVE", started |-> TRUE]]
  /\ Goto(p, "create")
  /\ UNCHANGED <<strategies, filed, parity>>

\* apply_initial_setup creates its campaign ACTIVE, ...
SetupCampaign(p) ==
  /\ work[p].step = "campaign"
  /\ IF CampExists(FirstCamp)
     THEN Done(p) /\ UNCHANGED campaigns
     ELSE /\ campaigns' = [campaigns EXCEPT ![FirstCamp] =
                             [state |-> "ACTIVE", started |-> TRUE]]
          /\ Goto(p, "create")
  /\ UNCHANGED <<strategies, filed, parity>>

\* ... then its strategy, which it moves to PAPER and gives a twin, ...
SetupStrategy(p) ==
  /\ work[p].step = "create"
  /\ IF Exists(work[p].id)
     THEN Done(p) /\ UNCHANGED strategies
     ELSE InsertStrategy(work[p].id, FirstCamp) /\ Goto(p, "read")
  /\ UNCHANGED <<campaigns, filed, parity>>

\* ... and at last attaches the twin to the campaign.
Attach(p) ==
  /\ work[p].step = "attach"
  /\ strategies' = [strategies EXCEPT ![Twin(work[p].id)].camp = FirstCamp]
  /\ Done(p)
  /\ UNCHANGED <<campaigns, filed, parity>>

\* transition_campaign, in the same two steps as a strategy's.
ReadCampaign(p) ==
  LET w == work[p]
      from == campaigns[w.id].state IN
  /\ w.step = "readCampaign"
  /\ IF CampExists(w.id) /\ CampTarget[w.req] \in ValidCampTransitions[from]
     THEN Goto(p, "writeCampaign")
     ELSE Done(p)
  /\ UNCHANGED <<strategies, campaigns, filed, parity>>

WriteCampaign(p) ==
  /\ work[p].step = "writeCampaign"
  /\ SetCampState(work[p].id, CampTarget[work[p].req])
  /\ Done(p)
  /\ UNCHANGED <<strategies, filed, parity>>

\* A process stops with its request half done.
Crash(p) ==
  /\ work[p].step # "idle"
  /\ Done(p)
  /\ UNCHANGED <<strategies, campaigns, filed, parity>>

Begin(p) ==
  \/ \E req \in DOMAIN Target, id \in Ids : OpenTransition(p, req, id)
  \/ \E id \in Ids : OpenBaseline(p, id) \/ OpenPromote(p, id)
  \/ OpenSetup(p)
  \/ \E action \in DOMAIN CampTarget, c \in Camps : OpenCampaign(p, action, c)

Proceed(p) ==
  \/ Peek(p) \/ (\E force \in BOOLEAN : Gate(p, force))
  \/ Read(p) \/ Write(p)
  \/ Look(p) \/ InsertTwin(p)
  \/ SetupCampaign(p) \/ SetupStrategy(p) \/ Attach(p)
  \/ ReadCampaign(p) \/ WriteCampaign(p)

Environment ==
  \/ \E s \in Strats, c \in Camps \cup {None} : CreateStrategy(s, c)
  \/ \E c \in Camps : CreateCampaign(c)
  \/ PageLoad \/ FileReview \/ NewMonth
  \/ \E id \in Reported : NewReport(id)

Next ==
  \/ \E p \in Procs : Begin(p) \/ Proceed(p) \/ Crash(p)
  \/ Environment

Spec == Init /\ [][Next]_vars
=============================================================================
