--------------------------- MODULE LifecycleSafety --------------------------
(***************************************************************************)
(* What the lifecycle of strategies and campaigns promises.                *)
(***************************************************************************)
EXTENDS StrategyLifecycle

Steps == {"idle", "peek", "gate", "read", "write", "look", "twin",
          "campaign", "create", "attach", "readCampaign", "writeCampaign"}

LogEntries == [from : States \cup {"none"}, to : States]

StrategyRows == [state : States \cup {"none"}, camp : Camps \cup {None},
                 log : Seq(LogEntries)]

CampaignRows == [state : CampStates \cup {"none"}, started : BOOLEAN]

Requests == [step : Steps,
             req  : DOMAIN Target \cup DOMAIN CampTarget
                      \cup {"baseline", "none"},
             id   : Ids \cup Camps \cup {None},
             row  : States \cup {"none"}, camp : Camps \cup {None}]

\* Which requests come to a step, and what they are about.
StepMatches(w) ==
  /\ w.step \in {"peek", "gate"} => w.req = "promote" /\ w.id \in Ids
  /\ w.step \in {"read", "write"} =>
       /\ w.req \in DOMAIN Target /\ w.id \in Ids
       /\ w.req = "approve" => w.id[2] < MaxDepth
  /\ w.step \in {"look", "twin"} =>
       w.id \in Ids /\ w.id[2] < MaxDepth
  /\ w.step \in {"campaign", "create", "attach"} => w.req = "setup"
  /\ w.req = "setup" => w.id = <<First, 0>>
  /\ w.step \in {"readCampaign", "writeCampaign"} =>
       w.req \in DOMAIN CampTarget /\ w.id \in Camps

\* The journal's columns and the requests in hand have their types.
TypeOK ==
  /\ strategies \in [Ids -> StrategyRows]
  /\ campaigns \in [Camps -> CampaignRows]
  /\ filed \in BOOLEAN
  /\ parity \subseteq Ids
  /\ work \in [Procs -> Requests]
  /\ \A p \in Procs : StepMatches(work[p])

-----------------------------------------------------------------------------

\* The state log of a strategy makes sense up to its i-th entry: the entry is
\* its creation, or a legal move from a state that the log, up to there, says
\* the strategy has been in.
LegalEntry(log, i) ==
  \/ i = 1 /\ log[i].from = "none"
  \/ /\ log[i].from \in States
     /\ log[i].to \in ValidTransitions[log[i].from]
     /\ i = 1 \/ \E j \in 1 .. (i - 1) : log[i].from \in {log[j].from, log[j].to}

\* The journal is the single source of truth: the last entry of the state
\* log names the state the strategy is in, however the requests of several
\* processes overwrite each other, and only a baseline starts without an
\* entry.  A request that lost a race writes from a state the strategy has
\* left, so one entry need not start where the one before it ended; but every
\* entry is still a legal move from a state the strategy has been in.
LogTellsState ==
  \A id \in Ids :
    /\ strategies[id].log # <<>> =>
         Last(strategies[id].log).to = strategies[id].state
    /\ strategies[id].log = <<>> /\ Exists(id) => id[2] > 0
    /\ \A i \in DOMAIN strategies[id].log : LegalEntry(strategies[id].log, i)

\* The states the journal knows a strategy to be in or to have been in.
StatesSeen(id) ==
  {strategies[id].state}
    \cup {strategies[id].log[j].from : j \in DOMAIN strategies[id].log}
    \cup {strategies[id].log[j].to : j \in DOMAIN strategies[id].log}

\* What a transition knows between its read and its write: the strategy is
\* there, and the move is legal from a state it is in or has been in.
WritesKnow ==
  \A p \in Procs : work[p].step = "write" =>
    /\ Exists(work[p].id)
    /\ work[p].row \in States
    /\ Target[work[p].req] \in ValidTransitions[work[p].row]
    /\ work[p].row \in StatesSeen(work[p].id)

\* What the back-fill makes of a missing campaign.
Home(c) == IF c = None THEN DefaultCamp ELSE c

CampOf(id) == Home(strategies[id].camp)

\* A strategy and its baseline belong to the same campaign, so their curves
\* share one window, whichever of create, back-fill and setup comes first.
TwinSharesCampaign ==
  \A id \in Ids : id[2] < MaxDepth /\ Exists(id) /\ Exists(Twin(id)) =>
    CampOf(id) = CampOf(Twin(id))

WasApproved(id) == \E i \in DOMAIN strategies[id].log :
                     strategies[id].log[i].to = "PAPER"

Approved(id) == \E n \in 0 .. id[2] : WasApproved(<<id[1], n>>)

\* Nothing trades without the operator: a strategy in PAPER or LIVE has been
\* approved itself, or is a baseline of one that was.
ApprovedBeforeTrading ==
  \A id \in Ids : strategies[id].state \in {"PAPER", "LIVE"} => Approved(id)

\* Two setup wizards that both found the journal empty never both build.
SetupIsExclusive ==
  \A p, q \in Procs :
    /\ work[p].req = "setup" /\ work[p].step # "campaign"
    /\ work[q].req = "setup" /\ work[q].step # "campaign"
    => p = q

=============================================================================
