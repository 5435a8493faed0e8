--------------------------- MODULE ResearchJournal ---------------------------
(***************************************************************************)
(* The tables the research layer writes: candidates, signals, their bridge *)
(* signal_candidates and audits (heron/journal/candidates.py, signals.py,  *)
(* ops.py).  A row's id is its place in the sequence; every write function *)
(* commits before it returns.                                              *)
(*                                                                         *)
(* A finding is an article about one ticker as the local model classified  *)
(* it: it fixes ticker, side, signal type, bias and score.  "by" is the    *)
(* process that wrote a row, kept for the properties only.                 *)
(***************************************************************************)
EXTENDS Integers, Sequences, FiniteSets

CONSTANTS
  Findings,     \* article and ticker, classified
  TickerOf,     \* the ticker of a finding
  HighScore,    \* findings with local_score >= ESCALATION_SCORE_THRESHOLD
  Strategies,
  CampaignOf,   \* strategies.campaign_id
  NoCampaign    \* NULL

ASSUME HighScoreAssumption == HighScore \subseteq Findings

VARIABLES
  cands,     \* candidates
  signals,   \* signals
  links,     \* signal_candidates
  audits     \* audits

researchTables == <<cands, signals, links, audits>>

CandIds == DOMAIN cands
SignalIds == DOMAIN signals

ResearchTablesInit ==
  /\ cands = << >>
  /\ signals = << >>
  /\ links = {}
  /\ audits = << >>

NewCandidate(s, f, day, p) ==
  [strat |-> s, finding |-> f, disp |-> "pending", born |-> day, by |-> p]

CreateCandidate(s, f, day, p) ==
  cands' = Append(cands, NewCandidate(s, f, day, p))

DisposeCandidate(c) == cands' = [cands EXCEPT ![c].disp = "disposed"]

PendingOf(s) == {c \in CandIds : cands[c].strat = s /\ cands[c].disp = "pending"}

TickerOfCand(c) == TickerOf[cands[c].finding]

-----------------------------------------------------------------------------

(* Mutant: the key leaves the ticker out. *)
MatchingAnyTicker(camp, f) == {i \in SignalIds : signals[i].camp = camp}

(* find_signal: the rows with the key the finding makes. *)
Matching(camp, f) ==
  {i \in SignalIds : signals[i].camp = camp /\ signals[i].finding = f}

Newest(ids) == CHOOSE i \in ids : \A k \in ids : k <= i

CreateSignal(camp, f, p) ==
  signals' = Append(signals, [camp |-> camp, finding |-> f, by |-> p])

LinksOf(c) == {l \in links : l.cand = c}

SignalOf(c) == (CHOOSE l \in LinksOf(c) : TRUE).sig

(* link_signal_candidate: the same link again is kept, another one for the *)
(* candidate is refused (ValueError, and UNIQUE(candidate_id) behind it).  *)
Linkable(sig, c) == \A l \in LinksOf(c) : l.sig = sig

Link(sig, c, via) ==
  links' = IF LinksOf(c) # {} THEN links
           ELSE links \cup {[sig |-> sig, cand |-> c,
                             strat |-> cands[c].strat, via |-> via]}

-----------------------------------------------------------------------------

LogAudit(kind, of, day, p) ==
  audits' = Append(audits, [kind |-> kind, of |-> of, day |-> day, by |-> p])

AuditsOf(kind) == {i \in DOMAIN audits : audits[i].kind = kind}
=============================================================================
