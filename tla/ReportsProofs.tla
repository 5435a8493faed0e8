---------------------------- MODULE ReportsProofs ----------------------------
(***************************************************************************)
(* Proofs about the table of reports and the earnings cache, for every     *)
(* set of handlers, calendar, provider and number of reports.              *)
(***************************************************************************)
EXTENDS ReportsSafety, SumLemmas, SequenceTheorems, FiniteSetTheorems,
        WellFoundedInduction, TLAPS

(***************************************************************************)
(* Families.  FamiliesAgree says nothing of a walk-forward that is still   *)
(* running, so it is not inductive: its parent is written from the ids the *)
(* handler collected, and they are the rows with its tag only if no other  *)
(* handler has the tag and every row it tags was new and untagged.         *)
(***************************************************************************)
Columns == {"strategy", "dates", "ran", "trades", "on", "sweep", "wf", "parent",
            "kids", "parity"}
Entries == {"at", "op", "strategy", "seeder", "seed", "initial", "equity", "window", "todo",
            "plan", "cur", "tag", "row", "saved", "kids"}

(* A sequence, of whatever elements. *)
IsSeq(s) == s \in Seq({s[i] : i \in DOMAIN s})

IsRow(r) == DOMAIN r = Columns /\ r.sweep \in Nat /\ r.wf \in Nat

(* A row save_report inserts, until it is tagged. *)
Blank(r) == r.sweep = NoId /\ r.wf = NoId /\ ~r.parent

(* A sweep or a walk-forward on its way, with an id of its own. *)
Working(w) == w.at \in {"run", "save", "tag"} /\ w.op \in {"sweep", "walkforward"}

(* What a handler holds: a single run has no override, and the row it is   *)
(* about to save belongs to its strategy and nothing else.                 *)
IsJob(w) ==
  /\ DOMAIN w = Entries
  /\ w.tag \in Nat
  /\ w.at \in {"idle", "run", "save", "tag", "verdict"}
  /\ w.at \in {"run", "save"} => w.op \in {"backtest", "sweep", "walkforward"}
  /\ w.at = "tag" => w.op \in {"sweep", "walkforward"}
  /\ w.at = "run" /\ w.op = "backtest" => w.todo \in {<<Stored>>, << >>}
  /\ Working(w) => w.tag # NoId
  /\ w.at = "save" =>
       \A r \in w.row : /\ IsRow(r) /\ Blank(r) /\ r.strategy = w.strategy
                        /\ w.op = "backtest" => r.ran.over = Stored

(* The row it has saved and not tagged, or is about to judge again. *)
Claim(w) ==
  /\ w.at \in {"tag", "verdict"} => w.saved \in Ids
  /\ w.at = "tag" => Blank(reports[w.saved]) /\ reports[w.saved].strategy = w.strategy

(* The windows of a walk-forward so far. *)
Family(w) ==
  Working(w) /\ w.op = "walkforward" =>
    /\ w.kids = {k \in Ids : reports[k].wf = w.tag}
    /\ \A k \in w.kids : ~reports[k].parent /\ reports[k].strategy = w.strategy

Kinship ==
  /\ \A i \in Ids : reports[i].parent =>
       /\ reports[i].wf # NoId
       /\ reports[i].kids = {k \in Ids \ {i} : reports[k].wf = reports[i].wf}
       /\ \A k \in reports[i].kids : k < i /\ reports[k].strategy = reports[i].strategy
  /\ \A i \in Ids : reports[i].sweep = NoId \/ reports[i].wf = NoId

Forked ==
  \A tag \in DOMAIN forks :
    tag # NoId /\ \E i \in Ids : reports[i].sweep = tag /\ reports[i].ran.over = forks[tag]

Strays == Untagged \subseteq orphans \cup {job[p].saved : p \in {q \in Procs : At(q, "tag")}}

Apart ==
  \A p, q \in Procs : p # q =>
    /\ Working(job[p]) /\ Working(job[q]) => job[p].tag # job[q].tag
    /\ At(p, "tag") /\ At(q, "tag") => job[p].saved # job[q].saved

Tables ==
  /\ IsSeq(reports)
  /\ \A i \in Ids : IsRow(reports[i])
  /\ DOMAIN job = Procs
  /\ \A p \in Procs : IsJob(job[p])

FamiliesInv ==
  /\ Tables /\ Apart
  /\ \A p \in Procs : Claim(job[p]) /\ Family(job[p])
  /\ Kinship /\ Forked /\ Strays

(* Appending to a sequence whose elements nothing types. *)
LEMMA Appended ==
  ASSUME NEW s, IsSeq(s), NEW e, NEW t, t = Append(s, e)
  PROVE  /\ IsSeq(t)
         /\ Len(s) \in Nat /\ DOMAIN s = 1 .. Len(s)
         /\ DOMAIN t = (DOMAIN s) \cup {Len(s) + 1}
         /\ t[Len(s) + 1] = e /\ Len(s) + 1 \notin DOMAIN s
         /\ \A i \in DOMAIN s : t[i] = s[i] /\ i < Len(s) + 1
<1> DEFINE S == {s[i] : i \in DOMAIN s}
           T == {t[i] : i \in DOMAIN t}
<1>0. s \in Seq(S)
  BY DEF IsSeq
<1>1. Len(s) \in Nat /\ DOMAIN s = 1 .. Len(s)
  <2> HIDE DEF S
  <2> QED BY <1>0
<1>2. s \in Seq(S \cup {e})
  <2>1. \A i \in 1 .. Len(s) : s[i] \in S
    BY <1>1
  <2>2. s = [i \in 1 .. Len(s) |-> s[i]]
    <3> HIDE DEF S
    <3> QED BY <1>0, <1>1
  <2>3. s \in [1 .. Len(s) -> S \cup {e}]
    <3> HIDE DEF S
    <3> QED BY <2>1, <2>2
  <2> HIDE DEF S
  <2> QED BY <2>3, <1>1, SeqDef
<1>3. t \in Seq(S \cup {e}) /\ Len(t) = Len(s) + 1 /\ t[Len(s) + 1] = e
      /\ \A i \in 1 .. Len(s) : t[i] = s[i]
  <2> HIDE DEF S
  <2> QED BY <1>2
<1>4. DOMAIN t = 1 .. Len(t) /\ t = [i \in 1 .. Len(t) |-> t[i]] /\ Len(t) \in Nat
  <2> DEFINE R == S \cup {e}
  <2>1. t \in Seq(R)
    BY <1>3
  <2> HIDE DEF S, R
  <2>2. t \in [1 .. Len(t) -> R] /\ Len(t) \in Nat
    BY <2>1, LenProperties
  <2> QED BY <2>2
<1>5. t \in [1 .. Len(t) -> T]
  <2>1. \A i \in 1 .. Len(t) : t[i] \in T
    BY <1>4
  <2> HIDE DEF T
  <2> QED BY <2>1, <1>4
<1>6. t \in Seq(T)
  <2> HIDE DEF T
  <2> QED BY <1>5, <1>4, SeqDef
<1> HIDE DEF S
<1> QED
  BY <1>1, <1>3, <1>4, <1>6 DEF T, IsSeq

(* Replacing one element of it. *)
LEMMA Replaced ==
  ASSUME NEW s, IsSeq(s), NEW k \in DOMAIN s, NEW e,
         NEW t, t = [s EXCEPT ![k] = e]
  PROVE  /\ IsSeq(t)
         /\ DOMAIN t = DOMAIN s /\ t[k] = e
         /\ \A i \in DOMAIN s : i # k => t[i] = s[i]
<1> DEFINE S == {s[i] : i \in DOMAIN s}
           T == {t[i] : i \in DOMAIN t}
<1>1. Len(s) \in Nat /\ DOMAIN s = 1 .. Len(s)
  <2>0. s \in Seq(S)
    BY DEF IsSeq
  <2> HIDE DEF S
  <2> QED BY <2>0
<1>2. DOMAIN t = DOMAIN s /\ t[k] = e /\ \A i \in DOMAIN s : i # k => t[i] = s[i]
  OBVIOUS
<1>3. t = [i \in 1 .. Len(s) |-> t[i]]
  BY <1>1
<1>4. t \in [1 .. Len(s) -> T]
  <2>1. \A i \in 1 .. Len(s) : t[i] \in T
    BY <1>1, <1>2
  <2> HIDE DEF T
  <2> QED BY <2>1, <1>3
<1>5. t \in Seq(T)
  <2> HIDE DEF T, S
  <2>1. t \in UNION {[1 .. n -> T] : n \in Nat}
    BY <1>4, <1>1
  <2> QED BY <2>1, SeqDef
<1> QED
  BY <1>2, <1>5 DEF IsSeq

(* An INSERT takes the next id and leaves the other rows. *)
LEMMA ReportAdded ==
  ASSUME IsSeq(reports), NEW row, reports' = Append(reports, row)
  PROVE  /\ IsSeq(reports)'
         /\ Len(reports) + 1 \in Nat /\ Len(reports) + 1 \notin Ids /\ Ids \subseteq Nat
         /\ Ids' = Ids \cup {Len(reports) + 1} /\ reports'[Len(reports) + 1] = row
         /\ \A i \in Ids : reports'[i] = reports[i] /\ i < Len(reports) + 1
<1>2. PICK s, t : s = reports /\ t = reports'
  OBVIOUS
<1>3. /\ IsSeq(t)
      /\ Len(s) \in Nat /\ DOMAIN s = 1 .. Len(s)
      /\ DOMAIN t = (DOMAIN s) \cup {Len(s) + 1}
      /\ t[Len(s) + 1] = row /\ Len(s) + 1 \notin DOMAIN s
      /\ \A i \in DOMAIN s : t[i] = s[i] /\ i < Len(s) + 1
  <2>1. t = Append(s, row)
    BY <1>2
  <2>2. IsSeq(s)
    BY <1>2
  <2>3. IsSeq(t) /\ DOMAIN t = (DOMAIN s) \cup {Len(s) + 1}
    BY <2>1, <2>2, Appended
  <2>4. Len(s) \in Nat /\ DOMAIN s = 1 .. Len(s)
    BY <2>1, <2>2, Appended
  <2>5. t[Len(s) + 1] = row /\ Len(s) + 1 \notin DOMAIN s
    BY <2>1, <2>2, Appended
  <2>6. \A i \in DOMAIN s : t[i] = s[i] /\ i < Len(s) + 1
    BY <2>1, <2>2, Appended
  <2> QED BY <2>3, <2>4, <2>5, <2>6
<1>4. IsSeq(reports)' /\ Ids' = DOMAIN t
  BY <1>2, <1>3 DEF IsSeq, Ids
<1> QED BY <1>2, <1>3, <1>4 DEF Ids

(* FreshTag is an id no handler holds and no row carries. *)
LEMMA FreshTagIsFresh ==
  ASSUME FamiliesInv
  PROVE  /\ FreshTag \in Nat /\ FreshTag # NoId
         /\ \A p \in Procs : job[p].tag # FreshTag
         /\ \A i \in Ids : reports[i].sweep # FreshTag /\ reports[i].wf # FreshTag
<1> DEFINE held == {job[p].tag : p \in Procs}
           carried == UNION {{reports[i].sweep, reports[i].wf} : i \in Ids}
           used == held \cup carried
           n == Cardinality(used)
           free == (1 .. (n + 1)) \ used
<1>1. IsFiniteSet(held)
  <2> DEFINE f == [p \in Procs |-> job[p].tag]
  <2>1. held = {f[p] : p \in Procs}
    OBVIOUS
  <2> HIDE DEF held, f
  <2> QED BY <2>1, FiniteRange, RequestsAssumption
<1>2. IsFiniteSet(carried)
  <2>1. IsFiniteSet(Ids)
    <3>1. \E m \in Nat : Ids = 1 .. m
      <4> DEFINE S == {reports[i] : i \in Ids}
      <4>1. reports \in Seq(S)
        BY DEF FamiliesInv, Tables, IsSeq, Ids
      <4> HIDE DEF S
      <4> QED BY <4>1 DEF Ids
    <3> QED BY <3>1, UpTo
  <2> DEFINE sweeps == {reports[i].sweep : i \in Ids}
             wfs == {reports[i].wf : i \in Ids}
             f == [i \in Ids |-> reports[i].sweep]
             g == [i \in Ids |-> reports[i].wf]
  <2>2. IsFiniteSet(sweeps) /\ IsFiniteSet(wfs)
    <3>1. sweeps = {f[i] : i \in Ids} /\ wfs = {g[i] : i \in Ids}
      OBVIOUS
    <3> HIDE DEF sweeps, wfs, f, g
    <3> QED BY <2>1, <3>1, FiniteRange
  <2>3. carried = sweeps \cup wfs
    OBVIOUS
  <2> HIDE DEF sweeps, wfs, carried
  <2> QED BY <2>2, <2>3, FS_Union
<1>3. IsFiniteSet(used) /\ n \in Nat
  <2> HIDE DEF held, carried
  <2>1. IsFiniteSet(used)
    BY <1>1, <1>2, FS_Union
  <2> QED BY <2>1, FS_CardinalityType
<1>4. free # {}
  <2>1. SUFFICES ASSUME 1 .. (n + 1) \subseteq used PROVE FALSE
    OBVIOUS
  <2>2. Cardinality(1 .. (n + 1)) <= Cardinality(used)
    <3> HIDE DEF used
    <3> QED BY <1>3, <2>1, FS_Subset
  <2>3. Cardinality(1 .. (n + 1)) = n + 1
    <3> HIDE DEF n
    <3>1. n + 1 \in Nat /\ 1 \in Nat
      BY <1>3
    <3> QED BY <1>3, <3>1, UpTo
  <2>4. Cardinality(used) = n
    OBVIOUS
  <2> HIDE DEF n
  <2> QED BY <1>3, <2>2, <2>3, <2>4
<1>5. FreshTag = Min(free)
  BY DEF FreshTag, Ids
<1>6. Min(free) \in free
  <2>1. free \in SUBSET Nat
    <3> HIDE DEF n, used
    <3> QED BY <1>3
  <2> HIDE DEF free
  <2>2. \E x \in free : \A y \in free : x <= y
    BY <1>4, <2>1, SmallestNat
  <2> QED BY <2>2 DEF Min
<1>7. FreshTag \in Nat /\ FreshTag # NoId /\ FreshTag \notin used
  <2> HIDE DEF n, used
  <2> QED BY <1>3, <1>5, <1>6 DEF NoId
<1>8. \A p \in Procs : job[p].tag \in used
  OBVIOUS
<1>9. \A i \in Ids : reports[i].sweep \in used /\ reports[i].wf \in used
  OBVIOUS
<1> HIDE DEF used
<1> QED
  BY <1>7, <1>8, <1>9

(* There is no report at first. *)
LEMMA FamiliesInit == Init => FamiliesInv
<1> SUFFICES ASSUME Init PROVE FamiliesInv
  OBVIOUS
<1> USE DEF Init, ReportsInit, Ids
<1>1. reports = << >> /\ Ids = {}
  OBVIOUS
<1>2. Tables
  <2>1. \A p \in Procs : IsJob(job[p])
    BY DEF IsJob, Idle, Entries, Working, NoId
  <2>2. IsSeq(reports)
    BY <1>1, EmptySeq DEF IsSeq
  <2> QED
    BY <1>1, <2>1, <2>2 DEF Tables
<1>3. \A p \in Procs : job[p].at = "idle"
  BY DEF Idle
<1>4. Apart /\ \A p \in Procs : Claim(job[p]) /\ Family(job[p])
  BY <1>3 DEF Apart, Claim, Family, Working, At
<1>5. Kinship /\ Forked /\ Strays
  BY <1>1 DEF Kinship, Forked, Strays, Untagged
<1> QED
  BY <1>2, <1>4, <1>5 DEF FamiliesInv

(* A handler goes on to n and writes no row. *)
LEMMA Turned ==
  ASSUME FamiliesInv, NEW p \in Procs, NEW n, IsJob(n),
         job' = [job EXCEPT ![p] = n], UNCHANGED <<reports, forks>>,
         n.at # "tag", n.at = "verdict" => n.saved \in Ids,
         \/ ~Working(n)
         \/ /\ Working(job[p]) /\ n.op = job[p].op /\ n.tag = job[p].tag
            /\ n.kids = job[p].kids /\ n.strategy = job[p].strategy
         \/ n.tag = FreshTag /\ n.kids = {},
         orphans \subseteq orphans', At(p, "tag") => job[p].saved \in orphans'
  PROVE  FamiliesInv'
<1>1. DOMAIN job = Procs /\ DOMAIN job' = Procs /\ job'[p] = n
      /\ \A q \in Procs \ {p} : job'[q] = job[q]
  BY DEF FamiliesInv, Tables
<1>2. Ids' = Ids
  BY DEF Ids
<1>3. Tables'
  <2>1. \A q \in Procs : IsJob(job'[q])
    BY <1>1 DEF FamiliesInv, Tables
  <2> QED
    BY <1>1, <1>2, <2>1 DEF FamiliesInv, Tables
<1>4. Apart'
  <2>1. \A q \in Procs : q # p /\ Working(job[q]) /\ Working(n) => job[q].tag # n.tag
    BY FreshTagIsFresh DEF FamiliesInv, Apart
  <2>2. \A q, r \in Procs : q # r /\ Working(job'[q]) /\ Working(job'[r])
                              => job'[q].tag # job'[r].tag
    <3> TAKE q, r \in Procs
    <3>1. CASE q = p
      BY <1>1, <2>1, <3>1
    <3>2. CASE r = p
      BY <1>1, <2>1, <3>2
    <3>3. CASE q # p /\ r # p
      BY <1>1, <3>3 DEF FamiliesInv, Apart
    <3> QED BY <3>1, <3>2, <3>3
  <2>3. \A q, r \in Procs : q # r /\ job'[q].at = "tag" /\ job'[r].at = "tag"
                              => job'[q].saved # job'[r].saved
    BY <1>1 DEF FamiliesInv, Apart, At
  <2> QED
    BY <2>2, <2>3 DEF Apart, At
<1>5. \A q \in Procs : Claim(job[q])'
  BY <1>1, <1>2 DEF FamiliesInv, Claim
<1>6. \A q \in Procs : Family(job[q])'
  <2> TAKE q \in Procs
  <2>1. CASE q # p
    BY <1>1, <1>2, <2>1 DEF FamiliesInv, Family
  <2>2. CASE q = p /\ n.tag = FreshTag /\ n.kids = {}
    BY <1>1, <1>2, <2>2, FreshTagIsFresh DEF Family
  <2>3. CASE q = p /\ ~Working(n)
    BY <1>1, <2>3 DEF Family
  <2>4. CASE /\ q = p
             /\ Working(job[p]) /\ n.op = job[p].op /\ n.tag = job[p].tag
             /\ n.kids = job[p].kids /\ n.strategy = job[p].strategy
    BY <1>1, <1>2, <2>4 DEF FamiliesInv, Family
  <2> QED
    BY <2>1, <2>2, <2>3, <2>4
<1>7. Kinship' /\ Forked'
  BY <1>2 DEF FamiliesInv, Kinship, Forked
<1>8. Strays'
  <2>1. Untagged' = Untagged
    BY <1>2 DEF Untagged
  <2>2. \A q \in Procs : At(q, "tag") =>
          \/ job[q].saved \in orphans'
          \/ At(q, "tag")' /\ job'[q].saved = job[q].saved
    BY <1>1 DEF At
  <2> QED
    BY <2>1, <2>2 DEF FamiliesInv, Strays, At
<1> QED
  BY <1>3, <1>4, <1>5, <1>6, <1>7, <1>8 DEF FamiliesInv

(* save_report inserts a row that is not tagged, for a caller that is done *)
(* or goes on to tag it.                                                   *)
LEMMA Inserted ==
  ASSUME FamiliesInv, NEW p \in Procs, NEW n, IsJob(n), NEW row, IsRow(row), Blank(row),
         job' = [job EXCEPT ![p] = n], reports' = Append(reports, row),
         UNCHANGED <<forks, orphans>>, ~At(p, "tag"),
         \/ n.at = "idle" /\ row.ran.over = Stored
         \/ /\ n.at = "tag" /\ n.saved = Len(reports) + 1 /\ n.strategy = row.strategy
            /\ Working(job[p]) /\ n.op = job[p].op /\ n.tag = job[p].tag
            /\ n.kids = job[p].kids /\ n.strategy = job[p].strategy
  PROVE  FamiliesInv'
<1>1. DOMAIN job = Procs /\ DOMAIN job' = Procs /\ job'[p] = n
      /\ \A q \in Procs \ {p} : job'[q] = job[q]
  BY DEF FamiliesInv, Tables
<1> DEFINE new == Len(reports) + 1
<1>2. /\ IsSeq(reports)'
      /\ new \in Nat /\ new \notin Ids /\ Ids \subseteq Nat /\ Ids' = Ids \cup {new} /\ reports'[new] = row
      /\ \A i \in Ids : reports'[i] = reports[i] /\ i < new
  <2>1. IsSeq(reports)
    BY DEF FamiliesInv, Tables
  <2> QED BY <2>1, ReportAdded
<1> HIDE DEF new
<1>3. Tables'
  <2>1. \A q \in Procs : IsJob(job'[q])
    BY <1>1 DEF FamiliesInv, Tables
  <2>2. \A i \in Ids' : IsRow(reports'[i])
    BY <1>2 DEF FamiliesInv, Tables
  <2> QED
    BY <1>1, <1>2, <2>1, <2>2 DEF Tables
<1>4. Apart'
  <2>1. \A q \in Procs : q # p /\ Working(job[q]) /\ Working(n) => job[q].tag # n.tag
    BY DEF FamiliesInv, Apart, Working
  <2>2. \A q, r \in Procs : q # r /\ Working(job'[q]) /\ Working(job'[r])
                              => job'[q].tag # job'[r].tag
    <3> TAKE q, r \in Procs
    <3>1. CASE q = p
      BY <1>1, <2>1, <3>1
    <3>2. CASE r = p
      BY <1>1, <2>1, <3>2
    <3>3. CASE q # p /\ r # p
      BY <1>1, <3>3 DEF FamiliesInv, Apart
    <3> QED BY <3>1, <3>2, <3>3
  <2>3. \A q \in Procs : q # p /\ job[q].at = "tag" => job[q].saved # new
    BY <1>2 DEF FamiliesInv, Claim
  <2>4. \A q, r \in Procs : q # r /\ job'[q].at = "tag" /\ job'[r].at = "tag"
                              => job'[q].saved # job'[r].saved
    <3> TAKE q, r \in Procs
    <3>0. n.at = "tag" => n.saved = new
      BY DEF new
    <3>1. CASE q = p
      BY <1>1, <2>3, <3>0, <3>1
    <3>2. CASE r = p
      BY <1>1, <2>3, <3>0, <3>2
    <3>3. CASE q # p /\ r # p
      BY <1>1, <3>3 DEF FamiliesInv, Apart, At
    <3> QED BY <3>1, <3>2, <3>3
  <2> QED
    BY <2>2, <2>4 DEF Apart, At
<1>5. \A q \in Procs : Claim(job[q])'
  <2> TAKE q \in Procs
  <2>1. CASE q # p
    <3>1. PICK w : w = job[q] /\ w = job'[q]
      BY <1>1, <2>1
    <3>2. /\ w.at \in {"tag", "verdict"} => w.saved \in Ids
          /\ w.at = "tag" => Blank(reports[w.saved]) /\ reports[w.saved].strategy = w.strategy
      BY <3>1 DEF FamiliesInv, Claim
    <3>3. \A i \in Ids : i \in Ids' /\ reports'[i] = reports[i]
      BY <1>2
    <3> QED
      BY <3>1, <3>2, <3>3 DEF Claim
  <2>2. CASE q = p
    BY <1>1, <1>2, <2>2 DEF Claim, new
  <2> QED BY <2>1, <2>2
<1>6. \A q \in Procs : Family(job[q])'
  <2> SUFFICES ASSUME NEW q \in Procs, Working(job'[q]), job'[q].op = "walkforward"
               PROVE  /\ job'[q].kids = {k \in Ids' : reports'[k].wf = job'[q].tag}
                      /\ \A k \in job'[q].kids : ~reports'[k].parent /\ reports'[k].strategy = job'[q].strategy
    BY DEF Family
  <2>1. /\ Working(job[q]) /\ job[q].op = "walkforward" /\ job'[q].tag = job[q].tag
        /\ job'[q].kids = job[q].kids /\ job'[q].strategy = job[q].strategy
    <3>1. CASE q = p
      BY <1>1, <3>1 DEF Working
    <3>2. CASE q # p
      BY <1>1, <3>2
    <3> QED BY <3>1, <3>2
  <2>2. job[q].tag # NoId
    BY <2>1 DEF FamiliesInv, Tables, IsJob
  <2>3. /\ job[q].kids = {k \in Ids : reports[k].wf = job[q].tag}
        /\ \A k \in job[q].kids : ~reports[k].parent /\ reports[k].strategy = job[q].strategy
    BY <2>1 DEF FamiliesInv, Family
  <2>4. reports'[new].wf = NoId
    BY <1>2 DEF Blank
  <2>5. {k \in Ids' : reports'[k].wf = job[q].tag} = {k \in Ids : reports[k].wf = job[q].tag}
    BY <1>2, <2>2, <2>4
  <2>6. \A k \in job[q].kids : reports'[k] = reports[k]
    BY <1>2, <2>3
  <2>7. \A k \in job[q].kids : ~reports'[k].parent /\ reports'[k].strategy = job[q].strategy
    BY <2>3, <2>6
  <2>8. job[q].kids = {k \in Ids' : reports'[k].wf = job[q].tag}
    BY <2>3, <2>5
  <2> QED
    BY <2>1, <2>7, <2>8
<1>7. Kinship'
  <2>1. reports'[new].wf = NoId /\ ~reports'[new].parent
    BY <1>2 DEF Blank
  <2>2. ASSUME NEW i \in Ids', reports'[i].parent
        PROVE /\ reports'[i].wf # NoId
              /\ reports'[i].kids = {k \in Ids' \ {i} : reports'[k].wf = reports'[i].wf}
              /\ \A k \in reports'[i].kids : k < i /\ reports'[k].strategy = reports'[i].strategy
    <3>1. i \in Ids /\ reports'[i] = reports[i] /\ reports[i].parent
      BY <1>2, <2>1, <2>2
    <3>2. /\ reports[i].wf # NoId
          /\ reports[i].kids = {k \in Ids \ {i} : reports[k].wf = reports[i].wf}
          /\ \A k \in reports[i].kids : k < i /\ reports[k].strategy = reports[i].strategy
      BY <3>1 DEF FamiliesInv, Kinship
    <3>3. reports'[i].kids = reports[i].kids /\ reports'[i].wf = reports[i].wf
          /\ reports'[i].strategy = reports[i].strategy
      BY <3>1
    <3>4. \A k \in Ids' \ {i} : reports'[k].wf = reports[i].wf <=> k \in reports[i].kids
      BY <1>2, <2>1, <3>2
    <3>5. reports[i].kids \subseteq Ids' \ {i}
      BY <1>2, <3>2
    <3>6. \A k \in reports[i].kids : k < i /\ reports'[k].strategy = reports[i].strategy
      BY <1>2, <3>2
    <3> QED
      BY <3>2, <3>3, <3>4, <3>5, <3>6
  <2>3. \A i \in Ids' : reports'[i].sweep = NoId \/ reports'[i].wf = NoId
    BY <1>2, <2>1 DEF FamiliesInv, Kinship
  <2> QED
    BY <2>2, <2>3 DEF Kinship
<1>8. Forked'
  <2> SUFFICES ASSUME NEW tag \in DOMAIN forks
               PROVE  /\ tag # NoId
                      /\ \E i \in Ids' : /\ reports'[i].sweep = tag
                                         /\ reports'[i].ran.over = forks[tag]
    BY DEF Forked
  <2>1. tag # NoId /\ \E i \in Ids : reports[i].sweep = tag /\ reports[i].ran.over = forks[tag]
    BY DEF FamiliesInv, Forked
  <2> QED
    BY <1>2, <2>1
<1>9. Strays'
  <2>1. Untagged' \subseteq Untagged \cup (IF row.ran.over = Stored THEN {} ELSE {new})
    BY <1>2 DEF Untagged
  <2>2. \A q \in Procs : At(q, "tag") => At(q, "tag")' /\ job'[q].saved = job[q].saved
    BY <1>1 DEF At
  <2>3. row.ran.over # Stored => At(p, "tag")' /\ job'[p].saved = new
    BY <1>1 DEF At, new
  <2> QED
    BY <2>1, <2>2, <2>3 DEF FamiliesInv, Strays, At
<1> QED
  BY <1>3, <1>4, <1>5, <1>6, <1>7, <1>8, <1>9 DEF FamiliesInv

(* _save_aggregate inserts a walk-forward's parent. *)
LEMMA ParentInserted ==
  ASSUME FamiliesInv, NEW p \in Procs, NEW n, IsJob(n), n.at = "idle",
         NEW row, IsRow(row), row.parent, row.sweep = NoId, row.ran.over = Stored,
         At(p, "run"), job[p].op = "walkforward",
         row.wf = job[p].tag, row.kids = job[p].kids, row.strategy = job[p].strategy,
         job' = [job EXCEPT ![p] = n], reports' = Append(reports, row),
         UNCHANGED <<forks, orphans>>
  PROVE  FamiliesInv'
<1>1. DOMAIN job = Procs /\ DOMAIN job' = Procs /\ job'[p] = n
      /\ \A q \in Procs \ {p} : job'[q] = job[q]
  BY DEF FamiliesInv, Tables
<1> DEFINE new == Len(reports) + 1
<1>2. /\ IsSeq(reports)'
      /\ new \in Nat /\ new \notin Ids /\ Ids \subseteq Nat /\ Ids' = Ids \cup {new} /\ reports'[new] = row
      /\ \A i \in Ids : reports'[i] = reports[i] /\ i < new
  <2>1. IsSeq(reports)
    BY DEF FamiliesInv, Tables
  <2> QED BY <2>1, ReportAdded
<1> HIDE DEF new
<1>w. Working(job[p]) /\ job[p].tag # NoId
  BY DEF Working, At, FamiliesInv, Tables, IsJob
<1>f. /\ row.kids = {k \in Ids : reports[k].wf = row.wf}
      /\ \A k \in row.kids : ~reports[k].parent /\ reports[k].strategy = row.strategy
  BY <1>w DEF FamiliesInv, Family
<1>3. Tables'
  <2>1. \A q \in Procs : IsJob(job'[q])
    BY <1>1 DEF FamiliesInv, Tables
  <2>2. \A i \in Ids' : IsRow(reports'[i])
    BY <1>2 DEF FamiliesInv, Tables
  <2> QED
    BY <1>1, <1>2, <2>1, <2>2 DEF Tables
<1>4. Apart'
  BY <1>1 DEF FamiliesInv, Apart, At, Working
<1>5. \A q \in Procs : Claim(job[q])'
  <2> TAKE q \in Procs
  <2>1. CASE q # p
    <3>1. PICK w : w = job[q] /\ w = job'[q]
      BY <1>1, <2>1
    <3>2. /\ w.at \in {"tag", "verdict"} => w.saved \in Ids
          /\ w.at = "tag" => Blank(reports[w.saved]) /\ reports[w.saved].strategy = w.strategy
      BY <3>1 DEF FamiliesInv, Claim
    <3>3. \A i \in Ids : i \in Ids' /\ reports'[i] = reports[i]
      BY <1>2
    <3> QED
      BY <3>1, <3>2, <3>3 DEF Claim
  <2>2. CASE q = p
    BY <1>1, <2>2 DEF Claim
  <2> QED BY <2>1, <2>2
<1>6. \A q \in Procs : Family(job[q])'
  <2> SUFFICES ASSUME NEW q \in Procs, Working(job'[q]), job'[q].op = "walkforward"
               PROVE  /\ job'[q].kids = {k \in Ids' : reports'[k].wf = job'[q].tag}
                      /\ \A k \in job'[q].kids : ~reports'[k].parent /\ reports'[k].strategy = job'[q].strategy
    BY DEF Family
  <2>1. q # p /\ job'[q] = job[q]
    BY <1>1 DEF Working
  <2>2. job[q].tag # row.wf
    BY <1>w, <2>1 DEF FamiliesInv, Apart
  <2>3. /\ job[q].kids = {k \in Ids : reports[k].wf = job[q].tag}
        /\ \A k \in job[q].kids : ~reports[k].parent /\ reports[k].strategy = job[q].strategy
    BY <2>1 DEF FamiliesInv, Family
  <2>4. reports'[new].wf = row.wf
    BY <1>2
  <2>5. \A k \in Ids' : reports'[k].wf = job[q].tag <=> k \in job[q].kids
    BY <1>2, <2>2, <2>3, <2>4
  <2>6. job[q].kids \subseteq Ids'
    BY <1>2, <2>3
  <2>7. \A k \in job[q].kids : ~reports'[k].parent /\ reports'[k].strategy = job[q].strategy
    BY <1>2, <2>3
  <2> QED
    BY <2>1, <2>5, <2>6, <2>7
<1>7. Kinship'
  <2>1. ASSUME NEW i \in Ids, reports[i].parent
        PROVE /\ reports'[i].wf # NoId
              /\ reports'[i].kids = {k \in Ids' \ {i} : reports'[k].wf = reports'[i].wf}
              /\ \A k \in reports'[i].kids : k < i /\ reports'[k].strategy = reports'[i].strategy
    <3>2. /\ reports[i].wf # NoId
          /\ reports[i].kids = {k \in Ids \ {i} : reports[k].wf = reports[i].wf}
          /\ \A k \in reports[i].kids : k < i /\ reports[k].strategy = reports[i].strategy
      BY <2>1 DEF FamiliesInv, Kinship
    <3>3. reports[i].wf # row.wf
      BY <1>f, <2>1
    <3>4. reports'[i].kids = reports[i].kids /\ reports'[i].wf = reports[i].wf
          /\ reports'[i].strategy = reports[i].strategy
      BY <1>2
    <3>5. \A k \in Ids' \ {i} : reports'[k].wf = reports[i].wf <=> k \in reports[i].kids
      BY <1>2, <3>2, <3>3
    <3>6. reports[i].kids \subseteq Ids' \ {i}
      BY <1>2, <3>2
    <3>7. \A k \in reports[i].kids : k < i /\ reports'[k].strategy = reports[i].strategy
      BY <1>2, <3>2
    <3> QED
      BY <3>2, <3>4, <3>5, <3>6, <3>7
  <2>2. /\ row.wf # NoId
        /\ row.kids = {k \in Ids' \ {new} : reports'[k].wf = row.wf}
        /\ \A k \in row.kids : k < new /\ reports'[k].strategy = row.strategy
    BY <1>2, <1>f, <1>w
  <2>3. \A i \in Ids' : reports'[i].sweep = NoId \/ reports'[i].wf = NoId
    BY <1>2 DEF FamiliesInv, Kinship
  <2>4. \A i \in Ids : reports'[i].parent => reports[i].parent
    BY <1>2
  <2>5. ASSUME NEW i \in Ids', reports'[i].parent
        PROVE /\ reports'[i].wf # NoId
              /\ reports'[i].kids = {k \in Ids' \ {i} : reports'[k].wf = reports'[i].wf}
              /\ \A k \in reports'[i].kids : k < i /\ reports'[k].strategy = reports'[i].strategy
    <3>1. CASE i \in Ids
      BY <2>1, <2>4, <2>5, <3>1
    <3>2. CASE i = new
      <4>1. reports'[i].wf = row.wf /\ reports'[i].kids = row.kids
            /\ reports'[i].strategy = row.strategy
        BY <1>2, <3>2
      <4>2. \A k \in Ids' \ {i} : reports'[k].wf = row.wf <=> k \in row.kids
        BY <2>2, <3>2
      <4>3. row.kids \subseteq Ids' \ {i}
        BY <2>2, <3>2
      <4> QED
        BY <2>2, <3>2, <4>1, <4>2, <4>3
    <3> QED BY <1>2, <3>1, <3>2
  <2> QED
    BY <2>3, <2>5 DEF Kinship
<1>8. Forked'
  <2> SUFFICES ASSUME NEW tag \in DOMAIN forks
               PROVE  /\ tag # NoId
                      /\ \E i \in Ids' : /\ reports'[i].sweep = tag
                                         /\ reports'[i].ran.over = forks[tag]
    BY DEF Forked
  <2>1. tag # NoId /\ \E i \in Ids : reports[i].sweep = tag /\ reports[i].ran.over = forks[tag]
    BY DEF FamiliesInv, Forked
  <2> QED
    BY <1>2, <2>1
<1>9. Strays'
  <2>1. Untagged' \subseteq Untagged
    BY <1>2 DEF Untagged
  <2>2. \A q \in Procs : At(q, "tag") => At(q, "tag")' /\ job'[q].saved = job[q].saved
    BY <1>1 DEF At
  <2> QED
    BY <2>1, <2>2 DEF FamiliesInv, Strays, At
<1> QED
  BY <1>3, <1>4, <1>5, <1>6, <1>7, <1>8, <1>9 DEF FamiliesInv

(* An UPDATE changes its own row only. *)
LEMMA ReportReplaced ==
  ASSUME IsSeq(reports), NEW k \in Ids, NEW row, reports' = [reports EXCEPT ![k] = row]
  PROVE  /\ IsSeq(reports)'
         /\ Ids' = Ids /\ reports'[k] = row
         /\ \A i \in Ids : i # k => reports'[i] = reports[i]
<1>1. PICK s, t : s = reports /\ t = reports'
  OBVIOUS
<1>2. t = [s EXCEPT ![k] = row] /\ IsSeq(s) /\ k \in DOMAIN s
  BY <1>1 DEF Ids
<1>3. IsSeq(t) /\ DOMAIN t = DOMAIN s
  BY <1>2, Replaced
<1>4. t[k] = row /\ \A i \in DOMAIN s : i # k => t[i] = s[i]
  BY <1>2, Replaced
<1> QED
  BY <1>1, <1>3, <1>4 DEF Ids

(* A sweep tags a combo, a walk-forward a window: an UPDATE of one column  *)
(* of the row the handler saved last.                                      *)
LEMMA Retagged ==
  ASSUME FamiliesInv, NEW p \in Procs, At(p, "tag"), NEW n, IsJob(n), n.at = "run",
         n.op = job[p].op, n.tag = job[p].tag, n.strategy = job[p].strategy,
         NEW row, IsRow(row),
         row.parent = reports[job[p].saved].parent, row.kids = reports[job[p].saved].kids,
         row.strategy = reports[job[p].saved].strategy, row.ran = reports[job[p].saved].ran,
         \/ /\ job[p].op = "sweep" /\ n.kids = job[p].kids
            /\ row.sweep = job[p].tag /\ row.wf = NoId
         \/ /\ job[p].op = "walkforward" /\ n.kids = job[p].kids \cup {job[p].saved}
            /\ row.sweep = NoId /\ row.wf = job[p].tag,
         job' = [job EXCEPT ![p] = n], reports' = [reports EXCEPT ![job[p].saved] = row],
         UNCHANGED <<forks, orphans>>
  PROVE  FamiliesInv'
<1>1. DOMAIN job = Procs /\ DOMAIN job' = Procs /\ job'[p] = n
      /\ \A q \in Procs \ {p} : job'[q] = job[q]
  BY DEF FamiliesInv, Tables
<1>c. PICK k : k = job[p].saved
  OBVIOUS
<1>b. k \in Ids /\ reports[k].sweep = NoId /\ reports[k].wf = NoId /\ ~reports[k].parent
      /\ reports[k].strategy = job[p].strategy
  BY <1>c DEF FamiliesInv, Claim, At, Blank
<1>r. /\ row.parent = reports[k].parent /\ row.kids = reports[k].kids
      /\ row.strategy = reports[k].strategy /\ row.ran = reports[k].ran
  BY <1>c
<1>2. /\ IsSeq(reports)'
      /\ Ids' = Ids /\ reports'[k] = row
      /\ \A i \in Ids : i # k => reports'[i] = reports[i]
  <2>1. IsSeq(reports) /\ reports' = [reports EXCEPT ![k] = row]
    BY <1>c DEF FamiliesInv, Tables
  <2> QED BY <2>1, <1>b, ReportReplaced
<1>w. Working(job[p]) /\ Working(n) /\ job[p].tag # NoId
  BY DEF Working, At, FamiliesInv, Tables, IsJob
<1>o. \A q \in Procs : q # p /\ Working(job[q]) => job[q].tag # job[p].tag
  BY <1>w DEF FamiliesInv, Apart
<1>3. Tables'
  <2>1. \A q \in Procs : IsJob(job'[q])
    BY <1>1 DEF FamiliesInv, Tables
  <2>2. \A i \in Ids' : IsRow(reports'[i])
    BY <1>2 DEF FamiliesInv, Tables
  <2> QED
    BY <1>1, <1>2, <2>1, <2>2 DEF Tables
<1>4. Apart'
  <2>1. \A q, r \in Procs : q # r /\ Working(job'[q]) /\ Working(job'[r])
                              => job'[q].tag # job'[r].tag
    <3> TAKE q, r \in Procs
    <3>1. CASE q = p
      BY <1>1, <1>o, <3>1
    <3>2. CASE r = p
      BY <1>1, <1>o, <3>2
    <3>3. CASE q # p /\ r # p
      BY <1>1, <3>3 DEF FamiliesInv, Apart
    <3> QED BY <3>1, <3>2, <3>3
  <2>2. \A q, r \in Procs : q # r /\ job'[q].at = "tag" /\ job'[r].at = "tag"
                              => job'[q].saved # job'[r].saved
    BY <1>1 DEF FamiliesInv, Apart, At
  <2> QED
    BY <2>1, <2>2 DEF Apart, At
<1>5. \A q \in Procs : Claim(job[q])'
  <2> TAKE q \in Procs
  <2>1. CASE q = p
    BY <1>1, <2>1 DEF Claim
  <2>2. CASE q # p
    <3>1. job'[q] = job[q] /\ (job[q].at = "tag" => job[q].saved # k)
      BY <1>1, <1>c, <2>2 DEF FamiliesInv, Apart, At
    <3> QED
      BY <1>2, <3>1 DEF FamiliesInv, Claim
  <2> QED BY <2>1, <2>2
<1>6. \A q \in Procs : Family(job[q])'
  <2> SUFFICES ASSUME NEW q \in Procs, Working(job'[q]), job'[q].op = "walkforward"
               PROVE  /\ job'[q].kids = {i \in Ids' : reports'[i].wf = job'[q].tag}
                      /\ \A i \in job'[q].kids : ~reports'[i].parent /\ reports'[i].strategy = job'[q].strategy
    BY DEF Family
  <2>1. Working(job[q]) /\ job[q].op = "walkforward" /\ job'[q].tag = job[q].tag
        /\ job'[q].strategy = job[q].strategy
    <3>1. CASE q = p
      BY <1>1, <1>w, <3>1
    <3>2. CASE q # p
      BY <1>1, <3>2
    <3> QED BY <3>1, <3>2
  <2>2. job[q].tag # NoId
    BY <2>1 DEF FamiliesInv, Tables, IsJob
  <2>3. /\ job[q].kids = {i \in Ids : reports[i].wf = job[q].tag}
        /\ \A i \in job[q].kids : ~reports[i].parent /\ reports[i].strategy = job[q].strategy
    BY <2>1 DEF FamiliesInv, Family
  <2>4. CASE q = p
    <3>1. job'[q].kids = job[p].kids \cup {k} /\ row.wf = job[p].tag
      BY <1>1, <1>c, <2>1, <2>4
    <3>2. job[p].kids = {i \in Ids : reports[i].wf = job[p].tag}
      BY <2>3, <2>4
    <3>3. \A i \in Ids : reports'[i].wf = job[p].tag <=> i \in job[p].kids \cup {k}
      BY <1>2, <1>b, <3>1, <3>2
    <3>4. job[p].kids \cup {k} \subseteq Ids
      BY <3>2, <1>b
    <3>5. \A i \in job[p].kids \cup {k} : ~reports'[i].parent /\ reports'[i].strategy = job[p].strategy
      BY <1>2, <1>b, <1>r, <2>3, <2>4
    <3> QED
      BY <1>2, <2>1, <2>4, <3>1, <3>3, <3>4, <3>5
  <2>5. CASE q # p
    <3>1. job'[q].kids = job[q].kids /\ job[q].tag # job[p].tag
      BY <1>1, <1>o, <2>1, <2>5
    <3>2. row.wf # job[q].tag
      BY <2>2, <3>1
    <3> QED
      BY <1>2, <1>b, <2>1, <2>2, <2>3, <3>1, <3>2
  <2> QED BY <2>4, <2>5
<1>7. Kinship'
  <2>1. \A i \in Ids : reports[i].parent => i # k /\ reports[i].wf # row.wf
    <3> SUFFICES ASSUME NEW i \in Ids, reports[i].parent PROVE i # k /\ reports[i].wf # row.wf
      OBVIOUS
    <3>1. i # k
      BY <1>b
    <3>2. reports[i].wf # NoId
      BY DEF FamiliesInv, Kinship
    <3>3. job[p].op = "walkforward" => reports[i].wf # job[p].tag
      BY <1>w DEF FamiliesInv, Family
    <3> QED BY <3>1, <3>2, <3>3
  <2>2. ASSUME NEW i \in Ids', reports'[i].parent
        PROVE /\ reports'[i].wf # NoId
              /\ reports'[i].kids = {j \in Ids' \ {i} : reports'[j].wf = reports'[i].wf}
              /\ \A j \in reports'[i].kids : j < i /\ reports'[j].strategy = reports'[i].strategy
    <3>1. i \in Ids /\ i # k /\ reports'[i] = reports[i] /\ reports[i].parent
      BY <1>2, <1>r, <1>b, <2>2
    <3>2. /\ reports[i].wf # NoId
          /\ reports[i].kids = {j \in Ids \ {i} : reports[j].wf = reports[i].wf}
          /\ \A j \in reports[i].kids : j < i /\ reports[j].strategy = reports[i].strategy
      BY <3>1 DEF FamiliesInv, Kinship
    <3>3. reports[i].wf # row.wf
      BY <2>1, <3>1
    <3>4. reports'[i].kids = reports[i].kids /\ reports'[i].wf = reports[i].wf
          /\ reports'[i].strategy = reports[i].strategy
      BY <3>1
    <3>5. \A j \in Ids' \ {i} : reports'[j].wf = reports[i].wf <=> j \in reports[i].kids
      BY <1>2, <1>b, <3>2, <3>3
    <3>6. reports[i].kids \subseteq Ids' \ {i}
      BY <1>2, <3>2
    <3>7. \A j \in reports[i].kids : j < i /\ reports'[j].strategy = reports[i].strategy
      BY <1>2, <1>r, <3>2
    <3> QED
      BY <3>2, <3>4, <3>5, <3>6, <3>7
  <2>3. \A i \in Ids' : reports'[i].sweep = NoId \/ reports'[i].wf = NoId
    BY <1>2 DEF FamiliesInv, Kinship
  <2> QED
    BY <2>2, <2>3 DEF Kinship
<1>8. Forked'
  <2> SUFFICES ASSUME NEW tag \in DOMAIN forks
               PROVE  /\ tag # NoId
                      /\ \E i \in Ids' : /\ reports'[i].sweep = tag
                                         /\ reports'[i].ran.over = forks[tag]
    BY DEF Forked
  <2>1. tag # NoId /\ \E i \in Ids : reports[i].sweep = tag /\ reports[i].ran.over = forks[tag]
    BY DEF FamiliesInv, Forked
  <2>2. PICK i \in Ids : reports[i].sweep = tag /\ reports[i].ran.over = forks[tag]
    BY <2>1
  <2>3. i # k
    BY <1>b, <2>1, <2>2
  <2> QED
    BY <1>2, <2>1, <2>2, <2>3
<1>9. Strays'
  <2>1. Untagged' \subseteq Untagged \ {k}
    <3>1. row.sweep # NoId \/ row.wf # NoId
      BY <1>w
    <3> QED BY <1>2, <3>1 DEF Untagged
  <2>2. \A q \in Procs : At(q, "tag") => job[q].saved = k \/ (At(q, "tag")' /\ job'[q].saved = job[q].saved)
    BY <1>1, <1>c DEF At
  <2> QED
    BY <2>1, <2>2 DEF FamiliesInv, Strays, At
<1> QED
  BY <1>3, <1>4, <1>5, <1>6, <1>7, <1>8, <1>9 DEF FamiliesInv

(* reparity_report replaces a verdict, and nothing else of the row. *)
LEMMA Rejudged ==
  ASSUME FamiliesInv, NEW p \in Procs, At(p, "verdict"),
         NEW n, IsJob(n), n.at = "idle", NEW row, IsRow(row),
         row.sweep = reports[job[p].saved].sweep, row.wf = reports[job[p].saved].wf,
         row.parent = reports[job[p].saved].parent, row.kids = reports[job[p].saved].kids,
         row.strategy = reports[job[p].saved].strategy, row.ran = reports[job[p].saved].ran,
         job' = [job EXCEPT ![p] = n], reports' = [reports EXCEPT ![job[p].saved] = row],
         UNCHANGED <<forks, orphans>>
  PROVE  FamiliesInv'
<1>1. DOMAIN job = Procs /\ DOMAIN job' = Procs /\ job'[p] = n
      /\ \A q \in Procs \ {p} : job'[q] = job[q]
  BY DEF FamiliesInv, Tables
<1>c. PICK k : k = job[p].saved
  OBVIOUS
<1>b. k \in Ids
  BY <1>c DEF FamiliesInv, Claim, At
<1>r. /\ row.parent = reports[k].parent /\ row.kids = reports[k].kids
      /\ row.strategy = reports[k].strategy /\ row.ran = reports[k].ran
      /\ row.sweep = reports[k].sweep /\ row.wf = reports[k].wf
  BY <1>c
<1>2. /\ IsSeq(reports)'
      /\ Ids' = Ids /\ reports'[k] = row
      /\ \A i \in Ids : i # k => reports'[i] = reports[i]
  <2>1. IsSeq(reports) /\ reports' = [reports EXCEPT ![k] = row]
    BY <1>c DEF FamiliesInv, Tables
  <2> QED BY <2>1, <1>b, ReportReplaced
<1>s. \A i \in Ids :
        /\ reports'[i].parent = reports[i].parent /\ reports'[i].kids = reports[i].kids
        /\ reports'[i].strategy = reports[i].strategy /\ reports'[i].ran = reports[i].ran
        /\ reports'[i].sweep = reports[i].sweep /\ reports'[i].wf = reports[i].wf
  BY <1>2, <1>r
<1>3. Tables'
  <2>1. \A q \in Procs : IsJob(job'[q])
    BY <1>1 DEF FamiliesInv, Tables
  <2>2. \A i \in Ids' : IsRow(reports'[i])
    BY <1>2 DEF FamiliesInv, Tables
  <2> QED
    BY <1>1, <1>2, <2>1, <2>2 DEF Tables
<1>4. Apart'
  BY <1>1 DEF FamiliesInv, Apart, At, Working
<1>5. \A q \in Procs : Claim(job[q])'
  <2> TAKE q \in Procs
  <2>1. CASE q = p
    BY <1>1, <2>1 DEF Claim
  <2>2. CASE q # p
    <3>1. job'[q] = job[q]
      BY <1>1, <2>2
    <3>2. Claim(job[q])
      BY DEF FamiliesInv
    <3> QED
      BY <1>2, <1>s, <3>1, <3>2 DEF Claim, Blank
  <2> QED BY <2>1, <2>2
<1>6. \A q \in Procs : Family(job[q])'
  <2> SUFFICES ASSUME NEW q \in Procs, Working(job'[q]), job'[q].op = "walkforward"
               PROVE  /\ job'[q].kids = {i \in Ids' : reports'[i].wf = job'[q].tag}
                      /\ \A i \in job'[q].kids : ~reports'[i].parent /\ reports'[i].strategy = job'[q].strategy
    BY DEF Family
  <2>1. q # p /\ job'[q] = job[q]
    BY <1>1 DEF Working
  <2>3. /\ job[q].kids = {i \in Ids : reports[i].wf = job[q].tag}
        /\ \A i \in job[q].kids : ~reports[i].parent /\ reports[i].strategy = job[q].strategy
    BY <2>1 DEF FamiliesInv, Family
  <2> QED
    BY <1>2, <1>s, <2>1, <2>3
<1>7. Kinship'
  <2>2. ASSUME NEW i \in Ids', reports'[i].parent
        PROVE /\ reports'[i].wf # NoId
              /\ reports'[i].kids = {j \in Ids' \ {i} : reports'[j].wf = reports'[i].wf}
              /\ \A j \in reports'[i].kids : j < i /\ reports'[j].strategy = reports'[i].strategy
    <3>1. i \in Ids /\ reports[i].parent
      BY <1>2, <1>s, <2>2
    <3>2. /\ reports[i].wf # NoId
          /\ reports[i].kids = {j \in Ids \ {i} : reports[j].wf = reports[i].wf}
          /\ \A j \in reports[i].kids : j < i /\ reports[j].strategy = reports[i].strategy
      BY <3>1 DEF FamiliesInv, Kinship
    <3> QED
      BY <1>2, <1>s, <3>1, <3>2
  <2>3. \A i \in Ids' : reports'[i].sweep = NoId \/ reports'[i].wf = NoId
    BY <1>2, <1>s DEF FamiliesInv, Kinship
  <2> QED
    BY <2>2, <2>3 DEF Kinship
<1>8. Forked'
  <2> SUFFICES ASSUME NEW tag \in DOMAIN forks
               PROVE  /\ tag # NoId
                      /\ \E i \in Ids' : /\ reports'[i].sweep = tag
                                         /\ reports'[i].ran.over = forks[tag]
    BY DEF Forked
  <2>1. tag # NoId /\ \E i \in Ids : reports[i].sweep = tag /\ reports[i].ran.over = forks[tag]
    BY DEF FamiliesInv, Forked
  <2>2. PICK i \in Ids : reports[i].sweep = tag /\ reports[i].ran.over = forks[tag]
    BY <2>1
  <2> QED
    BY <1>2, <1>s, <2>1, <2>2
<1>9. Strays'
  <2>1. Untagged' = Untagged
    BY <1>2, <1>s DEF Untagged
  <2>2. \A q \in Procs : At(q, "tag") => At(q, "tag")' /\ job'[q].saved = job[q].saved
    BY <1>1 DEF At
  <2> QED
    BY <2>1, <2>2 DEF FamiliesInv, Strays, At
<1> QED
  BY <1>3, <1>4, <1>5, <1>6, <1>7, <1>8, <1>9 DEF FamiliesInv

(* Nobody's row or job changes, but a sweep may be forked. *)
LEMMA ForkedOrNot ==
  ASSUME FamiliesInv, UNCHANGED <<reports, job, orphans>>,
         \/ forks' = forks
         \/ \E id \in Ids :
              /\ reports[id].sweep # NoId
              /\ forks' = [t \in DOMAIN forks \cup {reports[id].sweep} |->
                             IF t = reports[id].sweep THEN reports[id].ran.over ELSE forks[t]]
  PROVE  FamiliesInv'
<1>1. Ids' = Ids
  BY DEF Ids
<1>2. Forked'
  <2>1. CASE forks' = forks
    BY <1>1, <2>1 DEF FamiliesInv, Forked
  <2>2. ASSUME NEW id \in Ids, reports[id].sweep # NoId,
               forks' = [t \in DOMAIN forks \cup {reports[id].sweep} |->
                           IF t = reports[id].sweep THEN reports[id].ran.over ELSE forks[t]]
        PROVE  Forked'
    <3> SUFFICES ASSUME NEW tag \in DOMAIN forks'
                 PROVE  /\ tag # NoId
                        /\ \E i \in Ids : /\ reports[i].sweep = tag
                                          /\ reports[i].ran.over = forks'[tag]
      BY <1>1 DEF Forked
    <3>1. CASE tag = reports[id].sweep
      BY <2>2, <3>1
    <3>2. CASE tag # reports[id].sweep
      BY <2>2, <3>2 DEF FamiliesInv, Forked
    <3> QED BY <3>1, <3>2
  <2> QED
    BY <2>1, <2>2
<1>3. UNCHANGED <<Tables, Apart, Kinship, Strays>>
  BY <1>1 DEF Tables, Apart, Kinship, Strays, Untagged, At
<1>4. \A p \in Procs : Claim(job[p])' /\ Family(job[p])'
  BY <1>1 DEF FamiliesInv, Claim, Family
<1> QED
  BY <1>2, <1>3, <1>4 DEF FamiliesInv

------------------------------------------------------------------------------
(* What the handlers hold after each step. *)
LEMMA IdleJob == IsJob(Idle) /\ Idle.at = "idle" /\ ~Working(Idle)
BY DEF IsJob, Idle, Entries, Working, NoId

(* save_report's verdict changes no other column. *)
LEMMA JudgedRow ==
  ASSUME NEW r, DOMAIN r = Columns, NEW row \in Judged(r)
  PROVE  /\ DOMAIN row = Columns
         /\ \A c \in Columns \ {"parity"} : row[c] = r[c]
         /\ row.parity \in Parities(r)
BY DEF Judged, Columns

(* A run yields a row without tags, of its strategy and what it was given. *)
LEMMA ResultRow ==
  ASSUME NEW s, NEW ran, NEW row \in Judged(Result(s, ran))
  PROVE  IsRow(row) /\ Blank(row) /\ row.strategy = s /\ row.ran = ran
<1> DEFINE r == Result(s, ran)
<1>1. /\ DOMAIN r = Columns
      /\ r.sweep = NoId /\ r.wf = NoId /\ r.parent = FALSE /\ r.strategy = s /\ r.ran = ran
  BY DEF Result, Columns
<1> HIDE DEF r
<1>2. DOMAIN row = Columns /\ \A c \in Columns \ {"parity"} : row[c] = r[c]
  BY <1>1, JudgedRow DEF r
<1>3. {"sweep", "wf", "parent", "strategy", "ran"} \subseteq Columns \ {"parity"}
  BY DEF Columns
<1> QED
  BY <1>1, <1>2, <1>3 DEF IsRow, Blank, NoId

(* RunAndHold: the handler holds the row of its run. *)
LEMMA RunStep ==
  ASSUME FamiliesInv, NEW p \in Procs, At(p, "run"), NEW window, NEW over,
         job[p].op = "backtest" => over = Stored,
         RunAndHold(p, window, over), UNCHANGED <<reports, forks, orphans>>
  PROVE  FamiliesInv'
<1>1. PICK row \in Judged(Result(job[p].strategy, InputOf(p, window, over))) :
         Become(p, [job[p] EXCEPT !.at = "save", !.row = {row}])
  BY DEF RunAndHold
<1>2. PICK w, n : w = job[p] /\ n = [w EXCEPT !.at = "save", !.row = {row}]
  OBVIOUS
<1>3. job' = [job EXCEPT ![p] = n]
  BY <1>1, <1>2 DEF Become
<1>4. IsJob(w) /\ w.at = "run"
  BY <1>2 DEF FamiliesInv, Tables, At
<1>5. PICK s, ran : s = w.strategy /\ ran = InputOf(p, window, over)
  OBVIOUS
<1>6. row \in Judged(Result(s, ran)) /\ ran.over = over
  BY <1>1, <1>2, <1>5 DEF InputOf, Input
<1>7. /\ IsJob(n) /\ n.at = "save" /\ n.op = w.op /\ n.tag = w.tag
      /\ n.kids = w.kids /\ n.strategy = w.strategy
  <2>1. /\ IsRow(row) /\ Blank(row) /\ row.strategy = w.strategy
        /\ w.op = "backtest" => row.ran.over = Stored
    BY <1>2, <1>5, <1>6, ResultRow
  <2>2. s = w.strategy /\ n = [w EXCEPT !.at = "save", !.row = {row}]
    BY <1>2, <1>5
  <2>3. /\ DOMAIN n = Entries /\ n.at = "save" /\ n.row = {row}
        /\ n.op = w.op /\ n.tag = w.tag /\ n.kids = w.kids /\ n.strategy = w.strategy
    BY <1>4, <2>2 DEF IsJob, Entries
  <2>4. Working(n) => Working(w)
    BY <1>4, <2>3 DEF Working
  <2> QED BY <1>4, <2>1, <2>3, <2>4 DEF IsJob
<1>8. Working(n) => Working(w)
  BY <1>4, <1>7 DEF Working
<1> QED
  BY <1>2, <1>3, <1>4, <1>7, <1>8, Turned DEF At

(* A handler goes on to another run of its sweep or walk-forward, or ends. *)
LEMMA MovesOn ==
  ASSUME FamiliesInv, NEW p \in Procs, At(p, "run"), NEW n, Become(p, n),
         UNCHANGED <<reports, forks, orphans>>,
         \/ n = Idle
         \/ /\ job[p].op \in {"backtest", "sweep"} /\ job[p].todo # << >>
            /\ n = [job[p] EXCEPT !.todo = Tail(@)]
         \/ /\ job[p].op = "walkforward"
            /\ n = [job[p] EXCEPT !.cur = NextWindow(p)]
  PROVE  FamiliesInv'
<1>1. PICK w, cur : w = job[p] /\ cur = NextWindow(p)
  OBVIOUS
<1>2. IsJob(w) /\ w.at = "run"
  BY <1>1 DEF FamiliesInv, Tables, At
<1>3. job' = [job EXCEPT ![p] = n]
  BY DEF Become
<1>4. CASE n = Idle
  BY <1>1, <1>2, <1>3, <1>4, IdleJob, Turned DEF At
<1>5. CASE /\ w.op \in {"backtest", "sweep"} /\ w.todo # << >>
           /\ n = [w EXCEPT !.todo = Tail(@)]
  <2>1. /\ DOMAIN n = Entries /\ n.at = "run" /\ n.todo = Tail(w.todo)
        /\ n.op = w.op /\ n.tag = w.tag /\ n.kids = w.kids /\ n.strategy = w.strategy
    BY <1>2, <1>5 DEF IsJob, Entries
  <2>2. w.op = "backtest" => n.todo = << >>
    <3>1. Tail(<<Stored>>) = << >>
      OBVIOUS
    <3> QED BY <1>2, <1>5, <2>1, <3>1 DEF IsJob
  <2>3. IsJob(n) /\ (Working(n) => Working(w))
    BY <1>2, <1>5, <2>1, <2>2 DEF IsJob, Working
  <2> QED
    BY <1>1, <1>2, <1>3, <2>1, <2>3, Turned DEF At
<1>6. CASE w.op = "walkforward" /\ n = [w EXCEPT !.cur = cur]
  <2>1. /\ DOMAIN n = Entries /\ n.at = "run"
        /\ n.op = w.op /\ n.tag = w.tag /\ n.kids = w.kids /\ n.strategy = w.strategy
    BY <1>2, <1>6 DEF IsJob, Entries
  <2>3. IsJob(n) /\ (Working(n) => Working(w))
    BY <1>2, <1>6, <2>1 DEF IsJob, Working
  <2> QED
    BY <1>1, <1>2, <1>3, <2>1, <2>3, Turned DEF At
<1> QED
  BY <1>1, <1>4, <1>5, <1>6

(* save_report's INSERT, of the row the handler holds. *)
LEMMA SaveStep ==
  ASSUME FamiliesInv, NEW p \in Procs, SaveResult(p)
  PROVE  FamiliesInv'
<1>1. PICK w, id : w = job[p] /\ id = Len(reports) + 1
  OBVIOUS
<1>2. IsJob(w) /\ w.at = "save"
  BY <1>1 DEF FamiliesInv, Tables, SaveResult, At
<1>3. PICK row \in w.row : reports' = Append(reports, row)
  BY <1>1 DEF SaveResult
<1>4. IsRow(row) /\ Blank(row) /\ row.strategy = w.strategy
      /\ (w.op = "backtest" => row.ran.over = Stored)
  BY <1>2, <1>3 DEF IsJob
<1>5. UNCHANGED <<forks, orphans>> /\ ~At(p, "tag")
  BY <1>1, <1>2 DEF SaveResult, rest, At
<1>6. CASE w.op = "backtest"
  <2>1. job' = [job EXCEPT ![p] = Idle]
    BY <1>1, <1>6 DEF SaveResult, Become
  <2> QED
    BY <1>3, <1>4, <1>5, <1>6, <2>1, IdleJob, Inserted
<1>7. CASE w.op # "backtest"
  <2>1. PICK n : n = [w EXCEPT !.at = "tag", !.row = {}, !.saved = id]
    OBVIOUS
  <2>2. job' = [job EXCEPT ![p] = n]
    BY <1>1, <1>7, <2>1 DEF SaveResult, Become
  <2>3. /\ DOMAIN n = Entries /\ n.at = "tag" /\ n.saved = id
        /\ n.op = w.op /\ n.tag = w.tag /\ n.kids = w.kids /\ n.strategy = w.strategy
    BY <1>2, <2>1 DEF IsJob, Entries
  <2>4. IsJob(n) /\ Working(w)
    BY <1>2, <1>7, <2>3 DEF IsJob, Working
  <2> QED
    BY <1>1, <1>3, <1>4, <1>5, <2>2, <2>3, <2>4, Inserted
<1> QED
  BY <1>6, <1>7

(* tag_report, and the UPDATE of a walk-forward's window. *)
LEMMA TagStep ==
  ASSUME FamiliesInv, NEW p \in Procs, TagCombo(p) \/ TagWindow(p)
  PROVE  FamiliesInv'
<1>1. PICK w, r, cur, sum : /\ w = job[p] /\ r = reports[w.saved] /\ cur = NextWindow(p)
                           /\ sum = EndOf(r.ran, r.trades)
  OBVIOUS
<1>2. IsJob(w) /\ w.at = "tag" /\ At(p, "tag")
  BY <1>1 DEF FamiliesInv, Tables, TagCombo, TagWindow, At
<1>3. w.saved \in Ids /\ IsRow(r) /\ Blank(r)
  BY <1>1, <1>2 DEF FamiliesInv, Tables, Claim
<1>4. UNCHANGED <<forks, orphans>>
  BY DEF TagCombo, TagWindow, rest
<1>5. CASE TagCombo(p)
  <2>1. PICK n, row : /\ n = [w EXCEPT !.at = "run", !.todo = Tail(@), !.saved = NoId]
                      /\ row = [r EXCEPT !.sweep = w.tag]
    OBVIOUS
  <2>2. job' = [job EXCEPT ![p] = n] /\ reports' = [reports EXCEPT ![w.saved] = row]
        /\ w.op = "sweep"
    BY <1>1, <1>5, <2>1 DEF TagCombo, Become
  <2>3. /\ DOMAIN n = Entries /\ n.at = "run"
        /\ n.op = w.op /\ n.tag = w.tag /\ n.kids = w.kids /\ n.strategy = w.strategy
    BY <1>2, <2>1 DEF IsJob, Entries
  <2>4. IsJob(n)
    BY <1>2, <2>2, <2>3 DEF IsJob, Working
  <2>5. /\ IsRow(row) /\ row.sweep = w.tag /\ row.wf = NoId /\ row.parent = r.parent
        /\ row.kids = r.kids /\ row.strategy = r.strategy /\ row.ran = r.ran
    <3>1. w.tag \in Nat
      BY <1>2 DEF IsJob
    <3> QED BY <1>3, <2>1, <3>1 DEF IsRow, Blank, Columns
  <2> QED
    BY <1>1, <1>2, <1>4, <2>2, <2>3, <2>4, <2>5, Retagged
<1>6. CASE TagWindow(p)
  <2>1. PICK n, row : /\ n = [w EXCEPT !.at = "run", !.cur = cur, !.saved = NoId,
                                       !.kids = @ \cup {w.saved}, !.equity = sum]
                      /\ row = [r EXCEPT !.wf = w.tag]
    OBVIOUS
  <2>2. job' = [job EXCEPT ![p] = n] /\ reports' = [reports EXCEPT ![w.saved] = row]
        /\ w.op = "walkforward"
    BY <1>1, <1>6, <2>1 DEF TagWindow, Become, AfterWindow
  <2>3. /\ DOMAIN n = Entries /\ n.at = "run" /\ n.kids = w.kids \cup {w.saved}
        /\ n.op = w.op /\ n.tag = w.tag /\ n.strategy = w.strategy
    BY <1>2, <2>1 DEF IsJob, Entries
  <2>4. IsJob(n)
    BY <1>2, <2>2, <2>3 DEF IsJob, Working
  <2>5. /\ IsRow(row) /\ row.sweep = NoId /\ row.wf = w.tag /\ row.parent = r.parent
        /\ row.kids = r.kids /\ row.strategy = r.strategy /\ row.ran = r.ran
    <3>1. w.tag \in Nat
      BY <1>2 DEF IsJob
    <3> QED BY <1>3, <2>1, <3>1 DEF IsRow, Blank, Columns
  <2> QED
    BY <1>1, <1>2, <1>4, <2>2, <2>3, <2>4, <2>5, Retagged
<1> QED
  BY <1>5, <1>6

(* The parent of a walk-forward is saved with its windows. *)
LEMMA AggregateStep ==
  ASSUME FamiliesInv, NEW p \in Procs, Aggregate(p)
  PROVE  FamiliesInv'
<1>1. PICK w, days, trades, d :
        w = job[p] /\ days = <<w.plan.start, w.plan.end>>
        /\ trades = UNION {reports[k].trades : k \in w.kids} /\ d = today
  OBVIOUS
<1>2. PICK row : row =
       [strategy |-> w.strategy, dates |-> days,
        ran |-> [Input(w.seeder, w.seed, days, Stored, w.initial) EXCEPT !.plan = w.plan],
        trades |-> trades, on |-> d,
        sweep |-> NoId, wf |-> w.tag, parent |-> TRUE, kids |-> w.kids,
        parity |-> NoVerdict]
  OBVIOUS
<1>3. reports' = Append(reports, row) /\ job' = [job EXCEPT ![p] = Idle]
      /\ w.op = "walkforward" /\ At(p, "run")
  BY <1>1, <1>2 DEF Aggregate, Become
<1>4. UNCHANGED <<forks, orphans>>
  BY DEF Aggregate, rest
<1>5. w.tag \in Nat
  BY <1>1 DEF FamiliesInv, Tables, IsJob
<1>6. /\ IsRow(row) /\ row.parent /\ row.sweep = NoId /\ row.ran.over = Stored
      /\ row.wf = w.tag /\ row.kids = w.kids /\ row.strategy = w.strategy
  BY <1>2, <1>5 DEF IsRow, Columns, NoId, Input
<1> QED
  BY <1>1, <1>3, <1>4, <1>6, IdleJob, ParentInserted

(* A new verdict leaves the families alone. *)
LEMMA ReparityStep ==
  ASSUME FamiliesInv, NEW p \in Procs, ReadParity(p) \/ WriteParity(p)
  PROVE  FamiliesInv'
<1>1. UNCHANGED <<forks, orphans>>
  BY DEF ReadParity, WriteParity, rest, reportVars
<1>2. CASE ReadParity(p)
  <2>1. PICK id \in Ids : \E row \in Judged(reports[id]) :
          Become(p, [Idle EXCEPT !.at = "verdict", !.saved = id, !.row = {row}])
    BY <1>2 DEF ReadParity, Ids
  <2>2. PICK row : Become(p, [Idle EXCEPT !.at = "verdict", !.saved = id, !.row = {row}])
    BY <2>1
  <2>3. PICK n : n = [Idle EXCEPT !.at = "verdict", !.saved = id, !.row = {row}]
    OBVIOUS
  <2>4. IsJob(n) /\ n.at = "verdict" /\ n.saved = id /\ ~Working(n)
    BY <2>3 DEF IsJob, Idle, Entries, Working, NoId
  <2>5. job' = [job EXCEPT ![p] = n] /\ UNCHANGED <<reports, forks>> /\ ~At(p, "tag")
    BY <1>2, <2>2, <2>3 DEF Become, ReadParity, reportVars, Free, At
  <2> QED
    BY <1>1, <2>4, <2>5, Turned
<1>3. CASE WriteParity(p)
  <2>1. PICK w, r : w = job[p] /\ r = reports[w.saved]
    OBVIOUS
  <2>2. PICK held \in w.row : reports' = [reports EXCEPT ![w.saved].parity = held.parity]
    BY <1>3, <2>1 DEF WriteParity
  <2>3. PICK row : row = [r EXCEPT !.parity = held.parity]
    OBVIOUS
  <2>4. reports' = [reports EXCEPT ![w.saved] = row]
    BY <2>1, <2>2, <2>3
  <2>5. At(p, "verdict") /\ job' = [job EXCEPT ![p] = Idle]
    BY <1>3 DEF WriteParity, Become
  <2>6. IsRow(r)
    BY <2>1, <2>5 DEF FamiliesInv, Tables, Claim, At
  <2>7. /\ IsRow(row) /\ row.sweep = r.sweep /\ row.wf = r.wf /\ row.parent = r.parent
        /\ row.kids = r.kids /\ row.strategy = r.strategy /\ row.ran = r.ran
    BY <2>3, <2>6 DEF IsRow, Columns
  <2> QED
    BY <1>1, <2>1, <2>4, <2>5, <2>7, IdleJob, Rejudged
<1> QED
  BY <1>2, <1>3

(* What comes in has a strategy, a seeder and a sum, and nothing done yet. *)
Starting(w, op) ==
  /\ DOMAIN w = Entries /\ w.at = "run" /\ w.op = op
  /\ w.kids = {} /\ w.todo = << >> /\ w.tag = NoId /\ w.row = {} /\ w.saved = NoId

LEMMA AskedIs ==
  ASSUME NEW p \in Procs, NEW op, NEW w \in Asked(p, op)
  PROVE  Starting(w, op)
<1>1. PICK s \in duty[p].on, seeder \in duty[p].seeders, given \in duty[p].given :
        w = Request(op, s, seeder, given)
  BY DEF Asked
<1>2. PICK a, b : a = given[1] /\ b = given[2]
  OBVIOUS
<1> QED
  BY <1>1, <1>2 DEF Request, Idle, Entries, Starting

(* A handler starts with no report of its own. *)
LEMMA StartStep ==
  ASSUME FamiliesInv, NEW p \in Procs,
         StartBacktest(p) \/ StartSweep(p) \/ StartWalkForward(p)
  PROVE  FamiliesInv'
<1>1. UNCHANGED <<reports, forks, orphans>> /\ ~At(p, "tag")
  BY DEF StartBacktest, StartSweep, StartWalkForward, rest, reportVars, Free, At
<1>2. PICK tag : tag = FreshTag
  OBVIOUS
<1>3. tag \in Nat \ {NoId}
  BY <1>2, FreshTagIsFresh
<1>4. CASE StartBacktest(p)
  <2>1. PICK asked \in Asked(p, "backtest"), w \in Windows :
          Become(p, [asked EXCEPT !.window = w, !.todo = <<Stored>>])
    BY <1>4 DEF StartBacktest
  <2>2. PICK n : n = [asked EXCEPT !.window = w, !.todo = <<Stored>>]
    OBVIOUS
  <2>3. IsJob(n) /\ n.at = "run" /\ ~Working(n)
    <3>1. Starting(asked, "backtest")
      BY <2>1, AskedIs
    <3> QED BY <2>2, <3>1 DEF Starting, IsJob, Entries, Working, NoId
  <2>4. job' = [job EXCEPT ![p] = n]
    BY <2>1, <2>2 DEF Become
  <2> QED
    BY <1>1, <2>3, <2>4, Turned
<1>5. CASE StartSweep(p)
  <2>1. PICK asked \in Asked(p, "sweep"), w \in Windows :
          Become(p, [asked EXCEPT !.window = w, !.todo = Combos, !.tag = FreshTag])
    BY <1>5 DEF StartSweep
  <2>2. PICK n : n = [asked EXCEPT !.window = w, !.todo = Combos, !.tag = tag]
    OBVIOUS
  <2>3. IsJob(n) /\ n.at = "run" /\ n.tag = tag /\ n.kids = {}
    <3>1. Starting(asked, "sweep")
      BY <2>1, AskedIs
    <3> QED BY <1>3, <2>2, <3>1 DEF Starting, IsJob, Entries, Working, NoId
  <2>4. job' = [job EXCEPT ![p] = n]
    BY <1>2, <2>1, <2>2 DEF Become
  <2> QED
    BY <1>1, <1>2, <2>3, <2>4, Turned
<1>6. CASE StartWalkForward(p)
  <2>1. PICK asked \in Asked(p, "walkforward"), plan \in Plans :
          Become(p, [asked EXCEPT !.plan = plan, !.cur = plan.start, !.tag = FreshTag])
    BY <1>6 DEF StartWalkForward
  <2>2. PICK n : n = [asked EXCEPT !.plan = plan, !.cur = plan.start, !.tag = tag]
    OBVIOUS
  <2>3. IsJob(n) /\ n.at = "run" /\ n.tag = tag /\ n.kids = {}
    <3>1. Starting(asked, "walkforward")
      BY <2>1, AskedIs
    <3> QED BY <1>3, <2>2, <3>1 DEF Starting, IsJob, Entries, Working, NoId
  <2>4. job' = [job EXCEPT ![p] = n]
    BY <1>2, <2>1, <2>2 DEF Become
  <2> QED
    BY <1>1, <1>2, <2>3, <2>4, Turned
<1> QED
  BY <1>4, <1>5, <1>6

(* No step splits a family. *)
LEMMA FamiliesNext == FamiliesInv /\ [Next]_vars => FamiliesInv'
<1> SUFFICES ASSUME FamiliesInv, [Next]_vars PROVE FamiliesInv'
  OBVIOUS
<1>1. ASSUME NEW p \in Procs, StartBacktest(p) \/ StartSweep(p) \/ StartWalkForward(p)
      PROVE  FamiliesInv'
  BY <1>1, StartStep
<1>2. ASSUME NEW p \in Procs, RunCombo(p) PROVE FamiliesInv'
  <2>1. job[p].op = "backtest" => Head(job[p].todo) = Stored
    <3>1. IsJob(job[p]) /\ job[p].at = "run" /\ job[p].todo # << >>
      BY <1>2 DEF FamiliesInv, Tables, RunCombo, At
    <3>2. Head(<<Stored>>) = Stored
      OBVIOUS
    <3> QED BY <3>1, <3>2 DEF IsJob
  <2> QED
    BY <1>2, <2>1, RunStep DEF RunCombo, rest, reportVars
<1>3. ASSUME NEW p \in Procs, RunWindow(p) PROVE FamiliesInv'
  BY <1>3, RunStep DEF RunWindow, rest, reportVars
<1>4. ASSUME NEW p \in Procs, ComboFails(p) \/ GridDone(p) \/ WindowFails(p) \/ NothingToAggregate(p)
      PROVE  FamiliesInv'
  <2>1. At(p, "run") /\ UNCHANGED <<reports, forks, orphans>>
    BY <1>4 DEF ComboFails, GridDone, WindowFails, NothingToAggregate, rest, reportVars
  <2>2. job[p].op # "walkforward" => job[p].op \in {"backtest", "sweep"}
    BY <2>1 DEF FamiliesInv, Tables, IsJob, At
  <2>3. PICK n : /\ Become(p, n)
                 /\ \/ n = Idle
                    \/ /\ job[p].op \in {"backtest", "sweep"} /\ job[p].todo # << >>
                       /\ n = [job[p] EXCEPT !.todo = Tail(@)]
                    \/ /\ job[p].op = "walkforward"
                       /\ n = [job[p] EXCEPT !.cur = NextWindow(p)]
    BY <1>4, <2>2 DEF ComboFails, GridDone, WindowFails, NothingToAggregate
  <2> QED
    BY <2>1, <2>3, MovesOn
<1>5. ASSUME NEW p \in Procs, SaveResult(p) PROVE FamiliesInv'
  BY <1>5, SaveStep
<1>6. ASSUME NEW p \in Procs, TagCombo(p) \/ TagWindow(p) PROVE FamiliesInv'
  BY <1>6, TagStep
<1>7. ASSUME NEW p \in Procs, Aggregate(p) PROVE FamiliesInv'
  BY <1>7, AggregateStep
<1>8. ASSUME NEW p \in Procs, ReadParity(p) \/ WriteParity(p) PROVE FamiliesInv'
  BY <1>8, ReparityStep
<1>9. ASSUME NEW p \in Procs, Fork(p) PROVE FamiliesInv'
  BY <1>9, ForkedOrNot DEF Fork, rest, Ids
<1>10. ASSUME NEW p \in Procs, Fetch(p) PROVE FamiliesInv'
  BY <1>10, ForkedOrNot DEF Fetch, reportVars
<1>11. ASSUME NEW p \in Procs, Crash(p) PROVE FamiliesInv'
  BY <1>11, IdleJob, Turned DEF Crash, reportVars, Become
<1>12. ASSUME World PROVE FamiliesInv'
  BY <1>12, ForkedOrNot DEF World, reportVars
<1>13. ASSUME UNCHANGED vars PROVE FamiliesInv'
  BY <1>13, ForkedOrNot DEF vars, reportVars
<1> QED
  BY <1>1, <1>2, <1>3, <1>4, <1>5, <1>6, <1>7, <1>8, <1>9, <1>10, <1>11, <1>12, <1>13 DEF Next

(* The rows a walk-forward's parent names are the rows with its id, of its *)
(* strategy and older; no row belongs to a sweep and a walk-forward; a     *)
(* fork's override is that of a report of its sweep; and an untagged       *)
(* override is about to be tagged or its handler died: whatever handlers   *)
(* run side by side and wherever one dies (sweep.py, walkforward.py).      *)
THEOREM FamiliesStayTogether == Spec => []FamiliesAgree
<1>1. FamiliesInv => FamiliesAgree
  BY DEF FamiliesInv, FamiliesAgree, Kinship, Forked, Strays
<1> QED
  BY <1>1, FamiliesInit, FamiliesNext, PTL DEF Spec

(***************************************************************************)
(* The earnings cache.  VersionsTile is kept one event of a batch at a     *)
(* time: no row is stamped later than now, so the one version that is      *)
(* current closes with the stamp the next one opens with.  And a version   *)
(* that is closed or opened today is not seen by a run as of an earlier    *)
(* day: that is what makes a replay repeatable.                            *)
(***************************************************************************)
(* CacheAll is a fold: Caching(g, ...) says that g[s] is the table after   *)
(* the items of s.                                                         *)
CacheStep(acc, item, now) ==
  IF Unchanged(acc, item.event, item.value) THEN acc
  ELSE Cached(acc, CurrentRow(acc, item.event), item.event, item.value, now)

Caching(g, table, batch, now, D) ==
  g = [s \in SUBSET D |->
         IF s = {} THEN table ELSE CacheStep(g[s \ {Max(s)}], batch[Max(s)], now)]

(* The table after a batch is the value of a fold over its days. *)
LEMMA CacheAllIs ==
  ASSUME NEW table, NEW batch, NEW now
  PROVE  CacheAll(table, batch, now) =
           (CHOOSE g : Caching(g, table, batch, now, DOMAIN batch))[DOMAIN batch]
BY DEF CacheAll, FoldLeft, MapThenFoldSet, Caching, CacheStep

Bounded(D) == \E b \in Nat : D \subseteq 0 .. b

(* Two such folds agree where both are defined. *)
LEMMA CachingAgrees ==
  ASSUME NEW table, NEW batch, NEW now, NEW R, NEW T, R \subseteq T, NEW g, NEW h,
         Caching(g, table, batch, now, R), Caching(h, table, batch, now, T),
         IsFiniteSet(R), Bounded(R)
  PROVE  g[R] = h[R]
<1>0. PICK b \in Nat : R \subseteq 0 .. b
  BY DEF Bounded
<1> DEFINE B == {U \in SUBSET R : g[U] # h[U]}
<1>1. SUFFICES ASSUME B # {} PROVE FALSE
  OBVIOUS
<1>2. PICK U \in B : \A V \in SUBSET U : V # U => V \notin B
  <2>1. B \in SUBSET SUBSET R
    OBVIOUS
  <2> HIDE DEF B
  <2> QED
    BY <1>1, <2>1, Smallest
<1>3. U \in SUBSET R /\ U \in SUBSET T /\ U \in SUBSET Nat /\ \A x \in U : x <= b
  BY <1>0
<1>4. U # {}
  BY <1>2, <1>3 DEF Caching
<1>5. /\ g[U] = CacheStep(g[U \ {Max(U)}], batch[Max(U)], now)
      /\ h[U] = CacheStep(h[U \ {Max(U)}], batch[Max(U)], now)
  BY <1>3, <1>4 DEF Caching
<1>6. Max(U) \in U
  BY <1>3, <1>4, LargestNat
<1>7. g[U \ {Max(U)}] = h[U \ {Max(U)}]
  BY <1>2, <1>6
<1> QED
  BY <1>2, <1>5, <1>7

(* There is one for every batch. *)
LEMMA CachingExists ==
  ASSUME NEW table, NEW batch, NEW now, NEW n \in Nat
  PROVE  \E g : Caching(g, table, batch, now, 1 .. n)
<1> DEFINE S == 1 .. n
           B == {T \in SUBSET S : ~ \E g : Caching(g, table, batch, now, T)}
<1>0. IsFiniteSet(S)
  BY UpTo
<1>1. SUFFICES ASSUME B # {} PROVE FALSE
  OBVIOUS
<1>2. PICK T \in B : \A U \in SUBSET T : U # T => U \notin B
  <2>1. B \in SUBSET SUBSET S
    OBVIOUS
  <2> HIDE DEF B, S
  <2> QED
    BY <1>0, <1>1, <2>1, Smallest
<1>b. T \subseteq Nat /\ \A x \in T : x <= n
  OBVIOUS
<1>f. IsFiniteSet(T)
  BY <1>0, FS_Subset
<1>3. T # {}
  <2>1. Caching([s \in SUBSET {} |-> table], table, batch, now, {})
    BY DEF Caching
  <2> QED
    BY <1>2, <2>1
<1> DEFINE h(U) == CHOOSE g : Caching(g, table, batch, now, U)
           part(U) == h(U)[U]
           all == [s \in SUBSET T |->
                     IF s = {} THEN table ELSE CacheStep(part(s \ {Max(s)}), batch[Max(s)], now)]
<1>4. \A U \in SUBSET T : U # T => Caching(h(U), table, batch, now, U)
  BY <1>2
<1> HIDE DEF B, S
<1>5. \A U \in SUBSET T : U # T => all[U] = part(U)
  <2> SUFFICES ASSUME NEW U \in SUBSET T, U # T PROVE all[U] = part(U)
    OBVIOUS
  <2>1. Caching(h(U), table, batch, now, U)
    BY <1>4
  <2>2. CASE U = {}
    BY <2>1, <2>2 DEF Caching
  <2>3. CASE U # {}
    <3> DEFINE V == U \ {Max(U)}
    <3>0. U \in SUBSET Nat /\ \A x \in U : x <= n
      BY <1>b
    <3>1. Max(U) \in U
      BY <2>3, <3>0, LargestNat
    <3>2. V \in SUBSET T /\ V # T /\ V \subseteq U
      BY <3>1
    <3>3. Caching(h(V), table, batch, now, V)
      BY <1>4, <3>2
    <3>4. IsFiniteSet(V)
      BY <1>f, <3>2, FS_Subset
    <3>5. V \subseteq Nat /\ \A x \in V : x <= n
      BY <3>0
    <3> HIDE DEF h, V
    <3>6. h(V)[V] = h(U)[V]
      <4>1. PICK k, l, W : k = h(V) /\ l = h(U) /\ W = V
        OBVIOUS
      <4>2. Caching(k, table, batch, now, W) /\ Caching(l, table, batch, now, U)
        BY <2>1, <3>3, <4>1
      <4>3. W \subseteq U /\ IsFiniteSet(W) /\ Bounded(W)
        BY <3>2, <3>4, <3>5, <4>1 DEF Bounded
      <4>4. k[W] = l[W]
        BY <4>2, <4>3, CachingAgrees
      <4> QED BY <4>1, <4>4
    <3>7. h(U)[U] = CacheStep(h(U)[V], batch[Max(U)], now)
      BY <2>1, <2>3 DEF Caching, V
    <3> QED
      BY <2>3, <3>6, <3>7 DEF V
  <2> QED
    BY <2>2, <2>3
<1>6. Caching(all, table, batch, now, T)
  <2>1. \A s \in SUBSET T : s # {} => s \ {Max(s)} \in SUBSET T /\ s \ {Max(s)} # T
    <3> SUFFICES ASSUME NEW s \in SUBSET T, s # {}
                 PROVE s \ {Max(s)} \in SUBSET T /\ s \ {Max(s)} # T
      OBVIOUS
    <3>1. Max(s) \in s
      BY <1>b, LargestNat
    <3> QED BY <3>1
  <2> HIDE DEF h, part
  <2>2. \A s \in SUBSET T : s # {} => all[s \ {Max(s)}] = part(s \ {Max(s)})
    BY <1>5, <2>1
  <2> QED
    BY <2>2 DEF Caching
<1> QED
  BY <1>2, <1>6 DEF B

EventRows == [event : EventDays, version : Nat, value : Int, asOf : Nat, superseded : Nat]

(* The n versions of one event. *)
Tiled(S, n) ==
  /\ n \in Nat /\ {row.version : row \in S} = 1 .. n
  /\ \A row \in S :
       IF row.version = n THEN row.superseded = Current
       ELSE \E after \in S :
              after.version = row.version + 1 /\ after.asOf = row.superseded
                /\ after.asOf >= row.asOf /\ after.value # row.value

Kept(table, now) ==
  /\ IsFiniteSet(table) /\ table \subseteq EventRows
  /\ \A row \in table : row.asOf <= now /\ (row.superseded = Current \/ row.superseded <= now)
  /\ \A a, b \in table : a.event = b.event /\ a.version = b.version => a = b
  /\ \A e \in EventDays : \E n \in Nat : Tiled(Versions(table, e), n)

(* An event whose versions are tiled has as many as its newest is numbered. *)
LEMMA VersionsCount ==
  ASSUME NEW table, NEW now, Kept(table, now), NEW e \in EventDays, NEW n \in Nat,
         Tiled(Versions(table, e), n)
  PROVE  Cardinality(Versions(table, e)) = n
<1> DEFINE S == Versions(table, e)
           f == [row \in S |-> row.version]
<1>1. IsFiniteSet(S)
  BY FS_Subset DEF Kept, Versions
<1>2. f \in Surjection(S, 1 .. n)
  BY DEF Tiled, Surjection
<1>3. f \in Injection(S, 1 .. n)
  <2>1. \A a, b \in S : a.version = b.version => a = b
    BY DEF Kept, Versions
  <2>2. f \in [S -> 1 .. n]
    BY <1>2 DEF Surjection
  <2> HIDE DEF S
  <2> QED BY <2>1, <2>2 DEF Injection, IsInjective
<1>4. Cardinality(1 .. n) = Cardinality(S)
  <2> HIDE DEF S, f
  <2> QED BY <1>1, <1>2, <1>3, FS_Surjection
<1>5. Cardinality(1 .. n) = n
  BY UpTo
<1> QED
  BY <1>4, <1>5

(* What closing a version changes of it. *)
LEMMA SupersededRow ==
  ASSUME NEW row \in EventRows, NEW stamp \in Nat, NEW r, r = Superseded(row, stamp)
  PROVE  /\ r \in EventRows /\ r.superseded = stamp /\ r.event = row.event
         /\ r.version = row.version /\ r.value = row.value /\ r.asOf = row.asOf
BY DEF Superseded, EventRows

(* What the row of a new version says. *)
LEMMA NewRow ==
  ASSUME NEW e \in EventDays, NEW n \in Nat, NEW v \in Int, NEW now \in Nat, NEW r,
         r = [event |-> e, version |-> n, value |-> v, asOf |-> now, superseded |-> Current]
  PROVE  /\ r \in EventRows /\ r.superseded = Current /\ r.event = e
         /\ r.version = n /\ r.value = v /\ r.asOf = now
BY DEF EventRows, Current

(* The current row is the last version, and it is the only one. *)
LEMMA CurrentIsLast ==
  ASSUME NEW table, NEW now \in 1 .. MaxDay, Kept(table, now), NEW e \in EventDays,
         NEW n \in Nat, Tiled(Versions(table, e), n), NEW row \in Versions(table, e)
  PROVE  row.superseded = Current <=> row.version = n
<1>1. now < Current
  BY EarningsAssumption, DaysAssumption DEF Current
<1>2. row.version = n => row.superseded = Current
  BY DEF Tiled
<1>3. row.version # n => row.superseded # Current
  <2>1. SUFFICES ASSUME row.version # n PROVE row.superseded # Current
    OBVIOUS
  <2>2. PICK after \in Versions(table, e) : after.asOf = row.superseded
    BY <2>1 DEF Tiled
  <2>3. after.asOf <= now /\ after.asOf \in Nat
    BY DEF Kept, Versions, EventRows
  <2> QED
    BY <1>1, <2>2, <2>3 DEF Current
<1> QED
  BY <1>2, <1>3

(* The rows after a value that is new: what was current is closed now, and *)
(* the new version opens now.                                              *)
LEMMA CachedRows ==
  ASSUME NEW table, NEW now \in 1 .. MaxDay, Kept(table, now), NEW e \in EventDays,
         NEW v \in Int, NEW n \in Nat, Tiled(Versions(table, e), n),
         NEW t, t = Cached(table, CurrentRow(table, e), e, v, now)
  PROVE  t = (table \ CurrentRow(table, e)) \cup {Superseded(row, now) : row \in CurrentRow(table, e)}
               \cup {[event |-> e, version |-> n + 1, value |-> v, asOf |-> now, superseded |-> Current]}
<1> DEFINE read == CurrentRow(table, e)
           stamps == {now} \cup {row.asOf : row \in read}
<1>1. now \in Nat
  BY EarningsAssumption
<1>2. \A x \in stamps : x \in Nat /\ x <= now
  BY <1>1 DEF Kept, CurrentRow, Versions, EventRows
<1>3. Max(stamps) = now
  <2>1. Max(stamps) \in stamps /\ \A x \in stamps : x <= Max(stamps)
    <3>1. stamps \in SUBSET Nat /\ stamps # {}
      BY <1>2
    <3> HIDE DEF stamps
    <3> QED BY <1>1, <1>2, <3>1, LargestNat
  <2>2. now \in stamps
    OBVIOUS
  <2>3. PICK m : m = Max(stamps)
    OBVIOUS
  <2>4. m \in Nat /\ m <= now /\ now <= m
    BY <1>2, <2>1, <2>2, <2>3
  <2> QED BY <1>1, <2>3, <2>4
<1>4. Cardinality(Versions(table, e)) = n
  BY VersionsCount
<1> HIDE DEF read
<1> QED
  BY <1>3, <1>4 DEF Cached, read

(* One event stored keeps the table in order. *)
LEMMA CachedKeeps ==
  ASSUME NEW table, NEW now \in 1 .. MaxDay, Kept(table, now), NEW e \in EventDays,
         NEW v \in Int, ~Unchanged(table, e, v),
         NEW t, t = Cached(table, CurrentRow(table, e), e, v, now)
  PROVE  Kept(t, now)
<1>1. PICK n \in Nat : Tiled(Versions(table, e), n)
  BY DEF Kept
<1>2. now \in Nat
  BY EarningsAssumption
<1>3. PICK new : new = [event |-> e, version |-> n + 1, value |-> v, asOf |-> now,
                        superseded |-> Current]
  OBVIOUS
<1>4. /\ new \in EventRows /\ new.superseded = Current /\ new.event = e
      /\ new.version = n + 1 /\ new.value = v /\ new.asOf = now
  BY <1>2, <1>3, NewRow
<1> DEFINE read == CurrentRow(table, e)
           closed == {Superseded(row, now) : row \in read}
<1>5. t = (table \ read) \cup closed \cup {new}
  BY <1>1, <1>3, CachedRows
<1>6. read = {row \in Versions(table, e) : row.version = n}
  BY <1>1, CurrentIsLast DEF CurrentRow
<1>7. read \subseteq table /\ \A row \in read : row.event = e /\ row.version = n /\ row.value # v
  BY <1>6 DEF Versions, Unchanged
<1>8. \A c \in closed : \E row \in read :
        /\ c \in EventRows /\ c.superseded = now /\ c.event = e
        /\ c.version = n /\ c.value = row.value /\ c.asOf = row.asOf
  <2> TAKE c \in closed
  <2>1. PICK row \in read : c = Superseded(row, now)
    OBVIOUS
  <2>2. row \in EventRows
    BY <1>7 DEF Kept
  <2> HIDE DEF closed, read
  <2> QED BY <1>2, <1>7, <2>1, <2>2, SupersededRow
<1>9. \A row \in read : \E c \in closed :
        /\ c.event = e /\ c.version = n /\ c.value = row.value /\ c.asOf = row.asOf
  <2> TAKE row \in read
  <2>1. PICK c : c = Superseded(row, now)
    OBVIOUS
  <2>2. c \in closed /\ row \in EventRows
    BY <1>7, <2>1 DEF Kept
  <2> HIDE DEF closed, read
  <2> QED BY <1>2, <1>7, <2>1, <2>2, SupersededRow
<1>f. IsFiniteSet(t)
  <2>1. \A a, b \in read : a = b
    BY <1>7 DEF Kept
  <2>2. closed = {} \/ \E c : closed = {c}
    BY <2>1
  <2>3. IsFiniteSet(closed)
    <3> HIDE DEF closed
    <3> QED BY <2>2, FS_EmptySet, FS_Singleton
  <2>4. IsFiniteSet(table \ read) /\ IsFiniteSet({new})
    BY FS_Subset, FS_Singleton DEF Kept
  <2> HIDE DEF closed, read
  <2> QED BY <1>5, <2>3, <2>4, FS_Union
<1>10. t \subseteq EventRows
  BY <1>4, <1>5, <1>8 DEF Kept
<1>11. \A row \in t : row.asOf <= now /\ (row.superseded = Current \/ row.superseded <= now)
  BY <1>2, <1>4, <1>5, <1>7, <1>8 DEF Kept
<1> HIDE DEF closed, read
<1>12. \A a, b \in t : a.event = b.event /\ a.version = b.version => a = b
  <2>1. \A a \in table \ read : a.event = e => a.version \in 1 .. n /\ a.version # n
    BY <1>1, <1>6 DEF Versions, Tiled
  <2>2. \A a, b \in closed : a = b
    <3>1. \A a, b \in read : a = b
      BY <1>7 DEF Kept
    <3> QED BY <3>1 DEF closed
  <2>3. \A a \in closed : a.event = e /\ a.version = n
    BY <1>8
  <2> QED
    BY <1>4, <1>5, <2>1, <2>2, <2>3 DEF Kept
<1>13. \A d \in EventDays : \E m \in Nat : Tiled(Versions(t, d), m)
  <2> TAKE d \in EventDays
  <2>1. CASE d # e
    <3>1. Versions(t, d) = Versions(table, d)
      BY <1>4, <1>5, <1>7, <1>8, <2>1 DEF Versions
    <3> QED BY <3>1 DEF Kept
  <2>2. CASE d = e
    <3> DEFINE S == Versions(table, e)
               T == Versions(t, e)
    <3>1. T = (S \ read) \cup closed \cup {new}
      BY <1>4, <1>5, <1>8 DEF Versions
    <3>2. {row.version : row \in S} = 1 .. n /\ read = {row \in S : row.version = n}
      BY <1>1, <1>6 DEF Tiled
    <3>3. \A row \in S : row.version \in 1 .. n
      BY <3>2
    <3>4. \A k \in 1 .. n : \E row \in S : row.version = k
      BY <3>2
    <3> HIDE DEF S, T
    <3>5. \A row \in T : row.version \in 1 .. (n + 1)
      <4>1. \A row \in closed : row.version = n /\ n \in 1 .. n
        BY <1>8, <3>2, <3>3
      <4> QED BY <1>4, <3>1, <3>3, <4>1
    <3>6. \A k \in 1 .. (n + 1) : \E row \in T : row.version = k
      <4> TAKE k \in 1 .. (n + 1)
      <4>1. CASE k = n + 1
        BY <1>4, <3>1, <4>1
      <4>2. CASE k # n + 1
        <5>1. PICK row \in S : row.version = k
          BY <3>4, <4>2
        <5>2. CASE row \in read
          BY <1>9, <3>1, <5>1, <5>2, <1>7
        <5>3. CASE row \notin read
          BY <3>1, <5>1, <5>3
        <5> QED BY <5>2, <5>3
      <4> QED BY <4>1, <4>2
    <3>7. {row.version : row \in T} = 1 .. (n + 1)
      BY <3>5, <3>6
    <3>8. ASSUME NEW row \in T
          PROVE  IF row.version = n + 1 THEN row.superseded = Current
                 ELSE \E after \in T :
                        after.version = row.version + 1 /\ after.asOf = row.superseded
                          /\ after.asOf >= row.asOf /\ after.value # row.value
      <4>1. CASE row = new
        BY <1>4, <4>1
      <4>2. CASE row \in closed
        <5>1. PICK r \in read : row.superseded = now /\ row.version = n /\ row.value = r.value
                                /\ row.asOf = r.asOf
          BY <1>8, <4>2
        <5>2. r.asOf <= now /\ r.asOf \in Nat /\ r.value # v
          BY <1>7, <5>1 DEF Kept, EventRows
        <5> QED
          BY <1>2, <1>4, <3>1, <5>1, <5>2
      <4>3. CASE row \in S \ read
        <5>1. row.version # n /\ row.version \in 1 .. n
          BY <3>2, <3>3, <4>3
        <5>2. PICK after \in S :
                after.version = row.version + 1 /\ after.asOf = row.superseded
                  /\ after.asOf >= row.asOf /\ after.value # row.value
          BY <1>1, <4>3, <5>1 DEF Tiled, S
        <5>3. CASE after \in read
          <6>1. PICK c \in closed : /\ c.version = n /\ c.value = after.value
                                    /\ c.asOf = after.asOf
            BY <1>9, <5>3
          <6>2. after.version = n
            BY <1>7, <5>3
          <6> QED
            BY <3>1, <5>1, <5>2, <6>1, <6>2
        <5>4. CASE after \notin read
          BY <3>1, <5>1, <5>2, <5>4
        <5> QED BY <5>3, <5>4
      <4> QED
        BY <3>1, <4>1, <4>2, <4>3
    <3>9. Tiled(T, n + 1)
      BY <3>7, <3>8 DEF Tiled
    <3> QED
      BY <2>2, <3>9 DEF T
  <2> QED BY <2>1, <2>2
<1> QED
  BY <1>f, <1>10, <1>11, <1>12, <1>13 DEF Kept

(* A run as of a day before now finds the same candidates before and after *)
(* a value is cached.                                                      *)
LEMMA CachedHides ==
  ASSUME NEW table, NEW now \in 1 .. MaxDay, Kept(table, now), NEW e \in EventDays,
         NEW v \in Int, ~Unchanged(table, e, v),
         NEW t, t = Cached(table, CurrentRow(table, e), e, v, now),
         NEW window, NEW threshold, NEW day \in Nat, day < now
  PROVE  RealCandidates(t, window, threshold, day) = RealCandidates(table, window, threshold, day)
<1>1. PICK n \in Nat : Tiled(Versions(table, e), n)
  BY DEF Kept
<1>2. now \in Nat /\ now < Current
  BY EarningsAssumption, DaysAssumption DEF Current
<1>3. PICK new : new = [event |-> e, version |-> n + 1, value |-> v, asOf |-> now,
                        superseded |-> Current]
  OBVIOUS
<1>4. new.asOf = now
  BY <1>2, <1>3, NewRow
<1> DEFINE read == CurrentRow(table, e)
           closed == {Superseded(row, now) : row \in read}
           known(r) == /\ r.asOf <= day /\ r.superseded > day
                       /\ r.event \in window[1]..window[2]
                       /\ r.value # Unreported
                       /\ r.value >= threshold \/ -r.value >= threshold
<1>5. t = (table \ read) \cup closed \cup {new}
  BY <1>1, <1>3, CachedRows
<1>6. read \subseteq table /\ \A row \in read : row.superseded = Current
  BY DEF CurrentRow, Versions
<1>7. \A row \in read : \E c \in closed :
        /\ c.superseded = now /\ c.event = row.event /\ c.value = row.value /\ c.asOf = row.asOf
  <2> TAKE row \in read
  <2>1. PICK c : c = Superseded(row, now)
    OBVIOUS
  <2>2. c \in closed /\ row \in EventRows
    BY <1>6, <2>1 DEF Kept
  <2> HIDE DEF closed, read
  <2> QED BY <1>2, <2>1, <2>2, SupersededRow
<1>8. \A c \in closed : \E row \in read :
        /\ c.superseded = now /\ c.event = row.event /\ c.value = row.value /\ c.asOf = row.asOf
  <2> TAKE c \in closed
  <2>1. PICK row \in read : c = Superseded(row, now)
    OBVIOUS
  <2>2. row \in EventRows
    BY <1>6 DEF Kept
  <2> HIDE DEF closed, read
  <2> QED BY <1>2, <2>1, <2>2, SupersededRow
<1>9. ~known(new)
  BY <1>2, <1>4
<1>10. \A row \in read : \E c \in closed :
         c.event = row.event /\ c.value = row.value /\ (known(row) <=> known(c))
  <2>1. now > day /\ Current > day
    BY <1>2 DEF Current
  <2> QED BY <1>6, <1>7, <2>1
<1>11. \A c \in closed : \E row \in read :
         c.event = row.event /\ c.value = row.value /\ (known(row) <=> known(c))
  <2>1. now > day /\ Current > day
    BY <1>2 DEF Current
  <2> QED BY <1>6, <1>8, <2>1
<1>12. \A s : RealCandidates(s, window, threshold, day) =
                {[event |-> row.event, value |-> row.value] : row \in {r \in s : known(r)}}
  BY DEF RealCandidates, KnownAt
<1> HIDE DEF known, read, closed
<1>13. ASSUME NEW c \in {[event |-> row.event, value |-> row.value] : row \in {r \in t : known(r)}}
       PROVE  c \in {[event |-> row.event, value |-> row.value] : row \in {r \in table : known(r)}}
  BY <1>5, <1>6, <1>9, <1>11
<1>14. ASSUME NEW c \in {[event |-> row.event, value |-> row.value] : row \in {r \in table : known(r)}}
       PROVE  c \in {[event |-> row.event, value |-> row.value] : row \in {r \in t : known(r)}}
  BY <1>5, <1>10
<1> QED
  BY <1>12, <1>13, <1>14

(* A whole batch. *)
LEMMA BatchKeeps ==
  ASSUME NEW table, NEW now \in 1 .. MaxDay, Kept(table, now), NEW batch, NEW n \in Nat,
         DOMAIN batch = 1 .. n,
         \A i \in 1 .. n : batch[i].event \in EventDays /\ batch[i].value \in Int,
         NEW t, t = CacheAll(table, batch, now)
  PROVE  /\ Kept(t, now)
         /\ \A window, threshold : \A day \in Nat : day < now =>
              RealCandidates(t, window, threshold, day)
                = RealCandidates(table, window, threshold, day)
<1> DEFINE D == 1 .. n
           same(s) == \A window, threshold : \A day \in Nat : day < now =>
                        RealCandidates(s, window, threshold, day)
                          = RealCandidates(table, window, threshold, day)
<1>1. PICK g : Caching(g, table, batch, now, D) /\ t = g[D]
  <2>1. CacheAll(table, batch, now)
          = (CHOOSE g : Caching(g, table, batch, now, DOMAIN batch))[DOMAIN batch]
    BY CacheAllIs
  <2>2. PICK g : g = CHOOSE k : Caching(k, table, batch, now, D)
    OBVIOUS
  <2>3. Caching(g, table, batch, now, D)
    BY <2>2, CachingExists
  <2> QED BY <2>1, <2>2, <2>3
<1> DEFINE B == {s \in SUBSET D : ~(Kept(g[s], now) /\ same(g[s]))}
<1>2. SUFFICES ASSUME B # {} PROVE FALSE
  BY <1>1
<1>3. PICK s \in B : \A U \in SUBSET s : U # s => U \notin B
  <2>1. B \in SUBSET SUBSET D /\ IsFiniteSet(D)
    BY UpTo
  <2> HIDE DEF B, D
  <2> QED BY <1>2, <2>1, Smallest
<1>4. s \in SUBSET D /\ ~(Kept(g[s], now) /\ same(g[s]))
  OBVIOUS
<1>5. s # {}
  <2>1. g[{}] = table
    BY <1>1 DEF Caching
  <2> QED BY <1>4, <2>1
<1>6. Max(s) \in s
  <2>1. s \in SUBSET Nat /\ \A x \in s : x <= n
    BY <1>4
  <2> HIDE DEF B
  <2> QED BY <1>5, <2>1, LargestNat
<1> DEFINE i == Max(s)
           acc == g[s \ {i}]
<1>7. Kept(acc, now) /\ same(acc)
  BY <1>3, <1>4, <1>6
<1>8. g[s] = CacheStep(acc, batch[i], now)
  BY <1>1, <1>4, <1>5 DEF Caching
<1>9. PICK e \in EventDays, v \in Int : e = batch[i].event /\ v = batch[i].value
  BY <1>4, <1>6
<1> HIDE DEF B, i, acc, D
<1>10. CASE Unchanged(acc, e, v)
  BY <1>4, <1>7, <1>8, <1>9, <1>10 DEF CacheStep
<1>11. CASE ~Unchanged(acc, e, v)
  <2>1. PICK a, b : a = acc /\ b = g[s]
    OBVIOUS
  <2>2. b = Cached(a, CurrentRow(a, e), e, v, now) /\ ~Unchanged(a, e, v) /\ Kept(a, now)
    BY <1>7, <1>8, <1>9, <1>11, <2>1 DEF CacheStep
  <2>3. Kept(b, now)
    BY <2>2, CachedKeeps
  <2>4. ASSUME NEW window, NEW threshold, NEW day \in Nat, day < now
        PROVE  RealCandidates(b, window, threshold, day) = RealCandidates(a, window, threshold, day)
    BY <2>2, <2>4, CachedHides
  <2> QED
    BY <1>4, <1>7, <2>1, <2>3, <2>4
<1> QED
  BY <1>10, <1>11

CacheInv ==
  today \in 1 .. MaxDay /\ published \in [EventDays -> Int] /\ Kept(earnings, today)

(* What a run as of a day gone by finds stays as it is. *)
PastStays ==
  \A window, threshold : \A day \in Nat : day < today =>
    RealCandidates(earnings', window, threshold, day)
      = RealCandidates(earnings, window, threshold, day)

(* The empty table is in order. *)
LEMMA CacheInit == Init => CacheInv
<1> SUFFICES ASSUME Init PROVE CacheInv
  OBVIOUS
<1>1. today \in 1 .. MaxDay /\ published \in [EventDays -> Int]
  BY EarningsAssumption DEF Init, EarningsInit, Unreported
<1>2. earnings = {}
  BY DEF Init, EarningsInit
<1>3. \A e \in EventDays : Tiled(Versions(earnings, e), 0)
  BY <1>2 DEF Tiled, Versions
<1>4. Kept(earnings, today)
  BY <1>2, <1>3, FS_EmptySet DEF Kept
<1> QED
  BY <1>1, <1>4 DEF CacheInv

(* So a fetch keeps it, and does not touch what was known before today. *)
LEMMA FetchKeeps ==
  ASSUME CacheInv, NEW range, FetchAndCache(range)
  PROVE  CacheInv' /\ PastStays
<1> DEFINE due == {e \in EventDays : e \in range[1]..range[2]}
<1>1. PICK listed \in SetToSeqs(due) :
        earnings' = CacheAll(earnings,
          [i \in DOMAIN listed |-> [event |-> listed[i], value |-> published[listed[i]]]], today)
  BY DEF FetchAndCache
<1>2. IsFiniteSet(due) /\ Cardinality(due) \in Nat
  BY EarningsAssumption, FS_Subset, FS_CardinalityType
<1>3. PICK n : n = Cardinality(due)
  OBVIOUS
<1>4. n \in Nat /\ listed \in [1 .. n -> EventDays]
  BY <1>2, <1>3 DEF SetToSeqs
<1>5. PICK batch :
        batch = [i \in DOMAIN listed |-> [event |-> listed[i], value |-> published[listed[i]]]]
  OBVIOUS
<1>6. DOMAIN batch = 1 .. n
  BY <1>4, <1>5
<1>7. \A i \in 1 .. n : batch[i].event \in EventDays /\ batch[i].value \in Int
  <2> TAKE i \in 1 .. n
  <2>1. listed[i] \in EventDays /\ batch[i] = [event |-> listed[i], value |-> published[listed[i]]]
    BY <1>4, <1>5
  <2>2. published[listed[i]] \in Int
    BY <2>1 DEF CacheInv
  <2> QED BY <2>1, <2>2
<1>8. PICK table, t, now : table = earnings /\ now = today /\ t = earnings'
  OBVIOUS
<1>9. Kept(table, now) /\ t = CacheAll(table, batch, now) /\ now \in 1 .. MaxDay
  BY <1>1, <1>5, <1>8 DEF CacheInv
<1>10. Kept(t, now)
  BY <1>4, <1>6, <1>7, <1>9, BatchKeeps
<1>11. \A window, threshold : \A day \in Nat : day < now =>
         RealCandidates(t, window, threshold, day) = RealCandidates(table, window, threshold, day)
  BY <1>4, <1>6, <1>7, <1>9, BatchKeeps
<1>12. UNCHANGED <<today, published>>
  BY DEF FetchAndCache
<1>13. Kept(earnings, today)'
  BY <1>8, <1>10, <1>12 DEF Kept
<1>14. PastStays
  BY <1>8, <1>11 DEF PastStays
<1> QED
  BY <1>12, <1>13, <1>14 DEF CacheInv

(* No other step writes the table. *)
LEMMA CacheNext == CacheInv /\ [Next]_vars => CacheInv' /\ PastStays /\ today <= today'
<1> SUFFICES ASSUME CacheInv, [Next]_vars PROVE CacheInv' /\ PastStays /\ today <= today'
  OBVIOUS
<1>0. today \in 1 .. MaxDay /\ today \in Nat
  BY EarningsAssumption DEF CacheInv
<1>1. CASE UNCHANGED earningsVars
  <2>1. UNCHANGED <<today, published, earnings>>
    BY <1>1 DEF earningsVars
  <2>2. Kept(earnings, today)' /\ PastStays
    BY <2>1 DEF CacheInv, Kept, PastStays
  <2>3. today <= today'
    BY <1>0, <2>1
  <2>4. today' \in 1 .. MaxDay /\ published' \in [EventDays -> Int]
    BY <2>1 DEF CacheInv
  <2>5. CacheInv'
    BY <2>2, <2>4 DEF CacheInv
  <2> QED BY <2>2, <2>3, <2>5
<1>2. ASSUME NEW range, FetchAndCache(range) PROVE CacheInv' /\ PastStays /\ today <= today'
  <2>1. today' = today
    BY <1>2 DEF FetchAndCache
  <2>2. CacheInv' /\ PastStays
    BY <1>2, FetchKeeps
  <2> QED BY <1>0, <2>1, <2>2
<1>3. ASSUME NEW e \in EventDays, Report(e) \/ Restate(e)
      PROVE CacheInv' /\ PastStays /\ today <= today'
  <2>1. UNCHANGED <<today, earnings>> /\ published' \in [EventDays -> Int]
    BY <1>3, EarningsAssumption DEF Report, Restate, CacheInv
  <2> QED BY <1>0, <2>1 DEF CacheInv, PastStays, Kept
<1>4. ASSUME NextDay PROVE CacheInv' /\ PastStays /\ today <= today'
  <2>1. UNCHANGED <<published, earnings>> /\ today' = today + 1 /\ today' \in 1 .. MaxDay
    BY <1>0, <1>4, EarningsAssumption DEF NextDay
  <2>2. ASSUME NEW row \in earnings
        PROVE  row.asOf <= today' /\ (row.superseded = Current \/ row.superseded <= today')
    <3>1. row.asOf \in Nat /\ row.superseded \in Nat
      BY DEF CacheInv, Kept, EventRows
    <3>2. row.asOf <= today /\ (row.superseded = Current \/ row.superseded <= today)
      BY DEF CacheInv, Kept
    <3> QED BY <1>0, <2>1, <3>1, <3>2
  <2>3. Kept(earnings, today)'
    BY <2>1, <2>2 DEF CacheInv, Kept
  <2> QED BY <1>0, <2>1, <2>3 DEF CacheInv, PastStays
<1>5. CASE World
  BY <1>3, <1>4, <1>5 DEF World
<1>6. ASSUME NEW p \in Procs, Fetch(p) PROVE CacheInv' /\ PastStays /\ today <= today'
  BY <1>2, <1>6 DEF Fetch
<1>7. CASE UNCHANGED vars
  BY <1>1, <1>7 DEF vars, earningsVars
<1>8. ASSUME NEW p \in Procs,
             \/ StartBacktest(p) \/ StartSweep(p) \/ StartWalkForward(p)
             \/ RunCombo(p) \/ ComboFails(p) \/ GridDone(p)
             \/ RunWindow(p) \/ WindowFails(p)
             \/ SaveResult(p) \/ TagCombo(p) \/ TagWindow(p)
             \/ Aggregate(p) \/ NothingToAggregate(p)
             \/ ReadParity(p) \/ WriteParity(p) \/ Fork(p) \/ Crash(p)
      PROVE  UNCHANGED earningsVars
  BY <1>8 DEF StartBacktest, StartSweep, StartWalkForward, RunCombo, ComboFails, GridDone,
       RunWindow, WindowFails, SaveResult, TagCombo, TagWindow, Aggregate, NothingToAggregate,
       ReadParity, WriteParity, Fork, Crash, rest, earningsVars
<1> QED
  BY <1>1, <1>5, <1>6, <1>7, <1>8 DEF Next

(* Whatever order the fetches, the reports and the restatements come in,   *)
(* the versions of an event follow each other without a gap or an overlap  *)
(* (cache_earnings_events).                                                *)
THEOREM VersionsStayTiled == Spec => []VersionsTile
<1>1. CacheInv => VersionsTile
  <2> SUFFICES ASSUME CacheInv, NEW e \in EventDays
               PROVE  LET versions == Versions(earnings, e)
                          n == Cardinality(versions)
                      IN  /\ {row.version : row \in versions} = 1..n
                          /\ \A row \in versions :
                               IF row.version = n THEN row.superseded = Current
                               ELSE \E after \in versions :
                                      after.version = row.version + 1 /\ after.asOf = row.superseded
                                        /\ after.asOf >= row.asOf /\ after.value # row.value
    BY DEF VersionsTile
  <2>1. PICK n \in Nat : Tiled(Versions(earnings, e), n)
    BY DEF CacheInv, Kept
  <2>2. Cardinality(Versions(earnings, e)) = n
    BY <2>1, VersionsCount DEF CacheInv
  <2> QED BY <2>1, <2>2 DEF Tiled
<1> QED
  BY <1>1, CacheInit, CacheNext, PTL DEF Spec

(***************************************************************************)
(* The calendar.  AddMonths moves a day to the month it names, and keeps   *)
(* its place in the month unless that month is too short.                  *)
(***************************************************************************)
In(d, m) ==
  /\ m \in 1 .. (Len(MonthStarts) - 1) /\ d \in Nat
  /\ MonthStarts[m] <= d /\ d < MonthStarts[m + 1]

(* The first days of the months are increasing naturals. *)
LEMMA MonthsType ==
  /\ Len(MonthStarts) \in Nat
  /\ \A m \in 1 .. Len(MonthStarts) : MonthStarts[m] \in Nat
  /\ \A m \in 1 .. (Len(MonthStarts) - 1) : MonthStarts[m] < MonthStarts[m + 1]
<1>1. MonthStarts \in Seq(Nat) /\ \A m \in 2..Len(MonthStarts) : MonthStarts[m - 1] < MonthStarts[m]
  BY ReportsAssumption
<1>2. Len(MonthStarts) \in Nat /\ MonthStarts \in [1 .. Len(MonthStarts) -> Nat]
  BY <1>1, LenProperties
<1>3. \A m \in 1 .. (Len(MonthStarts) - 1) : MonthStarts[m] < MonthStarts[m + 1]
  <2> TAKE m \in 1 .. (Len(MonthStarts) - 1)
  <2>1. m + 1 \in 2 .. Len(MonthStarts) /\ (m + 1) - 1 = m
    BY <1>2
  <2> QED BY <1>1, <2>1
<1> QED
  BY <1>2, <1>3

(* Later months start later. *)
LEMMA MonthsGrow ==
  ASSUME NEW m \in 1 .. Len(MonthStarts), NEW n \in 1 .. Len(MonthStarts), m < n
  PROVE  MonthStarts[m] < MonthStarts[n]
<1> DEFINE bad == {k \in 1 .. Len(MonthStarts) : m < k /\ ~(MonthStarts[m] < MonthStarts[k])}
<1>1. SUFFICES ASSUME bad # {} PROVE FALSE
  OBVIOUS
<1>2. bad \in SUBSET Nat
  OBVIOUS
<1>3. PICK k \in bad : \A j \in bad : k <= j
  <2> HIDE DEF bad
  <2> QED BY <1>1, <1>2, SmallestNat
<1>4. k \in 1 .. Len(MonthStarts) /\ m < k /\ ~(MonthStarts[m] < MonthStarts[k])
  OBVIOUS
<1>5. k - 1 \in 1 .. (Len(MonthStarts) - 1) /\ (k - 1) + 1 = k
  BY <1>4, MonthsType
<1>6. MonthStarts[k - 1] < MonthStarts[k]
  BY <1>5, MonthsType
<1>7. k - 1 # m
  BY <1>4, <1>6
<1>8. k - 1 \notin bad
  <2> HIDE DEF bad
  <2> QED BY <1>2, <1>3, <1>4
<1>9. MonthStarts[m] < MonthStarts[k - 1]
  BY <1>4, <1>5, <1>7, <1>8
<1>10. MonthStarts[m] \in Nat /\ MonthStarts[k - 1] \in Nat /\ MonthStarts[k] \in Nat
  BY <1>4, <1>5, MonthsType
<1> QED
  BY <1>4, <1>6, <1>9, <1>10

(* A day is in one month. *)
LEMMA MonthIsUnique ==
  ASSUME NEW d, NEW m, NEW n, In(d, m), In(d, n)
  PROVE  m = n
<1>1. /\ m \in Nat /\ n \in Nat /\ m >= 1 /\ n >= 1 /\ m + 1 <= Len(MonthStarts) /\ n + 1 <= Len(MonthStarts)
      /\ Len(MonthStarts) \in Nat
  BY MonthsType DEF In
<1>2. \A k \in 1 .. Len(MonthStarts) : MonthStarts[k] \in Nat
  BY MonthsType
<1>3. CASE m < n
  <2>1. m + 1 = n \/ MonthStarts[m + 1] < MonthStarts[n]
    BY <1>1, <1>3, MonthsGrow
  <2> QED BY <1>1, <1>2, <1>3, <2>1 DEF In
<1>4. CASE n < m
  <2>1. n + 1 = m \/ MonthStarts[n + 1] < MonthStarts[m]
    BY <1>1, <1>4, MonthsGrow
  <2> QED BY <1>1, <1>2, <1>4, <2>1 DEF In
<1> QED
  BY <1>1, <1>3, <1>4

(* MonthOf finds it. *)
LEMMA MonthOfIs ==
  ASSUME NEW d, NEW m, In(d, m)
  PROVE  MonthOf(d) = m
<1>1. \A k \in 1 .. (Len(MonthStarts) - 1) :
        MonthStarts[k] <= d /\ d < MonthStarts[k + 1] => k = m
  BY MonthIsUnique DEF In
<1>2. MonthOf(d) = CHOOSE k \in 1 .. (Len(MonthStarts) - 1) :
                     MonthStarts[k] <= d /\ d < MonthStarts[k + 1]
  BY DEF MonthOf
<1> QED
  BY <1>1, <1>2 DEF In

(* Every day of the calendar has one. *)
LEMMA MonthExists ==
  ASSUME NEW d \in Nat, MonthStarts[1] <= d, NEW n \in 1 .. Len(MonthStarts), d < MonthStarts[n]
  PROVE  \E m \in Nat : In(d, m) /\ m < n
<1> DEFINE after == {k \in 1 .. n : d < MonthStarts[k]}
<1>0. n \in Nat /\ n >= 1 /\ n <= Len(MonthStarts) /\ Len(MonthStarts) \in Nat
  BY MonthsType
<1>1. after \in SUBSET Nat /\ n \in after
  BY <1>0
<1>2. PICK k \in after : \A j \in after : k <= j
  <2> HIDE DEF after
  <2> QED BY <1>1, SmallestNat
<1>3. k \in 1 .. n /\ d < MonthStarts[k] /\ k # 1
  <2>1. MonthStarts[1] \in Nat
    BY <1>0, MonthsType
  <2> QED BY <2>1
<1>4. k - 1 \in 1 .. n /\ k - 1 \notin after
  <2>1. k - 1 \in 1 .. n /\ k - 1 < k
    BY <1>0, <1>3
  <2> HIDE DEF after
  <2> QED BY <1>0, <1>2, <1>3, <2>1
<1>5. MonthStarts[k - 1] <= d
  <2>1. MonthStarts[k - 1] \in Nat
    BY <1>0, <1>4, MonthsType
  <2> QED BY <1>4, <2>1
<1>6. (k - 1) + 1 = k /\ k - 1 \in 1 .. (Len(MonthStarts) - 1) /\ k - 1 < n
  BY <1>0, <1>3
<1> QED
  BY <1>3, <1>5, <1>6 DEF In

(* _add_months, inside the calendar. *)
LEMMA AddMonthsIs ==
  ASSUME NEW d, NEW m, In(d, m), NEW k \in Nat, m + k + 1 <= Len(MonthStarts)
  PROVE  /\ In(AddMonths(d, k), m + k)
         /\ d - MonthStarts[m] < MonthStarts[m + k + 1] - MonthStarts[m + k] =>
              AddMonths(d, k) = MonthStarts[m + k] + (d - MonthStarts[m])
<1>1. /\ m \in Nat /\ m >= 1 /\ d \in Nat /\ Len(MonthStarts) \in Nat
      /\ m + k \in 1 .. (Len(MonthStarts) - 1)
      /\ m + k \in 1 .. Len(MonthStarts) /\ m + k + 1 \in 1 .. Len(MonthStarts)
      /\ m \in 1 .. Len(MonthStarts)
  BY MonthsType DEF In
<1>2. PICK a, b, c : a = MonthStarts[m] /\ b = MonthStarts[m + k] /\ c = MonthStarts[m + k + 1]
  OBVIOUS
<1>3. a \in Nat /\ b \in Nat /\ c \in Nat /\ b < c /\ a <= d
  BY <1>1, <1>2, MonthsType DEF In
<1>4. AddMonths(d, k) = Min({b + d - a, c - 1})
  BY <1>2, MonthOfIs DEF AddMonths
<1>5. Min({b + d - a, c - 1}) = IF b + d - a <= c - 1 THEN b + d - a ELSE c - 1
  BY <1>1, <1>3, SmallerOfTwo
<1>6. PICK r : r = AddMonths(d, k)
  OBVIOUS
<1>7. r \in Nat /\ b <= r /\ r < c
  BY <1>1, <1>3, <1>4, <1>5, <1>6
<1>8. d - a < c - b => r = b + (d - a)
  BY <1>1, <1>3, <1>4, <1>5, <1>6
<1> QED
  BY <1>1, <1>2, <1>6, <1>7, <1>8 DEF In

(* A turn of a walk-forward lies inside the calendar. *)
OnCalendar(cur, plan, m) ==
  In(cur, m) /\ m + plan.train + plan.test + 1 <= Len(MonthStarts)

(* A plan leaves room on the calendar for all its windows. *)
LEMMA PlanType ==
  ASSUME NEW plan \in Plans
  PROVE  /\ plan.start \in Nat /\ plan.end \in Nat
         /\ plan.train \in Nat /\ plan.test \in Nat /\ plan.step \in Nat
         /\ plan.test > 0 /\ plan.step > 0 /\ MonthStarts[1] <= plan.start
         /\ \E n \in 1 .. Len(MonthStarts) :
              /\ plan.start < MonthStarts[n] /\ plan.end + 1 < MonthStarts[n]
              /\ n + plan.train + plan.test + plan.step <= Len(MonthStarts)
<1>1. DOMAIN MonthStarts = 1 .. Len(MonthStarts)
  BY ReportsAssumption, LenProperties
<1> QED
  BY <1>1, CalendarAssumption, RequestsAssumption

(* The test window of a turn begins and ends in the months it should. *)
LEMMA TurnIs ==
  ASSUME NEW plan \in Plans, NEW cur, NEW m, OnCalendar(cur, plan, m), NEW test,
         test = WindowAt(cur, plan).test
  PROVE  /\ test \in Nat \X Nat
         /\ In(test[1], m + plan.train)
         /\ In(test[2] + 1, m + plan.train + plan.test)
<1>1. /\ plan.train \in Nat /\ plan.test \in Nat /\ plan.test > 0 /\ m \in Nat /\ m >= 1 /\ Len(MonthStarts) \in Nat
      /\ m + plan.train + plan.test + 1 <= Len(MonthStarts) /\ In(cur, m)
  BY PlanType, MonthsType DEF OnCalendar, In
<1>2. PICK first, next : /\ first = IF plan.train > 0 THEN AddMonths(cur, plan.train) ELSE cur
                         /\ next = AddMonths(first, plan.test)
  OBVIOUS
<1>3. test = <<first, next - 1>>
  BY <1>2 DEF WindowAt
<1>4. In(first, m + plan.train)
  <2>1. CASE plan.train > 0
    BY <1>1, <1>2, <2>1, AddMonthsIs
  <2>2. CASE plan.train = 0
    <3>1. m + plan.train = m /\ first = cur
      BY <1>1, <1>2, <2>2
    <3> QED BY <1>1, <3>1
  <2> QED BY <1>1, <2>1, <2>2
<1>5. PICK k : k = m + plan.train
  OBVIOUS
<1>6. In(next, k + plan.test)
  BY <1>1, <1>2, <1>4, <1>5, AddMonthsIs
<1>7. next \in Nat /\ next >= 1
  <2>1. k + plan.test \in 2 .. Len(MonthStarts)
    BY <1>1, <1>5
  <2>2. MonthStarts[1] < MonthStarts[k + plan.test]
    <3>1. 1 \in 1 .. Len(MonthStarts) /\ 1 < k + plan.test /\ k + plan.test \in 1 .. Len(MonthStarts)
      BY <1>1, <2>1
    <3> QED BY <3>1, MonthsGrow
  <2>3. MonthStarts[1] \in Nat /\ MonthStarts[k + plan.test] \in Nat
    BY <1>1, <2>1, MonthsType
  <2> QED BY <1>6, <2>2, <2>3 DEF In
<1>8. first \in Nat /\ (next - 1) + 1 = next
  BY <1>4, <1>7 DEF In
<1> QED
  BY <1>3, <1>4, <1>5, <1>6, <1>7, <1>8

(* A walk-forward starts on the calendar. *)
LEMMA StartOnCalendar ==
  ASSUME NEW plan \in Plans
  PROVE  \E m : OnCalendar(plan.start, plan, m)
<1>1. PICK n \in 1 .. Len(MonthStarts) :
        /\ plan.start < MonthStarts[n]
        /\ n + plan.train + plan.test + plan.step <= Len(MonthStarts)
  BY PlanType
<1>2. PICK m \in Nat : In(plan.start, m) /\ m < n
  BY <1>1, PlanType, MonthExists
<1>3. m + plan.train + plan.test + 1 <= Len(MonthStarts)
  <2>1. PICK a, b, c, l : a = plan.train /\ b = plan.test /\ c = plan.step /\ l = Len(MonthStarts)
    OBVIOUS
  <2>2. a \in Nat /\ b \in Nat /\ c \in Nat /\ l \in Nat
    BY <2>1, PlanType, MonthsType
  <2>3. m < n /\ n + a + b + c <= l /\ n \in Nat
    BY <1>1, <1>2, <2>1
  <2>4. m + a + b + 1 <= l
    BY <2>2, <2>3
  <2> QED BY <2>1, <2>4
<1> QED
  BY <1>2, <1>3 DEF OnCalendar

(* A turn that fits ends before the end of the plan, so the next one is    *)
(* inside the calendar too.                                                *)
LEMMA NextOnCalendar ==
  ASSUME NEW plan \in Plans, NEW cur, NEW m, OnCalendar(cur, plan, m), Fits(cur, plan)
  PROVE  OnCalendar(AddMonths(cur, plan.step), plan, m + plan.step)
<1>1. PICK n \in 1 .. Len(MonthStarts) :
        /\ plan.end + 1 < MonthStarts[n]
        /\ n + plan.train + plan.test + plan.step <= Len(MonthStarts)
  BY PlanType
<1>2. /\ plan.train \in Nat /\ plan.test \in Nat /\ plan.test > 0 /\ plan.step \in Nat /\ plan.end \in Nat
      /\ m \in Nat /\ n \in Nat /\ Len(MonthStarts) \in Nat
      /\ m + plan.train + plan.test + 1 <= Len(MonthStarts) /\ In(cur, m)
  BY PlanType, MonthsType DEF OnCalendar, In
<1>3. PICK test : test = WindowAt(cur, plan).test
  OBVIOUS
<1>4. test[2] \in Nat /\ In(test[2] + 1, m + plan.train + plan.test) /\ test[2] <= plan.end
  BY <1>3, TurnIs DEF Fits
<1>5. m + plan.train + plan.test < n
  <2>1. SUFFICES ASSUME n <= m + plan.train + plan.test PROVE FALSE
    BY <1>2
  <2>2. m + plan.train + plan.test \in 1 .. Len(MonthStarts)
    BY <1>4, MonthsType DEF In
  <2>3. MonthStarts[n] <= MonthStarts[m + plan.train + plan.test]
    <3>1. CASE n < m + plan.train + plan.test
      BY <1>1, <2>2, <3>1, MonthsGrow, MonthsType
    <3>2. CASE n = m + plan.train + plan.test
      BY <2>2, <3>2, MonthsType
    <3> QED BY <1>2, <2>1, <3>1, <3>2
  <2>4. MonthStarts[n] \in Nat /\ MonthStarts[m + plan.train + plan.test] \in Nat
    BY <1>1, <2>2, MonthsType
  <2>5. PICK a, b, c, end : /\ a = MonthStarts[n] /\ b = MonthStarts[m + plan.train + plan.test]
                            /\ c = test[2] /\ end = plan.end
    OBVIOUS
  <2>6. /\ a \in Nat /\ b \in Nat /\ c \in Nat /\ end \in Nat
        /\ a <= b /\ b <= c + 1 /\ c <= end /\ end + 1 < a
    BY <1>1, <1>2, <1>4, <2>3, <2>4, <2>5 DEF In
  <2> QED BY <2>6
<1>6. m + plan.step + 1 <= Len(MonthStarts)
  <2>1. PICK a, b, c, l : a = plan.train /\ b = plan.test /\ c = plan.step /\ l = Len(MonthStarts)
    OBVIOUS
  <2>2. a \in Nat /\ b \in Nat /\ c \in Nat /\ l \in Nat /\ m \in Nat /\ n \in Nat
    BY <1>2, <2>1
  <2>3. m + a + b < n /\ n + a + b + c <= l /\ b > 0
    BY <1>1, <1>2, <1>5, <2>1
  <2>4. m + c + 1 <= l
    BY <2>2, <2>3
  <2> QED BY <2>1, <2>4
<1>7. In(AddMonths(cur, plan.step), m + plan.step)
  BY <1>2, <1>6, AddMonthsIs
<1>8. m + plan.step + plan.train + plan.test + 1 <= Len(MonthStarts)
  <2>1. PICK a, b, c, l : a = plan.train /\ b = plan.test /\ c = plan.step /\ l = Len(MonthStarts)
    OBVIOUS
  <2>2. /\ a \in Nat /\ b \in Nat /\ c \in Nat /\ l \in Nat /\ m \in Nat /\ n \in Nat
        /\ m + a + b < n /\ n + a + b + c <= l
    BY <1>1, <1>2, <1>5, <2>1
  <2>3. m + c + a + b + 1 <= l
    BY <2>2
  <2> QED BY <2>1, <2>3
<1> QED
  BY <1>7, <1>8 DEF OnCalendar

(* With a start day every month has, no turn is clipped: cur is the off-th *)
(* day of its month, and so are the first day of its test window and the   *)
(* day after it.                                                           *)
Unclipped(off) ==
  off \in Nat /\ \A m \in 1..(Len(MonthStarts) - 1) : off < MonthStarts[m + 1] - MonthStarts[m]

(* d is that day of the m-th month, and there is a month k after it. *)
NthDay(d, m, off) == d = MonthStarts[m] + off
Within(m, k) == k \in Nat /\ m + k + 1 <= Len(MonthStarts)

(* Adding months keeps a day of the month that every month has. *)
LEMMA Steady ==
  ASSUME NEW d, NEW m, In(d, m), NEW k, Within(m, k),
         NEW off, Unclipped(off), NthDay(d, m, off)
  PROVE  NthDay(AddMonths(d, k), m + k, off)
<1>0. k \in Nat /\ m + k + 1 <= Len(MonthStarts) /\ d = MonthStarts[m] + off
  BY DEF Within, NthDay
<1>1. m + k \in 1 .. (Len(MonthStarts) - 1) /\ m \in 1 .. Len(MonthStarts) /\ (m + k) + 1 = m + k + 1
  BY <1>0, MonthsType DEF In
<1>2. off < MonthStarts[m + k + 1] - MonthStarts[m + k] /\ off \in Nat
  BY <1>1 DEF Unclipped
<1>3. MonthStarts[m] \in Nat
  BY <1>1, MonthsType
<1>4. d - MonthStarts[m] = off
  BY <1>0, <1>2, <1>3
<1> QED
  BY <1>0, <1>2, <1>4, AddMonthsIs DEF NthDay

(* So the test window of such a turn begins and ends on that day. *)
LEMMA SteadyTurn ==
  ASSUME NEW plan \in Plans, NEW cur, NEW m, OnCalendar(cur, plan, m), NEW test,
         test = WindowAt(cur, plan).test,
         NEW off, Unclipped(off), cur = MonthStarts[m] + off
  PROVE  /\ test[1] = MonthStarts[m + plan.train] + off
         /\ test[2] + 1 = MonthStarts[m + plan.train + plan.test] + off
<1>1. /\ plan.train \in Nat /\ plan.test \in Nat /\ plan.test > 0 /\ m \in Nat /\ m >= 1 /\ Len(MonthStarts) \in Nat
      /\ m + plan.train + plan.test + 1 <= Len(MonthStarts) /\ In(cur, m)
  BY PlanType, MonthsType DEF OnCalendar, In
<1>2. PICK first, next : /\ first = IF plan.train > 0 THEN AddMonths(cur, plan.train) ELSE cur
                         /\ next = AddMonths(first, plan.test)
  OBVIOUS
<1>3. test = <<first, next - 1>>
  BY <1>2 DEF WindowAt
<1>4. first = MonthStarts[m + plan.train] + off
  <2>1. CASE plan.train > 0
    <3>1. PICK k \in Nat : k = plan.train
      BY <1>1
    <3>2. m + k + 1 <= Len(MonthStarts) /\ first = AddMonths(cur, k)
      BY <1>1, <1>2, <2>1, <3>1
    <3>3. In(cur, m) /\ Within(m, k) /\ NthDay(cur, m, off)
      BY <1>1, <3>2 DEF Within, NthDay
    <3>4. NthDay(AddMonths(cur, k), m + k, off)
      BY <3>3, Steady
    <3> QED BY <3>1, <3>2, <3>4 DEF NthDay
  <2>2. CASE plan.train = 0
    <3>1. m + plan.train = m /\ first = cur
      BY <1>1, <1>2, <2>2
    <3> QED BY <3>1
  <2> QED BY <1>1, <2>1, <2>2
<1>5. PICK k : k = m + plan.train
  OBVIOUS
<1>6. In(first, k)
  BY <1>3, <1>5, TurnIs
<1>7. next = MonthStarts[k + plan.test] + off
  <2>1. Within(k, plan.test) /\ NthDay(first, k, off)
    BY <1>1, <1>4, <1>5 DEF Within, NthDay
  <2>2. NthDay(AddMonths(first, plan.test), k + plan.test, off)
    BY <1>6, <2>1, Steady
  <2> QED BY <1>2, <2>2 DEF NthDay
<1>8. MonthStarts[k + plan.test] \in Nat /\ off \in Nat
  BY <1>1, <1>5, MonthsType DEF Unclipped
<1>9. (next - 1) + 1 = next
  BY <1>7, <1>8
<1> QED
  BY <1>3, <1>4, <1>5, <1>7, <1>9

(***************************************************************************)
(* What a step does to the table: a row keeps everything but its tags and  *)
(* its verdict, which only a handler that judged it again replaces; a new  *)
(* row is the one its handler held, or a walk-forward's parent.            *)
(***************************************************************************)
SameRow(r, s) ==
  /\ r.strategy = s.strategy /\ r.dates = s.dates /\ r.ran = s.ran /\ r.trades = s.trades
  /\ r.on = s.on /\ r.parent = s.parent /\ r.kids = s.kids

Rewritten(i) ==
  \E p \in Procs : /\ job[p].at = "verdict" /\ job[p].saved = i
                   /\ \E r \in job[p].row : reports'[i].parity = r.parity

ParentOf(w, r) ==
  /\ w.at = "run" /\ w.op = "walkforward"
  /\ r.parent = TRUE /\ r.kids = w.kids /\ r.ran.plan = w.plan /\ r.ran.seeder = w.seeder
  /\ r.parity = NoVerdict

Inserts(w, r) == (w.at = "save" /\ r \in w.row) \/ ParentOf(w, r)

RowMoves ==
  /\ \A i \in Ids : i \in Ids' /\ SameRow(reports'[i], reports[i])
  /\ \A i \in Ids : reports'[i].parity = reports[i].parity \/ Rewritten(i)
  /\ \A i \in Ids' : i \notin Ids =>
       i \in Nat /\ (\A k \in Ids : k < i) /\ (\E p \in Procs : Inserts(job[p], reports'[i]))

(* The three ways in which a step may change the reports. *)
LEMMA RowsUnmoved ==
  ASSUME UNCHANGED reports
  PROVE  RowMoves
BY DEF RowMoves, SameRow, Ids

LEMMA RowInserted ==
  ASSUME FamiliesInv, NEW p \in Procs, NEW row, Inserts(job[p], row),
         reports' = Append(reports, row)
  PROVE  RowMoves
<1>1. IsSeq(reports)
  BY DEF FamiliesInv, Tables
<1>2. PICK new : new = Len(reports) + 1
  OBVIOUS
<1>3. /\ new \in Nat /\ new \notin Ids /\ Ids' = Ids \cup {new} /\ reports'[new] = row
      /\ \A i \in Ids : reports'[i] = reports[i] /\ i < new
  BY <1>1, <1>2, ReportAdded
<1> QED
  BY <1>3 DEF RowMoves, SameRow

LEMMA RowUpdated ==
  ASSUME FamiliesInv, NEW k \in Ids, NEW row, SameRow(row, reports[k]),
         row.parity = reports[k].parity
           \/ \E p \in Procs : /\ job[p].at = "verdict" /\ job[p].saved = k
                               /\ \E r \in job[p].row : row.parity = r.parity,
         reports' = [reports EXCEPT ![k] = row]
  PROVE  RowMoves
<1>1. IsSeq(reports)
  BY DEF FamiliesInv, Tables
<1>2. Ids' = Ids /\ reports'[k] = row /\ \A i \in Ids : i # k => reports'[i] = reports[i]
  BY <1>1, ReportReplaced
<1> QED
  BY <1>2 DEF RowMoves, SameRow, Rewritten

(* Every step is one of them. *)
LEMMA RowsMove ==
  ASSUME FamiliesInv, [Next]_vars
  PROVE  RowMoves
<1>1. ASSUME NEW p \in Procs, SaveResult(p) PROVE RowMoves
  <2>1. PICK row \in job[p].row : reports' = Append(reports, row)
    BY <1>1 DEF SaveResult
  <2>2. Inserts(job[p], row)
    BY <1>1 DEF SaveResult, At, Inserts
  <2> QED BY <2>1, <2>2, RowInserted
<1>2. ASSUME NEW p \in Procs, Aggregate(p) PROVE RowMoves
  <2>1. PICK w, days, trades, d :
          w = job[p] /\ days = <<w.plan.start, w.plan.end>>
          /\ trades = UNION {reports[k].trades : k \in w.kids} /\ d = today
    OBVIOUS
  <2>2. PICK row : row =
         [strategy |-> w.strategy, dates |-> days,
          ran |-> [Input(w.seeder, w.seed, days, Stored, w.initial) EXCEPT !.plan = w.plan],
          trades |-> trades, on |-> d,
          sweep |-> NoId, wf |-> w.tag, parent |-> TRUE, kids |-> w.kids,
          parity |-> NoVerdict]
    OBVIOUS
  <2>3. reports' = Append(reports, row) /\ w.op = "walkforward" /\ w.at = "run"
    BY <1>2, <2>1, <2>2 DEF Aggregate, At
  <2>4. ParentOf(w, row)
    BY <2>2, <2>3 DEF ParentOf, Input
  <2> QED
    BY <2>1, <2>3, <2>4, RowInserted DEF Inserts
<1>3. ASSUME NEW p \in Procs, TagCombo(p) \/ TagWindow(p) PROVE RowMoves
  <2>1. PICK k, r, tag : k = job[p].saved /\ r = reports[k] /\ tag = job[p].tag
    OBVIOUS
  <2>2. k \in Ids /\ IsRow(r)
    BY <1>3, <2>1 DEF FamiliesInv, Tables, Claim, TagCombo, TagWindow, At
  <2>3. PICK row : /\ row = [r EXCEPT !.sweep = tag] \/ row = [r EXCEPT !.wf = tag]
                   /\ reports' = [reports EXCEPT ![k] = row]
    BY <1>3, <2>1 DEF TagCombo, TagWindow
  <2>4. SameRow(row, r) /\ row.parity = r.parity
    BY <2>2, <2>3 DEF SameRow, IsRow, Columns
  <2> QED
    BY <2>1, <2>2, <2>3, <2>4, RowUpdated
<1>4. ASSUME NEW p \in Procs, WriteParity(p) PROVE RowMoves
  <2>1. PICK k, r : k = job[p].saved /\ r = reports[k]
    OBVIOUS
  <2>2. k \in Ids /\ IsRow(r) /\ job[p].at = "verdict"
    BY <1>4, <2>1 DEF FamiliesInv, Tables, Claim, WriteParity, At
  <2>3. PICK held \in job[p].row : reports' = [reports EXCEPT ![k].parity = held.parity]
    BY <1>4, <2>1 DEF WriteParity
  <2>4. PICK row : row = [r EXCEPT !.parity = held.parity]
    OBVIOUS
  <2>5. reports' = [reports EXCEPT ![k] = row]
    BY <2>1, <2>3, <2>4
  <2>6. SameRow(row, r) /\ row.parity = held.parity
    BY <2>2, <2>4 DEF SameRow, IsRow, Columns
  <2> QED
    BY <2>1, <2>2, <2>5, <2>6, RowUpdated
<1>5. ASSUME NEW p \in Procs,
             \/ StartBacktest(p) \/ StartSweep(p) \/ StartWalkForward(p)
             \/ RunCombo(p) \/ ComboFails(p) \/ GridDone(p)
             \/ RunWindow(p) \/ WindowFails(p) \/ NothingToAggregate(p)
             \/ ReadParity(p) \/ Fork(p) \/ Fetch(p) \/ Crash(p)
      PROVE  UNCHANGED reports
  BY <1>5 DEF StartBacktest, StartSweep, StartWalkForward, RunCombo, ComboFails, GridDone,
       RunWindow, WindowFails, NothingToAggregate, ReadParity, Fork, Fetch, Crash, reportVars
<1>6. World \/ UNCHANGED vars => UNCHANGED reports
  BY DEF World, vars, reportVars
<1> QED
  BY <1>1, <1>2, <1>3, <1>4, <1>5, <1>6, RowsUnmoved DEF Next

------------------------------------------------------------------------------
(* What a step makes of a handler's job. *)
Alike(w, n) ==
  n.op = w.op /\ n.strategy = w.strategy /\ n.seeder = w.seeder
    /\ n.window = w.window /\ n.plan = w.plan

StartsOut(w, n) ==
  /\ n.at = "run" /\ n.kids = {}
  /\ n.op = "walkforward" => n.plan \in Plans /\ n.cur = n.plan.start
  /\ n.op # "walkforward" => n.window \in Windows

RunsNow(w, n) ==
  /\ w.at = "run" /\ n.at = "save" /\ Alike(w, n) /\ n.cur = w.cur /\ n.kids = w.kids
  /\ w.op = "walkforward" => Fits(w.cur, w.plan)
  /\ \E ran :
       /\ ran.seeder = w.seeder
       /\ ran.window = IF w.op = "walkforward" THEN WindowAt(w.cur, w.plan).test ELSE w.window
       /\ \E r \in Judged(Result(w.strategy, ran)) : n.row = {r}

Saves(w, n) ==
  /\ w.at = "save" /\ n.at = "tag" /\ Alike(w, n) /\ n.cur = w.cur /\ n.kids = w.kids
  /\ n.saved \in Ids' /\ n.saved \notin Ids /\ reports'[n.saved] \in w.row
  /\ \A k \in Ids : k < n.saved

NextCombo(w, n) == w.op # "walkforward" /\ n.at = "run" /\ w.at \in {"run", "tag"} /\ Alike(w, n)

PassesOver(w, n) ==
  /\ w.at = "run" /\ n.at = "run" /\ w.op = "walkforward" /\ Alike(w, n) /\ n.kids = w.kids
  /\ Fits(w.cur, w.plan) /\ ~Runs(w.seeder, WindowAt(w.cur, w.plan).test)
  /\ n.cur = AddMonths(w.cur, w.plan.step)

TakesIn(w, n) ==
  /\ w.at = "tag" /\ n.at = "run" /\ w.op = "walkforward" /\ Alike(w, n)
  /\ n.kids = w.kids \cup {w.saved} /\ n.cur = AddMonths(w.cur, w.plan.step)

JudgesAgain(w, n) ==
  n.at = "verdict" /\ n.saved \in Ids /\ \E r \in Judged(reports[n.saved]) : n.row = {r}

Move(w, n) ==
  \/ n = w \/ n.at = "idle" \/ StartsOut(w, n) \/ RunsNow(w, n) \/ Saves(w, n)
  \/ NextCombo(w, n) \/ PassesOver(w, n) \/ TakesIn(w, n) \/ JudgesAgain(w, n)

JobMoves == \A q \in Procs : Move(job[q], job'[q])

(* One handler moves, the others keep their jobs. *)
LEMMA OneMoves ==
  ASSUME FamiliesInv, NEW p \in Procs, NEW n, Become(p, n), Move(job[p], n)
  PROVE  JobMoves
<1>1. DOMAIN job = Procs
  BY DEF FamiliesInv, Tables
<1>2. job'[p] = n /\ \A q \in Procs : q # p => job'[q] = job[q]
  BY <1>1 DEF Become
<1>3. \A q \in Procs : q # p => Move(job[q], job'[q])
  BY <1>2 DEF Move
<1> QED
  BY <1>2, <1>3 DEF JobMoves

LEMMA NoneMoves ==
  ASSUME UNCHANGED job
  PROVE  JobMoves
BY DEF JobMoves, Move

(* A request that comes in. *)
LEMMA JobsStart ==
  ASSUME FamiliesInv, NEW p \in Procs,
         StartBacktest(p) \/ StartSweep(p) \/ StartWalkForward(p)
  PROVE  JobMoves
<1>1. CASE StartBacktest(p)
  <2>1. PICK asked \in Asked(p, "backtest"), w \in Windows :
          Become(p, [asked EXCEPT !.window = w, !.todo = <<Stored>>])
    BY <1>1 DEF StartBacktest
  <2>2. PICK n : n = [asked EXCEPT !.window = w, !.todo = <<Stored>>]
    OBVIOUS
  <2>3. StartsOut(job[p], n)
    <3>1. Starting(asked, "backtest")
      BY <2>1, AskedIs
    <3> QED BY <2>1, <2>2, <3>1 DEF StartsOut, Starting, Entries
  <2> QED BY <2>1, <2>2, <2>3, OneMoves DEF Move
<1>2. CASE StartSweep(p)
  <2>1. PICK asked \in Asked(p, "sweep"), w \in Windows, tag \in {FreshTag} :
          Become(p, [asked EXCEPT !.window = w, !.todo = Combos, !.tag = tag])
    BY <1>2 DEF StartSweep
  <2>2. PICK n : n = [asked EXCEPT !.window = w, !.todo = Combos, !.tag = tag]
    OBVIOUS
  <2>3. StartsOut(job[p], n)
    <3>1. Starting(asked, "sweep")
      BY <2>1, AskedIs
    <3> QED BY <2>1, <2>2, <3>1 DEF StartsOut, Starting, Entries
  <2> QED BY <2>1, <2>2, <2>3, OneMoves DEF Move
<1>3. CASE StartWalkForward(p)
  <2>1. PICK asked \in Asked(p, "walkforward"), plan \in Plans, tag \in {FreshTag} :
          Become(p, [asked EXCEPT !.plan = plan, !.cur = plan.start, !.tag = tag])
    BY <1>3 DEF StartWalkForward
  <2>2. PICK d : d = plan.start
    OBVIOUS
  <2>3. PICK n : n = [asked EXCEPT !.plan = plan, !.cur = d, !.tag = tag]
    OBVIOUS
  <2>4. StartsOut(job[p], n)
    <3>1. Starting(asked, "walkforward")
      BY <2>1, AskedIs
    <3> QED BY <2>1, <2>2, <2>3, <3>1 DEF StartsOut, Starting, Entries
  <2> QED BY <2>1, <2>2, <2>3, <2>4, OneMoves DEF Move
<1> QED
  BY <1>1, <1>2, <1>3

(* A run, and one that fails. *)
LEMMA JobsRun ==
  ASSUME FamiliesInv, NEW p \in Procs,
         \/ RunCombo(p) \/ ComboFails(p) \/ RunWindow(p) \/ WindowFails(p)
  PROVE  JobMoves
<1>1. PICK w : w = job[p]
  OBVIOUS
<1>2. DOMAIN w = Entries
  BY <1>1 DEF FamiliesInv, Tables, IsJob
<1>3. ASSUME NEW window, NEW over, w.at = "run",
             window = IF w.op = "walkforward" THEN WindowAt(w.cur, w.plan).test ELSE w.window,
             w.op = "walkforward" => Fits(w.cur, w.plan),
             RunAndHold(p, window, over)
      PROVE  JobMoves
  <2>1. PICK ran : ran = InputOf(p, window, over)
    OBVIOUS
  <2>2. ran.seeder = w.seeder /\ ran.window = window
    BY <1>1, <2>1 DEF InputOf, Input
  <2>3. PICK row \in Judged(Result(w.strategy, ran)) :
          Become(p, [w EXCEPT !.at = "save", !.row = {row}])
    BY <1>1, <1>3, <2>1 DEF RunAndHold
  <2>4. PICK n : n = [w EXCEPT !.at = "save", !.row = {row}]
    OBVIOUS
  <2>5. Alike(w, n) /\ n.at = "save" /\ n.cur = w.cur /\ n.kids = w.kids /\ n.row = {row}
    BY <1>2, <2>4 DEF Entries, Alike
  <2>6. RunsNow(w, n)
    BY <1>3, <2>5, <2>2, <2>3 DEF RunsNow
  <2> QED BY <1>1, <2>4, <2>6, <2>3, OneMoves DEF Move
<1>4. CASE RunCombo(p)
  <2>1. /\ w.at = "run" /\ w.op # "walkforward"
        /\ \E over : RunAndHold(p, w.window, over)
    BY <1>1, <1>4 DEF RunCombo, At
  <2> QED BY <1>3, <2>1
<1>5. CASE ComboFails(p)
  <2>1. PICK todo : w.at = "run" /\ w.op # "walkforward" /\ Become(p, [w EXCEPT !.todo = todo])
    BY <1>1, <1>5 DEF ComboFails, At
  <2>2. PICK n : n = [w EXCEPT !.todo = todo]
    OBVIOUS
  <2>3. NextCombo(w, n)
    BY <1>2, <2>1, <2>2 DEF NextCombo, Entries, Alike
  <2> QED BY <1>1, <2>1, <2>2, <2>3, OneMoves DEF Move
<1>6. CASE RunWindow(p)
  <2>1. /\ w.at = "run" /\ w.op = "walkforward" /\ Fits(w.cur, w.plan)
        /\ \E over : RunAndHold(p, WindowAt(w.cur, w.plan).test, over)
    BY <1>1, <1>6 DEF RunWindow, At, MoreWindows, Turn
  <2> QED BY <1>3, <2>1
<1>7. CASE WindowFails(p)
  <2>1. PICK d : d = AddMonths(w.cur, w.plan.step)
    OBVIOUS
  <2>2. /\ w.at = "run" /\ w.op = "walkforward" /\ Fits(w.cur, w.plan)
        /\ ~Runs(w.seeder, WindowAt(w.cur, w.plan).test)
        /\ Become(p, [w EXCEPT !.cur = d])
    BY <1>1, <1>7, <2>1 DEF WindowFails, At, MoreWindows, Turn, NextWindow
  <2>3. PICK n : n = [w EXCEPT !.cur = d]
    OBVIOUS
  <2>4. n.at = "run" /\ Alike(w, n) /\ n.kids = w.kids /\ n.cur = d
    BY <1>2, <2>2, <2>3 DEF Entries, Alike
  <2>5. PassesOver(w, n)
    BY <2>1, <2>2, <2>4 DEF PassesOver
  <2> QED BY <1>1, <2>2, <2>3, <2>5, OneMoves DEF Move
<1> QED
  BY <1>4, <1>5, <1>6, <1>7

(* A save, and the tag after it. *)
LEMMA JobsSave ==
  ASSUME FamiliesInv, NEW p \in Procs, SaveResult(p) \/ TagCombo(p) \/ TagWindow(p)
  PROVE  JobMoves
<1>1. PICK w : w = job[p]
  OBVIOUS
<1>2. DOMAIN w = Entries
  BY <1>1 DEF FamiliesInv, Tables, IsJob
<1>3. CASE SaveResult(p)
  <2>1. PICK row \in w.row : reports' = Append(reports, row) /\ w.at = "save"
    BY <1>1, <1>3 DEF SaveResult, At
  <2>2. PICK new : new = Len(reports) + 1
    OBVIOUS
  <2>3. PICK n : n = IF w.op = "backtest" THEN Idle
                     ELSE [w EXCEPT !.at = "tag", !.row = {}, !.saved = new]
    OBVIOUS
  <2>4. Become(p, n)
    BY <1>1, <1>3, <2>2, <2>3 DEF SaveResult
  <2>5. new \in Ids' /\ new \notin Ids /\ reports'[new] = row /\ \A k \in Ids : k < new
    <3>1. IsSeq(reports)
      BY DEF FamiliesInv, Tables
    <3> QED BY <2>1, <2>2, <3>1, ReportAdded
  <2>6. CASE w.op = "backtest"
    <3>1. n.at = "idle"
      BY <2>3, <2>6 DEF Idle
    <3> QED BY <2>4, <3>1, OneMoves DEF Move
  <2>7. CASE w.op # "backtest"
    <3>1. /\ n.at = "tag" /\ Alike(w, n) /\ n.cur = w.cur /\ n.kids = w.kids /\ n.saved = new
      BY <1>2, <2>3, <2>7 DEF Entries, Alike
    <3>2. Saves(w, n)
      BY <2>1, <2>5, <3>1 DEF Saves
    <3> QED BY <1>1, <2>4, <3>2, OneMoves DEF Move
  <2> QED BY <2>6, <2>7
<1>4. CASE TagCombo(p)
  <2>1. PICK todo : /\ w.at = "tag" /\ w.op = "sweep"
                    /\ Become(p, [w EXCEPT !.at = "run", !.todo = todo, !.saved = NoId])
    BY <1>1, <1>4 DEF TagCombo, At
  <2>2. PICK n : n = [w EXCEPT !.at = "run", !.todo = todo, !.saved = NoId]
    OBVIOUS
  <2>3. NextCombo(w, n)
    BY <1>2, <2>1, <2>2 DEF NextCombo, Entries, Alike
  <2> QED BY <1>1, <2>1, <2>2, <2>3, OneMoves DEF Move
<1>5. CASE TagWindow(p)
  <2>1. PICK d, kids, sum :
          /\ d = AddMonths(w.cur, w.plan.step) /\ kids = w.kids \cup {w.saved}
          /\ sum = EndOf(reports[w.saved].ran, reports[w.saved].trades)
    OBVIOUS
  <2>2. /\ w.at = "tag" /\ w.op = "walkforward"
        /\ Become(p, [w EXCEPT !.at = "run", !.cur = d, !.saved = NoId, !.kids = kids,
                               !.equity = sum])
    BY <1>1, <1>5, <2>1 DEF TagWindow, At, NextWindow, AfterWindow
  <2>3. PICK n : n = [w EXCEPT !.at = "run", !.cur = d, !.saved = NoId, !.kids = kids,
                               !.equity = sum]
    OBVIOUS
  <2>4. n.at = "run" /\ Alike(w, n) /\ n.kids = kids /\ n.cur = d
    BY <1>2, <2>3 DEF Entries, Alike
  <2>5. TakesIn(w, n)
    BY <2>1, <2>2, <2>4 DEF TakesIn
  <2> QED BY <1>1, <2>2, <2>3, <2>5, OneMoves DEF Move
<1> QED
  BY <1>3, <1>4, <1>5

(* Every step makes one of these moves of every job. *)
LEMMA JobsMove ==
  ASSUME FamiliesInv, [Next]_vars
  PROVE  JobMoves
<1>1. ASSUME NEW p \in Procs, ReadParity(p) PROVE JobMoves
  <2>1. PICK id \in DOMAIN reports : \E row \in Judged(reports[id]) :
          Become(p, [Idle EXCEPT !.at = "verdict", !.saved = id, !.row = {row}])
    BY <1>1 DEF ReadParity
  <2>5. PICK row \in Judged(reports[id]) :
          Become(p, [Idle EXCEPT !.at = "verdict", !.saved = id, !.row = {row}])
    BY <2>1
  <2>2. PICK n : n = [Idle EXCEPT !.at = "verdict", !.saved = id, !.row = {row}]
    OBVIOUS
  <2>3. n.at = "verdict" /\ n.saved = id /\ n.row = {row}
    BY <2>2 DEF Idle
  <2>4. JudgesAgain(job[p], n)
    BY <2>3, <2>5 DEF JudgesAgain, Ids
  <2> QED BY <2>5, <2>2, <2>4, OneMoves DEF Move
<1>2. ASSUME NEW p \in Procs,
             \/ GridDone(p) \/ Aggregate(p) \/ NothingToAggregate(p) \/ WriteParity(p) \/ Crash(p)
      PROVE JobMoves
  <2>1. Become(p, Idle)
    BY <1>2 DEF GridDone, Aggregate, NothingToAggregate, WriteParity, Crash
  <2>2. Idle.at = "idle"
    BY DEF Idle
  <2>3. Move(job[p], Idle)
    BY <2>2 DEF Move
  <2> QED BY <2>1, <2>3, OneMoves
<1>3. ASSUME NEW p \in Procs, Fork(p) \/ Fetch(p) PROVE JobMoves
  BY <1>3, NoneMoves DEF Fork, Fetch
<1>4. World \/ UNCHANGED vars => UNCHANGED job
  BY DEF World, vars
<1> QED
  BY <1>1, <1>2, <1>3, <1>4, JobsStart, JobsRun, JobsSave, NoneMoves DEF Next

(***************************************************************************)
(* Replays.  What a handler runs over is typed and inside the calendar.    *)
(***************************************************************************)
OnTrack(w) ==
  /\ w.op # "walkforward" /\ w.at \in {"run", "save", "tag"} => w.window \in Windows
  /\ w.op = "walkforward" /\ w.at \in {"run", "save", "tag"} =>
       w.plan \in Plans /\ \E m : OnCalendar(w.cur, w.plan, m)
  /\ w.op = "walkforward" /\ w.at \in {"save", "tag"} => Fits(w.cur, w.plan)

(* A walk-forward goes to its next turn only from one that fits. *)
LEMMA TrackNext ==
  ASSUME NEW w, OnTrack(w), NEW n, Move(w, n)
  PROVE  OnTrack(n)
<1>1. CASE n = w \/ n.at = "idle" \/ JudgesAgain(w, n)
  BY <1>1 DEF OnTrack, JudgesAgain
<1>2. CASE StartsOut(w, n)
  BY <1>2, StartOnCalendar DEF StartsOut, OnTrack
<1>3. CASE RunsNow(w, n) \/ Saves(w, n) \/ NextCombo(w, n)
  BY <1>3 DEF RunsNow, Saves, NextCombo, Alike, OnTrack
<1>4. CASE PassesOver(w, n) \/ TakesIn(w, n)
  <2>1. /\ n.at = "run" /\ n.op = "walkforward" /\ n.plan = w.plan
        /\ n.cur = AddMonths(w.cur, w.plan.step)
        /\ w.op = "walkforward" /\ w.at \in {"run", "tag"} /\ Fits(w.cur, w.plan)
    BY <1>4 DEF PassesOver, TakesIn, Alike, OnTrack
  <2>2. PICK m : w.plan \in Plans /\ OnCalendar(w.cur, w.plan, m)
    BY <2>1 DEF OnTrack
  <2>3. OnCalendar(AddMonths(w.cur, w.plan.step), w.plan, m + w.plan.step)
    BY <2>1, <2>2, NextOnCalendar
  <2>4. OnCalendar(n.cur, n.plan, m + w.plan.step)
    BY <2>1, <2>3
  <2> QED BY <2>1, <2>2, <2>4 DEF OnTrack
<1> QED
  BY <1>1, <1>2, <1>3, <1>4 DEF Move

(* A row whose window was over when it ran has the trades a replay finds   *)
(* now; a verdict that passes is about a report with another curve.        *)
Honest(r) ==
  ~r.parent =>
    /\ r.ran.window \in Nat \X Nat /\ r.on \in Nat /\ r.on <= today
    /\ (r.ran.seeder = "synthetic" \/ r.ran.window[2] < r.on) =>
         r.trades = TradesOf(r.ran)

Fair(parity, r) ==
  parity.passes => parity.base \in Ids /\ ~SameCurve(r, reports[parity.base])

HoldsSound(w) ==
  /\ OnTrack(w)
  /\ w.at = "save" => \A r \in w.row : Honest(r) /\ Fair(r.parity, r)
  /\ w.at = "verdict" =>
       w.saved \in Ids /\ \A r \in w.row : Fair(r.parity, reports[w.saved])

ReplayInv ==
  /\ \A p \in Procs : HoldsSound(job[p])
  /\ \A i \in Ids : Honest(reports[i]) /\ Fair(reports[i].parity, reports[i])

(* What a replay finds does not change once its window is over. *)
LEMMA TradesStay ==
  ASSUME CacheInv, PastStays, NEW ran, ran.window \in Nat \X Nat,
         ran.seeder = "synthetic" \/ ran.window[2] < today
  PROVE  TradesOf(ran)' = TradesOf(ran)
<1>1. PICK window : window = ran.window
  OBVIOUS
<1>2. window[2] \in Nat /\ window \in Nat \X Nat
      /\ (ran.seeder = "synthetic" \/ window[2] < today)
  BY <1>1
<1>3. window[2] < today => RealCandidates(earnings', window, SeedThreshold, window[2])
        = RealCandidates(earnings, window, SeedThreshold, window[2])
  BY <1>2 DEF PastStays
<1>4. CandidatesFor(ran)' = CandidatesFor(ran)
  BY <1>1, <1>3 DEF CandidatesFor, KnownCandidates, SyntheticCandidates, BarsIn
<1> QED
  BY <1>4 DEF TradesOf

(* A row that tells what its replay was given still does tomorrow. *)
LEMMA HonestStays ==
  ASSUME CacheInv, PastStays, today <= today', today' \in Nat, NEW r, Honest(r),
         NEW s, s.parent = r.parent, s.ran = r.ran, s.on = r.on, s.trades = r.trades
  PROVE  Honest(s)'
<1>1. SUFFICES ASSUME ~r.parent PROVE Honest(s)'
  BY DEF Honest
<1>2. today \in Nat
  BY EarningsAssumption DEF CacheInv
<1>3. PICK ran, on : ran = r.ran /\ on = r.on
  OBVIOUS
<1>4. PICK window : window = ran.window
  OBVIOUS
<1>5. window \in Nat \X Nat /\ on \in Nat /\ on <= today
      /\ ((ran.seeder = "synthetic" \/ window[2] < on) => r.trades = TradesOf(ran))
  BY <1>1, <1>3, <1>4 DEF Honest
<1>6. on <= today'
  BY <1>2, <1>5
<1>7. ASSUME ran.seeder = "synthetic" \/ window[2] < on PROVE s.trades = TradesOf(ran)'
  <2>1. ran.seeder = "synthetic" \/ window[2] < today
    <3>1. window[2] \in Nat
      BY <1>5
    <3> QED BY <1>2, <1>5, <1>7, <3>1
  <2>2. TradesOf(ran)' = TradesOf(ran)
    BY <1>4, <1>5, <2>1, TradesStay
  <2> QED BY <1>5, <1>7, <2>2
<1> QED
  BY <1>3, <1>4, <1>5, <1>6, <1>7 DEF Honest

(* A row that no handler has saved yet: this step's result. *)
LEMMA ResultHonest ==
  ASSUME CacheInv, NEW s, NEW ran, ran.window \in Nat \X Nat,
         NEW row \in Judged(Result(s, ran))
  PROVE  Honest(row) /\ row.ran = ran /\ \E r : SameRow(row, r) /\ row.parity \in Parities(r)
<1> DEFINE r == Result(s, ran)
<1>0. today \in Nat
  BY EarningsAssumption DEF CacheInv
<1>1. /\ DOMAIN r = Columns /\ r.on = today
      /\ r.ran = ran /\ r.trades = TradesOf(ran)
  BY DEF Result, Columns
<1> HIDE DEF r
<1>2. /\ \A c \in Columns \ {"parity"} : row[c] = r[c]
      /\ row.parity \in Parities(r)
  BY <1>1, JudgedRow DEF r
<1>3. {"strategy", "dates", "on", "ran", "trades", "parent", "kids"} \subseteq Columns \ {"parity"}
  BY DEF Columns
<1>4. SameRow(row, r)
  BY <1>2, <1>3 DEF SameRow
<1>5. row.ran.window \in Nat \X Nat /\ row.on \in Nat /\ row.on <= today
  BY <1>0, <1>1, <1>4 DEF SameRow
<1>6. row.trades = TradesOf(row.ran) /\ row.ran = ran
  BY <1>1, <1>4 DEF SameRow
<1> QED
  BY <1>1, <1>2, <1>4, <1>5, <1>6 DEF Honest

(* compute_parity_report never lets equal curves pass. *)
LEMMA VerdictsAreFair ==
  ASSUME FamiliesInv, NEW r, NEW parity \in Parities(r)
  PROVE  Fair(parity, r)
<1>1. CASE Baselines(r.strategy, r.dates) = {}
  BY <1>1 DEF Parities, NoVerdict, Fair
<1>2. CASE Baselines(r.strategy, r.dates) # {}
  <2>1. PICK found, base : found = Baselines(r.strategy, r.dates) /\ base = Max(found)
    OBVIOUS
  <2>2. PICK n \in Nat : Ids = 1 .. n
    <3>1. IsSeq(reports)
      BY DEF FamiliesInv, Tables
    <3> DEFINE S == {reports[i] : i \in Ids}
    <3>2. reports \in Seq(S)
      BY <3>1 DEF IsSeq, Ids
    <3> HIDE DEF S
    <3> QED BY <3>2 DEF Ids
  <2>3. found \subseteq Ids
    BY <2>1 DEF Baselines, Ids
  <2>4. found \in SUBSET Nat /\ \A x \in found : x <= n
    BY <2>2, <2>3
  <2>5. base \in found
    BY <1>2, <2>1, <2>4, LargestNat
  <2>6. parity \in Verdicts(r, base)
    BY <1>2, <2>1 DEF Parities
  <2>7. parity.base = base /\ (parity.passes => ~SameCurve(r, reports[base]))
    <3>1. PICK b \in (IF SameCurve(r, reports[base]) THEN {FALSE} ELSE BOOLEAN) :
            parity = [base |-> base, passes |-> b]
      BY <2>6 DEF Verdicts
    <3>2. parity.base = base /\ parity.passes = b
      BY <3>1
    <3>3. CASE SameCurve(r, reports[base])
      <4>1. b = FALSE
        BY <3>1, <3>3
      <4> QED BY <3>2, <4>1
    <3> QED BY <3>2, <3>3
  <2> QED BY <2>3, <2>5, <2>7 DEF Fair
<1> QED
  BY <1>1, <1>2

(* A verdict stays fair while rows keep their runs and trades. *)
LEMMA SameCurves ==
  ASSUME NEW r, NEW s, SameRow(s, r), NEW a, NEW b, SameRow(b, a), SameCurve(s, b)
  PROVE  SameCurve(r, a)
BY DEF SameRow, SameCurve

LEMMA FairAlike ==
  ASSUME NEW parity, NEW r, NEW s, SameRow(s, r), Fair(parity, r)
  PROVE  Fair(parity, s)
BY DEF SameRow, SameCurve, Fair

LEMMA FairStays ==
  ASSUME RowMoves, NEW parity, NEW r, NEW s, SameRow(s, r), Fair(parity, r)
  PROVE  Fair(parity, s)'
<1>1. SUFFICES ASSUME parity.passes
               PROVE  parity.base \in Ids' /\ ~SameCurve(s, reports'[parity.base])
  BY DEF Fair, SameCurve
<1>2. PICK base, old, new : /\ base = parity.base
                           /\ old = reports[base] /\ new = reports'[base]
  OBVIOUS
<1>3. base \in Ids /\ ~SameCurve(r, old)
  BY <1>1, <1>2 DEF Fair
<1>4. base \in Ids' /\ SameRow(new, old)
  BY <1>2, <1>3 DEF RowMoves
<1> QED
  BY <1>2, <1>3, <1>4, SameCurves

(* What the handlers hold after a step. *)
LEMMA ReplayJobs ==
  ASSUME FamiliesInv, CacheInv, ReplayInv, RowMoves, JobMoves, PastStays,
         today <= today', today' \in Nat,
         NEW p \in Procs
  PROVE  HoldsSound(job[p])'
<1>1. PICK w, n : w = job[p] /\ n = job'[p]
  OBVIOUS
<1>2. Move(w, n) /\ OnTrack(w)
  BY <1>1 DEF JobMoves, ReplayInv, HoldsSound
<1>3. OnTrack(n)
  BY <1>2, TrackNext
<1>4. ASSUME NEW r \in n.row, n.at = "save" PROVE Honest(r)' /\ Fair(r.parity, r)'
  <2>1. Honest(r) /\ Fair(r.parity, r)
    <3>1. CASE n = w
      BY <1>1, <1>4, <3>1 DEF ReplayInv, HoldsSound
    <3>2. CASE RunsNow(w, n)
      <4>1. PICK ran, window :
              /\ window = IF w.op = "walkforward" THEN WindowAt(w.cur, w.plan).test ELSE w.window
              /\ ran.window = window
              /\ r \in Judged(Result(w.strategy, ran))
        BY <1>4, <3>2 DEF RunsNow
      <4>2. ran.window \in Nat \X Nat
        <5>1. CASE w.op = "walkforward"
          <6>1. PICK m : w.plan \in Plans /\ OnCalendar(w.cur, w.plan, m)
            BY <1>2, <3>2, <5>1 DEF OnTrack, RunsNow
          <6> QED BY <4>1, <5>1, <6>1, TurnIs
        <5>2. CASE w.op # "walkforward"
          BY <1>2, <3>2, <4>1, <5>2, RequestsAssumption DEF OnTrack, RunsNow
        <5> QED BY <5>1, <5>2
      <4>3. Honest(r)
        BY <4>1, <4>2, ResultHonest
      <4>4. PICK r0 : SameRow(r, r0) /\ r.parity \in Parities(r0)
        BY <4>1, <4>2, ResultHonest
      <4>5. Fair(r.parity, r0)
        BY <4>4, VerdictsAreFair
      <4> QED BY <4>3, <4>4, <4>5, FairAlike
    <3> QED
      BY <1>2, <1>4, <3>1, <3>2
        DEF Move, StartsOut, Saves, NextCombo, PassesOver, TakesIn, JudgesAgain
  <2>2. Honest(r)'
    <3>1. PICK s : s = r
      OBVIOUS
    <3>2. Honest(s)'
      BY <2>1, <3>1, HonestStays
    <3> QED BY <3>1, <3>2
  <2>3. PICK parity, s : parity = r.parity /\ s = r
    OBVIOUS
  <2>4. Fair(parity, s)'
    BY <2>1, <2>3, FairStays DEF SameRow
  <2> QED BY <2>2, <2>3, <2>4
<1>5. ASSUME n.at = "verdict"
      PROVE  /\ n.saved \in Ids'
             /\ \A r \in n.row : r.parity.passes =>
                  r.parity.base \in Ids' /\ ~SameCurve(reports'[n.saved], reports'[r.parity.base])
  <2>1. /\ n.saved \in Ids
        /\ \A r \in n.row : Fair(r.parity, reports[n.saved])
    <3>1. CASE n = w
      BY <1>1, <1>5, <3>1 DEF ReplayInv, HoldsSound
    <3>2. CASE JudgesAgain(w, n)
      <4>1. PICK r0, row : /\ r0 = reports[n.saved] /\ n.saved \in Ids
                           /\ row \in Judged(r0) /\ n.row = {row}
        BY <3>2 DEF JudgesAgain
      <4>2. DOMAIN r0 = Columns
        BY <4>1 DEF FamiliesInv, Tables, IsRow
      <4>3. row.parity \in Parities(r0)
        BY <4>1, <4>2, JudgedRow
      <4>4. Fair(row.parity, r0)
        BY <4>3, VerdictsAreFair
      <4> QED BY <4>1, <4>4
    <3> QED
      BY <1>2, <1>5, <3>1, <3>2
        DEF Move, StartsOut, RunsNow, Saves, NextCombo, PassesOver, TakesIn
  <2>2. PICK k, old, new : k = n.saved /\ old = reports[k] /\ new = reports'[k]
    OBVIOUS
  <2>3. k \in Ids' /\ SameRow(new, old)
    BY <2>1, <2>2 DEF RowMoves
  <2>4. ASSUME NEW r \in n.row PROVE Fair(r.parity, new)'
    <3>1. PICK parity : parity = r.parity
      OBVIOUS
    <3>2. Fair(parity, new)'
      BY <2>1, <2>2, <2>3, <3>1, FairStays
    <3> QED BY <3>1, <3>2
  <2> QED BY <2>2, <2>3, <2>4 DEF Fair, SameCurve
<1>6. n.at = "save" => \A r \in n.row : Honest(r)' /\ Fair(r.parity, r)'
  BY <1>4
<1> QED
  BY <1>1, <1>3, <1>5, <1>6 DEF HoldsSound, Fair, OnTrack

(* What the table holds after it. *)
LEMMA ReplayRows ==
  ASSUME FamiliesInv, CacheInv, ReplayInv, RowMoves, PastStays,
         today <= today', today' \in Nat,
         NEW i \in Ids'
  PROVE  (Honest(reports[i]) /\ Fair(reports[i].parity, reports[i]))'
<1>1. PICK s : s = reports'[i]
  OBVIOUS
<1>2. PICK parity : parity = s.parity
  OBVIOUS
<1>3. CASE i \in Ids
  <2>1. PICK r : r = reports[i]
    OBVIOUS
  <2>2. SameRow(s, r) /\ Honest(r) /\ Fair(r.parity, r)
    BY <1>1, <1>3, <2>1 DEF RowMoves, ReplayInv
  <2>3. Honest(s)'
    BY <2>2, HonestStays DEF SameRow
  <2>4. Fair(parity, r)
    <3>1. CASE parity = r.parity
      BY <1>2, <2>2, <3>1 DEF SameRow
    <3>2. CASE Rewritten(i)
      <4>1. PICK p, held :
              /\ p \in Procs /\ held \in job[p].row
              /\ job[p].at = "verdict" /\ job[p].saved = i /\ reports'[i].parity = held.parity
        BY <3>2 DEF Rewritten
      <4>2. Fair(held.parity, reports[i])
        BY <4>1 DEF ReplayInv, HoldsSound
      <4>3. parity = held.parity /\ r = reports[i]
        BY <1>1, <1>2, <2>1, <4>1
      <4> QED BY <4>2, <4>3
    <3> QED BY <1>1, <1>2, <1>3, <2>1, <3>1, <3>2 DEF RowMoves
  <2>5. Fair(parity, s)'
    BY <2>2, <2>4, FairStays
  <2> QED BY <1>1, <1>2, <2>3, <2>5 DEF Honest, Fair, SameCurve
<1>4. CASE i \notin Ids
  <2>1. PICK p \in Procs : Inserts(job[p], s)
    BY <1>1, <1>4 DEF RowMoves
  <2>2. CASE job[p].at = "save" /\ s \in job[p].row
    <3>1. Honest(s) /\ Fair(parity, s)
      BY <1>2, <2>2 DEF ReplayInv, HoldsSound
    <3>2. Honest(s)'
      BY <3>1, HonestStays
    <3>3. Fair(parity, s)'
      BY <3>1, FairStays DEF SameRow
    <3> QED BY <1>1, <1>2, <3>2, <3>3 DEF Honest, Fair, SameCurve
  <2>3. CASE ParentOf(job[p], s)
    BY <1>1, <2>3 DEF ParentOf, NoVerdict, Honest, Fair
  <2> QED BY <2>1, <2>2, <2>3 DEF Inserts
<1> QED
  BY <1>3, <1>4

(* No report, no verdict. *)
LEMMA ReplayInit == Init => ReplayInv
<1> SUFFICES ASSUME Init PROVE ReplayInv
  OBVIOUS
<1>1. Ids = {} /\ \A p \in Procs : job[p].at = "idle"
  BY DEF Init, ReportsInit, Ids, Idle
<1>2. \A p \in Procs : HoldsSound(job[p])
  BY <1>1 DEF HoldsSound, OnTrack
<1> QED
  BY <1>1, <1>2 DEF ReplayInv

(* Every step keeps rows honest and verdicts fair. *)
LEMMA ReplayNext ==
  FamiliesInv /\ CacheInv /\ ReplayInv /\ [Next]_vars => ReplayInv'
<1> SUFFICES ASSUME FamiliesInv, CacheInv, ReplayInv, [Next]_vars PROVE ReplayInv'
  OBVIOUS
<1>1. CacheInv' /\ PastStays /\ today <= today'
  BY CacheNext
<1>2. today' \in Nat
  BY <1>1, EarningsAssumption DEF CacheInv
<1>3. RowMoves /\ JobMoves
  BY RowsMove, JobsMove
<1>4. \A p \in Procs : HoldsSound(job[p])'
  BY <1>1, <1>2, <1>3, ReplayJobs
<1>5. \A i \in Ids' : (Honest(reports[i]) /\ Fair(reports[i].parity, reports[i]))'
  BY <1>1, <1>2, <1>3, ReplayRows
<1> QED
  BY <1>4, <1>5 DEF ReplayInv

(* What the rows' trades are, for ever: a run that ended before the day it *)
(* was made is repeated by every later run with its inputs, whatever has   *)
(* been fetched, restated or saved since (engine.py:9, runner.py:74-75).   *)
THEOREM ReplaysStayRepeatable == Spec => []ReplaysAreRepeatable
<1>1. ReplayInv => ReplaysAreRepeatable
  BY DEF ReplayInv, Honest, ReplaysAreRepeatable, Closed
<1> QED
  BY <1>1, FamiliesInit, FamiliesNext, CacheInit, CacheNext, ReplayInit, ReplayNext, PTL DEF Spec

(* No interleaving of saves, reparities and fetches leaves a passing       *)
(* verdict that compares two closed runs of the same seeder, seed, window, *)
(* override and initial equity (parity.py:31-65, report.py).               *)
THEOREM NoVerdictOnACopy == Spec => []LikeNeverBeatsLike
<1>1. ReplayInv => LikeNeverBeatsLike
  <2> SUFFICES ASSUME ReplayInv, NEW i \in Ids, reports[i].parity.passes
               PROVE  LET base == reports[i].parity.base
                      IN  \/ Inputs(i) # Inputs(base)
                          \/ ~Closed(i) \/ ~Closed(base)
    BY DEF LikeNeverBeatsLike
  <2>1. PICK base : base = reports[i].parity.base
    OBVIOUS
  <2>2. base \in Ids /\ ~SameCurve(reports[i], reports[base])
    BY <2>1 DEF ReplayInv, Fair
  <2>3. ASSUME Inputs(i) = Inputs(base), Closed(i), Closed(base) PROVE FALSE
    <3>1. PICK ran : ran = reports[i].ran /\ ran = reports[base].ran
      BY <2>3 DEF Inputs
    <3>2. /\ ~reports[i].parent /\ reports[i].trades = TradesOf(ran)
          /\ ~reports[base].parent /\ reports[base].trades = TradesOf(ran)
      BY <2>2, <2>3, <3>1 DEF ReplayInv, Honest, Closed
    <3> QED BY <2>2, <3>1, <3>2 DEF SameCurve
  <2> QED BY <2>1, <2>3
<1> QED
  BY <1>1, FamiliesInit, FamiliesNext, CacheInit, CacheNext, ReplayInit, ReplayNext, PTL DEF Spec

(***************************************************************************)
(* Windows.  A walk-forward's reports lie in the order of their ids, all   *)
(* before the test window of its turn, and have between them every bar     *)
(* from the first of them up to that window.                               *)
(***************************************************************************)
Win(k) == reports[k].ran.window
Before(K, end) == \A k \in K : Win(k) \in Nat \X Nat /\ Win(k)[2] < end
Ordered(K) == \A k, l \in K : k < l => Win(k)[2] < Win(l)[1]
Covered(K, end) ==
  \A k \in K, d \in BarDays :
    Win(k)[1] <= d /\ d < end => \E j \in K : d \in BarsIn(Win(j))

(* A window a..b with the next to begin on c. *)
Step(a, b, c) == a \in Nat /\ b \in Nat /\ c \in Nat /\ a <= b /\ b < c
Touches(b, c) == c = b + 1

(* A report saved for the turn's window joins the others. *)
LEMMA Gathers ==
  ASSUME NEW K \in SUBSET Nat, NEW s \in Nat, \A k \in K : k < s,
         NEW a, NEW b, NEW c, Step(a, b, c), Win(s) = <<a, b>>,
         Before(K, a), Ordered(K)
  PROVE  /\ Before(K \cup {s}, c) /\ Ordered(K \cup {s})
         /\ Touches(b, c) /\ Covered(K, a) => Covered(K \cup {s}, c)
<1>1. a \in Nat /\ b \in Nat /\ c \in Nat /\ a <= b /\ b < c
  BY DEF Step
<1>2. Win(s)[1] = a /\ Win(s)[2] = b /\ Win(s) \in Nat \X Nat
  BY <1>1
<1>3. ASSUME NEW k \in K PROVE Win(k) \in Nat \X Nat /\ Win(k)[2] < a /\ k < s
  BY DEF Before
<1>4. Before(K \cup {s}, c)
  <2>1. ASSUME NEW k \in K PROVE Win(k) \in Nat \X Nat /\ Win(k)[2] < c
    <3>1. PICK e : e = Win(k)[2]
      OBVIOUS
    <3>2. e \in Nat /\ e < a
      BY <1>3, <3>1
    <3> QED BY <1>1, <1>3, <3>1, <3>2
  <2> QED BY <1>1, <1>2, <2>1 DEF Before
<1>5. Ordered(K \cup {s})
  <2> SUFFICES ASSUME NEW k \in K \cup {s}, NEW l \in K \cup {s}, k < l
               PROVE  Win(k)[2] < Win(l)[1]
    BY DEF Ordered
  <2>1. k \in K
    <3>1. k \in Nat /\ l \in Nat /\ (l \in K => l < s)
      OBVIOUS
    <3> QED BY <3>1
  <2>2. CASE l = s
    BY <1>2, <1>3, <2>1, <2>2
  <2>3. CASE l \in K
    BY <2>1, <2>3 DEF Ordered
  <2> QED BY <2>2, <2>3
<1>6. ASSUME Touches(b, c), Covered(K, a) PROVE Covered(K \cup {s}, c)
  <2> SUFFICES ASSUME NEW k \in K \cup {s}, NEW d \in BarDays, Win(k)[1] <= d, d < c
               PROVE  \E j \in K \cup {s} : d \in BarsIn(Win(j))
    BY DEF Covered
  <2>1. d \in Nat
    BY ReportsAssumption
  <2>2. CASE a <= d
    <3>1. d \in a .. b
      BY <1>1, <1>6, <2>1, <2>2 DEF Touches
    <3>2. d \in BarsIn(Win(s))
      BY <1>2, <3>1 DEF BarsIn
    <3> QED BY <3>2
  <2>3. CASE d < a
    <3>1. k \in K
      BY <1>1, <1>2, <2>1, <2>3
    <3> QED BY <1>6, <2>3, <3>1 DEF Covered
  <2> QED BY <1>1, <2>1, <2>2, <2>3
<1> QED
  BY <1>4, <1>5, <1>6

(* A turn without a run is passed over; it had no bar. *)
LEMMA Skips ==
  ASSUME NEW K, NEW a, NEW b, NEW c, Step(a, b, c), Before(K, a)
  PROVE  /\ Before(K, c)
         /\ Touches(b, c) /\ Covered(K, a) /\ BarsIn(<<a, b>>) = {} => Covered(K, c)
<1>1. a \in Nat /\ b \in Nat /\ c \in Nat /\ a <= b /\ b < c
  BY DEF Step
<1>2. Before(K, c)
  <2>1. ASSUME NEW k \in K PROVE Win(k) \in Nat \X Nat /\ Win(k)[2] < c
    <3>1. PICK w : w = Win(k)
      OBVIOUS
    <3>2. w \in Nat \X Nat /\ w[2] < a
      BY <3>1 DEF Before
    <3>3. w[2] \in Nat
      BY <3>2
    <3> QED BY <1>1, <3>1, <3>2, <3>3
  <2> QED BY <2>1 DEF Before
<1>3. ASSUME Touches(b, c), Covered(K, a), BarsIn(<<a, b>>) = {} PROVE Covered(K, c)
  <2> SUFFICES ASSUME NEW k \in K, NEW d \in BarDays, Win(k)[1] <= d, d < c
               PROVE  \E j \in K : d \in BarsIn(Win(j))
    BY DEF Covered
  <2>1. d \in Nat
    BY ReportsAssumption
  <2>2. ~(a <= d)
    <3>1. SUFFICES ASSUME a <= d PROVE FALSE
      OBVIOUS
    <3>2. d \in a .. b
      BY <1>1, <1>3, <2>1, <3>1 DEF Touches
    <3> QED BY <1>3, <3>2 DEF BarsIn
  <2>3. d < a
    BY <1>1, <2>1, <2>2
  <2> QED BY <1>3, <2>3 DEF Covered
<1> QED
  BY <1>2, <1>3

(* Windows in order stay so while rows keep what they ran. *)
LEMMA WindowsStay ==
  ASSUME RowMoves, NEW K, K \subseteq Ids, NEW end
  PROVE  /\ Before(K, end) => Before(K, end)'
         /\ Ordered(K) => Ordered(K)'
         /\ Covered(K, end) => Covered(K, end)'
<1>1. \A k \in K : Win(k)' = Win(k)
  BY DEF RowMoves, SameRow, Win
<1>2. Before(K, end) => Before(K, end)'
  BY <1>1 DEF Before
<1>3. Ordered(K) => Ordered(K)'
  BY <1>1 DEF Ordered
<1>4. Covered(K, end) => Covered(K, end)'
  BY <1>1 DEF Covered, BarsIn
<1> QED
  BY <1>2, <1>3, <1>4

(* With a regular plan the next turn begins behind this one's test window, *)
(* and on the day after it when the step is as long as the window.         *)
OffOf(plan) == plan.start - MonthStarts[MonthOf(plan.start)]

(* A turn of a regular plan begins where the last one's step left off. *)
LEMMA RegularTurn ==
  ASSUME NEW plan \in Plans, Regular(plan),
         NEW cur, NEW m, OnCalendar(cur, plan, m), Fits(cur, plan),
         NthDay(cur, m, OffOf(plan)), Unclipped(OffOf(plan)),
         NEW test, test = WindowAt(cur, plan).test,
         NEW next, next = AddMonths(cur, plan.step),
         NEW first, first = WindowAt(next, plan).test[1]
  PROVE  /\ test = <<test[1], test[2]>> /\ Step(test[1], test[2], first)
         /\ plan.step = plan.test => Touches(test[2], first)
         /\ \E n : OnCalendar(next, plan, n) /\ NthDay(next, n, OffOf(plan))
<1>1. PICK off : off = OffOf(plan)
  OBVIOUS
<1>2. PICK tr, te, st : tr = plan.train /\ te = plan.test /\ st = plan.step
  OBVIOUS
<1>3. tr \in Nat /\ te \in Nat /\ st \in Nat /\ te > 0 /\ st >= te
  BY <1>2, PlanType DEF Regular
<1>4. OnCalendar(next, plan, m + st)
  BY <1>2, NextOnCalendar
<1>5. /\ m \in Nat /\ m >= 1 /\ Len(MonthStarts) \in Nat
      /\ m + tr + te + 1 <= Len(MonthStarts) /\ m + st + tr + te + 1 <= Len(MonthStarts)
  BY <1>2, <1>4, MonthsType DEF OnCalendar, In
<1>6. NthDay(next, m + st, off)
  <2>1. In(cur, m) /\ Within(m, st) /\ NthDay(cur, m, off) /\ Unclipped(off)
    BY <1>1, <1>3, <1>5 DEF Within, OnCalendar
  <2> QED BY <1>2, <2>1, Steady
<1>7. PICK test2 : test2 = WindowAt(next, plan).test
  OBVIOUS
<1>8. /\ test \in Nat \X Nat /\ test2 \in Nat \X Nat /\ first = test2[1]
  BY <1>4, <1>7, TurnIs
<1>9. /\ test[1] = MonthStarts[m + tr] + off
      /\ test[2] + 1 = MonthStarts[m + tr + te] + off
  <2>1. cur = MonthStarts[m] + off /\ Unclipped(off)
    BY <1>1 DEF NthDay
  <2>2. test[1] = MonthStarts[m + plan.train] + off
    BY <2>1, SteadyTurn
  <2>3. test[2] + 1 = MonthStarts[m + plan.train + plan.test] + off
    BY <2>1, SteadyTurn
  <2> QED BY <1>2, <2>2, <2>3
<1>10. first = MonthStarts[(m + st) + tr] + off
  <2>1. next = MonthStarts[m + st] + off /\ Unclipped(off)
    BY <1>1, <1>6 DEF NthDay
  <2>2. PICK k : k = m + st
    OBVIOUS
  <2>3. OnCalendar(next, plan, k) /\ next = MonthStarts[k] + off
    BY <1>4, <2>1, <2>2
  <2>4. test2[1] = MonthStarts[k + plan.train] + off
    BY <1>7, <2>1, <2>3, SteadyTurn
  <2> QED BY <1>2, <1>8, <2>2, <2>4
<1>11. PICK x, y, z : x = m + tr /\ y = m + tr + te /\ z = (m + st) + tr
  OBVIOUS
<1>12. /\ x \in 1 .. Len(MonthStarts) /\ y \in 1 .. Len(MonthStarts) /\ z \in 1 .. Len(MonthStarts)
       /\ x < y /\ y <= z /\ (st = te => y = z)
  BY <1>3, <1>5, <1>11
<1>13. PICK a, b, c : a = MonthStarts[x] /\ b = MonthStarts[y] /\ c = MonthStarts[z]
  OBVIOUS
<1>14. a \in Nat /\ b \in Nat /\ c \in Nat /\ a < b /\ b <= c /\ (st = te => b = c)
  <2>1. a \in Nat /\ b \in Nat /\ c \in Nat
    BY <1>12, <1>13, MonthsType
  <2>2. a < b
    BY <1>12, <1>13, MonthsGrow
  <2>3. y < z => b < c
    BY <1>12, <1>13, MonthsGrow
  <2>4. y = z \/ y < z
    BY <1>12
  <2> QED BY <1>12, <1>13, <2>1, <2>2, <2>3, <2>4
<1>15. PICK t1, t2 : t1 = test[1] /\ t2 = test[2]
  OBVIOUS
<1>16. t1 \in Nat /\ t2 \in Nat /\ first \in Nat /\ off \in Nat
  BY <1>1, <1>8, <1>15 DEF Unclipped
<1>17. t1 = a + off /\ t2 + 1 = b + off /\ first = c + off
  BY <1>9, <1>10, <1>11, <1>13, <1>15
<1>18. t1 <= t2 /\ t2 < first /\ (st = te => first = t2 + 1)
  BY <1>14, <1>16, <1>17
<1>19. test = <<test[1], test[2]>>
  BY <1>8
<1> QED
  BY <1>1, <1>2, <1>4, <1>6, <1>15, <1>16, <1>18, <1>19 DEF Step, Touches

(* The walk-forward w, at its turn. *)
TestOf(w) == WindowAt(w.cur, w.plan).test
Tiling(w) == w.op = "walkforward" /\ w.at \in {"run", "save", "tag"} /\ Regular(w.plan)
Stitched(plan, seeder) == plan.step = plan.test /\ seeder = "synthetic"

OnTheDay(w) ==
  /\ w.plan \in Plans /\ Unclipped(OffOf(w.plan))
  /\ \E m : OnCalendar(w.cur, w.plan, m) /\ NthDay(w.cur, m, OffOf(w.plan))

SoFar(w) ==
  /\ Before(w.kids, TestOf(w)[1]) /\ Ordered(w.kids)
  /\ Stitched(w.plan, w.seeder) => Covered(w.kids, TestOf(w)[1])

Tiles(w) ==
  Tiling(w) =>
    /\ OnTheDay(w) /\ SoFar(w) /\ w.kids \subseteq Ids
    /\ w.at = "save" => \A r \in w.row : r.ran.window = TestOf(w)
    /\ w.at = "tag" => Win(w.saved) = TestOf(w) /\ \A k \in w.kids : k < w.saved

TiledRow(r) ==
  r.parent /\ Regular(r.ran.plan) =>
    /\ r.kids \subseteq Ids
    /\ Ordered(r.kids)
    /\ \E end \in Nat :
         /\ Before(r.kids, end)
         /\ Stitched(r.ran.plan, r.ran.seeder) => Covered(r.kids, end)

TileInv ==
  /\ \A p \in Procs : Tiles(job[p])
  /\ \A i \in Ids : TiledRow(reports[i])

(* The first turn: its day of the month is one every month has. *)
LEMMA FirstTurn ==
  ASSUME NEW w, w.plan \in Plans, w.cur = w.plan.start, Regular(w.plan), w.kids = {}
  PROVE  OnTheDay(w) /\ SoFar(w)
<1>1. PICK plan, off : plan = w.plan /\ off = OffOf(plan)
  OBVIOUS
<1>2. PICK m : OnCalendar(plan.start, plan, m)
  BY <1>1, StartOnCalendar
<1>3. MonthOf(plan.start) = m
  BY <1>2, MonthOfIs DEF OnCalendar
<1>4. PICK b, d : b = MonthStarts[m] /\ d = plan.start
  OBVIOUS
<1>5. b \in Nat /\ d \in Nat /\ b <= d /\ off = d - b
  <2>1. m \in 1 .. Len(MonthStarts)
    BY <1>2, MonthsType DEF OnCalendar, In
  <2> QED BY <1>1, <1>2, <1>3, <1>4, <2>1, MonthsType DEF OnCalendar, In, OffOf
<1>6. off \in Nat /\ d = b + off
  BY <1>5
<1>7. Unclipped(off)
  BY <1>1, <1>6 DEF Unclipped, OffOf, Regular
<1>8. NthDay(plan.start, m, off)
  BY <1>4, <1>6 DEF NthDay
<1>9. OnTheDay(w)
  BY <1>1, <1>2, <1>7, <1>8 DEF OnTheDay
<1>10. SoFar(w)
  BY DEF SoFar, Before, Ordered, Covered
<1> QED
  BY <1>9, <1>10

(* So do the windows of a walk-forward under way. *)
LEMMA SoFarStays ==
  ASSUME RowMoves, NEW w, SoFar(w), w.kids \subseteq Ids
  PROVE  SoFar(w)' /\ w.kids \subseteq Ids'
<1>1. PICK K, a : K = w.kids /\ a = TestOf(w)[1]
  OBVIOUS
<1>2. K \subseteq Ids /\ Before(K, a) /\ Ordered(K)
      /\ (Stitched(w.plan, w.seeder) => Covered(K, a))
  BY <1>1 DEF SoFar
<1>3. Before(K, a)' /\ Ordered(K)' /\ (Stitched(w.plan, w.seeder) => Covered(K, a)')
  BY <1>2, WindowsStay
<1>4. K \subseteq Ids'
  BY <1>2 DEF RowMoves
<1> QED
  BY <1>1, <1>3, <1>4 DEF SoFar, Before, Ordered, Covered, Win, Stitched, TestOf

(* The next turn, of a window that was saved or that did not run. *)
LEMMA NextTurn ==
  ASSUME Ids \subseteq Nat, NEW w, NEW n, Tiling(w), OnTheDay(w), SoFar(w), w.kids \subseteq Ids,
         Fits(w.cur, w.plan), Alike(w, n), n.cur = AddMonths(w.cur, w.plan.step),
         \/ /\ n.kids = w.kids /\ ~Runs(w.seeder, TestOf(w))
         \/ /\ n.kids = w.kids \cup {w.saved} /\ w.saved \in Ids
            /\ Win(w.saved) = TestOf(w) /\ \A k \in w.kids : k < w.saved
  PROVE  OnTheDay(n) /\ SoFar(n) /\ n.kids \subseteq Ids
<1>1. PICK plan, K, test, first : /\ plan = w.plan /\ K = w.kids
                                  /\ test = TestOf(w) /\ first = TestOf(n)[1]
  OBVIOUS
<1>2. PICK m : OnCalendar(w.cur, plan, m) /\ NthDay(w.cur, m, OffOf(plan))
  BY <1>1 DEF OnTheDay
<1>3. PICK a, b : a = test[1] /\ b = test[2]
  OBVIOUS
<1>4. plan \in Plans /\ Regular(plan) /\ Unclipped(OffOf(plan)) /\ n.plan = plan
  BY <1>1 DEF OnTheDay, Tiling, Alike
<1>5. PICK cur, next : cur = w.cur /\ next = n.cur
  OBVIOUS
<1>6. test = WindowAt(cur, plan).test /\ next = AddMonths(cur, plan.step)
      /\ first = WindowAt(next, plan).test[1] /\ Fits(cur, plan)
  BY <1>1, <1>4, <1>5 DEF TestOf
<1>7. /\ test = <<a, b>> /\ Step(a, b, first)
      /\ plan.step = plan.test => Touches(b, first)
      /\ \E l : OnCalendar(next, plan, l) /\ NthDay(next, l, OffOf(plan))
  <2>1. OnCalendar(cur, plan, m) /\ NthDay(cur, m, OffOf(plan))
    BY <1>2, <1>5
  <2>2. test = <<test[1], test[2]>> /\ Step(test[1], test[2], first)
    BY <1>4, <1>6, <2>1, RegularTurn
  <2>3. plan.step = plan.test => Touches(test[2], first)
    BY <1>4, <1>6, <2>1, RegularTurn
  <2>4. \E l : OnCalendar(next, plan, l) /\ NthDay(next, l, OffOf(plan))
    BY <1>4, <1>6, <2>1, RegularTurn
  <2> QED BY <1>3, <2>2, <2>3, <2>4
<1>8. OnTheDay(n)
  BY <1>4, <1>5, <1>7 DEF OnTheDay
<1>9. Before(K, a) /\ Ordered(K) /\ (Stitched(plan, w.seeder) => Covered(K, a))
  BY <1>1, <1>3 DEF SoFar
<1>10. CASE n.kids = K /\ ~Runs(w.seeder, test)
  <2>1. Before(K, first)
    BY <1>7, <1>9, Skips
  <2>2. ASSUME Stitched(plan, w.seeder) PROVE Covered(K, first)
    <3>1. BarsIn(<<a, b>>) = {}
      BY <1>7, <1>10, <2>2 DEF Runs, Stitched
    <3>2. Touches(b, first) /\ Covered(K, a)
      BY <1>7, <1>9, <2>2 DEF Stitched
    <3> QED BY <1>7, <1>9, <3>1, <3>2, Skips
  <2> QED BY <1>1, <1>4, <1>8, <1>9, <1>10, <2>1, <2>2 DEF SoFar, Alike
<1>11. CASE /\ n.kids = K \cup {w.saved} /\ w.saved \in Ids
            /\ Win(w.saved) = test /\ \A k \in K : k < w.saved
  <2>1. PICK s : s = w.saved
    OBVIOUS
  <2>2. K \in SUBSET Nat /\ s \in Nat /\ Win(s) = <<a, b>> /\ \A k \in K : k < s
    BY <1>1, <1>7, <1>11, <2>1
  <2>3. Before(K \cup {s}, first) /\ Ordered(K \cup {s})
    BY <1>7, <1>9, <2>2, Gathers
  <2>4. Touches(b, first) /\ Covered(K, a) => Covered(K \cup {s}, first)
    BY <1>7, <1>9, <2>2, Gathers
  <2>5. Stitched(plan, w.seeder) => Covered(K \cup {s}, first)
    BY <1>7, <1>9, <2>4 DEF Stitched
  <2> QED BY <1>1, <1>4, <1>8, <1>11, <2>1, <2>3, <2>5 DEF SoFar, Alike
<1> QED
  BY <1>1, <1>10, <1>11

(* Ids are numbers. *)
LEMMA IdsAreNumbers ==
  ASSUME FamiliesInv
  PROVE  Ids \subseteq Nat
<1>1. IsSeq(reports)
  BY DEF FamiliesInv, Tables
<1> DEFINE S == {reports[i] : i \in Ids}
<1>2. reports \in Seq(S)
  BY <1>1 DEF IsSeq, Ids
<1> HIDE DEF S
<1> QED BY <1>2 DEF Ids

(* What the walk-forwards hold after a step. *)
LEMMA TileJobs ==
  ASSUME FamiliesInv, ReplayInv, CacheInv, TileInv, RowMoves, JobMoves,
         NEW p \in Procs
  PROVE  Tiles(job[p])'
<1>1. PICK w, n : w = job[p] /\ n = job'[p]
  OBVIOUS
<1>2. Move(w, n) /\ OnTrack(w) /\ Tiles(w) /\ Claim(w)
  BY <1>1 DEF JobMoves, ReplayInv, HoldsSound, TileInv, FamiliesInv
<1>3. SUFFICES ASSUME Tiling(n)
               PROVE  /\ OnTheDay(n) /\ SoFar(n)' /\ n.kids \subseteq Ids'
                      /\ n.at = "save" => \A r \in n.row : r.ran.window = TestOf(n)
                      /\ n.at = "tag" => Win(n.saved)' = TestOf(n) /\ \A k \in n.kids : k < n.saved
  BY <1>1 DEF Tiles, Tiling, OnTheDay, SoFar, Before, Ordered, Covered, Win, TestOf, Regular,
       Stitched, OnCalendar, NthDay, Unclipped, OffOf, In
<1>4. CASE n = w
  <2>1. OnTheDay(n) /\ SoFar(n) /\ n.kids \subseteq Ids
    BY <1>2, <1>3, <1>4 DEF Tiles
  <2>2. SoFar(n)' /\ n.kids \subseteq Ids'
    BY <2>1, SoFarStays
  <2>3. n.at = "tag" => Win(n.saved)' = TestOf(n)
    BY <1>2, <1>3, <1>4 DEF Tiles, Claim, Win, RowMoves, SameRow
  <2> QED BY <1>2, <1>3, <1>4, <2>1, <2>2, <2>3 DEF Tiles
<1>5. CASE StartsOut(w, n)
  <2>1. n.at = "run" /\ n.kids = {} /\ n.plan \in Plans /\ n.cur = n.plan.start /\ Regular(n.plan)
    BY <1>3, <1>5 DEF StartsOut, Tiling
  <2>2. OnTheDay(n) /\ SoFar(n)
    BY <2>1, FirstTurn
  <2>3. SoFar(n)' /\ n.kids \subseteq Ids'
    BY <2>1, <2>2, SoFarStays
  <2> QED BY <2>1, <2>2, <2>3
<1>6. CASE RunsNow(w, n)
  <2>1. /\ Tiling(w) /\ n.at = "save" /\ n.cur = w.cur /\ n.kids = w.kids /\ n.plan = w.plan
        /\ n.seeder = w.seeder /\ w.op = "walkforward"
    BY <1>3, <1>6 DEF RunsNow, Alike, Tiling
  <2>2. OnTheDay(w) /\ SoFar(w) /\ w.kids \subseteq Ids
    BY <1>2, <2>1 DEF Tiles
  <2>3. OnTheDay(n) /\ SoFar(n) /\ n.kids \subseteq Ids /\ TestOf(n) = TestOf(w)
    BY <2>1, <2>2 DEF OnTheDay, SoFar, TestOf
  <2>4. SoFar(n)' /\ n.kids \subseteq Ids'
    BY <2>3, SoFarStays
  <2>5. ASSUME NEW r \in n.row PROVE r.ran.window = TestOf(n)
    <3>1. PICK ran : ran.window = TestOf(w) /\ r \in Judged(Result(w.strategy, ran))
      BY <1>6, <2>1 DEF RunsNow, TestOf
    <3>2. ran.window \in Nat \X Nat
      <4>1. PICK m : w.plan \in Plans /\ OnCalendar(w.cur, w.plan, m)
        BY <2>2 DEF OnTheDay
      <4> QED BY <3>1, <4>1, TurnIs DEF TestOf
    <3>3. r.ran = ran
      BY <3>1, <3>2, ResultHonest
    <3> QED BY <2>3, <3>1, <3>3
  <2> QED BY <2>1, <2>3, <2>4, <2>5
<1>7. CASE Saves(w, n)
  <2>1. /\ Tiling(w) /\ w.at = "save" /\ n.at = "tag" /\ n.cur = w.cur /\ n.kids = w.kids
        /\ n.plan = w.plan /\ n.seeder = w.seeder
        /\ reports'[n.saved] \in w.row /\ \A k \in Ids : k < n.saved
    BY <1>3, <1>7 DEF Saves, Alike, Tiling
  <2>2. OnTheDay(w) /\ SoFar(w) /\ w.kids \subseteq Ids /\ \A r \in w.row : r.ran.window = TestOf(w)
    BY <1>2, <2>1 DEF Tiles
  <2>3. OnTheDay(n) /\ SoFar(n) /\ n.kids \subseteq Ids /\ TestOf(n) = TestOf(w)
    BY <2>1, <2>2 DEF OnTheDay, SoFar, TestOf
  <2>4. SoFar(n)' /\ n.kids \subseteq Ids'
    BY <2>3, SoFarStays
  <2>5. Win(n.saved)' = TestOf(n)
    BY <2>1, <2>2, <2>3 DEF Win
  <2>6. \A k \in n.kids : k < n.saved
    BY <2>1, <2>3
  <2> QED BY <2>1, <2>3, <2>4, <2>5, <2>6
<1>8. CASE PassesOver(w, n) \/ TakesIn(w, n)
  <2>1. /\ Tiling(w) /\ n.at = "run" /\ Alike(w, n) /\ Fits(w.cur, w.plan)
        /\ n.cur = AddMonths(w.cur, w.plan.step)
        /\ \/ n.kids = w.kids /\ ~Runs(w.seeder, TestOf(w))
           \/ n.kids = w.kids \cup {w.saved} /\ w.at = "tag"
    BY <1>2, <1>3, <1>8 DEF PassesOver, TakesIn, Alike, Tiling, TestOf, OnTrack
  <2>2. OnTheDay(w) /\ SoFar(w) /\ w.kids \subseteq Ids
    BY <1>2, <2>1 DEF Tiles
  <2>3. w.at = "tag" => w.saved \in Ids /\ Win(w.saved) = TestOf(w) /\ \A k \in w.kids : k < w.saved
    BY <1>2, <2>1 DEF Tiles, Claim
  <2>4. Ids \subseteq Nat
    BY IdsAreNumbers
  <2>5. OnTheDay(n) /\ SoFar(n) /\ n.kids \subseteq Ids
    BY <2>1, <2>2, <2>3, <2>4, NextTurn
  <2>6. SoFar(n)' /\ n.kids \subseteq Ids'
    BY <2>5, SoFarStays
  <2> QED BY <2>1, <2>5, <2>6
<1> QED
  BY <1>2, <1>3, <1>4, <1>5, <1>6, <1>7, <1>8 DEF Move, Tiling, NextCombo, JudgesAgain, Alike

(* What the parents hold after it. *)
LEMMA TileRows ==
  ASSUME FamiliesInv, ReplayInv, TileInv, RowMoves, NEW i \in Ids'
  PROVE  TiledRow(reports[i])'
<1>1. PICK s : s = reports'[i]
  OBVIOUS
<1>2. PICK K, plan, seeder : K = s.kids /\ plan = s.ran.plan /\ seeder = s.ran.seeder
  OBVIOUS
<1>3. ASSUME K \subseteq Ids, Ordered(K), NEW end \in Nat, Before(K, end),
             Stitched(plan, seeder) => Covered(K, end)
      PROVE  TiledRow(reports[i])'
  <2>1. Before(K, end)' /\ Ordered(K)' /\ (Covered(K, end) => Covered(K, end)')
    BY <1>3, WindowsStay
  <2>2. K \subseteq Ids'
    BY <1>3 DEF RowMoves
  <2> QED
    BY <1>1, <1>2, <1>3, <2>1, <2>2
      DEF TiledRow, Before, Ordered, Covered, Win, Stitched, BarsIn
<1>4. SUFFICES ASSUME s.parent, Regular(plan) PROVE TiledRow(reports[i])'
  BY <1>1, <1>2 DEF TiledRow, Regular
<1>5. CASE i \in Ids
  <2>1. SameRow(s, reports[i])
    BY <1>1, <1>5 DEF RowMoves
  <2>2. TiledRow(s)
    BY <1>5, <2>1 DEF TileInv, TiledRow, SameRow
  <2> QED BY <1>2, <1>3, <1>4, <2>2 DEF TiledRow
<1>6. CASE i \notin Ids
  <2>1. PICK p \in Procs : Inserts(job[p], s)
    BY <1>1, <1>6 DEF RowMoves
  <2>2. PICK w : w = job[p]
    OBVIOUS
  <2>3. CASE w.at = "save" /\ s \in w.row
    BY <1>4, <2>2, <2>3 DEF FamiliesInv, Tables, IsJob, Blank
  <2>4. CASE ParentOf(w, s)
    <3>1. Tiling(w) /\ K = w.kids /\ plan = w.plan /\ seeder = w.seeder
      BY <1>2, <1>4, <2>4 DEF ParentOf, Tiling
    <3>2. SoFar(w) /\ OnTheDay(w) /\ K \subseteq Ids
      BY <2>2, <3>1 DEF TileInv, Tiles
    <3>3. PICK first : first = TestOf(w)[1]
      OBVIOUS
    <3>4. first \in Nat
      <4>1. PICK m : w.plan \in Plans /\ OnCalendar(w.cur, w.plan, m)
        BY <3>2 DEF OnTheDay
      <4>2. TestOf(w) \in Nat \X Nat
        BY <4>1, TurnIs DEF TestOf
      <4> QED BY <3>3, <4>2
    <3> QED BY <1>3, <3>1, <3>2, <3>3, <3>4 DEF SoFar
  <2> QED BY <2>1, <2>2, <2>3, <2>4 DEF Inserts
<1> QED
  BY <1>5, <1>6

(* No walk-forward has begun. *)
LEMMA TileInit == Init => TileInv
<1> SUFFICES ASSUME Init PROVE TileInv
  OBVIOUS
<1>1. Ids = {} /\ \A p \in Procs : job[p].at = "idle"
  BY DEF Init, ReportsInit, Ids, Idle
<1>2. \A p \in Procs : Tiles(job[p])
  BY <1>1 DEF Tiles, Tiling
<1> QED
  BY <1>1, <1>2 DEF TileInv

(* No step leaves a hole between windows. *)
LEMMA TileNext ==
  FamiliesInv /\ CacheInv /\ ReplayInv /\ TileInv /\ [Next]_vars => TileInv'
<1> SUFFICES ASSUME FamiliesInv, CacheInv, ReplayInv, TileInv, [Next]_vars PROVE TileInv'
  OBVIOUS
<1>1. RowMoves /\ JobMoves
  BY RowsMove, JobsMove
<1>2. \A p \in Procs : Tiles(job[p])'
  BY <1>1, TileJobs
<1>3. \A i \in Ids' : TiledRow(reports[i])'
  BY <1>1, TileRows
<1> QED
  BY <1>2, <1>3 DEF TileInv

(* Whatever runs in between, a regular walk-forward's windows are disjoint *)
(* and in the order of their ids, and with a step as long as the test      *)
(* window no bar is lost between them (walkforward.py:50-90, 185-243).     *)
THEOREM WindowsStayTiled == Spec => []WindowsTile
<1>1. TileInv => WindowsTile
  <2> SUFFICES ASSUME TileInv, NEW i \in Ids, reports[i].parent, Regular(reports[i].ran.plan)
               PROVE
    /\ \A k, l \in reports[i].kids : k < l =>
         reports[k].ran.window[2] < reports[l].ran.window[1]
    /\ (reports[i].ran.plan.step = reports[i].ran.plan.test
          /\ reports[i].ran.seeder = "synthetic") =>
         \A k, l \in reports[i].kids, d \in BarDays :
           (reports[k].ran.window[1] <= d /\ d <= reports[l].ran.window[2]) =>
             \E j \in reports[i].kids : d \in BarsIn(reports[j].ran.window)
    BY DEF WindowsTile
  <2>1. PICK K, ran : K = reports[i].kids /\ ran = reports[i].ran
    OBVIOUS
  <2>2. PICK end \in Nat :
                   /\ Ordered(K) /\ Before(K, end)
                   /\ Stitched(ran.plan, ran.seeder) => Covered(K, end)
    BY <2>1 DEF TileInv, TiledRow
  <2>3. \A k, l \in K : k < l => Win(k)[2] < Win(l)[1]
    BY <2>2 DEF Ordered
  <2>4. ASSUME Stitched(ran.plan, ran.seeder), NEW k \in K, NEW l \in K, NEW d \in BarDays,
               Win(k)[1] <= d, d <= Win(l)[2]
        PROVE  \E j \in K : d \in BarsIn(Win(j))
    <3>1. PICK e : e = Win(l)[2]
      OBVIOUS
    <3>2. e \in Nat /\ e < end /\ d <= e
      BY <2>2, <2>4, <3>1 DEF Before
    <3>3. d \in Nat
      BY ReportsAssumption
    <3>4. d < end
      BY <2>2, <3>2, <3>3
    <3> QED BY <2>2, <2>4, <3>4 DEF Covered
  <2> QED BY <2>1, <2>3, <2>4 DEF Win, Stitched
<1> QED
  BY <1>1, FamiliesInit, FamiliesNext, CacheInit, CacheNext, ReplayInit, ReplayNext,
     TileInit, TileNext, PTL DEF Spec
=============================================================================
