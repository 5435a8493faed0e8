--------------------------- MODULE PositionLedger ---------------------------
(***************************************************************************)
(* What the execution layer promises, with no process, crash, retry or     *)
(* lost answer in sight: every candidate becomes one position at most,     *)
(* long or short, by one entry order; what had filled of it when it was    *)
(* recorded is asked to be closed once; and the journal calls it closed    *)
(* only after that.                                                        *)
(***************************************************************************)
EXTENDS Integers

CONSTANTS
  Cands,      \* candidates
  FullQty     \* largest entry order

VARIABLE ledger

Empty == [ordered |-> 0, entered |-> 0, opened |-> FALSE, recorded |-> 0,
          asked |-> 0, exited |-> 0, closed |-> FALSE]

Init == ledger = [c \in Cands |-> Empty]

Order(c, n) ==
  /\ ledger[c].ordered = 0
  /\ ledger' = [ledger EXCEPT ![c].ordered = n]

Enter(c) ==
  /\ ledger[c].entered < ledger[c].ordered
  /\ ledger' = [ledger EXCEPT ![c].entered = @ + 1]

Open(c) ==
  /\ ledger[c].ordered > 0
  /\ ~ledger[c].opened
  /\ ledger' = [ledger EXCEPT ![c].opened = TRUE]

Record(c) ==
  /\ ledger[c].opened
  /\ ledger[c].recorded = 0
  /\ ledger' = [ledger EXCEPT ![c].recorded = ledger[c].entered]

AskToExit(c) ==
  /\ ledger[c].asked = 0
  /\ ledger' = [ledger EXCEPT ![c].asked = ledger[c].recorded]

Exit(c) ==
  /\ ledger[c].exited < ledger[c].asked
  /\ ledger' = [ledger EXCEPT ![c].exited = @ + 1]

Close(c) ==
  /\ ledger[c].asked > 0
  /\ ~ledger[c].closed
  /\ ledger' = [ledger EXCEPT ![c].closed = TRUE]

Next ==
  \E c \in Cands :
    \/ \E n \in 1..FullQty : Order(c, n)
    \/ Enter(c) \/ Open(c) \/ Record(c) \/ AskToExit(c) \/ Exit(c) \/ Close(c)

Spec == Init /\ [][Next]_ledger

(* No more is closed than was entered and recorded first. *)
Covered ==
  \A c \in Cands :
    LET l == ledger[c]
    IN  /\ l.exited <= l.asked /\ l.asked <= l.recorded
        /\ l.recorded <= l.entered
        /\ l.entered <= l.ordered /\ l.ordered <= FullQty
        /\ l.closed => l.asked = l.recorded /\ l.recorded > 0
=============================================================================
