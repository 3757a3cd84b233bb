----------------------------- MODULE CommandFifo -----------------------------
(***************************************************************************)
(* What the HCI command path promises its callers, whatever the controller *)
(* does: commands are numbered as they are asked for, wait in that order,  *)
(* and leave from the front - each written to the controller, once, or     *)
(* dropped because the write failed.  None is overtaken, sent twice or     *)
(* made up.  When they leave is left open.                                 *)
(***************************************************************************)
EXTENDS Naturals, Sequences

VARIABLES
    waiting,   \* the commands that wait, oldest first
    sent,      \* the commands that were ever written
    asked      \* how many were asked for

vars == <<waiting, sent, asked>>

\* The first n of q leave; those at the positions in out are written.
Leave(q, n, out) ==
    /\ waiting' = SubSeq(q, n + 1, Len(q))
    /\ sent' = sent \cup {q[i] : i \in out}

Leaves(q) == \E n \in 0..Len(q) : \E out \in SUBSET (1..n) : Leave(q, n, out)

\* A command is asked for.  It, and others before it, may leave at once.
Ask == asked' = asked + 1 /\ Leaves(Append(waiting, asked + 1))

\* Commands leave later.
Drain == asked' = asked /\ Leaves(waiting)

Init == waiting = <<>> /\ sent = {} /\ asked = 0

Next == Ask \/ Drain

Spec == Init /\ [][Next]_vars

=============================================================================
