---------------------------- MODULE BoundedQueue ----------------------------
(***************************************************************************)
(* What spsc_ring promises: a bounded first-in first-out queue.  A push    *)
(* appends one element; a take hands the consumer a non-empty prefix.      *)
(***************************************************************************)
EXTENDS Naturals, Sequences

CONSTANTS Values,  \* what is stored
          Bound    \* how many elements fit

VARIABLES queue,   \* the elements, oldest first
          out      \* what the last take returned

vars == <<queue, out>>

Init == queue = <<>> /\ out = <<>>

Push(v) ==
    /\ Len(queue) < Bound
    /\ queue' = Append(queue, v)
    /\ UNCHANGED out

Take(n) ==
    /\ out' = SubSeq(queue, 1, n)
    /\ queue' = SubSeq(queue, n + 1, Len(queue))

Next ==
    \/ \E v \in Values : Push(v)
    \/ \E n \in 1 .. Len(queue) : Take(n)

Spec == Init /\ [][Next]_vars
=============================================================================
