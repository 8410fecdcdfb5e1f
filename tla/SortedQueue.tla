---------------------------- MODULE SortedQueue ----------------------------
(***************************************************************************)
(* What skiplist_map promises the timer: a multimap in key order, the      *)
(* youngest first among equal keys, from which all entries up to a key     *)
(* can be taken at once and handed to a callback that may insert.          *)
(***************************************************************************)
EXTENDS Naturals, Sequences

CONSTANTS Keys, Vals

VARIABLES queue,  \* the entries, <<key, value>>, in order
          due,    \* entries taken and not yet handed to the callback
          out     \* what was last returned or handed over

vars == <<queue, due, out>>

Entry == Keys \X Vals

Init == queue = <<>> /\ due = <<>> /\ out = <<>>

\* How many entries have a key below k, or up to k.
Below(k) == Len(SelectSeq(queue, LAMBDA e : e[1] < k))
UpTo(k) == Len(SelectSeq(queue, LAMBDA e : e[1] <= k))

Insert(k, v) ==
    /\ queue' = SubSeq(queue, 1, Below(k)) \o << <<k, v>> >> \o SubSeq(queue, Below(k) + 1, Len(queue))
    /\ UNCHANGED <<due, out>>

\* Remove the first entry with key k.
Erase(k) ==
    /\ Below(k) < UpTo(k) /\ due = <<>>
    /\ queue' = SubSeq(queue, 1, Below(k)) \o SubSeq(queue, Below(k) + 2, Len(queue))
    /\ UNCHANGED <<due, out>>

\* Return all entries up to k.
Pop(k) ==
    /\ due = <<>>
    /\ out' = SubSeq(queue, 1, UpTo(k))
    /\ queue' = SubSeq(queue, UpTo(k) + 1, Len(queue))
    /\ UNCHANGED due

\* Take all entries up to k and hand the first over.
TakeDue(k) ==
    /\ due = <<>> /\ UpTo(k) > 0
    /\ out' = SubSeq(queue, 1, 1)
    /\ due' = SubSeq(queue, 2, UpTo(k))
    /\ queue' = SubSeq(queue, UpTo(k) + 1, Len(queue))

HandOver ==
    /\ due # <<>>
    /\ out' = <<Head(due)>>
    /\ due' = Tail(due)
    /\ UNCHANGED queue

Next ==
    \/ \E k \in Keys : Erase(k) \/ Pop(k) \/ TakeDue(k)
    \/ \E k \in Keys, v \in Vals : Insert(k, v)
    \/ HandOver

Spec == Init /\ [][Next]_vars
=============================================================================
