------------------------------ MODULE SkipList ------------------------------
(***************************************************************************)
(* skiplist_map, the timer queue: nodes with one forward pointer per       *)
(* level, a head and a tail sentinel.  Insertion draws a random level.     *)
(* do_less_eq_then_pop detaches the nodes up to a key and calls back for   *)
(* each; the callback inserts.  A node is its memory cell: a freed cell is *)
(* used again.                                                             *)
(***************************************************************************)
EXTENDS Integers, Sequences, FiniteSets

CONSTANTS Keys,      \* the keys, between minKey and maxKey
          Cells,     \* bound: memory for nodes, a set of positive integers
          MAX_LEVEL

head_ == 0           \* the address of the head sentinel
tail_ == -1          \* the address of the tail sentinel
nullptr == -2
Levels == 1 .. MAX_LEVEL   \* level l is index l - 1 of level_next_

ASSUME SkipListAssumption ==
    /\ Keys \subseteq Nat /\ Cells \subseteq Nat \ {0}
    /\ MAX_LEVEL \in Nat \ {0}

VARIABLES
    next,       \* level_next_ of the head and of every cell
    key,        \* the key in each cell
    height,     \* how many levels the node has; 0: the cell is free
    max_level,  \* max_level_
    length,     \* length_
    cur, nxt,   \* cur and next of do_less_eq_then_pop; nullptr outside of it
    cnt,        \* its cnt
    out         \* the entries last returned, or handed to the callback

walkVars == <<cur, nxt, cnt>>
vars == <<next, key, height, max_level, length, walkVars, out>>

Init ==
    /\ next = [n \in Cells \cup {head_} |-> [l \in Levels |-> IF n = head_ THEN tail_ ELSE nullptr]]
    /\ key = [n \in Cells |-> 0]
    /\ height = [n \in Cells |-> 0]
    /\ max_level = 1 /\ length = 0
    /\ cur = nullptr /\ nxt = nullptr /\ cnt = 0
    /\ out = <<>>

Live == {n \in Cells : height[n] > 0}
Entry(n) == <<key[n], n>>

-----------------------------------------------------------------------------
(* Searching.                                                              *)

\* The inner loop on level l: from n, go on while the next node is before.
Advance(l, n, before(_)) ==
    LET walk[c \in Cells \cup {head_}] ==
            IF next[c][l] \in Cells /\ before(key[next[c][l]]) THEN walk[next[c][l]] ELSE c
    IN  walk[n]

\* The outer loop, from the top level down: where each level is left.
Prevs(before(_)) ==
    LET prev[l \in Levels] ==
            IF l > max_level THEN head_ ELSE Advance(l, IF l < MAX_LEVEL THEN prev[l + 1] ELSE head_, before)
    IN  prev

find_prevs(k) == Prevs(LAMBDA x : k > x)

\* Mutant: the upper search excludes the key itself.
find_upper_prevs_below(k) == Prevs(LAMBDA x : k > x)

find_upper_prevs(k) == Prevs(LAMBDA x : k >= x)

Contains(k) ==
    LET n == next[find_prevs(k)[1]][1] IN n \in Cells /\ key[n] = k

-----------------------------------------------------------------------------
(* Changing the list.                                                      *)

\* while (max_level_ > 1 && head_.level_next_[max_level_ - 1] == tail_) max_level_--
Shrink(nx, top) ==
    CHOOSE m \in 1 .. top :
        /\ m > 1 => nx[head_][m] # tail_
        /\ \A l \in m + 1 .. top : nx[head_][l] = tail_

\* emplace and add.  New levels start at the head.
emplace(k, level) ==
    \E n \in Cells \ Live :
        LET prevs == find_prevs(k)
        IN  /\ \A c \in Cells \ Live : n <= c
            /\ next' = [c \in Cells \cup {head_} |-> [l \in Levels |->
                            IF c = n THEN IF l <= level THEN next[prevs[l]][l] ELSE nullptr
                            ELSE IF l <= level /\ prevs[l] = c THEN n
                            ELSE next[c][l]]]
            /\ key' = [key EXCEPT ![n] = k]
            /\ height' = [height EXCEPT ![n] = level]
            /\ max_level' = IF level > max_level THEN level ELSE max_level
            /\ length' = length + 1
            /\ UNCHANGED <<walkVars, out>>

\* A freed cell forgets what it held.
Free(S) ==
    /\ key' = [n \in Cells |-> IF n \in S THEN 0 ELSE key[n]]
    /\ height' = [n \in Cells |-> IF n \in S THEN 0 ELSE height[n]]

\* next, with the cells of S forgotten.
Forget(nx, S) == [n \in Cells \cup {head_} |-> IF n \in S THEN [l \in Levels |-> nullptr] ELSE nx[n]]

\* Mutant: erase_one unlinks the node from the lowest level only.
erase_one_low(k) ==
    /\ cur = nullptr /\ Contains(k)
    /\ LET prevs == find_prevs(k)
           del == next[prevs[1]][1]
       IN  /\ next' = Forget([next EXCEPT ![prevs[1]][1] = next[del][1]], {del})
           /\ Free({del})
    /\ max_level' = Shrink(next', max_level)
    /\ length' = length - 1
    /\ UNCHANGED <<walkVars, out>>

\* erase_one removes the first node with the key, if there is one.
erase_one(k) ==
    /\ cur = nullptr /\ Contains(k)
    /\ LET prevs == find_prevs(k)
           del == next[prevs[1]][1]
           unlinked == [c \in Cells \cup {head_} |-> [l \in Levels |->
                            IF l <= height[del] /\ prevs[l] = c THEN next[del][l] ELSE next[c][l]]]
       IN  /\ next' = Forget(unlinked, {del})
           /\ Free({del})
    /\ max_level' = Shrink(next', max_level)
    /\ length' = length - 1
    /\ UNCHANGED <<walkVars, out>>

\* Link the head to the rest of the list, behind prevs, and cut the part before
\* it off.
Detached(prevs) ==
    [c \in Cells \cup {head_} |-> [l \in Levels |->
        IF l > max_level THEN next[c][l]
        ELSE IF c = head_ THEN next[prevs[l]][l]
        ELSE IF c = prevs[l] THEN nullptr
        ELSE next[c][l]]]

\* The nodes from n on, on level l.
Chain(nx, l, n) ==
    LET chain[c \in Cells \cup {tail_, nullptr}] ==
            IF c \in Cells THEN <<c>> \o chain[nx[c][l]] ELSE <<>>
    IN  chain[n]

Range(s) == {s[i] : i \in DOMAIN s}

\* pop_less_eq returns the values of all nodes up to k, and frees them.
pop_less_eq(k) ==
    /\ cur = nullptr
    /\ LET prevs == find_upper_prevs(k)
           popped == Chain(Detached(prevs), 1, next[head_][1])
       IN  IF prevs[1] = head_
           THEN out' = <<>> /\ UNCHANGED <<next, key, height, max_level, length>>
           ELSE /\ out' = [i \in DOMAIN popped |-> Entry(popped[i])]
                /\ next' = Forget(Detached(prevs), Range(popped))
                /\ Free(Range(popped))
                /\ max_level' = Shrink(next', max_level)
                /\ length' = length - Len(popped)
    /\ UNCHANGED walkVars

\* do_less_eq_then_pop detaches the nodes and calls f on the first.
do_less_eq_then_pop(k) ==
    /\ cur = nullptr
    /\ LET prevs == find_upper_prevs(k)
       IN  /\ prevs[1] # head_
           /\ next' = Detached(prevs)
           /\ cur' = next[head_][1]
           /\ nxt' = next'[cur'][1]
           /\ cnt' = 1
           /\ out' = <<Entry(cur')>>
    /\ UNCHANGED <<key, height, max_level, length>>

\* f, which may have inserted, returns: free the node and call f on the next, or
\* finish.
CallbackReturns ==
    /\ cur # nullptr
    /\ next' = Forget(next, {cur})
    /\ Free({cur})
    /\ cur' = nxt
    /\ IF nxt # nullptr
       THEN /\ nxt' = next[nxt][1]
            /\ cnt' = cnt + 1
            /\ out' = <<Entry(nxt)>>
            /\ UNCHANGED <<max_level, length>>
       ELSE /\ max_level' = Shrink(next', max_level)
            /\ length' = length - cnt
            /\ cnt' = 0
            /\ UNCHANGED <<nxt, out>>

Next ==
    \/ \E k \in Keys, level \in Levels : emplace(k, level)
    \/ \E k \in Keys : erase_one(k) \/ pop_less_eq(k) \/ do_less_eq_then_pop(k)
    \/ CallbackReturns

Spec == Init /\ [][Next]_vars

-----------------------------------------------------------------------------
(* Correctness.                                                            *)

\* Every variable keeps its shape.
TypeOK ==
    /\ next \in [Cells \cup {head_} -> [Levels -> Cells \cup {tail_, nullptr}]]
    /\ key \in [Cells -> Keys \cup {0}] /\ height \in [Cells -> 0 .. MAX_LEVEL]
    /\ max_level \in Levels /\ length \in Nat
    /\ {cur, nxt} \subseteq Cells \cup {nullptr} /\ cnt \in Nat

List(l) == Chain(next, l, next[head_][l])
Pending == IF cur = nullptr THEN <<>> ELSE Chain(next, 1, nxt)

\* Every level is the part of the lowest list that is high enough, in the same
\* order, and the levels from max_level_ up are empty: a search that starts at
\* max_level_ misses nothing, and no pointer leads to a freed node.
LevelsNested ==
    /\ \A l \in Levels : List(l) = SelectSeq(List(1), LAMBDA n : height[n] >= l)
    /\ \A l \in Levels : l > max_level => List(l) = <<>>
    /\ cur = nullptr /\ max_level > 1 => List(max_level) # <<>>

\* length_ counts the nodes in the list and, until the callbacks are over, the
\* detached ones; every live node is in one of the two, so none leaks.
LengthRight ==
    /\ length = Len(List(1)) + (IF cur = nullptr THEN 0 ELSE cnt + Len(Pending))
    /\ Live = Range(List(1)) \cup Range(Pending) \cup ({cur} \ {nullptr})

\* contains(k) finds every key in the list and no other.
ContainsRight == \A k \in Keys : Contains(k) = (\E n \in Range(List(1)) : key[n] = k)

\* The linked levels stay a skip list through every insertion, erasure and pop, also
\* between two callbacks of do_less_eq_then_pop: nested levels, a right length, no
\* node lost, and searches that find what is there.
WellFormed == TypeOK /\ LevelsNested /\ LengthRight /\ ContainsRight

Entries(s) == [i \in DOMAIN s |-> Entry(s[i])]

Sorted == INSTANCE SortedQueue WITH Vals <- Cells, queue <- Entries(List(1)), due <- Entries(Pending)

\* The skip list is a sorted queue, youngest first among equal keys, also while
\* callbacks insert at or before the key being handled ("safe to insert new
\* entry at here").
RefinesSorted == Sorted!Spec
=============================================================================
