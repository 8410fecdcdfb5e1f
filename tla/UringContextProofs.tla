------------------------- MODULE UringContextProofs -------------------------
(***************************************************************************)
(* Proofs about UringContext, for every number of coroutines and every     *)
(* size of the two rings: no completion is overwritten, a suspended        *)
(* coroutine has exactly one request that will resume it, and it is        *)
(* resumed by no other.                                                    *)
(***************************************************************************)
EXTENDS UringContext, TLAPS

USE UringAssumption

\* Storing a value of the right type keeps a function in its type.
LEMMA UpdateType ==
    ASSUME NEW S, NEW T, NEW f \in [S -> T], NEW i, NEW v \in T
    PROVE  [f EXCEPT ![i] = v] \in [S -> T]
  OBVIOUS

\* A ring index falls on a slot of its ring.
LEMMA SlotsInRange ==
    /\ \A i \in Nat : SqSlot(i) \in 0 .. SqEntries - 1
    /\ \A i \in Nat : CqSlot(i) \in 0 .. CqEntries - 1
  BY DEF SqSlot, CqSlot

\* What the kernel consumes are requests.
LEMMA ConsumedType == TypeOK => Consumed \subseteq Request
<1> SUFFICES ASSUME TypeOK, NEW i \in sqHead .. sqTail - 1
             PROVE  [id |-> i, data |-> sqe[SqSlot(i)]] \in Request
  BY DEF Consumed
<1>1. i \in Nat
  BY DEF TypeOK
<1>2. sqe[SqSlot(i)] \in Data
  BY <1>1, SlotsInRange DEF TypeOK
<1> QED
  BY <1>1, <1>2 DEF Request

-----------------------------------------------------------------------------
\* Every step of the system keeps every variable in its type.
LEMMA TypeStep == TypeOK /\ [Next]_vars => TypeOK'
<1> SUFFICES ASSUME TypeOK, [Next]_vars PROVE TypeOK'
  OBVIOUS
<1> USE DEF TypeOK
<1>1. ASSUME Submit PROVE /\ inflight' \subseteq Request /\ backlog' \subseteq Request
                          /\ sqHead' \in Nat /\ sqTail' \in Nat
                          /\ sqe' \in [0 .. SqEntries - 1 -> Data]
  BY <1>1, ConsumedType DEF Submit
<1>2. ASSUME NEW d \in Data, TakeSqe(d)
      PROVE  sqe' \in [0 .. SqEntries - 1 -> Data] /\ sqTail' \in Nat
  <2>1. sqe \in [0 .. SqEntries - 1 -> Data]
    OBVIOUS
  <2>2. [sqe EXCEPT ![SqSlot(sqTail)] = d] \in [0 .. SqEntries - 1 -> Data]
    BY <2>1, UpdateType, Zenon
  <2> QED
    BY <1>2, <2>2 DEF TakeSqe
<1>3. ASSUME NEW c \in Coros, Running(c), Suspend(c)
      PROVE  /\ stack' \in Seq(Coros)
             /\ co' \in [Coros -> {"unborn", "running", "suspended", "done"}]
  BY <1>3 DEF Running, Suspend
<1>4. ASSUME NEW r \in Request, PostCqe(r)
      PROVE  cqes' \in [0 .. CqEntries - 1 -> Request] /\ cqTail' \in Nat
  <2>1. cqes \in [0 .. CqEntries - 1 -> Request]
    OBVIOUS
  <2>2. [cqes EXCEPT ![CqSlot(cqTail)] = r] \in [0 .. CqEntries - 1 -> Request]
    BY <2>1, UpdateType, Zenon
  <2> QED
    BY <1>4, <2>2 DEF PostCqe
<1>5. CASE WaitForCompletions
  BY <1>1, <1>5 DEF WaitForCompletions, Submit, cqVars, coVars
<1>6. ASSUME NEW b \in BOOLEAN, StartHandle(b) PROVE TypeOK'
  BY <1>6 DEF StartHandle, sqVars, kVars, coVars
<1>7. CASE HandleCqe
  <2> DEFINE c == cqes[CqSlot(head)].data
  <2>1. c \in Data
    BY SlotsInRange DEF Request
  <2>2. c # Null => c \in Coros
    BY <2>1 DEF Data
  <2>3. c # Null => <<c>> \in Seq(Coros)
    BY <2>2
  <2>4. stack' \in Seq(Coros)
    BY <1>7, <2>3 DEF HandleCqe
  <2>5. co' \in [Coros -> {"unborn", "running", "suspended", "done"}]
    BY <1>7, <2>2 DEF HandleCqe
  <2> QED
    BY <1>7, <2>4, <2>5 DEF HandleCqe, sqVars, kVars
<1>8. CASE EndHandle
  BY <1>8 DEF EndHandle, AdvanceCq, sqVars, kVars, coVars
<1>9. ASSUME NEW c \in Coros, Start(c) PROVE TypeOK'
  <2>1. <<c>> \o stack \in Seq(Coros)
    OBVIOUS
  <2> QED
    BY <1>9, <2>1 DEF Start, sqVars, kVars, cqVars
<1>10. ASSUME NEW c \in Coros, GetSqeFlush(c) PROVE TypeOK'
  BY <1>1, <1>10 DEF GetSqeFlush, AdvanceCq, coVars
<1>11. ASSUME NEW c \in Coros, AwaitOp(c) PROVE TypeOK'
  BY <1>2, <1>3, <1>11 DEF AwaitOp, kVars, cqVars, Data
<1>12. ASSUME NEW c \in Coros, PrepTimed(c) PROVE TypeOK'
  BY <1>2, <1>12 DEF PrepTimed, kVars, cqVars, Data
<1>13. ASSUME NEW c \in Coros, LinkTimeoutAndAwait(c) PROVE TypeOK'
  <2> DEFINE Slots == 0 .. SqEntries - 1
             f == [sqe EXCEPT ![SqSlot(sqTail)] = Null]
             g == [f EXCEPT ![SqSlot(waits[c])] = c]
  <2>1. sqe \in [Slots -> Data] /\ Null \in Data /\ c \in Data
    BY DEF Data
  <2>2. f \in [Slots -> Data]
    BY <2>1, UpdateType, Zenon
  <2>3. g \in [Slots -> Data]
    BY <2>1, <2>2, UpdateType, Zenon
  <2>4. sqe' = g
    BY <1>13 DEF LinkTimeoutAndAwait
  <2>5. sqe' \in [Slots -> Data]
    BY <2>3, <2>4
  <2> HIDE DEF f, g
  <2> QED
    BY <1>3, <1>13, <2>5 DEF LinkTimeoutAndAwait, kVars, cqVars
<1>14. ASSUME NEW c \in Coros, Finish(c) PROVE TypeOK'
  BY <1>14 DEF Finish, Running, sqVars, kVars, cqVars
<1>15. ASSUME NEW r \in inflight, Complete(r) PROVE TypeOK'
  <2>1. CASE backlog = {} /\ PostCqe(r) /\ UNCHANGED backlog
    BY <1>4, <1>15, <2>1 DEF Complete, PostCqe, sqVars, coVars
  <2>2. CASE backlog' = backlog \cup {r} /\ UNCHANGED <<sqVars, cqVars, pc, coVars>>
    BY <1>15, <2>2 DEF Complete, sqVars, cqVars, coVars
  <2> QED
    BY <1>15, <2>1, <2>2 DEF Complete
<1>16. ASSUME NEW r \in backlog, FlushBacklog(r) PROVE TypeOK'
  BY <1>4, <1>16 DEF FlushBacklog, PostCqe, sqVars, coVars
<1>17. CASE UNCHANGED vars
  BY <1>17 DEF vars, sqVars, kVars, cqVars, coVars
<1> QED
  BY <1>5, <1>6, <1>7, <1>8, <1>9, <1>10, <1>11, <1>12, <1>13, <1>14, <1>15, <1>16, <1>17
     DEF Next, Thread, Coroutine

\* The variables keep their types, whatever the constants.
THEOREM TypeCorrect == Spec => []TypeOK
<1>1. Init => TypeOK
  BY DEF Init, TypeOK, Data, Request
<1> QED
  BY <1>1, TypeStep, PTL DEF Spec
-----------------------------------------------------------------------------
(* The ring accounting.  It is inductive with two more facts: cqe_count is *)
(* zero outside a walk, and the kernel never runs ahead of the SQ's tail.  *)

RingInv ==
    /\ CqAccounting
    /\ sqHead <= sqTail
    /\ pc # "handle" => cqeCount = 0

\* Every step of the system keeps the ring accounting.
LEMMA RingStep == TypeOK /\ RingInv /\ [Next]_vars => RingInv'
<1> SUFFICES ASSUME TypeOK, RingInv, [Next]_vars PROVE RingInv'
  OBVIOUS
<1>t. /\ {sqHead, sqTail, cqHead, cqTail, cqeCount, head} \subseteq Nat
      /\ pc \in {"loop", "wait", "handle"}
  BY DEF TypeOK
<1> USE DEF RingInv, CqAccounting, Cursor
<1>1. ASSUME Submit PROVE sqTail' = sqTail /\ sqHead' \in {sqHead, sqTail}
  BY <1>1 DEF Submit
<1>2. ASSUME NEW d, TakeSqe(d)
      PROVE  sqTail' = sqTail + 1 /\ sqTail + 1 - sqHead <= SqEntries
  BY <1>t, <1>2 DEF TakeSqe, SqFull
<1>3. ASSUME NEW r, PostCqe(r) PROVE RingInv'
  BY <1>t, <1>3 DEF PostCqe, CqFull, sqVars
<1>4. CASE WaitForCompletions
  BY <1>t, <1>1, <1>4 DEF WaitForCompletions, cqVars
<1>5. ASSUME NEW b \in BOOLEAN, StartHandle(b) PROVE RingInv'
  BY <1>t, <1>5 DEF StartHandle, sqVars
<1>6. CASE HandleCqe
  <2>1. /\ pc = "handle" /\ pc' = pc /\ head # cqTail
        /\ cqeCount' = cqeCount + 1 /\ head' = head + 1
        /\ UNCHANGED <<sqHead, sqTail, cqHead, cqTail>>
    BY <1>6 DEF HandleCqe, sqVars
  <2> QED
    BY <1>t, <2>1
<1>7. CASE EndHandle
  BY <1>t, <1>7 DEF EndHandle, AdvanceCq, sqVars
<1>8. ASSUME NEW c \in Coros, GetSqeFlush(c) PROVE RingInv'
  BY <1>t, <1>1, <1>8 DEF GetSqeFlush, AdvanceCq
<1>9. ASSUME NEW c \in Coros, AwaitOp(c) PROVE RingInv'
  BY <1>t, <1>2, <1>9 DEF AwaitOp, cqVars
<1>10. ASSUME NEW c \in Coros, PrepTimed(c) PROVE RingInv'
  BY <1>t, <1>2, <1>10 DEF PrepTimed, cqVars
<1>11. ASSUME NEW c \in Coros, LinkTimeoutAndAwait(c) PROVE RingInv'
  BY <1>t, <1>11 DEF LinkTimeoutAndAwait, SqFull, cqVars
<1>12. ASSUME NEW c \in Coros, Start(c) \/ Finish(c) PROVE RingInv'
  BY <1>t, <1>12 DEF Start, Finish, sqVars, cqVars
<1>13. ASSUME NEW r \in inflight, Complete(r) PROVE RingInv'
  BY <1>t, <1>3, <1>13 DEF Complete, sqVars, cqVars
<1>14. ASSUME NEW r \in backlog, FlushBacklog(r) PROVE RingInv'
  BY <1>3, <1>14 DEF FlushBacklog
<1>15. CASE UNCHANGED vars
  BY <1>15 DEF vars, sqVars, cqVars
<1> QED
  BY <1>4, <1>5, <1>6, <1>7, <1>8, <1>9, <1>10, <1>11, <1>12, <1>13, <1>14, <1>15
     DEF Next, Thread, Coroutine

\* No CQE is given back before it is read or read twice, and neither ring
\* overflows, although a resumed coroutine may submit and give CQEs back through
\* io_uring_get_sqe_safe in the middle of handle_completions.
THEOREM RingAccounting == Spec => []CqAccounting
<1>1. Init => RingInv
  BY DEF Init, RingInv, CqAccounting, Cursor
<1>2. RingInv => CqAccounting
  BY DEF RingInv
<1> QED
  BY <1>1, <1>2, RingStep, TypeCorrect, PTL DEF Spec
-----------------------------------------------------------------------------
(* Ring positions and slots.                                               *)

\* Two different positions less than a ring apart are on different slots.
LEMMA DistinctSlots ==
    ASSUME NEW n \in Nat \ {0}, NEW i \in Nat, NEW j \in Nat, i < j, j - i < n
    PROVE  i % n # j % n
<1>1. i = n * (i \div n) + (i % n) /\ j = n * (j \div n) + (j % n)
  OBVIOUS
<1>2. i \div n \in Int /\ j \div n \in Int
  OBVIOUS
<1> DEFINE q == (j \div n) - (i \div n)
<1>3. ASSUME i % n = j % n PROVE FALSE
  <2>1. n * q = j - i
    BY <1>1, <1>2, <1>3
  <2>2. q \in Int
    BY <1>2
  <2> HIDE DEF q
  <2>3. q <= 0 \/ q >= 1
    BY <2>2
  <2>4. q >= 1 => n * q >= n
    BY <2>2
  <2>5. q <= 0 => n * q <= 0
    BY <2>2
  <2> QED
    BY <2>1, <2>2, <2>3, <2>4, <2>5
<1> QED
  BY <1>3

\* Taking an sqe adds one pending position, which holds the given user_data, and
\* leaves the other pending ones as they are.
LEMMA TakeView ==
    ASSUME TypeOK, RingInv, NEW d, TakeSqe(d), UNCHANGED sqHead
    PROVE  /\ Pending' = Pending \cup {sqTail} /\ sqTail \notin Pending
           /\ sqe'[SqSlot(sqTail)] = d
           /\ \A i \in Pending : sqe'[SqSlot(i)] = sqe[SqSlot(i)]
<1>1. sqHead \in Nat /\ sqTail \in Nat /\ sqHead <= sqTail /\ sqTail - sqHead < SqEntries
  BY DEF TypeOK, RingInv, TakeSqe, SqFull
<1>2. Pending' = Pending \cup {sqTail} /\ sqTail \notin Pending
  BY <1>1 DEF Pending, TakeSqe
<1>3. \A i \in Pending : SqSlot(i) # SqSlot(sqTail)
  <2>1. SqEntries \in Nat \ {0}
    OBVIOUS
  <2>2. \A i \in Pending : i \in Nat /\ i < sqTail /\ sqTail - i < SqEntries
    BY <1>1 DEF Pending
  <2> QED
    BY <1>1, <2>1, <2>2, DistinctSlots DEF SqSlot
<1>4. SqSlot(sqTail) \in DOMAIN sqe /\ \A i \in Pending : SqSlot(i) \in DOMAIN sqe
  <2>1. DOMAIN sqe = 0 .. SqEntries - 1
    BY DEF TypeOK
  <2>2. \A i \in Pending : i \in Nat
    BY <1>1 DEF Pending
  <2> QED
    BY <1>1, <2>1, <2>2, SlotsInRange
<1> QED
  BY <1>2, <1>3, <1>4 DEF TakeSqe

\* Posting a CQE adds one unread position, which holds it, and leaves the other
\* unread ones as they are.
LEMMA PostView ==
    ASSUME TypeOK, RingInv, NEW r, PostCqe(r)
    PROVE  /\ Unread' = Unread \cup {cqTail} /\ cqTail \notin Unread
           /\ cqes'[CqSlot(cqTail)] = r
           /\ \A i \in Unread : cqes'[CqSlot(i)] = cqes[CqSlot(i)]
<1>1. /\ {cqHead, cqTail, cqeCount, Cursor} \subseteq Nat
      /\ cqHead <= Cursor /\ Cursor <= cqTail /\ cqTail - cqHead < CqEntries
  BY DEF TypeOK, RingInv, CqAccounting, Cursor, PostCqe, CqFull
<1>2. Cursor' = Cursor /\ cqTail' = cqTail + 1
  BY DEF Cursor, PostCqe
<1>3. Unread' = Unread \cup {cqTail} /\ cqTail \notin Unread
  BY <1>1, <1>2 DEF Unread
<1>4. \A i \in Unread : CqSlot(i) # CqSlot(cqTail)
  BY <1>1, DistinctSlots DEF Unread, CqSlot
<1>5. CqSlot(cqTail) \in DOMAIN cqes /\ \A i \in Unread : CqSlot(i) \in DOMAIN cqes
  BY <1>1, SlotsInRange DEF Unread, TypeOK
<1> QED
  BY <1>3, <1>4, <1>5 DEF PostCqe

\* The steps of the thread and of coroutines leave what is unread as it is,
\* except the one that reads a CQE.
LEMMA UnreadView ==
    ASSUME TypeOK, RingInv, [Next]_vars
    PROVE  \/ Unread' = Unread /\ UNCHANGED cqes
           \/ HandleCqe
           \/ \E r \in inflight : Complete(r)
           \/ \E r \in backlog : FlushBacklog(r)
<1>1. /\ {cqHead, cqTail, cqeCount, head} \subseteq Nat
      /\ cqHead + cqeCount = Cursor
      /\ pc # "handle" => cqeCount = 0
  BY DEF TypeOK, RingInv, CqAccounting
<1> USE DEF Cursor, Unread
<1>2. ASSUME NEW c, GetSqeFlush(c) PROVE Unread' = Unread /\ UNCHANGED cqes
  BY <1>1, <1>2 DEF GetSqeFlush, AdvanceCq
<1>3. CASE EndHandle
  BY <1>1, <1>3 DEF EndHandle, AdvanceCq
<1>4. CASE WaitForCompletions
  BY <1>1, <1>4 DEF WaitForCompletions, cqVars
<1>5. ASSUME NEW b \in BOOLEAN, StartHandle(b) PROVE Unread' = Unread /\ UNCHANGED cqes
  BY <1>1, <1>5 DEF StartHandle
<1>6. ASSUME NEW c, Start(c) \/ AwaitOp(c) \/ PrepTimed(c) \/ LinkTimeoutAndAwait(c) \/ Finish(c)
      PROVE  Unread' = Unread /\ UNCHANGED cqes
  BY <1>6 DEF Start, AwaitOp, PrepTimed, LinkTimeoutAndAwait, Finish, cqVars
<1>7. CASE UNCHANGED vars
  BY <1>7 DEF vars, cqVars
<1> QED
  BY <1>2, <1>3, <1>4, <1>5, <1>6, <1>7 DEF Next, Thread, Coroutine

\* Reading a CQE takes the first unread position away.
LEMMA ReadView ==
    ASSUME TypeOK, RingInv, HandleCqe
    PROVE  head \in Unread /\ Unread' = Unread \ {head} /\ UNCHANGED cqes
  BY DEF TypeOK, RingInv, CqAccounting, HandleCqe, Cursor, Unread

-----------------------------------------------------------------------------
InKernel == inflight \cup backlog
Posted(i) == cqes[CqSlot(i)]

-----------------------------------------------------------------------------
(* Request ids.  An id is a position of the SQ; the requests in the kernel *)
(* and in the unread part of the CQ are consumed ones, all different.      *)

IdInv ==
    /\ \A r \in InKernel : r.id < sqHead
    /\ \A i \in Unread : Posted(i).id < sqHead
    /\ \A r, s \in InKernel : r.id = s.id => r = s
    /\ inflight \cap backlog = {}
    /\ \A i, j \in Unread : Posted(i).id = Posted(j).id => i = j
    /\ \A i \in Unread, r \in InKernel : Posted(i).id # r.id

\* The types that the facts about requests rest on.
LEMMA RequestTypes ==
    ASSUME TypeOK, RingInv
    PROVE  /\ sqHead \in Nat /\ sqTail \in Nat /\ sqHead <= sqTail
           /\ \A r \in InKernel : r \in Request /\ r.id \in Nat
           /\ \A i \in Unread : i \in Nat /\ Posted(i) \in Request /\ Posted(i).id \in Nat
<1>1. \A i \in Unread : i \in Nat
  BY DEF TypeOK, Unread, Cursor
<1>2. \A i \in Unread : Posted(i) \in Request
  BY <1>1, SlotsInRange DEF TypeOK, Posted
<1>3. \A r \in Request : r.id \in Nat
  BY DEF Request
<1> QED
  BY <1>1, <1>2, <1>3 DEF TypeOK, RingInv, InKernel

\* Submitting keeps the ids apart: the consumed ones are the next positions.
LEMMA IdSubmit ==
    ASSUME TypeOK, RingInv, IdInv, Submit, Unread' = Unread, UNCHANGED cqes
    PROVE  IdInv'
<1>1. CASE UNCHANGED <<inflight, sqHead>>
  BY <1>1 DEF Submit, IdInv, InKernel, Posted
<1>2. CASE inflight' = inflight \cup Consumed /\ sqHead' = sqTail
  <2>1. InKernel' = InKernel \cup Consumed /\ backlog' = backlog
    BY <1>2 DEF InKernel, Submit
  <2>2. \A r \in Consumed : /\ r.id \in sqHead .. sqTail - 1
                            /\ r = [id |-> r.id, data |-> sqe[SqSlot(r.id)]]
    BY DEF Consumed
  <2>3. \A r \in Consumed : r.id \in Nat /\ sqHead <= r.id /\ r.id < sqTail
    BY <2>2, RequestTypes
  <2>4. \A r, s \in Consumed : r.id = s.id => r = s
    BY <2>2
  <2>5. \A r \in Consumed, s \in InKernel : r.id # s.id
    BY <2>3, RequestTypes DEF IdInv
  <2>6. \A r \in Consumed, i \in Unread : Posted(i).id # r.id
    BY <2>3, RequestTypes DEF IdInv
  <2>7. \A r \in InKernel : r.id < sqTail
    BY RequestTypes DEF IdInv
  <2>8. \A i \in Unread : Posted(i).id < sqTail
    BY RequestTypes DEF IdInv
  <2>9. Consumed \cap backlog = {}
    BY <2>5 DEF InKernel
  <2>10. \A i : Posted(i)' = Posted(i)
    BY DEF Posted
  <2> QED
    BY <1>2, <2>1, <2>3, <2>4, <2>5, <2>6, <2>7, <2>8, <2>9, <2>10 DEF IdInv
<1> QED
  BY <1>1, <1>2 DEF Submit

\* Posting the CQE of a request of the kernel, which thereby leaves the kernel,
\* keeps the ids apart.
LEMMA IdPost ==
    ASSUME TypeOK, RingInv, IdInv, NEW r \in InKernel, PostCqe(r),
           InKernel' = InKernel \ {r}, (inflight \cap backlog)' = {}
    PROVE  IdInv'
<1>1. /\ Unread' = Unread \cup {cqTail} /\ cqTail \notin Unread
      /\ cqes'[CqSlot(cqTail)] = r
      /\ \A i \in Unread : cqes'[CqSlot(i)] = Posted(i)
  BY PostView DEF Posted
<1>2. sqHead' = sqHead
  BY DEF PostCqe, sqVars
<1> DEFINE new(i) == cqes'[CqSlot(i)]
<1>3. \A i \in Unread' : \/ i \in Unread /\ new(i) = Posted(i)
                         \/ i = cqTail /\ new(i) = r
  <2> TAKE i \in Unread'
  <2>1. i \in Unread \/ i = cqTail
    BY <1>1
  <2>2. ASSUME i = cqTail PROVE new(i) = r
    BY <1>1, <2>2
  <2>3. ASSUME i \in Unread PROVE new(i) = Posted(i)
    BY <1>1, <2>3
  <2> QED
    BY <2>1, <2>2, <2>3
<1>4. \A i \in Unread' : new(i).id < sqHead
  BY <1>3 DEF IdInv
<1>5. \A i, j \in Unread' : new(i).id = new(j).id => i = j
  BY <1>3 DEF IdInv
<1>6. \A i \in Unread', q \in InKernel \ {r} : new(i).id # q.id
  BY <1>3 DEF IdInv
<1>7. \A i : Posted(i)' = new(i)
  BY DEF Posted
<1> HIDE DEF new
<1> QED
  BY <1>2, <1>4, <1>5, <1>6, <1>7 DEF IdInv

\* Every step of the system keeps the ids apart.
LEMMA IdStep == TypeOK /\ RingInv /\ IdInv /\ [Next]_vars => IdInv'
<1> SUFFICES ASSUME TypeOK, RingInv, IdInv, [Next]_vars PROVE IdInv'
  OBVIOUS
<1>1. ASSUME UNCHANGED <<kVars, cqes, sqHead>>, Unread' = Unread PROVE IdInv'
  BY <1>1 DEF IdInv, InKernel, Posted, kVars
<1>2. CASE HandleCqe
  <2>1. Unread' \subseteq Unread /\ UNCHANGED <<kVars, cqes, sqHead>>
    BY <1>2, ReadView DEF HandleCqe, sqVars
  <2> QED
    BY <2>1 DEF IdInv, InKernel, Posted, kVars
<1>3. ASSUME NEW r \in inflight, Complete(r) PROVE IdInv'
  <2>1. r \notin backlog
    BY <1>3 DEF IdInv
  <2>2. CASE backlog = {} /\ PostCqe(r) /\ UNCHANGED backlog
    BY <1>3, <2>1, <2>2, IdPost DEF Complete, InKernel
  <2>3. CASE backlog' = backlog \cup {r} /\ UNCHANGED <<sqVars, cqVars, pc, coVars>>
    <3>1. InKernel' = InKernel /\ (inflight \cap backlog)' = {}
      BY <1>3, <2>1, <2>3 DEF Complete, InKernel, IdInv
    <3>2. Unread' = Unread /\ UNCHANGED <<cqes, sqHead>>
      BY <2>3 DEF Unread, Cursor, cqVars, sqVars
    <3> QED
      BY <3>1, <3>2 DEF IdInv, Posted
  <2> QED
    BY <1>3, <2>2, <2>3 DEF Complete
<1>4. ASSUME NEW r \in backlog, FlushBacklog(r) PROVE IdInv'
  <2>1. r \notin inflight
    BY <1>4 DEF IdInv
  <2>2. InKernel' = InKernel \ {r} /\ (inflight \cap backlog)' = {}
    BY <1>4, <2>1 DEF FlushBacklog, InKernel, IdInv
  <2> QED
    BY <1>4, <2>2, IdPost DEF FlushBacklog, InKernel
<1>5. CASE Unread' = Unread /\ UNCHANGED cqes
  <2>1. ASSUME NEW c, WaitForCompletions \/ GetSqeFlush(c) PROVE IdInv'
    BY <1>5, <2>1, IdSubmit DEF WaitForCompletions, GetSqeFlush
  <2>2. ASSUME NEW b \in BOOLEAN, StartHandle(b) PROVE IdInv'
    BY <1>1, <1>5, <2>2 DEF StartHandle, sqVars
  <2>3. CASE EndHandle
    BY <1>1, <1>5, <2>3 DEF EndHandle, sqVars
  <2>4. ASSUME NEW c, Start(c) \/ AwaitOp(c) \/ PrepTimed(c) \/ LinkTimeoutAndAwait(c) \/ Finish(c)
        PROVE  IdInv'
    BY <1>1, <1>5, <2>4 DEF Start, AwaitOp, PrepTimed, LinkTimeoutAndAwait, Finish, sqVars
  <2>5. CASE UNCHANGED vars
    BY <1>1, <1>5, <2>5 DEF vars, sqVars
  <2> QED
    BY <1>2, <1>3, <1>4, <2>1, <2>2, <2>3, <2>4, <2>5 DEF Next, Thread, Coroutine
<1> QED
  BY <1>2, <1>3, <1>4, <1>5, UnreadView

-----------------------------------------------------------------------------
(* The thread's stack holds running coroutines, each once.                 *)

StackInv ==
    /\ \A i \in 1 .. Len(stack) : co[stack[i]] = "running"
    /\ \A i, j \in 1 .. Len(stack) : stack[i] = stack[j] => i = j

\* The coroutine on top of the stack is running.
LEMMA RunningIsRunning ==
    ASSUME TypeOK, StackInv, NEW c, Running(c)
    PROVE  co[c] = "running"
  BY DEF TypeOK, StackInv, Running

\* Popping the top of the stack when its coroutine stops running keeps the rest.
LEMMA StackPop ==
    ASSUME TypeOK, StackInv, NEW c, Running(c), stack' = Tail(stack), NEW v,
           co' = [co EXCEPT ![c] = v]
    PROVE  StackInv'
<1>1. stack \in Seq(Coros) /\ stack # <<>> /\ stack[1] = c
  BY DEF TypeOK, Running
<1>2. /\ Len(stack') = Len(stack) - 1
      /\ \A i \in 1 .. Len(stack') : i + 1 \in 2 .. Len(stack) /\ stack'[i] = stack[i + 1]
  BY <1>1
<1>3. \A i \in 2 .. Len(stack) : stack[i] # c /\ stack[i] \in Coros
  BY <1>1 DEF StackInv
<1>4. \A i \in 2 .. Len(stack) : co'[stack[i]] = co[stack[i]]
  BY <1>3 DEF TypeOK
<1> QED
  BY <1>1, <1>2, <1>4 DEF StackInv

\* Every step of the system keeps the stack's discipline.
LEMMA StackStep == TypeOK /\ StackInv /\ [Next]_vars => StackInv'
<1> SUFFICES ASSUME TypeOK, StackInv, [Next]_vars PROVE StackInv'
  OBVIOUS
<1>1. ASSUME UNCHANGED <<stack, co>> PROVE StackInv'
  BY <1>1 DEF StackInv
<1>2. ASSUME WaitForCompletions \/ EndHandle \/ UNCHANGED vars PROVE StackInv'
  BY <1>1, <1>2 DEF WaitForCompletions, EndHandle, vars, coVars
<1>3. ASSUME NEW b \in BOOLEAN, StartHandle(b) PROVE StackInv'
  BY <1>1, <1>3 DEF StartHandle, coVars
<1>4. CASE HandleCqe
  <2> DEFINE c == cqes[CqSlot(head)].data
  <2>1. CASE c = Null
    BY <1>1, <1>4, <2>1 DEF HandleCqe
  <2>2. CASE c # Null
    <3>1. c \in Coros
      BY <2>2, SlotsInRange DEF TypeOK, Request, Data
    <3>2. stack' = <<c>> /\ co' = [co EXCEPT ![c] = "running"]
      BY <1>4, <2>2 DEF HandleCqe
    <3> HIDE DEF c
    <3> QED
      BY <3>1, <3>2 DEF StackInv, TypeOK
  <2> QED
    BY <2>1, <2>2
<1>5. ASSUME NEW c \in Coros, Start(c) PROVE StackInv'
  <2>1. /\ stack \in Seq(Coros) /\ stack' = <<c>> \o stack
        /\ co' = [co EXCEPT ![c] = "running"] /\ co[c] = "unborn"
    BY <1>5 DEF Start, TypeOK
  <2>2. /\ Len(stack') = Len(stack) + 1 /\ stack'[1] = c
        /\ \A i \in 2 .. Len(stack') : i - 1 \in 1 .. Len(stack) /\ stack'[i] = stack[i - 1]
    BY <2>1
  <2>3. \A i \in 1 .. Len(stack) : stack[i] \in Coros /\ stack[i] # c
    BY <2>1 DEF StackInv
  <2>4. co'[c] = "running" /\ \A i \in 1 .. Len(stack) : co'[stack[i]] = "running"
    BY <2>1, <2>3 DEF StackInv, TypeOK
  <2>5. Len(stack) \in Nat
    BY <2>1
  <2>6. \A i \in 1 .. Len(stack') : i = 1 \/ i \in 2 .. Len(stack')
    BY <2>2, <2>5
  <2>7. \A i \in 1 .. Len(stack') : co'[stack'[i]] = "running"
    BY <2>2, <2>4, <2>6
  <2>8. \A i, j \in 2 .. Len(stack') : stack'[i] = stack'[j] => i = j
    <3> TAKE i, j \in 2 .. Len(stack')
    <3> HAVE stack'[i] = stack'[j]
    <3>1. i - 1 = j - 1
      BY <2>2 DEF StackInv
    <3> QED
      BY <2>2, <2>5, <3>1
  <2>9. \A i \in 2 .. Len(stack') : stack'[i] # stack'[1]
    BY <2>2, <2>3
  <2>10. \A i, j \in 1 .. Len(stack') : stack'[i] = stack'[j] => i = j
    BY <2>6, <2>8, <2>9
  <2> QED
    BY <2>7, <2>10 DEF StackInv
<1>6. ASSUME NEW c \in Coros, AwaitOp(c) \/ LinkTimeoutAndAwait(c) \/ Finish(c) PROVE StackInv'
  BY <1>6, StackPop DEF AwaitOp, LinkTimeoutAndAwait, Finish, Suspend
<1>7. ASSUME NEW c \in Coros, GetSqeFlush(c) \/ PrepTimed(c) PROVE StackInv'
  BY <1>1, <1>7 DEF GetSqeFlush, PrepTimed, coVars
<1>8. ASSUME NEW r, Complete(r) \/ FlushBacklog(r) PROVE StackInv'
  BY <1>1, <1>8 DEF Complete, FlushBacklog, PostCqe, coVars
<1> QED
  BY <1>2, <1>3, <1>4, <1>5, <1>6, <1>7, <1>8 DEF Next, Thread, Coroutine
-----------------------------------------------------------------------------
(* The tokens.  Request id carries the token of c exactly when c is        *)
(* suspended on it.  Between its two sqes a timed operation has already    *)
(* recorded the first one, which carries no token yet.                     *)

Carrier(id, c) ==
    \/ id \in Pending /\ sqe[SqSlot(id)] = c
    \/ [id |-> id, data |-> c] \in InKernel
    \/ \E i \in Unread : Posted(i) = [id |-> id, data |-> c]

Awaits(c, id) == co[c] = "suspended" /\ c \notin split /\ waits[c] = id

Linked ==
    /\ stack # <<>> /\ sqTail # 0
    /\ waits[Head(stack)] = sqTail - 1
    /\ sqTail - 1 \in Pending => sqe[SqSlot(sqTail - 1)] = Null

TokenInv ==
    /\ \A c \in Coros, id \in Nat : Carrier(id, c) <=> Awaits(c, id)
    /\ \A c \in split : co[c] = "suspended"
    /\ phase = "linked" => Linked

SafeInv == TypeOK /\ RingInv /\ IdInv /\ StackInv /\ TokenInv

\* Nothing of the token invariant changes when requests only move on.
LEMMA TokenMoves ==
    ASSUME TypeOK, TokenInv, UNCHANGED <<stack, co, waits, split, sqTail, sqe, phase>>,
           \A c \in Coros, id \in Nat : Carrier(id, c)' <=> Carrier(id, c),
           sqHead \in Nat, sqHead' \in Nat, sqHead <= sqHead'
    PROVE  TokenInv'
<1>1. \A c, id : Awaits(c, id)' <=> Awaits(c, id)
  BY DEF Awaits
<1>2. Linked => Linked'
  BY DEF Linked, Pending, TypeOK
<1> QED
  BY <1>1, <1>2 DEF TokenInv

\* Submitting moves requests from the SQ to the kernel, with the user_data they
\* have at that moment.
LEMMA TokenSubmit ==
    ASSUME SafeInv, Submit, Unread' = Unread, UNCHANGED cqes,
           UNCHANGED <<stack, co, waits, split, phase>>
    PROVE  TokenInv'
<1>1. TypeOK /\ RingInv /\ TokenInv /\ sqHead \in Nat /\ sqTail \in Nat /\ sqHead <= sqTail
  BY DEF SafeInv, TypeOK, RingInv
<1>2. UNCHANGED <<sqe, sqTail, backlog>>
  BY DEF Submit
<1>3. \A i : Posted(i)' = Posted(i)
  BY DEF Posted
<1>4. CASE UNCHANGED <<inflight, sqHead>>
  BY <1>1, <1>2, <1>3, <1>4, TokenMoves DEF Carrier, InKernel, Pending
<1>5. CASE inflight' = inflight \cup Consumed /\ sqHead' = sqTail
  <2>1. Pending' = {} /\ InKernel' = InKernel \cup Consumed
    BY <1>1, <1>2, <1>5 DEF Pending, InKernel
  <2>2. \A c \in Coros, id \in Nat :
            [id |-> id, data |-> c] \in Consumed <=> (id \in Pending /\ sqe[SqSlot(id)] = c)
    BY DEF Consumed, Pending
  <2>3. \A c \in Coros, id \in Nat : Carrier(id, c)' <=> Carrier(id, c)
    BY <1>3, <2>1, <2>2 DEF Carrier
  <2> QED
    BY <1>1, <1>2, <1>5, <2>3, TokenMoves
<1> QED
  BY <1>4, <1>5 DEF Submit

\* Posting moves a request from the kernel to the CQ.
LEMMA TokenPost ==
    ASSUME SafeInv, NEW r \in InKernel, PostCqe(r), InKernel' = InKernel \ {r}
    PROVE  TokenInv'
<1>1. TypeOK /\ RingInv /\ TokenInv /\ sqHead \in Nat
  BY DEF SafeInv, TypeOK
<1>2. UNCHANGED <<sqe, sqTail, sqHead, stack, co, waits, split, phase>>
  BY DEF PostCqe, sqVars, coVars
<1>3. /\ Unread' = Unread \cup {cqTail}
      /\ cqes'[CqSlot(cqTail)] = r
      /\ \A i \in Unread : cqes'[CqSlot(i)] = Posted(i)
  BY <1>1, PostView DEF Posted
<1>4. \A q : (\E i \in Unread' : Posted(i)' = q) <=> (q = r \/ \E i \in Unread : Posted(i) = q)
  <2> TAKE q
  <2>1. \A i : Posted(i)' = cqes'[CqSlot(i)]
    BY DEF Posted
  <2>2. ASSUME q = r PROVE \E i \in Unread' : Posted(i)' = q
    BY <1>3, <2>1, <2>2
  <2> QED
    BY <1>3, <2>1, <2>2
<1>5. Pending' = Pending
  BY <1>2 DEF Pending
<1>6. \A c \in Coros, id \in Nat : Carrier(id, c)' <=> Carrier(id, c)
  BY <1>2, <1>4, <1>5 DEF Carrier
<1> QED
  BY <1>1, <1>2, <1>6, TokenMoves

\* Reading a CQE resumes the coroutine of its token, which then has none left.
LEMMA TokenHandle ==
    ASSUME SafeInv, HandleCqe
    PROVE  TokenInv'
<1>1. TypeOK /\ RingInv /\ IdInv /\ TokenInv
  BY DEF SafeInv
<1>2. head \in Unread /\ Unread' = Unread \ {head} /\ UNCHANGED cqes
  BY <1>1, ReadView
<1>3. /\ UNCHANGED <<sqe, sqTail, sqHead, waits, split, phase, inflight, backlog>>
      /\ stack = <<>>
  BY DEF HandleCqe, sqVars, kVars
<1>4. Pending' = Pending /\ InKernel' = InKernel /\ \A i : Posted(i)' = Posted(i)
  BY <1>2, <1>3 DEF Pending, InKernel, Posted
<1>5. PICK r \in Request : r = Posted(head) /\ r.id \in Nat /\ r = [id |-> r.id, data |-> r.data]
  BY <1>1, <1>2, RequestTypes DEF Request
<1>6. phase # "linked"
  BY <1>1, <1>3 DEF TokenInv, Linked
<1>7. \A d \in Coros, id \in Nat : d # r.data => (Carrier(id, d)' <=> Carrier(id, d))
  BY <1>2, <1>4, <1>3, <1>5 DEF Carrier
<1>8. CASE r.data = Null
  <2>1. UNCHANGED <<stack, co>>
    BY <1>5, <1>8 DEF HandleCqe, Posted
  <2>2. \A d \in Coros, id \in Nat : Carrier(id, d)' <=> Carrier(id, d)
    BY <1>7, <1>8
  <2> QED
    BY <1>1, <1>3, <2>1, <2>2, TokenMoves DEF TypeOK
<1>9. CASE r.data # Null
  <2>1. PICK c \in Coros : c = r.data
    BY <1>5, <1>9 DEF Request, Data
  <2>2. co' = [co EXCEPT ![c] = "running"]
    BY <1>5, <1>9, <2>1 DEF HandleCqe, Posted
  <2>3. Carrier(r.id, c)
    BY <1>2, <1>5, <2>1 DEF Carrier
  <2>4. Awaits(c, r.id)
    BY <1>1, <1>5, <2>1, <2>3 DEF TokenInv
  <2>5. \A id \in Nat : ~Carrier(id, c)'
    <3> SUFFICES ASSUME NEW id \in Nat, Carrier(id, c)' PROVE FALSE
      OBVIOUS
    <3>1. Carrier(id, c)
      BY <1>2, <1>3, <1>4 DEF Carrier
    <3>2. id = r.id
      BY <1>1, <2>1, <2>4, <3>1 DEF TokenInv, Awaits
    <3>3. id < sqHead /\ sqHead \in Nat
      BY <1>1, <1>2, <1>5, <3>2 DEF IdInv, TypeOK
    <3>4. id \notin Pending
      BY <3>3 DEF Pending
    <3>5. [id |-> id, data |-> c] \notin InKernel
      BY <1>1, <1>2, <1>5, <3>2 DEF IdInv
    <3>6. \A i \in Unread \ {head} : Posted(i) # [id |-> id, data |-> c]
      BY <1>1, <1>2, <1>5, <3>2 DEF IdInv
    <3> QED
      BY <1>2, <1>4, <3>4, <3>5, <3>6 DEF Carrier
  <2>6. \A d \in Coros : co'[d] = IF d = c THEN "running" ELSE co[d]
    BY <1>1, <2>2 DEF TypeOK
  <2>7. \A d \in Coros, id \in Nat : d # c => (Awaits(d, id)' <=> Awaits(d, id))
    BY <1>3, <2>6 DEF Awaits
  <2>8. \A id : ~Awaits(c, id)'
    BY <2>1, <2>6 DEF Awaits
  <2>9. c \notin split
    BY <2>4 DEF Awaits
  <2>10. \A d \in split' : co'[d] = "suspended"
    BY <1>1, <1>3, <2>6, <2>9 DEF TokenInv, TypeOK
  <2>11. \A d \in Coros, id \in Nat : Carrier(id, d)' <=> Awaits(d, id)'
    BY <1>1, <1>7, <2>1, <2>5, <2>7, <2>8 DEF TokenInv
  <2> QED
    BY <1>3, <1>6, <2>10, <2>11 DEF TokenInv
<1> QED
  BY <1>8, <1>9

\* A running coroutine's token is nowhere, and it is in no split operation.
LEMMA RunningHasNone ==
    ASSUME SafeInv, NEW c \in Coros, Running(c)
    PROVE  /\ co[c] = "running" /\ c \notin split
           /\ \A id \in Nat : ~Carrier(id, c)
<1>1. co[c] = "running"
  BY RunningIsRunning DEF SafeInv
<1> QED
  BY <1>1 DEF SafeInv, TokenInv, Awaits

\* co_await puts the token in the sqe it has just taken.
LEMMA TokenAwait ==
    ASSUME SafeInv, NEW c \in Coros, AwaitOp(c)
    PROVE  TokenInv'
<1>1. TypeOK /\ RingInv /\ TokenInv /\ sqTail \in Nat
  BY DEF SafeInv, TypeOK
<1>2. /\ Running(c) /\ TakeSqe(c) /\ phase' = "free"
      /\ UNCHANGED <<sqHead, inflight, backlog, split, cqes>> /\ Unread' = Unread
      /\ waits' = [waits EXCEPT ![c] = sqTail] /\ co' = [co EXCEPT ![c] = "suspended"]
  BY DEF AwaitOp, Suspend, kVars, cqVars, Unread, Cursor
<1>3. /\ Pending' = Pending \cup {sqTail} /\ sqTail \notin Pending
      /\ sqe'[SqSlot(sqTail)] = c
      /\ \A i \in Pending : sqe'[SqSlot(i)] = sqe[SqSlot(i)]
  BY <1>1, <1>2, TakeView
<1>4. co[c] = "running" /\ c \notin split /\ \A id \in Nat : ~Carrier(id, c)
  BY <1>2, RunningHasNone
<1>5. InKernel' = InKernel /\ \A i : Posted(i)' = Posted(i)
  BY <1>2 DEF InKernel, Posted
<1>6. \A d \in Coros, id \in Nat : Carrier(id, d)' <=> (Carrier(id, d) \/ (id = sqTail /\ d = c))
  BY <1>2, <1>3, <1>5 DEF Carrier
<1>7. \A d \in Coros : /\ co'[d] = IF d = c THEN "suspended" ELSE co[d]
                       /\ waits'[d] = IF d = c THEN sqTail ELSE waits[d]
  BY <1>1, <1>2 DEF TypeOK
<1>8. \A d \in Coros, id \in Nat : Awaits(d, id)' <=> (Awaits(d, id) \/ (id = sqTail /\ d = c))
  BY <1>2, <1>4, <1>7 DEF Awaits
<1>9. \A d \in split' : co'[d] = "suspended"
  BY <1>1, <1>2, <1>7 DEF TokenInv, TypeOK
<1> QED
  BY <1>1, <1>2, <1>6, <1>8, <1>9 DEF TokenInv

\* The first half of a timed operation leaves the tokens alone.
LEMMA TokenPrep ==
    ASSUME SafeInv, NEW c \in Coros, PrepTimed(c)
    PROVE  TokenInv'
<1>1. TypeOK /\ RingInv /\ TokenInv /\ sqTail \in Nat /\ sqHead \in Nat
  BY DEF SafeInv, TypeOK
<1>2. /\ Running(c) /\ TakeSqe(Null)
      /\ UNCHANGED <<sqHead, inflight, backlog, split, cqes, stack, co>> /\ Unread' = Unread
      /\ waits' = [waits EXCEPT ![c] = sqTail]
  BY DEF PrepTimed, kVars, cqVars, Unread, Cursor
<1>3. /\ Pending' = Pending \cup {sqTail} /\ sqTail \notin Pending
      /\ sqe'[SqSlot(sqTail)] = Null
      /\ \A i \in Pending : sqe'[SqSlot(i)] = sqe[SqSlot(i)]
  BY <1>1, <1>2, TakeView
<1>4. co[c] = "running"
  BY <1>2, RunningHasNone
<1>5. InKernel' = InKernel /\ \A i : Posted(i)' = Posted(i)
  BY <1>2 DEF InKernel, Posted
<1>6. \A d \in Coros, id \in Nat : Carrier(id, d)' <=> Carrier(id, d)
  BY <1>2, <1>3, <1>5 DEF Carrier
<1>7. \A d \in Coros : waits'[d] = IF d = c THEN sqTail ELSE waits[d]
  BY <1>1, <1>2 DEF TypeOK
<1>8. \A d \in Coros, id \in Nat : Awaits(d, id)' <=> Awaits(d, id)
  BY <1>2, <1>4, <1>7 DEF Awaits
<1>9. Linked'
  <2>1. sqTail' = sqTail + 1
    BY <1>2 DEF TakeSqe
  <2>2. sqTail' - 1 = sqTail /\ sqTail' # 0
    BY <1>1, <2>1
  <2>3. stack' # <<>> /\ Head(stack') = c
    BY <1>2 DEF Running
  <2> QED
    BY <1>3, <1>7, <2>2, <2>3 DEF Linked
<1> QED
  BY <1>1, <1>2, <1>6, <1>8, <1>9 DEF TokenInv

\* The second half puts the token in the first sqe of the pair if that is still
\* pending.  If a flush has consumed it, the token is nowhere.
LEMMA TokenLink ==
    ASSUME SafeInv, NEW c \in Coros, LinkTimeoutAndAwait(c)
    PROVE  TokenInv'
<1>1. /\ TypeOK /\ RingInv /\ TokenInv
      /\ sqTail \in Nat /\ sqHead \in Nat /\ sqHead <= sqTail /\ sqTail - sqHead < SqEntries
  BY DEF SafeInv, TypeOK, RingInv, LinkTimeoutAndAwait, SqFull
<1>2. PICK w \in Nat : w = waits[c]
  BY <1>1 DEF TypeOK
<1>3. /\ Running(c) /\ phase = "linked" /\ phase' = "free" /\ sqTail' = sqTail + 1
      /\ sqe' = [sqe EXCEPT ![SqSlot(sqTail)] = Null, ![SqSlot(w)] = c]
      /\ split' = IF w < sqHead THEN split \cup {c} ELSE split
      /\ UNCHANGED <<sqHead, inflight, backlog, waits, cqes>> /\ Unread' = Unread
      /\ co' = [co EXCEPT ![c] = "suspended"]
  BY <1>2 DEF LinkTimeoutAndAwait, Suspend, kVars, cqVars, Unread, Cursor
<1>4. w = sqTail - 1 /\ (w \in Pending => sqe[SqSlot(w)] = Null)
  BY <1>1, <1>2, <1>3 DEF TokenInv, Linked, Running
<1>5. co[c] = "running" /\ c \notin split /\ \A id \in Nat : ~Carrier(id, c)
  BY <1>3, RunningHasNone
<1>6. Pending' = Pending \cup {sqTail} /\ sqTail \notin Pending /\ \A i \in Pending : i \in Nat
  BY <1>1, <1>3 DEF Pending
<1>7. SqSlot(w) # SqSlot(sqTail)
  <2>1. SqEntries \in Nat \ {0} /\ w < sqTail /\ sqTail - w < SqEntries
    BY <1>1, <1>2, <1>4
  <2> QED
    BY <1>1, <2>1, DistinctSlots DEF SqSlot
<1>8. \A i \in Pending : SqSlot(i) # SqSlot(sqTail) /\ (i # w => SqSlot(i) # SqSlot(w))
  <2>1. SqEntries \in Nat \ {0}
    OBVIOUS
  <2>2. \A i \in Pending : i < sqTail /\ sqTail - i < SqEntries /\ (i # w => i < w /\ w - i < SqEntries)
    BY <1>1, <1>2, <1>4 DEF Pending
  <2> QED
    BY <1>1, <1>6, <2>1, <2>2, DistinctSlots DEF SqSlot
<1>9. /\ SqSlot(w) \in DOMAIN sqe /\ SqSlot(sqTail) \in DOMAIN sqe
      /\ \A i \in Pending : SqSlot(i) \in DOMAIN sqe
  <2>1. DOMAIN sqe = 0 .. SqEntries - 1
    BY <1>1 DEF TypeOK
  <2> QED
    BY <1>1, <1>6, <2>1, SlotsInRange
<1>10. /\ sqe'[SqSlot(sqTail)] = Null /\ sqe'[SqSlot(w)] = c
       /\ \A i \in Pending : i # w => sqe'[SqSlot(i)] = sqe[SqSlot(i)]
  BY <1>3, <1>7, <1>8, <1>9
<1>11. InKernel' = InKernel /\ \A i : Posted(i)' = Posted(i)
  BY <1>3 DEF InKernel, Posted
<1>12. \A d \in Coros, id \in Nat :
           Carrier(id, d)' <=> (Carrier(id, d) \/ (w \in Pending /\ id = w /\ d = c))
  BY <1>3, <1>4, <1>6, <1>10, <1>11 DEF Carrier
<1>13. \A d \in Coros : co'[d] = IF d = c THEN "suspended" ELSE co[d]
  BY <1>1, <1>3 DEF TypeOK
<1>14. w \in Pending <=> ~(w < sqHead)
  BY <1>1, <1>4 DEF Pending
<1>15. \A d \in Coros, id \in Nat : d # c => (Awaits(d, id)' <=> Awaits(d, id))
  BY <1>3, <1>13 DEF Awaits
<1>16. \A id \in Nat : Awaits(c, id)' <=> (w \in Pending /\ id = w)
  BY <1>2, <1>3, <1>5, <1>13, <1>14 DEF Awaits
<1>17. \A d \in split' : co'[d] = "suspended"
  BY <1>1, <1>3, <1>13 DEF TokenInv, TypeOK
<1>18. \A d \in Coros, id \in Nat : Carrier(id, d)' <=> Awaits(d, id)'
  BY <1>1, <1>5, <1>12, <1>15, <1>16 DEF TokenInv
<1> QED
  BY <1>3, <1>17, <1>18 DEF TokenInv

\* Starting or finishing a coroutine concerns no token.
LEMMA TokenStartFinish ==
    ASSUME SafeInv, NEW c \in Coros, Start(c) \/ Finish(c)
    PROVE  TokenInv'
<1>1. TypeOK /\ TokenInv /\ phase = "free" /\ phase' = "free"
  BY DEF SafeInv, Start, Finish
<1>2. /\ UNCHANGED <<sqe, sqHead, sqTail, inflight, backlog, split, waits, cqes>>
      /\ Unread' = Unread
  BY DEF Start, Finish, sqVars, kVars, cqVars, Unread, Cursor
<1>3. \A d \in Coros, id \in Nat : Carrier(id, d)' <=> Carrier(id, d)
  BY <1>2 DEF Carrier, Pending, InKernel, Posted
<1>4. co[c] # "suspended" /\ \E v \in {"running", "done"} : co' = [co EXCEPT ![c] = v]
  <2>1. CASE Start(c)
    BY <2>1 DEF Start
  <2>2. CASE Finish(c)
    BY <2>2, RunningHasNone DEF Finish
  <2> QED
    BY <2>1, <2>2
<1>5. \A d \in Coros : co'[d] = "suspended" <=> co[d] = "suspended"
  BY <1>1, <1>4 DEF TypeOK
<1>6. \A d \in Coros, id \in Nat : Awaits(d, id)' <=> Awaits(d, id)
  BY <1>2, <1>5 DEF Awaits
<1>7. \A d \in split' : co'[d] = "suspended"
  BY <1>1, <1>2, <1>5 DEF TokenInv, TypeOK
<1> QED
  BY <1>1, <1>3, <1>6, <1>7 DEF TokenInv

\* Every step of the system keeps the tokens accounted for.
LEMMA TokenStep == SafeInv /\ [Next]_vars => TokenInv'
<1> SUFFICES ASSUME SafeInv, [Next]_vars PROVE TokenInv'
  OBVIOUS
<1>1. TypeOK /\ RingInv /\ IdInv /\ TokenInv /\ sqHead \in Nat
  BY DEF SafeInv, TypeOK
<1>2. ASSUME UNCHANGED <<sqe, sqHead, sqTail, inflight, backlog, cqes, stack, co, waits, split, phase>>,
             Unread' = Unread
      PROVE  TokenInv'
  <2>1. \A d \in Coros, id \in Nat : Carrier(id, d)' <=> Carrier(id, d)
    BY <1>2 DEF Carrier, Pending, InKernel, Posted
  <2> QED
    BY <1>1, <1>2, <2>1, TokenMoves
<1>3. ASSUME NEW r \in inflight, Complete(r) PROVE TokenInv'
  <2>1. r \notin backlog
    BY <1>1, <1>3 DEF IdInv
  <2>2. CASE PostCqe(r) /\ UNCHANGED backlog
    BY <1>3, <2>1, <2>2, TokenPost DEF Complete, InKernel
  <2>3. CASE backlog' = backlog \cup {r} /\ UNCHANGED <<sqVars, cqVars, pc, coVars>>
    <3>1. InKernel' = InKernel
      BY <1>3, <2>3 DEF Complete, InKernel
    <3>2. /\ UNCHANGED <<sqe, sqHead, sqTail, cqes, stack, co, waits, split, phase>>
          /\ Unread' = Unread
      BY <2>3 DEF sqVars, cqVars, coVars, Unread, Cursor
    <3>3. \A d \in Coros, id \in Nat : Carrier(id, d)' <=> Carrier(id, d)
      BY <3>1, <3>2 DEF Carrier, Pending, Posted
    <3> QED
      BY <1>1, <3>2, <3>3, TokenMoves
  <2> QED
    BY <1>3, <2>2, <2>3 DEF Complete
<1>4. ASSUME NEW r \in backlog, FlushBacklog(r) PROVE TokenInv'
  <2>1. InKernel' = InKernel \ {r}
    BY <1>1, <1>4 DEF FlushBacklog, InKernel, IdInv
  <2> QED
    BY <1>4, <2>1, TokenPost DEF FlushBacklog, InKernel
<1>5. ASSUME Unread' = Unread /\ UNCHANGED cqes PROVE TokenInv'
  <2>1. ASSUME NEW c \in Coros, WaitForCompletions \/ GetSqeFlush(c) PROVE TokenInv'
    BY <1>5, <2>1, TokenSubmit DEF WaitForCompletions, GetSqeFlush, coVars
  <2>2. CASE WaitForCompletions
    BY <1>5, <2>2, TokenSubmit DEF WaitForCompletions, coVars
  <2>3. ASSUME NEW b \in BOOLEAN, StartHandle(b) PROVE TokenInv'
    BY <1>2, <1>5, <2>3 DEF StartHandle, sqVars, kVars, coVars
  <2>4. CASE EndHandle
    BY <1>2, <1>5, <2>4 DEF EndHandle, sqVars, kVars, coVars
  <2>5. CASE UNCHANGED vars
    BY <1>2, <1>5, <2>5 DEF vars, sqVars, kVars, coVars
  <2> QED
    BY <1>3, <1>4, <2>1, <2>2, <2>3, <2>4, <2>5,
       TokenHandle, TokenAwait, TokenPrep, TokenLink, TokenStartFinish
       DEF Next, Thread, Coroutine
<1> QED
  BY <1>1, <1>3, <1>4, <1>5, UnreadView, TokenHandle

\* The inductive invariant: types, ring accounting, ids, stack and tokens.
THEOREM Safety == Spec => []SafeInv
<1>1. Init => SafeInv
  <2>1. Init => TypeOK /\ RingInv
    BY DEF Init, TypeOK, RingInv, CqAccounting, Cursor, Data, Request
  <2>2. Init => Unread = {} /\ Pending = {} /\ InKernel = {}
    BY DEF Init, Unread, Pending, InKernel, Cursor
  <2>3. Init => IdInv /\ StackInv
    BY <2>2 DEF Init, IdInv, StackInv, InKernel
  <2>4. Init => TokenInv
    BY <2>2 DEF Init, TokenInv, Carrier, Awaits
  <2> QED
    BY <2>1, <2>3, <2>4 DEF SafeInv
<1>2. SafeInv /\ [Next]_vars => SafeInv'
  BY TypeStep, RingStep, IdStep, StackStep, TokenStep DEF SafeInv
<1> QED
  BY <1>1, <1>2, PTL DEF Spec

\* The inductive invariant leaves a suspended coroutine one carrier and the
\* others none.
LEMMA TokensConserved == SafeInv => TokenConservation
<1> SUFFICES ASSUME SafeInv, NEW c \in Coros
             PROVE  IF co[c] = "suspended" /\ c \notin split
                    THEN \E x \in Carriers(c) : Carriers(c) = {x}
                    ELSE Carriers(c) = {}
  BY DEF TokenConservation
<1>1. TypeOK /\ RingInv /\ IdInv /\ TokenInv /\ sqHead \in Nat
  BY DEF SafeInv, TypeOK
<1> DEFINE w == waits[c]
           q == [id |-> w, data |-> c]
           Ok == co[c] = "suspended" /\ c \notin split
           A == {<<"sq", i>> : i \in {j \in Pending : sqe[SqSlot(j)] = c}}
           B == {<<"inflight", r.id>> : r \in {p \in inflight : p.data = c}}
           C == {<<"backlog", r.id>> : r \in {p \in backlog : p.data = c}}
           D == {<<"cq", i>> : i \in {j \in Unread : cqes[CqSlot(j)].data = c}}
<1>2. w \in Nat /\ q.id = w /\ q.data = c
  BY <1>1 DEF TypeOK
<1>3. \A i \in Pending : sqe[SqSlot(i)] = c => Ok /\ i = w
  <2>1. \A i \in Pending : i \in Nat
    BY <1>1 DEF TypeOK, Pending
  <2> QED
    BY <1>1, <2>1 DEF TokenInv, Carrier, Awaits
<1>4. \A r \in InKernel : r.data = c => Ok /\ r = q
  <2>1. \A r \in InKernel : r.id \in Nat /\ r = [id |-> r.id, data |-> r.data]
    BY <1>1, RequestTypes DEF Request
  <2> QED
    BY <1>1, <2>1 DEF TokenInv, Carrier, Awaits
<1>5. \A i \in Unread : Posted(i).data = c => Ok /\ Posted(i) = q
  <2>1. \A i \in Unread : /\ Posted(i).id \in Nat
                          /\ Posted(i) = [id |-> Posted(i).id, data |-> Posted(i).data]
    BY <1>1, RequestTypes DEF Request
  <2> QED
    BY <1>1, <2>1 DEF TokenInv, Carrier, Awaits
<1>6. Carriers(c) = A \cup B \cup C \cup D
  BY DEF Carriers
<1>7. CASE ~Ok
  <2>1. A = {} /\ B = {} /\ C = {} /\ D = {}
    BY <1>3, <1>4, <1>5, <1>7 DEF InKernel, Posted
  <2> QED
    BY <1>6, <1>7, <2>1
<1>8. CASE Ok
  <2>1. Carrier(w, c)
    BY <1>1, <1>2, <1>8 DEF TokenInv, Awaits
  <2>2. w \in Pending => q \notin InKernel /\ \A i \in Unread : Posted(i) # q
    BY <1>1, <1>2 DEF IdInv, Pending
  <2>3. q \in InKernel => \A i \in Unread : Posted(i) # q
    BY <1>1 DEF IdInv
  <2>4. CASE w \in Pending /\ sqe[SqSlot(w)] = c
    <3>1. A = {<<"sq", w>>}
      BY <1>3, <2>4
    <3>2. B = {} /\ C = {} /\ D = {}
      BY <1>4, <1>5, <2>2, <2>4 DEF InKernel, Posted
    <3> QED
      BY <1>6, <1>8, <3>1, <3>2
  <2>5. CASE q \in InKernel
    <3>1. A = {} /\ D = {}
      BY <1>3, <1>5, <2>2, <2>3, <2>5 DEF Posted
    <3>2. CASE q \in inflight
      <4>1. B = {<<"inflight", w>>}
        BY <1>2, <1>4, <3>2 DEF InKernel
      <4>2. C = {}
        BY <1>1, <1>4, <3>2 DEF IdInv, InKernel
      <4> QED
        BY <1>6, <1>8, <3>1, <4>1, <4>2
    <3>3. CASE q \in backlog
      <4>1. C = {<<"backlog", w>>}
        BY <1>2, <1>4, <3>3 DEF InKernel
      <4>2. B = {}
        BY <1>1, <1>4, <3>3 DEF IdInv, InKernel
      <4> QED
        BY <1>6, <1>8, <3>1, <4>1, <4>2
    <3> QED
      BY <2>5, <3>2, <3>3 DEF InKernel
  <2>6. ASSUME NEW i \in Unread, Posted(i) = q
        PROVE  \E x \in Carriers(c) : Carriers(c) = {x}
    <3>1. A = {} /\ B = {} /\ C = {}
      BY <1>3, <1>4, <2>2, <2>3, <2>6 DEF InKernel
    <3>2. \A j \in Unread : Posted(j).data = c <=> j = i
      BY <1>1, <1>2, <1>5, <2>6 DEF IdInv
    <3>3. D = {<<"cq", i>>}
      BY <3>2 DEF Posted
    <3> QED
      BY <1>6, <3>1, <3>3
  <2> QED
    BY <1>8, <2>1, <2>4, <2>5, <2>6 DEF Carrier
<1> QED
  BY <1>7, <1>8

\* For every number of coroutines and every size of the rings: a suspended
\* coroutine has exactly one request that will resume it, unless its timed
\* operation was split; a coroutine that is not suspended has none.
THEOREM NoTokenLost == Spec => []TokenConservation
  BY Safety, TokensConserved, PTL

\* io_token::resolve resumes a coroutine only with the completion of the request
\* it awaits, whatever was submitted, posted and given back meanwhile.
THEOREM ResumedRight == Spec => ResumedByItsRequest
<1>1. ASSUME SafeInv, [Next]_vars, NEW c \in Coros, co[c] = "suspended", co'[c] # "suspended"
      PROVE  cqes[CqSlot(head)] = [id |-> waits[c], data |-> c]
  <2>1. TypeOK /\ RingInv /\ TokenInv
    BY <1>1 DEF SafeInv
  <2>2. co' # co
    BY <1>1
  <2>3. ASSUME NEW d \in Coros,
               Start(d) \/ AwaitOp(d) \/ LinkTimeoutAndAwait(d) \/ Finish(d)
        PROVE  FALSE
    <3>1. co[d] # "suspended" /\ \E v : co' = [co EXCEPT ![d] = v]
      <4>1. CASE Start(d)
        BY <4>1 DEF Start
      <4>2. CASE AwaitOp(d) \/ LinkTimeoutAndAwait(d) \/ Finish(d)
        BY <1>1, <4>2, RunningHasNone DEF AwaitOp, LinkTimeoutAndAwait, Finish, Suspend
      <4> QED
        BY <2>3, <4>1, <4>2
    <3> QED
      BY <1>1, <2>1, <3>1 DEF TypeOK
  <2>4. HandleCqe
    <3>1. ASSUME NEW b \in BOOLEAN, StartHandle(b) PROVE FALSE
      BY <2>2, <3>1 DEF StartHandle, coVars
    <3>2. ASSUME NEW d \in Coros, GetSqeFlush(d) \/ PrepTimed(d) PROVE FALSE
      BY <2>2, <3>2 DEF GetSqeFlush, PrepTimed, coVars
    <3>3. ASSUME NEW r, Complete(r) \/ FlushBacklog(r) PROVE FALSE
      BY <2>2, <3>3 DEF Complete, FlushBacklog, PostCqe, coVars
    <3>4. ASSUME WaitForCompletions \/ EndHandle \/ UNCHANGED vars PROVE FALSE
      BY <2>2, <3>4 DEF WaitForCompletions, EndHandle, vars, coVars
    <3> QED
      BY <1>1, <2>3, <3>1, <3>2, <3>3, <3>4 DEF Next, Thread, Coroutine
  <2>5. head \in Unread
    BY <2>1, <2>4, ReadView
  <2>6. Posted(head).data = c
    BY <1>1, <2>1, <2>4 DEF HandleCqe, Posted, TypeOK
  <2>7. Posted(head).id \in Nat /\ Posted(head) = [id |-> Posted(head).id, data |-> c]
    BY <2>1, <2>5, <2>6, RequestTypes DEF Request
  <2>8. Carrier(Posted(head).id, c)
    BY <2>5, <2>7 DEF Carrier
  <2>9. waits[c] = Posted(head).id
    BY <2>1, <2>7, <2>8 DEF TokenInv, Awaits
  <2> QED
    BY <2>7, <2>9 DEF Posted
<1>2. SafeInv /\ [Next]_vars =>
        [\A c \in Coros : co[c] = "suspended" /\ co'[c] # "suspended"
            => cqes[CqSlot(head)] = [id |-> waits[c], data |-> c]]_vars
  BY <1>1
<1> QED
  BY <1>2, Safety, PTL DEF Spec, ResumedByItsRequest
=============================================================================
