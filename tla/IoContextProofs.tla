-------------------------- MODULE IoContextProofs --------------------------
(***************************************************************************)
(* Proofs about IoContext: a request is in one place at a time and the     *)
(* timer coroutine never has two timeouts outstanding.                     *)
(***************************************************************************)
EXTENDS IoContext, WellFoundedInduction, TLAPS

\* What the assumption on the constants says of each of them.
LEMMA Bounds ==
    /\ MaxTime \in Nat /\ MaxRuns \in Nat /\ MaxCalls \in Nat /\ MaxSignals \in Nat
    /\ StopMsg \in Nat /\ EvMax \in Nat /\ 1 < StopMsg /\ StopMsg <= EvMax
    /\ Delays \subseteq Nat
BY IoContextAssumption DEF IoContextAssumption, WakeupMsg

\* The values of timer_event_ are apart.
LEMMA RunNumbers == \A k \in Runs : k \in Nat /\ k > 0 /\ k # Unset /\ k # Set
BY Bounds DEF Runs, Unset, Set

Outstanding == sq \cup kern \cup {c.req : c \in cq}

-----------------------------------------------------------------------------
(* The inductive invariant.                                                *)

\* A request is in one place.
Apart ==
    /\ sq \cap kern = {}
    /\ \A c \in cq : c.req \notin sq \cup kern
    /\ \A c, e \in cq : c.req = e.req => c = e

\* A timer coroutine is armed while it has a timeout outstanding.
ArmedInv == \A k \in Runs : (tmCo[k] = "armed") <=> (Req("timer", k) \in Outstanding)

\* timer_event_ points at the timer coroutine that waits on it.
EventInv == \A k \in Runs : (event = k) <=> (tmCo[k] = "waiting")

\* A call of run() starts its coroutines afresh.
FreshInv ==
    \A k \in Runs : k > run => /\ tmCo[k] = "none"
                               /\ Req("event", k) \notin Outstanding
                               /\ Req("signal", k) \notin Outstanding

\* The timer coroutine is the last that run() starts, and the one that is in
\* handle_events has no timeout outstanding and does not wait.  Nothing is
\* detached from the timer queue outside handle_events.
RunInv ==
    /\ pc = "first todo" => run \in Runs /\ tmCo[run] = "none"
    /\ pc = "events" => handler \in Runs /\ tmCo[handler] = "running" /\ stamp <= now
    /\ pc # "events" => batch = {}

\* A coroutine has an I/O request outstanding while it waits for it.
IoInv == \A t \in Tasks : (where[t] = "io") <=> (Req("io", t) \in Outstanding)

\* s lists each of its coroutines once, and they are all at the place p.
Lists(s, p, w) ==
    /\ \A i, j \in 1 .. Len(s) : s[i] = s[j] => i = j
    /\ \A i \in 1 .. Len(s) : w[s[i]] = p

\* The stack and the two todo lists.
ListInv ==
    /\ Lists(stack, "running", where)
    /\ Lists(todo, "todo", where)
    /\ Lists(local, "todo", where)
    /\ \A i \in 1 .. Len(todo), j \in 1 .. Len(local) : todo[i] # local[j]
    /\ pc \notin {"first todo", "todo"} => local = <<>>

\* The parts that speak of the rings and of the timer coroutines.
RingInv == Apart /\ ArmedInv /\ EventInv /\ FreshInv

IInv == TypeOK /\ RingInv /\ RunInv /\ IoInv /\ ListInv

-----------------------------------------------------------------------------
(* The deadlines.                                                          *)

\* The least-number principle, for sets.
LEMMA LeastNumber ==
    ASSUME NEW S \in SUBSET Nat, S # {}
    PROVE  \E x \in S : \A y \in S : ~(y < x)
<1>1. PICK x \in S : \A y \in S : ~(<<y, x>> \in OpToRel(<, Nat))
  BY NatLessThanWellFounded, WFMin
<1>2. OpToRel(<, Nat) = {ss \in Nat \X Nat : ss[1] < ss[2]}
  BY DEF OpToRel
<1>3. \A y \in S : <<y, x>> \in Nat \X Nat /\ ~(y < x)
  BY <1>1, <1>2
<1> QED
  BY <1>3

\* A non-empty set of instants has an earliest one, and Earliest finds it.
LEMMA EarliestExists ==
    ASSUME NEW S \in SUBSET (0 .. MaxTime), S # {}
    PROVE  Earliest(S) \in 0 .. MaxTime
<1>1. S \in SUBSET Nat
  BY Bounds
<1>2. PICK x \in S : \A y \in S : ~(y < x)
  BY <1>1, LeastNumber
<1>3. \A y \in S : x <= y
  BY <1>1, <1>2
<1> QED
  BY <1>3 DEF Earliest

\* What the timer coroutine does from its inner loop to its next suspension.
TimerMoves(k) ==
    \/ /\ tmCo' = [tmCo EXCEPT ![k] = "armed"] /\ event' = event
       /\ armedAt' \in [Runs -> 0 .. MaxTime] /\ sq' = sq \cup {Req("timer", k)}
    \/ /\ tmCo' = [tmCo EXCEPT ![k] = "ended"] /\ event \in {Unset, Set} /\ event' = Unset
       /\ UNCHANGED <<armedAt, sq>>
    \/ /\ tmCo' = [tmCo EXCEPT ![k] = "waiting"] /\ event \in {Unset, Set} /\ event' = k
       /\ UNCHANGED <<armedAt, sq>>
    \/ /\ tmCo' = [tmCo EXCEPT ![k] = "aborted"] /\ event' = event
       /\ UNCHANGED <<armedAt, sq>>

\* The timeout that ArmTimer prepares is an interval of the model.
LEMMA ArmTimerType ==
    ASSUME TypeOK, NEW k \in Runs, NEW ds \in SUBSET (0 .. MaxTime), ds # {}, ArmTimer(k, ds)
    PROVE  armedAt' \in [Runs -> 0 .. MaxTime]
<1>1. Earliest(ds) \in 0 .. MaxTime
  BY EarliestExists
<1>2. now \in 0 .. MaxTime /\ armedAt \in [Runs -> 0 .. MaxTime] /\ MaxTime \in Nat
  BY Bounds DEF TypeOK
<1>3. (IF Earliest(ds) > now THEN Earliest(ds) - now ELSE 0) \in 0 .. MaxTime
  BY <1>1, <1>2
<1> QED
  BY <1>2, <1>3 DEF ArmTimer

LEMMA InnerLoopMoves ==
    ASSUME TypeOK, NEW k \in Runs, TimerInnerLoop(k)
    PROVE  TimerMoves(k)
<1>1. CASE Sleeping # {}
  <2>1. Deadlines(where, due) \in SUBSET (0 .. MaxTime) /\ Deadlines(where, due) # {}
    <3>1. due \in [Tasks -> 0 .. MaxTime]
      BY DEF TypeOK
    <3>2. PICK t \in Tasks : where[t] = "sleep"
      BY <1>1 DEF Sleeping
    <3> QED
      BY <3>1, <3>2 DEF Deadlines
  <2>2. ArmTimer(k, Deadlines(where, due)) /\ event' = event
    BY <1>1 DEF TimerInnerLoop
  <2> QED
    BY <2>1, <2>2, ArmTimerType DEF ArmTimer, TimerMoves
<1>2. CASE Sleeping = {}
  <2>1. AwaitTimerEvent(k)
    BY <1>2 DEF TimerInnerLoop
  <2>2. CASE event = Set /\ stopped
    BY <2>1, <2>2 DEF AwaitTimerEvent, TimerEnds, TimerMoves, Set, Unset
  <2>3. CASE event = Unset \/ (event = Set /\ ~stopped)
    BY <2>1, <2>3 DEF AwaitTimerEvent, TimerMoves, Set, Unset
  <2>4. CASE event \notin {Set, Unset}
    BY <2>1, <2>4 DEF AwaitTimerEvent, TimerMoves, Set, Unset
  <2> QED
    BY <2>2, <2>3, <2>4
<1> QED
  BY <1>1, <1>2

\* What an insertion does to the timer coroutine.
EventSets ==
    \/ event \in {Unset, Set} /\ event' = Set /\ UNCHANGED <<tmCo, armedAt, sq>>
    \/ /\ event \in Runs /\ event' = Unset
       /\ \/ tmCo' = [tmCo EXCEPT ![event] = "ended"] /\ UNCHANGED <<armedAt, sq>>
          \/ /\ tmCo' = [tmCo EXCEPT ![event] = "armed"]
             /\ armedAt' \in [Runs -> 0 .. MaxTime] /\ sq' = sq \cup {Req("timer", event)}

LEMMA SetMoves ==
    ASSUME TypeOK, NEW ds \in SUBSET (0 .. MaxTime), ds # {}, SetTimerEvent(ds)
    PROVE  EventSets
<1>1. CASE event \in {Unset, Set}
  BY <1>1 DEF SetTimerEvent, EventSets
<1>2. CASE event \in Runs /\ stopped
  BY <1>2, RunNumbers DEF SetTimerEvent, EventSets, TimerEnds
<1>3. CASE event \in Runs /\ ~stopped
  <2>1. event' = Unset /\ ArmTimer(event, ds)
    BY <1>3, RunNumbers DEF SetTimerEvent
  <2> QED
    BY <1>3, <2>1, ArmTimerType DEF ArmTimer, EventSets
<1> QED
  BY <1>1, <1>2, <1>3 DEF TypeOK

LEMMA SleepMoves ==
    ASSUME TypeOK, NEW t \in Tasks, NEW d \in Delays, Sleep(t, d)
    PROVE  EventSets /\ now + d \in 0 .. MaxTime
<1>1. now + d \in 0 .. MaxTime
  <2>1. now \in 0 .. MaxTime
    BY DEF TypeOK
  <2>2. now + d <= MaxTime
    BY DEF Sleep
  <2> QED
    BY <2>1, <2>2, Bounds
<1>2. due' \in [Tasks -> 0 .. MaxTime] /\ where'[t] = "sleep"
  BY <1>1 DEF Sleep, TypeOK
<1>3. Deadlines(where', due') \in SUBSET (0 .. MaxTime) /\ Deadlines(where', due') # {}
  BY <1>2 DEF Deadlines
<1> QED
  BY <1>1, <1>3, SetMoves DEF Sleep

-----------------------------------------------------------------------------
(* The rings as sets of requests.                                          *)

LEMMA Prepare ==
    ASSUME Apart, NEW r, r \notin Outstanding, sq' = sq \cup {r}, UNCHANGED <<kern, cq>>
    PROVE  Apart' /\ Outstanding' = Outstanding \cup {r}
BY DEF Apart, Outstanding

LEMMA PrepareAll ==
    ASSUME Apart, NEW R, R \cap Outstanding = {}, sq' = sq \cup R, UNCHANGED <<kern, cq>>
    PROVE  Apart' /\ Outstanding' = Outstanding \cup R
BY DEF Apart, Outstanding

LEMMA Submit ==
    ASSUME Apart, kern' = kern \cup sq, sq' = {}, UNCHANGED cq
    PROVE  Apart' /\ Outstanding' = Outstanding
BY DEF Apart, Outstanding

LEMMA PostMoves ==
    ASSUME Apart, NEW r \in kern, NEW res, kern' = kern \ {r}, cq' = cq \cup {Cqe(r, res)},
           UNCHANGED sq
    PROVE  Apart' /\ Outstanding' = Outstanding
<1>1. Cqe(r, res).req = r
  BY DEF Cqe
<1>2. \A c \in cq : c.req # r
  BY DEF Apart
<1>3. Apart'
  BY <1>1, <1>2 DEF Apart
<1>4. {c.req : c \in cq'} = {c.req : c \in cq} \cup {r}
  BY <1>1
<1> QED
  BY <1>3, <1>4 DEF Outstanding

LEMMA Take ==
    ASSUME Apart, NEW c \in cq, cq' = cq \ {c}, UNCHANGED <<sq, kern>>
    PROVE  /\ Apart' /\ Outstanding' = Outstanding \ {c.req}
           /\ c.req \in Outstanding
<1>1. {e.req : e \in cq'} = {e.req : e \in cq} \ {c.req}
  BY DEF Apart
<1>2. c.req \notin sq \cup kern /\ c.req \in Outstanding
  BY DEF Apart, Outstanding
<1>3. Apart'
  BY DEF Apart
<1> QED
  BY <1>1, <1>2, <1>3 DEF Outstanding

LEMMA TakeAndPrepare ==
    ASSUME Apart, NEW c \in cq, cq' = cq \ {c}, sq' = sq \cup {c.req}, UNCHANGED kern
    PROVE  /\ Apart' /\ Outstanding' = Outstanding
           /\ c.req \in Outstanding
<1>1. {e.req : e \in cq'} = {e.req : e \in cq} \ {c.req}
  BY DEF Apart
<1>2. c.req \in Outstanding
  BY DEF Outstanding
<1>3. Apart'
  BY DEF Apart
<1> QED
  BY <1>1, <1>2, <1>3 DEF Outstanding

\* A request is told by its kind and its owner.
LEMMA ReqNames ==
    /\ \A a, b, v, w : (Req(a, v) = Req(b, w)) <=> (a = b /\ v = w)
    /\ \A k \in Runs, kind \in {"timer", "event", "signal"} : Req(kind, k) \in Requests
    /\ \A t \in Tasks : Req("io", t) \in Requests
    /\ \A r \in Requests : r = Req(r.kind, r.who)
    /\ \A r \in Requests : r.kind \in {"timer", "event", "signal"} => r.who \in Runs
    /\ \A r \in Requests : r.kind = "io" => r.who \in Tasks
BY DEF Req, Requests

-----------------------------------------------------------------------------
(* Lists.                                                                  *)

LEMMA ListsKept ==
    ASSUME NEW s \in Seq(Tasks), NEW p, NEW w, NEW v, Lists(s, p, w),
           \A t \in Tasks : w[t] = p => v[t] = p
    PROVE  Lists(s, p, v)
BY DEF Lists

LEMMA ListsTail ==
    ASSUME NEW s \in Seq(Tasks), s # <<>>, NEW p, NEW w \in [Tasks -> Places], Lists(s, p, w), NEW q
    PROVE  /\ Head(s) \in Tasks /\ w[Head(s)] = p
           /\ Tail(s) \in Seq(Tasks)
           /\ \A i \in 1 .. Len(Tail(s)) : i + 1 \in 1 .. Len(s) /\ Tail(s)[i] = s[i + 1]
           /\ Lists(Tail(s), p, [w EXCEPT ![Head(s)] = q])
<1>1. /\ Len(s) \in Nat /\ Len(s) > 0 /\ Head(s) = s[1] /\ Tail(s) \in Seq(Tasks)
      /\ Len(Tail(s)) = Len(s) - 1
      /\ \A i \in 1 .. Len(Tail(s)) : i + 1 \in 1 .. Len(s) /\ Tail(s)[i] = s[i + 1]
  OBVIOUS
<1>2. Head(s) \in Tasks /\ w[Head(s)] = p
  BY <1>1 DEF Lists
<1>3. \A i \in 1 .. Len(Tail(s)) : Tail(s)[i] # Head(s) /\ Tail(s)[i] \in Tasks /\ w[Tail(s)[i]] = p
  BY <1>1 DEF Lists
<1>4. \A i, j \in 1 .. Len(Tail(s)) : Tail(s)[i] = Tail(s)[j] => i = j
  BY <1>1 DEF Lists
<1> QED
  BY <1>1, <1>2, <1>3, <1>4 DEF Lists

LEMMA ListsOne ==
    ASSUME NEW t \in Tasks, NEW p, NEW w, w[t] = p
    PROVE  <<t>> \in Seq(Tasks) /\ Lists(<<t>>, p, w)
BY DEF Lists

LEMMA ListsAppend ==
    ASSUME NEW s \in Seq(Tasks), NEW p, NEW w, Lists(s, p, w), NEW t \in Tasks, w[t] # p,
           NEW v, v[t] = p, \A u \in Tasks : w[u] = p => v[u] = p
    PROVE  Append(s, t) \in Seq(Tasks) /\ Lists(Append(s, t), p, v)
BY DEF Lists

LEMMA ListsPush ==
    ASSUME NEW s \in Seq(Tasks), NEW p, NEW w, Lists(s, p, w), NEW t \in Tasks, w[t] # p,
           NEW v, v[t] = p, \A u \in Tasks : w[u] = p => v[u] = p
    PROVE  <<t>> \o s \in Seq(Tasks) /\ Lists(<<t>> \o s, p, v)
<1>1. /\ <<t>> \in Seq(Tasks) /\ <<t>> \o s \in Seq(Tasks)
      /\ Len(<<t>> \o s) = Len(s) + 1 /\ Len(s) \in Nat
      /\ \A i \in 1 .. Len(s) + 1 : (<<t>> \o s)[i] = IF i = 1 THEN t ELSE s[i - 1]
  OBVIOUS
<1>2. \A i \in 1 .. Len(s) : s[i] # t /\ v[s[i]] = p
  BY DEF Lists
<1>3. \A i \in 1 .. Len(s) + 1 : i = 1 \/ i - 1 \in 1 .. Len(s)
  BY <1>1
<1>4. \A i \in 1 .. Len(s) + 1 : v[(<<t>> \o s)[i]] = p
  BY <1>1, <1>2, <1>3
<1>5. \A i, j \in 1 .. Len(s) : s[i] = s[j] => i = j
  BY DEF Lists
<1>6. \A i, j \in 1 .. Len(s) + 1 : (<<t>> \o s)[i] = (<<t>> \o s)[j] => i = j
  <2> SUFFICES ASSUME NEW i \in 1 .. Len(s) + 1, NEW j \in 1 .. Len(s) + 1,
                      (<<t>> \o s)[i] = (<<t>> \o s)[j]
               PROVE  i = j
    OBVIOUS
  <2>1. CASE i = 1 /\ j = 1
    BY <2>1
  <2>2. CASE i = 1 /\ j # 1
    BY <1>1, <1>2, <1>3, <2>2
  <2>3. CASE i # 1 /\ j = 1
    BY <1>1, <1>2, <1>3, <2>3
  <2>4. CASE i # 1 /\ j # 1
    <3>1. s[i - 1] = s[j - 1] /\ i - 1 \in 1 .. Len(s) /\ j - 1 \in 1 .. Len(s)
      BY <1>1, <1>3, <2>4
    <3>2. i - 1 = j - 1
      BY <1>5, <3>1
    <3> QED
      BY <1>1, <3>2
  <2> QED
    BY <2>1, <2>2, <2>3, <2>4
<1> QED
  BY <1>1, <1>4, <1>6 DEF Lists

-----------------------------------------------------------------------------
(* The invariant is preserved, action by action.                           *)

\* What each part of the invariant depends on.
LEMMA RingSame ==
    ASSUME RingInv, Apart', Outstanding' = Outstanding, UNCHANGED <<run, tmCo, event>>
    PROVE  RingInv'
BY DEF RingInv, ArmedInv, EventInv, FreshInv

LEMMA RingFrame ==
    ASSUME RingInv, UNCHANGED <<run, tmCo, event, sq, kern, cq>>
    PROVE  RingInv' /\ Outstanding' = Outstanding
<1>1. Outstanding' = Outstanding
  BY DEF Outstanding
<1>2. Apart'
  BY DEF RingInv, Apart
<1> QED
  BY <1>1, <1>2, RingSame

LEMMA IoFrame ==
    ASSUME IoInv, \A t \in Tasks : (where'[t] = "io") <=> (where[t] = "io"),
           \A t \in Tasks : (Req("io", t) \in Outstanding') <=> (Req("io", t) \in Outstanding)
    PROVE  IoInv'
BY DEF IoInv

LEMMA ListFrame ==
    ASSUME ListInv, UNCHANGED <<stack, todo, local, where>>,
           local = <<>> \/ pc' \in {"first todo", "todo"}
    PROVE  ListInv'
BY DEF ListInv

LEMMA Times ==
    ASSUME TypeOK
    PROVE  now \in Nat /\ stamp \in Nat /\ now <= MaxTime
<1>1. now \in 0 .. MaxTime /\ stamp \in 0 .. MaxTime
  BY DEF TypeOK
<1> QED
  BY <1>1, Bounds

\* The steps that touch neither a ring, nor a timer coroutine, nor a list.
LEMMA QuietStep ==
    ASSUME IInv, TypeOK', UNCHANGED <<run, todo, local, stack, where, handler, stamp, batch>>,
           UNCHANGED <<tmCo, event, sq, kern, cq>>, now <= now',
           \/ pc' = pc
           \/ pc # "events" /\ pc' \in {"out", "test", "wait", "handle"} /\ local = <<>>
    PROVE  IInv'
<1>1. RingInv' /\ Outstanding' = Outstanding
  BY RingFrame DEF IInv
<1>2. IoInv'
  BY <1>1, IoFrame DEF IInv
<1>3. ListInv'
  BY ListFrame DEF IInv, ListInv
<1>4. stamp \in Nat /\ now \in Nat /\ now' \in Nat
  <2>1. now' \in 0 .. MaxTime
    BY DEF TypeOK
  <2> QED
    BY <2>1, Bounds, Times DEF IInv
<1>5. RunInv'
  <2>1. pc' = "first todo" => pc = "first todo"
    OBVIOUS
  <2>2. (pc' = "events") <=> (pc = "events")
    OBVIOUS
  <2>3. stamp <= now => stamp <= now'
    BY <1>4
  <2> QED
    BY <2>1, <2>2, <2>3 DEF IInv, RunInv
<1> QED
  BY <1>1, <1>2, <1>3, <1>5 DEF IInv

LEMMA LoopQuiet ==
    ASSUME IInv, EndTodo \/ RunReturns \/ StartHandle(TRUE) \/ StartHandle(FALSE)
    PROVE  IInv'
<1>1. /\ pc # "events" /\ pc' \in {"out", "test", "wait", "handle"}
      /\ UNCHANGED <<timeVars, run, stopped, todo, local, taskVars, popVars, timerVars, ringVars, fdVars>>
      /\ local = <<>>
  BY DEF EndTodo, RunReturns, StartHandle, IInv, ListInv
<1>2. now <= now'
  BY <1>1, Times DEF IInv, timeVars
<1>3. TypeOK'
  BY <1>1 DEF IInv, TypeOK, timeVars, taskVars, popVars, timerVars, ringVars, fdVars
<1> QED
  BY <1>1, <1>2, <1>3, QuietStep DEF taskVars, popVars, timerVars, ringVars

LEMMA StopHereStep ==
    ASSUME IInv, NEW t \in Tasks, StopHere(t)
    PROVE  IInv'
<1>1. UNCHANGED <<timeVars, pc, run, todo, local, taskVars, popVars, timerVars, ringVars, fdVars>>
  BY DEF StopHere
<1>2. TypeOK'
  BY <1>1 DEF IInv, TypeOK, StopHere, timeVars, taskVars, popVars, timerVars, ringVars, fdVars
<1>3. now <= now'
  BY <1>1, Times DEF IInv, timeVars
<1> QED
  BY <1>1, <1>2, <1>3, QuietStep DEF taskVars, popVars, timerVars, ringVars

LEMMA TickStep ==
    ASSUME IInv, Tick
    PROVE  IInv'
<1>1. UNCHANGED <<loopVars, taskVars, popVars, timerVars, ringVars, fdVars>>
  BY DEF Tick
<1>2. now \in 0 .. MaxTime /\ now < MaxTime /\ now' = now + 1
  BY DEF Tick, IInv, TypeOK
<1>3. now' \in 0 .. MaxTime /\ now <= now'
  BY <1>2, Bounds
<1>4. TypeOK'
  BY <1>1, <1>3 DEF IInv, TypeOK, loopVars, taskVars, popVars, timerVars, ringVars, fdVars
<1> QED
  BY <1>1, <1>3, <1>4, QuietStep DEF loopVars, taskVars, popVars, timerVars, ringVars

LEMMA CallerStep ==
    ASSUME IInv, NEW p \in Callers, Notify(p, StopMsg) \/ Notify(p, WakeupMsg) \/ Write(p)
    PROVE  IInv'
<1>1. UNCHANGED <<timeVars, loopVars, taskVars, popVars, timerVars, ringVars, signals>>
  BY DEF Notify, Write
<1>2. /\ evCount \in 0 .. EvMax /\ writing \in [Callers -> {0, WakeupMsg, StopMsg}]
      /\ calls \in [Callers -> 0 .. MaxCalls]
  BY DEF IInv, TypeOK
<1>3. ASSUME NEW msg \in {StopMsg, WakeupMsg}, Notify(p, msg)
      PROVE  /\ evCount' \in 0 .. EvMax /\ writing' \in [Callers -> {0, WakeupMsg, StopMsg}]
             /\ calls' \in [Callers -> 0 .. MaxCalls]
  BY <1>2, <1>3, Bounds DEF Notify
<1>4. ASSUME Write(p)
      PROVE  /\ evCount' \in 0 .. EvMax /\ writing' \in [Callers -> {0, WakeupMsg, StopMsg}]
             /\ calls' \in [Callers -> 0 .. MaxCalls]
  BY <1>2, <1>4, Bounds DEF Write, WakeupMsg
<1>5. TypeOK'
  BY <1>1, <1>3, <1>4 DEF IInv, TypeOK, timeVars, loopVars, taskVars, popVars, timerVars, ringVars
<1>6. now <= now'
  BY <1>1, Times DEF IInv, timeVars
<1> QED
  BY <1>1, <1>5, <1>6, QuietStep DEF loopVars, taskVars, popVars, timerVars, ringVars

\* The kernel moves a request to the CQ.
LEMMA PostStep ==
    ASSUME IInv, NEW r \in kern, NEW res \in 0 .. EvMax, Post(r, res),
           evCount' \in 0 .. EvMax, signals' \in 0 .. MaxSignals, UNCHANGED <<writing, calls>>
    PROVE  IInv'
<1>1. /\ UNCHANGED <<timeVars, loopVars, taskVars, popVars, timerVars, sq>>
      /\ kern' = kern \ {r} /\ cq' = cq \cup {Cqe(r, res)}
  BY DEF Post
<1>2. Apart' /\ Outstanding' = Outstanding
  BY <1>1, PostMoves DEF IInv, RingInv
<1>3. RingInv'
  BY <1>1, <1>2, RingSame DEF IInv, loopVars, timerVars
<1>4. IoInv'
  BY <1>1, <1>2, IoFrame DEF IInv, taskVars
<1>5. ListInv' /\ RunInv'
  BY <1>1 DEF IInv, ListInv, RunInv, timeVars, loopVars, taskVars, popVars, timerVars
<1>6. \A c \in cq' : c.req \in Requests /\ c.res \in 0 .. EvMax
  <2>1. r \in Requests /\ \A c \in cq : c.req \in Requests /\ c.res \in 0 .. EvMax
    BY DEF IInv, TypeOK
  <2>2. Cqe(r, res).req = r /\ Cqe(r, res).res = res
    BY DEF Cqe
  <2> QED
    BY <1>1, <2>1, <2>2
<1>7. TypeOK'
  BY <1>1, <1>6 DEF IInv, TypeOK, timeVars, loopVars, taskVars, popVars, timerVars
<1> QED
  BY <1>3, <1>4, <1>5, <1>7 DEF IInv

LEMMA KernelStep ==
    ASSUME IInv, NEW r \in kern,
           \/ ReadEventfd(r) \/ Expire(r) \/ CompleteIo(r)
           \/ \E sig \in {0, 1} : ReadSignalfd(r, sig)
    PROVE  IInv'
<1>1. evCount \in 0 .. EvMax /\ signals \in 0 .. MaxSignals
  BY DEF IInv, TypeOK
<1>2. CASE ReadEventfd(r)
  BY <1>1, <1>2, PostStep, Bounds DEF ReadEventfd
<1>3. CASE Expire(r) \/ CompleteIo(r)
  BY <1>1, <1>3, PostStep, Bounds DEF Expire, CompleteIo, fdVars
<1>4. ASSUME NEW sig \in {0, 1}, ReadSignalfd(r, sig)
      PROVE  IInv'
  <2>1. sig \in 0 .. EvMax
    BY Bounds
  <2>2. signals' \in 0 .. MaxSignals /\ UNCHANGED <<evCount, writing, calls>> /\ Post(r, sig)
    BY <1>1, <1>4, Bounds DEF ReadSignalfd
  <2> QED
    BY <1>1, <2>1, <2>2, PostStep
<1> QED
  BY <1>2, <1>3, <1>4

-----------------------------------------------------------------------------
(* The timer coroutine's steps.                                            *)

LEMMA TimerTypes ==
    ASSUME TypeOK, NEW k \in Runs, TimerMoves(k)
    PROVE  /\ tmCo' \in [Runs -> {"none", "armed", "waiting", "running", "ended", "aborted"}]
           /\ armedAt' \in [Runs -> 0 .. MaxTime]
           /\ event' \in {Unset, Set} \cup Runs
           /\ sq' \subseteq Requests
<1>1. /\ tmCo \in [Runs -> {"none", "armed", "waiting", "running", "ended", "aborted"}]
      /\ armedAt \in [Runs -> 0 .. MaxTime]
      /\ event \in {Unset, Set} \cup Runs
      /\ sq \subseteq Requests
  BY DEF TypeOK
<1>2. Req("timer", k) \in Requests
  BY ReqNames
<1> QED
  BY <1>1, <1>2 DEF TimerMoves

\* A timer coroutine k of this run or an earlier one comes to its next suspension.
LEMMA TimerRing ==
    ASSUME TypeOK, RingInv, NEW k \in Runs, k <= run, tmCo[k] # "waiting", TimerMoves(k),
           Apart', UNCHANGED run,
           Outstanding' = IF tmCo'[k] = "armed" THEN Outstanding \cup {Req("timer", k)}
                                                ELSE Outstanding \ {Req("timer", k)}
    PROVE  RingInv'
<1>1. tmCo \in [Runs -> {"none", "armed", "waiting", "running", "ended", "aborted"}] /\ run \in 0 .. MaxRuns
  BY DEF TypeOK
<1>2. \A j \in Runs : j # k => tmCo'[j] = tmCo[j]
  BY <1>1 DEF TimerMoves
<1>3. ArmedInv'
  BY <1>1, <1>2, ReqNames DEF RingInv, ArmedInv
<1>4. EventInv'
  <2>1. CASE event' = event /\ tmCo'[k] # "waiting"
    BY <1>2, <2>1 DEF RingInv, EventInv
  <2>2. CASE event \in {Unset, Set} /\ event' \in {Unset, k} /\ (event' = k <=> tmCo'[k] = "waiting")
    BY <1>2, <2>2, RunNumbers DEF RingInv, EventInv
  <2>3. \/ tmCo'[k] \in {"armed", "aborted"} /\ event' = event
        \/ tmCo'[k] = "ended" /\ event \in {Unset, Set} /\ event' = Unset
        \/ tmCo'[k] = "waiting" /\ event \in {Unset, Set} /\ event' = k
    BY <1>1 DEF TimerMoves
  <2>4. k # Unset
    BY RunNumbers
  <2> QED
    BY <2>1, <2>2, <2>3, <2>4
<1>5. FreshInv'
  <2> SUFFICES ASSUME NEW j \in Runs, j > run
               PROVE  /\ tmCo'[j] = "none"
                      /\ Req("event", j) \notin Outstanding' /\ Req("signal", j) \notin Outstanding'
    BY DEF FreshInv
  <2>1. j # k
    BY <1>1, RunNumbers
  <2> QED
    BY <1>2, <2>1, ReqNames DEF RingInv, FreshInv
<1> QED
  BY <1>3, <1>4, <1>5 DEF RingInv

\* It was not armed: whatever it prepares is its only request.
LEMMA TimerRuns ==
    ASSUME TypeOK, RingInv, IoInv, NEW k \in Runs, k <= run,
           tmCo[k] \notin {"waiting", "armed"}, TimerMoves(k), UNCHANGED <<run, kern, cq, where>>
    PROVE  RingInv' /\ IoInv'
<1>1. Req("timer", k) \notin Outstanding /\ Apart
  BY DEF RingInv, ArmedInv
<1>2. tmCo \in [Runs -> {"none", "armed", "waiting", "running", "ended", "aborted"}]
  BY DEF TypeOK
<1>3. CASE tmCo'[k] = "armed"
  <2>1. sq' = sq \cup {Req("timer", k)}
    BY <1>2, <1>3 DEF TimerMoves
  <2>2. Apart' /\ Outstanding' = Outstanding \cup {Req("timer", k)}
    BY <1>1, <2>1, Prepare
  <2>3. IoInv'
    BY <2>2, ReqNames, IoFrame
  <2> QED
    BY <1>3, <2>2, <2>3, TimerRing
<1>4. CASE tmCo'[k] # "armed"
  <2>1. sq' = sq
    BY <1>2, <1>4 DEF TimerMoves
  <2>2. Apart' /\ Outstanding' = Outstanding
    BY <1>1, <2>1 DEF Apart, Outstanding
  <2>3. Outstanding' = Outstanding \ {Req("timer", k)}
    BY <1>1, <2>2
  <2>4. IoInv'
    BY <2>2, IoFrame
  <2> QED
    BY <1>4, <2>2, <2>3, <2>4, TimerRing
<1> QED
  BY <1>3, <1>4

LEMMA InitTimeoutCallbackStep ==
    ASSUME IInv, InitTimeoutCallback
    PROVE  IInv'
<1>1. /\ UNCHANGED <<timeVars, run, stopped, todo, local, taskVars, popVars, kern, cq, fdVars>>
      /\ pc = "first todo" /\ local = <<>> /\ pc' \in {"abort", "test"}
  BY DEF InitTimeoutCallback
<1>2. run \in Runs /\ run <= run /\ ~(run > run) /\ tmCo[run] = "none"
  <2>1. run \in Runs /\ tmCo[run] = "none"
    BY <1>1 DEF IInv, RunInv
  <2> QED
    BY <2>1, RunNumbers
<1>3. TimerMoves(run) \/ (TimerEnds(run) /\ event' = event)
  <2>1. TimerInnerLoop(run) \/ (TimerEnds(run) /\ event' = event)
    BY DEF InitTimeoutCallback
  <2> QED
    BY <1>2, <2>1, InnerLoopMoves DEF IInv
<1>4. CASE TimerMoves(run)
  <2>1. RingInv' /\ IoInv'
    BY <1>1, <1>2, <1>4, TimerRuns DEF IInv, taskVars
  <2>2. ListInv' /\ RunInv'
    BY <1>1, ListFrame DEF IInv, RunInv, taskVars, popVars
  <2>3. TypeOK'
    BY <1>1, <1>2, <1>4, TimerTypes DEF IInv, TypeOK, timeVars, taskVars, popVars, fdVars
  <2> QED
    BY <2>1, <2>2, <2>3 DEF IInv
<1>5. CASE TimerEnds(run) /\ event' = event
  <2>1. tmCo' = [tmCo EXCEPT ![run] = "ended"] /\ UNCHANGED <<armedAt, sq, event>>
    BY <1>5 DEF TimerEnds
  <2>2. tmCo' \in [Runs -> {"none", "armed", "waiting", "running", "ended", "aborted"}]
    BY <2>1 DEF IInv, TypeOK
  <2>3. Apart' /\ Outstanding' = Outstanding
    BY <1>1, <2>1 DEF IInv, RingInv, Apart, Outstanding
  <2>4. \A k \in Runs : tmCo'[k] = IF k = run THEN "ended" ELSE tmCo[k]
    BY <2>1 DEF IInv, TypeOK
  <2>5. ArmedInv' /\ EventInv'
    BY <1>2, <2>1, <2>3, <2>4 DEF IInv, RingInv, ArmedInv, EventInv
  <2>6. FreshInv'
    BY <1>1, <1>2, <2>3, <2>4 DEF IInv, RingInv, FreshInv
  <2>7. IoInv'
    BY <1>1, <2>3, IoFrame DEF IInv, taskVars
  <2>8. ListInv' /\ RunInv'
    BY <1>1, ListFrame DEF IInv, RunInv, taskVars, popVars
  <2>9. TypeOK'
    BY <1>1, <2>1, <2>2 DEF IInv, TypeOK, timeVars, taskVars, popVars, fdVars
  <2> QED
    BY <2>3, <2>5, <2>6, <2>7, <2>8, <2>9 DEF IInv, RingInv
<1> QED
  BY <1>3, <1>4, <1>5

LEMMA EndEventsStep ==
    ASSUME IInv, EndEvents
    PROVE  IInv'
<1>1. /\ UNCHANGED <<timeVars, run, stopped, todo, local, taskVars, batch, kern, cq, fdVars>>
      /\ pc = "events" /\ batch = {} /\ pc' \in {"abort", "handle"} /\ TimerInnerLoop(handler)
      /\ handler' = 0 /\ pass' = 0 /\ stamp' = 0
  BY DEF EndEvents
<1>2. handler \in Runs /\ tmCo[handler] = "running"
  BY <1>1 DEF IInv, RunInv
<1>3. handler <= run
  <2>1. run \in 0 .. MaxRuns
    BY DEF IInv, TypeOK
  <2>2. ~(handler > run)
    BY <1>2 DEF IInv, RingInv, FreshInv
  <2> QED
    BY <1>2, <2>1, <2>2, RunNumbers
<1>4. TimerMoves(handler)
  BY <1>1, <1>2, InnerLoopMoves DEF IInv
<1>5. RingInv' /\ IoInv'
  BY <1>1, <1>2, <1>3, <1>4, TimerRuns DEF IInv, taskVars
<1>6. ListInv' /\ RunInv'
  BY <1>1, ListFrame DEF IInv, ListInv, RunInv, taskVars
<1>7. stamp' \in 0 .. MaxTime /\ pass' \in 0 .. 2
  BY <1>1, Bounds
<1>8. TypeOK'
  BY <1>1, <1>2, <1>4, <1>7, TimerTypes DEF IInv, TypeOK, timeVars, taskVars, fdVars
<1> QED
  BY <1>5, <1>6, <1>8 DEF IInv

-----------------------------------------------------------------------------
(* The loop's steps.                                                       *)

LEMMA RunStep ==
    ASSUME IInv, Run
    PROVE  IInv'
<1>1. /\ UNCHANGED <<timeVars, taskVars, popVars, timerVars, kern, cq, fdVars>>
      /\ pc = "out" /\ pc' = "first todo" /\ local' = todo /\ todo' = <<>>
  BY DEF Run
<1>2. run' \in Runs /\ run' > run /\ run \in Nat /\ run' \in 0 .. MaxRuns
  <2>1. run \in 0 .. MaxRuns /\ run < MaxRuns /\ run' = run + 1
    BY DEF IInv, TypeOK, Run
  <2> QED
    BY <2>1, Bounds DEF Runs
<1>3. PICK R : sq' = sq \cup R /\ R \subseteq {Req("event", run'), Req("signal", run')}
  <2>1. run' = run + 1 /\ sq' = sq \cup {Req("event", run + 1)}
                                   \cup (IF MaxSignals > 0 THEN {Req("signal", run + 1)} ELSE {})
    BY DEF Run
  <2>2. CASE MaxSignals > 0
    <3>1. sq' = sq \cup {Req("event", run'), Req("signal", run')}
      BY <2>1, <2>2
    <3> QED
      BY <3>1
  <2>3. CASE ~(MaxSignals > 0)
    <3>1. sq' = sq \cup {Req("event", run')}
      BY <2>1, <2>3
    <3> QED
      BY <3>1
  <2> QED
    BY <2>2, <2>3
<1>31. /\ \A t \in Tasks : Req("io", t) \notin R
       /\ \A j \in Runs : Req("timer", j) \notin R
       /\ \A j \in Runs : j # run' => Req("event", j) \notin R /\ Req("signal", j) \notin R
  BY <1>3 DEF Req
<1>4. R \cap Outstanding = {}
  BY <1>2, <1>3 DEF IInv, RingInv, FreshInv
<1>5. Apart' /\ Outstanding' = Outstanding \cup R
  BY <1>1, <1>3, <1>4, PrepareAll DEF IInv, RingInv
<1>6. ArmedInv' /\ EventInv'
  BY <1>1, <1>31, <1>5 DEF IInv, RingInv, ArmedInv, EventInv, timerVars
<1>7. FreshInv'
  <2> SUFFICES ASSUME NEW j \in Runs, j > run'
               PROVE  /\ tmCo'[j] = "none"
                      /\ Req("event", j) \notin Outstanding' /\ Req("signal", j) \notin Outstanding'
    BY DEF FreshInv
  <2>1. j > run /\ j # run'
    BY <1>2, RunNumbers
  <2>2. tmCo[j] = "none" /\ Req("event", j) \notin Outstanding /\ Req("signal", j) \notin Outstanding
    BY <2>1 DEF IInv, RingInv, FreshInv
  <2> QED
    BY <1>1, <1>31, <1>5, <2>1, <2>2 DEF timerVars
<1>8. RunInv'
  BY <1>1, <1>2 DEF IInv, RunInv, RingInv, FreshInv, timerVars, popVars
<1>9. IoInv'
  BY <1>1, <1>31, <1>5, IoFrame DEF IInv, taskVars
<1>10. ListInv'
  <2>1. local = <<>>
    BY <1>1 DEF IInv, ListInv
  <2>2. Lists(<<>>, "todo", where)
    BY DEF Lists
  <2>3. UNCHANGED <<stack, where>> /\ local' = todo /\ todo' = <<>> /\ pc' = "first todo"
    BY <1>1 DEF taskVars
  <2>4. /\ Lists(stack, "running", where) /\ Lists(todo, "todo", where)
    BY DEF IInv, ListInv
  <2>5. Lists(stack', "running", where') /\ Lists(local', "todo", where') /\ Lists(todo', "todo", where')
    BY <2>2, <2>3, <2>4
  <2>6. \A i \in 1 .. Len(todo'), j \in 1 .. Len(local') : todo'[i] # local'[j]
    <3>1. Len(todo') = 0
      <4>1. Len(<<>>) = 0
        OBVIOUS
      <4> QED
        BY <2>3, <4>1
    <3>2. 1 .. 0 = {}
      OBVIOUS
    <3> QED
      BY <3>1, <3>2
  <2> QED
    BY <2>3, <2>5, <2>6 DEF ListInv
<1>11. TypeOK'
  <2>1. run' \in 0 .. MaxRuns
    BY <1>2
  <2>2. sq' \subseteq Requests
    <3>1. sq \subseteq Requests
      BY DEF IInv, TypeOK
    <3> QED
      BY <1>2, <1>3, <3>1, ReqNames
  <2>3. local' \in Seq(Tasks) /\ todo' \in Seq(Tasks)
    <3>0. todo \in Seq(Tasks)
      BY DEF IInv, TypeOK
    <3>1. <<>> \in Seq(Tasks)
      OBVIOUS
    <3>2. local' = todo /\ todo' = <<>>
      BY <1>1
    <3> QED
      BY <3>0, <3>1, <3>2
  <2>4. stopped' \in BOOLEAN
    BY DEF Run
  <2> QED
    BY <1>1, <2>1, <2>2, <2>3, <2>4 DEF IInv, TypeOK, timeVars, taskVars, popVars, timerVars, fdVars
<1> QED
  BY <1>5, <1>6, <1>7, <1>8, <1>9, <1>10, <1>11 DEF IInv, RingInv

LEMMA ExecuteTodoStep ==
    ASSUME IInv, ExecuteTodo
    PROVE  IInv'
<1> DEFINE t == Head(local)
<1>1. /\ UNCHANGED <<timeVars, pc, run, stopped, todo, due, popVars, timerVars, ringVars, fdVars>>
      /\ stack = <<>> /\ local # <<>> /\ stack' = <<t>> /\ local' = Tail(local)
      /\ where' = [where EXCEPT ![t] = "running"]
      /\ pc \in {"first todo", "todo"}
  BY DEF ExecuteTodo
<1>2. local \in Seq(Tasks) /\ todo \in Seq(Tasks) /\ where \in [Tasks -> Places]
  BY DEF IInv, TypeOK
<1>3. /\ t \in Tasks /\ where[t] = "todo" /\ Tail(local) \in Seq(Tasks)
      /\ \A i \in 1 .. Len(Tail(local)) : i + 1 \in 1 .. Len(local) /\ Tail(local)[i] = local[i + 1]
      /\ Lists(Tail(local), "todo", where')
  BY <1>1, <1>2, ListsTail DEF IInv, ListInv
<1>4. t = local[1] /\ 1 \in 1 .. Len(local)
  <2>1. local # <<>>
    BY <1>1
  <2> QED
    BY <1>2, <2>1
<1> HIDE DEF t
<1>5. \A u \in Tasks : where'[u] = IF u = t THEN "running" ELSE where[u]
  BY <1>1, <1>2, <1>3
<1>6. <<t>> \in Seq(Tasks) /\ Lists(<<t>>, "running", where')
  BY <1>3, <1>5, ListsOne
<1>7. Lists(todo, "todo", where')
  <2>1. \A i \in 1 .. Len(todo) : todo[i] # t /\ todo[i] \in Tasks
    <3>1. \A i \in 1 .. Len(todo), j \in 1 .. Len(local) : todo[i] # local[j]
      BY DEF IInv, ListInv
    <3> QED
      BY <1>2, <1>4, <3>1
  <2> QED
    BY <1>5, <2>1 DEF IInv, ListInv, Lists
<1>8. \A i \in 1 .. Len(todo), j \in 1 .. Len(Tail(local)) : todo[i] # Tail(local)[j]
  BY <1>3 DEF IInv, ListInv
<1>9. ListInv'
  BY <1>1, <1>3, <1>6, <1>7, <1>8 DEF ListInv
<1>10. RingInv' /\ Outstanding' = Outstanding
  BY <1>1, RingFrame DEF IInv, timerVars, ringVars
<1>11. IoInv'
  BY <1>3, <1>5, <1>10, IoFrame DEF IInv
<1>12. RunInv'
  BY <1>1 DEF IInv, RunInv, timeVars, popVars, timerVars
<1>13. TypeOK'
  <2>1. where' \in [Tasks -> Places] /\ batch = {u \in Tasks : where'[u] = "due"}
    BY <1>1, <1>2, <1>3, <1>5 DEF IInv, TypeOK, Places
  <2> QED
    BY <1>1, <1>3, <1>6, <2>1 DEF IInv, TypeOK, timeVars, popVars, timerVars, ringVars, fdVars
<1> QED
  BY <1>9, <1>10, <1>11, <1>12, <1>13 DEF IInv

LEMMA WaitForCompletionsStep ==
    ASSUME IInv, WaitForCompletions
    PROVE  IInv'
<1>1. /\ UNCHANGED <<timeVars, run, stopped, todo, local, taskVars, popVars, tmCo, event, cq, fdVars>>
      /\ pc = "test" /\ pc' = "wait" /\ kern' = kern \cup sq /\ sq' = {}
  BY DEF WaitForCompletions
<1>2. Apart' /\ Outstanding' = Outstanding
  BY <1>1, Submit DEF IInv, RingInv
<1>3. RingInv'
  BY <1>1, <1>2, RingSame DEF IInv
<1>4. IoInv'
  BY <1>1, <1>2, IoFrame DEF IInv, taskVars
<1>5. ListInv' /\ RunInv'
  BY <1>1, ListFrame DEF IInv, ListInv, RunInv, taskVars, popVars
<1>6. armedAt' \in [Runs -> 0 .. MaxTime]
  <2>1. now \in 0 .. MaxTime /\ armedAt \in [Runs -> 0 .. MaxTime]
    BY DEF IInv, TypeOK
  <2> QED
    BY <2>1, Bounds DEF WaitForCompletions
<1>7. TypeOK'
  BY <1>1, <1>6 DEF IInv, TypeOK, timeVars, taskVars, popVars, fdVars
<1> QED
  BY <1>3, <1>4, <1>5, <1>7 DEF IInv

LEMMA EndHandleStep ==
    ASSUME IInv, EndHandle
    PROVE  IInv'
<1>1. /\ UNCHANGED <<timeVars, run, stopped, taskVars, popVars, timerVars, ringVars, fdVars>>
      /\ pc = "handle" /\ pc' = "todo" /\ local' = todo /\ todo' = <<>>
  BY DEF EndHandle
<1>2. RingInv' /\ Outstanding' = Outstanding
  BY <1>1, RingFrame DEF IInv, timerVars, ringVars
<1>3. IoInv'
  BY <1>1, <1>2, IoFrame DEF IInv, taskVars
<1>4. Lists(<<>>, "todo", where)
  BY DEF Lists
<1>5. ListInv' /\ RunInv'
  BY <1>1, <1>4 DEF IInv, ListInv, RunInv, taskVars, popVars
<1>6. local' \in Seq(Tasks) /\ todo' \in Seq(Tasks)
  BY <1>1 DEF IInv, TypeOK
<1>7. TypeOK'
  BY <1>1, <1>6 DEF IInv, TypeOK, timeVars, taskVars, popVars, timerVars, ringVars, fdVars
<1> QED
  BY <1>2, <1>3, <1>5, <1>7 DEF IInv

-----------------------------------------------------------------------------
(* handle_completions.                                                     *)

\* The readers of the eventfd and of the signalfd.
LEMMA ReaderStep ==
    ASSUME IInv, NEW c \in cq, HandleEvent(c) \/ HandleSignal(c)
    PROVE  IInv'
<1>1. /\ UNCHANGED <<timeVars, pc, run, todo, local, taskVars, popVars, timerVars, kern, fdVars>>
      /\ cq' = cq \ {c} /\ c.req.kind \in {"event", "signal"}
  BY DEF HandleEvent, HandleSignal
<1>2. stopped' \in BOOLEAN
  BY DEF HandleEvent, HandleSignal, IInv, TypeOK
<1>3. sq' = sq \/ sq' = sq \cup {c.req}
  BY DEF HandleEvent, HandleSignal
<1>4. c.req \in Requests /\ sq \subseteq Requests
  BY DEF IInv, TypeOK
<1>5. /\ \A k \in Runs : c.req # Req("timer", k)
      /\ \A t \in Tasks : c.req # Req("io", t)
  <2>1. \A w : Req("timer", w).kind = "timer" /\ Req("io", w).kind = "io"
    BY DEF Req
  <2> QED
    BY <1>1, <2>1
<1>6. Apart' /\ (Outstanding' = Outstanding \/ Outstanding' = Outstanding \ {c.req})
  BY <1>1, <1>3, Take, TakeAndPrepare DEF IInv, RingInv
<1>7. RingInv'
  BY <1>1, <1>5, <1>6 DEF IInv, RingInv, ArmedInv, EventInv, FreshInv, timerVars
<1>8. IoInv'
  BY <1>1, <1>5, <1>6, IoFrame DEF IInv, taskVars
<1>9. ListInv' /\ RunInv'
  BY <1>1 DEF IInv, ListInv, RunInv, timeVars, taskVars, popVars, timerVars
<1>10. sq' \subseteq Requests
  BY <1>3, <1>4
<1>11. TypeOK'
  BY <1>1, <1>2, <1>10 DEF IInv, TypeOK, timeVars, taskVars, popVars, timerVars, fdVars
<1> QED
  BY <1>7, <1>8, <1>9, <1>11 DEF IInv

\* A coroutine t that is on no list becomes the only one on the stack.
LEMMA ResumeLists ==
    ASSUME IInv, NEW t \in Tasks, where[t] \notin {"running", "todo"},
           stack' = <<t>>, where' = [where EXCEPT ![t] = "running"],
           UNCHANGED <<pc, todo, local>>
    PROVE  /\ ListInv' /\ stack' \in Seq(Tasks) /\ where' \in [Tasks -> Places]
           /\ \A u \in Tasks : where'[u] = IF u = t THEN "running" ELSE where[u]
<1>1. todo \in Seq(Tasks) /\ local \in Seq(Tasks) /\ where \in [Tasks -> Places]
  BY DEF IInv, TypeOK
<1>2. /\ where' \in [Tasks -> Places]
      /\ \A u \in Tasks : where'[u] = IF u = t THEN "running" ELSE where[u]
  BY <1>1 DEF Places
<1>3. \A u \in Tasks : where[u] = "todo" => where'[u] = "todo"
  BY <1>2
<1>4. /\ Lists(todo, "todo", where) /\ Lists(local, "todo", where)
      /\ \A i \in 1 .. Len(todo), j \in 1 .. Len(local) : todo[i] # local[j]
      /\ pc \notin {"first todo", "todo"} => local = <<>>
  BY DEF IInv, ListInv
<1>5. Lists(todo, "todo", where') /\ Lists(local, "todo", where')
  BY <1>1, <1>3, <1>4, ListsKept
<1>6. <<t>> \in Seq(Tasks) /\ Lists(<<t>>, "running", where')
  BY <1>2, ListsOne
<1>7. ListInv'
  BY <1>4, <1>5, <1>6 DEF ListInv
<1> QED
  BY <1>2, <1>6, <1>7

LEMMA HandleIoStep ==
    ASSUME IInv, NEW c \in cq, HandleIo(c)
    PROVE  IInv'
<1>1. /\ UNCHANGED <<timeVars, loopVars, due, popVars, timerVars, sq, kern, fdVars>>
      /\ cq' = cq \ {c} /\ c.req.kind = "io" /\ stack' = <<c.req.who>>
      /\ where' = [where EXCEPT ![c.req.who] = "running"]
  BY DEF HandleIo
<1>2. c.req \in Requests
  BY DEF IInv, TypeOK
<1>3. PICK t \in Tasks : t = c.req.who /\ c.req = Req("io", t)
  BY <1>1, <1>2, ReqNames
<1>4. Apart' /\ Outstanding' = Outstanding \ {Req("io", t)} /\ Req("io", t) \in Outstanding
  BY <1>1, <1>3, Take DEF IInv, RingInv
<1>5. where[t] = "io"
  BY <1>4 DEF IInv, IoInv
<1>6. /\ ListInv' /\ stack' \in Seq(Tasks) /\ where' \in [Tasks -> Places]
      /\ \A u \in Tasks : where'[u] = IF u = t THEN "running" ELSE where[u]
  BY <1>1, <1>3, <1>5, ResumeLists DEF loopVars
<1>7. IoInv'
  <2>1. \A u \in Tasks : Req("io", u) = Req("io", t) <=> u = t
    BY ReqNames
  <2> QED
    BY <1>4, <1>6, <2>1 DEF IInv, IoInv
<1>8. /\ \A k \in Runs : Req("timer", k) # Req("io", t)
  BY DEF Req
<1>9. RingInv'
  BY <1>1, <1>4, <1>8 DEF IInv, RingInv, ArmedInv, EventInv, FreshInv, timerVars, loopVars
<1>10. RunInv'
  BY <1>1 DEF IInv, RunInv, timeVars, loopVars, popVars, timerVars
<1>11. batch = {u \in Tasks : where'[u] = "due"}
  BY <1>5, <1>6 DEF IInv, TypeOK
<1>12. TypeOK'
  BY <1>1, <1>6, <1>11 DEF IInv, TypeOK, timeVars, loopVars, popVars, timerVars, fdVars
<1> QED
  BY <1>6, <1>7, <1>9, <1>10, <1>12 DEF IInv

LEMMA ResumeDueStep ==
    ASSUME IInv, NEW t \in batch, ResumeDue(t)
    PROVE  IInv'
<1>1. /\ UNCHANGED <<timeVars, loopVars, stamp, pass, handler, timerVars, ringVars, fdVars>>
      /\ pc = "events" /\ batch' = batch \ {t} /\ stack' = <<t>>
      /\ where' = [where EXCEPT ![t] = "running"] /\ due' = [due EXCEPT ![t] = 0]
  BY DEF ResumeDue
<1>2. t \in Tasks /\ where[t] = "due"
  BY DEF IInv, TypeOK
<1>3. /\ ListInv' /\ stack' \in Seq(Tasks) /\ where' \in [Tasks -> Places]
      /\ \A u \in Tasks : where'[u] = IF u = t THEN "running" ELSE where[u]
  BY <1>1, <1>2, ResumeLists DEF loopVars
<1>4. RingInv' /\ Outstanding' = Outstanding
  BY <1>1, RingFrame DEF IInv, loopVars, timerVars, ringVars
<1>5. IoInv'
  BY <1>2, <1>3, <1>4, IoFrame DEF IInv
<1>6. RunInv'
  BY <1>1 DEF IInv, RunInv, timeVars, loopVars, timerVars
<1>7. batch' = {u \in Tasks : where'[u] = "due"}
  BY <1>1, <1>2, <1>3 DEF IInv, TypeOK
<1>8. due' \in [Tasks -> 0 .. MaxTime]
  <2>1. due \in [Tasks -> 0 .. MaxTime]
    BY DEF IInv, TypeOK
  <2>2. 0 \in 0 .. MaxTime
    BY Bounds
  <2> QED
    BY <1>1, <2>1, <2>2
<1>9. TypeOK'
  BY <1>1, <1>3, <1>7, <1>8 DEF IInv, TypeOK, timeVars, loopVars, timerVars, ringVars, fdVars
<1> QED
  BY <1>3, <1>4, <1>5, <1>6, <1>9 DEF IInv

\* Detaching the coroutines that are due disturbs no list and no request.
LEMMA DetachLists ==
    ASSUME IInv, NEW time, batch = {}, batch' = LessEq(time),
           where' = [t \in Tasks |-> IF t \in LessEq(time) THEN "due" ELSE where[t]],
           UNCHANGED <<stack, todo, local>>,
           pc \notin {"first todo", "todo"}
    PROVE  /\ ListInv' /\ where' \in [Tasks -> Places]
           /\ batch' = {t \in Tasks : where'[t] = "due"}
           /\ \A t \in Tasks : (where'[t] = "io") <=> (where[t] = "io")
<1>1. /\ todo \in Seq(Tasks) /\ local \in Seq(Tasks) /\ stack \in Seq(Tasks)
      /\ where \in [Tasks -> Places]
      /\ batch = {t \in Tasks : where[t] = "due"}
  BY DEF IInv, TypeOK
<1>2. \A t \in LessEq(time) : t \in Tasks /\ where[t] = "sleep"
  BY DEF LessEq, Sleeping
<1>3. \A t \in Tasks : where'[t] = IF t \in LessEq(time) THEN "due" ELSE where[t]
  OBVIOUS
<1>4. \A t \in Tasks : /\ where[t] = "todo" => where'[t] = "todo"
                       /\ where[t] = "running" => where'[t] = "running"
                       /\ (where'[t] = "io") <=> (where[t] = "io")
  BY <1>2, <1>3
<1>5. where' \in [Tasks -> Places]
  BY <1>1 DEF Places
<1>6. batch' = {t \in Tasks : where'[t] = "due"}
  BY <1>1, <1>2, <1>3
<1>7. /\ Lists(stack, "running", where) /\ Lists(todo, "todo", where) /\ Lists(local, "todo", where)
      /\ \A i \in 1 .. Len(todo), j \in 1 .. Len(local) : todo[i] # local[j]
      /\ local = <<>>
  BY DEF IInv, ListInv
<1>8. Lists(stack, "running", where') /\ Lists(todo, "todo", where') /\ Lists(local, "todo", where')
  BY <1>1, <1>4, <1>7, ListsKept
<1>9. ListInv'
  BY <1>7, <1>8 DEF ListInv
<1> QED
  BY <1>4, <1>5, <1>6, <1>9

LEMMA SecondPopStep ==
    ASSUME IInv, SecondPop
    PROVE  IInv'
<1>1. /\ UNCHANGED <<timeVars, loopVars, stack, due, stamp, handler, timerVars, ringVars, fdVars>>
      /\ pc = "events" /\ batch = {} /\ batch' = LessEq(stamp) /\ pass' = 2
      /\ where' = [t \in Tasks |-> IF t \in LessEq(stamp) THEN "due" ELSE where[t]]
  BY DEF SecondPop
<1>2. /\ ListInv' /\ where' \in [Tasks -> Places]
      /\ batch' = {t \in Tasks : where'[t] = "due"}
      /\ \A t \in Tasks : (where'[t] = "io") <=> (where[t] = "io")
  BY <1>1, DetachLists DEF loopVars
<1>3. RingInv' /\ Outstanding' = Outstanding
  BY <1>1, RingFrame DEF IInv, loopVars, timerVars, ringVars
<1>4. IoInv'
  BY <1>2, <1>3, IoFrame DEF IInv
<1>5. RunInv'
  BY <1>1 DEF IInv, RunInv, timeVars, loopVars, timerVars
<1>6. TypeOK'
  BY <1>1, <1>2, SMTT(60) DEF IInv, TypeOK, timeVars, loopVars, timerVars, ringVars, fdVars
<1> QED
  BY <1>2, <1>3, <1>4, <1>5, <1>6 DEF IInv

LEMMA HandleTimerStep ==
    ASSUME IInv, NEW c \in cq, HandleTimer(c)
    PROVE  IInv'
<1>1. /\ UNCHANGED <<timeVars, run, stopped, todo, local, stack, due, kern, fdVars>>
      /\ pc = "handle" /\ cq' = cq \ {c} /\ c.req.kind = "timer"
  BY DEF HandleTimer, Handling
<1>2. c.req \in Requests /\ tmCo \in [Runs -> {"none", "armed", "waiting", "running", "ended", "aborted"}]
  BY DEF IInv, TypeOK
<1>3. PICK k \in Runs : k = c.req.who /\ c.req = Req("timer", k)
  BY <1>1, <1>2, ReqNames
<1>4. Req("timer", k) \in Outstanding
  BY <1>3 DEF Outstanding
<1>5. tmCo[k] = "armed"
  BY <1>4 DEF IInv, RingInv, ArmedInv
<1>6. k <= run
  <2>1. run \in 0 .. MaxRuns
    BY DEF IInv, TypeOK
  <2>2. ~(k > run)
    BY <1>5 DEF IInv, RingInv, FreshInv
  <2> QED
    BY <2>1, <2>2, RunNumbers
<1>7. batch = {} /\ local = <<>>
  BY <1>1 DEF IInv, RunInv, ListInv
<1>8. \A t \in Tasks : Req("io", t) # Req("timer", k)
  BY DEF Req
<1>9. \A d \in cq' : d.req \in Requests /\ d.res \in 0 .. EvMax
  BY <1>1 DEF IInv, TypeOK
<1>10. CASE Sleeping = {}
  <2>1. TimerInnerLoop(k) /\ pc' \in {"abort", pc} /\ UNCHANGED <<where, popVars>>
    BY <1>3, <1>10 DEF HandleTimer
  <2>2. TimerMoves(k)
    BY <2>1, InnerLoopMoves DEF IInv
  <2>3. /\ Apart'
        /\ Outstanding' = IF tmCo'[k] = "armed" THEN Outstanding \cup {Req("timer", k)}
                                                ELSE Outstanding \ {Req("timer", k)}
    <3>1. CASE tmCo'[k] = "armed"
      <4>1. sq' = sq \cup {c.req}
        BY <1>2, <1>3, <2>2, <3>1 DEF TimerMoves
      <4>2. Apart' /\ Outstanding' = Outstanding
        BY <1>1, <4>1, TakeAndPrepare DEF IInv, RingInv
      <4> QED
        BY <1>4, <3>1, <4>2
    <3>2. CASE tmCo'[k] # "armed"
      <4>1. sq' = sq
        BY <1>2, <2>2, <3>2 DEF TimerMoves
      <4>2. Apart' /\ Outstanding' = Outstanding \ {c.req}
        BY <1>1, <4>1, Take DEF IInv, RingInv
      <4> QED
        BY <1>3, <3>2, <4>2
    <3> QED
      BY <3>1, <3>2
  <2>4. RingInv'
    BY <1>1, <1>5, <1>6, <2>2, <2>3, TimerRing DEF IInv
  <2>5. IoInv'
    BY <1>8, <2>1, <2>3, IoFrame DEF IInv
  <2>6. ListInv' /\ RunInv'
    BY <1>1, <1>7, <2>1, ListFrame DEF IInv, RunInv, popVars
  <2>7. TypeOK'
    BY <1>1, <1>9, <2>1, <2>2, TimerTypes DEF IInv, TypeOK, timeVars, popVars, fdVars
  <2> QED
    BY <2>4, <2>5, <2>6, <2>7 DEF IInv
<1>11. CASE Sleeping # {}
  <2>1. /\ handler' = k /\ tmCo' = [tmCo EXCEPT ![k] = "running"]
        /\ armedAt' = [armedAt EXCEPT ![k] = 0] /\ stamp' = now /\ pass' = 1
        /\ batch' = LessEq(now) /\ pc' = "events" /\ UNCHANGED <<sq, event>>
        /\ where' = [t \in Tasks |-> IF t \in LessEq(now) THEN "due" ELSE where[t]]
    BY <1>3, <1>11 DEF HandleTimer
  <2>2. Apart' /\ Outstanding' = Outstanding \ {Req("timer", k)}
    BY <1>1, <1>3, <2>1, Take DEF IInv, RingInv
  <2>3. /\ tmCo' \in [Runs -> {"none", "armed", "waiting", "running", "ended", "aborted"}]
        /\ \A j \in Runs : tmCo'[j] = IF j = k THEN "running" ELSE tmCo[j]
    BY <1>2, <2>1
  <2>4. ArmedInv' /\ EventInv'
    <3>1. \A j \in Runs : Req("timer", j) = Req("timer", k) <=> j = k
      BY ReqNames
    <3>2. ArmedInv'
      BY <2>2, <2>3, <3>1 DEF IInv, RingInv, ArmedInv
    <3>3. EventInv'
      BY <1>5, <2>1, <2>3 DEF IInv, RingInv, EventInv
    <3> QED
      BY <3>2, <3>3
  <2>5. FreshInv'
    <3>1. \A j \in Runs : j > run => j # k
      <4>1. run \in 0 .. MaxRuns
        BY DEF IInv, TypeOK
      <4> QED
        BY <1>6, <4>1, RunNumbers
    <3> QED
      BY <1>1, <2>2, <2>3, <3>1 DEF IInv, RingInv, FreshInv
  <2>6. /\ ListInv' /\ where' \in [Tasks -> Places]
        /\ batch' = {t \in Tasks : where'[t] = "due"}
        /\ \A t \in Tasks : (where'[t] = "io") <=> (where[t] = "io")
    BY <1>1, <1>7, <2>1, DetachLists
  <2>7. IoInv'
    BY <1>8, <2>2, <2>6, IoFrame DEF IInv
  <2>8. RunInv'
    <3>1. stamp' <= now'
      BY <1>1, <2>1, Times DEF IInv, timeVars
    <3> QED
      BY <2>1, <2>3, <3>1 DEF RunInv
  <2>9. armedAt' \in [Runs -> 0 .. MaxTime] /\ stamp' \in 0 .. MaxTime /\ pass' \in 0 .. 2
    <3>1. armedAt \in [Runs -> 0 .. MaxTime] /\ now \in 0 .. MaxTime
      BY DEF IInv, TypeOK
    <3>2. 0 \in 0 .. MaxTime /\ 1 \in 0 .. 2
      BY Bounds
    <3> QED
      BY <2>1, <3>1, <3>2
  <2>10. TypeOK'
    BY <1>1, <1>9, <2>1, <2>3, <2>6, <2>9 DEF IInv, TypeOK, timeVars, fdVars
  <2> QED
    BY <2>2, <2>4, <2>5, <2>6, <2>7, <2>8, <2>10 DEF IInv, RingInv
<1> QED
  BY <1>10, <1>11

-----------------------------------------------------------------------------
(* The user coroutines.                                                    *)

\* The coroutine t on top of the stack suspends, or ends, at the place q.
LEMMA SuspendLists ==
    ASSUME IInv, NEW t \in Tasks, Running(t), NEW q \in {"sleep", "io", "done"},
           where' = [where EXCEPT ![t] = q], stack' = Tail(stack), UNCHANGED <<pc, todo, local, batch>>
    PROVE  /\ where[t] = "running" /\ ListInv'
           /\ stack' \in Seq(Tasks) /\ where' \in [Tasks -> Places]
           /\ batch' = {u \in Tasks : where'[u] = "due"}
           /\ \A u \in Tasks : where'[u] = IF u = t THEN q ELSE where[u]
<1>1. /\ todo \in Seq(Tasks) /\ local \in Seq(Tasks) /\ stack \in Seq(Tasks)
      /\ where \in [Tasks -> Places]
      /\ batch = {u \in Tasks : where[u] = "due"}
  BY DEF IInv, TypeOK
<1>2. /\ Lists(stack, "running", where) /\ Lists(todo, "todo", where) /\ Lists(local, "todo", where)
      /\ \A i \in 1 .. Len(todo), j \in 1 .. Len(local) : todo[i] # local[j]
      /\ pc \notin {"first todo", "todo"} => local = <<>>
  BY DEF IInv, ListInv
<1>3. stack # <<>> /\ t = Head(stack)
  BY DEF Running
<1>4. where[t] = "running" /\ stack' \in Seq(Tasks) /\ Lists(stack', "running", where')
  BY <1>1, <1>2, <1>3, ListsTail
<1>5. /\ where' \in [Tasks -> Places]
      /\ \A u \in Tasks : where'[u] = IF u = t THEN q ELSE where[u]
  BY <1>1 DEF Places
<1>6. \A u \in Tasks : where[u] = "todo" => where'[u] = "todo"
  BY <1>4, <1>5
<1>7. Lists(todo, "todo", where') /\ Lists(local, "todo", where')
  BY <1>1, <1>2, <1>6, ListsKept
<1>8. ListInv'
  BY <1>2, <1>4, <1>7 DEF ListInv
<1>9. batch' = {u \in Tasks : where'[u] = "due"}
  BY <1>1, <1>4, <1>5
<1> QED
  BY <1>4, <1>5, <1>8, <1>9

LEMMA SleepStep ==
    ASSUME IInv, NEW t \in Tasks, NEW d \in Delays, Sleep(t, d)
    PROVE  IInv'
<1>1. /\ UNCHANGED <<timeVars, loopVars, popVars, kern, cq, fdVars>>
      /\ Running(t) /\ where' = [where EXCEPT ![t] = "sleep"]
      /\ stack' = Tail(stack) /\ due' = [due EXCEPT ![t] = now + d]
  BY DEF Sleep
<1>2. EventSets /\ now + d \in 0 .. MaxTime
  BY SleepMoves DEF IInv
<1>3. /\ where[t] = "running" /\ ListInv'
      /\ stack' \in Seq(Tasks) /\ where' \in [Tasks -> Places]
      /\ batch' = {u \in Tasks : where'[u] = "due"}
      /\ \A u \in Tasks : where'[u] = IF u = t THEN "sleep" ELSE where[u]
  BY <1>1, SuspendLists DEF loopVars, popVars
<1>4. /\ tmCo \in [Runs -> {"none", "armed", "waiting", "running", "ended", "aborted"}]
      /\ run \in 0 .. MaxRuns /\ sq \subseteq Requests /\ due \in [Tasks -> 0 .. MaxTime]
  BY DEF IInv, TypeOK
<1>5. due' \in [Tasks -> 0 .. MaxTime]
  BY <1>1, <1>2, <1>4
<1>6. CASE event \in {Unset, Set} /\ event' = Set /\ UNCHANGED <<tmCo, armedAt, sq>>
  <2>1. Apart' /\ Outstanding' = Outstanding
    BY <1>1, <1>6 DEF IInv, RingInv, Apart, Outstanding
  <2>2. EventInv'
    BY <1>6, RunNumbers DEF IInv, RingInv, EventInv
  <2>3. RingInv'
    BY <1>1, <1>6, <2>1, <2>2 DEF IInv, RingInv, ArmedInv, FreshInv, loopVars
  <2>4. IoInv'
    BY <1>3, <2>1, IoFrame DEF IInv
  <2>5. RunInv'
    BY <1>1, <1>6 DEF IInv, RunInv, timeVars, loopVars, popVars
  <2>6. TypeOK'
    BY <1>1, <1>3, <1>5, <1>6 DEF IInv, TypeOK, timeVars, loopVars, popVars, fdVars
  <2> QED
    BY <1>3, <2>3, <2>4, <2>5, <2>6 DEF IInv
<1>7. ASSUME event \in Runs, event' = Unset,
             NEW st \in {"ended", "armed"}, tmCo' = [tmCo EXCEPT ![event] = st],
             armedAt' \in [Runs -> 0 .. MaxTime],
             sq' = IF st = "armed" THEN sq \cup {Req("timer", event)} ELSE sq
      PROVE  IInv'
  <2>1. tmCo[event] = "waiting" /\ Req("timer", event) \notin Outstanding
    BY <1>7 DEF IInv, RingInv, EventInv, ArmedInv
  <2>2. /\ tmCo' \in [Runs -> {"none", "armed", "waiting", "running", "ended", "aborted"}]
        /\ \A j \in Runs : tmCo'[j] = IF j = event THEN st ELSE tmCo[j]
    BY <1>4, <1>7
  <2>3. /\ Apart'
        /\ Outstanding' = IF st = "armed" THEN Outstanding \cup {Req("timer", event)} ELSE Outstanding
    <3>1. CASE st = "armed"
      BY <1>1, <1>7, <2>1, <3>1, Prepare DEF IInv, RingInv
    <3>2. CASE st # "armed"
      BY <1>1, <1>7, <3>2 DEF IInv, RingInv, Apart, Outstanding
    <3> QED
      BY <3>1, <3>2
  <2>4. ArmedInv'
    <3>1. \A j \in Runs : Req("timer", j) = Req("timer", event) <=> j = event
      BY ReqNames
    <3> QED
      BY <1>7, <2>1, <2>2, <2>3, <3>1 DEF IInv, RingInv, ArmedInv
  <2>5. EventInv'
    BY <1>7, <2>2, RunNumbers DEF IInv, RingInv, EventInv
  <2>6. FreshInv'
    <3>1. \A j \in Runs : j > run => j # event /\ tmCo[j] = "none"
      BY <2>1 DEF IInv, RingInv, FreshInv
    <3>2. \A j : Req("event", j) # Req("timer", event) /\ Req("signal", j) # Req("timer", event)
      BY DEF Req
    <3> QED
      BY <1>1, <2>2, <2>3, <3>1, <3>2 DEF IInv, RingInv, FreshInv, loopVars
  <2>7. IoInv'
    <3>1. \A u \in Tasks : Req("io", u) # Req("timer", event)
      BY DEF Req
    <3> QED
      BY <1>3, <2>3, <3>1, IoFrame DEF IInv
  <2>8. RunInv'
    BY <1>1, <2>1, <2>2 DEF IInv, RunInv, timeVars, loopVars, popVars
  <2>9. sq' \subseteq Requests
    BY <1>4, <1>7, ReqNames
  <2>10. TypeOK'
    BY <1>1, <1>3, <1>5, <1>7, <2>2, <2>9 DEF IInv, TypeOK, timeVars, loopVars, popVars, fdVars
  <2> QED
    BY <1>3, <2>3, <2>4, <2>5, <2>6, <2>7, <2>8, <2>10 DEF IInv, RingInv
<1>8. armedAt \in [Runs -> 0 .. MaxTime]
  BY DEF IInv, TypeOK
<1> QED
  BY <1>2, <1>6, <1>7, <1>8 DEF EventSets

LEMMA AwaitIoStep ==
    ASSUME IInv, NEW t \in Tasks, AwaitIo(t)
    PROVE  IInv'
<1>1. /\ UNCHANGED <<timeVars, loopVars, due, popVars, timerVars, kern, cq, fdVars>>
      /\ Running(t) /\ where' = [where EXCEPT ![t] = "io"]
      /\ stack' = Tail(stack) /\ sq' = sq \cup {Req("io", t)}
  BY DEF AwaitIo
<1>2. /\ where[t] = "running" /\ ListInv'
      /\ stack' \in Seq(Tasks) /\ where' \in [Tasks -> Places]
      /\ batch' = {u \in Tasks : where'[u] = "due"}
      /\ \A u \in Tasks : where'[u] = IF u = t THEN "io" ELSE where[u]
  BY <1>1, SuspendLists DEF loopVars, popVars
<1>3. Req("io", t) \notin Outstanding
  BY <1>2 DEF IInv, IoInv
<1>4. Apart' /\ Outstanding' = Outstanding \cup {Req("io", t)}
  BY <1>1, <1>3, Prepare DEF IInv, RingInv
<1>5. \A k : /\ Req("timer", k) # Req("io", t) /\ Req("event", k) # Req("io", t)
             /\ Req("signal", k) # Req("io", t)
  BY DEF Req
<1>6. RingInv'
  BY <1>1, <1>4, <1>5 DEF IInv, RingInv, ArmedInv, EventInv, FreshInv, timerVars, loopVars
<1>7. IoInv'
  <2>1. \A u \in Tasks : Req("io", u) = Req("io", t) <=> u = t
    BY ReqNames
  <2> QED
    BY <1>2, <1>4, <2>1 DEF IInv, IoInv
<1>8. RunInv'
  BY <1>1 DEF IInv, RunInv, timeVars, loopVars, popVars, timerVars
<1>9. sq' \subseteq Requests
  <2>1. sq \subseteq Requests
    BY DEF IInv, TypeOK
  <2> QED
    BY <1>1, <2>1, ReqNames
<1>10. TypeOK'
  BY <1>1, <1>2, <1>9 DEF IInv, TypeOK, timeVars, loopVars, popVars, timerVars, fdVars
<1> QED
  BY <1>2, <1>6, <1>7, <1>8, <1>10 DEF IInv

LEMMA FinishStep ==
    ASSUME IInv, NEW t \in Tasks, Finish(t)
    PROVE  IInv'
<1>1. /\ UNCHANGED <<timeVars, loopVars, due, popVars, timerVars, ringVars, fdVars>>
      /\ Running(t) /\ where' = [where EXCEPT ![t] = "done"] /\ stack' = Tail(stack)
  BY DEF Finish
<1>2. /\ where[t] = "running" /\ ListInv'
      /\ stack' \in Seq(Tasks) /\ where' \in [Tasks -> Places]
      /\ batch' = {u \in Tasks : where'[u] = "due"}
      /\ \A u \in Tasks : where'[u] = IF u = t THEN "done" ELSE where[u]
  BY <1>1, SuspendLists DEF loopVars, popVars
<1>3. RingInv' /\ Outstanding' = Outstanding
  BY <1>1, RingFrame DEF IInv, loopVars, timerVars, ringVars
<1>4. IoInv'
  BY <1>2, <1>3, IoFrame DEF IInv
<1>5. RunInv'
  BY <1>1 DEF IInv, RunInv, timeVars, loopVars, popVars, timerVars
<1>6. TypeOK'
  BY <1>1, <1>2 DEF IInv, TypeOK, timeVars, loopVars, popVars, timerVars, ringVars, fdVars
<1> QED
  BY <1>2, <1>3, <1>4, <1>5, <1>6 DEF IInv

\* schedule() and spawn() put an idle coroutine on a list.
LEMMA StartStep ==
    ASSUME IInv, NEW u \in Tasks, Schedule(u) \/ Spawn(u)
    PROVE  IInv'
<1>1. /\ UNCHANGED <<timeVars, pc, run, stopped, local, due, popVars, timerVars, ringVars, fdVars>>
      /\ where[u] = "idle"
  BY DEF Schedule, Spawn, loopVars
<1>2. \/ todo' = Append(todo, u) /\ where' = [where EXCEPT ![u] = "todo"] /\ stack' = stack
      \/ stack' = <<u>> \o stack /\ where' = [where EXCEPT ![u] = "running"] /\ todo' = todo
  BY DEF Schedule, Spawn, loopVars
<1>3. /\ todo \in Seq(Tasks) /\ local \in Seq(Tasks) /\ stack \in Seq(Tasks)
      /\ where \in [Tasks -> Places]
      /\ batch = {t \in Tasks : where[t] = "due"}
  BY DEF IInv, TypeOK
<1>4. /\ Lists(stack, "running", where) /\ Lists(todo, "todo", where) /\ Lists(local, "todo", where)
      /\ \A i \in 1 .. Len(todo), j \in 1 .. Len(local) : todo[i] # local[j]
      /\ pc \notin {"first todo", "todo"} => local = <<>>
  BY DEF IInv, ListInv
<1>5. /\ where' \in [Tasks -> Places] /\ where'[u] \in {"todo", "running"}
      /\ \A t \in Tasks : t # u => where'[t] = where[t]
  BY <1>2, <1>3 DEF Places
<1>6. \A t \in Tasks : /\ where[t] = "todo" => where'[t] = "todo"
                       /\ where[t] = "running" => where'[t] = "running"
                       /\ (where'[t] = "io") <=> (where[t] = "io")
                       /\ (where'[t] = "due") <=> (where[t] = "due")
  BY <1>1, <1>5
<1>7. Lists(stack, "running", where') /\ Lists(todo, "todo", where') /\ Lists(local, "todo", where')
  BY <1>3, <1>4, <1>6, ListsKept
<1>8. \A i \in 1 .. Len(local) : local[i] # u
  BY <1>1, <1>4 DEF Lists
<1>9. ListInv' /\ todo' \in Seq(Tasks) /\ stack' \in Seq(Tasks)
  <2>1. CASE todo' = Append(todo, u) /\ where' = [where EXCEPT ![u] = "todo"] /\ stack' = stack
    <3>1. where'[u] = "todo"
      BY <1>3, <2>1
    <3>2. todo' \in Seq(Tasks) /\ Lists(todo', "todo", where')
      <4>1. where[u] # "todo" /\ Lists(todo, "todo", where) /\ todo \in Seq(Tasks)
        BY <1>1, <1>3, <1>4
      <4>2. \A t \in Tasks : where[t] = "todo" => where'[t] = "todo"
        BY <1>6
      <4>3. Append(todo, u) \in Seq(Tasks) /\ Lists(Append(todo, u), "todo", where')
        BY <3>1, <4>1, <4>2, ListsAppend
      <4> QED
        BY <2>1, <4>3
    <3>3. \A i \in 1 .. Len(todo'), j \in 1 .. Len(local) : todo'[i] # local[j]
      <4>1. \A i \in 1 .. Len(todo') : todo'[i] = u \/ (i \in 1 .. Len(todo) /\ todo'[i] = todo[i])
        BY <1>3, <2>1
      <4> QED
        BY <1>4, <1>8, <4>1
    <3> QED
      BY <1>1, <1>3, <1>4, <1>7, <2>1, <3>2, <3>3 DEF ListInv
  <2>2. CASE stack' = <<u>> \o stack /\ where' = [where EXCEPT ![u] = "running"] /\ todo' = todo
    <3>1. where'[u] = "running"
      BY <1>3, <2>2
    <3>2. stack' \in Seq(Tasks) /\ Lists(stack', "running", where')
      <4>1. where[u] # "running" /\ Lists(stack, "running", where) /\ stack \in Seq(Tasks)
        BY <1>1, <1>3, <1>4
      <4>2. \A t \in Tasks : where[t] = "running" => where'[t] = "running"
        BY <1>6
      <4>3. <<u>> \o stack \in Seq(Tasks) /\ Lists(<<u>> \o stack, "running", where')
        BY <3>1, <4>1, <4>2, ListsPush
      <4> QED
        BY <2>2, <4>3
    <3> QED
      BY <1>1, <1>3, <1>4, <1>7, <2>2, <3>2 DEF ListInv
  <2> QED
    BY <1>2, <2>1, <2>2
<1>10. RingInv' /\ Outstanding' = Outstanding
  BY <1>1, RingFrame DEF IInv, timerVars, ringVars
<1>11. IoInv'
  BY <1>6, <1>10, IoFrame DEF IInv
<1>12. RunInv'
  BY <1>1 DEF IInv, RunInv, timeVars, popVars, timerVars
<1>13. batch = {t \in Tasks : where'[t] = "due"}
  BY <1>3, <1>6
<1>14. TypeOK'
  BY <1>1, <1>5, <1>9, <1>13 DEF IInv, TypeOK, timeVars, popVars, timerVars, ringVars, fdVars
<1> QED
  BY <1>9, <1>10, <1>11, <1>12, <1>14 DEF IInv

-----------------------------------------------------------------------------
(* The theorems.                                                           *)

LEMMA InitIInv == Init => IInv
<1> SUFFICES ASSUME Init PROVE IInv
  OBVIOUS
<1>1. TypeOK
  <2>1. 0 \in 0 .. MaxTime /\ 0 \in 0 .. MaxRuns /\ 0 \in 0 .. EvMax /\ 0 \in 0 .. MaxCalls /\ 0 \in 0 .. MaxSignals /\ 0 \in 0 .. 2
    BY Bounds
  <2>2. todo \in Seq(Tasks) /\ local \in Seq(Tasks) /\ stack \in Seq(Tasks)
    BY DEF Init
  <2>3. where \in [Tasks -> Places] /\ batch = {t \in Tasks : where[t] = "due"}
    BY DEF Init, Places
  <2>4. stopped \in BOOLEAN
    BY DEF Init
  <2> QED
    BY <2>1, <2>2, <2>3, <2>4 DEF Init, TypeOK
<1>2. Outstanding = {}
  BY DEF Init, Outstanding
<1>3. Apart
  BY DEF Init, Apart
<1>4. ArmedInv /\ FreshInv /\ IoInv
  BY <1>2 DEF Init, ArmedInv, FreshInv, IoInv
<1>5. EventInv
  BY RunNumbers DEF Init, EventInv
<1>6. RunInv
  BY DEF Init, RunInv
<1>7. ListInv
  BY DEF Init, ListInv, Lists
<1> QED
  BY <1>1, <1>3, <1>4, <1>5, <1>6, <1>7 DEF IInv, RingInv

LEMMA NextIInv == IInv /\ [Next]_vars => IInv'
<1> SUFFICES ASSUME IInv, [Next]_vars PROVE IInv'
  OBVIOUS
<1>1. CASE Run
  BY <1>1, RunStep
<1>2. CASE Loop
  <2>1. CASE ExecuteTodo
    BY <2>1, ExecuteTodoStep
  <2>2. CASE InitTimeoutCallback
    BY <2>2, InitTimeoutCallbackStep
  <2>3. CASE EndTodo \/ RunReturns \/ StartHandle(FALSE)
    BY <2>3, LoopQuiet
  <2>4. CASE WaitForCompletions
    BY <2>4, WaitForCompletionsStep
  <2>5. CASE EndHandle
    BY <2>5, EndHandleStep
  <2>6. CASE \E c \in cq : HandleEvent(c) \/ HandleSignal(c) \/ HandleIo(c) \/ HandleTimer(c)
    BY <2>6, ReaderStep, HandleIoStep, HandleTimerStep
  <2>7. CASE \E t \in batch : ResumeDue(t)
    BY <2>7, ResumeDueStep
  <2>8. CASE SecondPop
    BY <2>8, SecondPopStep
  <2>9. CASE EndEvents
    BY <2>9, EndEventsStep
  <2> QED
    BY <1>2, <2>1, <2>2, <2>3, <2>4, <2>5, <2>6, <2>7, <2>8, <2>9 DEF Loop
<1>3. CASE StartHandle(TRUE)
  BY <1>3, LoopQuiet
<1>4. CASE \E t \in Tasks : Suspend(t) \/ StopHere(t) \/ Schedule(t) \/ Spawn(t)
  BY <1>4, SleepStep, AwaitIoStep, FinishStep, StopHereStep, StartStep DEF Suspend
<1>5. CASE \E p \in Callers : Notify(p, StopMsg) \/ Notify(p, WakeupMsg) \/ Write(p)
  BY <1>5, CallerStep
<1>6. CASE \E r \in kern : ReadEventfd(r) \/ Expire(r) \/ CompleteIo(r)
  BY <1>6, KernelStep
<1>7. CASE \E r \in kern, sig \in {0, 1} : ReadSignalfd(r, sig)
  BY <1>7, KernelStep
<1>8. CASE Tick
  BY <1>8, TickStep
<1>9. CASE UNCHANGED vars
  <2>1. UNCHANGED <<timeVars, loopVars, taskVars, popVars, timerVars, ringVars, fdVars>>
    BY <1>9 DEF vars
  <2>2. TypeOK'
    BY <2>1 DEF IInv, TypeOK, timeVars, loopVars, taskVars, popVars, timerVars, ringVars, fdVars
  <2>3. now <= now'
    BY <2>1, Times DEF IInv, timeVars
  <2> QED
    BY <2>1, <2>2, <2>3, QuietStep DEF loopVars, taskVars, popVars, timerVars, ringVars
<1> QED
  BY <1>1, <1>2, <1>3, <1>4, <1>5, <1>6, <1>7, <1>8, <1>9 DEF Next

LEMMA Invariance == Spec => []IInv
BY InitIInv, NextIInv, PTL DEF Spec

\* A request is in one place at a time, and a timer coroutine has a timeout
\* outstanding exactly while it is suspended on it: one run of
\* init_timeout_callback never has two timeouts in the rings.
THEOREM RequestsAreSingle == Spec => []OneRequestEach
<1>1. IInv => OneRequestEach
  <2> SUFFICES ASSUME IInv PROVE OneRequestEach
    OBVIOUS
  <2>1. TypeOK /\ Apart
    BY DEF IInv, RingInv
  <2>2. \A k \in Runs : (tmCo[k] = "armed") = (Req("timer", k) \in sq \cup kern \cup {c.req : c \in cq})
    BY DEF IInv, RingInv, ArmedInv, Outstanding
  <2> QED
    BY <2>1, <2>2 DEF OneRequestEach, Apart
<1> QED
  BY <1>1, Invariance, PTL
=============================================================================
