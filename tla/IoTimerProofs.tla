--------------------------- MODULE IoTimerProofs ---------------------------
(***************************************************************************)
(* Proofs about the user-level timer of IoContext: a coroutine is never    *)
(* resumed before its deadline, and the loop never blocks without a        *)
(* kernel timeout while a coroutine sleeps.                                *)
(***************************************************************************)
EXTENDS IoContextProofs

-----------------------------------------------------------------------------
(* No early wake-up.                                                       *)

\* The body of NeverEarly.
Wakes ==
    \A t \in Tasks :
        where[t] = "sleep" /\ where'[t] # "sleep" => where'[t] = "due" /\ now >= due[t]

\* A step that moves one coroutine, which does not sleep.
LEMMA MoveOne ==
    ASSUME TypeOK, NEW t, where[t] # "sleep", NEW q, where' = [where EXCEPT ![t] = q]
    PROVE  Wakes
<1>1. where \in [Tasks -> Places]
  BY DEF TypeOK
<1> QED
  BY <1>1 DEF Wakes

\* A step that detaches what is due at an instant that has passed.
LEMMA Detach ==
    ASSUME TypeOK, NEW time \in Nat, time <= now,
           where' = [t \in Tasks |-> IF t \in LessEq(time) THEN "due" ELSE where[t]]
    PROVE  Wakes
<1>1. now \in Nat /\ due \in [Tasks -> 0 .. MaxTime]
  BY Times DEF TypeOK
<1>2. \A t \in LessEq(time) : t \in Tasks /\ due[t] <= time
  BY DEF LessEq, Sleeping
<1>3. \A t \in LessEq(time) : now >= due[t]
  BY <1>1, <1>2, Bounds
<1> QED
  BY <1>3 DEF Wakes

LEMMA NextWakes == IInv /\ [Next]_vars => Wakes
<1> SUFFICES ASSUME IInv, [Next]_vars PROVE Wakes
  OBVIOUS
<1>0. TypeOK
  BY DEF IInv
<1>1. ASSUME UNCHANGED where PROVE Wakes
  BY <1>1 DEF Wakes
<1>2. CASE Run \/ StartHandle(TRUE) \/ Tick \/ UNCHANGED vars
  BY <1>1, <1>2 DEF Run, StartHandle, Tick, vars, taskVars
<1>3. CASE Loop
  <2>1. CASE ExecuteTodo
    <3>1. where[Head(local)] = "todo" /\ where' = [where EXCEPT ![Head(local)] = "running"]
      <4>1. /\ local \in Seq(Tasks) /\ local # <<>> /\ where \in [Tasks -> Places]
            /\ Lists(local, "todo", where)
        BY <2>1 DEF ExecuteTodo, IInv, TypeOK, ListInv
      <4> QED
        BY <2>1, <4>1, ListsTail DEF ExecuteTodo
    <3> QED
      BY <1>0, <3>1, MoveOne
  <2>2. CASE InitTimeoutCallback \/ EndTodo \/ RunReturns \/ WaitForCompletions
    BY <1>1, <2>2 DEF InitTimeoutCallback, EndTodo, RunReturns, WaitForCompletions, taskVars
  <2>3. CASE StartHandle(FALSE) \/ EndHandle \/ EndEvents
    BY <1>1, <2>3 DEF StartHandle, EndHandle, EndEvents, taskVars
  <2>4. ASSUME NEW c \in cq, HandleEvent(c) \/ HandleSignal(c)
        PROVE  Wakes
    BY <1>1, <2>4 DEF HandleEvent, HandleSignal, taskVars
  <2>5. ASSUME NEW c \in cq, HandleIo(c)
        PROVE  Wakes
    <3>1. c.req \in Requests /\ c.req.kind = "io" /\ where' = [where EXCEPT ![c.req.who] = "running"]
      BY <2>5 DEF HandleIo, IInv, TypeOK
    <3>2. c.req.who \in Tasks /\ c.req = Req("io", c.req.who)
      BY <3>1, ReqNames
    <3>3. where[c.req.who] = "io"
      BY <3>2 DEF IInv, IoInv, Outstanding
    <3> QED
      BY <1>0, <3>1, <3>3, MoveOne
  <2>6. ASSUME NEW c \in cq, HandleTimer(c)
        PROVE  Wakes
    <3>1. CASE Sleeping = {}
      BY <1>1, <2>6, <3>1 DEF HandleTimer
    <3>2. CASE Sleeping # {}
      <4>1. where' = [t \in Tasks |-> IF t \in LessEq(now) THEN "due" ELSE where[t]]
        BY <2>6, <3>2 DEF HandleTimer
      <4>2. now \in Nat /\ now <= now
        BY <1>0, Times
      <4> QED
        BY <1>0, <4>1, <4>2, Detach
    <3> QED
      BY <3>1, <3>2
  <2>7. ASSUME NEW t \in batch, ResumeDue(t)
        PROVE  Wakes
    <3>1. where[t] = "due" /\ where' = [where EXCEPT ![t] = "running"]
      BY <2>7 DEF ResumeDue, IInv, TypeOK
    <3> QED
      BY <1>0, <3>1, MoveOne
  <2>8. CASE SecondPop
    <3>1. pc = "events" /\ where' = [t \in Tasks |-> IF t \in LessEq(stamp) THEN "due" ELSE where[t]]
      BY <2>8 DEF SecondPop
    <3>2. stamp <= now /\ stamp \in Nat
      BY <1>0, <3>1, Times DEF IInv, RunInv
    <3> QED
      BY <1>0, <3>1, <3>2, Detach
  <2> QED
    BY <1>3, <2>1, <2>2, <2>3, <2>4, <2>5, <2>6, <2>7, <2>8 DEF Loop
<1>4. ASSUME NEW t \in Tasks, Suspend(t)
      PROVE  Wakes
  <2>1. Running(t) /\ \E q : where' = [where EXCEPT ![t] = q]
    BY <1>4 DEF Suspend, Sleep, AwaitIo, Finish
  <2>2. /\ stack \in Seq(Tasks) /\ stack # <<>> /\ where \in [Tasks -> Places]
        /\ Lists(stack, "running", where) /\ Head(stack) = t
    BY <2>1 DEF Running, IInv, TypeOK, ListInv
  <2>3. where[t] = "running"
    BY <2>2, ListsTail
  <2> QED
    BY <1>0, <2>1, <2>3, MoveOne
<1>5. ASSUME NEW t \in Tasks, StopHere(t)
      PROVE  Wakes
  BY <1>1, <1>5 DEF StopHere, taskVars
<1>6. ASSUME NEW t \in Tasks, Schedule(t) \/ Spawn(t)
      PROVE  Wakes
  <2>1. where[t] = "idle" /\ \E q : where' = [where EXCEPT ![t] = q]
    BY <1>6 DEF Schedule, Spawn
  <2> QED
    BY <1>0, <2>1, MoveOne
<1>7. ASSUME NEW p \in Callers, Notify(p, StopMsg) \/ Notify(p, WakeupMsg) \/ Write(p)
      PROVE  Wakes
  BY <1>1, <1>7 DEF Notify, Write, taskVars
<1>8. ASSUME NEW r \in kern, ReadEventfd(r) \/ Expire(r) \/ CompleteIo(r)
      PROVE  Wakes
  BY <1>1, <1>8 DEF ReadEventfd, Expire, CompleteIo, Post, taskVars
<1>9. ASSUME NEW r \in kern, NEW sig \in {0, 1}, ReadSignalfd(r, sig)
      PROVE  Wakes
  BY <1>1, <1>9 DEF ReadSignalfd, Post, taskVars
<1> QED
  BY <1>2, <1>3, <1>4, <1>5, <1>6, <1>7, <1>8, <1>9 DEF Next

\* A sleeping coroutine leaves the queue only through handle_events, at or after
\* its deadline, whatever the delays and however the thread is held up.
THEOREM TimersAreNeverEarly == Spec => NeverEarly
<1>1. IInv /\ [Next]_vars => [Wakes]_vars
  BY NextWakes
<1>2. Spec => [][Wakes]_vars
  BY <1>1, Invariance, PTL DEF Spec
<1> QED
  BY <1>2 DEF NeverEarly, Wakes

-----------------------------------------------------------------------------
(* No lost wake-up: the strengthening.                                     *)

\* The loop is past the start of the timer coroutine.
Started == pc \in {"test", "wait", "handle", "events", "todo"}

\* The timer coroutine of this run waits for a timeout or for an insertion,
\* unless the loop stops or it is in handle_events.
ArmInv ==
    Started /\ ~stopped => \/ tmCo[run] \in {"armed", "waiting"}
                           \/ pc = "events" /\ handler = run

\* It waits for an insertion only while nobody sleeps.
AwakeInv == event \in Runs => Sleeping = {}

\* The requests that the kernel has seen.
Arrived == kern \cup {c.req : c \in cq}

\* With a thread that takes no time, its timeout is not in the past.
PunctualInv ==
    Urgent /\ Started /\ Req("timer", run) \in Arrived => now <= armedAt[run]

\* Where the loop may block.
BlockInv ==
    /\ pc # "out" => run \in Runs
    /\ pc \in {"out", "test", "wait"} => stack = <<>>
    /\ pc = "wait" => ~stopped /\ sq = {}

\* What the kernel posts for a timeout.
CqeInv == \A c \in cq : c = Cqe(c.req, c.res) /\ (c.req.kind = "timer" => c.res = 0)

TInv == ArmInv /\ AwakeInv /\ PunctualInv /\ BlockInv /\ CqeInv

-----------------------------------------------------------------------------
(* It is preserved.                                                        *)

\* The steps of everything but the clock and the timer coroutine.
LEMMA TFrame ==
    ASSUME TInv, UNCHANGED <<now, run, handler, tmCo, armedAt, event>>, ~stopped' => ~stopped,
           Sleeping' \subseteq Sleeping, Arrived' \subseteq Arrived,
           Started' => Started, pc = "events" => pc' = "events", BlockInv', CqeInv'
    PROVE  TInv'
<1>1. ArmInv'
  BY DEF TInv, ArmInv
<1>2. AwakeInv'
  BY DEF TInv, AwakeInv
<1>3. PunctualInv'
  BY DEF TInv, PunctualInv
<1> QED
  BY <1>1, <1>2, <1>3 DEF TInv

LEMMA LoopT ==
    ASSUME TInv, EndTodo \/ RunReturns \/ StartHandle(TRUE) \/ StartHandle(FALSE) \/ EndHandle
    PROVE  TInv'
<1>1. /\ UNCHANGED <<timeVars, run, stopped, taskVars, popVars, timerVars, ringVars>>
      /\ \/ pc = "todo" /\ pc' = "test" /\ stack = <<>>
         \/ pc = "test" /\ pc' = "out"
         \/ pc = "wait" /\ pc' = "handle"
         \/ pc = "handle" /\ pc' = "todo"
  BY DEF EndTodo, RunReturns, StartHandle, EndHandle
<1>2. /\ UNCHANGED <<now, run, stopped, handler, tmCo, armedAt, event, sq, kern, cq, where, stack>>
  BY <1>1 DEF timeVars, taskVars, popVars, timerVars, ringVars
<1>3. Sleeping' = Sleeping /\ Arrived' = Arrived
  BY <1>2 DEF Sleeping, Arrived
<1>4. BlockInv'
  BY <1>1, <1>2 DEF TInv, BlockInv
<1>5. CqeInv'
  BY <1>2 DEF TInv, CqeInv
<1>6. (Started' => Started) /\ pc # "events"
  BY <1>1 DEF Started
<1> QED
  BY <1>2, <1>3, <1>4, <1>5, <1>6, TFrame

\* The steps of callers, and stop() on the thread.
LEMMA OtherT ==
    ASSUME TInv, UNCHANGED <<timeVars, pc, run, taskVars, popVars, timerVars, ringVars>>,
           ~stopped' => ~stopped, stopped' = stopped \/ stack # <<>>
    PROVE  TInv'
<1>1. /\ UNCHANGED <<now, pc, run, handler, tmCo, armedAt, event, sq, kern, cq, where, stack>>
  BY DEF timeVars, taskVars, popVars, timerVars, ringVars
<1>2. Sleeping' = Sleeping /\ Arrived' = Arrived
  BY <1>1 DEF Sleeping, Arrived
<1>3. BlockInv'
  BY <1>1 DEF TInv, BlockInv
<1>4. CqeInv'
  BY <1>1 DEF TInv, CqeInv
<1>5. Started' = Started
  BY <1>1 DEF Started
<1> QED
  BY <1>1, <1>2, <1>3, <1>4, <1>5, TFrame

\* The steps of user coroutines other than going to sleep.
LEMMA TaskT ==
    ASSUME TInv, NEW t, NEW q, q # "sleep", where' = [where EXCEPT ![t] = q], where \in [Tasks -> Places],
           UNCHANGED <<now, pc, run, stopped, handler, tmCo, armedAt, event, kern>>,
           cq' \subseteq cq, sq' = sq \/ pc # "wait",
           stack' = stack \/ pc \notin {"out", "test", "wait"}
    PROVE  TInv'
<1>1. Sleeping' \subseteq Sleeping
  BY DEF Sleeping
<1>2. Arrived' \subseteq Arrived
  BY DEF Arrived
<1>3. BlockInv'
  BY DEF TInv, BlockInv
<1>4. CqeInv'
  BY DEF TInv, CqeInv
<1>5. Started' = Started
  BY DEF Started
<1> QED
  BY <1>1, <1>2, <1>3, <1>4, <1>5, TFrame

LEMMA ReaderT ==
    ASSUME TInv, NEW c \in cq, HandleEvent(c) \/ HandleSignal(c)
    PROVE  TInv'
<1>1. /\ UNCHANGED <<timeVars, pc, run, taskVars, popVars, timerVars, kern>>
      /\ pc = "handle" /\ cq' = cq \ {c}
  BY DEF HandleEvent, HandleSignal, Handling
<1>2. ~stopped' => ~stopped
  BY DEF HandleEvent, HandleSignal
<1>3. UNCHANGED <<now, pc, run, handler, tmCo, armedAt, event, kern, where, stack>>
  BY <1>1 DEF timeVars, taskVars, popVars, timerVars
<1>4. Sleeping' = Sleeping /\ Started' = Started
  BY <1>3 DEF Sleeping, Started
<1>5. Arrived' \subseteq Arrived
  BY <1>1, <1>3 DEF Arrived
<1>6. BlockInv'
  BY <1>1, <1>3 DEF TInv, BlockInv
<1>7. CqeInv'
  BY <1>1 DEF TInv, CqeInv
<1> QED
  BY <1>2, <1>3, <1>4, <1>5, <1>6, <1>7, TFrame

LEMMA PostT ==
    ASSUME TInv, NEW r \in kern, NEW res, Post(r, res), r.kind = "timer" => res = 0
    PROVE  TInv'
<1>1. /\ UNCHANGED <<timeVars, loopVars, taskVars, popVars, timerVars, sq>>
      /\ kern' = kern \ {r} /\ cq' = cq \cup {Cqe(r, res)}
  BY DEF Post
<1>2. UNCHANGED <<now, pc, run, stopped, handler, tmCo, armedAt, event, sq, where, stack>>
  BY <1>1 DEF timeVars, loopVars, taskVars, popVars, timerVars
<1>3. Cqe(r, res).req = r /\ Cqe(r, res).res = res
  BY DEF Cqe
<1>4. Arrived' \subseteq Arrived
  BY <1>1, <1>3 DEF Arrived
<1>5. CqeInv'
  BY <1>1, <1>3 DEF TInv, CqeInv
<1>6. Sleeping' = Sleeping /\ Started' = Started
  BY <1>2 DEF Sleeping, Started
<1>7. BlockInv'
  BY <1>2 DEF TInv, BlockInv
<1> QED
  BY <1>2, <1>4, <1>5, <1>6, <1>7, TFrame

LEMMA SecondPopT ==
    ASSUME TInv, SecondPop
    PROVE  TInv'
<1>1. /\ UNCHANGED <<timeVars, loopVars, stack, handler, timerVars, ringVars>>
      /\ where' = [t \in Tasks |-> IF t \in LessEq(stamp) THEN "due" ELSE where[t]]
  BY DEF SecondPop
<1>2. UNCHANGED <<now, pc, run, stopped, handler, tmCo, armedAt, event, sq, kern, cq, stack>>
  BY <1>1 DEF timeVars, loopVars, timerVars, ringVars
<1>3. Sleeping' \subseteq Sleeping
  BY <1>1 DEF Sleeping
<1>4. Arrived' = Arrived /\ Started' = Started
  BY <1>2 DEF Arrived, Started
<1>5. BlockInv' /\ CqeInv'
  BY <1>2 DEF TInv, BlockInv, CqeInv
<1> QED
  BY <1>2, <1>3, <1>4, <1>5, TFrame

\* With Urgent, time passes in the loop only while no timeout has expired.
LEMMA TickT ==
    ASSUME TypeOK, TInv, Tick
    PROVE  TInv'
<1>1. UNCHANGED <<loopVars, taskVars, popVars, timerVars, ringVars>>
  BY DEF Tick
<1>2. UNCHANGED <<pc, run, stopped, handler, tmCo, armedAt, event, sq, kern, cq, where, stack>>
  BY <1>1 DEF loopVars, taskVars, popVars, timerVars, ringVars
<1>3. Arrived' = Arrived /\ Started' = Started /\ Sleeping' = Sleeping
  BY <1>2 DEF Arrived, Started, Sleeping
<1>4. BlockInv' /\ CqeInv' /\ ArmInv' /\ AwakeInv'
  BY <1>2, <1>3 DEF TInv, BlockInv, CqeInv, ArmInv, AwakeInv
<1>5. PunctualInv'
  <2> SUFFICES ASSUME Urgent, Started, Req("timer", run) \in Arrived
               PROVE  now' <= armedAt[run]
    BY <1>2, <1>3 DEF PunctualInv
  <2>1. pc = "wait" /\ cq = {} /\ (\A r \in kern : ~Expired(r)) /\ now' = now + 1
    BY DEF Tick, Started
  <2>2. Req("timer", run) \in kern
    BY <2>1 DEF Arrived
  <2>3. ~(armedAt[run] <= now)
    BY <2>1, <2>2 DEF Expired, Req
  <2>4. run \in Runs
    BY <2>1 DEF TInv, BlockInv
  <2>5. armedAt \in [Runs -> 0 .. MaxTime]
    BY DEF TypeOK
  <2>6. armedAt[run] \in Nat /\ now \in Nat
    BY <2>4, <2>5, Times, Bounds
  <2> QED
    BY <2>1, <2>3, <2>6
<1> QED
  BY <1>4, <1>5 DEF TInv

LEMMA RunT ==
    ASSUME IInv, IInv', TInv, Run
    PROVE  TInv'
<1>1. /\ UNCHANGED <<timeVars, taskVars, popVars, timerVars, kern, cq>>
      /\ pc' = "first todo"
  BY DEF Run
<1>2. UNCHANGED <<event, where, cq>>
  BY <1>1 DEF taskVars, timerVars
<1>3. ~Started'
  BY <1>1 DEF Started
<1>4. run' \in Runs
  BY <1>1 DEF IInv, RunInv
<1>5. Sleeping' = Sleeping
  BY <1>2 DEF Sleeping
<1> QED
  BY <1>1, <1>2, <1>3, <1>4, <1>5 DEF TInv, ArmInv, AwakeInv, PunctualInv, BlockInv, CqeInv

\* The submitted timeouts start to run, none of them in the past.
LEMMA WaitForCompletionsT ==
    ASSUME IInv, TInv, WaitForCompletions
    PROVE  TInv'
<1>1. /\ UNCHANGED <<timeVars, run, stopped, taskVars, popVars, tmCo, event, cq>>
      /\ pc = "test" /\ pc' = "wait" /\ kern' = kern \cup sq /\ sq' = {} /\ ~stopped
  BY DEF WaitForCompletions
<1>2. UNCHANGED <<now, run, stopped, handler, tmCo, event, cq, where, stack>>
  BY <1>1 DEF timeVars, taskVars, popVars
<1>3. Started /\ Started' /\ Sleeping' = Sleeping /\ run \in Runs
  BY <1>1, <1>2 DEF Started, Sleeping, TInv, BlockInv
<1>4. ArmInv' /\ AwakeInv'
  BY <1>1, <1>2, <1>3 DEF TInv, ArmInv, AwakeInv
<1>5. BlockInv' /\ CqeInv'
  BY <1>1, <1>2 DEF TInv, BlockInv, CqeInv
<1>6. PunctualInv'
  <2> SUFFICES ASSUME Urgent, Req("timer", run) \in Arrived'
               PROVE  now <= armedAt'[run]
    BY <1>2 DEF PunctualInv
  <2>1. now \in 0 .. MaxTime /\ armedAt \in [Runs -> 0 .. MaxTime]
    BY DEF IInv, TypeOK
  <2>2. armedAt'[run] = IF Req("timer", run) \notin sq THEN armedAt[run]
                        ELSE IF now + armedAt[run] < MaxTime THEN now + armedAt[run] ELSE MaxTime
    BY <1>3 DEF WaitForCompletions
  <2>3. CASE Req("timer", run) \in sq
    BY <1>3, <2>1, <2>2, <2>3, Bounds
  <2>4. CASE Req("timer", run) \notin sq
    <3>1. Req("timer", run) \in Arrived
      BY <1>1, <1>2, <2>4 DEF Arrived
    <3> QED
      BY <1>3, <2>2, <2>4, <3>1 DEF TInv, PunctualInv
  <2> QED
    BY <2>3, <2>4
<1> QED
  BY <1>4, <1>5, <1>6 DEF TInv

\* What the inner loop of the timer coroutine k does, and why.
LEMMA InnerLoopT ==
    ASSUME TypeOK, NEW k \in Runs, TimerInnerLoop(k)
    PROVE  /\ \/ tmCo'[k] = "armed" /\ event' = event
              \/ tmCo'[k] = "ended" /\ stopped /\ event' = Unset
              \/ tmCo'[k] = "waiting" /\ Sleeping = {} /\ event' = k
              \/ tmCo'[k] = "aborted" /\ event' = event
           /\ \A j \in Runs : j # k => tmCo'[j] = tmCo[j] /\ armedAt'[j] = armedAt[j]
<1>1. /\ tmCo \in [Runs -> {"none", "armed", "waiting", "running", "ended", "aborted"}]
      /\ armedAt \in [Runs -> 0 .. MaxTime]
  BY DEF TypeOK
<1>2. CASE Sleeping # {}
  <2>1. ArmTimer(k, Deadlines(where, due)) /\ event' = event
    BY <1>2 DEF TimerInnerLoop
  <2> QED
    BY <1>1, <2>1 DEF ArmTimer
<1>3. CASE Sleeping = {}
  <2>1. AwaitTimerEvent(k)
    BY <1>3 DEF TimerInnerLoop
  <2>2. CASE event = Set /\ stopped
    BY <1>1, <2>1, <2>2 DEF AwaitTimerEvent, TimerEnds, Set, Unset
  <2>3. CASE event = Unset \/ (event = Set /\ ~stopped)
    BY <1>1, <1>3, <2>1, <2>3 DEF AwaitTimerEvent, Set, Unset
  <2>4. CASE event \notin {Set, Unset}
    BY <1>1, <2>1, <2>4 DEF AwaitTimerEvent, Set, Unset
  <2> QED
    BY <2>2, <2>3, <2>4
<1> QED
  BY <1>2, <1>3

\* A timer coroutine k, which has no request outstanding that the kernel has
\* seen, comes to its next suspension.
LEMMA TimerT ==
    ASSUME TypeOK, TInv, NEW k \in Runs, TimerInnerLoop(k), run \in Runs,
           UNCHANGED <<now, run, stopped, where>>, Arrived' \subseteq Arrived,
           Req("timer", k) \notin Arrived',
           k = run \/ (Started /\ ~(pc = "events" /\ handler = run)),
           pc' # "events", tmCo'[k] = "aborted" => pc' = "abort", BlockInv', CqeInv'
    PROVE  TInv'
<1>1. Sleeping' = Sleeping
  BY DEF Sleeping
<1>2. ArmInv'
  <2> SUFFICES ASSUME Started', ~stopped
               PROVE  tmCo'[run] \in {"armed", "waiting"}
    BY DEF ArmInv
  <2>1. CASE k = run
    <3>1. tmCo'[k] # "aborted"
      BY DEF Started
    <3> QED
      BY <2>1, <3>1, InnerLoopT
  <2>2. CASE k # run
    <3>1. tmCo'[run] = tmCo[run]
      BY <2>2, InnerLoopT
    <3> QED
      BY <2>2, <3>1 DEF TInv, ArmInv
  <2> QED
    BY <2>1, <2>2
<1>3. AwakeInv'
  <2>1. event' = event \/ event' = Unset \/ Sleeping = {}
    BY InnerLoopT
  <2>2. Unset \notin Runs
    BY RunNumbers
  <2> QED
    BY <1>1, <2>1, <2>2 DEF TInv, AwakeInv
<1>4. PunctualInv'
  <2> SUFFICES ASSUME Urgent, Started', Req("timer", run) \in Arrived'
               PROVE  now <= armedAt'[run]
    BY DEF PunctualInv
  <2>1. k # run
    OBVIOUS
  <2>2. armedAt'[run] = armedAt[run] /\ Started
    BY <2>1, InnerLoopT
  <2> QED
    BY <2>2 DEF TInv, PunctualInv
<1> QED
  BY <1>2, <1>3, <1>4 DEF TInv

LEMMA InitTimeoutCallbackT ==
    ASSUME IInv, TInv, InitTimeoutCallback
    PROVE  TInv'
<1>1. /\ UNCHANGED <<timeVars, run, stopped, taskVars, kern, cq>>
      /\ pc = "first todo" /\ stack = <<>>
      /\ pc' = IF tmCo'[run] = "aborted" THEN "abort" ELSE "test"
  BY DEF InitTimeoutCallback
<1>2. UNCHANGED <<now, run, stopped, where, stack, kern, cq>>
  BY <1>1 DEF timeVars, taskVars
<1>3. run \in Runs /\ tmCo[run] = "none" /\ TypeOK
  BY <1>1 DEF IInv, RunInv
<1>4. Arrived' = Arrived /\ Req("timer", run) \notin Arrived
  <2>1. Req("timer", run) \notin Outstanding
    BY <1>3 DEF IInv, RingInv, ArmedInv
  <2> QED
    BY <1>2, <2>1 DEF Arrived, Outstanding
<1>5. BlockInv' /\ CqeInv'
  BY <1>1, <1>2, <1>3 DEF TInv, BlockInv, CqeInv
<1>6. CASE stopped
  <2>1. event' = event
    BY <1>6 DEF InitTimeoutCallback
  <2>2. Sleeping' = Sleeping
    BY <1>2 DEF Sleeping
  <2>3. ArmInv' /\ AwakeInv'
    BY <1>2, <1>6, <2>1, <2>2 DEF TInv, ArmInv, AwakeInv
  <2>4. PunctualInv'
    BY <1>2, <1>4 DEF PunctualInv
  <2> QED
    BY <1>5, <2>3, <2>4 DEF TInv
<1>7. CASE ~stopped
  <2>1. TimerInnerLoop(run)
    BY <1>7 DEF InitTimeoutCallback
  <2>2. pc' # "events" /\ (tmCo'[run] = "aborted" => pc' = "abort")
    BY <1>1
  <2> QED
    BY <1>2, <1>3, <1>4, <1>5, <2>1, <2>2, TimerT
<1> QED
  BY <1>6, <1>7

LEMMA EndEventsT ==
    ASSUME IInv, TInv, EndEvents
    PROVE  TInv'
<1>1. /\ UNCHANGED <<timeVars, run, stopped, taskVars, kern, cq>>
      /\ pc = "events" /\ TimerInnerLoop(handler)
      /\ pc' = IF tmCo'[handler] = "aborted" THEN "abort" ELSE "handle"
  BY DEF EndEvents
<1>2. UNCHANGED <<now, run, stopped, where, stack, kern, cq>>
  BY <1>1 DEF timeVars, taskVars
<1>3. handler \in Runs /\ tmCo[handler] = "running" /\ run \in Runs /\ TypeOK
  BY <1>1 DEF IInv, RunInv, TInv, BlockInv
<1>4. Arrived' = Arrived /\ Req("timer", handler) \notin Arrived
  <2>1. Req("timer", handler) \notin Outstanding
    BY <1>3 DEF IInv, RingInv, ArmedInv
  <2> QED
    BY <1>2, <2>1 DEF Arrived, Outstanding
<1>5. BlockInv' /\ CqeInv'
  BY <1>1, <1>2, <1>3 DEF TInv, BlockInv, CqeInv
<1>6. pc' # "events" /\ (tmCo'[handler] = "aborted" => pc' = "abort")
  BY <1>1
<1>7. handler = run \/ (Started /\ ~(pc = "events" /\ handler = run))
  BY <1>1 DEF Started
<1> QED
  BY <1>1, <1>2, <1>3, <1>4, <1>5, <1>6, <1>7, TimerT

LEMMA HandleTimerT ==
    ASSUME IInv, TInv, NEW c \in cq, HandleTimer(c)
    PROVE  TInv'
<1>1. /\ UNCHANGED <<timeVars, run, stopped, stack, kern>>
      /\ pc = "handle" /\ cq' = cq \ {c} /\ c.req.kind = "timer"
  BY DEF HandleTimer, Handling
<1>2. c.req \in Requests /\ tmCo \in [Runs -> {"none", "armed", "waiting", "running", "ended", "aborted"}]
      /\ armedAt \in [Runs -> 0 .. MaxTime] /\ TypeOK
  BY DEF IInv, TypeOK
<1>3. PICK k \in Runs : k = c.req.who /\ c.req = Req("timer", k)
  BY <1>1, <1>2, ReqNames
<1>4. run \in Runs /\ Started /\ UNCHANGED now
  BY <1>1 DEF TInv, BlockInv, Started, timeVars
<1>5. Arrived' \subseteq Arrived /\ Req("timer", k) \notin Arrived'
  BY <1>1, <1>3 DEF IInv, RingInv, Apart, Arrived
<1>6. CqeInv'
  BY <1>1 DEF TInv, CqeInv
<1>7. CASE Sleeping = {}
  <2>1. /\ TimerInnerLoop(k) /\ UNCHANGED where
        /\ pc' = IF tmCo'[k] = "aborted" THEN "abort" ELSE pc
    BY <1>3, <1>7 DEF HandleTimer
  <2>2. pc' # "events" /\ (tmCo'[k] = "aborted" => pc' = "abort") /\ pc' \in {"handle", "abort"}
    BY <1>1, <2>1
  <2>3. BlockInv'
    BY <1>1, <1>4, <2>2 DEF BlockInv
  <2>4. k = run \/ (Started /\ ~(pc = "events" /\ handler = run))
    BY <1>1, <1>4
  <2> QED
    BY <1>1, <1>2, <1>4, <1>5, <1>6, <2>1, <2>2, <2>3, <2>4, TimerT
<1>8. CASE Sleeping # {}
  <2>1. /\ handler' = k /\ tmCo' = [tmCo EXCEPT ![k] = "running"]
        /\ armedAt' = [armedAt EXCEPT ![k] = 0]
        /\ pc' = "events" /\ event' = event
        /\ where' = [t \in Tasks |-> IF t \in LessEq(now) THEN "due" ELSE where[t]]
    BY <1>3, <1>8 DEF HandleTimer
  <2>2. Sleeping' \subseteq Sleeping
    BY <2>1 DEF Sleeping
  <2>3. AwakeInv'
    BY <2>1, <2>2 DEF TInv, AwakeInv
  <2>4. BlockInv'
    BY <1>1, <1>4, <2>1 DEF BlockInv
  <2>5. ArmInv'
    <3>1. CASE k = run
      BY <1>1, <2>1, <3>1 DEF ArmInv
    <3>2. CASE k # run
      <4>1. tmCo'[run] = tmCo[run]
        BY <1>2, <1>4, <2>1, <3>2
      <4> QED
        BY <1>1, <1>4, <4>1 DEF TInv, ArmInv
    <3> QED
      BY <3>1, <3>2
  <2>6. PunctualInv'
    <3>1. CASE k = run
      BY <1>1, <1>5, <3>1 DEF PunctualInv
    <3>2. CASE k # run
      <4>1. armedAt'[run] = armedAt[run]
        BY <1>2, <1>4, <2>1, <3>2
      <4> QED
        BY <1>1, <1>4, <1>5, <4>1 DEF TInv, PunctualInv
    <3> QED
      BY <3>1, <3>2
  <2> QED
    BY <1>6, <2>3, <2>4, <2>5, <2>6 DEF TInv
<1> QED
  BY <1>7, <1>8

\* An insertion wakes the timer coroutine that waits.
LEMMA SleepT ==
    ASSUME IInv, TInv, NEW t \in Tasks, NEW d \in Delays, Sleep(t, d)
    PROVE  TInv'
<1>1. /\ UNCHANGED <<timeVars, loopVars, popVars, kern, cq>>
      /\ stack # <<>>
      /\ SetTimerEvent(Deadlines(where', due'))
  BY DEF Sleep, Running
<1>2. UNCHANGED <<now, pc, run, stopped, handler, kern, cq>>
  BY <1>1 DEF timeVars, loopVars, popVars
<1>3. /\ tmCo \in [Runs -> {"none", "armed", "waiting", "running", "ended", "aborted"}]
      /\ armedAt \in [Runs -> 0 .. MaxTime] /\ event \in {Unset, Set} \cup Runs
  BY DEF IInv, TypeOK
<1>4. Arrived' = Arrived /\ Started' = Started
  BY <1>2 DEF Arrived, Started
<1>5. BlockInv' /\ CqeInv'
  BY <1>1, <1>2 DEF TInv, BlockInv, CqeInv
<1>6. Unset \notin Runs /\ Set \notin Runs
  BY RunNumbers
<1>7. Started => run \in Runs
  BY DEF Started, TInv, BlockInv
<1>8. CASE event \in {Unset, Set}
  <2>1. event' = Set /\ UNCHANGED <<tmCo, armedAt>>
    BY <1>1, <1>8 DEF SetTimerEvent
  <2>2. AwakeInv'
    BY <1>6, <2>1 DEF AwakeInv
  <2>3. ArmInv' /\ PunctualInv'
    BY <1>2, <1>4, <2>1 DEF TInv, ArmInv, PunctualInv
  <2> QED
    BY <1>5, <2>2, <2>3 DEF TInv
<1>9. CASE event \in Runs
  <2>1. /\ event' = Unset
        /\ stopped \/ tmCo'[event] = "armed"
        /\ \A j \in Runs : j # event => tmCo'[j] = tmCo[j] /\ armedAt'[j] = armedAt[j]
    <3>1. CASE stopped
      BY <1>1, <1>3, <1>6, <1>9, <3>1 DEF SetTimerEvent, TimerEnds
    <3>2. CASE ~stopped
      <4>1. event' = Unset /\ ArmTimer(event, Deadlines(where', due'))
        BY <1>1, <1>6, <1>9, <3>2 DEF SetTimerEvent
      <4> QED
        BY <1>3, <1>9, <4>1 DEF ArmTimer
    <3> QED
      BY <3>1, <3>2
  <2>2. Req("timer", event) \notin Arrived
    <3>1. Req("timer", event) \notin Outstanding
      BY <1>9 DEF IInv, RingInv, EventInv, ArmedInv
    <3> QED
      BY <3>1 DEF Arrived, Outstanding
  <2>3. AwakeInv'
    BY <1>6, <2>1 DEF AwakeInv
  <2>4. ArmInv'
    <3>1. CASE event = run
      BY <1>2, <2>1, <3>1 DEF ArmInv
    <3>2. CASE event # run
      BY <1>2, <1>4, <1>7, <2>1, <3>2 DEF TInv, ArmInv
    <3> QED
      BY <3>1, <3>2
  <2>5. PunctualInv'
    <3>1. CASE event = run
      BY <1>2, <1>4, <2>2, <3>1 DEF PunctualInv
    <3>2. CASE event # run
      BY <1>2, <1>4, <1>7, <2>1, <3>2 DEF TInv, PunctualInv
    <3> QED
      BY <3>1, <3>2
  <2> QED
    BY <1>5, <2>3, <2>4, <2>5 DEF TInv
<1> QED
  BY <1>3, <1>8, <1>9

LEMMA TaskStepsT ==
    ASSUME IInv, TInv, NEW t \in Tasks,
           AwaitIo(t) \/ Finish(t) \/ Schedule(t) \/ Spawn(t)
    PROVE  TInv'
<1>1. where \in [Tasks -> Places]
  BY DEF IInv, TypeOK
<1>2. \E q : q # "sleep" /\ where' = [where EXCEPT ![t] = q]
  BY DEF AwaitIo, Finish, Schedule, Spawn
<1>3. /\ UNCHANGED <<timeVars, pc, run, stopped, popVars, timerVars, kern, cq>>
      /\ stack' = stack \/ stack # <<>>
      /\ sq' = sq \/ stack # <<>>
  BY DEF AwaitIo, Finish, Schedule, Spawn, Running, loopVars, ringVars
<1>4. /\ UNCHANGED <<now, pc, run, stopped, handler, tmCo, armedAt, event, kern>> /\ cq' \subseteq cq
      /\ stack' = stack \/ pc \notin {"out", "test", "wait"}
      /\ sq' = sq \/ pc # "wait"
  BY <1>3 DEF timeVars, popVars, timerVars, TInv, BlockInv
<1> QED
  BY <1>1, <1>2, <1>4, TaskT

LEMMA ResumesT ==
    ASSUME IInv, TInv,
           \/ ExecuteTodo
           \/ \E c \in cq : HandleIo(c)
           \/ \E t \in batch : ResumeDue(t)
    PROVE  TInv'
<1>1. where \in [Tasks -> Places]
  BY DEF IInv, TypeOK
<1>2. \E t : where' = [where EXCEPT ![t] = "running"]
  BY DEF ExecuteTodo, HandleIo, ResumeDue
<1>3. /\ UNCHANGED <<timeVars, pc, run, stopped, handler, timerVars, sq, kern>>
      /\ cq' \subseteq cq /\ pc \in {"first todo", "todo", "handle", "events"}
  BY DEF ExecuteTodo, HandleIo, Handling, ResumeDue, loopVars, popVars, ringVars
<1>4. /\ UNCHANGED <<now, pc, run, stopped, handler, tmCo, armedAt, event, kern, sq>>
      /\ cq' \subseteq cq /\ pc \notin {"out", "test", "wait"}
  BY <1>3 DEF timeVars, timerVars
<1> QED
  BY <1>1, <1>2, <1>4, TaskT

LEMMA NextTInv == IInv /\ IInv' /\ TInv /\ [Next]_vars => TInv'
<1> SUFFICES ASSUME IInv, IInv', TInv, [Next]_vars PROVE TInv'
  OBVIOUS
<1>0. TypeOK
  BY DEF IInv
<1>1. CASE Run
  BY <1>1, RunT
<1>2. CASE Loop
  <2>1. CASE ExecuteTodo \/ (\E c \in cq : HandleIo(c)) \/ (\E t \in batch : ResumeDue(t))
    BY <2>1, ResumesT
  <2>2. CASE InitTimeoutCallback
    BY <2>2, InitTimeoutCallbackT
  <2>3. CASE EndTodo \/ RunReturns \/ StartHandle(FALSE) \/ EndHandle
    BY <2>3, LoopT
  <2>4. CASE WaitForCompletions
    BY <2>4, WaitForCompletionsT
  <2>5. CASE \E c \in cq : HandleEvent(c) \/ HandleSignal(c)
    BY <2>5, ReaderT
  <2>6. CASE \E c \in cq : HandleTimer(c)
    BY <2>6, HandleTimerT
  <2>7. CASE SecondPop
    BY <2>7, SecondPopT
  <2>8. CASE EndEvents
    BY <2>8, EndEventsT
  <2> QED
    BY <1>2, <2>1, <2>2, <2>3, <2>4, <2>5, <2>6, <2>7, <2>8 DEF Loop
<1>3. CASE StartHandle(TRUE)
  BY <1>3, LoopT
<1>4. ASSUME NEW t \in Tasks, Suspend(t) \/ Schedule(t) \/ Spawn(t)
      PROVE  TInv'
  BY <1>4, SleepT, TaskStepsT DEF Suspend
<1>5. ASSUME NEW t \in Tasks, StopHere(t)
      PROVE  TInv'
  <2>1. /\ UNCHANGED <<timeVars, pc, run, taskVars, popVars, timerVars, ringVars>>
        /\ stack # <<>> /\ (~stopped' => ~stopped)
    BY <1>5 DEF StopHere, Running
  <2> QED
    BY <2>1, OtherT
<1>6. ASSUME NEW p \in Callers, Notify(p, StopMsg) \/ Notify(p, WakeupMsg) \/ Write(p)
      PROVE  TInv'
  <2>1. UNCHANGED <<timeVars, pc, run, stopped, taskVars, popVars, timerVars, ringVars>>
    BY <1>6 DEF Notify, Write, loopVars
  <2> QED
    BY <2>1, OtherT
<1>7. ASSUME NEW r \in kern, ReadEventfd(r) \/ Expire(r) \/ CompleteIo(r)
      PROVE  TInv'
  <2>1. \E res : Post(r, res) /\ (r.kind = "timer" => res = 0)
    BY <1>7 DEF ReadEventfd, Expire, CompleteIo
  <2> QED
    BY <2>1, PostT
<1>8. ASSUME NEW r \in kern, NEW sig \in {0, 1}, ReadSignalfd(r, sig)
      PROVE  TInv'
  <2>1. Post(r, sig) /\ r.kind # "timer"
    BY <1>8 DEF ReadSignalfd
  <2> QED
    BY <2>1, PostT
<1>9. CASE Tick
  BY <1>0, <1>9, TickT
<1>10. CASE UNCHANGED vars
  <2>1. UNCHANGED <<timeVars, pc, run, stopped, taskVars, popVars, timerVars, ringVars>>
    BY <1>10 DEF vars, loopVars
  <2> QED
    BY <2>1, OtherT
<1> QED
  BY <1>1, <1>2, <1>3, <1>4, <1>5, <1>6, <1>7, <1>8, <1>9, <1>10 DEF Next

LEMMA InitTInv == Init => TInv
<1> SUFFICES ASSUME Init PROVE TInv
  OBVIOUS
<1>1. ~Started /\ event \notin Runs
  BY RunNumbers DEF Init, Started
<1> QED
  BY <1>1 DEF Init, TInv, ArmInv, AwakeInv, PunctualInv, BlockInv, CqeInv

LEMMA TInvariance == Spec => [](IInv /\ TInv)
<1>1. Init => IInv /\ TInv
  BY InitIInv, InitTInv
<1>2. IInv /\ TInv /\ [Next]_vars => (IInv /\ TInv)'
  BY NextIInv, NextTInv
<1> QED
  BY <1>1, <1>2, PTL DEF Spec

\* No wake-up of the timer coroutine is lost: whenever the loop blocks while a
\* coroutine sleeps, the timer coroutine of this run has a timeout in the kernel
\* (or its completion in the CQ) and, with a thread that takes no time, one that
\* is not in the past.
THEOREM NoLostTimerWakeup == Spec => []TimerArmed
<1>1. IInv /\ TInv => TimerArmed
  <2> SUFFICES ASSUME IInv, TInv, pc = "wait", NEW t \in Sleeping
               PROVE  \E k \in Runs :
                         /\ tmCo[k] = "armed"
                         /\ \/ Req("timer", k) \in kern
                            \/ Cqe(Req("timer", k), 0) \in cq
                         /\ Urgent => now <= armedAt[k] \/ now <= due[t]
    BY DEF TimerArmed
  <2>1. run \in Runs /\ Started /\ ~stopped /\ sq = {}
    BY DEF TInv, BlockInv, Started
  <2>2. tmCo[run] \in {"armed", "waiting"}
    BY <2>1 DEF TInv, ArmInv
  <2>3. tmCo[run] # "waiting"
    BY <2>1 DEF IInv, RingInv, EventInv, TInv, AwakeInv
  <2>4. Req("timer", run) \in Arrived
    BY <2>1, <2>2, <2>3 DEF IInv, RingInv, ArmedInv, Outstanding, Arrived
  <2>5. Req("timer", run) \in kern \/ Cqe(Req("timer", run), 0) \in cq
    <3>1. CASE Req("timer", run) \in kern
      BY <3>1
    <3>2. ASSUME NEW c \in cq, c.req = Req("timer", run)
          PROVE  Cqe(Req("timer", run), 0) \in cq
      <4>1. c.req.kind = "timer"
        BY <3>2 DEF Req
      <4> QED
        BY <3>2, <4>1 DEF TInv, CqeInv
    <3> QED
      BY <2>4, <3>1, <3>2 DEF Arrived
  <2>6. Urgent => now <= armedAt[run]
    BY <2>1, <2>4 DEF TInv, PunctualInv
  <2> QED
    BY <2>1, <2>2, <2>3, <2>5, <2>6
<1> QED
  BY <1>1, TInvariance, PTL
=============================================================================
