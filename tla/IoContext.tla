----------------------------- MODULE IoContext -----------------------------
(***************************************************************************)
(* The event loop: io_context::run with the three coroutines it keeps      *)
(* alive (the eventfd reader, the signalfd reader, the timer coroutine),   *)
(* the user-level timer, timer_event_, the todo list, and stop() / wakeup  *)
(* from other threads.                                                     *)
(*                                                                         *)
(* UringContext shows that a request is delivered to its coroutine exactly *)
(* once; here the rings are three sets: prepared, in the kernel, posted.   *)
(*                                                                         *)
(* Time is discrete.  With Urgent the thread is infinitely fast: the clock *)
(* moves only when the thread is blocked in the kernel with nothing to     *)
(* deliver, or is not in run(), so that a late timer is late by the        *)
(* program's own doing.  Without it the clock moves at any moment.         *)
(***************************************************************************)
EXTENDS Integers, Sequences, FiniteSets

CONSTANTS Tasks,      \* user coroutines
          Callers,    \* other threads, calling stop() and wakeup()
          Delays,     \* the timeouts tasks sleep for
          StopMsg,    \* EV_STOP_MSG
          EvMax,      \* the largest value an eventfd counter holds
          Urgent,     \* does the thread take no time?
          MaxTime,    \* bound: the last instant
          MaxRuns,    \* bound: calls of run()
          MaxCalls,   \* bound: stop() / wakeup() calls per caller
          MaxSignals  \* bound: signals delivered (0: no signalfd)

WakeupMsg == 1

ASSUME IoContextAssumption ==
    /\ Delays \subseteq Nat
    /\ StopMsg \in Nat /\ StopMsg > WakeupMsg
    /\ EvMax \in Nat /\ EvMax >= StopMsg
    /\ Urgent \in BOOLEAN
    /\ {MaxTime, MaxRuns, MaxCalls, MaxSignals} \subseteq Nat

Runs == 1 .. MaxRuns

\* m_state of timer_event_ when no coroutine waits: nullptr, this.
Unset == 0
Set == -1

VARIABLES
    now,       \* system_clock
    pc,        \* where the thread is in do_run
    run,       \* calls of run() so far; its coroutines are numbered by it
    stopped,   \* stopped_
    todo,      \* todo_list_
    local,     \* local_copy of do_todo_list
    stack,     \* user coroutines on the thread's stack, innermost first
    where,     \* where each user coroutine is
    due,       \* the deadline of each sleeping or due coroutine
    batch,     \* coroutines handle_events has detached from the queue
    stamp,     \* stamp_now of handle_events
    pass,      \* which of its two pops handle_events is in
    handler,   \* the timer coroutine that is running, or 0
    tmCo,      \* the timer coroutine of each run
    armedAt,   \* its timeout: relative in sq, when it expires once in the kernel
    event,     \* m_state of timer_event_: Unset, Set, or the waiter
    sq, kern,  \* requests prepared, requests in the kernel
    cq,        \* completions posted
    evCount,   \* the eventfd counter
    writing,   \* what each caller is blocked writing to the eventfd
    calls,     \* calls each caller has made
    signals    \* signals delivered so far

timeVars == <<now>>
loopVars == <<pc, run, stopped, todo, local>>
taskVars == <<stack, where, due>>
popVars == <<batch, stamp, pass, handler>>
timerVars == <<tmCo, armedAt, event>>
ringVars == <<sq, kern, cq>>
fdVars == <<evCount, writing, calls, signals>>
vars == <<timeVars, loopVars, taskVars, popVars, timerVars, ringVars, fdVars>>

Req(kind, who) == [kind |-> kind, who |-> who]
Cqe(r, res) == [req |-> r, res |-> res]

Init ==
    /\ now = 0
    /\ pc = "out" /\ run = 0 /\ stopped = TRUE
    /\ todo = <<>> /\ local = <<>>
    /\ stack = <<>>
    /\ where = [t \in Tasks |-> "idle"]
    /\ due = [t \in Tasks |-> 0]
    /\ batch = {} /\ stamp = 0 /\ pass = 0 /\ handler = 0
    /\ tmCo = [k \in Runs |-> "none"]
    /\ armedAt = [k \in Runs |-> 0]
    /\ event = Unset
    /\ sq = {} /\ kern = {} /\ cq = {}
    /\ evCount = 0
    /\ writing = [p \in Callers |-> 0]
    /\ calls = [p \in Callers |-> 0]
    /\ signals = 0

-----------------------------------------------------------------------------
(* The timer queue and the timer coroutine.                                *)

Sleeping == {t \in Tasks : where[t] = "sleep"}

\* The deadlines in the queue, given who sleeps and until when.
Deadlines(w, d) == {d[t] : t \in {u \in Tasks : w[u] = "sleep"}}

Earliest(S) == CHOOSE x \in S : \A y \in S : x <= y

\* The coroutine prepares a timeout up to the earliest deadline in ds, or of zero
\* if that has passed.
ArmTimer(k, ds) ==
    /\ tmCo' = [tmCo EXCEPT ![k] = "armed"]
    /\ armedAt' = [armedAt EXCEPT ![k] = IF Earliest(ds) > now THEN Earliest(ds) - now ELSE 0]
    /\ sq' = sq \cup {Req("timer", k)}

TimerEnds(k) ==
    /\ tmCo' = [tmCo EXCEPT ![k] = "ended"]
    /\ UNCHANGED <<armedAt, sq>>

\* co_await timer_event_ with an empty queue.  If the event is set it is reset
\* and the coroutine goes round its outer loop; the queue is still empty, so it
\* ends or comes back to wait.  With another coroutine already waiting the
\* assertion in await_suspend fails.
AwaitTimerEvent(k) ==
    CASE event = Set /\ stopped -> event' = Unset /\ TimerEnds(k)
      [] event = Unset \/ (event = Set /\ ~stopped) ->
            /\ event' = k
            /\ tmCo' = [tmCo EXCEPT ![k] = "waiting"]
            /\ UNCHANGED <<armedAt, sq>>
      [] OTHER -> tmCo' = [tmCo EXCEPT ![k] = "aborted"] /\ UNCHANGED <<event, armedAt, sq>>

\* Mutant: the inner loop is an if, taken once.
TimerInnerLoopOnce(k) == AwaitTimerEvent(k)

\* The inner loop of init_timeout_callback, which does not look at stopped_.
TimerInnerLoop(k) ==
    IF Sleeping # {}
    THEN ArmTimer(k, Deadlines(where, due)) /\ UNCHANGED event
    ELSE AwaitTimerEvent(k)

\* Mutant: set() does not resume the waiter.
SetTimerEventNoResume(ds) == event' = Set /\ UNCHANGED <<tmCo, armedAt, sq>>

\* Mutant: an insertion prepares a timeout whether or not one is outstanding.
SetTimerEventRearms(ds) ==
    IF tmCo[run] \in {"armed", "waiting"}
    THEN ArmTimer(run, ds) /\ event' = Unset
    ELSE event' = Set /\ UNCHANGED <<tmCo, armedAt, sq>>

\* timer_event_.set() after an insertion has made the queue non-empty (its
\* deadlines are ds): a waiting timer coroutine runs at once, inside set().
SetTimerEvent(ds) ==
    IF event \in {Unset, Set}
    THEN event' = Set /\ UNCHANGED <<tmCo, armedAt, sq>>
    ELSE /\ event' = Unset
         /\ IF stopped THEN TimerEnds(event) ELSE ArmTimer(event, ds)

-----------------------------------------------------------------------------
(* do_run.                                                                 *)

\* run(): clear stopped_, start the eventfd reader and, if signals are
\* registered, the signalfd reader, and take the first todo list.
Run ==
    /\ pc = "out" /\ run < MaxRuns
    /\ run' = run + 1
    /\ stopped' = FALSE
    /\ sq' = sq \cup {Req("event", run + 1)}
                \cup (IF MaxSignals > 0 THEN {Req("signal", run + 1)} ELSE {})
    /\ local' = todo /\ todo' = <<>>
    /\ pc' = "first todo"
    /\ UNCHANGED <<timeVars, taskVars, popVars, timerVars, kern, cq, fdVars>>

\* do_todo_list executes one task, which runs until it first suspends.
ExecuteTodo ==
    /\ pc \in {"first todo", "todo"} /\ stack = <<>> /\ local # <<>>
    /\ stack' = <<Head(local)>>
    /\ where' = [where EXCEPT ![Head(local)] = "running"]
    /\ local' = Tail(local)
    /\ UNCHANGED <<timeVars, pc, run, stopped, todo, due, popVars, timerVars, ringVars, fdVars>>

\* After the first todo list do_run starts the timer coroutine.
InitTimeoutCallback ==
    /\ pc = "first todo" /\ stack = <<>> /\ local = <<>>
    /\ IF stopped
       THEN TimerEnds(run) /\ UNCHANGED event
       ELSE TimerInnerLoop(run)
    /\ pc' = IF tmCo'[run] = "aborted" THEN "abort" ELSE "test"
    /\ UNCHANGED <<timeVars, run, stopped, todo, local, taskVars, popVars, kern, cq, fdVars>>

EndTodo ==
    /\ pc = "todo" /\ stack = <<>> /\ local = <<>>
    /\ pc' = "test"
    /\ UNCHANGED <<timeVars, run, stopped, todo, local, taskVars, popVars, timerVars, ringVars, fdVars>>

\* while (!stopped_)
RunReturns ==
    /\ pc = "test" /\ stopped
    /\ pc' = "out"
    /\ UNCHANGED <<timeVars, run, stopped, todo, local, taskVars, popVars, timerVars, ringVars, fdVars>>

\* The submitted timeouts start to run (cut at MaxTime, the last instant).
WaitForCompletions ==
    /\ pc = "test" /\ ~stopped
    /\ kern' = kern \cup sq /\ sq' = {}
    /\ armedAt' = [k \in Runs |->
                     IF Req("timer", k) \notin sq THEN armedAt[k]
                     ELSE IF now + armedAt[k] < MaxTime THEN now + armedAt[k] ELSE MaxTime]
    /\ pc' = "wait"
    /\ UNCHANGED <<timeVars, run, stopped, todo, local, taskVars, popVars, tmCo, event, cq, fdVars>>

\* The wait ends with a completion, or is interrupted by a signal handler.
StartHandle(interrupted) ==
    /\ pc = "wait"
    /\ interrupted \/ cq # {}
    /\ pc' = "handle"
    /\ UNCHANGED <<timeVars, run, stopped, todo, local, taskVars, popVars, timerVars, ringVars, fdVars>>

\* Mutant: the loop does not look at the todo list again.
EndHandleNoTodo ==
    /\ pc = "handle" /\ stack = <<>> /\ cq = {}
    /\ pc' = "todo"
    /\ UNCHANGED <<timeVars, run, stopped, todo, local, taskVars, popVars, timerVars, ringVars, fdVars>>

\* The walk over the CQ has caught up; do_todo_list swaps the list out.
EndHandle ==
    /\ pc = "handle" /\ stack = <<>> /\ cq = {}
    /\ local' = todo /\ todo' = <<>>
    /\ pc' = "todo"
    /\ UNCHANGED <<timeVars, run, stopped, taskVars, popVars, timerVars, ringVars, fdVars>>

-----------------------------------------------------------------------------
(* handle_completions: one action per kind of completion.                  *)

Handling(c) == pc = "handle" /\ stack = <<>> /\ c \in cq

\* Mutant: only the exact EV_STOP_MSG stops the loop.
HandleEventExact(c) ==
    /\ Handling(c) /\ c.req.kind = "event"
    /\ cq' = cq \ {c}
    /\ stopped' = (stopped \/ c.res = StopMsg)
    /\ sq' = IF stopped' THEN sq ELSE sq \cup {c.req}
    /\ UNCHANGED <<timeVars, pc, run, todo, local, taskVars, popVars, timerVars, kern, fdVars>>

\* The eventfd reader: a message of EV_STOP_MSG or more stops the loop;
\* otherwise it reads again.
HandleEvent(c) ==
    /\ Handling(c) /\ c.req.kind = "event"
    /\ cq' = cq \ {c}
    /\ stopped' = (stopped \/ c.res >= StopMsg)
    /\ sq' = IF stopped' THEN sq ELSE sq \cup {c.req}
    /\ UNCHANGED <<timeVars, pc, run, todo, local, taskVars, popVars, timerVars, kern, fdVars>>

\* The signalfd reader: SIGINT (res = 1) stops the loop.
HandleSignal(c) ==
    /\ Handling(c) /\ c.req.kind = "signal"
    /\ cq' = cq \ {c}
    /\ stopped' = (stopped \/ c.res = 1)
    /\ sq' = IF stopped' THEN sq ELSE sq \cup {c.req}
    /\ UNCHANGED <<timeVars, pc, run, todo, local, taskVars, popVars, timerVars, kern, fdVars>>

HandleIo(c) ==
    /\ Handling(c) /\ c.req.kind = "io"
    /\ cq' = cq \ {c}
    /\ stack' = <<c.req.who>>
    /\ where' = [where EXCEPT ![c.req.who] = "running"]
    /\ UNCHANGED <<timeVars, loopVars, due, popVars, timerVars, sq, kern, fdVars>>

\* Mutant: an off-by-one in the deadline comparison.
LessEqPlusOne(time) == {t \in Sleeping : due[t] <= time + 1}

\* What do_less_eq_then_pop and pop_less_eq detach.
LessEq(time) == {t \in Sleeping : due[t] <= time}

\* The kernel timeout resumes the timer coroutine, which enters handle_events.
HandleTimer(c) ==
    /\ Handling(c) /\ c.req.kind = "timer"
    /\ cq' = cq \ {c}
    /\ IF Sleeping = {}
       THEN /\ TimerInnerLoop(c.req.who)
            /\ pc' = IF tmCo'[c.req.who] = "aborted" THEN "abort" ELSE pc
            /\ UNCHANGED <<where, popVars>>
       ELSE /\ handler' = c.req.who
            /\ tmCo' = [tmCo EXCEPT ![c.req.who] = "running"]
            /\ armedAt' = [armedAt EXCEPT ![c.req.who] = 0]
            /\ stamp' = now /\ pass' = 1
            /\ batch' = LessEq(now)
            /\ where' = [t \in Tasks |-> IF t \in LessEq(now) THEN "due" ELSE where[t]]
            /\ pc' = "events"
            /\ UNCHANGED <<sq, event>>
    /\ UNCHANGED <<timeVars, run, stopped, todo, local, stack, due, kern, fdVars>>

\* handle_events resumes what it detached, earliest deadline first.
ResumeDue(t) ==
    /\ pc = "events" /\ stack = <<>> /\ t \in batch
    /\ \A u \in batch : due[t] <= due[u]
    /\ batch' = batch \ {t}
    /\ stack' = <<t>>
    /\ where' = [where EXCEPT ![t] = "running"]
    /\ due' = [due EXCEPT ![t] = 0]
    /\ UNCHANGED <<timeVars, loopVars, stamp, pass, handler, timerVars, ringVars, fdVars>>

\* Then it pops once more what the resumed coroutines inserted at or before the
\* same stamp.
SecondPop ==
    /\ pc = "events" /\ stack = <<>> /\ batch = {} /\ pass = 1
    /\ pass' = 2
    /\ batch' = LessEq(stamp)
    /\ where' = [t \in Tasks |-> IF t \in LessEq(stamp) THEN "due" ELSE where[t]]
    /\ UNCHANGED <<timeVars, loopVars, stack, due, stamp, handler, timerVars, ringVars, fdVars>>

\* Back in the inner loop of the timer coroutine, which suspends, and the walk
\* over the CQ goes on.
EndEvents ==
    /\ pc = "events" /\ stack = <<>> /\ batch = {} /\ pass = 2
    /\ TimerInnerLoop(handler)
    /\ handler' = 0 /\ pass' = 0 /\ stamp' = 0
    /\ pc' = IF tmCo'[handler] = "aborted" THEN "abort" ELSE "handle"
    /\ UNCHANGED <<timeVars, run, stopped, todo, local, taskVars, batch, kern, cq, fdVars>>

-----------------------------------------------------------------------------
(* What the user coroutine on top of the stack does before it suspends.    *)

Running(t) == stack # <<>> /\ Head(stack) = t

\* co_await timeout(d): register_timeout inserts it and sets timer_event_.
Sleep(t, d) ==
    /\ Running(t) /\ now + d <= MaxTime
    /\ where' = [where EXCEPT ![t] = "sleep"]
    /\ due' = [due EXCEPT ![t] = now + d]
    /\ stack' = Tail(stack)
    /\ SetTimerEvent(Deadlines(where', due'))
    /\ UNCHANGED <<timeVars, loopVars, popVars, kern, cq, fdVars>>

\* co_await of any I/O operation.
AwaitIo(t) ==
    /\ Running(t)
    /\ where' = [where EXCEPT ![t] = "io"]
    /\ stack' = Tail(stack)
    /\ sq' = sq \cup {Req("io", t)}
    /\ UNCHANGED <<timeVars, loopVars, due, popVars, timerVars, kern, cq, fdVars>>

Finish(t) ==
    /\ Running(t)
    /\ where' = [where EXCEPT ![t] = "done"]
    /\ stack' = Tail(stack)
    /\ UNCHANGED <<timeVars, loopVars, due, popVars, timerVars, ringVars, fdVars>>

\* stop() on the loop's own thread.
StopHere(t) ==
    /\ Running(t) /\ ~stopped
    /\ stopped' = TRUE
    /\ UNCHANGED <<timeVars, pc, run, todo, local, taskVars, popVars, timerVars, ringVars, fdVars>>

\* schedule(u), from a coroutine or, between runs, from the owner of the context.
Schedule(u) ==
    /\ where[u] = "idle" /\ (stack # <<>> \/ pc = "out")
    /\ todo' = Append(todo, u)
    /\ where' = [where EXCEPT ![u] = "todo"]
    /\ UNCHANGED <<timeVars, pc, run, stopped, local, stack, due, popVars, timerVars, ringVars, fdVars>>

\* spawn(u) runs u at once, on top of the coroutine that spawns it.
Spawn(u) ==
    /\ where[u] = "idle" /\ stack # <<>>
    /\ stack' = <<u>> \o stack
    /\ where' = [where EXCEPT ![u] = "running"]
    /\ UNCHANGED <<timeVars, loopVars, due, popVars, timerVars, ringVars, fdVars>>

-----------------------------------------------------------------------------
(* Other threads and the kernel.                                           *)

\* stop() and wakeup() from another thread: a write to the eventfd, which is in
\* blocking mode.
Notify(p, msg) ==
    /\ writing[p] = 0 /\ calls[p] < MaxCalls
    /\ writing' = [writing EXCEPT ![p] = msg]
    /\ calls' = [calls EXCEPT ![p] = @ + 1]
    /\ UNCHANGED <<timeVars, loopVars, taskVars, popVars, timerVars, ringVars, evCount, signals>>

Write(p) ==
    /\ writing[p] # 0 /\ evCount + writing[p] <= EvMax
    /\ evCount' = evCount + writing[p]
    /\ writing' = [writing EXCEPT ![p] = 0]
    /\ UNCHANGED <<timeVars, loopVars, taskVars, popVars, timerVars, ringVars, calls, signals>>

Post(r, res) ==
    /\ kern' = kern \ {r}
    /\ cq' = cq \cup {Cqe(r, res)}
    /\ UNCHANGED <<timeVars, loopVars, taskVars, popVars, timerVars, sq>>

\* A read of the eventfd takes the whole counter.
ReadEventfd(r) ==
    /\ r \in kern /\ r.kind = "event" /\ evCount > 0
    /\ Post(r, evCount)
    /\ evCount' = 0
    /\ UNCHANGED <<writing, calls, signals>>

\* A signal arrives: SIGINT (1) or another one of the set (0).
ReadSignalfd(r, sig) ==
    /\ r \in kern /\ r.kind = "signal" /\ signals < MaxSignals
    /\ Post(r, sig)
    /\ signals' = signals + 1
    /\ UNCHANGED <<evCount, writing, calls>>

Expired(r) == r.kind = "timer" /\ armedAt[r.who] <= now

Expire(r) ==
    /\ r \in kern /\ Expired(r)
    /\ Post(r, 0)
    /\ UNCHANGED fdVars

CompleteIo(r) ==
    /\ r \in kern /\ r.kind = "io"
    /\ Post(r, 0)
    /\ UNCHANGED fdVars

Tick ==
    /\ now < MaxTime
    /\ \/ ~Urgent \/ pc = "out"
       \/ pc = "wait" /\ cq = {} /\ \A r \in kern : ~Expired(r)
    /\ now' = now + 1
    /\ UNCHANGED <<loopVars, taskVars, popVars, timerVars, ringVars, fdVars>>

-----------------------------------------------------------------------------
Loop ==
    \/ ExecuteTodo \/ InitTimeoutCallback \/ EndTodo
    \/ RunReturns \/ WaitForCompletions
    \/ StartHandle(FALSE) \/ EndHandle
    \/ \E c \in cq : HandleEvent(c) \/ HandleSignal(c) \/ HandleIo(c) \/ HandleTimer(c)
    \/ \E t \in batch : ResumeDue(t)
    \/ SecondPop \/ EndEvents

Suspend(t) == (\E d \in Delays : Sleep(t, d)) \/ AwaitIo(t) \/ Finish(t)

Next ==
    \/ Run
    \/ Loop
    \/ StartHandle(TRUE)
    \/ \E t \in Tasks : Suspend(t) \/ StopHere(t) \/ Schedule(t) \/ Spawn(t)
    \/ \E p \in Callers : Notify(p, StopMsg) \/ Notify(p, WakeupMsg) \/ Write(p)
    \/ \E r \in kern : ReadEventfd(r) \/ Expire(r) \/ CompleteIo(r)
    \/ \E r \in kern, sig \in {0, 1} : ReadSignalfd(r, sig)
    \/ Tick

Spec == Init /\ [][Next]_vars

\* The thread runs, the kernel answers eventfd reads and timeouts, and time
\* passes.  Nobody has to call run(), no I/O has to complete, no signal has to
\* come.
FairSpec ==
    /\ Spec
    /\ WF_vars(Loop \/ \E t \in Tasks : Suspend(t))
    /\ WF_vars(\E p \in Callers : Write(p))
    /\ WF_vars(\E r \in kern : ReadEventfd(r))
    /\ WF_vars(\E r \in kern : Expire(r))
    /\ WF_vars(Tick)

-----------------------------------------------------------------------------
(* Correctness.                                                            *)

Places == {"idle", "todo", "running", "sleep", "due", "io", "done"}
Requests == [kind : {"timer", "event", "signal"}, who : Runs] \cup [kind : {"io"}, who : Tasks]

\* Every variable keeps its shape, and the lists hold the coroutines that
\* "where" puts in them.
TypeOK ==
    /\ now \in 0 .. MaxTime /\ run \in 0 .. MaxRuns
    /\ pc \in {"out", "first todo", "test", "wait", "handle", "events", "todo", "abort"}
    /\ stopped \in BOOLEAN
    /\ todo \in Seq(Tasks) /\ local \in Seq(Tasks) /\ stack \in Seq(Tasks)
    /\ where \in [Tasks -> Places]
    /\ due \in [Tasks -> 0 .. MaxTime]
    /\ batch = {t \in Tasks : where[t] = "due"}
    /\ stamp \in 0 .. MaxTime /\ pass \in 0 .. 2 /\ handler \in {0} \cup Runs
    /\ tmCo \in [Runs -> {"none", "armed", "waiting", "running", "ended", "aborted"}]
    /\ armedAt \in [Runs -> 0 .. MaxTime]
    /\ event \in {Unset, Set} \cup Runs
    /\ sq \subseteq Requests /\ kern \subseteq Requests
    /\ \A c \in cq : c.req \in Requests /\ c.res \in 0 .. EvMax
    /\ evCount \in 0 .. EvMax
    /\ writing \in [Callers -> {0, WakeupMsg, StopMsg}]
    /\ calls \in [Callers -> 0 .. MaxCalls] /\ signals \in 0 .. MaxSignals

\* timer_event_ loses no wake-up: when the thread blocks while a coroutine
\* sleeps, a timer coroutine has a timeout in the kernel or its completion in
\* the CQ and, with a thread that takes no time, the timeout is not overdue when
\* the sleeper is.  So no sleeper depends on some unrelated completion.
TimerArmed ==
    pc = "wait" =>
        \A t \in Sleeping :
            \E k \in Runs :
                /\ tmCo[k] = "armed"
                /\ \/ Req("timer", k) \in kern
                   \/ Cqe(Req("timer", k), 0) \in cq
                /\ Urgent => now <= armedAt[k] \/ now <= due[t]

\* A coroutine that awaits timeout(d) is resumed by handle_events, and never
\* before its deadline.
NeverEarly ==
    [][\A t \in Tasks :
          where[t] = "sleep" /\ where'[t] # "sleep"
            => where'[t] = "due" /\ now >= due[t]]_vars

\* A request is in one place at a time, and the coroutines that own one wait
\* for it: the timer coroutine never has two timeouts outstanding (its next one
\* would reuse the timespec and the token of the first).
OneRequestEach ==
    /\ TypeOK
    /\ sq \cap kern = {}
    /\ \A c \in cq : c.req \notin sq \cup kern
    /\ \A c, e \in cq : c.req = e.req => c = e
    /\ \A k \in Runs : (tmCo[k] = "armed") =
            (Req("timer", k) \in sq \cup kern \cup {c.req : c \in cq})

\* A stop message that has been written, or stopped_ set on the thread.
StopRequested ==
    \/ stopped
    \/ evCount >= StopMsg
    \/ \E c \in cq : c.req.kind = "event" /\ c.res >= StopMsg

InRun == pc \notin {"out", "abort"}

\* stop() makes run() return: called before run(), while the loop is blocked, or
\* in the middle of a walk, on the thread or off it, and merged in the eventfd
\* counter with any number of wakeups.  It returns in its caller too: the write to
\* the eventfd blocks only until the loop has read the counter.
StopReturns ==
    /\ (StopRequested /\ InRun) ~> ~InRun
    /\ \A p \in Callers : (writing[p] # 0 /\ InRun) ~> (writing[p] = 0 \/ ~InRun)

\* A sleeping coroutine is resumed while the loop runs.
TimerFires == \A t \in Tasks : (where[t] = "sleep" /\ InRun) ~> (where[t] # "sleep" \/ ~InRun)

\* wakeup() makes the loop go round: a task that sits in the todo list when a
\* message is written is executed without any other completion.
WakeupRunsTodo ==
    \A t \in Tasks :
        (where[t] = "todo" /\ evCount > 0 /\ InRun) ~> (where[t] # "todo" \/ ~InRun)

\* A timer fires within 10% of its time: with a thread that is never busy, at
\* its deadline.
Punctual == pc = "wait" => \A t \in Sleeping : now <= due[t]

\* The assertion in await_suspend of timer_event_: a second co_await finds the
\* event set, never another waiter.
SingleWaiter == pc # "abort"
=============================================================================
