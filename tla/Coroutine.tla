----------------------------- MODULE Coroutine -----------------------------
(***************************************************************************)
(* The coroutine primitives, running one program that uses all of them.    *)
(* The root coroutine creates a task per child, spawns jobs in an          *)
(* async_scope, awaits when_all of the children, joins the scope and       *)
(* returns.  A child or a job first awaits a single_consumer_event of its  *)
(* own.  In mode "threads" the root is a task<> run by sync_wait on the    *)
(* main thread, and every event is set by a thread of its own, which then  *)
(* runs whatever it resumes.  In mode "loop" the root is run by async_run  *)
(* and the main thread itself sets the events, in any order: the way an    *)
(* io_context drives coroutines, and the only one async_task, which has    *)
(* no atomics, is written for.  In mode "context" the main thread is an    *)
(* io_context: it spawns the jobs in its scope, sets some of their events, *)
(* and is destroyed.                                                       *)
(*                                                                         *)
(* A thread is a stack of activations, the running one first.  Resuming a  *)
(* handle pushes an activation; symmetric transfer, and a resume() that is *)
(* the last thing its caller does, replace the first one; suspending pops. *)
(* Every step is one access to shared memory (sequentially consistent).    *)
(***************************************************************************)
EXTENDS Naturals, Sequences

CONSTANTS
  NumChildren,   \* awaitables given to when_all
  NumJobs,       \* awaitables spawned in the scope
  Modes          \* a subset of {"threads", "loop", "context"}

ASSUME CoroutineAssumption ==
  /\ NumChildren \in Nat
  /\ NumJobs \in Nat
  /\ Modes \subseteq {"threads", "loop", "context"}

Children == 1..NumChildren
Jobs == 1..NumJobs
Events == 1..(NumChildren + NumJobs)
Main == 0
Threads == {Main} \cup Events   \* thread e only ever sets event e

NoFrame == <<"none", 0>>
Starter == <<"s", 0>>           \* the sync_wait_task, or the async_run
Root == <<"root", 0>>
W(i) == <<"w", i>>              \* the when_all_task of child i
T(i) == <<"t", i>>              \* the task or async_task of child i
O(j) == <<"o", j>>              \* the oneway_task of job j
Frames == {Starter, Root} \cup ({"w", "t"} \X Children) \cup ({"o"} \X Jobs)
EventOf(f) == IF f[1] = "o" THEN NumChildren + f[2] ELSE f[2]

VARIABLES
  mode,      \* which of the programs runs
  kind,      \* child -> "task" (lazy) or "async_task" (eager)
  stack,     \* thread -> sequence of [f: frame, pc: label, k: loop index]
  fr,        \* frame -> [st: lifetime, at: label it resumes at,
             \*           cont: who_await_me_, res: result or exception]
  ev,        \* event -> "not_set" | "waiting" | "set"  (m_state)
  evAwaiter, \* event -> frame                          (m_awaiter)
  count,     \* when_all_counter::m_count
  awaiting,  \* when_all_counter::m_awaitingCoroutine
  scopeCount,\* async_scope::m_count
  scopeCont, \* async_scope::m_continuation
  mvalue,    \* lightweight_manual_reset_event::m_value
  outcome    \* what sync_wait returned: "none" | "value" | "exception"

vars == <<mode, kind, stack, fr, ev, evAwaiter, count, awaiting, scopeCount,
          scopeCont, mvalue, outcome>>
counters == <<count, awaiting, scopeCount, scopeCont>>
fixed == <<mode, kind>>

Act(f, pc, k) == [f |-> f, pc |-> pc, k |-> k]
Top(th) == stack[th][1]
Me(th) == Top(th).f
At(th, pc) == stack[th] # <<>> /\ Top(th).pc = pc
Resumed(f) == Act(f, IF f = NoFrame THEN "null" ELSE fr[f].at, 1)

Goto(th, pc) == stack' = [stack EXCEPT ![th][1].pc = pc, ![th][1].k = 1]
Again(th) == [Top(th) EXCEPT !.k = @ + 1]
Return(th) == stack' = [stack EXCEPT ![th] = Tail(@)]
Transfer(th, f) == stack' = [stack EXCEPT ![th] = <<Resumed(f)>> \o Tail(@)]
Call(th, f, back) == stack' = [stack EXCEPT ![th] = <<f, back>> \o Tail(@)]
Live(at) == [st |-> "live", at |-> at, cont |-> NoFrame, res |-> "empty"]
Destroyed(F) ==
  [f \in Frames |-> IF f \in F THEN [fr[f] EXCEPT !.st = "destroyed"] ELSE fr[f]]

Init ==
  /\ mode \in Modes
  /\ kind \in [Children -> IF mode = "loop" THEN {"task", "async_task"} ELSE {"task"}]
  /\ stack = [th \in Threads |->
       IF th = Main THEN <<Act(NoFrame, IF mode = "context" THEN "spawn" ELSE "start", 1)>>
       ELSE IF mode = "threads" THEN <<Act(NoFrame, "set", th)>> ELSE <<>>]
  /\ fr = [f \in Frames |-> [Live("new") EXCEPT !.st = "new"]]
  /\ ev \in [Events -> IF mode = "threads" THEN {"not_set"} ELSE {"not_set", "set"}]
  /\ evAwaiter = [e \in Events |-> NoFrame]
  /\ count = 0 /\ awaiting = NoFrame
  /\ scopeCount = 1 /\ scopeCont = NoFrame
  /\ mvalue = 0
  /\ outcome = "none"

-----------------------------------------------------------------------------
(* single_consumer_event *)

\* await_ready: is_set().
EventReady(th) ==
  LET f == Me(th)
      after == IF f[1] = "o" THEN "o_body" ELSE "t_body"
  IN
  /\ At(th, "e_ready")
  /\ fr' = [fr EXCEPT ![f].at = after]
  /\ Goto(th, IF ev[EventOf(f)] = "set" THEN after ELSE "e_store")
  /\ UNCHANGED <<fixed, counters, ev, evAwaiter, mvalue, outcome>>

\* await_suspend, first half: the handle is published before the state.
EventStore(th) ==
  /\ At(th, "e_store")
  /\ evAwaiter' = [evAwaiter EXCEPT ![EventOf(Me(th))] = Me(th)]
  /\ Goto(th, "e_cas")
  /\ UNCHANGED <<fixed, counters, fr, ev, mvalue, outcome>>

\* Mutant: a store in place of the exchange, so a set() in between is lost.
EventCasBlind(th) ==
  /\ At(th, "e_cas")
  /\ ev' = [ev EXCEPT ![EventOf(Me(th))] = "waiting"]
  /\ Return(th)
  /\ UNCHANGED <<fixed, counters, fr, evAwaiter, mvalue, outcome>>

\* await_suspend, second half: the exchange fails when set() came first, and
\* then the coroutine goes on without suspending.
EventCas(th) ==
  LET e == EventOf(Me(th)) IN
  /\ At(th, "e_cas")
  /\ IF ev[e] = "not_set"
     THEN ev' = [ev EXCEPT ![e] = "waiting"] /\ Return(th)
     ELSE ev' = ev /\ Goto(th, fr[Me(th)].at)
  /\ UNCHANGED <<fixed, counters, fr, evAwaiter, mvalue, outcome>>

\* set(): exchange, and resume the coroutine that was waiting on this thread.
EventSet(th) ==
  LET e == Top(th).k IN
  /\ At(th, "set")
  /\ ev' = [ev EXCEPT ![e] = "set"]
  /\ IF ev[e] = "waiting" THEN Transfer(th, evAwaiter[e]) ELSE Return(th)
  /\ UNCHANGED <<fixed, counters, fr, evAwaiter, mvalue, outcome>>

-----------------------------------------------------------------------------
(* task and async_task *)

IsAsync(f) == f[1] = "t" /\ kind[f[2]] = "async_task"

\* The body ends: the promise keeps the value, or the exception.
BodyEnds(th) ==
  /\ \E r \in {"value", "exception"} : fr' = [fr EXCEPT ![Me(th)].res = r]
  /\ Goto(th, "t_final")
  /\ UNCHANGED <<fixed, counters, ev, evAwaiter, mvalue, outcome>>

TaskBody(th) == At(th, "t_body") /\ ~IsAsync(Me(th)) /\ BodyEnds(th)
AsyncTaskBody(th) == At(th, "t_body") /\ IsAsync(Me(th)) /\ BodyEnds(th)

\* Whom final_suspend resumes.  A task has been awaited, or it would not run;
\* an async_task may finish before anyone awaits it.
task_final_awaitable(f) == fr[f].cont
async_task_final_awaitable(f) ==
  IF fr[f].cont # NoFrame /\ fr[fr[f].cont].st # "done" THEN fr[f].cont ELSE NoFrame

TaskFinal(th) ==
  LET f == Me(th) IN
  /\ At(th, "t_final")
  /\ fr' = [fr EXCEPT ![f].st = "done"]
  /\ IF ~IsAsync(f) THEN Transfer(th, task_final_awaitable(f))
     ELSE LET h == async_task_final_awaitable(f)
          IN IF h = NoFrame THEN Return(th) ELSE Transfer(th, h)
  /\ UNCHANGED <<fixed, counters, ev, evAwaiter, mvalue, outcome>>

Awaited(f) == IF f = Starter THEN Root ELSE T(f[2])

\* co_await of a task: register the continuation and transfer into the task.
AwaitTask(th) ==
  LET f == Me(th)  a == Awaited(f) IN
  /\ At(th, "await") /\ ~IsAsync(a)
  /\ fr' = [fr EXCEPT ![a].cont = f]
  /\ Transfer(th, a)
  /\ UNCHANGED <<fixed, counters, ev, evAwaiter, mvalue, outcome>>

\* co_await of an async_task: it already runs, so either its result is there
\* or the awaiting coroutine suspends until final_suspend finds it.
AwaitAsyncTask(th) ==
  LET f == Me(th)  a == Awaited(f) IN
  /\ At(th, "await") /\ IsAsync(a)
  /\ IF fr[a].st = "done" THEN fr' = fr /\ Goto(th, fr[f].at)
     ELSE fr' = [fr EXCEPT ![a].cont = f] /\ Return(th)
  /\ UNCHANGED <<fixed, counters, ev, evAwaiter, mvalue, outcome>>

-----------------------------------------------------------------------------
(* when_all *)

\* make_when_all_task's body after its co_await: the result is yielded, or the
\* exception kept, and final_suspend runs.
WhenAllTaskBody(th) ==
  LET f == Me(th) IN
  /\ At(th, "w_body")
  /\ fr' = [fr EXCEPT ![f].res = fr[Awaited(f)].res, ![f].st = "done"]
  /\ Goto(th, "w_notify")
  /\ UNCHANGED <<fixed, counters, ev, evAwaiter, mvalue, outcome>>

\* notify_awaitable_completed: the last of the count resumes the awaiter.
NotifyCompleted(th) ==
  /\ At(th, "w_notify")
  /\ count' = count - 1
  /\ IF count = 1 THEN Transfer(th, awaiting) ELSE Return(th)
  /\ UNCHANGED <<fixed, fr, ev, evAwaiter, awaiting, scopeCount, scopeCont, mvalue, outcome>>

\* Mutant: the count leaves out the awaiting coroutine itself.
InitialCountTasksOnly == NumChildren

\* when_all(...): a when_all_task per awaitable, and the counter.
InitialCount == NumChildren + 1
WhenAll(th) ==
  /\ At(th, "r_all")
  /\ fr' = [f \in Frames |-> IF f[1] = "w" THEN Live("await") ELSE fr[f]]
  /\ count' = InitialCount
  /\ awaiting' = NoFrame
  /\ Goto(th, "r_start")
  /\ UNCHANGED <<fixed, ev, evAwaiter, scopeCount, scopeCont, mvalue, outcome>>

\* try_await, start_tasks: each when_all_task runs until it suspends.
StartTasks(th) ==
  LET k == Top(th).k IN
  /\ At(th, "r_start")
  /\ IF k \in Children
     THEN /\ Call(th, Resumed(W(k)), Again(th))
          /\ fr' = [fr EXCEPT ![W(k)].at = "w_body"]
     ELSE Goto(th, "r_set") /\ fr' = fr
  /\ UNCHANGED <<fixed, counters, ev, evAwaiter, mvalue, outcome>>

\* when_all_counter::try_await, its two statements.
TryAwaitSet(th) ==
  /\ At(th, "r_set")
  /\ awaiting' = Me(th)
  /\ Goto(th, "r_sub")
  /\ UNCHANGED <<fixed, fr, ev, evAwaiter, count, scopeCount, scopeCont, mvalue, outcome>>

\* Mutant: off by one, the last child is not waited for.
TryAwaitSubEarly(th) ==
  /\ At(th, "r_sub")
  /\ count' = count - 1
  /\ fr' = [fr EXCEPT ![Root].at = "r_fmap"]
  /\ IF count > 2 THEN Return(th) ELSE Goto(th, "r_fmap")
  /\ UNCHANGED <<fixed, ev, evAwaiter, awaiting, scopeCount, scopeCont, mvalue, outcome>>

TryAwaitSub(th) ==
  /\ At(th, "r_sub")
  /\ count' = count - 1
  /\ fr' = [fr EXCEPT ![Root].at = "r_fmap"]
  /\ IF count > 1 THEN Return(th) ELSE Goto(th, "r_fmap")
  /\ UNCHANGED <<fixed, ev, evAwaiter, awaiting, scopeCount, scopeCont, mvalue, outcome>>

\* Mutant: only the last child's exception is looked at.
when_all_results_last ==
  IF NumChildren = 0 THEN "value" ELSE fr[W(NumChildren)].res

\* What when_all makes of the finished when_all_tasks: every result, or the
\* first exception in the order of the arguments.
when_all_results ==
  IF \A i \in Children : fr[W(i)].res = "value" THEN "value" ELSE "exception"

\* Mutant: a when_all_task does not own the task it was given.
FmapResumeKeeps(th) ==
  /\ At(th, "r_fmap")
  /\ fr' = [Destroyed({"w"} \X Children) EXCEPT ![Root].res = when_all_results]
  /\ Goto(th, "j_ready")
  /\ UNCHANGED <<fixed, counters, ev, evAwaiter, mvalue, outcome>>

\* fmap_awaiter::await_resume applies that function.  The root catches what it
\* throws, keeps it as its own result, and the awaitable goes out of scope:
\* its when_all_tasks are destroyed, and with each the task it was given.
FmapResume(th) ==
  /\ At(th, "r_fmap")
  /\ fr' = [Destroyed({"w", "t"} \X Children) EXCEPT ![Root].res = when_all_results]
  /\ Goto(th, "j_ready")
  /\ UNCHANGED <<fixed, counters, ev, evAwaiter, mvalue, outcome>>

-----------------------------------------------------------------------------
(* async_scope *)

\* spawn: the oneway_task starts at once, in the caller.
Spawn(th) ==
  LET k == Top(th).k IN
  /\ At(th, "spawn")
  /\ IF k \in Jobs
     THEN /\ fr' = [fr EXCEPT ![O(k)] = Live("o_body")]
          /\ Call(th, Act(O(k), "o_start", 1), Again(th))
     ELSE Goto(th, IF mode = "context" THEN "c_loop" ELSE "r_all") /\ fr' = fr
  /\ UNCHANGED <<fixed, counters, ev, evAwaiter, mvalue, outcome>>

on_work_started(th) ==
  /\ At(th, "o_start")
  /\ scopeCount' = scopeCount + 1
  /\ Goto(th, "e_ready")
  /\ UNCHANGED <<fixed, fr, ev, evAwaiter, count, awaiting, scopeCont, mvalue, outcome>>

\* The awaitable is done: the guard object's destructor calls
\* on_work_finished, and the last one resumes the joining coroutine inside it.
on_work_finished(th) ==
  LET back == [Top(th) EXCEPT !.pc = "o_end"] IN
  /\ At(th, "o_body")
  /\ scopeCount' = scopeCount - 1
  /\ IF scopeCount = 1 THEN Call(th, Resumed(scopeCont), back) ELSE Goto(th, "o_end")
  /\ UNCHANGED <<fixed, fr, ev, evAwaiter, count, awaiting, scopeCont, mvalue, outcome>>

\* final_suspend never suspends: the oneway_task's frame is freed.
OnewayEnd(th) ==
  /\ At(th, "o_end")
  /\ fr' = Destroyed({Me(th)})
  /\ Return(th)
  /\ UNCHANGED <<fixed, counters, ev, evAwaiter, mvalue, outcome>>

\* join(): await_ready, then the two statements of await_suspend.
JoinReady(th) ==
  /\ At(th, "j_ready")
  /\ Goto(th, IF scopeCount = 0 THEN "r_end" ELSE "j_set")
  /\ UNCHANGED <<fixed, counters, fr, ev, evAwaiter, mvalue, outcome>>

JoinSet(th) ==
  /\ At(th, "j_set")
  /\ scopeCont' = Me(th)
  /\ fr' = [fr EXCEPT ![Root].at = "r_end"]
  /\ Goto(th, "j_sub")
  /\ UNCHANGED <<fixed, ev, evAwaiter, count, awaiting, scopeCount, mvalue, outcome>>

JoinSub(th) ==
  /\ At(th, "j_sub")
  /\ scopeCount' = scopeCount - 1
  /\ IF scopeCount > 1 THEN Return(th) ELSE Goto(th, "r_end")
  /\ UNCHANGED <<fixed, fr, ev, evAwaiter, count, awaiting, scopeCont, mvalue, outcome>>

-----------------------------------------------------------------------------
(* The root's own steps: create the children, and end. *)

\* Calling a coroutine that returns a task only creates the frame; one that
\* returns an async_task runs to its first suspension.
CreateChild(th) ==
  LET k == Top(th).k IN
  /\ At(th, "r_create")
  /\ IF k \in Children
     THEN /\ fr' = [fr EXCEPT ![T(k)] = Live("e_ready")]
          /\ IF kind[k] = "task" THEN stack' = [stack EXCEPT ![th][1].k = @ + 1]
             ELSE Call(th, Act(T(k), "e_ready", 1), Again(th))
     ELSE Goto(th, "spawn") /\ fr' = fr
  /\ UNCHANGED <<fixed, counters, ev, evAwaiter, mvalue, outcome>>

RootEnd(th) ==
  /\ At(th, "r_end") /\ mode # "context"
  /\ fr' = [fr EXCEPT ![Root].st = "done"]
  /\ Transfer(th, task_final_awaitable(Root))
  /\ UNCHANGED <<fixed, counters, ev, evAwaiter, mvalue, outcome>>

-----------------------------------------------------------------------------
(* sync_wait, async_run and the main thread *)

\* The root is created and its starter entered.
Start(th) ==
  /\ At(th, "start")
  /\ fr' = [fr EXCEPT ![Starter] = Live("s_body"), ![Root] = Live("r_create")]
  /\ Call(th, Act(Starter, "await", 1),
          Act(NoFrame, IF mode = "threads" THEN "m_load" ELSE "l_loop", 1))
  /\ UNCHANGED <<fixed, counters, ev, evAwaiter, mvalue, outcome>>

\* make_sync_wait_task's body after its co_await.
SyncWaitTaskBody(th) ==
  /\ At(th, "s_body") /\ mode = "threads"
  /\ fr' = [fr EXCEPT ![Starter].res = fr[Root].res, ![Starter].st = "done"]
  /\ Goto(th, "s_store")
  /\ UNCHANGED <<fixed, counters, ev, evAwaiter, mvalue, outcome>>

\* async_run swallows an exception and frees itself, and the root with it if
\* that is another coroutine.
AsyncRunEnd(th) ==
  /\ \/ At(th, "s_body") /\ mode = "loop"
     \/ At(th, "r_end") /\ mode = "context"
  /\ fr' = Destroyed({Me(th), Root})
  /\ Return(th)
  /\ UNCHANGED <<fixed, counters, ev, evAwaiter, mvalue, outcome>>

\* lightweight_manual_reset_event::set: the store, then the wake.  From the
\* store on, the waiter may return and destroy event and frame: the rest of
\* the call belongs to no frame and uses the address only.
ManualSetStore(th) ==
  /\ At(th, "s_store")
  /\ mvalue' = 1
  /\ stack' = [stack EXCEPT ![th][1] = Act(NoFrame, "s_wake", 1)]
  /\ UNCHANGED <<fixed, counters, fr, ev, evAwaiter, outcome>>

ManualSetWake(th) ==
  /\ At(th, "s_wake")
  /\ stack' = [t \in Threads |->
       IF t = th THEN Tail(stack[t])
       ELSE IF At(t, "m_sleep") THEN <<Act(NoFrame, "m_load", 1)>> ELSE stack[t]]
  /\ UNCHANGED <<fixed, counters, fr, ev, evAwaiter, mvalue, outcome>>

\* lightweight_manual_reset_event::wait.
ManualWaitLoad(th) ==
  /\ At(th, "m_load")
  /\ Goto(th, IF mvalue = 0 THEN "m_futex" ELSE "m_result")
  /\ UNCHANGED <<fixed, counters, fr, ev, evAwaiter, mvalue, outcome>>

\* FUTEX_WAIT sleeps only if the word is still 0; EAGAIN otherwise.
ManualWaitFutex(th) ==
  /\ At(th, "m_futex")
  /\ Goto(th, IF mvalue = 0 THEN "m_sleep" ELSE "m_result")
  /\ UNCHANGED <<fixed, counters, fr, ev, evAwaiter, mvalue, outcome>>

\* A spurious wake-up, or EINTR.
SpuriousWake ==
  /\ At(Main, "m_sleep")
  /\ Goto(Main, "m_load")
  /\ UNCHANGED <<fixed, counters, fr, ev, evAwaiter, mvalue, outcome>>

\* sync_wait takes the result; its task, event and the root go out of scope.
SyncWaitResult(th) ==
  /\ At(th, "m_result")
  /\ outcome' = fr[Starter].res
  /\ fr' = Destroyed({Starter, Root})
  /\ Return(th)
  /\ UNCHANGED <<fixed, counters, ev, evAwaiter, mvalue>>

\* The main thread as event loop: it sets the events in any order.
LoopSet(th) ==
  /\ At(th, "l_loop")
  /\ \/ \E e \in Events : ev[e] # "set" /\ Call(th, Act(NoFrame, "set", e), Top(th))
     \/ (\A e \in Events : ev[e] = "set") /\ Return(th)
  /\ UNCHANGED <<fixed, counters, fr, ev, evAwaiter, mvalue, outcome>>

\* The io_context handles some of the completions, then its run() ends.
ContextLoop(th) ==
  /\ At(th, "c_loop")
  /\ \/ \E j \in Jobs : /\ ev[EventOf(O(j))] # "set"
                        /\ Call(th, Act(NoFrame, "set", EventOf(O(j))), Top(th))
     \/ Goto(th, "c_dtor")
  /\ UNCHANGED <<fixed, counters, fr, ev, evAwaiter, mvalue, outcome>>

\* ~io_context: an async_run that joins my_scope_, started and abandoned.
IoContextDtor(th) ==
  /\ At(th, "c_dtor")
  /\ fr' = [fr EXCEPT ![Root] = Live("j_ready")]
  /\ Call(th, Act(Root, "j_ready", 1), Act(NoFrame, "c_end", 1))
  /\ UNCHANGED <<fixed, counters, ev, evAwaiter, mvalue, outcome>>

\* The members of the io_context go, my_scope_ among them.
ScopeDtor(th) ==
  /\ At(th, "c_end")
  /\ Return(th)
  /\ UNCHANGED <<fixed, counters, fr, ev, evAwaiter, mvalue, outcome>>

-----------------------------------------------------------------------------
Step(th) ==
  \/ EventReady(th) \/ EventStore(th) \/ EventCas(th) \/ EventSet(th)
  \/ TaskBody(th) \/ AsyncTaskBody(th) \/ TaskFinal(th) \/ AwaitTask(th) \/ AwaitAsyncTask(th)
  \/ WhenAllTaskBody(th) \/ NotifyCompleted(th) \/ WhenAll(th) \/ StartTasks(th)
  \/ TryAwaitSet(th) \/ TryAwaitSub(th) \/ FmapResume(th)
  \/ Spawn(th) \/ on_work_started(th) \/ on_work_finished(th) \/ OnewayEnd(th)
  \/ JoinReady(th) \/ JoinSet(th) \/ JoinSub(th)
  \/ CreateChild(th) \/ RootEnd(th)
  \/ Start(th) \/ SyncWaitTaskBody(th) \/ AsyncRunEnd(th)
  \/ ManualSetStore(th) \/ ManualSetWake(th) \/ ManualWaitLoad(th) \/ ManualWaitFutex(th)
  \/ SyncWaitResult(th) \/ LoopSet(th)
  \/ ContextLoop(th) \/ IoContextDtor(th) \/ ScopeDtor(th)

Next == (\E th \in Threads : Step(th)) \/ SpuriousWake

Spec == Init /\ [][Next]_vars
FairSpec == Spec /\ \A th \in Threads : WF_vars(Step(th))
-----------------------------------------------------------------------------
Activations(f) ==
  {p \in UNION {{th} \X DOMAIN stack[th] : th \in Threads} : stack[p[1]][p[2]].f = f}
Finished == \A th \in Threads : stack[th] = <<>>

\* Frames, events and counters keep their types; the counter of when_all and that of
\* the scope never pass what the tasks and the awaiting coroutine account for.
TypeOK ==
  /\ mode \in Modes
  /\ kind \in [Children -> {"task", "async_task"}]
  /\ \A th \in Threads : \A i \in DOMAIN stack[th] :
       stack[th][i].f \in Frames \cup {NoFrame} /\ stack[th][i].k \in Nat
  /\ fr \in [Frames -> [st : {"new", "live", "done", "destroyed"}, at : STRING,
                        cont : Frames \cup {NoFrame}, res : {"empty", "value", "exception"}]]
  /\ ev \in [Events -> {"not_set", "waiting", "set"}]
  /\ evAwaiter \in [Events -> Frames \cup {NoFrame}]
  /\ count \in 0..(NumChildren + 1) /\ scopeCount \in 0..(NumJobs + 1)
  /\ awaiting \in {NoFrame, Root} /\ scopeCont \in {NoFrame, Root}
  /\ mvalue \in {0, 1}
  /\ outcome \in {"none", "value", "exception"}

\* No coroutine is run by two threads, or twice by one: whatever order set(),
\* the counter, the scope and final_suspend come in, each handle is resumed by
\* exactly one of them, only after it was stored, and never once its frame is
\* freed by ~task, ~when_all_task, the end of a oneway_task or sync_wait.  An
\* event that says a consumer is waiting has the handle of a live coroutine
\* that no thread is running: set() resumes it without a further look.
RunByOne ==
  /\ TypeOK
  /\ \A f \in Frames : \A p, q \in Activations(f) : p = q
  /\ \A f \in Frames : Activations(f) # {} => fr[f].st \in {"live", "done"}
  /\ \A p \in Activations(NoFrame) : stack[p[1]][p[2]].pc # "null"
  /\ \A e \in Events : ev[e] = "waiting" =>
       /\ evAwaiter[e] # NoFrame
       /\ fr[evAwaiter[e]].st = "live"
       /\ Activations(evAwaiter[e]) = {}

\* when_all hands the results over only when every child has finished and no
\* thread still has its counter to decrement; join() returns only when every
\* spawned job has left on_work_finished behind or is the one resuming it.
\* With that go the assertions of async_scope: work starts only in a scope that
\* is not joined out, and when the scope is destroyed, by the root's end or by
\* ~io_context, join() has been called.
WaitsForAll ==
  \A th \in Threads :
    /\ At(th, "r_fmap") => \A i \in Children :
         fr[T(i)].st = "done" /\ fr[W(i)].st = "done" /\ Activations(W(i)) = {}
    /\ At(th, "r_end") => \A j \in Jobs :
         \/ fr[O(j)].st = "destroyed"
         \/ \E p \in Activations(O(j)) : stack[p[1]][p[2]].pc = "o_end"
    /\ At(th, "o_start") => scopeCount # 0
    /\ At(th, "r_end") \/ At(th, "c_end") => scopeCont # NoFrame

\* sync_wait throws exactly when some child did: an exception crosses
\* final_suspend, when_all, the root and the starter without being lost.
ExceptionArrives ==
  outcome # "none" =>
    (outcome = "exception" <=> \E i \in Children : fr[T(i)].res = "exception")

\* When every thread is done each coroutine frame was freed by its owner, the
\* ones whose last step ran on another thread included.  ~io_context alone
\* leaves frames behind: the jobs that still wait, and then its own joiner.
NoFrameLeaks ==
  LET waiting == {f \in Frames : f[1] = "o" /\ ev[EventOf(f)] = "waiting"} IN
  Finished => {f \in Frames : fr[f].st \in {"live", "done"}} =
    IF mode = "context" /\ waiting # {} THEN waiting \cup {Root} ELSE {}

\* No wake-up is lost: every thread finishes, the one blocked in sync_wait
\* included, however the sets race with the awaits, the decrements with
\* try_await and join, and the store and the wake with the futex wait.
AllFinish == <>[]Finished
============================================================================
