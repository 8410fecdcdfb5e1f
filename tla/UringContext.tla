---------------------------- MODULE UringContext ----------------------------
(***************************************************************************)
(* The proactor core: io_uring_context and the io_token / io_awaitable     *)
(* protocol on top of the two liburing rings.                              *)
(*                                                                         *)
(* One thread owns the context.  It submits the SQ, waits, and walks the   *)
(* CQ; every CQE that carries a token resumes the coroutine that awaits    *)
(* it, inside the walk.  A resumed coroutine takes more sqes, starts other *)
(* coroutines, and so can re-enter io_uring_get_sqe_safe, which submits    *)
(* the SQ and gives CQ entries back in the middle of the walk.  The kernel *)
(* completes requests at any moment.                                       *)
(*                                                                         *)
(* A request is identified by its absolute position in the SQ.  The only   *)
(* sqe / cqe field that matters is user_data: the coroutine whose token it *)
(* points to, or Null (a detached request).                                *)
(***************************************************************************)
EXTENDS Integers, Sequences

CONSTANTS Coros,      \* the coroutines (each a chain of tasks) that do I/O
          Null,       \* the null user_data
          SqEntries,  \* slots of the submission ring
          CqEntries,  \* slots of the completion ring
          TimedOps,   \* do coroutines use the timed recv/send/connect?
          EbusyKernel,\* does submit fail with -EBUSY behind a full CQ?
          MaxSqe      \* bound: how many sqes are ever taken

ASSUME UringAssumption ==
    /\ Null \notin Coros
    /\ SqEntries \in Nat \ {0, 1}
    /\ CqEntries \in Nat \ {0}
    /\ TimedOps \in BOOLEAN /\ EbusyKernel \in BOOLEAN
    /\ MaxSqe \in Nat

VARIABLES
    sqe,       \* user_data stored in each SQ slot
    sqHead,    \* first sqe the kernel has not consumed
    sqTail,    \* liburing's sqe_tail: the next sqe to hand out
    inflight,  \* requests the kernel works on: [id, data]
    backlog,   \* completed requests that found the CQ full
    cqes,      \* the CQ slots, [id, data] each
    cqHead,    \* cq.khead: the first CQE not given back to the kernel
    cqTail,    \* cq.ktail: where the kernel posts next
    cqeCount,  \* io_uring_context::cqe_count
    head,      \* the local cursor of io_uring_for_each_cqe
    pc,        \* the thread: outer loop, blocked in enter, walking the CQ
    stack,     \* coroutines now on the thread's stack, innermost first
    phase,     \* "linked": the innermost one is between its linked sqe and
               \* the link_timeout sqe of a timed operation
    co,        \* what each coroutine is doing
    waits,     \* the request whose awaitable each coroutine last made
    split      \* coroutines whose token went into an already consumed sqe

sqVars == <<sqe, sqHead, sqTail>>
cqVars == <<cqes, cqHead, cqTail, cqeCount, head>>
coVars == <<stack, phase, co, waits, split>>
kVars == <<inflight, backlog>>
vars == <<sqVars, kVars, cqVars, pc, coVars>>

Data == Coros \cup {Null}
Request == [id : Nat, data : Data]

SqSlot(i) == i % SqEntries
CqSlot(i) == i % CqEntries

Init ==
    /\ sqe = [s \in 0 .. SqEntries - 1 |-> Null]
    /\ sqHead = 0 /\ sqTail = 0
    /\ inflight = {} /\ backlog = {}
    /\ cqes = [s \in 0 .. CqEntries - 1 |-> [id |-> 0, data |-> Null]]
    /\ cqHead = 0 /\ cqTail = 0
    /\ cqeCount = 0 /\ head = 0
    /\ pc = "loop"
    /\ stack = <<>> /\ phase = "free"
    /\ co = [c \in Coros |-> "unborn"]
    /\ waits = [c \in Coros |-> 0]
    /\ split = {}

-----------------------------------------------------------------------------
(* The submission side.                                                    *)

\* What the kernel copies when it consumes the sqes sqHead .. sqTail - 1.
Consumed == {[id |-> i, data |-> sqe[SqSlot(i)]] : i \in sqHead .. sqTail - 1}

\* io_uring_get_sqe finds a slot iff the ring is not full.
SqFull == sqTail - sqHead >= SqEntries

\* io_uring_submit: the kernel consumes every prepared sqe.  Kernels from 5.5
\* on may refuse with -EBUSY until the backlog is gone; the code ignores the
\* result.
Submit ==
    /\ IF EbusyKernel /\ backlog # {}
       THEN UNCHANGED <<inflight, sqHead>>
       ELSE /\ inflight' = inflight \cup Consumed
            /\ sqHead' = sqTail
    /\ UNCHANGED <<sqe, sqTail, backlog>>

\* Mutant: the counter is not reset after the advance.
AdvanceCqKeepsCount ==
    /\ cqHead' = cqHead + cqeCount
    /\ UNCHANGED cqeCount

\* io_uring_cq_advance(&ring, cqe_count); cqe_count = 0;
AdvanceCq ==
    /\ cqHead' = cqHead + cqeCount
    /\ cqeCount' = 0

-----------------------------------------------------------------------------
(* The event loop.                                                         *)

\* wait_for_completions: io_uring_submit_and_wait enters the kernel.
WaitForCompletions ==
    /\ pc = "loop" /\ stack = <<>>
    /\ Submit
    /\ pc' = "wait"
    /\ UNCHANGED <<cqVars, coVars>>

\* Mutant: the loop asks io_uring_submit_and_wait for two completions.
StartHandleWaitsForTwo(interrupted) ==
    /\ pc = "wait"
    /\ interrupted \/ cqTail - cqHead >= 2
    /\ head' = cqHead
    /\ pc' = "handle"
    /\ UNCHANGED <<sqVars, kVars, cqes, cqHead, cqTail, cqeCount, coVars>>

\* It returns once there is a CQE to read, or is interrupted by a signal; then
\* handle_completions starts its walk at the head of the CQ.
StartHandle(interrupted) ==
    /\ pc = "wait"
    /\ interrupted \/ cqHead # cqTail
    /\ head' = cqHead
    /\ pc' = "handle"
    /\ UNCHANGED <<sqVars, kVars, cqes, cqHead, cqTail, cqeCount, coVars>>

\* Mutant: handle_completions resolves every token, the null one too.
HandleCqeNoNullCheck ==
    /\ pc = "handle" /\ stack = <<>>
    /\ head # cqTail
    /\ cqeCount' = cqeCount + 1
    /\ head' = head + 1
    /\ LET c == cqes[CqSlot(head)].data
       IN  /\ stack' = <<c>>
           /\ co' = [co EXCEPT ![c] = "running"]
    /\ UNCHANGED <<sqVars, kVars, cqes, cqHead, cqTail, pc, phase, waits, split>>

\* One turn of io_uring_for_each_cqe: count the CQE, then resume the coroutine
\* of its token.  The cursor moves on when the coroutine returns; nothing reads
\* it in between, so the step moves it at once.
HandleCqe ==
    /\ pc = "handle" /\ stack = <<>>
    /\ head # cqTail
    /\ cqeCount' = cqeCount + 1
    /\ head' = head + 1
    /\ LET c == cqes[CqSlot(head)].data
       IN  IF c = Null
           THEN UNCHANGED <<stack, co>>
           ELSE /\ stack' = <<c>>
                /\ co' = [co EXCEPT ![c] = "running"]
    /\ UNCHANGED <<sqVars, kVars, cqes, cqHead, cqTail, pc, phase, waits, split>>

\* The walk has caught up with the kernel: give the CQEs back.
EndHandle ==
    /\ pc = "handle" /\ stack = <<>>
    /\ head = cqTail
    /\ AdvanceCq
    /\ pc' = "loop"
    /\ UNCHANGED <<sqVars, kVars, cqes, cqTail, head, coVars>>

-----------------------------------------------------------------------------
(* What a coroutine on top of the stack does.                              *)

Running(c) == stack # <<>> /\ Head(stack) = c

\* A coroutine is started by do_todo_list from the loop, or spawned by another.
Start(c) ==
    /\ co[c] = "unborn"
    /\ stack # <<>> \/ pc = "loop"
    /\ phase = "free"
    /\ co' = [co EXCEPT ![c] = "running"]
    /\ stack' = <<c>> \o stack
    /\ UNCHANGED <<sqVars, kVars, cqVars, pc, phase, waits, split>>

\* The slow path of io_uring_get_sqe_safe: no sqe is free, so give back the
\* CQEs handled so far, submit, and look again.
GetSqeFlush(c) ==
    /\ Running(c) /\ SqFull /\ sqTail < MaxSqe
    /\ AdvanceCq
    /\ Submit
    /\ UNCHANGED <<cqes, cqTail, head, pc, coVars>>

\* io_uring_get_sqe succeeds and its user_data is set to d.
TakeSqe(d) ==
    /\ ~SqFull
    /\ sqe' = [sqe EXCEPT ![SqSlot(sqTail)] = d]
    /\ sqTail' = sqTail + 1

Suspend(c) ==
    /\ co' = [co EXCEPT ![c] = "suspended"]
    /\ stack' = Tail(stack)

\* co_await ctx.op(...): prepare an sqe, make its awaitable, store the token in
\* it and suspend, with nothing in between.
AwaitOp(c) ==
    /\ Running(c) /\ phase = "free" /\ sqTail < MaxSqe
    /\ TakeSqe(c)
    /\ waits' = [waits EXCEPT ![c] = sqTail]
    /\ Suspend(c)
    /\ UNCHANGED <<sqHead, kVars, cqVars, pc, phase, split>>

\* The first half of a timed operation: an sqe with IOSQE_IO_LINK whose
\* awaitable is kept; io_awaitable_base leaves user_data null.
PrepTimed(c) ==
    /\ TimedOps
    /\ Running(c) /\ phase = "free" /\ sqTail + 1 < MaxSqe
    /\ TakeSqe(Null)
    /\ waits' = [waits EXCEPT ![c] = sqTail]
    /\ phase' = "linked"
    /\ UNCHANGED <<sqHead, kVars, cqVars, pc, stack, co, split>>

\* Mutant: the token also goes into the link_timeout sqe.
LinkTimeoutTokenTwice(c) ==
    /\ Running(c) /\ phase = "linked"
    /\ ~SqFull
    /\ sqe' = [sqe EXCEPT ![SqSlot(sqTail)] = c, ![SqSlot(waits[c])] = c]
    /\ sqTail' = sqTail + 1
    /\ split' = IF waits[c] < sqHead THEN split \cup {c} ELSE split
    /\ phase' = "free"
    /\ Suspend(c)
    /\ UNCHANGED <<sqHead, kVars, cqVars, pc, waits>>

\* Mutant: the token goes into the link_timeout sqe instead of the first one.
LinkTimeoutTokenMisplaced(c) ==
    /\ Running(c) /\ phase = "linked"
    /\ ~SqFull
    /\ sqe' = [sqe EXCEPT ![SqSlot(sqTail)] = c]
    /\ sqTail' = sqTail + 1
    /\ phase' = "free"
    /\ Suspend(c)
    /\ UNCHANGED <<sqHead, kVars, cqVars, pc, waits, split>>

\* The second half: link_timeout takes a detached sqe, then co_await stores the
\* token through the pointer to the first sqe, wherever that sqe now is.
LinkTimeoutAndAwait(c) ==
    /\ Running(c) /\ phase = "linked"
    /\ ~SqFull
    /\ sqe' = [sqe EXCEPT ![SqSlot(sqTail)] = Null, ![SqSlot(waits[c])] = c]
    /\ sqTail' = sqTail + 1
    /\ split' = IF waits[c] < sqHead THEN split \cup {c} ELSE split
    /\ phase' = "free"
    /\ Suspend(c)
    /\ UNCHANGED <<sqHead, kVars, cqVars, pc, waits>>

\* The coroutine runs to its end and control returns to whoever resumed it.
Finish(c) ==
    /\ Running(c) /\ phase = "free"
    /\ co' = [co EXCEPT ![c] = "done"]
    /\ stack' = Tail(stack)
    /\ UNCHANGED <<sqVars, kVars, cqVars, pc, phase, waits, split>>

-----------------------------------------------------------------------------
(* The kernel.  A completion that finds the CQ full is kept in a backlog    *)
(* and posted when there is room (IORING_FEAT_NODROP).                     *)

CqFull == cqTail - cqHead >= CqEntries

PostCqe(r) ==
    /\ ~CqFull
    /\ cqes' = [cqes EXCEPT ![CqSlot(cqTail)] = r]
    /\ cqTail' = cqTail + 1
    /\ UNCHANGED <<sqVars, cqHead, cqeCount, head, pc, coVars>>

Complete(r) ==
    /\ r \in inflight
    /\ inflight' = inflight \ {r}
    /\ \/ /\ backlog = {}
          /\ PostCqe(r)
          /\ UNCHANGED backlog
       \/ /\ CqFull \/ backlog # {}
          /\ backlog' = backlog \cup {r}
          /\ UNCHANGED <<sqVars, cqVars, pc, coVars>>

FlushBacklog(r) ==
    /\ r \in backlog
    /\ PostCqe(r)
    /\ backlog' = backlog \ {r}
    /\ UNCHANGED inflight

Thread ==
    \/ WaitForCompletions
    \/ StartHandle(FALSE)
    \/ HandleCqe
    \/ EndHandle

Coroutine(c) ==
    \/ GetSqeFlush(c)
    \/ AwaitOp(c)
    \/ PrepTimed(c)
    \/ LinkTimeoutAndAwait(c)
    \/ Finish(c)

Next ==
    \/ Thread
    \/ StartHandle(TRUE)
    \/ \E c \in Coros : Start(c) \/ Coroutine(c)
    \/ \E r \in inflight : Complete(r)
    \/ \E r \in backlog : FlushBacklog(r)

Spec == Init /\ [][Next]_vars

\* The thread and the coroutine it runs make progress; the environment (signals,
\* new coroutines, completions) owes nothing beyond draining its backlog.
FairSpec ==
    /\ Spec
    /\ WF_vars(Thread)
    /\ WF_vars(\E c \in Coros : Coroutine(c))
    /\ WF_vars(\E r \in backlog : FlushBacklog(r))

\* As FairSpec, with a kernel that completes every request: the case when all
\* operations are timed, since the linked timeout cancels what does not finish.
TimedSpec ==
    /\ FairSpec
    /\ WF_vars(\E r \in inflight : Complete(r))

-----------------------------------------------------------------------------
(* Correctness.                                                            *)

\* Every variable keeps its shape; the stack holds the running coroutines.
TypeOK ==
    /\ sqe \in [0 .. SqEntries - 1 -> Data]
    /\ sqHead \in Nat /\ sqTail \in Nat
    /\ inflight \subseteq Request /\ backlog \subseteq Request
    /\ cqes \in [0 .. CqEntries - 1 -> Request]
    /\ cqHead \in Nat /\ cqTail \in Nat /\ cqeCount \in Nat /\ head \in Nat
    /\ pc \in {"loop", "wait", "handle"}
    /\ stack \in Seq(Coros)
    /\ phase \in {"free", "linked"}
    /\ co \in [Coros -> {"unborn", "running", "suspended", "done"}]
    /\ waits \in [Coros -> Nat]
    /\ split \subseteq Coros

\* Where the thread will read the next CQE.
Cursor == IF pc = "handle" THEN head ELSE cqHead

\* The CQ accounting of handle_completions survives re-entry through
\* io_uring_get_sqe_safe: what has been given back plus what is counted in
\* cqe_count is exactly what has been read.  So no CQE is given back to the
\* kernel before it is read, and none is read twice; and neither ring ever
\* holds more than its slots.
CqAccounting ==
    /\ cqHead + cqeCount = Cursor
    /\ Cursor <= cqTail
    /\ cqTail - cqHead <= CqEntries
    /\ sqTail - sqHead <= SqEntries

Pending == sqHead .. sqTail - 1
Unread == Cursor .. cqTail - 1

\* The requests that carry the token of c: prepared, in the kernel, or posted and
\* not yet read.
Carriers(c) ==
         {<<"sq", i>> : i \in {j \in Pending : sqe[SqSlot(j)] = c}}
    \cup {<<"inflight", r.id>> : r \in {q \in inflight : q.data = c}}
    \cup {<<"backlog", r.id>> : r \in {q \in backlog : q.data = c}}
    \cup {<<"cq", i>> : i \in {j \in Unread : cqes[CqSlot(j)].data = c}}

\* A coroutine suspended in co_await has exactly one request that will resume
\* it, and a coroutine that is not suspended has none: no wake-up is lost and no
\* token outlives its awaiter.  The exception is a coroutine whose timed
\* operation was split by a flush between its two sqes: it has none.
TokenConservation ==
    \A c \in Coros :
        IF co[c] = "suspended" /\ c \notin split
        THEN \E x \in Carriers(c) : Carriers(c) = {x}
        ELSE Carriers(c) = {}

\* io_token::resolve resumes a coroutine only with the completion of the very
\* request it awaits (its result is that request's result), never with the
\* completion of an earlier one.
ResumedByItsRequest ==
    [][\A c \in Coros :
          co[c] = "suspended" /\ co'[c] # "suspended"
            => cqes[CqSlot(head)] = [id |-> waits[c], data |-> c]]_vars

\* The thread is inside io_uring_get_sqe_safe, or about to enter it, with no free sqe.
NoSqe == stack # <<>> /\ SqFull

\* A completion the kernel has produced for a suspended coroutine resumes it, even
\* when the CQ was full and the submits were refused meanwhile, and while other
\* coroutines keep taking sqes; unless the thread spins in io_uring_get_sqe_safe for
\* ever.
CompletionDelivered ==
    ([]<>~NoSqe) =>
        \A c \in Coros :
            (\/ \E r \in backlog : r.data = c
             \/ \E i \in Unread : cqes[CqSlot(i)].data = c)
                ~> co[c] # "suspended"

\* io_uring_get_sqe_safe returns ("Get a sqe pointer that can never be NULL"): a
\* coroutine in the middle of a timed operation gets its second sqe.  It fails behind a
\* kernel that answers -EBUSY: the loop ignores what io_uring_submit returns, and the
\* backlog that makes the kernel refuse is drained only by the walk this call is in.
SqeEventuallyTaken == (phase = "linked") ~> (phase = "free")

\* A coroutine in a timed recv / send / connect comes back, with the result or
\* with the timeout's cancellation ("it would throw an exception if timeout").
TimedOpReturns ==
    \A c \in Coros : (phase = "linked" /\ Running(c)) ~> (co[c] # "suspended" /\ phase = "free")
=============================================================================
