---------------------------- MODULE AsyncLogger ----------------------------
(***************************************************************************)
(* async_logger: logging threads append to rings of their own, the logger  *)
(* thread polls the rings, formats and writes, and the owner starts and    *)
(* stops it.                                                               *)
(*                                                                         *)
(* A ring is a bounded FIFO (SpscRing shows that spsc_ring is one).  A     *)
(* thread in Followed may log one entry that the properties follow, and    *)
(* all threads any number of others; once out of the rings the followed    *)
(* entries are a set of threads.  The sections under mutex_ contain no     *)
(* wait, so each is one step; everything the code does without the lock is *)
(* a step of its own.                                                      *)
(***************************************************************************)
EXTENDS Integers, Sequences, FiniteSets

CONSTANTS Threads,   \* the logging threads
          Followed,  \* those that log an entry the properties follow
          Room,      \* entries that fit in a ring
          Reserved,  \* log_rings_.reserve(4)
          MaxRuns    \* bound: calls of run()

ASSUME LoggerAssumption ==
    /\ IsFiniteSet(Threads) /\ Followed \subseteq Threads
    /\ Room \in Nat \ {0} /\ Reserved \in Nat /\ MaxRuns \in Nat

VARIABLES
    rings,     \* log_rings_, by the thread that owns the ring
    storage,   \* how often the vector has moved to new memory
    capacity,  \* of the vector
    ring,      \* the contents of each ring: followed (TRUE) or other entries
    ppc,       \* where each thread is in append()
    entry,     \* is the entry it appends its followed one?
    logged,    \* threads that have begun to log their followed entry
    signal,    \* signal_
    force,     \* force_flush_
    stopReq,   \* stop_source_
    latch,     \* count_down_latch_
    lpc,       \* where the logger thread is
    final,     \* is it in its last poll()?
    size,      \* rings_size
    idx,       \* i
    ref,       \* the memory of log_rings_ that "ring" refers to
    empty,     \* empty
    backlog,   \* followed entries in backlogs
    some,      \* is anything in backlogs or writing_buffer_?
    buffer,    \* followed entries in writing_buffer_
    file,      \* followed entries given to output_file_, not yet flushed
    disk,      \* followed entries flushed
    main,      \* where the owner is in run() and stop()
    again,     \* is it stopping in order to run again?
    runs,      \* threads started so far
    before     \* followed entries in the rings, or further, when stop() began

vecVars == <<rings, storage, capacity>>
appVars == <<ring, ppc, entry, logged>>
flagVars == <<signal, force, stopReq, latch>>
pollVars == <<final, size, idx, ref, empty>>
dataVars == <<backlog, some, buffer, file, disk>>
mainVars == <<main, again, runs, before>>
vars == <<vecVars, appVars, flagVars, lpc, pollVars, dataVars, mainVars>>

Init ==
    /\ rings = <<>> /\ storage = 0 /\ capacity = Reserved
    /\ ring = [t \in Threads |-> <<>>]
    /\ ppc = [t \in Threads |-> "idle"]
    /\ entry = [t \in Threads |-> FALSE]
    /\ logged = {}
    /\ signal = FALSE /\ force = FALSE /\ stopReq = FALSE /\ latch = 1
    /\ lpc = "none"
    /\ final = FALSE /\ size = 0 /\ idx = 1 /\ ref = 0 /\ empty = TRUE
    /\ backlog = {} /\ some = FALSE /\ buffer = {} /\ file = {} /\ disk = {}
    /\ main = "idle" /\ again = FALSE /\ runs = 0 /\ before = {}

Registered(t) == \E i \in DOMAIN rings : rings[i] = t

\* Notifying cond_ wakes the logger if it waits, and is forgotten otherwise.
NotifyCond == lpc' = IF lpc = "waiting" THEN "woken" ELSE lpc

-----------------------------------------------------------------------------
(* append(), in a logging thread.                                          *)

\* Mutant: the logger is not told of the new ring.
RegisterNoSignal(t) == rings' = Append(rings, t) /\ UNCHANGED <<storage, capacity, signal>>

\* The first append of a thread adds its ring, under the lock.  A vector without
\* room moves its elements to memory twice as large and frees the old.
Register(t) ==
    /\ rings' = Append(rings, t)
    /\ IF Len(rings) < capacity
       THEN UNCHANGED <<storage, capacity>>
       ELSE storage' = storage + 1 /\ capacity' = 2 * capacity + (IF capacity = 0 THEN 1 ELSE 0)
    /\ signal' = TRUE

\* append up to emplace_back; what precedes the lock is the thread's own.
AppendEntry(t, followed) ==
    /\ ppc[t] = "idle"
    /\ followed => t \in Followed \ logged
    /\ entry' = [entry EXCEPT ![t] = followed]
    /\ logged' = IF followed THEN logged \cup {t} ELSE logged
    /\ IF Registered(t) THEN UNCHANGED <<vecVars, signal>> ELSE Register(t)
    /\ ppc' = [ppc EXCEPT ![t] = "emplace"]
    /\ UNCHANGED <<ring, force, stopReq, latch, lpc, pollVars, dataVars, mainVars>>

\* emplace_back spins until the ring has room.
Emplace(t) ==
    /\ ppc[t] = "emplace"
    /\ Len(ring[t]) < Room
    /\ ring' = [ring EXCEPT ![t] = Append(@, entry[t])]
    /\ ppc' = [ppc EXCEPT ![t] = "notify"]
    /\ UNCHANGED <<vecVars, entry, logged, flagVars, lpc, pollVars, dataVars, mainVars>>

NotifyOne(t) ==
    /\ ppc[t] = "notify"
    /\ NotifyCond
    /\ ppc' = [ppc EXCEPT ![t] = "idle"]
    /\ entry' = [entry EXCEPT ![t] = FALSE]
    /\ UNCHANGED <<vecVars, ring, logged, flagVars, pollVars, dataVars, mainVars>>

-----------------------------------------------------------------------------
(* logging_loop() and poll(), in the logger thread.                        *)

CountDown ==
    /\ lpc = "start"
    /\ latch' = latch - 1
    /\ lpc' = "loop"
    /\ UNCHANGED <<vecVars, appVars, signal, force, stopReq, pollVars, dataVars, mainVars>>

\* Mutant: no last poll() once stop is requested.
LoopTestNoFinalPoll ==
    /\ lpc = "loop"
    /\ lpc' = IF stopReq THEN "last" ELSE "poll"
    /\ UNCHANGED <<vecVars, appVars, flagVars, pollVars, dataVars, mainVars>>

\* while (!stop_requested()); after it, one more poll() that flushes.
LoopTest ==
    /\ lpc = "loop"
    /\ final' = stopReq
    /\ force' = (force \/ stopReq)
    /\ lpc' = "poll"
    /\ UNCHANGED <<vecVars, appVars, signal, stopReq, latch, size, idx, ref, empty, dataVars, mainVars>>

\* poll() reads the number of rings under the lock.
PollSize ==
    /\ lpc = "poll"
    /\ size' = Len(rings) /\ idx' = 1 /\ empty' = TRUE
    /\ lpc' = "ring"
    /\ UNCHANGED <<vecVars, appVars, flagVars, final, ref, dataVars, mainVars>>

\* auto &ring = log_rings_[i], without the lock.
PollRing ==
    /\ lpc = "ring" /\ idx <= size
    /\ ref' = storage
    /\ lpc' = "batch"
    /\ UNCHANGED <<vecVars, appVars, flagVars, final, size, idx, empty, dataVars, mainVars>>

\* ring->batch_out(backlogs)
BatchOut ==
    /\ lpc = "batch"
    /\ LET t == rings[idx]
       IN  /\ empty' = (empty /\ ring[t] = <<>>)
           /\ backlog' = IF \E i \in DOMAIN ring[t] : ring[t][i] THEN backlog \cup {t} ELSE backlog
           /\ some' = (some \/ ring[t] # <<>>)
           /\ ring' = [ring EXCEPT ![t] = <<>>]
    /\ idx' = idx + 1 /\ ref' = 0
    /\ lpc' = "ring"
    /\ UNCHANGED <<vecVars, ppc, entry, logged, flagVars, final, size, buffer, file, disk, mainVars>>

\* The end of a pass over the rings: leave the loop if all were empty, if
\* signalled, if a flush is due or if stop is requested; go round otherwise.
EndPass ==
    /\ lpc = "ring" /\ idx > size
    /\ IF empty \/ signal \/ force
       THEN signal' = FALSE /\ lpc' = "format"
       ELSE lpc' = (IF stopReq THEN "format" ELSE "ring") /\ UNCHANGED signal
    /\ idx' = 1 /\ empty' = TRUE
    /\ size' = IF lpc' = "ring" THEN size ELSE 0
    /\ UNCHANGED <<vecVars, appVars, force, stopReq, latch, final, ref, dataVars, mainVars>>

AfterPoll == IF final THEN "last" ELSE "wait"

\* Format backlogs into writing_buffer_ and decide whether to write it: a flush is
\* due, or the buffer is full (full, a matter of bytes).
Format(full) ==
    /\ lpc = "format"
    /\ full => some
    /\ buffer' = buffer \cup backlog /\ backlog' = {}
    /\ lpc' = IF some /\ (force \/ full) THEN "flush" ELSE AfterPoll
    /\ UNCHANGED <<vecVars, appVars, flagVars, pollVars, some, file, disk, mainVars>>

\* log_file::append: a file that is long enough (roll, a matter of bytes) is flushed
\* and the next one opened.
Unflushed(roll) == IF roll THEN buffer ELSE file \cup buffer

\* output_file_.append, then force_flush() if a flush is due.
Flush(roll) ==
    /\ lpc = "flush"
    /\ file' = IF force THEN {} ELSE Unflushed(roll)
    /\ disk' = disk \cup ((file \cup buffer) \ file')
    /\ lpc' = IF force THEN "reset" ELSE AfterPoll
    /\ buffer' = {} /\ some' = FALSE
    /\ UNCHANGED <<vecVars, appVars, flagVars, pollVars, backlog, mainVars>>

\* force_flush_ = false, which may undo what stop() has just set.
ResetForce ==
    /\ lpc = "reset"
    /\ force' = FALSE
    /\ lpc' = AfterPoll
    /\ UNCHANGED <<vecVars, appVars, signal, stopReq, latch, pollVars, dataVars, mainVars>>

\* Lock, and wait on cond_, which unlocks.
Wait ==
    /\ lpc = "wait"
    /\ lpc' = "waiting"
    /\ UNCHANGED <<vecVars, appVars, flagVars, pollVars, dataVars, mainVars>>

\* The flush interval ends (or the wait does for no reason).
Timeout ==
    /\ lpc = "waiting"
    /\ lpc' = "woken"
    /\ UNCHANGED <<vecVars, appVars, flagVars, pollVars, dataVars, mainVars>>

\* Mutant: being woken does not make a flush due.
WakeNoForce ==
    /\ lpc = "woken"
    /\ lpc' = "loop"
    /\ UNCHANGED <<vecVars, appVars, flagVars, pollVars, dataVars, mainVars>>

\* wait_for returns, with the lock.
Wake ==
    /\ lpc = "woken"
    /\ force' = TRUE
    /\ lpc' = "loop"
    /\ UNCHANGED <<vecVars, appVars, signal, stopReq, latch, pollVars, dataVars, mainVars>>

\* output_file_.force_flush(), and the thread ends.
LastFlush ==
    /\ lpc = "last"
    /\ disk' = disk \cup file /\ file' = {}
    /\ lpc' = "ended"
    /\ UNCHANGED <<vecVars, appVars, flagVars, pollVars, backlog, some, buffer, mainVars>>

-----------------------------------------------------------------------------
(* run() and stop(), in the owner's thread.                                *)

\* The jthread, in run() and block_sigint_then_run().
StartThread ==
    /\ runs' = runs + 1
    /\ lpc' = "start" /\ final' = FALSE
    /\ main' = "latch" /\ again' = FALSE /\ before' = {}

\* The followed entries that have got into a ring, wherever they are now.
Appended ==
    {t \in logged : ppc[t] = "emplace" => ~entry[t]}

\* The first statement of stop().
RequestStop ==
    /\ main = "running"
    /\ stopReq' = TRUE
    /\ before' = Appended
    /\ main' = "force"

\* run() starts a thread; if there is one, it calls stop() first.
Run ==
    /\ runs < MaxRuns
    /\ \/ main \in {"idle", "stopped"} /\ StartThread /\ UNCHANGED stopReq
       \/ RequestStop /\ again' = TRUE /\ UNCHANGED <<lpc, final, runs>>
    /\ UNCHANGED <<vecVars, appVars, signal, force, latch, size, idx, ref, empty, dataVars>>

\* count_down_latch_.wait() returns when the count is zero.
LatchWait ==
    /\ main = "latch" /\ latch = 0
    /\ main' = "running"
    /\ UNCHANGED <<vecVars, appVars, flagVars, lpc, pollVars, dataVars, again, runs, before>>

\* A call of stop(), or the destructor's.
Stop ==
    /\ RequestStop
    /\ UNCHANGED <<vecVars, appVars, signal, force, latch, lpc, pollVars, dataVars, again, runs>>

\* Under the lock.
StopForce ==
    /\ main = "force"
    /\ force' = TRUE
    /\ main' = "notify"
    /\ UNCHANGED <<vecVars, appVars, signal, stopReq, latch, lpc, pollVars, dataVars, again, runs, before>>

NotifyAll ==
    /\ main = "notify"
    /\ NotifyCond
    /\ main' = "join"
    /\ UNCHANGED <<vecVars, appVars, flagVars, pollVars, dataVars, again, runs, before>>

Join ==
    /\ main = "join" /\ lpc = "ended"
    /\ IF again THEN StartThread
       ELSE main' = "stopped" /\ lpc' = "none" /\ UNCHANGED <<final, again, runs, before>>
    /\ UNCHANGED <<vecVars, appVars, flagVars, size, idx, ref, empty, dataVars>>

-----------------------------------------------------------------------------
Logger ==
    \/ CountDown \/ LoopTest \/ PollSize \/ PollRing \/ BatchOut \/ EndPass
    \/ (\E full \in BOOLEAN : Format(full)) \/ (\E roll \in BOOLEAN : Flush(roll)) \/ ResetForce
    \/ Wait \/ Wake \/ LastFlush

Appending(t) == Emplace(t) \/ NotifyOne(t)

Owner == LatchWait \/ StopForce \/ NotifyAll \/ Join

Next ==
    \/ Logger \/ Timeout
    \/ \E t \in Threads : Appending(t) \/ \E followed \in BOOLEAN : AppendEntry(t, followed)
    \/ Owner \/ Run \/ Stop

Spec == Init /\ [][Next]_vars

\* The logger, the owner and the threads that are followed run, and the wait of the
\* logger ends.  Nobody has to log, to run or to stop, and the other threads may halt
\* inside append.
FairSpec ==
    /\ Spec
    /\ WF_vars(Logger \/ Timeout) /\ WF_vars(Owner)
    /\ \A t \in Followed : WF_vars(Appending(t))

-----------------------------------------------------------------------------
(* Correctness.                                                            *)

\* Every variable keeps its shape; a ring never holds more than it has room for.
TypeOK ==
    /\ rings \in Seq(Threads) /\ storage \in Nat /\ capacity \in Nat
    /\ ring \in [Threads -> Seq(BOOLEAN)] /\ \A t \in Threads : Len(ring[t]) <= Room
    /\ ppc \in [Threads -> {"idle", "emplace", "notify"}]
    /\ entry \in [Threads -> BOOLEAN]
    /\ {signal, force, stopReq, final, empty, some, again} \subseteq BOOLEAN
    /\ latch \in Int
    /\ lpc \in {"none", "start", "loop", "poll", "ring", "batch", "format", "flush",
                "reset", "wait", "waiting", "woken", "last", "ended"}
    /\ size \in 0 .. Len(rings) /\ idx \in 1 .. Len(rings) + 1 /\ ref \in 0 .. storage
    /\ \A S \in {logged, backlog, buffer, file, disk, before} : S \subseteq Threads
    /\ main \in {"idle", "latch", "running", "force", "notify", "join", "stopped"}
    /\ runs \in 0 .. MaxRuns

\* What was in the rings when stop() was called is on disk when it returns, whatever
\* the logger was doing, and whichever flags it reset meanwhile; and run() "make[s]
\* sure it 's running then return[s] to caller".  A logger that is run again finds the
\* latch at zero and the stop still requested, and may end before: nothing is said of
\* the later runs.
StopFlushes ==
    /\ TypeOK
    /\ runs = 1 =>
        /\ main = "stopped" => before \subseteq disk
        /\ main = "running" => lpc \notin {"none", "start", "ended"}

\* The reference into log_rings_ that poll() takes and uses without the lock is not to
\* memory that append() has freed ("to make this work requires a reserved log_rings_").
\* The vector is reserved for four rings and nothing limits the threads: the fifth
\* thread that logs breaks it.
RingAlive == lpc = "batch" => ref = storage

Stopping == main \in {"force", "notify", "join"}

InRing(t) == \E i \in DOMAIN ring[t] : ring[t][i]

\* Once the logger has been asleep, an entry is flushed even if its notification
\* was lost and however busy the threads are.
Persisted ==
    \A t \in Followed :
        (lpc \in {"waiting", "woken"} /\ InRing(t)) ~> (t \in disk \/ stopReq)

\* stop() returns, also when its notification comes before the logger waits; and a
\* thread that logs into a full ring gets on while the logger runs, a thread that has
\* just registered included.
CallsReturn ==
    /\ Stopping ~> ~Stopping
    /\ \A t \in Followed : (ppc[t] = "emplace" /\ main = "running") ~> (ppc[t] # "emplace" \/ stopReq)
=============================================================================
