------------------------- MODULE AsyncLoggerProofs -------------------------
(***************************************************************************)
(* Proofs about async_logger, for any number of logging threads, any room  *)
(* in the rings and any number of runs: what was in the rings when the     *)
(* first stop() was called is on disk when it returns.                     *)
(***************************************************************************)
EXTENDS AsyncLogger, SequenceTheorems, TLAPS

-----------------------------------------------------------------------------
(* The inductive invariant.                                                *)

\* Each thread has at most one ring, and one before it puts anything in it; poll()
\* indexes only rings it has counted; run() stops to run again only below the bound
\* and starts no second thread.
RegInv ==
  /\ \A i, j \in DOMAIN rings : rings[i] = rings[j] => i = j
  /\ \A t \in Threads : ppc[t] = "emplace" \/ ring[t] # <<>> => Registered(t)
  /\ lpc = "batch" => idx <= size
  /\ again => runs < MaxRuns
  /\ main \in {"idle", "stopped"} => lpc = "none"

\* Every followed entry that got into a ring is still somewhere.
PlaceInv ==
  /\ before \subseteq Appended
  /\ \A t \in Appended : InRing(t) \/ t \in backlog \cup buffer \cup file \cup disk
  /\ backlog \cup buffer # {} => some
  /\ lpc \notin {"ring", "batch", "format"} => backlog = {}

\* Where the owner and the logger are relative to each other, in the first run.
OrderInv ==
  /\ runs = 0 => main = "idle" /\ lpc = "none"
  /\ runs = 1 =>
       /\ main # "idle"
       /\ stopReq <=> main \in {"force", "notify", "join", "stopped"}
       /\ final => stopReq
       /\ lpc \in {"last", "ended"} => final
       /\ lpc = "none" => main = "stopped"
       /\ lpc = "start" => main = "latch" /\ latch = 1
  /\ runs = 0 => ~stopReq /\ latch = 1

\* How far the last poll() has brought what stop() found in the rings.
FinalInv ==
  runs = 1 /\ final =>
    /\ lpc \in {"poll", "ring", "batch", "format", "flush"} => force
    /\ lpc \in {"ring", "batch"} =>
         \A t \in before : InRing(t) => \E i \in idx .. size : rings[i] = t
    /\ lpc \in {"format", "flush", "reset", "last", "ended"} => \A t \in before : ~InRing(t)
    /\ lpc \in {"reset", "last", "ended"} => before \cap buffer = {}
    /\ lpc = "ended" => before \cap file = {}

FlushedInv == runs = 1 /\ main = "stopped" => before \subseteq disk

IInv == TypeOK /\ RegInv /\ PlaceInv /\ OrderInv /\ FinalInv /\ FlushedInv

-----------------------------------------------------------------------------
(* Types.                                                                  *)

TypeFlags == {signal, force, stopReq, final, empty, some, again} \subseteq BOOLEAN
TypeRings ==
  /\ rings \in Seq(Threads) /\ storage \in Nat /\ capacity \in Nat
  /\ ring \in [Threads -> Seq(BOOLEAN)] /\ \A t \in Threads : Len(ring[t]) <= Room
  /\ ppc \in [Threads -> {"idle", "emplace", "notify"}]
  /\ entry \in [Threads -> BOOLEAN]
TypePlaces ==
  /\ latch \in Int
  /\ lpc \in {"none", "start", "loop", "poll", "ring", "batch", "format", "flush",
              "reset", "wait", "waiting", "woken", "last", "ended"}
  /\ main \in {"idle", "latch", "running", "force", "notify", "join", "stopped"}
  /\ runs \in 0 .. MaxRuns
TypePoll == size \in 0 .. Len(rings) /\ idx \in 1 .. Len(rings) + 1 /\ ref \in 0 .. storage
TypeSets ==
  /\ logged \subseteq Threads /\ backlog \subseteq Threads /\ buffer \subseteq Threads
  /\ file \subseteq Threads /\ disk \subseteq Threads /\ before \subseteq Threads

LEMMA TypeSplit == TypeOK <=> TypeFlags /\ TypeRings /\ TypePlaces /\ TypePoll /\ TypeSets
BY DEF TypeOK, TypeFlags, TypeRings, TypePlaces, TypePoll, TypeSets

LEMMA TypeSplitPrime ==
  TypeFlags' /\ TypeRings' /\ TypePlaces' /\ TypePoll' /\ TypeSets' => TypeOK'
BY TypeSplit, PTL

\* batch_out is called on a ring of some thread.
LEMMA PolledRing ==
  ASSUME TypeRings, TypePoll, RegInv, BatchOut
  PROVE  idx \in 1 .. Len(rings) /\ idx <= size /\ rings[idx] \in Threads
<1>1. idx <= size
  BY DEF RegInv, BatchOut
<1>2. idx \in 1 .. Len(rings)
  BY <1>1 DEF TypePoll, TypeRings
<1> QED BY <1>1, <1>2, ElementOfSeq DEF TypeRings

\* Flags stay Boolean.
LEMMA FlagsStep == ASSUME TypeFlags, Next PROVE TypeFlags'
<1>1. CASE CountDown
  BY <1>1 DEF CountDown, TypeFlags, vecVars, appVars, flagVars, pollVars, dataVars, mainVars
<1>2. CASE LoopTest
  BY <1>2 DEF LoopTest, TypeFlags, vecVars, appVars, flagVars, pollVars, dataVars, mainVars
<1>3. CASE PollSize
  BY <1>3 DEF PollSize, TypeFlags, vecVars, appVars, flagVars, pollVars, dataVars, mainVars
<1>4. CASE PollRing
  BY <1>4 DEF PollRing, TypeFlags, vecVars, appVars, flagVars, pollVars, dataVars, mainVars
<1>5. CASE BatchOut
  BY <1>5 DEF BatchOut, TypeFlags, vecVars, appVars, flagVars, pollVars, dataVars, mainVars
<1>6. CASE EndPass
  BY <1>6 DEF EndPass, TypeFlags, vecVars, appVars, flagVars, pollVars, dataVars, mainVars
<1>7. ASSUME NEW full \in BOOLEAN, Format(full) PROVE TypeFlags'
  BY <1>7 DEF Format, AfterPoll, TypeFlags, vecVars, appVars, flagVars, pollVars, dataVars, mainVars
<1>8. ASSUME NEW roll \in BOOLEAN, Flush(roll) PROVE TypeFlags'
  BY <1>8 DEF Flush, AfterPoll, Unflushed, TypeFlags, vecVars, appVars, flagVars, pollVars, dataVars, mainVars
<1>9. CASE ResetForce
  BY <1>9 DEF ResetForce, AfterPoll, TypeFlags, vecVars, appVars, flagVars, pollVars, dataVars, mainVars
<1>10. CASE Wait
  BY <1>10 DEF Wait, TypeFlags, vecVars, appVars, flagVars, pollVars, dataVars, mainVars
<1>11. CASE Timeout
  BY <1>11 DEF Timeout, TypeFlags, vecVars, appVars, flagVars, pollVars, dataVars, mainVars
<1>12. CASE Wake
  BY <1>12 DEF Wake, TypeFlags, vecVars, appVars, flagVars, pollVars, dataVars, mainVars
<1>13. CASE LastFlush
  BY <1>13 DEF LastFlush, TypeFlags, vecVars, appVars, flagVars, pollVars, dataVars, mainVars
<1>14. ASSUME NEW t \in Threads, Emplace(t) PROVE TypeFlags'
  BY <1>14 DEF Emplace, TypeFlags, vecVars, appVars, flagVars, pollVars, dataVars, mainVars
<1>15. ASSUME NEW t \in Threads, NotifyOne(t) PROVE TypeFlags'
  BY <1>15 DEF NotifyOne, NotifyCond, TypeFlags, vecVars, appVars, flagVars, pollVars, dataVars, mainVars
<1>16. ASSUME NEW t \in Threads, NEW followed \in BOOLEAN, AppendEntry(t, followed) PROVE TypeFlags'
  BY <1>16 DEF AppendEntry, Register, TypeFlags, vecVars, appVars, flagVars, pollVars, dataVars, mainVars
<1>17. CASE Run
  BY <1>17 DEF Run, StartThread, RequestStop, TypeFlags, vecVars, appVars, flagVars, pollVars, dataVars, mainVars
<1>18. CASE LatchWait
  BY <1>18 DEF LatchWait, TypeFlags, vecVars, appVars, flagVars, pollVars, dataVars, mainVars
<1>19. CASE Stop
  BY <1>19 DEF Stop, RequestStop, TypeFlags, vecVars, appVars, flagVars, pollVars, dataVars, mainVars
<1>20. CASE StopForce
  BY <1>20 DEF StopForce, TypeFlags, vecVars, appVars, flagVars, pollVars, dataVars, mainVars
<1>21. CASE NotifyAll
  BY <1>21 DEF NotifyAll, NotifyCond, TypeFlags, vecVars, appVars, flagVars, pollVars, dataVars, mainVars
<1>22. CASE Join
  BY <1>22 DEF Join, StartThread, TypeFlags, vecVars, appVars, flagVars, pollVars, dataVars, mainVars
<1> QED BY <1>1, <1>2, <1>3, <1>4, <1>5, <1>6, <1>7, <1>8, <1>9, <1>10, <1>11,
         <1>12, <1>13, <1>14, <1>15, <1>16, <1>17, <1>18, <1>19, <1>20, <1>21, <1>22
    DEF Next, Logger, Owner, Appending

\* The rings and what the threads do with them keep their types.
LEMMA RingsStep == ASSUME TypeRings, TypePoll, RegInv, Next PROVE TypeRings'
<1>1. CASE CountDown
  BY <1>1 DEF CountDown, TypeRings, vecVars, appVars, flagVars, pollVars, dataVars, mainVars
<1>2. CASE LoopTest
  BY <1>2 DEF LoopTest, TypeRings, vecVars, appVars, flagVars, pollVars, dataVars, mainVars
<1>3. CASE PollSize
  BY <1>3 DEF PollSize, TypeRings, vecVars, appVars, flagVars, pollVars, dataVars, mainVars
<1>4. CASE PollRing
  BY <1>4 DEF PollRing, TypeRings, vecVars, appVars, flagVars, pollVars, dataVars, mainVars
<1>5. CASE BatchOut
  <2>1. rings[idx] \in Threads
    BY <1>5, PolledRing
  <2>2. <<>> \in Seq(BOOLEAN) /\ Len(<<>>) = 0 /\ Room \in Nat
    BY LoggerAssumption
  <2>3. ring' = [ring EXCEPT ![rings[idx]] = <<>>] /\ UNCHANGED <<vecVars, ppc, entry>>
    BY <1>5 DEF BatchOut
  <2> QED BY <2>1, <2>2, <2>3 DEF TypeRings, vecVars
<1>6. CASE EndPass
  BY <1>6 DEF EndPass, TypeRings, vecVars, appVars, flagVars, pollVars, dataVars, mainVars
<1>7. ASSUME NEW full \in BOOLEAN, Format(full) PROVE TypeRings'
  BY <1>7 DEF Format, AfterPoll, TypeRings, vecVars, appVars, flagVars, pollVars, dataVars, mainVars
<1>8. ASSUME NEW roll \in BOOLEAN, Flush(roll) PROVE TypeRings'
  BY <1>8 DEF Flush, AfterPoll, Unflushed, TypeRings, vecVars, appVars, flagVars, pollVars, dataVars, mainVars
<1>9. CASE ResetForce
  BY <1>9 DEF ResetForce, AfterPoll, TypeRings, vecVars, appVars, flagVars, pollVars, dataVars, mainVars
<1>10. CASE Wait
  BY <1>10 DEF Wait, TypeRings, vecVars, appVars, flagVars, pollVars, dataVars, mainVars
<1>11. CASE Timeout
  BY <1>11 DEF Timeout, TypeRings, vecVars, appVars, flagVars, pollVars, dataVars, mainVars
<1>12. CASE Wake
  BY <1>12 DEF Wake, TypeRings, vecVars, appVars, flagVars, pollVars, dataVars, mainVars
<1>13. CASE LastFlush
  BY <1>13 DEF LastFlush, TypeRings, vecVars, appVars, flagVars, pollVars, dataVars, mainVars
<1>14. ASSUME NEW t \in Threads, Emplace(t) PROVE TypeRings'
  <2>1. /\ ring' = [ring EXCEPT ![t] = Append(@, entry[t])] /\ UNCHANGED <<vecVars, entry>>
        /\ ppc' = [ppc EXCEPT ![t] = "notify"] /\ Len(ring[t]) < Room
    BY <1>14 DEF Emplace
  <2>2. ring[t] \in Seq(BOOLEAN) /\ entry[t] \in BOOLEAN /\ Len(ring[t]) \in Nat /\ Room \in Nat
    BY LoggerAssumption DEF TypeRings
  <2>3. Append(ring[t], entry[t]) \in Seq(BOOLEAN) /\ Len(Append(ring[t], entry[t])) = Len(ring[t]) + 1
    BY <2>2, AppendProperties
  <2>4. Len(Append(ring[t], entry[t])) <= Room
    BY <2>1, <2>2, <2>3
  <2>5. ring' \in [Threads -> Seq(BOOLEAN)] /\ \A u \in Threads : Len(ring'[u]) <= Room
    BY <2>1, <2>3, <2>4 DEF TypeRings
  <2> QED BY <2>1, <2>5 DEF TypeRings, vecVars
<1>15. ASSUME NEW t \in Threads, NotifyOne(t) PROVE TypeRings'
  BY <1>15 DEF NotifyOne, NotifyCond, TypeRings, vecVars, appVars, flagVars, pollVars, dataVars, mainVars
<1>16. ASSUME NEW t \in Threads, NEW followed \in BOOLEAN, AppendEntry(t, followed) PROVE TypeRings'
  <2>1. UNCHANGED vecVars \/ Register(t)
    BY <1>16 DEF AppendEntry
  <2>2. rings' \in Seq(Threads) /\ storage' \in Nat /\ capacity' \in Nat
    <3>1. CASE UNCHANGED vecVars
      BY <3>1 DEF TypeRings, vecVars
    <3>2. CASE Register(t)
      <4>1. rings' \in Seq(Threads)
        BY <3>2, AppendProperties DEF Register, TypeRings
      <4>2. \/ storage' = storage /\ capacity' = capacity
            \/ storage' = storage + 1 /\ capacity' = 2 * capacity + (IF capacity = 0 THEN 1 ELSE 0)
        BY <3>2, Zenon DEF Register
      <4> QED BY <4>1, <4>2 DEF TypeRings
    <3> QED BY <2>1, <3>1, <3>2
  <2>3. entry' \in [Threads -> BOOLEAN]
    BY <1>16 DEF AppendEntry, TypeRings
  <2>4. ppc' \in [Threads -> {"idle", "emplace", "notify"}] /\ ring' = ring
    BY <1>16 DEF AppendEntry, TypeRings
  <2> QED BY <2>2, <2>3, <2>4 DEF TypeRings
<1>17. CASE Run
  BY <1>17 DEF Run, StartThread, RequestStop, TypeRings, vecVars, appVars, flagVars, pollVars, dataVars, mainVars
<1>18. CASE LatchWait
  BY <1>18 DEF LatchWait, TypeRings, vecVars, appVars, flagVars, pollVars, dataVars, mainVars
<1>19. CASE Stop
  BY <1>19 DEF Stop, RequestStop, TypeRings, vecVars, appVars, flagVars, pollVars, dataVars, mainVars
<1>20. CASE StopForce
  BY <1>20 DEF StopForce, TypeRings, vecVars, appVars, flagVars, pollVars, dataVars, mainVars
<1>21. CASE NotifyAll
  BY <1>21 DEF NotifyAll, NotifyCond, TypeRings, vecVars, appVars, flagVars, pollVars, dataVars, mainVars
<1>22. CASE Join
  BY <1>22 DEF Join, StartThread, TypeRings, vecVars, appVars, flagVars, pollVars, dataVars, mainVars
<1> QED BY <1>1, <1>2, <1>3, <1>4, <1>5, <1>6, <1>7, <1>8, <1>9, <1>10, <1>11,
         <1>12, <1>13, <1>14, <1>15, <1>16, <1>17, <1>18, <1>19, <1>20, <1>21, <1>22
    DEF Next, Logger, Owner, Appending

\* So do the control points and the counters.
LEMMA PlacesStep == ASSUME TypePlaces, RegInv, Next PROVE TypePlaces'
<1> MaxRuns \in Nat
  BY LoggerAssumption
<1>1. CASE CountDown
  BY <1>1 DEF CountDown, TypePlaces, RegInv, vecVars, appVars, flagVars, pollVars, dataVars, mainVars
<1>2. CASE LoopTest
  BY <1>2 DEF LoopTest, TypePlaces, RegInv, vecVars, appVars, flagVars, pollVars, dataVars, mainVars
<1>3. CASE PollSize
  BY <1>3 DEF PollSize, TypePlaces, RegInv, vecVars, appVars, flagVars, pollVars, dataVars, mainVars
<1>4. CASE PollRing
  BY <1>4 DEF PollRing, TypePlaces, RegInv, vecVars, appVars, flagVars, pollVars, dataVars, mainVars
<1>5. CASE BatchOut
  BY <1>5 DEF BatchOut, TypePlaces, RegInv, vecVars, appVars, flagVars, pollVars, dataVars, mainVars
<1>6. CASE EndPass
  BY <1>6 DEF EndPass, TypePlaces, RegInv, vecVars, appVars, flagVars, pollVars, dataVars, mainVars
<1>7. ASSUME NEW full \in BOOLEAN, Format(full) PROVE TypePlaces'
  BY <1>7 DEF Format, AfterPoll, TypePlaces, RegInv, vecVars, appVars, flagVars, pollVars, dataVars, mainVars
<1>8. ASSUME NEW roll \in BOOLEAN, Flush(roll) PROVE TypePlaces'
  BY <1>8 DEF Flush, AfterPoll, Unflushed, TypePlaces, RegInv, vecVars, appVars, flagVars, pollVars, dataVars, mainVars
<1>9. CASE ResetForce
  BY <1>9 DEF ResetForce, AfterPoll, TypePlaces, RegInv, vecVars, appVars, flagVars, pollVars, dataVars, mainVars
<1>10. CASE Wait
  BY <1>10 DEF Wait, TypePlaces, RegInv, vecVars, appVars, flagVars, pollVars, dataVars, mainVars
<1>11. CASE Timeout
  BY <1>11 DEF Timeout, TypePlaces, RegInv, vecVars, appVars, flagVars, pollVars, dataVars, mainVars
<1>12. CASE Wake
  BY <1>12 DEF Wake, TypePlaces, RegInv, vecVars, appVars, flagVars, pollVars, dataVars, mainVars
<1>13. CASE LastFlush
  BY <1>13 DEF LastFlush, TypePlaces, RegInv, vecVars, appVars, flagVars, pollVars, dataVars, mainVars
<1>14. ASSUME NEW t \in Threads, Emplace(t) PROVE TypePlaces'
  BY <1>14 DEF Emplace, TypePlaces, RegInv, vecVars, appVars, flagVars, pollVars, dataVars, mainVars
<1>15. ASSUME NEW t \in Threads, NotifyOne(t) PROVE TypePlaces'
  BY <1>15 DEF NotifyOne, NotifyCond, TypePlaces, RegInv, vecVars, appVars, flagVars, pollVars, dataVars, mainVars
<1>16. ASSUME NEW t \in Threads, NEW followed \in BOOLEAN, AppendEntry(t, followed) PROVE TypePlaces'
  BY <1>16 DEF AppendEntry, Register, TypePlaces, RegInv, vecVars, appVars, flagVars, pollVars, dataVars, mainVars
<1>17. CASE Run
  BY <1>17 DEF Run, StartThread, RequestStop, TypePlaces, RegInv, vecVars, appVars, flagVars, pollVars, dataVars, mainVars
<1>18. CASE LatchWait
  BY <1>18 DEF LatchWait, TypePlaces, RegInv, vecVars, appVars, flagVars, pollVars, dataVars, mainVars
<1>19. CASE Stop
  BY <1>19 DEF Stop, RequestStop, TypePlaces, RegInv, vecVars, appVars, flagVars, pollVars, dataVars, mainVars
<1>20. CASE StopForce
  BY <1>20 DEF StopForce, TypePlaces, RegInv, vecVars, appVars, flagVars, pollVars, dataVars, mainVars
<1>21. CASE NotifyAll
  BY <1>21 DEF NotifyAll, NotifyCond, TypePlaces, RegInv, vecVars, appVars, flagVars, pollVars, dataVars, mainVars
<1>22. CASE Join
  BY <1>22 DEF Join, StartThread, TypePlaces, RegInv, vecVars, appVars, flagVars, pollVars, dataVars, mainVars
<1> QED BY <1>1, <1>2, <1>3, <1>4, <1>5, <1>6, <1>7, <1>8, <1>9, <1>10, <1>11,
         <1>12, <1>13, <1>14, <1>15, <1>16, <1>17, <1>18, <1>19, <1>20, <1>21, <1>22
    DEF Next, Logger, Owner, Appending

\* And what poll() keeps: it never passes the rings it has counted.
LEMMA PollStep == ASSUME TypeRings, TypePoll, RegInv, Next PROVE TypePoll'
<1> Len(rings) \in Nat
  BY DEF TypeRings
<1>1. CASE CountDown
  BY <1>1 DEF CountDown, TypePoll, TypeRings, RegInv, vecVars, appVars, flagVars, pollVars, dataVars, mainVars
<1>2. CASE LoopTest
  BY <1>2 DEF LoopTest, TypePoll, TypeRings, RegInv, vecVars, appVars, flagVars, pollVars, dataVars, mainVars
<1>3. CASE PollSize
  BY <1>3 DEF PollSize, TypePoll, TypeRings, RegInv, vecVars, appVars, flagVars, pollVars, dataVars, mainVars
<1>4. CASE PollRing
  BY <1>4 DEF PollRing, TypePoll, TypeRings, RegInv, vecVars, appVars, flagVars, pollVars, dataVars, mainVars
<1>5. CASE BatchOut
  BY <1>5 DEF BatchOut, TypePoll, TypeRings, RegInv, vecVars, appVars, flagVars, pollVars, dataVars, mainVars
<1>6. CASE EndPass
  BY <1>6 DEF EndPass, TypePoll, TypeRings, RegInv, vecVars, appVars, flagVars, pollVars, dataVars, mainVars
<1>7. ASSUME NEW full \in BOOLEAN, Format(full) PROVE TypePoll'
  BY <1>7 DEF Format, AfterPoll, TypePoll, TypeRings, RegInv, vecVars, appVars, flagVars, pollVars, dataVars, mainVars
<1>8. ASSUME NEW roll \in BOOLEAN, Flush(roll) PROVE TypePoll'
  BY <1>8 DEF Flush, AfterPoll, Unflushed, TypePoll, TypeRings, RegInv, vecVars, appVars, flagVars, pollVars, dataVars, mainVars
<1>9. CASE ResetForce
  BY <1>9 DEF ResetForce, AfterPoll, TypePoll, TypeRings, RegInv, vecVars, appVars, flagVars, pollVars, dataVars, mainVars
<1>10. CASE Wait
  BY <1>10 DEF Wait, TypePoll, TypeRings, RegInv, vecVars, appVars, flagVars, pollVars, dataVars, mainVars
<1>11. CASE Timeout
  BY <1>11 DEF Timeout, TypePoll, TypeRings, RegInv, vecVars, appVars, flagVars, pollVars, dataVars, mainVars
<1>12. CASE Wake
  BY <1>12 DEF Wake, TypePoll, TypeRings, RegInv, vecVars, appVars, flagVars, pollVars, dataVars, mainVars
<1>13. CASE LastFlush
  BY <1>13 DEF LastFlush, TypePoll, TypeRings, RegInv, vecVars, appVars, flagVars, pollVars, dataVars, mainVars
<1>14. ASSUME NEW t \in Threads, Emplace(t) PROVE TypePoll'
  BY <1>14 DEF Emplace, TypePoll, TypeRings, RegInv, vecVars, appVars, flagVars, pollVars, dataVars, mainVars
<1>15. ASSUME NEW t \in Threads, NotifyOne(t) PROVE TypePoll'
  BY <1>15 DEF NotifyOne, NotifyCond, TypePoll, TypeRings, RegInv, vecVars, appVars, flagVars, pollVars, dataVars, mainVars
<1>16. ASSUME NEW t \in Threads, NEW followed \in BOOLEAN, AppendEntry(t, followed) PROVE TypePoll'
  BY <1>16 DEF AppendEntry, Register, TypePoll, TypeRings, RegInv, vecVars, appVars, flagVars, pollVars, dataVars, mainVars
<1>17. CASE Run
  BY <1>17 DEF Run, StartThread, RequestStop, TypePoll, TypeRings, RegInv, vecVars, appVars, flagVars, pollVars, dataVars, mainVars
<1>18. CASE LatchWait
  BY <1>18 DEF LatchWait, TypePoll, TypeRings, RegInv, vecVars, appVars, flagVars, pollVars, dataVars, mainVars
<1>19. CASE Stop
  BY <1>19 DEF Stop, RequestStop, TypePoll, TypeRings, RegInv, vecVars, appVars, flagVars, pollVars, dataVars, mainVars
<1>20. CASE StopForce
  BY <1>20 DEF StopForce, TypePoll, TypeRings, RegInv, vecVars, appVars, flagVars, pollVars, dataVars, mainVars
<1>21. CASE NotifyAll
  BY <1>21 DEF NotifyAll, NotifyCond, TypePoll, TypeRings, RegInv, vecVars, appVars, flagVars, pollVars, dataVars, mainVars
<1>22. CASE Join
  BY <1>22 DEF Join, StartThread, TypePoll, TypeRings, RegInv, vecVars, appVars, flagVars, pollVars, dataVars, mainVars
<1> QED BY <1>1, <1>2, <1>3, <1>4, <1>5, <1>6, <1>7, <1>8, <1>9, <1>10, <1>11,
         <1>12, <1>13, <1>14, <1>15, <1>16, <1>17, <1>18, <1>19, <1>20, <1>21, <1>22
    DEF Next, Logger, Owner, Appending

\* And the sets of followed entries.
LEMMA SetsStep == ASSUME TypeRings, TypePoll, TypeSets, RegInv, Next PROVE TypeSets'
<1>1. CASE CountDown
  BY <1>1 DEF CountDown, TypeSets, Appended, vecVars, appVars, flagVars, pollVars, dataVars, mainVars
<1>2. CASE LoopTest
  BY <1>2 DEF LoopTest, TypeSets, Appended, vecVars, appVars, flagVars, pollVars, dataVars, mainVars
<1>3. CASE PollSize
  BY <1>3 DEF PollSize, TypeSets, Appended, vecVars, appVars, flagVars, pollVars, dataVars, mainVars
<1>4. CASE PollRing
  BY <1>4 DEF PollRing, TypeSets, Appended, vecVars, appVars, flagVars, pollVars, dataVars, mainVars
<1>5. CASE BatchOut
  <2>1. rings[idx] \in Threads
    BY <1>5, PolledRing
  <2>2. backlog' \subseteq backlog \cup {rings[idx]} /\ UNCHANGED <<logged, buffer, file, disk, before>>
    BY <1>5 DEF BatchOut, mainVars
  <2> QED BY <2>1, <2>2 DEF TypeSets
<1>6. CASE EndPass
  BY <1>6 DEF EndPass, TypeSets, Appended, vecVars, appVars, flagVars, pollVars, dataVars, mainVars
<1>7. ASSUME NEW full \in BOOLEAN, Format(full) PROVE TypeSets'
  BY <1>7 DEF Format, AfterPoll, TypeSets, Appended, vecVars, appVars, flagVars, pollVars, dataVars, mainVars
<1>8. ASSUME NEW roll \in BOOLEAN, Flush(roll) PROVE TypeSets'
  BY <1>8 DEF Flush, AfterPoll, Unflushed, TypeSets, Appended, vecVars, appVars, flagVars, pollVars, dataVars, mainVars
<1>9. CASE ResetForce
  BY <1>9 DEF ResetForce, AfterPoll, TypeSets, Appended, vecVars, appVars, flagVars, pollVars, dataVars, mainVars
<1>10. CASE Wait
  BY <1>10 DEF Wait, TypeSets, Appended, vecVars, appVars, flagVars, pollVars, dataVars, mainVars
<1>11. CASE Timeout
  BY <1>11 DEF Timeout, TypeSets, Appended, vecVars, appVars, flagVars, pollVars, dataVars, mainVars
<1>12. CASE Wake
  BY <1>12 DEF Wake, TypeSets, Appended, vecVars, appVars, flagVars, pollVars, dataVars, mainVars
<1>13. CASE LastFlush
  BY <1>13 DEF LastFlush, TypeSets, Appended, vecVars, appVars, flagVars, pollVars, dataVars, mainVars
<1>14. ASSUME NEW t \in Threads, Emplace(t) PROVE TypeSets'
  BY <1>14 DEF Emplace, TypeSets, Appended, vecVars, appVars, flagVars, pollVars, dataVars, mainVars
<1>15. ASSUME NEW t \in Threads, NotifyOne(t) PROVE TypeSets'
  BY <1>15 DEF NotifyOne, NotifyCond, TypeSets, Appended, vecVars, appVars, flagVars, pollVars, dataVars, mainVars
<1>16. ASSUME NEW t \in Threads, NEW followed \in BOOLEAN, AppendEntry(t, followed) PROVE TypeSets'
  BY <1>16 DEF AppendEntry, Register, TypeSets, Appended, vecVars, appVars, flagVars, pollVars, dataVars, mainVars
<1>17. CASE Run
  BY <1>17 DEF Run, StartThread, RequestStop, TypeSets, Appended, vecVars, appVars, flagVars, pollVars, dataVars, mainVars
<1>18. CASE LatchWait
  BY <1>18 DEF LatchWait, TypeSets, Appended, vecVars, appVars, flagVars, pollVars, dataVars, mainVars
<1>19. CASE Stop
  BY <1>19 DEF Stop, RequestStop, TypeSets, Appended, vecVars, appVars, flagVars, pollVars, dataVars, mainVars
<1>20. CASE StopForce
  BY <1>20 DEF StopForce, TypeSets, Appended, vecVars, appVars, flagVars, pollVars, dataVars, mainVars
<1>21. CASE NotifyAll
  BY <1>21 DEF NotifyAll, NotifyCond, TypeSets, Appended, vecVars, appVars, flagVars, pollVars, dataVars, mainVars
<1>22. CASE Join
  BY <1>22 DEF Join, StartThread, TypeSets, Appended, vecVars, appVars, flagVars, pollVars, dataVars, mainVars
<1> QED BY <1>1, <1>2, <1>3, <1>4, <1>5, <1>6, <1>7, <1>8, <1>9, <1>10, <1>11,
         <1>12, <1>13, <1>14, <1>15, <1>16, <1>17, <1>18, <1>19, <1>20, <1>21, <1>22
    DEF Next, Logger, Owner, Appending

\* The rings, their registration and the position of poll() among them.
LEMMA RegStep == ASSUME TypeOK, RegInv, Next PROVE RegInv'
<1> TypeRings /\ TypePoll
  BY TypeSplit
<1>1. CASE CountDown
  BY <1>1 DEF CountDown, RegInv, Registered, TypeRings, vecVars, appVars, flagVars, pollVars, dataVars, mainVars
<1>2. CASE LoopTest
  BY <1>2 DEF LoopTest, RegInv, Registered, TypeRings, vecVars, appVars, flagVars, pollVars, dataVars, mainVars
<1>3. CASE PollSize
  BY <1>3 DEF PollSize, RegInv, Registered, TypeRings, vecVars, appVars, flagVars, pollVars, dataVars, mainVars
<1>4. CASE PollRing
  BY <1>4 DEF PollRing, RegInv, Registered, TypeRings, vecVars, appVars, flagVars, pollVars, dataVars, mainVars
<1>5. CASE BatchOut
  BY <1>5 DEF BatchOut, RegInv, Registered, TypeRings, vecVars, appVars, flagVars, pollVars, dataVars, mainVars
<1>6. CASE EndPass
  BY <1>6 DEF EndPass, RegInv, Registered, TypeRings, vecVars, appVars, flagVars, pollVars, dataVars, mainVars
<1>7. ASSUME NEW full \in BOOLEAN, Format(full) PROVE RegInv'
  BY <1>7 DEF Format, AfterPoll, RegInv, Registered, TypeRings, vecVars, appVars, flagVars, pollVars, dataVars, mainVars
<1>8. ASSUME NEW roll \in BOOLEAN, Flush(roll) PROVE RegInv'
  BY <1>8 DEF Flush, AfterPoll, Unflushed, RegInv, Registered, TypeRings, vecVars, appVars, flagVars, pollVars, dataVars, mainVars
<1>9. CASE ResetForce
  BY <1>9 DEF ResetForce, AfterPoll, RegInv, Registered, TypeRings, vecVars, appVars, flagVars, pollVars, dataVars, mainVars
<1>10. CASE Wait
  BY <1>10 DEF Wait, RegInv, Registered, TypeRings, vecVars, appVars, flagVars, pollVars, dataVars, mainVars
<1>11. CASE Timeout
  BY <1>11 DEF Timeout, RegInv, Registered, TypeRings, vecVars, appVars, flagVars, pollVars, dataVars, mainVars
<1>12. CASE Wake
  BY <1>12 DEF Wake, RegInv, Registered, TypeRings, vecVars, appVars, flagVars, pollVars, dataVars, mainVars
<1>13. CASE LastFlush
  BY <1>13 DEF LastFlush, RegInv, Registered, TypeRings, vecVars, appVars, flagVars, pollVars, dataVars, mainVars
<1>14. ASSUME NEW t \in Threads, Emplace(t) PROVE RegInv'
  BY <1>14 DEF Emplace, RegInv, Registered, TypeRings, vecVars, appVars, flagVars, pollVars, dataVars, mainVars
<1>15. ASSUME NEW t \in Threads, NotifyOne(t) PROVE RegInv'
  BY <1>15 DEF NotifyOne, NotifyCond, RegInv, Registered, TypeRings, vecVars, appVars, flagVars, pollVars, dataVars, mainVars
<1>16. ASSUME NEW t \in Threads, NEW followed \in BOOLEAN, AppendEntry(t, followed) PROVE RegInv'
  <2>1. /\ ppc' = [ppc EXCEPT ![t] = "emplace"] /\ ring' = ring
        /\ UNCHANGED <<lpc, idx, size, main, again, runs>>
    BY <1>16 DEF AppendEntry, pollVars, mainVars
  <2>2. CASE Registered(t)
    <3>1. rings' = rings
      BY <1>16, <2>2 DEF AppendEntry, vecVars
    <3> QED BY <2>1, <2>2, <3>1 DEF RegInv, Registered, TypeRings
  <2>3. CASE ~Registered(t)
    <3>1. rings' = Append(rings, t) /\ rings \in Seq(Threads)
      BY <1>16, <2>3 DEF AppendEntry, Register, TypeRings
    <3>2. /\ Len(rings) \in Nat /\ DOMAIN rings = 1 .. Len(rings)
          /\ DOMAIN rings' = 1 .. Len(rings) + 1
          /\ rings'[Len(rings) + 1] = t /\ \A i \in 1 .. Len(rings) : rings'[i] = rings[i]
      BY <3>1
    <3>3. \A i \in 1 .. Len(rings) : rings[i] # t
      BY <2>3, <3>2 DEF Registered
    <3>4. \A i, j \in DOMAIN rings' : rings'[i] = rings'[j] => i = j
      BY <3>2, <3>3 DEF RegInv
    <3>5. \A u \in Threads : Registered(u) => Registered(u)'
      BY <3>2 DEF Registered
    <3>6. Registered(t)'
      BY <3>2 DEF Registered
    <3>7. \A u \in Threads : ppc'[u] = "emplace" => u = t \/ ppc[u] = "emplace"
      BY <2>1 DEF TypeRings
    <3> QED BY <2>1, <3>4, <3>5, <3>6, <3>7 DEF RegInv
  <2> QED BY <2>2, <2>3
<1>17. CASE Run
  BY <1>17 DEF Run, StartThread, RequestStop, RegInv, Registered, TypeRings, vecVars, appVars, flagVars, pollVars, dataVars, mainVars
<1>18. CASE LatchWait
  BY <1>18 DEF LatchWait, RegInv, Registered, TypeRings, vecVars, appVars, flagVars, pollVars, dataVars, mainVars
<1>19. CASE Stop
  BY <1>19 DEF Stop, RequestStop, RegInv, Registered, TypeRings, vecVars, appVars, flagVars, pollVars, dataVars, mainVars
<1>20. CASE StopForce
  BY <1>20 DEF StopForce, RegInv, Registered, TypeRings, vecVars, appVars, flagVars, pollVars, dataVars, mainVars
<1>21. CASE NotifyAll
  BY <1>21 DEF NotifyAll, NotifyCond, RegInv, Registered, TypeRings, vecVars, appVars, flagVars, pollVars, dataVars, mainVars
<1>22. CASE Join
  BY <1>22 DEF Join, StartThread, RegInv, Registered, TypeRings, vecVars, appVars, flagVars, pollVars, dataVars, mainVars
<1> QED BY <1>1, <1>2, <1>3, <1>4, <1>5, <1>6, <1>7, <1>8, <1>9, <1>10, <1>11,
         <1>12, <1>13, <1>14, <1>15, <1>16, <1>17, <1>18, <1>19, <1>20, <1>21, <1>22
    DEF Next, Logger, Owner, Appending

\* Whatever got into a ring is somewhere.
LEMMA PlaceStep == ASSUME TypeOK, RegInv, PlaceInv, Next PROVE PlaceInv'
<1> TypeRings /\ TypePoll
  BY TypeSplit
<1>1. CASE CountDown
  BY <1>1 DEF CountDown, PlaceInv, RegInv, Appended, InRing, TypeRings, vecVars, appVars, flagVars, pollVars, dataVars, mainVars
<1>2. CASE LoopTest
  BY <1>2 DEF LoopTest, PlaceInv, RegInv, Appended, InRing, TypeRings, vecVars, appVars, flagVars, pollVars, dataVars, mainVars
<1>3. CASE PollSize
  BY <1>3 DEF PollSize, PlaceInv, RegInv, Appended, InRing, TypeRings, vecVars, appVars, flagVars, pollVars, dataVars, mainVars
<1>4. CASE PollRing
  BY <1>4 DEF PollRing, PlaceInv, RegInv, Appended, InRing, TypeRings, vecVars, appVars, flagVars, pollVars, dataVars, mainVars
<1>5. CASE BatchOut
  <2>1. PICK u \in Threads : u = rings[idx]
    BY <1>5, PolledRing
  <2>2. /\ ring' = [ring EXCEPT ![u] = <<>>]
        /\ UNCHANGED <<logged, ppc, entry, buffer, file, disk, before>> /\ lpc' = "ring"
    BY <1>5, <2>1 DEF BatchOut, mainVars
  <2>3. backlog' = IF InRing(u) THEN backlog \cup {u} ELSE backlog
    BY <1>5, <2>1 DEF BatchOut, InRing
  <2>4. some \/ ring[u] # <<>> => some'
    BY <1>5, <2>1, Zenon DEF BatchOut
  <2>5. InRing(u) => ring[u] # <<>>
    BY DEF InRing
  <2>6. Appended' = Appended
    BY <2>2 DEF Appended
  <2>7. \A t \in Threads : t # u => (InRing(t) => InRing(t)')
    BY <2>2 DEF InRing, TypeRings
  <2>8. ASSUME NEW t \in Appended
        PROVE  InRing(t)' \/ t \in backlog' \cup buffer' \cup file' \cup disk'
    <3>1. t \in Threads
      BY TypeSplit DEF Appended, TypeSets
    <3> QED BY <3>1, <2>2, <2>3, <2>7 DEF PlaceInv
  <2>9. backlog' \cup buffer' # {} => some'
    BY <2>2, <2>3, <2>4, <2>5 DEF PlaceInv
  <2> QED BY <2>2, <2>6, <2>8, <2>9 DEF PlaceInv
<1>6. CASE EndPass
  BY <1>6 DEF EndPass, PlaceInv, RegInv, Appended, InRing, TypeRings, vecVars, appVars, flagVars, pollVars, dataVars, mainVars
<1>7. ASSUME NEW full \in BOOLEAN, Format(full) PROVE PlaceInv'
  BY <1>7 DEF Format, AfterPoll, PlaceInv, RegInv, Appended, InRing, TypeRings, vecVars, appVars, flagVars, pollVars, dataVars, mainVars
<1>8. ASSUME NEW roll \in BOOLEAN, Flush(roll) PROVE PlaceInv'
  <2>1. lpc = "flush" /\ buffer' = {} /\ UNCHANGED <<backlog, before, ring, ppc, entry, logged>>
    BY <1>8 DEF Flush, appVars, mainVars
  <2>2. backlog = {}
    BY <2>1 DEF PlaceInv
  <2>3. file \cup buffer \cup disk \subseteq file' \cup disk'
    BY <1>8 DEF Flush
  <2>4. Appended' = Appended /\ \A t \in Appended : InRing(t)' = InRing(t)
    BY <2>1 DEF Appended, InRing
  <2>5. \A t \in Appended : InRing(t)' \/ t \in backlog' \cup buffer' \cup file' \cup disk'
    BY <2>1, <2>2, <2>3, <2>4 DEF PlaceInv
  <2> QED BY <2>1, <2>2, <2>4, <2>5 DEF PlaceInv
<1>9. CASE ResetForce
  BY <1>9 DEF ResetForce, AfterPoll, PlaceInv, RegInv, Appended, InRing, TypeRings, vecVars, appVars, flagVars, pollVars, dataVars, mainVars
<1>10. CASE Wait
  BY <1>10 DEF Wait, PlaceInv, RegInv, Appended, InRing, TypeRings, vecVars, appVars, flagVars, pollVars, dataVars, mainVars
<1>11. CASE Timeout
  BY <1>11 DEF Timeout, PlaceInv, RegInv, Appended, InRing, TypeRings, vecVars, appVars, flagVars, pollVars, dataVars, mainVars
<1>12. CASE Wake
  BY <1>12 DEF Wake, PlaceInv, RegInv, Appended, InRing, TypeRings, vecVars, appVars, flagVars, pollVars, dataVars, mainVars
<1>13. CASE LastFlush
  BY <1>13 DEF LastFlush, PlaceInv, RegInv, Appended, InRing, TypeRings, vecVars, appVars, flagVars, pollVars, dataVars, mainVars
<1>14. ASSUME NEW t \in Threads, Emplace(t) PROVE PlaceInv'
  <2>1. /\ ring' = [ring EXCEPT ![t] = Append(@, entry[t])] /\ ppc[t] = "emplace"
        /\ ppc' = [ppc EXCEPT ![t] = "notify"]
        /\ UNCHANGED <<entry, logged, lpc, backlog, some, buffer, file, disk, before>>
    BY <1>14 DEF Emplace, dataVars, mainVars
  <2>2. /\ ring'[t] = Append(ring[t], entry[t])
        /\ \A u \in Threads : u # t => ring'[u] = ring[u] /\ ppc'[u] = ppc[u]
        /\ ring[t] \in Seq(BOOLEAN) /\ ppc'[t] = "notify" /\ entry[t] \in BOOLEAN
    BY <2>1 DEF TypeRings
  <2>3. /\ DOMAIN ring[t] = 1 .. Len(ring[t]) /\ Len(ring[t]) \in Nat
        /\ DOMAIN ring'[t] = 1 .. Len(ring[t]) + 1
        /\ \A i \in 1 .. Len(ring[t]) : ring'[t][i] = ring[t][i]
        /\ ring'[t][Len(ring[t]) + 1] = entry[t]
    BY <2>2, AppendProperties, LenProperties
  <2>4. InRing(t) \/ entry[t] => InRing(t)'
    BY <2>3 DEF InRing
  <2>5. \A u \in Threads : InRing(u) => InRing(u)'
    BY <2>2, <2>4 DEF InRing
  <2>6. Appended \subseteq Threads /\ logged \subseteq Threads
    BY TypeSplit DEF Appended, TypeSets
  <2>7. Appended \subseteq Appended' /\ Appended' \subseteq Appended \cup {t}
    BY <2>1, <2>2, <2>6 DEF Appended
  <2>8. t \in Appended' => entry[t] \/ t \in Appended
    BY <2>1 DEF Appended
  <2>9. \A u \in Appended' : InRing(u)' \/ u \in backlog \cup buffer \cup file \cup disk
    BY <2>4, <2>5, <2>6, <2>7, <2>8 DEF PlaceInv
  <2> QED BY <2>1, <2>7, <2>9 DEF PlaceInv
<1>15. ASSUME NEW t \in Threads, NotifyOne(t) PROVE PlaceInv'
  BY <1>15 DEF NotifyOne, NotifyCond, PlaceInv, RegInv, Appended, InRing, TypeRings, vecVars, appVars, flagVars, pollVars, dataVars, mainVars
<1>16. ASSUME NEW t \in Threads, NEW followed \in BOOLEAN, AppendEntry(t, followed) PROVE PlaceInv'
  BY <1>16 DEF AppendEntry, Register, PlaceInv, RegInv, Appended, InRing, TypeRings, vecVars, appVars, flagVars, pollVars, dataVars, mainVars
<1>17. CASE Run
  BY <1>17 DEF Run, StartThread, RequestStop, PlaceInv, RegInv, Appended, InRing, TypeRings, vecVars, appVars, flagVars, pollVars, dataVars, mainVars
<1>18. CASE LatchWait
  BY <1>18 DEF LatchWait, PlaceInv, RegInv, Appended, InRing, TypeRings, vecVars, appVars, flagVars, pollVars, dataVars, mainVars
<1>19. CASE Stop
  BY <1>19 DEF Stop, RequestStop, PlaceInv, RegInv, Appended, InRing, TypeRings, vecVars, appVars, flagVars, pollVars, dataVars, mainVars
<1>20. CASE StopForce
  BY <1>20 DEF StopForce, PlaceInv, RegInv, Appended, InRing, TypeRings, vecVars, appVars, flagVars, pollVars, dataVars, mainVars
<1>21. CASE NotifyAll
  BY <1>21 DEF NotifyAll, NotifyCond, PlaceInv, RegInv, Appended, InRing, TypeRings, vecVars, appVars, flagVars, pollVars, dataVars, mainVars
<1>22. CASE Join
  BY <1>22 DEF Join, StartThread, PlaceInv, RegInv, Appended, InRing, TypeRings, vecVars, appVars, flagVars, pollVars, dataVars, mainVars
<1> QED BY <1>1, <1>2, <1>3, <1>4, <1>5, <1>6, <1>7, <1>8, <1>9, <1>10, <1>11,
         <1>12, <1>13, <1>14, <1>15, <1>16, <1>17, <1>18, <1>19, <1>20, <1>21, <1>22
    DEF Next, Logger, Owner, Appending

\* The owner and the logger in the first run.
LEMMA OrderStep == ASSUME TypeOK, OrderInv, Next PROVE OrderInv'
<1> TypePlaces
  BY TypeSplit
<1>1. CASE CountDown
  BY <1>1 DEF CountDown, OrderInv, TypePlaces, vecVars, appVars, flagVars, pollVars, dataVars, mainVars
<1>2. CASE LoopTest
  BY <1>2 DEF LoopTest, OrderInv, TypePlaces, vecVars, appVars, flagVars, pollVars, dataVars, mainVars
<1>3. CASE PollSize
  BY <1>3 DEF PollSize, OrderInv, TypePlaces, vecVars, appVars, flagVars, pollVars, dataVars, mainVars
<1>4. CASE PollRing
  BY <1>4 DEF PollRing, OrderInv, TypePlaces, vecVars, appVars, flagVars, pollVars, dataVars, mainVars
<1>5. CASE BatchOut
  BY <1>5 DEF BatchOut, OrderInv, TypePlaces, vecVars, appVars, flagVars, pollVars, dataVars, mainVars
<1>6. CASE EndPass
  BY <1>6 DEF EndPass, OrderInv, TypePlaces, vecVars, appVars, flagVars, pollVars, dataVars, mainVars
<1>7. ASSUME NEW full \in BOOLEAN, Format(full) PROVE OrderInv'
  BY <1>7 DEF Format, AfterPoll, OrderInv, TypePlaces, vecVars, appVars, flagVars, pollVars, dataVars, mainVars
<1>8. ASSUME NEW roll \in BOOLEAN, Flush(roll) PROVE OrderInv'
  BY <1>8 DEF Flush, AfterPoll, Unflushed, OrderInv, TypePlaces, vecVars, appVars, flagVars, pollVars, dataVars, mainVars
<1>9. CASE ResetForce
  BY <1>9 DEF ResetForce, AfterPoll, OrderInv, TypePlaces, vecVars, appVars, flagVars, pollVars, dataVars, mainVars
<1>10. CASE Wait
  BY <1>10 DEF Wait, OrderInv, TypePlaces, vecVars, appVars, flagVars, pollVars, dataVars, mainVars
<1>11. CASE Timeout
  BY <1>11 DEF Timeout, OrderInv, TypePlaces, vecVars, appVars, flagVars, pollVars, dataVars, mainVars
<1>12. CASE Wake
  BY <1>12 DEF Wake, OrderInv, TypePlaces, vecVars, appVars, flagVars, pollVars, dataVars, mainVars
<1>13. CASE LastFlush
  BY <1>13 DEF LastFlush, OrderInv, TypePlaces, vecVars, appVars, flagVars, pollVars, dataVars, mainVars
<1>14. ASSUME NEW t \in Threads, Emplace(t) PROVE OrderInv'
  BY <1>14 DEF Emplace, OrderInv, TypePlaces, vecVars, appVars, flagVars, pollVars, dataVars, mainVars
<1>15. ASSUME NEW t \in Threads, NotifyOne(t) PROVE OrderInv'
  BY <1>15 DEF NotifyOne, NotifyCond, OrderInv, TypePlaces, vecVars, appVars, flagVars, pollVars, dataVars, mainVars
<1>16. ASSUME NEW t \in Threads, NEW followed \in BOOLEAN, AppendEntry(t, followed) PROVE OrderInv'
  BY <1>16 DEF AppendEntry, Register, OrderInv, TypePlaces, vecVars, appVars, flagVars, pollVars, dataVars, mainVars
<1>17. CASE Run
  BY <1>17 DEF Run, StartThread, RequestStop, OrderInv, TypePlaces, vecVars, appVars, flagVars, pollVars, dataVars, mainVars
<1>18. CASE LatchWait
  BY <1>18 DEF LatchWait, OrderInv, TypePlaces, vecVars, appVars, flagVars, pollVars, dataVars, mainVars
<1>19. CASE Stop
  BY <1>19 DEF Stop, RequestStop, OrderInv, TypePlaces, vecVars, appVars, flagVars, pollVars, dataVars, mainVars
<1>20. CASE StopForce
  BY <1>20 DEF StopForce, OrderInv, TypePlaces, vecVars, appVars, flagVars, pollVars, dataVars, mainVars
<1>21. CASE NotifyAll
  BY <1>21 DEF NotifyAll, NotifyCond, OrderInv, TypePlaces, vecVars, appVars, flagVars, pollVars, dataVars, mainVars
<1>22. CASE Join
  BY <1>22 DEF Join, StartThread, OrderInv, TypePlaces, vecVars, appVars, flagVars, pollVars, dataVars, mainVars
<1> QED BY <1>1, <1>2, <1>3, <1>4, <1>5, <1>6, <1>7, <1>8, <1>9, <1>10, <1>11,
         <1>12, <1>13, <1>14, <1>15, <1>16, <1>17, <1>18, <1>19, <1>20, <1>21, <1>22
    DEF Next, Logger, Owner, Appending

\* What the last poll() depends on: no other thread takes it back.
LEMMA FinalFrame ==
  ASSUME FinalInv, UNCHANGED <<runs, final, before, idx, size, buffer, file>>,
         lpc' \in {lpc, "woken"}, force => force',
         \A t \in before : InRing(t)' => InRing(t),
         \A i \in idx .. size : rings'[i] = rings[i]
  PROVE  FinalInv'
<1> SUFFICES ASSUME runs = 1, final, lpc' = lpc
             PROVE  /\ lpc \in {"poll", "ring", "batch", "format", "flush"} => force'
                    /\ lpc \in {"ring", "batch"} =>
                         \A t \in before : InRing(t)' => \E i \in idx .. size : rings'[i] = t
                    /\ lpc \in {"format", "flush", "reset", "last", "ended"} =>
                         \A t \in before : ~InRing(t)'
                    /\ lpc \in {"reset", "last", "ended"} => before \cap buffer = {}
                    /\ lpc = "ended" => before \cap file = {}
  BY DEF FinalInv
<1> QED BY DEF FinalInv

\* What the last poll() does.
LEMMA FinalStep == ASSUME TypeOK, RegInv, PlaceInv, OrderInv, FinalInv, Next PROVE FinalInv'
<1> TypePlaces /\ TypeRings /\ TypePoll
  BY TypeSplit
<1>1. CASE CountDown
  BY <1>1 DEF CountDown, FinalInv, OrderInv, TypePlaces, vecVars, appVars, flagVars, pollVars, dataVars, mainVars
<1>2. CASE LoopTest
  BY <1>2 DEF LoopTest, FinalInv, OrderInv, TypePlaces, vecVars, appVars, flagVars, pollVars, dataVars, mainVars
<1>3. CASE PollSize
  <2>1. /\ lpc = "poll" /\ lpc' = "ring" /\ size' = Len(rings) /\ idx' = 1
        /\ UNCHANGED <<rings, ring, force, final, runs, before>>
    BY <1>3 DEF PollSize, vecVars, appVars, flagVars, mainVars
  <2>2. ASSUME NEW t \in before, InRing(t)' PROVE \E i \in 1 .. Len(rings) : rings[i] = t
    <3>1. t \in Threads
      BY TypeSplit DEF TypeSets
    <3>2. ring[t] # <<>>
      BY <2>1, <2>2 DEF InRing
    <3>3. Registered(t)
      BY <3>1, <3>2 DEF RegInv
    <3> QED BY <3>3 DEF Registered, TypeRings
  <2> QED BY <2>1, <2>2 DEF FinalInv
<1>4. CASE PollRing
  <2>1. /\ lpc = "ring" /\ lpc' = "batch"
        /\ UNCHANGED <<rings, ring, force, final, size, idx, runs, before>>
    BY <1>4 DEF PollRing, vecVars, appVars, flagVars, mainVars
  <2>2. \A t \in before : InRing(t)' = InRing(t)
    BY <2>1 DEF InRing
  <2> QED BY <2>1, <2>2 DEF FinalInv
<1>5. CASE BatchOut
  <2>1. PICK u \in Threads : u = rings[idx]
    BY <1>5, PolledRing
  <2>2. /\ lpc = "batch" /\ lpc' = "ring" /\ idx' = idx + 1
        /\ ring' = [ring EXCEPT ![u] = <<>>]
        /\ UNCHANGED <<rings, force, final, size, runs, before>>
    BY <1>5, <2>1 DEF BatchOut, vecVars, flagVars, mainVars
  <2>3. idx \in Nat /\ size \in Nat
    BY DEF TypePoll, TypeRings
  <2>4. ~InRing(u)' /\ \A t \in Threads : t # u => (InRing(t)' => InRing(t))
    BY <2>2 DEF InRing, TypeRings
  <2>5. ASSUME runs = 1, final, NEW t \in before, InRing(t)'
        PROVE  \E i \in idx + 1 .. size : rings[i] = t
    <3>1. t \in Threads
      BY TypeSplit DEF TypeSets
    <3>2. t # u /\ InRing(t)
      BY <2>4, <2>5, <3>1
    <3>3. PICK i \in idx .. size : rings[i] = t
      BY <2>2, <2>5, <3>2 DEF FinalInv
    <3>4. i \in idx + 1 .. size
      BY <2>1, <2>3, <3>2, <3>3
    <3> QED BY <3>3, <3>4
  <2> QED BY <2>2, <2>5 DEF FinalInv
<1>6. CASE EndPass
  <2>1. /\ lpc = "ring" /\ idx > size
        /\ UNCHANGED <<ring, force, final, runs, before>>
    BY <1>6 DEF EndPass, appVars, mainVars
  <2>2. idx \in Nat /\ size \in Nat
    BY DEF TypePoll, TypeRings
  <2>3. ASSUME runs = 1, final PROVE lpc' = "format" /\ force
    <3>1. force
      BY <2>1, <2>3 DEF FinalInv
    <3> QED BY <1>6, <3>1 DEF EndPass
  <2>4. idx .. size = {}
    BY <2>1, <2>2
  <2>5. ASSUME runs = 1, final PROVE \A t \in before : ~InRing(t)
    BY <2>1, <2>4, <2>5 DEF FinalInv
  <2>6. \A t \in before : InRing(t)' = InRing(t)
    BY <2>1 DEF InRing
  <2> QED BY <2>1, <2>3, <2>5, <2>6 DEF FinalInv
<1>7. ASSUME NEW full \in BOOLEAN, Format(full) PROVE FinalInv'
  <2>1. /\ lpc = "format" /\ buffer' = buffer \cup backlog /\ backlog' = {}
        /\ UNCHANGED <<ring, force, final, runs, before>>
    BY <1>7 DEF Format, appVars, flagVars, pollVars, mainVars
  <2>2. \A t \in before : InRing(t)' = InRing(t)
    BY <2>1 DEF InRing
  <2>3. ASSUME runs = 1, final
        PROVE  lpc' = "flush" \/ (lpc' = "last" /\ buffer' = {})
    <3>1. force
      BY <2>1, <2>3 DEF FinalInv
    <3>2. CASE some
      BY <1>7, <3>1, <3>2 DEF Format
    <3>3. CASE ~some
      BY <1>7, <2>1, <2>3, <3>3 DEF Format, AfterPoll, PlaceInv
    <3> QED BY <3>2, <3>3
  <2> QED BY <2>1, <2>2, <2>3 DEF FinalInv
<1>8. ASSUME NEW roll \in BOOLEAN, Flush(roll) PROVE FinalInv'
  <2>1. /\ lpc = "flush" /\ buffer' = {} /\ UNCHANGED <<ring, force, final, runs, before>>
    BY <1>8 DEF Flush, appVars, flagVars, pollVars, mainVars
  <2>2. \A t \in before : InRing(t)' = InRing(t)
    BY <2>1 DEF InRing
  <2>3. ASSUME runs = 1, final PROVE lpc' = "reset"
    <3>1. force
      BY <2>1, <2>3 DEF FinalInv
    <3> QED BY <1>8, <3>1 DEF Flush
  <2> QED BY <2>1, <2>2, <2>3 DEF FinalInv
<1>9. CASE ResetForce
  <2>1. lpc = "reset" /\ UNCHANGED <<ring, final, runs, before, buffer>>
    BY <1>9 DEF ResetForce, appVars, pollVars, dataVars, mainVars
  <2>2. \A t \in before : InRing(t)' = InRing(t)
    BY <2>1 DEF InRing
  <2>3. final => lpc' = "last"
    BY <1>9 DEF ResetForce, AfterPoll
  <2> QED BY <2>1, <2>2, <2>3 DEF FinalInv
<1>10. CASE Wait
  BY <1>10 DEF Wait, FinalInv, OrderInv, TypePlaces, vecVars, appVars, flagVars, pollVars, dataVars, mainVars
<1>11. CASE Timeout
  BY <1>11 DEF Timeout, FinalInv, OrderInv, TypePlaces, vecVars, appVars, flagVars, pollVars, dataVars, mainVars
<1>12. CASE Wake
  BY <1>12 DEF Wake, FinalInv, OrderInv, TypePlaces, vecVars, appVars, flagVars, pollVars, dataVars, mainVars
<1>13. CASE LastFlush
  <2>1. /\ lpc = "last" /\ lpc' = "ended" /\ file' = {}
        /\ UNCHANGED <<ring, final, runs, before, buffer>>
    BY <1>13 DEF LastFlush, appVars, pollVars, mainVars
  <2>2. \A t \in before : InRing(t)' = InRing(t)
    BY <2>1 DEF InRing
  <2> QED BY <2>1, <2>2 DEF FinalInv
<1>14. ASSUME NEW t \in Threads, Emplace(t) PROVE FinalInv'
  <2>1. /\ ring' = [ring EXCEPT ![t] = Append(@, entry[t])] /\ ppc[t] = "emplace"
        /\ UNCHANGED <<rings, lpc, force, final, size, idx, runs, before, buffer, file>>
    BY <1>14 DEF Emplace, vecVars, flagVars, pollVars, dataVars, mainVars
  <2>2. /\ ring'[t] = Append(ring[t], entry[t])
        /\ \A u \in Threads : u # t => ring'[u] = ring[u]
        /\ ring[t] \in Seq(BOOLEAN) /\ entry[t] \in BOOLEAN
    BY <2>1 DEF TypeRings
  <2>3. /\ DOMAIN ring[t] = 1 .. Len(ring[t]) /\ Len(ring[t]) \in Nat
        /\ DOMAIN ring'[t] = 1 .. Len(ring[t]) + 1
        /\ \A i \in 1 .. Len(ring[t]) : ring'[t][i] = ring[t][i]
        /\ ring'[t][Len(ring[t]) + 1] = entry[t]
    BY <2>2, AppendProperties, LenProperties
  <2>4. t \in before => ~entry[t]
    BY <2>1 DEF PlaceInv, Appended
  <2>5. \A i \in 1 .. Len(ring[t]) + 1 : i \in 1 .. Len(ring[t]) \/ i = Len(ring[t]) + 1
    BY <2>3
  <2>6. t \in before /\ InRing(t)' => InRing(t)
    BY <2>3, <2>4, <2>5 DEF InRing
  <2>7. before \subseteq Threads
    BY TypeSplit DEF TypeSets
  <2>8. \A u \in before : InRing(u)' => InRing(u)
    BY <2>2, <2>6, <2>7 DEF InRing
  <2> QED BY <2>1, <2>8, FinalFrame
<1>15. ASSUME NEW t \in Threads, NotifyOne(t) PROVE FinalInv'
  BY <1>15, FinalFrame DEF NotifyOne, NotifyCond, InRing, vecVars, appVars, flagVars, pollVars, dataVars, mainVars
<1>16. ASSUME NEW t \in Threads, NEW followed \in BOOLEAN, AppendEntry(t, followed) PROVE FinalInv'
  <2>1. /\ UNCHANGED <<ring, lpc, force, final, size, idx, runs, before, buffer, file>>
        /\ UNCHANGED rings \/ rings' = Append(rings, t)
    BY <1>16 DEF AppendEntry, Register, vecVars, pollVars, dataVars, mainVars
  <2>2. idx \in Nat /\ idx >= 1 /\ size \in 0 .. Len(rings) /\ rings \in Seq(Threads)
    BY DEF TypePoll, TypeRings
  <2>3. \A i \in idx .. size : i \in 1 .. Len(rings)
    BY <2>2
  <2>4. \A i \in idx .. size : rings'[i] = rings[i]
    BY <2>1, <2>2, <2>3
  <2>5. \A u \in before : InRing(u)' => InRing(u)
    BY <2>1 DEF InRing
  <2> QED BY <2>1, <2>4, <2>5, FinalFrame
<1>17. CASE Run
  BY <1>17 DEF Run, StartThread, RequestStop, FinalInv, OrderInv, TypePlaces, vecVars, appVars, flagVars, pollVars, dataVars, mainVars
<1>18. CASE LatchWait
  BY <1>18 DEF LatchWait, FinalInv, OrderInv, TypePlaces, vecVars, appVars, flagVars, pollVars, dataVars, mainVars
<1>19. CASE Stop
  BY <1>19 DEF Stop, RequestStop, FinalInv, OrderInv, TypePlaces, vecVars, appVars, flagVars, pollVars, dataVars, mainVars
<1>20. CASE StopForce
  BY <1>20, FinalFrame DEF StopForce, InRing, vecVars, appVars, flagVars, pollVars, dataVars, mainVars
<1>21. CASE NotifyAll
  BY <1>21, FinalFrame DEF NotifyAll, NotifyCond, InRing, vecVars, appVars, flagVars, pollVars, dataVars, mainVars
<1>22. CASE Join
  BY <1>22 DEF Join, StartThread, FinalInv, OrderInv, TypePlaces, vecVars, appVars, flagVars, pollVars, dataVars, mainVars
<1> QED BY <1>1, <1>2, <1>3, <1>4, <1>5, <1>6, <1>7, <1>8, <1>9, <1>10, <1>11,
         <1>12, <1>13, <1>14, <1>15, <1>16, <1>17, <1>18, <1>19, <1>20, <1>21, <1>22
    DEF Next, Logger, Owner, Appending

\* What stop() has flushed stays flushed.
LEMMA FlushedStep == ASSUME TypeOK, PlaceInv, OrderInv, FinalInv, FlushedInv, Next PROVE FlushedInv'
<1> TypePlaces
  BY TypeSplit
<1>1. CASE CountDown
  BY <1>1 DEF CountDown, FlushedInv, OrderInv, TypePlaces, vecVars, appVars, flagVars, pollVars, dataVars, mainVars
<1>2. CASE LoopTest
  BY <1>2 DEF LoopTest, FlushedInv, OrderInv, TypePlaces, vecVars, appVars, flagVars, pollVars, dataVars, mainVars
<1>3. CASE PollSize
  BY <1>3 DEF PollSize, FlushedInv, OrderInv, TypePlaces, vecVars, appVars, flagVars, pollVars, dataVars, mainVars
<1>4. CASE PollRing
  BY <1>4 DEF PollRing, FlushedInv, OrderInv, TypePlaces, vecVars, appVars, flagVars, pollVars, dataVars, mainVars
<1>5. CASE BatchOut
  BY <1>5 DEF BatchOut, FlushedInv, OrderInv, TypePlaces, vecVars, appVars, flagVars, pollVars, dataVars, mainVars
<1>6. CASE EndPass
  BY <1>6 DEF EndPass, FlushedInv, OrderInv, TypePlaces, vecVars, appVars, flagVars, pollVars, dataVars, mainVars
<1>7. ASSUME NEW full \in BOOLEAN, Format(full) PROVE FlushedInv'
  BY <1>7 DEF Format, AfterPoll, FlushedInv, OrderInv, TypePlaces, vecVars, appVars, flagVars, pollVars, dataVars, mainVars
<1>8. ASSUME NEW roll \in BOOLEAN, Flush(roll) PROVE FlushedInv'
  BY <1>8 DEF Flush, AfterPoll, Unflushed, FlushedInv, OrderInv, TypePlaces, vecVars, appVars, flagVars, pollVars, dataVars, mainVars
<1>9. CASE ResetForce
  BY <1>9 DEF ResetForce, AfterPoll, FlushedInv, OrderInv, TypePlaces, vecVars, appVars, flagVars, pollVars, dataVars, mainVars
<1>10. CASE Wait
  BY <1>10 DEF Wait, FlushedInv, OrderInv, TypePlaces, vecVars, appVars, flagVars, pollVars, dataVars, mainVars
<1>11. CASE Timeout
  BY <1>11 DEF Timeout, FlushedInv, OrderInv, TypePlaces, vecVars, appVars, flagVars, pollVars, dataVars, mainVars
<1>12. CASE Wake
  BY <1>12 DEF Wake, FlushedInv, OrderInv, TypePlaces, vecVars, appVars, flagVars, pollVars, dataVars, mainVars
<1>13. CASE LastFlush
  BY <1>13 DEF LastFlush, FlushedInv, OrderInv, TypePlaces, vecVars, appVars, flagVars, pollVars, dataVars, mainVars
<1>14. ASSUME NEW t \in Threads, Emplace(t) PROVE FlushedInv'
  BY <1>14 DEF Emplace, FlushedInv, OrderInv, TypePlaces, vecVars, appVars, flagVars, pollVars, dataVars, mainVars
<1>15. ASSUME NEW t \in Threads, NotifyOne(t) PROVE FlushedInv'
  BY <1>15 DEF NotifyOne, NotifyCond, FlushedInv, OrderInv, TypePlaces, vecVars, appVars, flagVars, pollVars, dataVars, mainVars
<1>16. ASSUME NEW t \in Threads, NEW followed \in BOOLEAN, AppendEntry(t, followed) PROVE FlushedInv'
  BY <1>16 DEF AppendEntry, Register, FlushedInv, OrderInv, TypePlaces, vecVars, appVars, flagVars, pollVars, dataVars, mainVars
<1>17. CASE Run
  BY <1>17 DEF Run, StartThread, RequestStop, FlushedInv, OrderInv, TypePlaces, vecVars, appVars, flagVars, pollVars, dataVars, mainVars
<1>18. CASE LatchWait
  BY <1>18 DEF LatchWait, FlushedInv, OrderInv, TypePlaces, vecVars, appVars, flagVars, pollVars, dataVars, mainVars
<1>19. CASE Stop
  BY <1>19 DEF Stop, RequestStop, FlushedInv, OrderInv, TypePlaces, vecVars, appVars, flagVars, pollVars, dataVars, mainVars
<1>20. CASE StopForce
  BY <1>20 DEF StopForce, FlushedInv, OrderInv, TypePlaces, vecVars, appVars, flagVars, pollVars, dataVars, mainVars
<1>21. CASE NotifyAll
  BY <1>21 DEF NotifyAll, NotifyCond, FlushedInv, OrderInv, TypePlaces, vecVars, appVars, flagVars, pollVars, dataVars, mainVars
<1>22. CASE Join
  <2> SUFFICES ASSUME runs' = 1, main' = "stopped" PROVE before' \subseteq disk'
    BY DEF FlushedInv
  <2>1. lpc = "ended" /\ runs = 1 /\ before' = before /\ disk' = disk
    BY <1>22 DEF Join, StartThread, dataVars
  <2>2. final
    BY <2>1 DEF OrderInv
  <2>3. (\A t \in before : ~InRing(t)) /\ before \cap buffer = {} /\ before \cap file = {}
    BY <2>1, <2>2 DEF FinalInv
  <2>4. backlog = {}
    BY <2>1 DEF PlaceInv
  <2> QED BY <2>1, <2>3, <2>4 DEF PlaceInv
<1> QED BY <1>1, <1>2, <1>3, <1>4, <1>5, <1>6, <1>7, <1>8, <1>9, <1>10, <1>11,
         <1>12, <1>13, <1>14, <1>15, <1>16, <1>17, <1>18, <1>19, <1>20, <1>21, <1>22
    DEF Next, Logger, Owner, Appending

-----------------------------------------------------------------------------
(* The invariant holds.                                                    *)

LEMMA InitIInv == Init => IInv
<1> SUFFICES ASSUME Init PROVE IInv
  OBVIOUS
<1>1. <<>> \in Seq(Threads) /\ <<>> \in Seq(BOOLEAN) /\ Len(<<>>) = 0 /\ DOMAIN <<>> = {}
  OBVIOUS
<1>2. Room \in Nat /\ Reserved \in Nat /\ MaxRuns \in Nat
  BY LoggerAssumption
<1>3. TypeOK
  <2>1. TypeFlags
    BY DEF Init, TypeFlags
  <2>2. TypeRings
    BY <1>1, <1>2 DEF Init, TypeRings
  <2>3. TypePlaces
    BY <1>2 DEF Init, TypePlaces
  <2>4. TypePoll
    <3>1. Len(rings) = 0 /\ size = 0 /\ idx = 1 /\ ref = 0 /\ storage = 0
      BY <1>1 DEF Init
    <3> QED BY <3>1 DEF TypePoll
  <2>5. TypeSets
    BY DEF Init, TypeSets
  <2> QED BY <2>1, <2>2, <2>3, <2>4, <2>5, TypeSplit
<1>4. RegInv
  BY <1>1 DEF Init, RegInv
<1>5. PlaceInv
  BY DEF Init, PlaceInv, Appended
<1>6. OrderInv /\ FinalInv /\ FlushedInv
  BY DEF Init, OrderInv, FinalInv, FlushedInv
<1> QED BY <1>3, <1>4, <1>5, <1>6 DEF IInv

LEMMA NextIInv == IInv /\ [Next]_vars => IInv'
<1> SUFFICES ASSUME IInv, [Next]_vars PROVE IInv'
  OBVIOUS
<1>1. CASE Next
  <2>1. TypeOK'
    BY <1>1, TypeSplit, FlagsStep, RingsStep, PlacesStep, PollStep, SetsStep, TypeSplitPrime DEF IInv
  <2> QED BY <1>1, <2>1, RegStep, PlaceStep, OrderStep, FinalStep, FlushedStep DEF IInv
<1>2. CASE UNCHANGED vars
  <2>1. /\ UNCHANGED <<rings, storage, capacity, ring, ppc, entry, logged, signal, force, stopReq>>
        /\ UNCHANGED <<latch, lpc, final, size, idx, ref, empty, backlog, some, buffer, file>>
        /\ UNCHANGED <<disk, main, again, runs, before>>
    BY <1>2 DEF vars, vecVars, appVars, flagVars, pollVars, dataVars, mainVars
  <2>2. TypeOK'
    BY <2>1 DEF IInv, TypeOK
  <2>3. RegInv' /\ PlaceInv'
    BY <2>1 DEF IInv, RegInv, Registered, PlaceInv, Appended, InRing
  <2>4. OrderInv' /\ FlushedInv'
    BY <2>1 DEF IInv, OrderInv, FlushedInv
  <2>5. FinalInv'
    BY <2>1 DEF IInv, FinalInv, InRing
  <2> QED BY <2>2, <2>3, <2>4, <2>5 DEF IInv
<1> QED BY <1>1, <1>2

LEMMA Invariance == Spec => []IInv
<1>1. Init => IInv
  BY InitIInv
<1>2. IInv /\ [Next]_vars => IInv'
  BY NextIInv
<1> QED BY <1>1, <1>2, PTL DEF Spec

\* For any logging threads, any room in the rings and any number of runs: what was
\* in the rings when stop() was called is on disk when the first stop() returns,
\* whatever poll() was doing, and although it may reset the force_flush_ that
\* stop() has just set; and run() returns only once the logger runs.
THEOREM StopIsComplete == Spec => []StopFlushes
<1>1. IInv => StopFlushes
  <2> SUFFICES ASSUME IInv
               PROVE  /\ TypeOK
                      /\ runs = 1 =>
                           /\ main = "stopped" => before \subseteq disk
                           /\ main = "running" => lpc \notin {"none", "start", "ended"}
    BY DEF StopFlushes
  <2>1. TypeOK
    BY Zenon DEF IInv
  <2>2. runs = 1 =>
          /\ main = "stopped" => before \subseteq disk
          /\ main = "running" => lpc \notin {"none", "start", "ended"}
    BY DEF IInv, OrderInv, FlushedInv
  <2> QED BY <2>1, <2>2
<1> QED BY <1>1, Invariance, PTL
=============================================================================
