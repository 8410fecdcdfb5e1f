------------------------------ MODULE SpscRing ------------------------------
(***************************************************************************)
(* spsc_ring: the lock-free ring between a logging thread and the logger.  *)
(* The producer's emplace / try_emplace and the consumer's batch_out /     *)
(* front + pop run concurrently, one access to shared memory per step, and *)
(* the release fences keep the stores in program order.  The indices are   *)
(* unsigned and wrap at IndexMod.                                          *)
(***************************************************************************)
EXTENDS Integers, Sequences

CONSTANTS Values,    \* what is stored
          Raw,       \* a slot without an object
          Capacity,  \* capacity_, a power of 2
          IndexMod   \* 2^64: where the indices wrap

ASSUME SpscAssumption ==
    /\ Raw \notin Values
    /\ Capacity \in Nat \ {0, 1}
    /\ \E k \in 1 .. IndexMod : IndexMod = k * Capacity

VARIABLES
    slot,     \* data_
    windex,   \* index_write_
    rindex,   \* index_read_
    ppc,      \* the producer: idle, looking for room, constructing, publishing
    pval,     \* what it stores
    ptry,     \* is it in try_emplace?
    cpc,      \* the consumer: idle, copying, popping, publishing
    entries,  \* the number of entries it saw
    copied,   \* what it has copied out so far
    out       \* what its last call returned

pVars == <<ppc, pval, ptry>>
cVars == <<cpc, entries, copied, out>>
vars == <<slot, windex, rindex, pVars, cVars>>

mask == Capacity - 1
Slots == 0 .. Capacity - 1
At(i) == i % Capacity          \* index & mask_

Init ==
    /\ slot = [s \in Slots |-> Raw]
    /\ windex = 0 /\ rindex = 0
    /\ ppc = "idle" /\ pval = Raw /\ ptry = FALSE
    /\ cpc = "idle" /\ entries = 0 /\ copied = <<>> /\ out = <<>>

-----------------------------------------------------------------------------
(* The producer.                                                           *)

\* mask_ + read_index - write_index: one slot always stays empty.
FreeEntries == (mask + rindex - windex) % IndexMod

\* A call of emplace or try_emplace.
Emplace(v, try) ==
    /\ ppc = "idle"
    /\ ppc' = "look" /\ pval' = v /\ ptry' = try
    /\ UNCHANGED <<slot, windex, rindex, cVars>>

\* Mutant: the producer does not wait for room.
FindRoomUnchecked ==
    /\ ppc = "look"
    /\ ppc' = "construct"
    /\ UNCHANGED <<slot, windex, rindex, pval, ptry, cVars>>

\* Read index_read_ and find room; emplace keeps looking until there is some.
FindRoom ==
    /\ ppc = "look" /\ FreeEntries # 0
    /\ ppc' = "construct"
    /\ UNCHANGED <<slot, windex, rindex, pval, ptry, cVars>>

\* try_emplace returns false.
GiveUp ==
    /\ ppc = "look" /\ FreeEntries = 0 /\ ptry
    /\ ppc' = "idle" /\ pval' = Raw
    /\ UNCHANGED <<slot, windex, rindex, ptry, cVars>>

\* Construct the object in its slot.
Construct ==
    /\ ppc = "construct"
    /\ slot' = [slot EXCEPT ![At(windex)] = pval]
    /\ ppc' = "publish"
    /\ UNCHANGED <<windex, rindex, pval, ptry, cVars>>

\* After the fence, make it visible.
PublishWrite ==
    /\ ppc = "publish"
    /\ windex' = (windex + 1) % IndexMod
    /\ ppc' = "idle" /\ pval' = Raw
    /\ UNCHANGED <<slot, rindex, ptry, cVars>>

-----------------------------------------------------------------------------
(* The consumer.                                                           *)

Published == (windex - rindex) % IndexMod

\* batch_out reads both indices and finds entries; with none it returns false.
BatchOut ==
    /\ cpc = "idle" /\ Published # 0
    /\ cpc' = "copy" /\ entries' = Published /\ copied' = <<>>
    /\ UNCHANGED <<slot, windex, rindex, pVars, out>>

\* Mutant: one copying phase, past the end of the ring.
CopyFromOnePhase(n) == IF At(rindex) + n < Capacity THEN At(rindex) + n ELSE Capacity - 1

\* Where entry n is copied from: in one phase if the range does not wrap, in two
\* otherwise (the write index is the one batch_out has read).
CopyFrom(n) ==
    LET from == At(rindex)
        part1len == Capacity - from
    IN  IF At(rindex + entries) > from \/ n < part1len THEN from + n ELSE n - part1len

\* memcpy, an entry at a time.
CopyEntry ==
    /\ cpc = "copy" /\ Len(copied) < entries
    /\ copied' = Append(copied, slot[CopyFrom(Len(copied))])
    /\ UNCHANGED <<slot, windex, rindex, pVars, cpc, entries, out>>

\* Mutant: the new read index is never stored.
PublishReadNoAdvance ==
    /\ cpc = "copy" /\ Len(copied) = entries
    /\ cpc' = "idle" /\ out' = copied /\ copied' = <<>> /\ entries' = 0
    /\ UNCHANGED <<slot, windex, rindex, pVars>>

\* After the fence, give the slots back.
PublishRead ==
    /\ cpc = "copy" /\ Len(copied) = entries
    /\ rindex' = (rindex + entries) % IndexMod
    /\ cpc' = "idle" /\ out' = copied /\ copied' = <<>> /\ entries' = 0
    /\ UNCHANGED <<slot, windex, pVars>>

\* front() returns a pointer to the oldest entry, which the consumer reads.
Front ==
    /\ cpc = "idle" /\ Published # 0
    /\ cpc' = "front" /\ copied' = <<slot[At(rindex)]>>
    /\ UNCHANGED <<slot, windex, rindex, pVars, entries, out>>

\* pop() destroys it, and after the fence gives the slot back.
PopDestroy ==
    /\ cpc = "front"
    /\ slot' = [slot EXCEPT ![At(rindex)] = Raw]
    /\ cpc' = "pop"
    /\ UNCHANGED <<windex, rindex, pVars, entries, copied, out>>

PopRelease ==
    /\ cpc = "pop"
    /\ rindex' = (rindex + 1) % IndexMod
    /\ cpc' = "idle" /\ out' = copied /\ copied' = <<>>
    /\ UNCHANGED <<slot, windex, pVars, entries>>

-----------------------------------------------------------------------------
Producer == FindRoom \/ GiveUp \/ Construct \/ PublishWrite
Consumer == BatchOut \/ CopyEntry \/ PublishRead

Next ==
    \/ \E v \in Values, try \in BOOLEAN : Emplace(v, try)
    \/ Producer
    \/ Consumer
    \/ Front \/ PopDestroy \/ PopRelease

Spec == Init /\ [][Next]_vars

\* A logging thread that has called emplace runs on, and the logger keeps polling
\* with batch_out, as async_logger::poll does.
FairSpec == Spec /\ WF_vars(Producer) /\ WF_vars(Consumer) /\ WF_vars(PopDestroy \/ PopRelease)

-----------------------------------------------------------------------------
(* Correctness.                                                            *)

\* Every variable keeps its shape.
TypeOK ==
    /\ slot \in [Slots -> Values \cup {Raw}]
    /\ windex \in 0 .. IndexMod - 1 /\ rindex \in 0 .. IndexMod - 1
    /\ ppc \in {"idle", "look", "construct", "publish"}
    /\ pval \in Values \cup {Raw} /\ ptry \in BOOLEAN
    /\ cpc \in {"idle", "copy", "front", "pop"}
    /\ entries \in 0 .. Capacity - 1
    /\ copied \in Seq(Values) /\ out \in Seq(Values)

\* The producer never constructs over an entry the consumer has not given back,
\* although it decides on an old index_read_; and what the consumer saw as
\* published stays published while it copies.
NoOverwrite ==
    /\ TypeOK
    /\ ppc \in {"construct", "publish"} =>
            \A i \in 0 .. Published - 1 : At(rindex + i) # At(windex)
    /\ cpc = "copy" => entries <= Published
    /\ cpc \in {"front", "pop"} => Published > 0

\* The entries published and not yet released, oldest first.  The one pop() has
\* destroyed counts as what it was.
Contents ==
    [i \in 1 .. Published |->
        IF cpc = "pop" /\ i = 1 THEN copied[1] ELSE slot[At(rindex + i - 1)]]

Queue == INSTANCE BoundedQueue WITH queue <- Contents, Bound <- mask

\* The ring is a FIFO queue of mask_ entries: nothing is lost, duplicated,
\* reordered or read half-made, across index wrap-around.
RefinesQueue == Queue!Spec

\* A producer that spins in emplace on a full ring gets its room.
EmplaceReturns == (ppc = "look") ~> (ppc = "idle")
=============================================================================
