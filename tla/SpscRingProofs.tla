--------------------------- MODULE SpscRingProofs ---------------------------
(***************************************************************************)
(* Proofs about spsc_ring, for every capacity and every index width that   *)
(* is a multiple of it: the producer never constructs over an entry that   *)
(* is published, and the ring implements a bounded FIFO queue.             *)
(*                                                                         *)
(* The arithmetic comes first.  The indices wrap at IndexMod and the slots *)
(* at Capacity, which divides IndexMod; from there on only the number of   *)
(* published entries and the slots At(rindex + i) matter.                  *)
(***************************************************************************)
EXTENDS SpscRing, SequenceTheorems, TLAPS

-----------------------------------------------------------------------------
(* Division and remainder.                                                 *)

\* What % is: the remainder, below the divisor.
LEMMA Division ==
  ASSUME NEW a \in Int, NEW b \in Nat \ {0}
  PROVE  \E q \in Int, r \in 0 .. b - 1 : r = a % b /\ a = b * q + r
<1>1. PICK r \in 0 .. b - 1 : r = a % b
  OBVIOUS
<1>2. b \in Int /\ b > 0
  OBVIOUS
<1>3. \E q \in Int : a = b * q + r
  BY <1>1, <1>2
<1> QED BY <1>1, <1>3

\* A multiple of b other than 0 is at least b away from 0.
LEMMA Multiples ==
  ASSUME NEW b \in Nat \ {0}, NEW q \in Int, q # 0
  PROVE  b * q >= b \/ b * q <= -b
OBVIOUS

\* A quotient and a remainder in range are the quotient and the remainder.
LEMMA RemainderIs ==
  ASSUME NEW a \in Int, NEW b \in Nat \ {0}, NEW q \in Int, NEW r \in 0 .. b - 1,
         a = b * q + r
  PROVE  a % b = r
<1>2. PICK p \in Int, m \in 0 .. b - 1 : m = a % b /\ a = b * p + m
  BY Division, Zenon
<1>1. b * p + m = b * q + r
  BY <1>2, Zenon
<1>3. PICK d \in Int : d = p - q
  OBVIOUS
<1>4. b * d = b * p - b * q
  BY <1>3
<1>5. b * d = r - m
  BY <1>1, <1>4
<1>6. d = 0
  <2> SUFFICES ASSUME d # 0 PROVE FALSE
    OBVIOUS
  <2>1. b * d >= b \/ b * d <= -b
    BY Multiples
  <2> QED BY <2>1, <1>5
<1>7. m = r
  BY <1>5, <1>6
<1> QED BY <1>2, <1>7, Zenon

\* Adding a multiple of the divisor does not change the remainder.
LEMMA AddMultiple ==
  ASSUME NEW a \in Int, NEW b \in Nat \ {0}, NEW q \in Int
  PROVE  (a + b * q) % b = a % b
<1>2. PICK p \in Int, r \in 0 .. b - 1 : r = a % b /\ a = b * p + r
  BY Division, Zenon
<1>1. a = b * p + r
  BY <1>2, Zenon
<1>3. a + b * q = b * (p + q) + r
  BY <1>1
<1>4. a + b * q \in Int /\ p + q \in Int
  OBVIOUS
<1>5. (a + b * q) % b = r
  BY <1>3, <1>4, RemainderIs, Zenon
<1> QED BY <1>2, <1>5, Zenon

-----------------------------------------------------------------------------
(* The slots.                                                              *)

\* Capacity and IndexMod are positive, and a capacity has room for two.
LEMMA Sizes ==
  /\ Capacity \in Nat \ {0} /\ Capacity > 1
  /\ IndexMod \in Nat \ {0} /\ IndexMod >= Capacity
<1>1. PICK k \in 1 .. IndexMod : IndexMod = k * Capacity
  BY SpscAssumption
<1>2. Capacity \in Nat \ {0, 1} 
  BY SpscAssumption
<1>3. k \in Nat /\ k >= 1
  BY <1>1
<1>4. k * Capacity >= Capacity /\ k * Capacity \in Nat
  BY <1>2, <1>3
<1> QED BY <1>1, <1>2, <1>4

\* index & mask_ is a slot.
LEMMA AtSlot == ASSUME NEW i \in Int PROVE At(i) \in Slots
BY Sizes, Division DEF At, Slots

\* Two indices less than a capacity apart have different slots.
LEMMA AtDistinct ==
  ASSUME NEW i \in Int, NEW j \in Int, i < j, j - i < Capacity
  PROVE  At(i) # At(j)
<1> SUFFICES ASSUME At(i) = At(j) PROVE FALSE
  OBVIOUS
<1>1. PICK p \in Int, r \in 0 .. Capacity - 1 : r = At(i) /\ i = Capacity * p + r
  BY Sizes, Division, Zenon DEF At
<1>2. PICK q \in Int, m \in 0 .. Capacity - 1 : m = At(j) /\ j = Capacity * q + m
  BY Sizes, Division, Zenon DEF At
<1>3. PICK d \in Int : d = q - p
  OBVIOUS
<1>4. Capacity * d = Capacity * q - Capacity * p
  BY <1>3, Sizes
<1>5. r = m
  BY <1>1, <1>2
<1>6. Capacity * d = j - i
  BY <1>1, <1>2, <1>4, <1>5, Sizes
<1>7. d # 0
  BY <1>6, Sizes
<1>8. Capacity * d >= Capacity \/ Capacity * d <= -Capacity
  BY <1>7, Sizes, Multiples
<1> QED BY <1>6, <1>8, Sizes

\* Wrapping an index at IndexMod does not change its slot.
LEMMA AtWrap ==
  ASSUME NEW i \in Int
  PROVE  At(i + IndexMod) = At(i) /\ At(i - IndexMod) = At(i)
<1>1. PICK k \in 1 .. IndexMod : IndexMod = k * Capacity
  BY SpscAssumption
<1>2. k \in Int /\ -k \in Int /\ Capacity \in Nat \ {0}
  BY <1>1, Sizes
<1>3. IndexMod = Capacity * k /\ i + IndexMod = i + Capacity * k /\ i - IndexMod = i + Capacity * (-k)
  BY <1>1, <1>2
<1>4. (i + Capacity * k) % Capacity = i % Capacity
  BY <1>2, AddMultiple
<1>5. (i + Capacity * (-k)) % Capacity = i % Capacity
  BY <1>2, AddMultiple
<1> QED BY <1>3, <1>4, <1>5 DEF At

\* An index wrapped once: x % IndexMod for an x below two turns.
LEMMA WrapOnce ==
  ASSUME NEW x \in Int, 0 <= x, x < 2 * IndexMod
  PROVE  x % IndexMod = IF x < IndexMod THEN x ELSE x - IndexMod
<1>1. CASE x < IndexMod
  <2>1. x = IndexMod * 0 + x /\ x \in 0 .. IndexMod - 1
    BY <1>1, Sizes
  <2> QED BY <2>1, <1>1, Sizes, RemainderIs
<1>2. CASE ~(x < IndexMod)
  <2>1. x = IndexMod * 1 + (x - IndexMod) /\ x - IndexMod \in 0 .. IndexMod - 1
    BY <1>2, Sizes
  <2> QED BY <2>1, <1>2, Sizes, RemainderIs
<1> QED BY <1>1, <1>2

\* The difference of two indices, as unsigned arithmetic computes it.
LEMMA Difference ==
  ASSUME NEW x \in 0 .. IndexMod - 1, NEW y \in 0 .. IndexMod - 1
  PROVE  (x - y) % IndexMod = IF x >= y THEN x - y ELSE x - y + IndexMod
<1>1. CASE x >= y
  <2>1. x - y = IndexMod * 0 + (x - y) /\ x - y \in 0 .. IndexMod - 1 /\ x - y \in Int
    BY <1>1, Sizes
  <2> QED BY <2>1, <1>1, Sizes, RemainderIs
<1>2. CASE ~(x >= y)
  <2>1. /\ x - y = IndexMod * (-1) + (x - y + IndexMod) /\ x - y + IndexMod \in 0 .. IndexMod - 1
        /\ x - y \in Int
    BY <1>2, Sizes
  <2> QED BY <2>1, <1>2, Sizes, RemainderIs
<1> QED BY <1>1, <1>2

-----------------------------------------------------------------------------
(* The number of published entries, for indices w and r.                   *)

Apart(w, r) == (w - r) % IndexMod
Wrap(i) == i % IndexMod

\* The write index is the read index and the published entries further on.
LEMMA ApartFacts ==
  ASSUME NEW w \in 0 .. IndexMod - 1, NEW r \in 0 .. IndexMod - 1
  PROVE  /\ Apart(w, r) \in 0 .. IndexMod - 1
         /\ At(r + Apart(w, r)) = At(w)
         /\ Apart(w, r) <= mask => (mask + r - w) % IndexMod = mask - Apart(w, r)
<1>1. Apart(w, r) = IF w >= r THEN w - r ELSE w - r + IndexMod
  BY Difference DEF Apart
<1>2. Apart(w, r) \in 0 .. IndexMod - 1
  BY <1>1, Sizes
<1>3. At(r + Apart(w, r)) = At(w)
  <2>1. CASE w >= r
    BY <2>1, <1>1, Sizes
  <2>2. CASE ~(w >= r)
    <3>1. r + Apart(w, r) = w + IndexMod
      BY <2>2, <1>1, Sizes
    <3> QED BY <3>1, AtWrap
  <2> QED BY <2>1, <2>2
<1>4. ASSUME Apart(w, r) <= mask PROVE (mask + r - w) % IndexMod = mask - Apart(w, r)
  <2>1. PICK n \in 0 .. IndexMod - 1 : n = mask - Apart(w, r)
    BY <1>2, <1>4, Sizes DEF mask
  <2>2. PICK x \in Int : x = mask + r - w
    BY Sizes DEF mask
  <2>3. CASE w >= r
    <3>1. x = IndexMod * 0 + n
      BY <2>1, <2>2, <2>3, <1>1, Sizes DEF mask
    <3>2. x % IndexMod = n
      BY <3>1, Sizes, RemainderIs
    <3> QED BY <2>1, <2>2, <3>2
  <2>4. CASE ~(w >= r)
    <3>1. x = IndexMod * 1 + n
      BY <2>1, <2>2, <2>4, <1>1, Sizes DEF mask
    <3>2. x % IndexMod = n
      BY <3>1, Sizes, RemainderIs
    <3> QED BY <2>1, <2>2, <3>2
  <2> QED BY <2>3, <2>4
<1> QED BY <1>2, <1>3, <1>4

\* The write index goes one on while there is room.
LEMMA Written ==
  ASSUME NEW w \in 0 .. IndexMod - 1, NEW r \in 0 .. IndexMod - 1, Apart(w, r) < mask
  PROVE  /\ Wrap(w + 1) \in 0 .. IndexMod - 1
         /\ Apart(Wrap(w + 1), r) = Apart(w, r) + 1
<1>1. Apart(w, r) = IF w >= r THEN w - r ELSE w - r + IndexMod
  BY Difference DEF Apart
<1>2. Wrap(w + 1) = IF w + 1 < IndexMod THEN w + 1 ELSE w + 1 - IndexMod
  BY WrapOnce, Sizes DEF Wrap
<1>3. Wrap(w + 1) \in 0 .. IndexMod - 1
  BY <1>2, Sizes
<1>4. Apart(Wrap(w + 1), r) = IF Wrap(w + 1) >= r THEN Wrap(w + 1) - r ELSE Wrap(w + 1) - r + IndexMod
  BY <1>3, Difference DEF Apart
<1> QED BY <1>1, <1>2, <1>3, <1>4, Sizes DEF mask

\* The read index goes n entries on, over published ones.
LEMMA Released ==
  ASSUME NEW w \in 0 .. IndexMod - 1, NEW r \in 0 .. IndexMod - 1, NEW n \in 0 .. Apart(w, r)
  PROVE  /\ Wrap(r + n) \in 0 .. IndexMod - 1
         /\ Apart(w, Wrap(r + n)) = Apart(w, r) - n
         /\ \A i \in Int : At(Wrap(r + n) + i) = At(r + n + i)
<1>1. Apart(w, r) = IF w >= r THEN w - r ELSE w - r + IndexMod
  BY Difference DEF Apart
<1>2. n \in 0 .. IndexMod - 1 /\ n \in Int
  BY <1>1, Sizes
<1>3. Wrap(r + n) = IF r + n < IndexMod THEN r + n ELSE r + n - IndexMod
  BY <1>2, WrapOnce, Sizes DEF Wrap
<1>4. Wrap(r + n) \in 0 .. IndexMod - 1
  BY <1>2, <1>3, Sizes
<1>5. Apart(w, Wrap(r + n)) = IF w >= Wrap(r + n) THEN w - Wrap(r + n) ELSE w - Wrap(r + n) + IndexMod
  BY <1>4, Difference DEF Apart
<1>6. Apart(w, Wrap(r + n)) = Apart(w, r) - n
  BY <1>1, <1>2, <1>3, <1>4, <1>5, Sizes
<1>7. ASSUME NEW i \in Int PROVE At(Wrap(r + n) + i) = At(r + n + i)
  <2>1. CASE r + n < IndexMod
    BY <2>1, <1>3
  <2>2. CASE ~(r + n < IndexMod)
    <3>1. PICK x \in Int : x = r + n + i
      BY <1>2, Sizes
    <3>2. Wrap(r + n) + i = x - IndexMod
      BY <2>2, <1>2, <1>3, <3>1, Sizes
    <3>3. At(x - IndexMod) = At(x)
      BY AtWrap
    <3> QED BY <3>1, <3>2, <3>3
  <2> QED BY <2>1, <2>2
<1> QED BY <1>4, <1>6, <1>7

\* The two phases of batch_out copy from the slots in ring order.
LEMMA CopyOrder ==
  ASSUME rindex \in 0 .. IndexMod - 1, entries \in 1 .. mask, NEW n \in 0 .. entries - 1
  PROVE  CopyFrom(n) = At(rindex + n)
<1>1. PICK q \in Int, f \in 0 .. Capacity - 1 : f = At(rindex) /\ rindex = Capacity * q + f
  <2>1. rindex \in Int /\ Capacity \in Nat \ {0}
    BY Sizes
  <2> QED BY <2>1, Division, Zenon DEF At
<1>2. entries \in Int /\ n \in Int /\ 0 <= n /\ n < entries /\ entries < Capacity
  BY Sizes DEF mask
<1>3. rindex = Capacity * q + f
  BY <1>1, Zenon
<1>4. ASSUME NEW m \in Int, 0 <= m, m < Capacity
      PROVE  At(rindex + m) = IF f + m < Capacity THEN f + m ELSE f + m - Capacity
  <2>1. PICK x \in Int : x = rindex + m
    BY Sizes
  <2>2. CASE f + m < Capacity
    <3>1. x = Capacity * q + (f + m) /\ f + m \in 0 .. Capacity - 1
      BY <1>3, <1>4, <2>1, <2>2, Sizes
    <3>2. x % Capacity = f + m
      BY <3>1, Sizes, RemainderIs
    <3> QED BY <2>1, <2>2, <3>2 DEF At
  <2>3. CASE ~(f + m < Capacity)
    <3>1. x = Capacity * (q + 1) + (f + m - Capacity) /\ f + m - Capacity \in 0 .. Capacity - 1
      BY <1>3, <1>4, <2>1, <2>3, Sizes
    <3>2. x % Capacity = f + m - Capacity
      <4>1. q + 1 \in Int /\ Capacity \in Nat \ {0}
        BY Sizes
      <4> QED BY <3>1, <4>1, RemainderIs, Zenon
    <3> QED BY <2>1, <2>3, <3>2 DEF At
  <2> QED BY <2>2, <2>3
<1>5. At(rindex + n) = IF f + n < Capacity THEN f + n ELSE f + n - Capacity
  BY <1>2, <1>4, Sizes
<1>6. At(rindex + entries) = IF f + entries < Capacity THEN f + entries ELSE f + entries - Capacity
  BY <1>2, <1>4, Sizes
<1>7. CopyFrom(n) = IF At(rindex + entries) > f \/ n < Capacity - f THEN f + n ELSE n - (Capacity - f)
  BY <1>1, Zenon DEF CopyFrom
<1> QED BY <1>2, <1>5, <1>6, <1>7, Sizes

-----------------------------------------------------------------------------
(* The inductive invariant.                                                *)

\* There is always a free slot, and one beyond it while the producer has one in
\* hand; what is constructed is what was to be stored.
ProducerInv ==
  /\ Published <= mask
  /\ ppc \in {"construct", "publish"} => Published < mask
  /\ ppc # "idle" => pval \in Values
  /\ ppc = "publish" => slot[At(windex)] = pval

\* The published slots hold objects, but for the one that pop() has destroyed.
SlotInv ==
  \A i \in 0 .. Published - 1 : (cpc = "pop" /\ i = 0) \/ slot[At(rindex + i)] \in Values

\* What the consumer saw as published still is, and what it has copied is what is
\* in the slots it has not given back.
ConsumerInv ==
  /\ cpc = "copy" => /\ entries \in 1 .. Published /\ Len(copied) <= entries
                     /\ \A j \in 1 .. Len(copied) : copied[j] = slot[At(rindex + j - 1)]
  /\ cpc \in {"front", "pop"} => Published > 0 /\ Len(copied) = 1
  /\ cpc = "front" => copied[1] = slot[At(rindex)]

\* The inductive invariant.
IInv == TypeOK /\ ProducerInv /\ SlotInv /\ ConsumerInv

\* What the two indices say while the invariant holds.
LEMMA Known ==
  ASSUME IInv
  PROVE  /\ windex \in 0 .. IndexMod - 1 /\ rindex \in 0 .. IndexMod - 1
         /\ Published = Apart(windex, rindex)
         /\ Published \in 0 .. mask /\ mask \in Nat /\ mask < Capacity
         /\ At(windex) = At(rindex + Published)
         /\ FreeEntries = mask - Published
<1>1. windex \in 0 .. IndexMod - 1 /\ rindex \in 0 .. IndexMod - 1
  BY DEF IInv, TypeOK
<1>2. Published = Apart(windex, rindex)
  BY DEF Published, Apart
<1>3. mask \in Nat /\ mask < Capacity
  BY Sizes DEF mask
<1>4. Published <= mask
  BY DEF IInv, ProducerInv
<1>5. Apart(windex, rindex) \in 0 .. IndexMod - 1
  BY <1>1, ApartFacts
<1>6. Published \in 0 .. mask
  BY <1>2, <1>3, <1>4, <1>5, Sizes
<1>7. At(windex) = At(rindex + Published)
  BY <1>1, <1>2, ApartFacts
<1>8. FreeEntries = mask - Published
  BY <1>1, <1>2, <1>4, ApartFacts, Zenon DEF FreeEntries
<1> QED BY <1>1, <1>2, <1>3, <1>6, <1>7, <1>8

\* Entries less than a capacity apart have slots of their own.
LEMMA SlotsApart ==
  ASSUME IInv, NEW i \in 0 .. mask, NEW j \in 0 .. mask, i # j
  PROVE  /\ At(rindex + i) # At(rindex + j)
         /\ At(rindex + i) \in Slots
<1>1. rindex \in 0 .. IndexMod - 1 /\ mask \in Nat /\ mask < Capacity
  BY Known
<1>2. PICK x \in Int : x = rindex + i
  BY <1>1, Sizes
<1>3. PICK y \in Int : y = rindex + j
  BY <1>1, Sizes
<1>4. CASE i < j
  <2>1. x < y /\ y - x < Capacity
    BY <1>1, <1>2, <1>3, <1>4, Sizes
  <2> QED BY <1>2, <1>3, <2>1, AtDistinct, AtSlot
<1>5. CASE j < i
  <2>1. y < x /\ x - y < Capacity
    BY <1>1, <1>2, <1>3, <1>5, Sizes
  <2>2. At(y) # At(x)
    BY <2>1, AtDistinct
  <2> QED BY <1>2, <1>3, <2>2, AtSlot
<1> QED BY <1>1, <1>4, <1>5

\* At the start the ring is empty.
LEMMA InitIInv == Init => IInv
<1> SUFFICES ASSUME Init PROVE IInv
  OBVIOUS
<1>1. 0 \in 0 .. IndexMod - 1 /\ mask \in Nat
  BY Sizes DEF mask
<1>2. Published = 0
  <2>1. windex = 0 /\ rindex = 0
    BY DEF Init
  <2> QED BY <1>1, <2>1, Difference DEF Published
<1>3. 0 .. Published - 1 = {}
  BY <1>2
<1>4. TypeOK
  <2>1. <<>> \in Seq(Values)
    OBVIOUS
  <2>2. 0 \in 0 .. Capacity - 1
    BY Sizes
  <2> QED BY <1>1, <2>1, <2>2 DEF Init, TypeOK, Slots
<1> QED BY <1>1, <1>2, <1>3, <1>4 DEF Init, IInv, ProducerInv, SlotInv, ConsumerInv

-----------------------------------------------------------------------------
(* The producer's steps.                                                   *)

LEMMA EmplaceStep ==
  ASSUME IInv, NEW v \in Values, NEW try \in BOOLEAN, Emplace(v, try)
  PROVE  IInv'
<1>1. Published' = Published
  BY DEF Emplace, Published
<1>2. TypeOK'
  BY DEF IInv, TypeOK, Emplace, cVars
<1> QED BY <1>1, <1>2 DEF IInv, Emplace, ProducerInv, SlotInv, ConsumerInv, cVars

LEMMA FindRoomStep == ASSUME IInv, FindRoom PROVE IInv'
<1>1. Published' = Published
  BY DEF FindRoom, Published
<1>2. TypeOK'
  BY DEF IInv, TypeOK, FindRoom, cVars
<1>3. Published < mask
  <2>1. FreeEntries # 0
    BY DEF FindRoom
  <2> QED BY <2>1, Known
<1> QED BY <1>1, <1>2, <1>3 DEF IInv, FindRoom, ProducerInv, SlotInv, ConsumerInv, cVars, mask

LEMMA GiveUpStep == ASSUME IInv, GiveUp PROVE IInv'
<1>1. Published' = Published
  BY DEF GiveUp, Published
<1>2. TypeOK'
  BY DEF IInv, TypeOK, GiveUp, cVars
<1> QED BY <1>1, <1>2 DEF IInv, GiveUp, ProducerInv, SlotInv, ConsumerInv, cVars, mask

\* The slot under construction is not a published one.
LEMMA ConstructStep == ASSUME IInv, Construct PROVE IInv'
<1>1. /\ Published' = Published /\ rindex' = rindex /\ windex' = windex /\ mask' = mask
      /\ pval' = pval /\ cpc' = cpc /\ entries' = entries /\ copied' = copied
      /\ ppc = "construct" /\ ppc' = "publish"
      /\ slot' = [slot EXCEPT ![At(windex)] = pval]
  BY DEF Construct, Published, cVars, mask
<1>2. slot \in [Slots -> Values \cup {Raw}] /\ pval \in Values /\ Published < mask
  BY <1>1 DEF IInv, TypeOK, ProducerInv
<1>3. At(windex) \in Slots /\ At(windex) = At(rindex + Published)
  BY Known, AtSlot, Sizes
<1>4. TypeOK'
  BY <1>2, <1>3 DEF IInv, TypeOK, Construct, cVars
<1>5. slot'[At(windex)] = pval
  BY <1>1, <1>2, <1>3
<1>6. \A i \in 0 .. Published - 1 : slot'[At(rindex + i)] = slot[At(rindex + i)]
  <2> SUFFICES ASSUME NEW i \in 0 .. Published - 1
               PROVE  slot'[At(rindex + i)] = slot[At(rindex + i)]
    OBVIOUS
  <2>1. i \in 0 .. mask /\ Published \in 0 .. mask /\ i # Published
    BY Known
  <2>2. At(rindex + i) # At(windex) /\ At(rindex + i) \in Slots
    BY <1>3, <2>1, SlotsApart
  <2> QED BY <1>1, <1>2, <2>2
<1>7. ProducerInv'
  BY <1>1, <1>2, <1>5 DEF IInv, ProducerInv
<1>8. SlotInv'
  BY <1>1, <1>6 DEF IInv, SlotInv
<1>9. ConsumerInv'
  <2>1. cpc = "copy" => \A j \in 1 .. Len(copied) : copied[j] = slot'[At(rindex + j - 1)]
    <3> SUFFICES ASSUME cpc = "copy", NEW j \in 1 .. Len(copied)
                 PROVE  copied[j] = slot'[At(rindex + j - 1)]
      OBVIOUS
    <3>1. Len(copied) \in Nat /\ rindex \in Int /\ Published \in Nat
      BY Known, Sizes DEF IInv, TypeOK
    <3>2. Len(copied) <= entries /\ entries \in 1 .. Published /\ copied[j] = slot[At(rindex + j - 1)]
      BY DEF IInv, ConsumerInv
    <3>3. PICK i \in 0 .. Published - 1 : i = j - 1
      BY <3>1, <3>2
    <3>4. rindex + i = rindex + j - 1
      BY <3>1, <3>3
    <3> QED BY <1>6, <3>2, <3>3, <3>4
  <2>2. cpc = "front" => slot'[At(rindex)] = slot[At(rindex)]
    <3>1. cpc = "front" => 0 \in 0 .. Published - 1
      BY Known DEF IInv, ConsumerInv
    <3>2. rindex + 0 = rindex
      BY Known
    <3> QED BY <1>6, <3>1, <3>2
  <2> QED BY <1>1, <2>1, <2>2 DEF IInv, ConsumerInv
<1> QED BY <1>4, <1>7, <1>8, <1>9 DEF IInv

LEMMA PublishWriteStep == ASSUME IInv, PublishWrite PROVE IInv' /\ Published' = Published + 1
<1>1. /\ windex' = Wrap(windex + 1) /\ rindex' = rindex /\ mask' = mask /\ slot' = slot
      /\ cpc' = cpc /\ entries' = entries /\ copied' = copied
      /\ ppc = "publish" /\ ppc' = "idle"
  BY DEF PublishWrite, cVars, Wrap, mask
<1>2. /\ windex \in 0 .. IndexMod - 1 /\ rindex \in 0 .. IndexMod - 1
      /\ Published = Apart(windex, rindex) /\ Published \in Nat /\ mask \in Nat
      /\ At(windex) = At(rindex + Published)
  BY Known
<1>3. Published < mask /\ pval \in Values /\ slot[At(windex)] = pval
  BY <1>1 DEF IInv, ProducerInv
<1>4. windex' \in 0 .. IndexMod - 1 /\ Apart(windex', rindex) = Published + 1
  BY <1>1, <1>2, <1>3, Written
<1>5. Published' = Published + 1
  BY <1>1, <1>4 DEF Published, Apart
<1>6. TypeOK'
  BY <1>4 DEF IInv, TypeOK, PublishWrite, cVars
<1>7. ProducerInv'
  <2>1. Published' <= mask'
    BY <1>1, <1>2, <1>3, <1>5
  <2> QED BY <1>1, <2>1 DEF ProducerInv
<1>8. SlotInv'
  <2> SUFFICES ASSUME NEW i \in 0 .. Published
               PROVE  (cpc = "pop" /\ i = 0) \/ slot[At(rindex + i)] \in Values
    BY <1>1, <1>2, <1>5 DEF SlotInv
  <2>1. CASE i = Published
    BY <1>2, <1>3, <2>1
  <2>2. CASE i # Published
    <3>1. i \in 0 .. Published - 1
      BY <1>2, <2>2
    <3> QED BY <3>1 DEF IInv, SlotInv
  <2> QED BY <2>1, <2>2
<1>9. ConsumerInv'
  <2>1. cpc = "copy" => entries \in 1 .. Published'
    BY <1>2, <1>5 DEF IInv, ConsumerInv
  <2>2. cpc \in {"front", "pop"} => Published' > 0
    BY <1>2, <1>5
  <2> QED BY <1>1, <2>1, <2>2 DEF IInv, ConsumerInv
<1> QED BY <1>5, <1>6, <1>7, <1>8, <1>9 DEF IInv

-----------------------------------------------------------------------------
(* The consumer's steps.                                                   *)

\* The j-th entry from the oldest is a value, unless pop() has destroyed it.
LEMMA EntryIsValue ==
  ASSUME IInv, cpc # "pop", NEW i \in 0 .. Published - 1
  PROVE  slot[At(rindex + i)] \in Values
BY DEF IInv, SlotInv

LEMMA BatchOutStep == ASSUME IInv, BatchOut PROVE IInv'
<1>1. /\ Published' = Published /\ rindex' = rindex /\ windex' = windex /\ slot' = slot
      /\ ppc' = ppc /\ pval' = pval /\ cpc = "idle" /\ cpc' = "copy"
      /\ entries' = Published /\ copied' = <<>> /\ Published # 0 /\ mask' = mask
  BY DEF BatchOut, Published, pVars, mask
<1>2. Published \in 1 .. mask /\ mask = Capacity - 1 /\ mask \in Nat
  BY <1>1, Known DEF mask
<1>3. <<>> \in Seq(Values) /\ Len(<<>>) = 0
  OBVIOUS
<1>4. TypeOK'
  <2>1. entries' \in 0 .. Capacity - 1
    BY <1>1, <1>2
  <2> QED BY <1>1, <1>3, <2>1 DEF IInv, TypeOK, BatchOut, pVars
<1>5. ProducerInv' /\ SlotInv'
  BY <1>1 DEF IInv, ProducerInv, SlotInv
<1>6. ConsumerInv'
  <2>1. Len(copied') = 0 /\ 1 .. Len(copied') = {}
    BY <1>1, <1>3
  <2>2. entries' \in 1 .. Published' /\ Len(copied') <= entries'
    BY <1>1, <1>2, <2>1
  <2> QED BY <1>1, <2>1, <2>2 DEF ConsumerInv
<1> QED BY <1>4, <1>5, <1>6 DEF IInv

LEMMA CopyEntryStep == ASSUME IInv, CopyEntry PROVE IInv'
<1> DEFINE n == Len(copied)
<1>1. /\ Published' = Published /\ rindex' = rindex /\ windex' = windex /\ slot' = slot
      /\ ppc' = ppc /\ pval' = pval /\ cpc = "copy" /\ cpc' = cpc
      /\ entries' = entries /\ n < entries /\ mask' = mask
      /\ copied' = Append(copied, slot[CopyFrom(n)])
  BY DEF CopyEntry, Published, pVars, mask
<1>2. entries \in 1 .. Published /\ copied \in Seq(Values) /\ n \in Nat
  BY <1>1 DEF IInv, ConsumerInv, TypeOK
<1>3. Published \in 0 .. mask /\ rindex \in 0 .. IndexMod - 1 /\ mask \in Nat /\ rindex \in Int
  BY Known, Sizes
<1>4. n \in 0 .. entries - 1 /\ entries \in 1 .. mask /\ n \in 0 .. Published - 1
  BY <1>1, <1>2, <1>3
<1>5. CopyFrom(n) = At(rindex + n)
  BY <1>3, <1>4, CopyOrder
<1>6. slot[CopyFrom(n)] \in Values
  BY <1>1, <1>4, <1>5, EntryIsValue
<1>7. /\ copied' \in Seq(Values) /\ Len(copied') = n + 1
      /\ \A j \in 1 .. n : copied'[j] = copied[j]
      /\ copied'[n + 1] = slot[At(rindex + n)]
  BY <1>1, <1>2, <1>5, <1>6
<1>8. TypeOK'
  BY <1>7 DEF IInv, TypeOK, CopyEntry, pVars
<1>9. ProducerInv' /\ SlotInv'
  BY <1>1 DEF IInv, ProducerInv, SlotInv
<1>10. ConsumerInv'
  <2>1. ASSUME NEW j \in 1 .. n + 1 PROVE copied'[j] = slot[At(rindex + j - 1)]
    <3>1. CASE j = n + 1
      <4>1. rindex + j - 1 = rindex + n
        BY <1>2, <1>3, <3>1
      <4> QED BY <1>7, <3>1, <4>1
    <3>2. CASE j # n + 1
      <4>1. j \in 1 .. n
        BY <1>2, <3>2
      <4> QED BY <1>1, <1>7, <4>1 DEF IInv, ConsumerInv
    <3> QED BY <3>1, <3>2
  <2>2. n + 1 <= entries
    BY <1>1, <1>2
  <2> QED BY <1>1, <1>2, <1>7, <2>1, <2>2 DEF ConsumerInv
<1> QED BY <1>8, <1>9, <1>10 DEF IInv

\* Giving n published entries back: the rest of them moves to the front.
LEMMA ReleaseStep ==
  ASSUME IInv, NEW n \in 1 .. Published, rindex' = Wrap(rindex + n),
         windex' = windex, slot' = slot, ppc' = ppc, pval' = pval, cpc' = "idle"
  PROVE  /\ rindex' \in 0 .. IndexMod - 1
         /\ Published' = Published - n
         /\ \A i \in Int : At(rindex' + i) = At(rindex + n + i)
         /\ ProducerInv' /\ SlotInv' /\ ConsumerInv'
<1>1. /\ windex \in 0 .. IndexMod - 1 /\ rindex \in 0 .. IndexMod - 1
      /\ Published = Apart(windex, rindex) /\ Published \in 0 .. mask /\ mask \in Nat
  BY Known
<1>2. n \in 0 .. Apart(windex, rindex) /\ n \in Int /\ rindex \in Int
  BY <1>1, Sizes
<1>3. /\ rindex' \in 0 .. IndexMod - 1
      /\ Apart(windex, rindex') = Published - n
      /\ \A i \in Int : At(rindex' + i) = At(rindex + n + i)
  BY <1>1, <1>2, Released
<1>4. Published' = Published - n
  BY <1>3 DEF Published, Apart
<1>5. ProducerInv'
  <2>1. Published' <= mask /\ Published' < Published /\ mask' = mask
    BY <1>1, <1>4 DEF mask
  <2>2. ppc \in {"construct", "publish"} => Published' < mask
    BY <1>1, <2>1, <1>4 DEF IInv, ProducerInv
  <2> QED BY <2>1, <2>2 DEF IInv, ProducerInv
<1>6. SlotInv'
  <2> SUFFICES ASSUME NEW i \in 0 .. Published' - 1 PROVE slot[At(rindex' + i)] \in Values
    BY DEF SlotInv
  <2>1. PICK j \in 0 .. Published - 1 : j = n + i /\ j # 0
    BY <1>1, <1>4
  <2>2. i \in Int /\ rindex + n + i = rindex + j
    BY <1>1, <1>2, <1>4, <2>1
  <2>3. At(rindex' + i) = At(rindex + j)
    BY <1>3, <2>2
  <2> QED BY <2>1, <2>3 DEF IInv, SlotInv
<1>7. ConsumerInv'
  BY DEF ConsumerInv
<1> QED BY <1>3, <1>4, <1>5, <1>6, <1>7

LEMMA PublishReadStep == ASSUME IInv, PublishRead PROVE IInv' /\ Published' = Published - entries
<1>1. /\ rindex' = Wrap(rindex + entries) /\ windex' = windex /\ slot' = slot
      /\ ppc' = ppc /\ pval' = pval /\ cpc = "copy" /\ cpc' = "idle"
  BY DEF PublishRead, Wrap, pVars
<1>2. entries \in 1 .. Published
  BY <1>1 DEF IInv, ConsumerInv
<1>3. /\ rindex' \in 0 .. IndexMod - 1 /\ Published' = Published - entries
      /\ ProducerInv' /\ SlotInv' /\ ConsumerInv'
  BY <1>1, <1>2, ReleaseStep
<1>4. TypeOK'
  <2>1. <<>> \in Seq(Values) /\ 0 \in 0 .. Capacity - 1
    BY Sizes
  <2> QED BY <1>1, <1>3, <2>1 DEF IInv, TypeOK, PublishRead, pVars
<1> QED BY <1>3, <1>4 DEF IInv

LEMMA FrontStep == ASSUME IInv, Front PROVE IInv'
<1>1. /\ Published' = Published /\ rindex' = rindex /\ windex' = windex /\ slot' = slot
      /\ ppc' = ppc /\ pval' = pval /\ cpc = "idle" /\ cpc' = "front"
      /\ copied' = <<slot[At(rindex)]>> /\ Published # 0 /\ mask' = mask
  BY DEF Front, Published, pVars, mask
<1>2. Published \in Nat /\ Published > 0 /\ rindex + 0 = rindex
  BY <1>1, Known
<1>3. slot[At(rindex)] \in Values
  <2>1. 0 \in 0 .. Published - 1
    BY <1>2
  <2> QED BY <1>1, <1>2, <2>1, EntryIsValue
<1>4. copied' \in Seq(Values) /\ Len(copied') = 1 /\ copied'[1] = slot[At(rindex)]
  BY <1>1, <1>3
<1>5. TypeOK'
  BY <1>1, <1>4 DEF IInv, TypeOK, Front, pVars
<1>6. ProducerInv' /\ SlotInv'
  BY <1>1 DEF IInv, ProducerInv, SlotInv
<1>7. ConsumerInv'
  BY <1>1, <1>2, <1>4 DEF ConsumerInv
<1> QED BY <1>5, <1>6, <1>7 DEF IInv

\* The destroyed slot is neither another published one nor the producer's.
LEMMA PopDestroyStep ==
  ASSUME IInv, PopDestroy
  PROVE  /\ IInv' /\ Published' = Published
         /\ \A i \in 1 .. Published - 1 : slot'[At(rindex + i)] = slot[At(rindex + i)]
<1>1. /\ Published' = Published /\ rindex' = rindex /\ windex' = windex
      /\ slot' = [slot EXCEPT ![At(rindex)] = Raw]
      /\ ppc' = ppc /\ pval' = pval /\ cpc = "front" /\ cpc' = "pop"
      /\ copied' = copied /\ mask' = mask
  BY DEF PopDestroy, Published, pVars, mask
<1>2. Published > 0 /\ Len(copied) = 1
  BY <1>1 DEF IInv, ConsumerInv
<1>3. /\ Published \in 0 .. mask /\ mask \in Nat /\ rindex + 0 = rindex
      /\ At(windex) = At(rindex + Published)
  BY Known
<1>4. slot \in [Slots -> Values \cup {Raw}]
  BY DEF IInv, TypeOK
<1>5. \A i \in 1 .. mask : slot'[At(rindex + i)] = slot[At(rindex + i)]
  <2> SUFFICES ASSUME NEW i \in 1 .. mask PROVE slot'[At(rindex + i)] = slot[At(rindex + i)]
    OBVIOUS
  <2>1. i \in 0 .. mask /\ 0 \in 0 .. mask /\ i # 0
    BY <1>3
  <2>2. At(rindex + i) # At(rindex + 0) /\ At(rindex + i) \in Slots
    BY <2>1, SlotsApart
  <2> QED BY <1>1, <1>3, <1>4, <2>2
<1>6. At(rindex) \in Slots
  BY Known, AtSlot, Sizes
<1>7. TypeOK'
  BY <1>1, <1>4, <1>6 DEF IInv, TypeOK, PopDestroy, pVars
<1>8. ProducerInv'
  <2>1. slot'[At(windex)] = slot[At(windex)]
    <3>1. Published \in 1 .. mask
      BY <1>2, <1>3
    <3> QED BY <1>3, <1>5, <3>1
  <2> QED BY <1>1, <2>1 DEF IInv, ProducerInv
<1>9. SlotInv'
  <2> SUFFICES ASSUME NEW i \in 0 .. Published - 1, i # 0 PROVE slot'[At(rindex + i)] \in Values
    BY <1>1 DEF SlotInv
  <2>1. i \in 1 .. mask
    BY <1>3
  <2> QED BY <1>1, <1>5, <2>1, EntryIsValue
<1>10. ConsumerInv'
  BY <1>1, <1>2 DEF ConsumerInv
<1>11. \A i \in 1 .. Published - 1 : i \in 1 .. mask
  BY <1>3
<1> QED BY <1>1, <1>5, <1>7, <1>8, <1>9, <1>10, <1>11 DEF IInv

LEMMA PopReleaseStep == ASSUME IInv, PopRelease PROVE IInv' /\ Published' = Published - 1
<1>1. /\ rindex' = Wrap(rindex + 1) /\ windex' = windex /\ slot' = slot
      /\ ppc' = ppc /\ pval' = pval /\ cpc = "pop" /\ cpc' = "idle"
  BY DEF PopRelease, Wrap, pVars
<1>2. 1 \in 1 .. Published
  BY <1>1, Known DEF IInv, ConsumerInv
<1>3. /\ rindex' \in 0 .. IndexMod - 1 /\ Published' = Published - 1
      /\ ProducerInv' /\ SlotInv' /\ ConsumerInv'
  BY <1>1, <1>2, ReleaseStep
<1>4. TypeOK'
  <2>1. <<>> \in Seq(Values)
    OBVIOUS
  <2> QED BY <1>1, <1>3, <2>1 DEF IInv, TypeOK, PopRelease, pVars
<1> QED BY <1>3, <1>4 DEF IInv

-----------------------------------------------------------------------------
(* The invariant holds.                                                    *)

LEMMA NextIInv == IInv /\ [Next]_vars => IInv'
<1> SUFFICES ASSUME IInv, [Next]_vars PROVE IInv'
  OBVIOUS
<1>1. ASSUME NEW v \in Values, NEW try \in BOOLEAN, Emplace(v, try) PROVE IInv'
  BY <1>1, EmplaceStep
<1>2. CASE Producer
  BY <1>2, FindRoomStep, GiveUpStep, ConstructStep, PublishWriteStep DEF Producer
<1>3. CASE Consumer
  BY <1>3, BatchOutStep, CopyEntryStep, PublishReadStep DEF Consumer
<1>4. CASE Front \/ PopDestroy \/ PopRelease
  BY <1>4, FrontStep, PopDestroyStep, PopReleaseStep
<1>5. CASE UNCHANGED vars
  <2>1. Published' = Published
    BY <1>5 DEF vars, Published
  <2>2. TypeOK'
    BY <1>5 DEF IInv, TypeOK, vars, pVars, cVars
  <2> QED BY <1>5, <2>1, <2>2 DEF IInv, vars, pVars, cVars, ProducerInv, SlotInv, ConsumerInv, mask
<1> QED BY <1>1, <1>2, <1>3, <1>4, <1>5 DEF Next

LEMMA Invariance == Spec => []IInv
<1>1. Init => IInv
  BY InitIInv
<1>2. IInv /\ [Next]_vars => IInv'
  BY NextIInv
<1> QED BY <1>1, <1>2, PTL DEF Spec

LEMMA InvNoOverwrite == IInv => NoOverwrite
<1> SUFFICES ASSUME IInv PROVE NoOverwrite
  OBVIOUS
<1>1. ASSUME NEW i \in 0 .. Published - 1 PROVE At(rindex + i) # At(windex)
  <2>1. i \in 0 .. mask /\ Published \in 0 .. mask /\ i # Published /\ At(windex) = At(rindex + Published)
    BY Known
  <2> QED BY <2>1, SlotsApart
<1>2. cpc = "copy" => entries <= Published
  BY Known DEF IInv, ConsumerInv
<1> QED BY <1>1, <1>2 DEF IInv, ConsumerInv, NoOverwrite

\* For every capacity and every index width that is a multiple of it: the producer
\* of spsc_ring never constructs over an entry the consumer has not given back,
\* although emplace decides on an index_read_ it has read before; and what
\* batch_out, front() and pop() saw as published stays published.
THEOREM NeverOverwrites == Spec => []NoOverwrite
<1>1. IInv => NoOverwrite
  BY InvNoOverwrite
<1> QED BY <1>1, Invariance, PTL

-----------------------------------------------------------------------------
(* The ring implements the bounded queue.                                  *)

\* The i-th of the entries published and not yet released.
EntryAt(i) == IF cpc = "pop" /\ i = 1 THEN copied[1] ELSE slot[At(rindex + i - 1)]

ContentsRight ==
  /\ Contents \in Seq(Values) /\ Len(Contents) = Published
  /\ \A i \in 1 .. Published : Contents[i] = EntryAt(i)

\* The queue has the published entries.
LEMMA ContentsSeq == IInv => ContentsRight
<1> SUFFICES ASSUME IInv PROVE ContentsRight
  OBVIOUS
<1>1. Published \in Nat /\ rindex \in Int
  BY Known, Sizes
<1>2. Contents = [i \in 1 .. Published |-> EntryAt(i)]
  BY DEF Contents, EntryAt
<1>3. ASSUME NEW i \in 1 .. Published PROVE EntryAt(i) \in Values
  <2>1. CASE cpc = "pop" /\ i = 1
    <3>1. copied \in Seq(Values) /\ Len(copied) = 1
      BY <2>1 DEF IInv, TypeOK, ConsumerInv
    <3>2. copied[1] \in Values
      BY <3>1, ElementOfSeq
    <3> QED BY <2>1, <3>2 DEF EntryAt
  <2>2. CASE ~(cpc = "pop" /\ i = 1)
    <3>1. PICK j \in 0 .. Published - 1 : j = i - 1
      BY <1>1
    <3>2. rindex + j = rindex + i - 1 /\ ~(cpc = "pop" /\ j = 0)
      BY <1>1, <2>2, <3>1
    <3>3. slot[At(rindex + j)] \in Values
      BY <3>1, <3>2 DEF IInv, SlotInv
    <3> QED BY <2>2, <3>2, <3>3 DEF EntryAt
  <2> QED BY <2>1, <2>2
<1>4. Contents \in [1 .. Published -> Values]
  BY <1>2, <1>3
<1>5. Contents \in Seq(Values) /\ Len(Contents) = Published
  BY <1>1, <1>4
<1> QED BY <1>2, <1>5 DEF ContentsRight

LEMMA ContentsSeqPrime == IInv' => ContentsRight'
BY ContentsSeq, PTL

\* Nothing happens to the queue while the entries stay what they are.
LEMMA SameContents ==
  ASSUME IInv, IInv', Published' = Published, out' = out,
         \A i \in 1 .. Published : EntryAt(i)' = EntryAt(i)
  PROVE  UNCHANGED Queue!vars
<1>1. Contents = [i \in 1 .. Published |-> EntryAt(i)]
  BY DEF Contents, EntryAt
<1>2. Contents' = [i \in 1 .. Published' |-> EntryAt(i)']
  BY DEF Contents, EntryAt
<1>3. Contents' = Contents
  BY <1>1, <1>2
<1> QED BY <1>3 DEF Queue!vars

\* The steps that touch no slot, no index and not the copy being popped.
LEMMA QuietStep ==
  ASSUME IInv, IInv', slot' = slot, windex' = windex, rindex' = rindex, out' = out,
         cpc' # "pop", cpc # "pop"
  PROVE  UNCHANGED Queue!vars
<1>1. Published' = Published
  BY DEF Published
<1>2. \A i \in 1 .. Published : EntryAt(i)' = EntryAt(i)
  BY DEF EntryAt
<1> QED BY <1>1, <1>2, SameContents

\* And those of the producer, whatever the consumer is doing.
LEMMA ProducerQuiet ==
  ASSUME IInv, IInv', slot' = slot, windex' = windex, rindex' = rindex, UNCHANGED cVars
  PROVE  UNCHANGED Queue!vars
<1>1. Published' = Published /\ out' = out
  BY DEF Published, cVars
<1>2. \A i \in 1 .. Published : EntryAt(i)' = EntryAt(i)
  BY DEF EntryAt, cVars
<1> QED BY <1>1, <1>2, SameContents

\* An object under construction is not in the queue yet.
LEMMA ConstructQuiet == ASSUME IInv, IInv', Construct PROVE UNCHANGED Queue!vars
<1>1. /\ Published' = Published /\ rindex' = rindex /\ cpc' = cpc /\ copied' = copied /\ out' = out
      /\ slot' = [slot EXCEPT ![At(windex)] = pval]
  BY DEF Construct, Published, cVars
<1>2. slot \in [Slots -> Values \cup {Raw}] /\ rindex \in Int /\ At(windex) = At(rindex + Published)
  BY Known, Sizes DEF IInv, TypeOK
<1>3. ASSUME NEW i \in 1 .. Published PROVE EntryAt(i)' = EntryAt(i)
  <2>1. PICK j \in 0 .. mask : j = i - 1 /\ j # Published
    BY Known
  <2>2. rindex + i - 1 = rindex + j /\ Published \in 0 .. mask
    BY <1>2, <2>1, Known
  <2>3. At(rindex + j) # At(windex) /\ At(rindex + j) \in Slots
    BY <1>2, <2>1, <2>2, SlotsApart
  <2>4. slot'[At(rindex + i - 1)] = slot[At(rindex + i - 1)]
    BY <1>1, <1>2, <2>2, <2>3
  <2> QED BY <1>1, <2>4 DEF EntryAt
<1> QED BY <1>1, <1>3, SameContents

\* The entry that pop() destroys counts as what it was.
LEMMA DestroyQuiet == ASSUME IInv, IInv', PopDestroy PROVE UNCHANGED Queue!vars
<1>1. /\ Published' = Published
      /\ \A i \in 1 .. Published - 1 : slot'[At(rindex + i)] = slot[At(rindex + i)]
  BY PopDestroyStep
<1>2. /\ rindex' = rindex /\ cpc = "front" /\ cpc' = "pop" /\ copied' = copied /\ out' = out
  BY DEF PopDestroy
<1>3. copied[1] = slot[At(rindex)] /\ Published \in Nat /\ rindex \in Int
  BY <1>2, Known, Sizes DEF IInv, ConsumerInv
<1>4. ASSUME NEW i \in 1 .. Published PROVE EntryAt(i)' = EntryAt(i)
  <2>1. CASE i = 1
    <3>1. rindex + i - 1 = rindex
      BY <1>3, <2>1
    <3> QED BY <1>2, <1>3, <2>1, <3>1 DEF EntryAt
  <2>2. CASE i # 1
    <3>1. PICK j \in 1 .. Published - 1 : j = i - 1
      BY <1>3, <2>2
    <3>2. rindex + i - 1 = rindex + j
      BY <1>3, <3>1
    <3> QED BY <1>1, <1>2, <2>2, <3>1, <3>2 DEF EntryAt
  <2> QED BY <2>1, <2>2
<1> QED BY <1>1, <1>2, <1>4, SameContents

\* PublishWrite is the push.
LEMMA WriteIsPush == ASSUME IInv, IInv', PublishWrite PROVE Queue!Next
<1>1. /\ ppc = "publish" /\ rindex' = rindex /\ slot' = slot /\ cpc' = cpc /\ copied' = copied
      /\ out' = out
  BY DEF PublishWrite, cVars
<1>2. Published' = Published + 1
  BY PublishWriteStep
<1>3. pval \in Values /\ slot[At(windex)] = pval /\ Published < mask
  BY <1>1 DEF IInv, ProducerInv
<1>4. Published \in Nat /\ rindex \in Int /\ At(windex) = At(rindex + Published)
  BY Known, Sizes
<1>5. cpc = "pop" => Published > 0
  BY DEF IInv, ConsumerInv
<1>6. /\ Contents \in Seq(Values) /\ Len(Contents) = Published
      /\ \A i \in 1 .. Published : Contents[i] = EntryAt(i)
  BY ContentsSeq DEF ContentsRight
<1>7. /\ Contents' \in Seq(Values) /\ Len(Contents') = Published + 1
      /\ \A i \in 1 .. Published + 1 : Contents'[i] = EntryAt(i)
  <2>1. \A i \in 1 .. Published + 1 : EntryAt(i)' = EntryAt(i)
    BY <1>1 DEF EntryAt
  <2>2. /\ Contents' \in Seq(Values) /\ Len(Contents') = Published'
        /\ \A i \in 1 .. Published' : Contents'[i] = EntryAt(i)'
    BY ContentsSeqPrime DEF ContentsRight
  <2> QED BY <1>2, <2>1, <2>2
<1>8. EntryAt(Published + 1) = pval
  <2>1. rindex + (Published + 1) - 1 = rindex + Published /\ ~(cpc = "pop" /\ Published + 1 = 1)
    BY <1>4, <1>5
  <2> QED BY <1>3, <1>4, <2>1 DEF EntryAt
<1>9. Contents' = Append(Contents, pval)
  <2> DEFINE a == Append(Contents, pval)
  <2>1. /\ a \in Seq(Values) /\ Len(a) = Published + 1
        /\ \A i \in 1 .. Published : a[i] = Contents[i]
        /\ a[Published + 1] = pval
    BY <1>3, <1>6, AppendProperties
  <2>2. \A i \in 1 .. Published + 1 : i \in 1 .. Published \/ i = Published + 1
    BY <1>4
  <2>3. \A i \in 1 .. Len(Contents') : Contents'[i] = a[i]
    BY <1>6, <1>7, <1>8, <2>1, <2>2
  <2> QED BY <1>7, <2>1, <2>3, SeqEqual
<1>10. Queue!Push(pval)
  BY <1>1, <1>3, <1>6, <1>9 DEF Queue!Push
<1> QED BY <1>3, <1>10 DEF Queue!Next

\* The entries after giving n of them back are those after the first n.
LEMMA ReleaseIsTake ==
  ASSUME IInv, IInv', NEW n \in 1 .. Published, rindex' = Wrap(rindex + n),
         windex' = windex, slot' = slot, ppc' = ppc, pval' = pval, cpc' = "idle",
         copied \in Seq(Values), Len(copied) = n, \A i \in 1 .. n : copied[i] = EntryAt(i),
         out' = copied
  PROVE  Queue!Next
<1>1. /\ Published' = Published - n
      /\ \A i \in Int : At(rindex' + i) = At(rindex + n + i)
  BY ReleaseStep
<1>2. Published \in Nat /\ rindex \in Int /\ rindex' \in Int /\ n \in Nat
  <2>1. rindex' \in 0 .. IndexMod - 1
    BY DEF IInv, TypeOK
  <2> QED BY <2>1, Known, Sizes
<1>3. /\ Contents \in Seq(Values) /\ Len(Contents) = Published
      /\ \A i \in 1 .. Published : Contents[i] = EntryAt(i)
  BY ContentsSeq DEF ContentsRight
<1>4. /\ Contents' \in Seq(Values) /\ Len(Contents') = Published'
      /\ \A i \in 1 .. Published' : Contents'[i] = EntryAt(i)'
  BY ContentsSeqPrime DEF ContentsRight
<1>5. \A i \in 1 .. Published : Contents[i] \in Values
  BY <1>3
<1>6. out' = SubSeq(Contents, 1, n)
  <2>1. /\ SubSeq(Contents, 1, n) \in Seq(Values) /\ Len(SubSeq(Contents, 1, n)) = n
        /\ \A i \in 1 .. n : SubSeq(Contents, 1, n)[i] = Contents[i]
    BY <1>2, <1>3, <1>5
  <2>2. \A i \in 1 .. n : i \in 1 .. Published
    BY <1>2
  <2>3. \A i \in 1 .. Len(copied) : copied[i] = SubSeq(Contents, 1, n)[i]
    BY <1>3, <2>1, <2>2
  <2> QED BY <2>1, <2>3, SeqEqual
<1>7. Contents' = SubSeq(Contents, n + 1, Len(Contents))
  <2> DEFINE t == SubSeq(Contents, n + 1, Published)
  <2>1. /\ t \in Seq(Values) /\ Len(t) = Published - n
        /\ \A i \in 1 .. Published - n : t[i] = Contents[n + i]
    BY <1>2, <1>3, <1>5
  <2>2. ASSUME NEW i \in 1 .. Published - n PROVE Contents'[i] = t[i]
    <3>1. PICK j \in 1 .. Published : j = n + i
      BY <1>2
    <3>2. Contents'[i] = slot[At(rindex' + i - 1)]
      BY <1>1, <1>4 DEF EntryAt
    <3>3. PICK m \in Int : m = i - 1
      BY <1>2
    <3>4. rindex' + i - 1 = rindex' + m /\ rindex + n + m = rindex + j - 1 /\ j # 1
      BY <1>2, <3>1, <3>3
    <3>5. At(rindex' + i - 1) = At(rindex + j - 1)
      BY <1>1, <3>4
    <3>6. Contents[j] = slot[At(rindex + j - 1)]
      BY <1>3, <3>1, <3>4 DEF EntryAt
    <3> QED BY <2>1, <3>1, <3>2, <3>5, <3>6
  <2>3. \A i \in 1 .. Len(Contents') : Contents'[i] = t[i]
    BY <1>1, <1>4, <2>2
  <2>4. Contents' = t
    BY <1>1, <1>4, <2>1, <2>3, SeqEqual
  <2> QED BY <1>3, <2>4
<1>8. Queue!Take(n) /\ n \in 1 .. Len(Contents)
  BY <1>3, <1>6, <1>7 DEF Queue!Take
<1> QED BY <1>8 DEF Queue!Next

\* So are the end of batch_out and of pop().
LEMMA ReadIsTake == ASSUME IInv, IInv', PublishRead PROVE Queue!Next
<1>1. /\ rindex' = Wrap(rindex + entries) /\ windex' = windex /\ slot' = slot
      /\ ppc' = ppc /\ pval' = pval /\ cpc = "copy" /\ cpc' = "idle"
      /\ Len(copied) = entries /\ out' = copied
  BY DEF PublishRead, Wrap, pVars
<1>2. /\ entries \in 1 .. Published /\ copied \in Seq(Values)
      /\ \A i \in 1 .. entries : copied[i] = slot[At(rindex + i - 1)]
  BY <1>1 DEF IInv, ConsumerInv, TypeOK
<1>3. \A i \in 1 .. entries : copied[i] = EntryAt(i)
  BY <1>1, <1>2 DEF EntryAt
<1> QED BY <1>1, <1>2, <1>3, ReleaseIsTake

LEMMA PopIsTake == ASSUME IInv, IInv', PopRelease PROVE Queue!Next
<1>1. /\ rindex' = Wrap(rindex + 1) /\ windex' = windex /\ slot' = slot
      /\ ppc' = ppc /\ pval' = pval /\ cpc = "pop" /\ cpc' = "idle" /\ out' = copied
  BY DEF PopRelease, Wrap, pVars
<1>2. copied \in Seq(Values) /\ Len(copied) = 1
  BY <1>1 DEF IInv, ConsumerInv, TypeOK
<1>3. 1 \in 1 .. Published
  BY <1>1, Known DEF IInv, ConsumerInv
<1>4. \A i \in 1 .. 1 : copied[i] = EntryAt(i)
  BY <1>1 DEF EntryAt
<1> QED BY <1>1, <1>2, <1>3, <1>4, ReleaseIsTake

LEMMA InitQueue == Init => Queue!Init
<1> SUFFICES ASSUME Init PROVE Queue!Init
  OBVIOUS
<1>1. Published = 0
  <2>1. windex = 0 /\ rindex = 0 /\ 0 \in 0 .. IndexMod - 1
    BY Sizes DEF Init
  <2> QED BY <2>1, Difference DEF Published
<1>2. Contents = <<>>
  <2>1. IInv
    BY InitIInv
  <2>2. Contents \in Seq(Values) /\ Len(Contents) = 0
    BY <1>1, <2>1, ContentsSeq DEF ContentsRight
  <2> QED BY <2>2
<1> QED BY <1>2 DEF Init, Queue!Init

LEMMA NextQueue == IInv /\ IInv' /\ [Next]_vars => [Queue!Next]_(Queue!vars)
<1> SUFFICES ASSUME IInv, IInv', [Next]_vars PROVE Queue!Next \/ UNCHANGED Queue!vars
  OBVIOUS
<1>1. ASSUME NEW v \in Values, NEW try \in BOOLEAN, Emplace(v, try) PROVE UNCHANGED Queue!vars
  BY <1>1, ProducerQuiet DEF Emplace
<1>2. CASE FindRoom \/ GiveUp
  BY <1>2, ProducerQuiet DEF FindRoom, GiveUp
<1>3. CASE Construct
  BY <1>3, ConstructQuiet
<1>4. CASE PublishWrite
  BY <1>4, WriteIsPush
<1>5. CASE BatchOut \/ CopyEntry \/ Front
  BY <1>5, QuietStep DEF BatchOut, CopyEntry, Front
<1>6. CASE PublishRead
  BY <1>6, ReadIsTake
<1>7. CASE PopDestroy
  BY <1>7, DestroyQuiet
<1>8. CASE PopRelease
  BY <1>8, PopIsTake
<1>9. CASE UNCHANGED vars
  BY <1>9, ProducerQuiet DEF vars
<1> QED BY <1>1, <1>2, <1>3, <1>4, <1>5, <1>6, <1>7, <1>8, <1>9 DEF Next, Producer, Consumer

\* For every capacity and every index width that is a multiple of it, spsc_ring is
\* a FIFO queue of mask_ entries: emplace appends one, batch_out and front + pop
\* take a prefix, and nothing is lost, duplicated, reordered or read half-made.
THEOREM ImplementsQueue == Spec => RefinesQueue
<1>1. Init => Queue!Init
  BY InitQueue
<1>2. IInv /\ IInv' /\ [Next]_vars => [Queue!Next]_(Queue!vars)
  BY NextQueue
<1> QED BY <1>1, <1>2, Invariance, PTL DEF Spec, RefinesQueue, Queue!Spec
=============================================================================
