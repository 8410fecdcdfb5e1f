---------------------------- MODULE StreamProofs ----------------------------
(***************************************************************************)
(* Proofs about the buffers and the socket readers and writers, for any    *)
(* peer, buffer size, argument and number of calls.  First what the buffer *)
(* operators do to the readable bytes, then the invariant of the calls.    *)
(***************************************************************************)
EXTENDS Stream, SequenceTheorems, WellFoundedInduction, TLAPS

Bytes == Nat \cup {Zero}

\* A buffer whose indices are in order and inside the container.
BufferOK(b) ==
  /\ b \in [data : Seq(Bytes), r : Nat, w : Nat]
  /\ b.r <= b.w /\ b.w <= Len(b.data)

\* What has been written to the container, read or not, is in G.
HeldBy(b, G) == \A i \in 1 .. b.w : b.data[i] \in G

-----------------------------------------------------------------------------
(* The buffer operators.                                                   *)

LEMMA BufferTypes ==
  ASSUME NEW b, BufferOK(b)
  PROVE  /\ b.data \in Seq(Bytes) /\ b.r \in Nat /\ b.w \in Nat /\ Len(b.data) \in Nat
         /\ b.r <= b.w /\ b.w <= Len(b.data)
         /\ \A i \in 1 .. Len(b.data) : b.data[i] \in Bytes
         /\ readable(b) \in Nat /\ writable(b) \in Nat
BY DEF BufferOK, readable, writable

\* The readable bytes, one by one.
LEMMA View ==
  ASSUME NEW b, BufferOK(b)
  PROVE  /\ readable_view(b) \in Seq(Bytes) /\ Len(readable_view(b)) = readable(b)
         /\ \A i \in 1 .. readable(b) : readable_view(b)[i] = b.data[b.r + i]
<1>1. /\ b.r \in Nat /\ b.w \in Nat /\ b.r <= b.w /\ b.w <= Len(b.data) /\ Len(b.data) \in Nat
      /\ \A i \in 1 .. Len(b.data) : b.data[i] \in Bytes
  BY BufferTypes
<1>2. \A i \in b.r + 1 .. b.w : b.data[i] \in Bytes
  BY <1>1
<1>3. b.r + 1 \in Int /\ b.w \in Int
  BY <1>1
<1>4. /\ SubSeq(b.data, b.r + 1, b.w) \in Seq(Bytes)
      /\ Len(SubSeq(b.data, b.r + 1, b.w)) = IF b.r + 1 <= b.w THEN b.w - (b.r + 1) + 1 ELSE 0
      /\ \A i \in 1 .. b.w - (b.r + 1) + 1 : SubSeq(b.data, b.r + 1, b.w)[i] = b.data[b.r + 1 + i - 1]
  BY <1>2, <1>3, SubSeqProperties
<1>5. b.w - (b.r + 1) + 1 = readable(b) /\ \A i \in Nat : b.r + 1 + i - 1 = b.r + i
  BY <1>1 DEF readable
<1>6. Len(readable_view(b)) = readable(b)
  BY <1>1, <1>4 DEF readable_view, readable
<1>7. ASSUME NEW i \in 1 .. readable(b) PROVE readable_view(b)[i] = b.data[b.r + i]
  <2>1. i \in 1 .. b.w - (b.r + 1) + 1 /\ i \in Nat
    BY <1>1, <1>5 DEF readable
  <2>2. SubSeq(b.data, b.r + 1, b.w)[i] = b.data[b.r + 1 + i - 1]
    BY <1>4, <2>1
  <2> QED BY <1>5, <2>1, <2>2 DEF readable_view
<1> QED BY <1>4, <1>6, <1>7 DEF readable_view


\* The readable bytes are known by their number and their places.
LEMMA ViewIs ==
  ASSUME NEW b, BufferOK(b), NEW s \in Seq(Bytes), Len(s) = readable(b),
         \A i \in 1 .. readable(b) : s[i] = b.data[b.r + i]
  PROVE  readable_view(b) = s
<1>1. /\ readable_view(b) \in Seq(Bytes) /\ Len(readable_view(b)) = readable(b)
      /\ \A i \in 1 .. readable(b) : readable_view(b)[i] = b.data[b.r + i]
  BY View
<1>2. \A i \in 1 .. Len(readable_view(b)) : readable_view(b)[i] = s[i]
  BY <1>1
<1> QED BY <1>1, <1>2, SeqEqual

\* The rest of a sequence after its first k elements.
Rest(s, k) == SubSeq(s, k + 1, Len(s))

LEMMA RestOf ==
  ASSUME NEW S, NEW s \in Seq(S), NEW k \in 0 .. Len(s)
  PROVE  /\ Rest(s, k) \in Seq(S) /\ Len(Rest(s, k)) = Len(s) - k
         /\ \A i \in 1 .. Len(s) - k : Rest(s, k)[i] = s[k + i]
<1>1. Len(s) \in Nat /\ k \in Nat /\ k <= Len(s) /\ \A i \in 1 .. Len(s) : s[i] \in S
  BY ElementOfSeq, LenProperties
<1>2. k + 1 \in Int /\ Len(s) \in Int /\ \A i \in k + 1 .. Len(s) : s[i] \in S
  BY <1>1
<1>3. /\ SubSeq(s, k + 1, Len(s)) \in Seq(S)
      /\ Len(SubSeq(s, k + 1, Len(s))) = IF k + 1 <= Len(s) THEN Len(s) - (k + 1) + 1 ELSE 0
      /\ \A i \in 1 .. Len(s) - (k + 1) + 1 : SubSeq(s, k + 1, Len(s))[i] = s[k + 1 + i - 1]
  BY <1>2, SubSeqProperties
<1>4. Len(s) - (k + 1) + 1 = Len(s) - k /\ \A i \in Nat : k + 1 + i - 1 = k + i
  BY <1>1
<1>5. ASSUME NEW i \in 1 .. Len(s) - k PROVE Rest(s, k)[i] = s[k + i]
  <2>1. i \in 1 .. Len(s) - (k + 1) + 1 /\ i \in Nat
    BY <1>1, <1>4
  <2>2. SubSeq(s, k + 1, Len(s))[i] = s[k + 1 + i - 1]
    BY <1>3, <2>1
  <2> QED BY <1>4, <2>1, <2>2 DEF Rest
<1>6. Len(Rest(s, k)) = Len(s) - k
  BY <1>1, <1>3 DEF Rest
<1> QED BY <1>3, <1>5, <1>6 DEF Rest

\* has_read drops the first bytes, also where it resets the indices.
LEMMA HasRead ==
  ASSUME NEW b, BufferOK(b), NEW k \in 0 .. readable(b)
  PROVE  /\ BufferOK(has_read(b, k))
         /\ readable(has_read(b, k)) = readable(b) - k
         /\ readable_view(has_read(b, k)) = Rest(readable_view(b), k)
         /\ \A G : HeldBy(b, G) => HeldBy(has_read(b, k), IF readable(b) > k THEN G ELSE {})
<1> DEFINE c == has_read(b, k)
<1>1. /\ b.data \in Seq(Bytes) /\ b.r \in Nat /\ b.w \in Nat /\ Len(b.data) \in Nat
      /\ b.r <= b.w /\ b.w <= Len(b.data) /\ readable(b) = b.w - b.r
  BY BufferTypes DEF readable
<1>2. /\ c \in [data : Seq(Bytes), r : Nat, w : Nat] /\ c.data = b.data
      /\ c.r = IF k = readable(b) THEN 0 ELSE b.r + k
      /\ c.w = IF k = readable(b) THEN 0 ELSE b.w
  <2>1. CASE k = readable(b)
    <3>1. c = [[b EXCEPT !.r = 0] EXCEPT !.w = 0]
      BY <2>1, Zenon DEF has_read, clear
    <3>2. PICK d : d = [b EXCEPT !.r = 0]
      OBVIOUS
    <3>3. d \in [data : Seq(Bytes), r : Nat, w : Nat] /\ d.data = b.data /\ d.r = 0
      BY <3>2 DEF BufferOK
    <3>4. c = [d EXCEPT !.w = 0]
      BY <3>1, <3>2, Zenon
    <3> QED BY <2>1, <3>3, <3>4
  <2>2. CASE k # readable(b)
    <3>1. c = [b EXCEPT !.r = b.r + k]
      BY <2>2, Zenon DEF has_read
    <3> QED BY <1>1, <2>2, <3>1 DEF BufferOK
  <2> QED BY <2>1, <2>2
<1> HIDE DEF c
<1>3. BufferOK(c) /\ readable(c) = readable(b) - k
  BY <1>1, <1>2 DEF BufferOK, readable
<1>4. /\ readable_view(b) \in Seq(Bytes) /\ Len(readable_view(b)) = readable(b)
      /\ \A i \in 1 .. readable(b) : readable_view(b)[i] = b.data[b.r + i]
  BY View
<1>5. /\ Rest(readable_view(b), k) \in Seq(Bytes) /\ Len(Rest(readable_view(b), k)) = readable(b) - k
      /\ \A i \in 1 .. readable(b) - k : Rest(readable_view(b), k)[i] = readable_view(b)[k + i]
  <2>1. PICK v \in Seq(Bytes) : v = readable_view(b)
    BY <1>4
  <2>2. Len(v) = readable(b) /\ k \in 0 .. Len(v)
    BY <1>4, <2>1
  <2>3. /\ Rest(v, k) \in Seq(Bytes) /\ Len(Rest(v, k)) = Len(v) - k
        /\ \A i \in 1 .. Len(v) - k : Rest(v, k)[i] = v[k + i]
    BY <2>2, RestOf
  <2> QED BY <2>1, <2>2, <2>3
<1>6. ASSUME NEW i \in 1 .. readable(b) - k PROVE Rest(readable_view(b), k)[i] = c.data[c.r + i]
  <2>1. k # readable(b) /\ k + i \in 1 .. readable(b) /\ b.r + (k + i) = (b.r + k) + i
    BY <1>1
  <2> QED BY <1>2, <1>4, <1>5, <2>1
<1>7. readable_view(c) = Rest(readable_view(b), k)
  BY <1>3, <1>5, <1>6, ViewIs
<1>8. ASSUME NEW G, HeldBy(b, G) PROVE HeldBy(c, IF readable(b) > k THEN G ELSE {})
  <2>1. CASE k = readable(b)
    BY <1>1, <1>2, <2>1 DEF HeldBy
  <2>2. CASE k # readable(b)
    <3>1. readable(b) > k /\ c.w = b.w /\ c.data = b.data
      BY <1>1, <1>2, <2>2
    <3> QED BY <1>8, <3>1 DEF HeldBy
  <2> QED BY <2>1, <2>2
<1> QED BY <1>3, <1>7, <1>8 DEF c

\* Bytes stored at back() are not readable before has_written, and are then the
\* last ones.
LEMMA Stored ==
  ASSUME NEW b, BufferOK(b), NEW s \in Seq(Bytes), Len(s) <= writable(b)
  PROVE  /\ BufferOK(Store(b, s)) /\ writable(Store(b, s)) = writable(b)
         /\ readable(Store(b, s)) = readable(b)
         /\ readable_view(Store(b, s)) = readable_view(b)
         /\ BufferOK(push_bytes(b, s))
         /\ readable(push_bytes(b, s)) = readable(b) + Len(s)
         /\ readable_view(push_bytes(b, s)) = readable_view(b) \o s
         /\ \A G : HeldBy(b, G) => /\ HeldBy(Store(b, s), G)
                                  /\ HeldBy(push_bytes(b, s), G \cup {s[i] : i \in DOMAIN s})
<1> DEFINE d == [i \in DOMAIN b.data |-> IF i \in (b.w + 1)..(b.w + Len(s)) THEN s[i - b.w] ELSE b.data[i]]
           c == Store(b, s)
           e == push_bytes(b, s)
<1>1. /\ b.data \in Seq(Bytes) /\ b.r \in Nat /\ b.w \in Nat /\ Len(b.data) \in Nat
      /\ b.r <= b.w /\ b.w <= Len(b.data) /\ readable(b) = b.w - b.r
      /\ DOMAIN b.data = 1 .. Len(b.data) /\ \A i \in 1 .. Len(b.data) : b.data[i] \in Bytes
      /\ readable(b) \in Nat
  BY BufferTypes DEF readable
<1>2. /\ Len(s) \in Nat /\ \A i \in 1 .. Len(s) : s[i] \in Bytes
      /\ Len(s) <= Len(b.data) - b.w
  BY DEF writable
<1>3. d \in Seq(Bytes) /\ Len(d) = Len(b.data)
  <2>1. ASSUME NEW i \in 1 .. Len(b.data) PROVE d[i] \in Bytes
    <3>1. CASE i \in (b.w + 1)..(b.w + Len(s))
      <4>1. i - b.w \in 1 .. Len(s)
        BY <1>1, <1>2, <3>1
      <4> QED BY <1>1, <1>2, <3>1, <4>1
    <3>2. CASE i \notin (b.w + 1)..(b.w + Len(s))
      BY <1>1, <3>2
    <3> QED BY <3>1, <3>2
  <2>2. d \in [1 .. Len(b.data) -> Bytes]
    BY <1>1, <2>1
  <2> QED BY <1>1, <2>2
<1>4. c \in [data : Seq(Bytes), r : Nat, w : Nat] /\ c.data = d /\ c.r = b.r /\ c.w = b.w
  <2>1. c = [b EXCEPT !.data = d]
    BY DEF Store
  <2> HIDE DEF c, d
  <2> QED BY <2>1, <1>3 DEF BufferOK
<1>5. e \in [data : Seq(Bytes), r : Nat, w : Nat] /\ e.data = d /\ e.r = b.r /\ e.w = b.w + Len(s)
  <2>1. e = [c EXCEPT !.w = c.w + Len(s)]
    BY DEF push_bytes, has_written
  <2> HIDE DEF c, d, e
  <2> QED BY <1>1, <1>2, <1>4, <2>1, SMTT(60)
<1> HIDE DEF c, e
<1>6. /\ \A i \in 1 .. b.w : d[i] = b.data[i]
      /\ \A i \in 1 .. Len(s) : d[b.w + i] = s[i]
  <2>1. ASSUME NEW i \in 1 .. b.w PROVE d[i] = b.data[i]
    <3>1. i \in 1 .. Len(b.data) /\ i \notin (b.w + 1)..(b.w + Len(s))
      BY <1>1, <1>2
    <3> QED BY <1>1, <3>1
  <2>2. ASSUME NEW i \in 1 .. Len(s) PROVE d[b.w + i] = s[i]
    <3>1. b.w + i \in 1 .. Len(b.data) /\ b.w + i \in (b.w + 1)..(b.w + Len(s)) /\ (b.w + i) - b.w = i
      BY <1>1, <1>2
    <3> QED BY <1>1, <3>1
  <2> QED BY <2>1, <2>2
<1> HIDE DEF d
<1>7. BufferOK(c) /\ writable(c) = writable(b) /\ readable(c) = readable(b)
  BY <1>1, <1>3, <1>4 DEF BufferOK, readable, writable
<1>8. BufferOK(e) /\ readable(e) = readable(b) + Len(s)
  BY <1>1, <1>2, <1>3, <1>5 DEF BufferOK, readable
<1>9. /\ readable_view(b) \in Seq(Bytes) /\ Len(readable_view(b)) = readable(b)
      /\ \A i \in 1 .. readable(b) : readable_view(b)[i] = b.data[b.r + i]
  BY View
<1>10. ASSUME NEW i \in 1 .. readable(b) PROVE readable_view(b)[i] = d[b.r + i]
  <2>1. b.r + i \in 1 .. b.w
    BY <1>1
  <2> QED BY <1>6, <1>9, <2>1
<1>11. readable_view(c) = readable_view(b)
  BY <1>4, <1>7, <1>9, <1>10, ViewIs
<1>12. /\ readable_view(b) \o s \in Seq(Bytes)
       /\ Len(readable_view(b) \o s) = readable(b) + Len(s)
       /\ \A i \in 1 .. readable(b) + Len(s) :
            (readable_view(b) \o s)[i] = IF i <= readable(b) THEN readable_view(b)[i] ELSE s[i - readable(b)]
  <2>1. PICK v \in Seq(Bytes) : v = readable_view(b)
    BY <1>9
  <2>2. /\ v \o s \in Seq(Bytes)
        /\ Len(v \o s) = Len(v) + Len(s)
        /\ \A i \in 1 .. Len(v) + Len(s) : (v \o s)[i] = IF i <= Len(v) THEN v[i] ELSE s[i - Len(v)]
    BY ConcatProperties
  <2>3. Len(v) = readable(b)
    BY <1>9, <2>1
  <2> QED BY <2>1, <2>2, <2>3
<1>13. ASSUME NEW i \in 1 .. readable(b) + Len(s) PROVE (readable_view(b) \o s)[i] = d[b.r + i]
  <2>1. CASE i <= readable(b)
    <3>1. i \in 1 .. readable(b)
      BY <1>1, <2>1
    <3> QED BY <1>10, <1>12, <2>1, <3>1
  <2>2. CASE ~(i <= readable(b))
    <3>1. PICK j \in 1 .. Len(s) : j = i - readable(b)
      BY <1>1, <1>2, <2>2
    <3>2. b.r + i = b.w + j
      BY <1>1, <1>2, <3>1, SMTT(60)
    <3> QED BY <1>6, <1>12, <2>2, <3>1, <3>2
  <2> QED BY <2>1, <2>2
<1>14. readable_view(e) = readable_view(b) \o s
  BY <1>5, <1>8, <1>12, <1>13, ViewIs
<1>15. ASSUME NEW G, HeldBy(b, G) PROVE HeldBy(c, G) /\ HeldBy(e, G \cup {s[i] : i \in DOMAIN s})
  <2>1. HeldBy(c, G)
    BY <1>4, <1>6, <1>15 DEF HeldBy
  <2>2. ASSUME NEW i \in 1 .. e.w PROVE e.data[i] \in G \cup {s[j] : j \in DOMAIN s}
    <3>1. CASE i <= b.w
      <4>1. i \in 1 .. b.w
        BY <1>1, <1>2, <1>5, <3>1
      <4> QED BY <1>5, <1>6, <1>15, <4>1 DEF HeldBy
    <3>2. CASE ~(i <= b.w)
      <4>1. PICK j \in 1 .. Len(s) : i = b.w + j
        <5>1. i - b.w \in 1 .. Len(s) /\ i = b.w + (i - b.w)
          BY <1>1, <1>2, <1>5, <3>2
        <5> QED BY <5>1
      <4>2. DOMAIN s = 1 .. Len(s)
        BY LenProperties
      <4> QED BY <1>5, <1>6, <4>1, <4>2
    <3> QED BY <3>1, <3>2
  <2> QED BY <2>1, <2>2 DEF HeldBy
<1> QED BY <1>7, <1>8, <1>11, <1>14, <1>15 DEF c, e

\* The first part of make_room keeps the number of readable bytes, and which they
\* are unless it rewinds over unread ones.
LEMMA Rewound ==
  ASSUME NEW b, BufferOK(b)
  PROVE  /\ BufferOK(Rewind(b)) /\ readable(Rewind(b)) = readable(b)
         /\ ~Clobbers(b) => readable_view(Rewind(b)) = readable_view(b)
         /\ \A G : HeldBy(b, G) => HeldBy(Rewind(b), G)
<1> DEFINE c == Rewind(b)
<1>1. /\ b.data \in Seq(Bytes) /\ b.r \in Nat /\ b.w \in Nat /\ Len(b.data) \in Nat
      /\ b.r <= b.w /\ b.w <= Len(b.data) /\ readable(b) = b.w - b.r /\ readable(b) \in Nat
  BY BufferTypes DEF readable
<1>2. CASE ~(b.r > 0)
  <2>1. c = b
    BY <1>2 DEF Rewind
  <2> QED BY <2>1
<1>3. CASE b.r > 0
  <2>1. PICK d : d = [b EXCEPT !.r = 0]
    OBVIOUS
  <2>2. /\ d \in [data : Seq(Bytes), r : Nat, w : Nat] /\ d.data = b.data /\ d.r = 0
    BY <2>1 DEF BufferOK
  <2>3. c = [d EXCEPT !.w = readable(b)]
    BY <1>3, <2>1, Zenon DEF Rewind
  <2>4. c \in [data : Seq(Bytes), r : Nat, w : Nat] /\ c.data = b.data /\ c.r = 0 /\ c.w = readable(b)
    BY <1>1, <2>2, <2>3
  <2>5. BufferOK(c) /\ readable(c) = readable(b)
    BY <1>1, <2>4 DEF BufferOK, readable
  <2>6. ASSUME ~Clobbers(b) PROVE readable_view(c) = readable_view(b)
    <3>1. readable(b) = 0
      BY <1>1, <1>3, <2>6 DEF Clobbers
    <3>2. readable_view(b) \in Seq(Bytes) /\ Len(readable_view(b)) = 0
      BY <3>1, View
    <3>3. readable(c) = 0 /\ \A i \in 1 .. readable(c) : readable_view(b)[i] = c.data[c.r + i]
      BY <2>5, <3>1
    <3> QED BY <2>5, <3>2, <3>3, ViewIs
  <2>7. ASSUME NEW G, HeldBy(b, G) PROVE HeldBy(c, G)
    <3>1. \A i \in 1 .. readable(b) : i \in 1 .. b.w
      BY <1>1
    <3> QED BY <2>4, <2>7, <3>1 DEF HeldBy
  <2> QED BY <2>5, <2>6, <2>7
<1> QED BY <1>2, <1>3

\* flex_buffer::make_room makes the room, and otherwise does the same.
LEMMA FlexRoom ==
  ASSUME NEW b, BufferOK(b), NEW want \in Nat
  PROVE  /\ BufferOK(flex_make_room(b, want)) /\ readable(flex_make_room(b, want)) = readable(b)
         /\ writable(flex_make_room(b, want)) >= want
         /\ ~Clobbers(b) => readable_view(flex_make_room(b, want)) = readable_view(b)
         /\ \A G : HeldBy(b, G) => HeldBy(flex_make_room(b, want), G)
<1> DEFINE f == flex_make_room(b, want)
<1>1. PICK c : c = Rewind(b)
  OBVIOUS
<1>2. /\ BufferOK(c) /\ readable(c) = readable(b)
      /\ ~Clobbers(b) => readable_view(c) = readable_view(b)
      /\ \A G : HeldBy(b, G) => HeldBy(c, G)
  BY <1>1, Rewound
<1>3. /\ c.data \in Seq(Bytes) /\ c.r \in Nat /\ c.w \in Nat /\ Len(c.data) \in Nat
      /\ c.r <= c.w /\ c.w <= Len(c.data) /\ readable(c) = c.w - c.r
      /\ writable(c) \in Nat /\ writable(c) = Len(c.data) - c.w
  BY <1>2, BufferTypes DEF readable, writable
<1>4. CASE writable(c) >= want
  <2>1. f = c
    BY <1>1, <1>4 DEF flex_make_room
  <2> QED BY <1>2, <1>4, <2>1
<1>5. CASE ~(writable(c) >= want)
  <2>1. PICK m \in Nat : m = want - writable(c)
    BY <1>3, <1>5
  <2>2. PICK z : z = [i \in 1 .. m |-> Zero]
    OBVIOUS
  <2>3. z \in Seq(Bytes) /\ Len(z) = m
    <3>1. z \in [1 .. m -> Bytes]
      BY <2>2 DEF Bytes
    <3> QED BY <3>1
  <2>4. /\ c.data \o z \in Seq(Bytes) /\ Len(c.data \o z) = Len(c.data) + m
        /\ \A i \in 1 .. Len(c.data) : (c.data \o z)[i] = c.data[i]
    <3>1. PICK s \in Seq(Bytes) : s = c.data
      BY <1>3
    <3>2. /\ s \o z \in Seq(Bytes) /\ Len(s \o z) = Len(s) + Len(z)
          /\ \A i \in 1 .. Len(s) + Len(z) : (s \o z)[i] = IF i <= Len(s) THEN s[i] ELSE z[i - Len(s)]
      BY <2>3, ConcatProperties
    <3>3. \A i \in 1 .. Len(s) : i \in 1 .. Len(s) + Len(z) /\ i <= Len(s)
      BY <1>3, <2>3, <3>1
    <3> QED BY <2>3, <3>1, <3>2, <3>3
  <2>5. f = [c EXCEPT !.data = c.data \o z]
    BY <1>1, <1>5, <2>1, <2>2 DEF flex_make_room
  <2>6. f \in [data : Seq(Bytes), r : Nat, w : Nat] /\ f.data = c.data \o z /\ f.r = c.r /\ f.w = c.w
    <3> HIDE DEF f
    <3> QED BY <1>2, <2>4, <2>5 DEF BufferOK
  <2> HIDE DEF f
  <2>7. BufferOK(f) /\ readable(f) = readable(c) /\ writable(f) = writable(c) + m
    <3>1. PICK x \in Seq(Bytes) : x = c.data \o z
      BY <2>4
    <3>2. /\ f \in [data : Seq(Bytes), r : Nat, w : Nat] /\ f.r = c.r /\ f.w = c.w
          /\ f.data = x /\ Len(x) = Len(c.data) + m
      BY <2>4, <2>6, <3>1
    <3>3. BufferOK(f)
      BY <1>3, <3>2 DEF BufferOK
    <3>4. readable(f) = readable(c)
      BY <2>6 DEF readable
    <3>5. writable(f) = writable(c) + m
      BY <1>3, <3>2 DEF writable
    <3> QED BY <3>3, <3>4, <3>5
  <2>8. writable(f) >= want
    BY <1>3, <2>1, <2>7
  <2>9. readable_view(f) = readable_view(c)
    <3>1. /\ readable_view(c) \in Seq(Bytes) /\ Len(readable_view(c)) = readable(f)
          /\ \A i \in 1 .. readable(f) : readable_view(c)[i] = c.data[c.r + i]
      BY <1>2, <2>7, View
    <3>2. \A i \in 1 .. readable(f) : c.r + i \in 1 .. Len(c.data)
      BY <1>3, <2>7
    <3>3. \A i \in 1 .. readable(f) : readable_view(c)[i] = f.data[f.r + i]
      BY <2>4, <2>6, <3>1, <3>2
    <3> QED BY <2>7, <3>1, <3>3, ViewIs
  <2>10. ASSUME NEW G, HeldBy(b, G) PROVE HeldBy(f, G)
    <3>1. HeldBy(c, G) /\ \A i \in 1 .. c.w : i \in 1 .. Len(c.data)
      BY <1>2, <1>3, <2>10
    <3> QED BY <2>4, <2>6, <3>1 DEF HeldBy
  <2> QED BY <1>2, <2>7, <2>8, <2>9, <2>10 DEF f
<1> QED BY <1>4, <1>5

-----------------------------------------------------------------------------
(* std::search for the end of a line.                                      *)

\* The least-number principle, for sets.
LEMMA LeastNumber ==
  ASSUME NEW P \in SUBSET Nat, P # {}
  PROVE  \E x \in P : \A y \in P : ~(y < x)
<1>1. PICK x \in P : \A y \in P : ~(<<y, x>> \in OpToRel(<, Nat))
  BY NatLessThanWellFounded, WFMin
<1>2. OpToRel(<, Nat) = {ss \in Nat \X Nat : ss[1] < ss[2]}
  BY DEF OpToRel
<1>3. \A y \in P : <<y, x>> \in Nat \X Nat /\ ~(y < x)
  BY <1>1, <1>2
<1> QED BY <1>3

\* Search returns 0 or the first of the places.
LEMMA SearchFinds ==
  ASSUME NEW t, NEW pat, NEW P \in SUBSET (Nat \ {0}),
         P = {i \in 1..(Len(t) - Len(pat) + 1) : SubSeq(t, i, i + Len(pat) - 1) = pat}
  PROVE  \/ Search(t, pat) = 0
         \/ Search(t, pat) \in P /\ \A j \in P : Search(t, pat) <= j
<1>1. CASE P = {}
  BY <1>1 DEF Search
<1>2. CASE P # {}
  <2>1. PICK x \in P : \A y \in P : ~(y < x)
    BY <1>2, LeastNumber
  <2>2. \A y \in P : x <= y
    BY <2>1
  <2>3. Search(t, pat) = CHOOSE i \in P : \A j \in P : i <= j
    BY <1>2 DEF Search
  <2> QED BY <2>2, <2>3
<1> QED BY <1>1, <1>2

KindSet == {"c", "cr", "lf"}

\* The kinds of the readable bytes.
LEMMA TextOf ==
  ASSUME NEW b, BufferOK(b)
  PROVE  Text(b) \in Seq(KindSet) /\ Len(Text(b)) = readable(b)
<1>1. readable(b) \in Nat
  BY BufferTypes
<1>2. ASSUME NEW x PROVE KindOf(x) \in KindSet
  BY StreamAssumption DEF KindOf, KindSet
<1>3. Text(b) \in [1 .. readable(b) -> KindSet]
  BY <1>2 DEF Text
<1> QED BY <1>1, <1>3

\* The text depends on the readable bytes alone.
LEMMA SameText ==
  ASSUME NEW b, NEW c, readable(b) = readable(c), readable_view(b) = readable_view(c)
  PROVE  Text(b) = Text(c)
BY DEF Text

\* find_eol finds the first LF.
LEMMA FindEol ==
  ASSUME NEW b, BufferOK(b), NEW n, n = find_eol(b)
  PROVE  /\ n \in Nat
         /\ n # 0 => /\ n \in 1 .. readable(b) /\ Text(b)[n] = "lf"
                     /\ \A i \in 1 .. n - 1 : Text(b)[i] # "lf"
<1>1. PICK t \in Seq(KindSet) : t = Text(b)
  BY TextOf
<1>2. Len(t) = readable(b) /\ Len(t) \in Nat
  BY <1>1, TextOf
<1>3. PICK P : P = {i \in 1 .. (Len(t) - Len(<<"lf">>) + 1) : SubSeq(t, i, i + Len(<<"lf">>) - 1) = <<"lf">>}
  OBVIOUS
<1>4. P = {i \in 1 .. Len(t) : t[i] = "lf"}
  <2>1. ASSUME NEW i \in 1 .. Len(t)
        PROVE  SubSeq(t, i, i + Len(<<"lf">>) - 1) = <<"lf">> <=> t[i] = "lf"
    <3>1. i + Len(<<"lf">>) - 1 = i /\ i \in Int
      BY <1>2
    <3>2. SubSeq(t, i, i) = <<t[i]>>
      <4>1. \A j \in i .. i : t[j] \in KindSet
        BY <1>2
      <4>2. /\ SubSeq(t, i, i) \in Seq(KindSet) /\ Len(SubSeq(t, i, i)) = 1
            /\ \A j \in 1 .. i - i + 1 : SubSeq(t, i, i)[j] = t[i + j - 1]
        BY <3>1, <4>1, SubSeqProperties
      <4>3. SubSeq(t, i, i)[1] = t[i]
        BY <3>1, <4>2
      <4>4. <<t[i]>> \in Seq(KindSet) /\ Len(<<t[i]>>) = 1 /\ <<t[i]>>[1] = t[i]
        BY <4>1, <3>1
      <4>5. PICK u \in Seq(KindSet), v \in Seq(KindSet) : u = SubSeq(t, i, i) /\ v = <<t[i]>>
        BY <4>2, <4>4
      <4>6. Len(u) = 1 /\ Len(v) = 1 /\ u[1] = v[1]
        BY <4>2, <4>3, <4>4, <4>5, Zenon
      <4>7. \A j \in 1 .. Len(u) : u[j] = v[j]
        BY <4>6
      <4> QED BY <4>5, <4>6, <4>7, SeqEqual
    <3> QED BY <3>1, <3>2
  <2>2. Len(t) - Len(<<"lf">>) + 1 = Len(t)
    BY <1>2
  <2> QED BY <1>3, <2>1, <2>2
<1>5. P \in SUBSET (Nat \ {0})
  BY <1>2, <1>4
<1>6. n = Search(t, <<"lf">>)
  BY <1>1 DEF find_eol
<1>7. n = 0 \/ (n \in P /\ \A j \in P : n <= j)
  <2>1. PICK pat : pat = <<"lf">>
    OBVIOUS
  <2>2. P = {i \in 1 .. (Len(t) - Len(pat) + 1) : SubSeq(t, i, i + Len(pat) - 1) = pat}
    BY <1>3, <2>1, Zenon
  <2>3. Search(t, pat) = 0 \/ (Search(t, pat) \in P /\ \A j \in P : Search(t, pat) <= j)
    BY <1>5, <2>2, SearchFinds
  <2> QED BY <1>6, <2>1, <2>3, Zenon
<1>8. ASSUME n \in P, \A j \in P : n <= j, NEW i \in 1 .. n - 1 PROVE t[i] # "lf"
  BY <1>2, <1>4, <1>5, <1>8
<1> QED BY <1>1, <1>2, <1>4, <1>7, <1>8

\* find_crlf finds the first CR that an LF follows.
LEMMA FindCrlf ==
  ASSUME NEW b, BufferOK(b), NEW n, n = find_crlf(b)
  PROVE  /\ n \in Nat
         /\ n # 0 => /\ n \in 1 .. readable(b) - 1
                     /\ Text(b)[n] = "cr" /\ Text(b)[n + 1] = "lf"
                     /\ \A i \in 1 .. n - 1 : ~(Text(b)[i] = "cr" /\ Text(b)[i + 1] = "lf")
<1>1. PICK t \in Seq(KindSet) : t = Text(b)
  BY TextOf
<1>2. Len(t) = readable(b) /\ Len(t) \in Nat
  BY <1>1, TextOf
<1>3. PICK P : P = {i \in 1 .. (Len(t) - Len(<<"cr", "lf">>) + 1) :
                      SubSeq(t, i, i + Len(<<"cr", "lf">>) - 1) = <<"cr", "lf">>}
  OBVIOUS
<1>4. ASSUME NEW i \in P
      PROVE  i \in 1 .. Len(t) - 1 /\ t[i] = "cr" /\ t[i + 1] = "lf"
  <2>1. i \in 1 .. Len(t) - 1 /\ i + Len(<<"cr", "lf">>) - 1 = i + 1
    BY <1>2, <1>3
  <2>2. SubSeq(t, i, i + 1) = <<"cr", "lf">>
    BY <1>3, <2>1
  <2>3. \A j \in i .. i + 1 : t[j] \in KindSet
    BY <1>2, <2>1
  <2>4. \A j \in 1 .. (i + 1) - i + 1 : SubSeq(t, i, i + 1)[j] = t[i + j - 1]
    BY <2>1, <2>3, SubSeqProperties
  <2>5. SubSeq(t, i, i + 1)[1] = t[i] /\ SubSeq(t, i, i + 1)[2] = t[i + 1]
    <3>1. 1 \in 1 .. (i + 1) - i + 1 /\ 2 \in 1 .. (i + 1) - i + 1 /\ i + 1 - 1 = i /\ i + 2 - 1 = i + 1
      BY <2>1
    <3> QED BY <2>4, <3>1
  <2>6. <<"cr", "lf">>[1] = "cr" /\ <<"cr", "lf">>[2] = "lf"
    OBVIOUS
  <2> QED BY <2>1, <2>2, <2>5, <2>6
<1>5. P \in SUBSET (Nat \ {0})
  BY <1>2, <1>4
<1>6. n = Search(t, <<"cr", "lf">>)
  BY <1>1 DEF find_crlf
<1>7. n = 0 \/ (n \in P /\ \A j \in P : n <= j)
  <2>1. PICK pat : pat = <<"cr", "lf">>
    OBVIOUS
  <2>2. P = {i \in 1 .. (Len(t) - Len(pat) + 1) : SubSeq(t, i, i + Len(pat) - 1) = pat}
    BY <1>3, <2>1, Zenon
  <2>3. Search(t, pat) = 0 \/ (Search(t, pat) \in P /\ \A j \in P : Search(t, pat) <= j)
    BY <1>5, <2>2, SearchFinds
  <2> QED BY <1>6, <2>1, <2>3, Zenon
<1>8. CASE n = 0
  BY <1>8
<1>9. ASSUME NEW i \in 1 .. Len(t) - 1, t[i] = "cr", t[i + 1] = "lf" PROVE i \in P
  <2>1. i \in Int /\ i + 1 \in Int /\ \A j \in i .. i + 1 : t[j] \in KindSet
    BY <1>2
  <2>2. /\ SubSeq(t, i, i + 1) \in Seq(KindSet)
        /\ Len(SubSeq(t, i, i + 1)) = IF i <= i + 1 THEN (i + 1) - i + 1 ELSE 0
        /\ \A j \in 1 .. (i + 1) - i + 1 : SubSeq(t, i, i + 1)[j] = t[i + j - 1]
    BY <2>1, SubSeqProperties
  <2>3. PICK u \in Seq(KindSet) : u = SubSeq(t, i, i + 1)
    BY <2>2
  <2>4. Len(u) = 2 /\ u[1] = "cr" /\ u[2] = "lf"
    <3>1. 1 \in 1 .. (i + 1) - i + 1 /\ 2 \in 1 .. (i + 1) - i + 1 /\ i + 1 - 1 = i /\ i + 2 - 1 = i + 1
      BY <2>1
    <3>2. u[1] = t[i] /\ u[2] = t[i + 1]
      BY <2>2, <2>3, <3>1
    <3>3. Len(u) = 2
      BY <2>1, <2>2, <2>3
    <3> QED BY <1>9, <3>2, <3>3
  <2>5. PICK v \in Seq(KindSet) : v = <<"cr", "lf">> /\ Len(v) = 2 /\ v[1] = "cr" /\ v[2] = "lf"
    <3>1. <<"cr", "lf">> \in Seq(KindSet)
      <4>1. "cr" \in KindSet /\ "lf" \in KindSet
        BY DEF KindSet
      <4> QED BY <4>1
    <3>2. Len(<<"cr", "lf">>) = 2 /\ <<"cr", "lf">>[1] = "cr" /\ <<"cr", "lf">>[2] = "lf"
      OBVIOUS
    <3> QED BY <3>1, <3>2, Zenon
  <2>6. \A j \in 1 .. Len(u) : u[j] = v[j]
    BY <2>4, <2>5
  <2>7. u = v
    BY <2>4, <2>5, <2>6, SeqEqual
  <2>8. i \in 1 .. (Len(t) - Len(<<"cr", "lf">>) + 1) /\ i + Len(<<"cr", "lf">>) - 1 = i + 1
    BY <1>2
  <2> QED BY <1>3, <2>3, <2>5, <2>7, <2>8
<1>10. CASE n \in P /\ \A j \in P : n <= j
  <2>1. n \in 1 .. Len(t) - 1 /\ t[n] = "cr" /\ t[n + 1] = "lf"
    BY <1>4, <1>10
  <2>2. ASSUME NEW i \in 1 .. n - 1 PROVE ~(t[i] = "cr" /\ t[i + 1] = "lf")
    <3>1. i \in 1 .. Len(t) - 1 /\ ~(n <= i)
      BY <1>2, <2>1
    <3> QED BY <1>9, <1>10, <3>1
  <2> QED BY <1>1, <1>2, <2>1, <2>2
<1> QED BY <1>7, <1>8, <1>10

-----------------------------------------------------------------------------
(* The invariant of the calls.                                             *)

Rets == {"ok", "eof", "error", "cancelled", "throw", "abort"}
CallSet == [op : Ops, timed : BOOLEAN, n : Nat, total : Int,
            had : Seq(Bytes), got : Nat, sent : Seq(Bytes)]
ResultSet == [op : Ops, timed : BOOLEAN, n : Nat, ret : Rets, val : Nat,
              had : Seq(Bytes), got : Nat, sent : Seq(Bytes)]

TypeInv ==
  /\ kind \in Kinds /\ BufferOK(buf) /\ call \in CallSet /\ result \in ResultSet
  /\ calls \in Nat /\ clobbered \in BOOLEAN /\ closed \in BOOLEAN

PeerInv ==
  /\ arrived \in 0 .. Len(PeerBytes) /\ received \in 0 .. arrived
  /\ closed => arrived = Len(PeerBytes)

\* The history is as long as the buffer also while its bytes are lost.
FifoInv ==
  /\ fifo \in Seq(Bytes) /\ Len(fifo) = readable(buf)
  /\ HeldBy(buf, given)
  /\ ~clobbered => readable_view(buf) = fifo

LineReaders == {"read_certain", "read_line", "read_crlf_line"}

\* HasEnough of a buffer.
EnoughIn(b, op, n) ==
  CASE op = "read_certain" -> readable(b) >= n
    [] op = "read_line" -> find_eol(b) # 0
    [] op = "read_crlf_line" -> find_crlf(b) # 0

\* What a suspended call relies on when its recv or send completes.  A reader that
\* wanted more than there was still wants it.
CallInv ==
  /\ call.op # "none" => call.op \in Readers \cup Writers /\ result = NoResult
  /\ call.op = "read_some" => writable(buf) > 0
  /\ call.op \in LineReaders => ~EnoughIn(buf, call.op, call.n)
  /\ call.op \in Writers => call.had = call.sent \o readable_view(buf)
  /\ call.op = "write_certain" => call.total = call.n - Len(call.sent)

IInv == TypeInv /\ PeerInv /\ FifoInv /\ CallInv /\ WriteDelivers /\ ReadersRight

LEMMA SameEnough ==
  ASSUME NEW b, NEW c, readable(b) = readable(c), readable_view(b) = readable_view(c), NEW op, NEW n
  PROVE  EnoughIn(b, op, n) = EnoughIn(c, op, n)
<1>1. find_eol(b) = find_eol(c) /\ find_crlf(b) = find_crlf(c)
  BY SameText DEF find_eol, find_crlf
<1> QED BY <1>1 DEF EnoughIn

LEMMA Enough ==
  ASSUME NEW op, NEW n
  PROVE  HasEnough(op, n) = EnoughIn(buf, op, n)
BY DEF HasEnough, EnoughIn

\* make_room of either class.
LEMMA MakeRoom ==
  ASSUME TypeInv, NEW want \in Nat
  PROVE  /\ BufferOK(make_room(want)) /\ readable(make_room(want)) = readable(buf)
         /\ ~Clobbers(buf) => readable_view(make_room(want)) = readable_view(buf)
         /\ ~RoomThrows(want) => writable(make_room(want)) >= want
         /\ \A G : HeldBy(buf, G) => HeldBy(make_room(want), G)
<1>1. BufferOK(buf) /\ (kind = "flex" \/ kind = "fixed")
  BY StreamAssumption DEF TypeInv
<1>2. CASE kind = "flex"
  <2>1. make_room(want) = flex_make_room(buf, want)
    BY <1>2 DEF make_room
  <2> QED BY <1>1, <2>1, FlexRoom
<1>3. CASE kind = "fixed"
  <2>1. make_room(want) = Rewind(buf)
    BY <1>3 DEF make_room, fixed_make_room
  <2>2. ~RoomThrows(want) => writable(Rewind(buf)) >= want
    BY <1>3 DEF RoomThrows, FixedHasRoom
  <2> QED BY <1>1, <2>1, <2>2, Rewound
<1> QED BY <1>1, <1>2, <1>3

\* A new call, and the end of one.
LEMMA CallFields ==
  ASSUME TypeInv, NEW op \in Ops, NEW timed \in BOOLEAN, NEW n \in Nat, NEW c, c = NewCall(op, timed, n)
  PROVE  /\ c \in CallSet /\ c.op = op /\ c.timed = timed /\ c.n = n /\ c.total = n
         /\ c.had = readable_view(buf) /\ c.got = 0 /\ c.sent = <<>>
<1>1. readable_view(buf) \in Seq(Bytes) /\ <<>> \in Seq(Bytes)
  BY View, EmptySeq DEF TypeInv
<1>2. PICK v \in Seq(Bytes) : v = readable_view(buf)
  BY <1>1
<1>3. PICK e \in Seq(Bytes) : e = <<>>
  BY <1>1
<1>4. PICK i : i = [op |-> "none", timed |-> FALSE, n |-> 0, total |-> 0, had |-> e, got |-> 0, sent |-> e]
  OBVIOUS
<1>5. i \in CallSet /\ i.got = 0 /\ i.sent = e
  BY <1>4 DEF CallSet, Ops
<1>6. c = [i EXCEPT !.op = op, !.timed = timed, !.n = n, !.total = n, !.had = v]
  BY <1>2, <1>3, <1>4, Zenon DEF NewCall, Idle
<1>7. PICK i1 : i1 = [i EXCEPT !.op = op]
  OBVIOUS
<1>8. PICK i2 : i2 = [i1 EXCEPT !.timed = timed]
  OBVIOUS
<1>9. PICK i3 : i3 = [i2 EXCEPT !.n = n]
  OBVIOUS
<1>10. PICK i4 : i4 = [i3 EXCEPT !.total = n]
  OBVIOUS
<1>11. c = [i4 EXCEPT !.had = v]
  BY <1>6, <1>7, <1>8, <1>9, <1>10, Zenon
<1>12. i1 \in CallSet /\ i1.op = op /\ i1.got = 0 /\ i1.sent = e
  BY <1>5, <1>7 DEF CallSet
<1>13. i2 \in CallSet /\ i2.op = op /\ i2.timed = timed /\ i2.got = 0 /\ i2.sent = e
  BY <1>12, <1>8 DEF CallSet
<1>14. i3 \in CallSet /\ i3.op = op /\ i3.timed = timed /\ i3.n = n /\ i3.got = 0 /\ i3.sent = e
  BY <1>13, <1>9 DEF CallSet
<1>15. i4 \in CallSet /\ i4.op = op /\ i4.timed = timed /\ i4.n = n /\ i4.total = n /\ i4.got = 0 /\ i4.sent = e
  BY <1>14, <1>10, SMTT(60) DEF CallSet
<1>16. /\ c \in CallSet /\ c.op = op /\ c.timed = timed /\ c.n = n /\ c.total = n
       /\ c.had = v /\ c.got = 0 /\ c.sent = e
  BY <1>15, <1>11 DEF CallSet
<1> QED BY <1>2, <1>3, <1>16

LEMMA EndedFields ==
  ASSUME NEW c \in CallSet, NEW ret \in Rets, NEW val \in Nat, Ended(c, ret, val)
  PROVE  /\ call' \in CallSet /\ call'.op = "none"
         /\ result' \in ResultSet /\ result'.op = c.op /\ result'.timed = c.timed /\ result'.n = c.n
         /\ result'.ret = ret /\ result'.val = val /\ result'.had = c.had /\ result'.sent = c.sent
         /\ result'.got = c.got
<1>1. Idle \in CallSet /\ Idle.op = "none"
  <2>1. <<>> \in Seq(Bytes)
    BY EmptySeq
  <2> QED BY <2>1 DEF Idle, CallSet, Ops
<1>2. /\ c.op \in Ops /\ c.timed \in BOOLEAN /\ c.n \in Nat /\ c.had \in Seq(Bytes)
      /\ c.got \in Nat /\ c.sent \in Seq(Bytes)
  BY DEF CallSet
<1> QED BY <1>1, <1>2 DEF Ended, ResultSet

\* The other result.
LEMMA NoResultFields ==
  NoResult \in ResultSet /\ NoResult.op = "none"
<1>1. <<>> \in Seq(Bytes)
  BY EmptySeq
<1> QED BY <1>1 DEF NoResult, ResultSet, Ops, Rets

\* Results of which the properties say nothing.
LEMMA Quiet ==
  ASSUME \/ result'.op \notin {"write_all", "write_certain", "read_certain", "read_line", "read_crlf_line"}
         \/ result'.ret # "ok",
         result'.op # "read_some" \/ result'.ret # "eof"
  PROVE  WriteDelivers' /\ ReadersRight'
BY DEF WriteDelivers, ReadersRight

LEMMA Prefix ==
  ASSUME NEW S, NEW s \in Seq(S), NEW k \in 0 .. Len(s)
  PROVE  /\ SubSeq(s, 1, k) \in Seq(S) /\ Len(SubSeq(s, 1, k)) = k
         /\ s = SubSeq(s, 1, k) \o Rest(s, k)
<1>1. Len(s) \in Nat /\ k \in Nat /\ k <= Len(s) /\ \A i \in 1 .. Len(s) : s[i] \in S
  BY ElementOfSeq, LenProperties
<1>2. k \in Int /\ 1 \in Int /\ \A i \in 1 .. k : s[i] \in S
  BY <1>1
<1>3. SubSeq(s, 1, k) \in Seq(S) /\ Len(SubSeq(s, 1, k)) = IF 1 <= k THEN k - 1 + 1 ELSE 0
  BY <1>2, SubSeqProperties
<1>4. Len(SubSeq(s, 1, k)) = k
  BY <1>1, <1>3
<1>5. 1 \in 1 .. Len(s) + 1 /\ k \in 1 - 1 .. Len(s) /\ Len(s) \in k .. Len(s)
  BY <1>1
<1>6. SubSeq(s, 1, k) \o SubSeq(s, k + 1, Len(s)) = SubSeq(s, 1, Len(s))
  BY <1>5, ConcatAdjacentSubSeq
<1>7. SubSeq(s, 1, Len(s)) = s
  BY SubSeqFull
<1> QED BY <1>3, <1>4, <1>6, <1>7 DEF Rest

\* Two empty sequences.
LEMMA BothEmpty ==
  ASSUME NEW s \in Seq(Bytes), NEW t \in Seq(Bytes), Len(s) = 0, Len(t) = 0
  PROVE  s = t
BY EmptySeq

\* Taking bytes from the front keeps the history right, and a drained buffer has
\* lost nothing that is still expected.
LEMMA Taking ==
  ASSUME TypeInv, FifoInv, NEW k \in 0 .. readable(buf), buf' = has_read(buf, k), Took(buf, k)
  PROVE  FifoInv' /\ BufferOK(buf') /\ clobbered' \in BOOLEAN
<1>1. /\ BufferOK(buf) /\ fifo \in Seq(Bytes) /\ Len(fifo) = readable(buf)
      /\ readable(buf) \in Nat /\ k \in Nat /\ k <= readable(buf)
  BY BufferTypes DEF TypeInv, FifoInv
<1>2. /\ BufferOK(buf') /\ readable(buf') = readable(buf) - k
      /\ readable_view(buf') = Rest(readable_view(buf), k)
      /\ HeldBy(buf', IF readable(buf) > k THEN given ELSE {})
  BY <1>1, HasRead DEF FifoInv
<1>3. fifo' = Rest(fifo, k) /\ fifo' \in Seq(Bytes) /\ Len(fifo') = readable(buf) - k
  <2>1. k \in 0 .. Len(fifo)
    BY <1>1
  <2>2. Rest(fifo, k) \in Seq(Bytes) /\ Len(Rest(fifo, k)) = Len(fifo) - k
    BY <1>1, <2>1, RestOf
  <2> QED BY <1>1, <2>2 DEF Took, Rest
<1>4. readable_view(buf') \in Seq(Bytes) /\ Len(readable_view(buf')) = readable(buf) - k
  BY <1>2, View
<1>5. clobbered' = (clobbered /\ readable(buf) > k)
  BY DEF Took
<1>6. clobbered' \in BOOLEAN
  BY <1>5
<1>7. ASSUME ~clobbered' PROVE readable_view(buf') = fifo'
  <2>1. CASE ~clobbered
    BY <1>2, <1>3, <2>1 DEF FifoInv
  <2>2. CASE clobbered
    <3>1. ~(readable(buf) > k)
      BY <1>5, <1>7, <2>2
    <3>2. readable(buf) - k = 0
      BY <1>1, <3>1
    <3> QED BY <1>3, <1>4, <3>2, BothEmpty
  <2> QED BY <2>1, <2>2
<1>8. HeldBy(buf', given')
  BY <1>2 DEF Took
<1> QED BY <1>2, <1>3, <1>6, <1>7, <1>8 DEF FifoInv

\* Putting bytes at the back.
LEMMA Putting ==
  ASSUME FifoInv, NEW b, BufferOK(b), NEW s \in Seq(Bytes), Len(s) <= writable(b),
         readable(b) = readable(buf), ~clobbered' => ~clobbered /\ readable_view(b) = readable_view(buf),
         HeldBy(b, given), buf' = push_bytes(b, s), Gave(s)
  PROVE  FifoInv' /\ BufferOK(buf')
<1>1. /\ BufferOK(buf') /\ readable(buf') = readable(b) + Len(s)
      /\ readable_view(buf') = readable_view(b) \o s
      /\ HeldBy(buf', given \cup {s[i] : i \in DOMAIN s})
  BY Stored
<1>2. fifo \in Seq(Bytes) /\ Len(fifo) = readable(b)
  BY DEF FifoInv
<1>3. fifo' \in Seq(Bytes) /\ Len(fifo') = readable(buf')
  <2>1. fifo \o s \in Seq(Bytes) /\ Len(fifo \o s) = Len(fifo) + Len(s)
    BY <1>2, ConcatProperties
  <2> QED BY <1>1, <1>2, <2>1 DEF Gave
<1>4. ~clobbered' => readable_view(buf') = fifo'
  BY <1>1 DEF FifoInv, Gave
<1>5. HeldBy(buf', given')
  BY <1>1 DEF Gave
<1> QED BY <1>1, <1>3, <1>4, <1>5 DEF FifoInv

\* A step that only moves the history of losses and leaves the bytes.
LEMMA Keeping ==
  ASSUME FifoInv, readable(buf') = readable(buf), fifo' = fifo, given' = given, HeldBy(buf', given),
         ~clobbered' => ~clobbered /\ readable_view(buf') = readable_view(buf)
  PROVE  FifoInv'
BY DEF FifoInv

-----------------------------------------------------------------------------
(* The buffer's own operations, one by one.                                *)

LEMMA InitHolds ==
  Init => IInv
<1> SUFFICES ASSUME Init PROVE IInv
  OBVIOUS
<1> USE DEF Init
<1>1. BufferOK(buf) /\ readable(buf) = 0 /\ HeldBy(buf, given)
  <2>1. PICK d : d = [i \in 1 .. InitSize |-> Zero]
    OBVIOUS
  <2>2. d \in [1 .. InitSize -> Bytes] /\ InitSize \in Nat
    BY <2>1, StreamAssumption DEF Bytes
  <2>3. d \in Seq(Bytes) /\ Len(d) = InitSize
    BY <2>2
  <2>4. buf = [data |-> d, r |-> 0, w |-> 0]
    BY <2>1 DEF NewBuffer
  <2> QED BY <2>2, <2>3, <2>4 DEF BufferOK, readable, HeldBy
<1>2. call \in CallSet /\ call.op = "none"
  <2>1. <<>> \in Seq(Bytes)
    BY EmptySeq
  <2> QED BY <2>1 DEF Idle, CallSet, Ops
<1>3. result \in ResultSet /\ result.op = "none"
  BY NoResultFields
<1>4. TypeInv /\ PeerInv
  <2>1. Len(PeerBytes) \in Nat
    BY StreamAssumption
  <2>2. TypeInv
    BY <1>1, <1>2, <1>3 DEF TypeInv
  <2>3. PeerInv
    <3>1. 0 \in 0 .. Len(PeerBytes) /\ 0 \in 0 .. 0
      BY <2>1
    <3> QED BY <3>1, Zenon DEF PeerInv
  <2> QED BY <2>2, <2>3
<1>5. FifoInv
  <2>1. fifo \in Seq(Bytes) /\ Len(fifo) = 0
    BY EmptySeq
  <2>2. readable_view(buf) \in Seq(Bytes) /\ Len(readable_view(buf)) = 0
    BY <1>1, View
  <2>3. readable_view(buf) = fifo
    BY <2>1, <2>2, BothEmpty
  <2> QED BY <1>1, <2>1, <2>3 DEF FifoInv
<1>6. CallInv
  BY <1>2 DEF CallInv, Writers, LineReaders
<1>7. WriteDelivers /\ ReadersRight
  BY <1>3 DEF WriteDelivers, ReadersRight
<1> QED BY <1>4, <1>5, <1>6, <1>7 DEF IInv

\* The peer's part is not the coroutine's.
LEMMA PeerKept ==
  ASSUME PeerInv, UNCHANGED peer
  PROVE  PeerInv'
BY DEF PeerInv, peer

\* A call that has ended leaves nothing to rely on.
LEMMA NoCall ==
  ASSUME call'.op = "none"
  PROVE  CallInv'
BY DEF CallInv, Writers, LineReaders

LEMMA PopStep ==
  ASSUME IInv, NEW len \in Lengths, PopString(len)
  PROVE  IInv'
<1>1. /\ TypeInv /\ PeerInv /\ FifoInv /\ BufferOK(buf) /\ len \in Nat /\ calls \in Nat
      /\ readable(buf) \in Nat
  BY StreamAssumption, BufferTypes DEF IInv, TypeInv
<1>2. PICK v \in Seq(Bytes) : v = readable_view(buf) /\ Len(v) = readable(buf)
  BY <1>1, View
<1>3. PICK k \in 0 .. readable(buf) : pop_string(buf, len) = SubSeq(v, 1, k)
  <2>1. (IF len > readable(buf) THEN readable(buf) ELSE len) \in 0 .. readable(buf)
    BY <1>1
  <2> QED BY <1>2, <2>1 DEF pop_string
<1>4. PICK s \in Seq(Bytes) : s = pop_string(buf, len) /\ Len(s) = k
  BY <1>2, <1>3, Prefix
<1>5. buf' = has_read(buf, k) /\ Took(buf, k)
  BY <1>4 DEF PopString
<1>6. FifoInv' /\ BufferOK(buf') /\ clobbered' \in BOOLEAN
  BY <1>1, <1>5, Taking
<1>7. PICK c : c = NewCall("pop_string", FALSE, len)
  OBVIOUS
<1>8. c \in CallSet /\ c.op = "pop_string"
  <2>1. "pop_string" \in Ops /\ FALSE \in BOOLEAN
    BY DEF Ops
  <2> QED BY <1>1, <1>7, <2>1, CallFields, Zenon
<1>9. PICK d : d = [c EXCEPT !.sent = s]
  OBVIOUS
<1>10. d \in CallSet /\ d.op = "pop_string"
  BY <1>8, <1>9 DEF CallSet
<1>11. Ended(d, "ok", k)
  BY <1>4, <1>7, <1>9 DEF PopString
<1>12. call' \in CallSet /\ call'.op = "none" /\ result' \in ResultSet /\ result'.op = "pop_string"
  <2>1. "ok" \in Rets /\ k \in Nat
    BY <1>1 DEF Rets
  <2> QED BY <1>10, <1>11, <2>1, EndedFields
<1>13. kind' = kind /\ UNCHANGED peer /\ calls' = calls + 1
  BY DEF PopString, Calling
<1>14. TypeInv'
  BY <1>1, <1>6, <1>12, <1>13 DEF TypeInv, peer
<1>15. WriteDelivers' /\ ReadersRight'
  BY <1>12, Quiet
<1> QED BY <1>1, <1>6, <1>12, <1>13, <1>14, <1>15, PeerKept, NoCall DEF IInv

LEMMA PushStep ==
  ASSUME IInv, NEW len \in Lengths, PushBack(len)
  PROVE  IInv'
<1>1. /\ TypeInv /\ PeerInv /\ FifoInv /\ BufferOK(buf) /\ len \in Nat /\ calls \in Nat
      /\ clobbered \in BOOLEAN
  BY StreamAssumption DEF IInv, TypeInv
<1>2. PICK b : b = make_room(len)
  OBVIOUS
<1>3. /\ BufferOK(b) /\ readable(b) = readable(buf)
      /\ ~Clobbers(buf) => readable_view(b) = readable_view(buf)
      /\ ~RoomThrows(len) => writable(b) >= len
      /\ HeldBy(b, given)
  BY <1>1, <1>2, MakeRoom DEF FifoInv
<1>4. PICK s : s = [i \in 1..len |-> 100 * (calls + 1) + i]
  OBVIOUS
<1>5. s \in Seq(Bytes) /\ Len(s) = len
  <2>1. \A i \in 1 .. len : 100 * (calls + 1) + i \in Nat
    BY <1>1
  <2>2. s \in [1 .. len -> Bytes]
    BY <1>4, <2>1 DEF Bytes
  <2> QED BY <1>1, <2>2
<1>6. PICK c : c = NewCall("push_back", FALSE, len)
  OBVIOUS
<1>7. c \in CallSet /\ c.op = "push_back"
  <2>1. "push_back" \in Ops /\ FALSE \in BOOLEAN
    BY DEF Ops
  <2> QED BY <1>1, <1>6, <2>1, CallFields, Zenon
<1>8. /\ clobbered' \in BOOLEAN
      /\ ~clobbered' => ~clobbered /\ readable_view(b) = readable_view(buf)
  <2>1. clobbered' = (clobbered \/ Clobbers(buf))
    BY DEF PushBack
  <2> QED BY <1>3, <2>1, Zenon
<1>9. ASSUME RoomThrows(len)
      PROVE  FifoInv' /\ BufferOK(buf') /\ Ended(c, "throw", 0)
  <2>1. buf' = b /\ fifo' = fifo /\ given' = given /\ Ended(c, "throw", 0)
    BY <1>2, <1>6, <1>9 DEF PushBack
  <2> QED BY <1>1, <1>3, <1>8, <2>1, Keeping
<1>10. ASSUME ~RoomThrows(len)
       PROVE  FifoInv' /\ BufferOK(buf') /\ Ended(c, "ok", 0)
  <2>1. buf' = push_bytes(b, s) /\ Gave(s) /\ Ended(c, "ok", 0)
    BY <1>2, <1>4, <1>6, <1>10 DEF PushBack
  <2>2. Len(s) <= writable(b)
    BY <1>3, <1>5, <1>10, BufferTypes
  <2> QED BY <1>1, <1>3, <1>5, <1>8, <2>1, <2>2, Putting
<1>11. call' \in CallSet /\ call'.op = "none" /\ result' \in ResultSet /\ result'.op = "push_back"
  <2>1. "ok" \in Rets /\ "throw" \in Rets /\ 0 \in Nat
    BY DEF Rets
  <2> QED BY <1>7, <1>9, <1>10, <2>1, EndedFields
<1>12. kind' = kind /\ UNCHANGED peer /\ calls' = calls + 1
  BY DEF PushBack, Calling
<1>13. TypeInv'
  BY <1>1, <1>8, <1>9, <1>10, <1>11, <1>12 DEF TypeInv, peer
<1>14. WriteDelivers' /\ ReadersRight'
  BY <1>11, Quiet
<1> QED BY <1>1, <1>9, <1>10, <1>11, <1>12, <1>13, <1>14, PeerKept, NoCall DEF IInv

-----------------------------------------------------------------------------
(* The calls, to their first recv or send.                                 *)

LEMMA ReadSomeStep ==
  ASSUME IInv, NEW timed \in BOOLEAN, ReadSome(timed)
  PROVE  IInv'
<1>1. /\ TypeInv /\ PeerInv /\ FifoInv /\ BufferOK(buf) /\ calls \in Nat
      /\ clobbered \in BOOLEAN /\ AtLeast \in Nat /\ AtLeast > 0
  BY StreamAssumption DEF IInv, TypeInv
<1>2. PICK b : b = make_room(AtLeast)
  OBVIOUS
<1>3. /\ BufferOK(b) /\ readable(b) = readable(buf)
      /\ ~Clobbers(buf) => readable_view(b) = readable_view(buf)
      /\ ~RoomThrows(AtLeast) => writable(b) >= AtLeast
      /\ HeldBy(b, given)
  BY <1>1, <1>2, MakeRoom DEF FifoInv
<1>4. PICK c : c = NewCall("read_some", timed, 0)
  OBVIOUS
<1>5. c \in CallSet /\ c.op = "read_some"
  BY <1>1, <1>4, CallFields DEF Ops, Readers
<1>6. /\ clobbered' \in BOOLEAN
      /\ ~clobbered' => ~clobbered /\ readable_view(b) = readable_view(buf)
  <2>1. clobbered' = (clobbered \/ Clobbers(buf))
    BY DEF ReadSome
  <2> QED BY <1>3, <2>1, Zenon
<1>7. buf' = b /\ fifo' = fifo /\ given' = given /\ kind' = kind /\ UNCHANGED peer /\ calls' = calls + 1
  BY <1>2 DEF ReadSome, Calling
<1>8. FifoInv' /\ BufferOK(buf')
  BY <1>1, <1>3, <1>6, <1>7, Keeping
<1>9. CASE RoomThrows(AtLeast)
  <2>1. Ended(c, "throw", 0)
    BY <1>4, <1>9 DEF ReadSome
  <2>2. call' \in CallSet /\ call'.op = "none" /\ result' \in ResultSet /\ result'.ret = "throw"
    BY <1>5, <2>1, EndedFields DEF Rets
  <2>3. TypeInv'
    BY <1>1, <1>6, <1>7, <1>8, <2>2 DEF TypeInv, peer
  <2>4. WriteDelivers' /\ ReadersRight'
    BY <2>2, Quiet
  <2> QED BY <1>1, <1>7, <1>8, <2>2, <2>3, <2>4, PeerKept, NoCall DEF IInv
<1>10. CASE ~RoomThrows(AtLeast)
  <2>1. call' = c /\ result' = NoResult
    BY <1>4, <1>10 DEF ReadSome
  <2>2. result' \in ResultSet /\ result'.op = "none"
    BY <2>1, NoResultFields
  <2>3. TypeInv'
    BY <1>1, <1>5, <1>6, <1>7, <1>8, <2>1, <2>2 DEF TypeInv, peer
  <2>4. WriteDelivers' /\ ReadersRight'
    BY <2>2, Quiet
  <2>5. writable(buf') > 0
    BY <1>1, <1>3, <1>7, <1>10, BufferTypes
  <2>6. CallInv'
    BY <1>5, <2>1, <2>5 DEF CallInv, Readers, Writers, LineReaders
  <2> QED BY <1>1, <1>7, <1>8, <2>3, <2>4, <2>6, PeerKept DEF IInv
<1> QED BY <1>9, <1>10

\* A length that is returned is that of a line of the buffer.
LEMMA LengthRight ==
  ASSUME BufferOK(buf), NEW op \in LineReaders, NEW timed \in BOOLEAN, NEW n, HasEnough(op, n)
  PROVE  /\ LineLength(op, timed) \in Nat
         /\ op = "read_line" =>
              /\ LineLength(op, timed) \in 1 .. readable(buf)
              /\ Text(buf)[LineLength(op, timed)] = "lf"
              /\ \A i \in 1 .. LineLength(op, timed) - 1 : Text(buf)[i] # "lf"
         /\ op = "read_crlf_line" /\ ~timed =>
              /\ LineLength(op, timed) \in 2 .. readable(buf)
              /\ Text(buf)[LineLength(op, timed) - 1] = "cr" /\ Text(buf)[LineLength(op, timed)] = "lf"
              /\ \A i \in 1 .. LineLength(op, timed) - 2 : ~(Text(buf)[i] = "cr" /\ Text(buf)[i + 1] = "lf")
<1>1. CASE op = "read_certain"
  <2>1. LineLength(op, timed) = 0
    BY <1>1 DEF LineLength
  <2> QED BY <1>1, <2>1
<1>2. CASE op = "read_line"
  <2>1. PICK p : p = find_eol(buf)
    OBVIOUS
  <2>2. p # 0 /\ LineLength(op, timed) = p
    BY <1>2, <2>1 DEF LineLength, HasEnough
  <2>3. p \in Nat /\ p \in 1 .. readable(buf) /\ Text(buf)[p] = "lf" /\ \A i \in 1 .. p - 1 : Text(buf)[i] # "lf"
    BY <2>1, <2>2, FindEol
  <2> QED BY <1>2, <2>2, <2>3
<1>3. CASE op = "read_crlf_line"
  <2>1. PICK p : p = find_crlf(buf)
    OBVIOUS
  <2>2. p # 0 /\ LineLength(op, timed) = p + (IF timed THEN 0 ELSE 1)
    BY <1>3, <2>1 DEF LineLength, HasEnough
  <2>3. /\ p \in Nat /\ p \in 1 .. readable(buf) - 1 /\ Text(buf)[p] = "cr" /\ Text(buf)[p + 1] = "lf"
        /\ \A i \in 1 .. p - 1 : ~(Text(buf)[i] = "cr" /\ Text(buf)[i + 1] = "lf")
    BY <2>1, <2>2, FindCrlf
  <2>4. LineLength(op, timed) \in Nat
    BY <2>2, <2>3
  <2>5. ASSUME ~timed
        PROVE  /\ LineLength(op, timed) \in 2 .. readable(buf) /\ LineLength(op, timed) = p + 1
               /\ LineLength(op, timed) - 1 = p /\ LineLength(op, timed) - 2 = p - 1
    BY <2>2, <2>3, <2>5, BufferTypes
  <2>6. ASSUME ~timed, NEW i \in 1 .. LineLength(op, timed) - 2
        PROVE  ~(Text(buf)[i] = "cr" /\ Text(buf)[i + 1] = "lf")
    BY <2>3, <2>5, <2>6
  <2> QED BY <1>3, <2>3, <2>4, <2>5, <2>6
<1> QED BY <1>1, <1>2, <1>3 DEF LineReaders

\* A reader that finds enough, which is before it received anything, returns the
\* right length.
LEMMA LineReturned ==
  ASSUME BufferOK(buf), buf' = buf,
         NEW c \in CallSet, c.op \in LineReaders, c.got = 0, HasEnough(c.op, c.n),
         Ended(c, "ok", LineLength(c.op, c.timed))
  PROVE  /\ call' \in CallSet /\ call'.op = "none" /\ result' \in ResultSet
         /\ WriteDelivers' /\ ReadersRight'
<1>1. c.timed \in BOOLEAN /\ "ok" \in Rets
  BY DEF CallSet, Rets
<1>2. PICK m : m = LineLength(c.op, c.timed)
  OBVIOUS
<1>3. /\ m \in Nat
      /\ c.op = "read_line" =>
           m \in 1 .. readable(buf) /\ Text(buf)[m] = "lf" /\ \A i \in 1 .. m - 1 : Text(buf)[i] # "lf"
      /\ c.op = "read_crlf_line" /\ ~c.timed =>
           /\ m \in 2 .. readable(buf) /\ Text(buf)[m - 1] = "cr" /\ Text(buf)[m] = "lf"
           /\ \A i \in 1 .. m - 2 : ~(Text(buf)[i] = "cr" /\ Text(buf)[i + 1] = "lf")
  BY <1>1, <1>2, LengthRight
<1>4. /\ call' \in CallSet /\ call'.op = "none" /\ result' \in ResultSet
      /\ result'.op = c.op /\ result'.timed = c.timed /\ result'.ret = "ok" /\ result'.val = m
      /\ result'.got = 0
  BY <1>1, <1>2, <1>3, EndedFields
<1>5. PICK t \in Seq(KindSet) : t = Text(buf) /\ t = Text(buf') /\ Len(t) = readable(buf) /\ DOMAIN t = 1 .. readable(buf)
  BY SameText, TextOf, LenProperties
<1>6. WriteDelivers'
  BY <1>4 DEF WriteDelivers, LineReaders
<1>7. ASSUME result'.op = "read_line"
      PROVE  m \in DOMAIN t /\ t[m] = "lf" /\ \A i \in 1 .. m - 1 : t[i] # "lf"
  BY <1>3, <1>4, <1>5, <1>7
<1>8. ASSUME result'.op = "read_crlf_line", ~c.timed
      PROVE  /\ m \in 2 .. Len(t) /\ t[m - 1] = "cr" /\ t[m] = "lf"
             /\ \A i \in 1 .. m - 2 : ~(t[i] = "cr" /\ t[i + 1] = "lf")
  BY <1>3, <1>4, <1>5, <1>8
<1>9. result'.op # "read_some"
  BY <1>4 DEF LineReaders
<1>10. ReadersRight'
  BY <1>4, <1>5, <1>7, <1>8, <1>9, Zenon DEF ReadersRight
<1> QED BY <1>4, <1>6, <1>10

LEMMA ReadUntilStep ==
  ASSUME IInv, NEW op \in LineReaders, NEW timed \in BOOLEAN, NEW n \in Nat, ReadUntil(op, timed, n)
  PROVE  IInv'
<1>1. TypeInv /\ PeerInv /\ FifoInv /\ BufferOK(buf) /\ calls \in Nat
  BY DEF IInv, TypeInv
<1>2. PICK c : c = NewCall(op, timed, n)
  OBVIOUS
<1>3. c \in CallSet /\ c.op = op /\ c.timed = timed /\ c.n = n /\ c.got = 0
  BY <1>1, <1>2, CallFields DEF Ops, Readers, LineReaders
<1>4. /\ buf' = buf /\ fifo' = fifo /\ kind' = kind /\ UNCHANGED peer /\ calls' = calls + 1
      /\ clobbered' = clobbered /\ given' = given
  BY DEF ReadUntil, Calling, past
<1>5. FifoInv' /\ BufferOK(buf')
  BY <1>1, <1>4, Keeping DEF FifoInv
<1>6. CASE HasEnough(op, n)
  <2>1. Ended(c, "ok", LineLength(op, timed))
    BY <1>2, <1>6 DEF ReadUntil
  <2>2. call' \in CallSet /\ call'.op = "none" /\ result' \in ResultSet /\ WriteDelivers' /\ ReadersRight'
    BY <1>1, <1>3, <1>4, <1>6, <2>1, LineReturned
  <2>3. TypeInv'
    BY <1>1, <1>4, <1>5, <2>2 DEF TypeInv, peer
  <2> QED BY <1>1, <1>4, <1>5, <2>2, <2>3, PeerKept, NoCall DEF IInv
<1>7. CASE ~HasEnough(op, n)
  <2>1. call' = c /\ result' = NoResult
    BY <1>2, <1>7 DEF ReadUntil
  <2>2. result' \in ResultSet /\ result'.op = "none"
    BY <2>1, NoResultFields
  <2>3. TypeInv'
    BY <1>1, <1>3, <1>4, <1>5, <2>1, <2>2 DEF TypeInv, peer
  <2>4. WriteDelivers' /\ ReadersRight'
    BY <2>2, Quiet
  <2>5. CallInv'
    BY <1>3, <1>4, <1>7, <2>1, Enough DEF CallInv, Readers, Writers, LineReaders
  <2> QED BY <1>1, <1>4, <1>5, <2>3, <2>4, <2>5, PeerKept DEF IInv
<1> QED BY <1>6, <1>7

\* A writer that wants no further send has handed over what it should: what it
\* sent and what is still in the buffer are what was there at the call.
LEMMA WriterDone ==
  ASSUME BufferOK(buf'), NEW c \in CallSet, c.op \in Writers, c.had = c.sent \o readable_view(buf'),
         c.op = "write_certain" => c.total = c.n - Len(c.sent),
         c.op # "write_some" => ~Wants(c.op, c.total, buf'),
         NEW val \in Nat, Ended(c, "ok", val)
  PROVE  /\ call' \in CallSet /\ call'.op = "none" /\ result' \in ResultSet
         /\ WriteDelivers' /\ ReadersRight'
<1>1. /\ call' \in CallSet /\ call'.op = "none" /\ result' \in ResultSet /\ result'.op = c.op
      /\ result'.n = c.n /\ result'.ret = "ok" /\ result'.had = c.had /\ result'.sent = c.sent
  BY EndedFields DEF Rets
<1>2. c.sent \in Seq(Bytes) /\ c.n \in Nat /\ c.total \in Int /\ c.had \in Seq(Bytes)
  BY DEF CallSet
<1>3. PICK u \in Seq(Bytes), v \in Seq(Bytes) : u = c.sent /\ v = readable_view(buf') /\ Len(v) = readable(buf')
  BY <1>2, View
<1>4. ASSUME c.op = "write_all" PROVE c.sent = c.had /\ readable(buf') = 0
  <2>1. readable(buf') = 0
    BY <1>4 DEF Wants
  <2>2. v = <<>>
    BY <1>3, <2>1, EmptySeq, BothEmpty
  <2>3. u \o v = u
    BY <2>2, ConcatEmptySeq
  <2> QED BY <1>3, <2>1, <2>3
<1>5. ASSUME c.op = "write_certain"
      PROVE  Len(c.sent) = c.n /\ c.sent = SubSeq(c.had, 1, Len(c.sent))
  <2>1. c.total = 0
    BY <1>5 DEF Wants
  <2>2. Len(u) \in Nat
    BY LenProperties
  <2>3. Len(c.sent) = c.n
    BY <1>2, <1>3, <1>5, <2>1, <2>2
  <2>4. u = SubSeq(u \o v, 1, Len(u))
    <3>1. u \o v \in Seq(Bytes) /\ Len(u \o v) = Len(u) + Len(v) /\ Len(v) \in Nat
          /\ \A i \in 1 .. Len(u) + Len(v) : (u \o v)[i] = IF i <= Len(u) THEN u[i] ELSE v[i - Len(u)]
      BY ConcatProperties, LenProperties
    <3>2. PICK x \in Seq(Bytes) : x = u \o v
      BY <3>1
    <3>3. Len(x) = Len(u) + Len(v) /\ \A i \in 1 .. Len(u) : x[i] = u[i]
      BY <2>2, <3>1, <3>2
    <3>4. \A i \in 1 .. Len(u) : x[i] \in Bytes
      BY <3>3, ElementOfSeq
    <3>5. Len(u) \in Int /\ 1 \in Int
      BY <2>2
    <3>6. /\ SubSeq(x, 1, Len(u)) \in Seq(Bytes)
          /\ Len(SubSeq(x, 1, Len(u))) = IF 1 <= Len(u) THEN Len(u) - 1 + 1 ELSE 0
          /\ \A i \in 1 .. Len(u) - 1 + 1 : SubSeq(x, 1, Len(u))[i] = x[1 + i - 1]
      BY <3>4, <3>5, SubSeqProperties
    <3>7. PICK y \in Seq(Bytes) : y = SubSeq(x, 1, Len(u))
      BY <3>6
    <3>8. Len(y) = Len(u)
      BY <2>2, <3>6, <3>7
    <3>9. \A i \in 1 .. Len(u) : y[i] = u[i]
      <4>1. \A i \in 1 .. Len(u) : i \in 1 .. Len(u) - 1 + 1 /\ 1 + i - 1 = i
        BY <2>2
      <4> QED BY <3>3, <3>6, <3>7, <4>1
    <3>10. y = u
      BY <3>8, <3>9, SeqEqual
    <3> QED BY <3>2, <3>7, <3>10
  <2> QED BY <1>3, <2>3, <2>4
<1>6. WriteDelivers'
  BY <1>1, <1>4, <1>5 DEF WriteDelivers
<1>7. ReadersRight'
  BY <1>1 DEF ReadersRight, Writers
<1> QED BY <1>1, <1>6, <1>7

LEMMA WriteStep ==
  ASSUME IInv, NEW op \in Writers, NEW timed \in BOOLEAN, NEW n \in Nat, Write(op, timed, n)
  PROVE  IInv'
<1>1. TypeInv /\ PeerInv /\ FifoInv /\ BufferOK(buf) /\ calls \in Nat
  BY DEF IInv, TypeInv
<1>2. PICK c : c = NewCall(op, timed, n)
  OBVIOUS
<1>3. /\ c \in CallSet /\ c.op = op /\ c.n = n /\ c.total = n
      /\ c.had = readable_view(buf) /\ c.sent = <<>>
  BY <1>1, <1>2, CallFields DEF Ops
<1>4. /\ buf' = buf /\ fifo' = fifo /\ kind' = kind /\ UNCHANGED peer /\ calls' = calls + 1
      /\ clobbered' = clobbered /\ given' = given
  BY DEF Write, Calling, past
<1>5. FifoInv' /\ BufferOK(buf')
  BY <1>1, <1>4, Keeping DEF FifoInv
<1>6. c.had = c.sent \o readable_view(buf') /\ c.total = c.n - Len(c.sent)
  <2>1. PICK v \in Seq(Bytes) : v = readable_view(buf)
    BY <1>1, View
  <2>2. <<>> \o v = v /\ Len(<<>>) = 0
    BY ConcatEmptySeq, EmptySeq
  <2> QED BY <1>3, <1>4, <2>1, <2>2
<1>7. CASE Wants(op, n, buf)
  <2>1. call' = c /\ result' = NoResult
    BY <1>2, <1>7 DEF Write
  <2>2. result' \in ResultSet /\ result'.op = "none"
    BY <2>1, NoResultFields
  <2>3. TypeInv'
    BY <1>1, <1>3, <1>4, <1>5, <2>1, <2>2 DEF TypeInv, peer
  <2>4. WriteDelivers' /\ ReadersRight'
    BY <2>2, Quiet
  <2>5. CallInv'
    BY <1>3, <1>6, <2>1 DEF CallInv, Writers, LineReaders
  <2> QED BY <1>1, <1>4, <1>5, <2>3, <2>4, <2>5, PeerKept DEF IInv
<1>8. CASE ~Wants(op, n, buf)
  <2>1. Ended(c, "ok", 0)
    BY <1>2, <1>8 DEF Write
  <2>2. call' \in CallSet /\ call'.op = "none" /\ result' \in ResultSet /\ WriteDelivers' /\ ReadersRight'
    BY <1>3, <1>4, <1>5, <1>6, <1>8, <2>1, WriterDone
  <2>3. TypeInv'
    BY <1>1, <1>4, <1>5, <2>2 DEF TypeInv, peer
  <2> QED BY <1>1, <1>4, <1>5, <2>2, <2>3, PeerKept, NoCall DEF IInv
<1> QED BY <1>7, <1>8

-----------------------------------------------------------------------------
(* The completions.                                                        *)

LEMMA RecvDataStep ==
  ASSUME IInv, NEW k \in 1 .. writable(buf), RecvData(k)
  PROVE  IInv'
<1>1. /\ TypeInv /\ PeerInv /\ FifoInv /\ CallInv /\ BufferOK(buf) /\ call \in CallSet
      /\ writable(buf) \in Nat /\ k \in Nat /\ k <= writable(buf) /\ k <= arrived - received
      /\ received \in Nat /\ arrived \in Nat /\ received <= arrived
  <2>1. Len(PeerBytes) \in Nat
    BY StreamAssumption
  <2> QED BY <2>1, BufferTypes DEF IInv, TypeInv, PeerInv, RecvData
<1>2. PICK s : s = [i \in 1 .. k |-> received + i]
  OBVIOUS
<1>3. s \in Seq(Bytes) /\ Len(s) = k
  <2>1. \A i \in 1 .. k : received + i \in Nat
    BY <1>1
  <2>2. s \in [1 .. k -> Bytes]
    BY <1>2, <2>1 DEF Bytes
  <2> QED BY <1>1, <2>2
<1>4. PICK c : c = [call EXCEPT !.got = @ + k]
  OBVIOUS
<1>5. /\ c \in CallSet /\ c.op = call.op /\ c.timed = call.timed /\ c.n = call.n
      /\ c.op \in Readers
  <2>1. call \in CallSet /\ call.got \in Nat /\ call.op \in Readers
    BY <1>1 DEF CallSet, RecvData
  <2>2. PICK m \in Nat : m = call.got + k
    BY <1>1, <2>1
  <2>3. c = [call EXCEPT !.got = m]
    BY <1>4, <2>2, Zenon
  <2> QED BY <2>1, <2>3 DEF CallSet
<1>6. /\ received' = received + k /\ kind' = kind /\ calls' = calls /\ arrived' = arrived
      /\ closed' = closed /\ clobbered' = clobbered
  BY DEF RecvData
<1>7. PeerInv'
  BY <1>1, <1>6 DEF PeerInv
<1>8. result = NoResult /\ result \in ResultSet /\ result.op = "none"
  BY <1>1, <1>5, NoResultFields DEF CallInv, Readers
<1>9. Len(s) <= writable(buf)
  BY <1>1, <1>3
<1>10. CASE call.op = "read_some"
  <2>1. buf' = push_bytes(buf, s) /\ Gave(s) /\ Ended(c, "ok", k)
    BY <1>2, <1>3, <1>4, <1>10 DEF RecvData, push_bytes
  <2>2. FifoInv' /\ BufferOK(buf')
    BY <1>1, <1>3, <1>6, <1>9, <2>1, Putting DEF FifoInv
  <2>3. call' \in CallSet /\ call'.op = "none" /\ result' \in ResultSet /\ result'.op = "read_some" /\ result'.ret = "ok"
    BY <1>1, <1>5, <1>10, <2>1, EndedFields DEF Rets
  <2>4. TypeInv'
    BY <1>1, <1>6, <2>2, <2>3 DEF TypeInv
  <2>5. WriteDelivers' /\ ReadersRight'
    BY <2>3, Quiet
  <2> QED BY <1>7, <2>2, <2>3, <2>4, <2>5, NoCall DEF IInv
<1>11. CASE call.op # "read_some"
  <2>1. buf' = Store(buf, s) /\ fifo' = fifo /\ given' = given
    BY <1>2, <1>11 DEF RecvData
  <2>2. /\ BufferOK(buf') /\ readable(buf') = readable(buf) /\ readable_view(buf') = readable_view(buf)
        /\ HeldBy(buf', given)
    BY <1>1, <1>3, <1>9, <2>1, Stored DEF FifoInv
  <2>3. FifoInv'
    BY <1>1, <1>6, <2>1, <2>2, Keeping
  <2>4. c.op \in LineReaders
    BY <1>5, <1>11 DEF Readers, LineReaders
  <2>5. ~EnoughIn(buf, call.op, call.n) /\ ~HasEnough(call.op, call.n)
    BY <1>1, <1>5, <2>4, Enough DEF CallInv
  <2>6. call' = c /\ result' = result
    BY <1>4, <1>11, <2>5 DEF RecvData
  <2>7. TypeInv'
    BY <1>1, <1>5, <1>6, <1>8, <2>2, <2>6 DEF TypeInv
  <2>8. WriteDelivers' /\ ReadersRight'
    BY <1>8, <2>6, Quiet
  <2>9. ~EnoughIn(buf', call'.op, call'.n)
    <3>1. EnoughIn(buf', call.op, call.n) = EnoughIn(buf, call.op, call.n)
      BY <2>2, SameEnough
    <3>2. call'.op = call.op /\ call'.n = call.n
      BY <1>5, <2>6
    <3> QED BY <2>5, <3>1, <3>2
  <2>10. CallInv'
    BY <1>5, <1>8, <2>4, <2>6, <2>9 DEF CallInv, LineReaders, Readers, Writers
  <2> QED BY <1>7, <2>3, <2>7, <2>8, <2>10 DEF IInv
<1> QED BY <1>10, <1>11

\* A call that ends and leaves the buffer, without "ok".
LEMMA Failing ==
  ASSUME IInv, NEW ret \in Rets, ret # "ok", Ended(call, ret, 0),
         ret = "eof" /\ call.op = "read_some" => closed /\ received = Len(PeerBytes),
         UNCHANGED <<kind, buf, calls, peer, past>>
  PROVE  IInv'
<1>1. TypeInv /\ PeerInv /\ FifoInv /\ call \in CallSet
  BY DEF IInv, TypeInv
<1>2. /\ call' \in CallSet /\ call'.op = "none" /\ result' \in ResultSet
      /\ result'.op = call.op /\ result'.ret = ret
  BY <1>1, EndedFields
<1>3. TypeInv' /\ PeerInv' /\ FifoInv'
  BY <1>1, <1>2 DEF TypeInv, PeerInv, FifoInv, peer, past
<1>4. WriteDelivers'
  BY <1>2 DEF WriteDelivers
<1>5. ReadersRight'
  BY <1>2 DEF ReadersRight, peer
<1> QED BY <1>2, <1>3, <1>4, <1>5, NoCall DEF IInv

\* read_some always asks for at least a byte, so a 0 is the end of file.
LEMMA RecvZeroStep ==
  ASSUME IInv, RecvZero
  PROVE  IInv'
<1>1. ASSUME call.op = "read_some" PROVE closed /\ received = Len(PeerBytes)
  <2>1. writable(buf) > 0 /\ BufferOK(buf) /\ (closed => arrived = Len(PeerBytes))
    BY <1>1 DEF IInv, CallInv, TypeInv, PeerInv
  <2>2. writable(buf) # 0
    BY <2>1, BufferTypes
  <2> QED BY <2>1, <2>2 DEF RecvZero
<1> QED BY <1>1, Failing DEF RecvZero, Rets

LEMMA ErrorStep ==
  ASSUME IInv, RecvError \/ SendError \/ SendInterrupted
  PROVE  IInv'
<1>1. PICK e \in {"error", "cancelled", "abort"} :
        Ended(call, e, 0) /\ UNCHANGED <<kind, buf, calls, peer, past>>
  BY DEF RecvError, SendError, SendInterrupted, Errors
<1> QED BY <1>1, Failing DEF Rets

LEMMA SendDataStep ==
  ASSUME IInv, NEW k \in 1 .. readable(buf), SendData(k)
  PROVE  IInv'
<1>1. /\ TypeInv /\ PeerInv /\ FifoInv /\ CallInv /\ BufferOK(buf) /\ call \in CallSet
      /\ readable(buf) \in Nat /\ k \in Nat /\ k \in 0 .. readable(buf) /\ call.op \in Writers
  BY BufferTypes DEF IInv, TypeInv, SendData
<1>2. buf' = has_read(buf, k) /\ Took(buf, k)
  BY DEF SendData
<1>3. FifoInv' /\ BufferOK(buf') /\ clobbered' \in BOOLEAN
  BY <1>1, <1>2, Taking
<1>4. PICK v \in Seq(Bytes) : v = readable_view(buf) /\ Len(v) = readable(buf) /\ readable_view(buf') = Rest(v, k)
  BY <1>1, <1>2, View, HasRead
<1>5. PICK p \in Seq(Bytes), q \in Seq(Bytes) : p = SubSeq(v, 1, k) /\ q = Rest(v, k) /\ v = p \o q /\ Len(p) = k
  <2>1. k \in 0 .. Len(v)
    BY <1>1, <1>4
  <2>2. SubSeq(v, 1, k) \in Seq(Bytes) /\ Len(SubSeq(v, 1, k)) = k /\ v = SubSeq(v, 1, k) \o Rest(v, k)
    BY <2>1, Prefix
  <2>3. Rest(v, k) \in Seq(Bytes)
    BY <2>1, RestOf
  <2> QED BY <2>2, <2>3, Zenon
<1>6. /\ call.sent \in Seq(Bytes) /\ call.total \in Int /\ call.got \in Nat /\ call.n \in Nat
      /\ call.had = call.sent \o v
      /\ call.op = "write_certain" => call.total = call.n - Len(call.sent)
  BY <1>1, <1>4 DEF CallSet, CallInv
<1>7. PICK u \in Seq(Bytes) : u = call.sent
  BY <1>6
<1>8. PICK y \in Seq(Bytes) : y = u \o p /\ Len(y) = Len(u) + k
  <2>1. u \o p \in Seq(Bytes) /\ Len(u \o p) = Len(u) + Len(p)
    BY ConcatProperties
  <2> QED BY <1>5, <2>1, Zenon
<1>9. PICK c : c = [call EXCEPT !.total = @ - k, !.got = @ + k, !.sent = @ \o SubSeq(readable_view(buf), 1, k)]
  OBVIOUS
<1>10. /\ c \in CallSet /\ c.op = call.op /\ c.n = call.n /\ c.had = call.had
       /\ c.total = call.total - k /\ c.sent = y
  <2>0. PICK t \in Int, g \in Nat : t = call.total - k /\ g = call.got + k
    <3>1. call.total \in Int /\ call.got \in Nat /\ k \in Nat
      BY <1>1, <1>6, Zenon
    <3>2. call.total - k \in Int /\ call.got + k \in Nat
      BY <3>1
    <3> QED BY <3>2, Zenon
  <2>1. PICK c1 : c1 = [call EXCEPT !.total = t]
    OBVIOUS
  <2>2. PICK c2 : c2 = [c1 EXCEPT !.got = g]
    OBVIOUS
  <2>3. c1 \in CallSet /\ c1.op = call.op /\ c1.n = call.n /\ c1.had = call.had /\ c1.total = t
    BY <1>1, <2>1 DEF CallSet
  <2>4. c2 \in CallSet /\ c2.op = call.op /\ c2.n = call.n /\ c2.had = call.had /\ c2.total = t
    BY <2>2, <2>3 DEF CallSet
  <2>5. c = [c2 EXCEPT !.sent = y]
    <3>1. call.sent \o SubSeq(readable_view(buf), 1, k) = y
      BY <1>4, <1>5, <1>7, <1>8, Zenon
    <3>2. c = [call EXCEPT !.total = t, !.got = g, !.sent = y]
      BY <1>9, <2>0, <3>1, Zenon
    <3> QED BY <2>1, <2>2, <3>2, Zenon
  <2> QED BY <2>0, <2>4, <2>5 DEF CallSet
<1>11. c.had = c.sent \o readable_view(buf')
  <2>1. (u \o p) \o q = u \o (p \o q)
    BY ConcatAssociative, SMTT(60)
  <2> QED BY <1>4, <1>5, <1>6, <1>7, <1>8, <1>10, <2>1, Zenon
<1>12. c.op = "write_certain" => c.total = c.n - Len(c.sent)
  <2>1. Len(u) \in Nat
    BY LenProperties
  <2>2. c.op = call.op /\ c.n = call.n /\ c.total = call.total - k /\ Len(c.sent) = Len(u) + k
    BY <1>8, <1>10, Zenon
  <2>3. call.op = "write_certain" => call.total = call.n - Len(u)
    BY <1>6, <1>7, Zenon
  <2> QED BY <1>1, <1>6, <2>1, <2>2, <2>3
<1>13. kind' = kind /\ calls' = calls /\ UNCHANGED peer
  BY DEF SendData
<1>14. CASE call.op # "write_some" /\ Wants(c.op, c.total, buf')
  <2>1. call' = c /\ result' = result
    BY <1>2, <1>9, <1>14 DEF SendData
  <2>2. result = NoResult /\ result \in ResultSet /\ result.op = "none"
    BY <1>1, NoResultFields DEF CallInv, Writers
  <2>3. TypeInv'
    BY <1>1, <1>3, <1>10, <1>13, <2>1, <2>2 DEF TypeInv, peer
  <2>4. WriteDelivers' /\ ReadersRight'
    BY <2>1, <2>2, Quiet
  <2>5. CallInv'
    BY <1>1, <1>10, <1>11, <1>12, <2>1, <2>2 DEF CallInv, Writers, LineReaders
  <2> QED BY <1>1, <1>3, <1>13, <2>3, <2>4, <2>5, PeerKept DEF IInv
<1>15. CASE ~(call.op # "write_some" /\ Wants(c.op, c.total, buf'))
  <2>1. Ended(c, "ok", k)
    BY <1>2, <1>9, <1>15 DEF SendData
  <2>2. call' \in CallSet /\ call'.op = "none" /\ result' \in ResultSet /\ WriteDelivers' /\ ReadersRight'
    BY <1>1, <1>3, <1>10, <1>11, <1>12, <1>15, <2>1, WriterDone
  <2>3. TypeInv'
    BY <1>1, <1>3, <1>13, <2>2 DEF TypeInv, peer
  <2> QED BY <1>1, <1>3, <1>13, <2>2, <2>3, PeerKept, NoCall DEF IInv
<1> QED BY <1>14, <1>15

LEMMA SendZeroStep ==
  ASSUME IInv, SendZero
  PROVE  IInv'
<1>1. /\ TypeInv /\ PeerInv /\ FifoInv /\ CallInv /\ BufferOK(buf) /\ call \in CallSet
      /\ readable(buf) = 0 /\ call.op \in Writers
  BY DEF IInv, TypeInv, SendZero
<1>2. CASE call.op = "write_some"
  <2>1. buf' = has_read(buf, 0) /\ Ended(call, "ok", 0) /\ 0 \in 0 .. readable(buf)
    BY <1>1, <1>2 DEF SendZero
  <2>2. BufferOK(buf') /\ readable(buf') = 0 - 0 /\ HeldBy(buf', {})
    BY <1>1, <2>1, HasRead DEF FifoInv
  <2>3. readable(buf') = 0
    BY <2>2
  <2>4. readable_view(buf') \in Seq(Bytes) /\ Len(readable_view(buf')) = 0
    BY <2>2, <2>3, View
  <2>5. fifo' = fifo /\ fifo \in Seq(Bytes) /\ Len(fifo) = 0
    BY <1>1 DEF FifoInv, SendZero, past
  <2>6. readable_view(buf') = fifo
    BY <2>4, <2>5, BothEmpty
  <2>7. FifoInv'
    BY <2>2, <2>3, <2>5, <2>6 DEF FifoInv, HeldBy
  <2>8. /\ call' \in CallSet /\ call'.op = "none" /\ result' \in ResultSet
        /\ result'.op = "write_some" /\ result'.ret = "ok"
    BY <1>1, <1>2, <2>1, EndedFields DEF Rets
  <2>9. kind' = kind /\ calls' = calls /\ clobbered' = clobbered /\ UNCHANGED peer
    BY DEF SendZero, past
  <2>10. TypeInv'
    BY <1>1, <2>2, <2>8, <2>9 DEF TypeInv, peer
  <2>11. WriteDelivers' /\ ReadersRight'
    BY <2>8, Quiet
  <2> QED BY <1>1, <2>7, <2>8, <2>9, <2>10, <2>11, PeerKept, NoCall DEF IInv
<1>3. CASE call.op # "write_some"
  <2>1. Ended(call, "eof", 0) /\ UNCHANGED <<kind, buf, calls, peer, past>>
    BY <1>3 DEF SendZero
  <2>2. call.op # "read_some"
    BY <1>1 DEF Writers
  <2> QED BY <2>1, <2>2, Failing DEF Rets
<1> QED BY <1>2, <1>3

LEMMA PeerStep ==
  ASSUME IInv, PeerSends \/ PeerCloses
  PROVE  IInv'
<1>1. TypeInv /\ PeerInv /\ FifoInv /\ CallInv /\ WriteDelivers /\ ReadersRight /\ Len(PeerBytes) \in Nat
  BY StreamAssumption DEF IInv
<1>2. UNCHANGED <<kind, buf, call, result, calls, received, fifo, given, clobbered>>
  BY DEF PeerSends, PeerCloses, past
<1>3. PeerInv' /\ closed' \in BOOLEAN /\ (closed => closed')
  <2>1. CASE PeerSends
    <3>1. ~closed /\ closed' = closed /\ closed \in BOOLEAN
      BY <1>1, <2>1 DEF PeerInv, PeerSends, TypeInv
    <3>2. arrived' \in 0 .. Len(PeerBytes) /\ received' \in 0 .. arrived'
      BY <1>1, <2>1 DEF PeerInv, PeerSends
    <3> QED BY <3>1, <3>2, Zenon DEF PeerInv
  <2>2. CASE PeerCloses
    BY <1>1, <2>2, Zenon DEF PeerInv, PeerCloses
  <2> QED BY <2>1, <2>2
<1>4. TypeInv'
  BY <1>1, <1>2, <1>3 DEF TypeInv
<1>5. FifoInv' /\ CallInv' /\ WriteDelivers'
  BY <1>1, <1>2, Zenon DEF FifoInv, CallInv, WriteDelivers
<1>6. ReadersRight'
  BY <1>1, <1>2, <1>3, Zenon DEF ReadersRight
<1> QED BY <1>3, <1>4, <1>5, <1>6 DEF IInv

LEMMA StepHolds ==
  IInv /\ [Next]_vars => IInv'
<1> SUFFICES ASSUME IInv, [Next]_vars PROVE IInv'
  OBVIOUS
<1>1. ASSUME NEW len \in Lengths, PopString(len) \/ PushBack(len) PROVE IInv'
  BY <1>1, PopStep, PushStep
<1>2. ASSUME NEW timed \in BOOLEAN, ReadSome(timed) PROVE IInv'
  BY <1>2, ReadSomeStep
<1>3. ASSUME NEW timed \in BOOLEAN, NEW n \in Lengths, ReadUntil("read_certain", timed, n) PROVE IInv'
  <2>1. n \in Nat /\ "read_certain" \in LineReaders
    BY StreamAssumption DEF LineReaders
  <2> QED BY <1>3, <2>1, ReadUntilStep
<1>4. ASSUME NEW timed \in BOOLEAN, NEW op \in {"read_line", "read_crlf_line"}, ReadUntil(op, timed, 0) PROVE IInv'
  <2>1. 0 \in Nat /\ op \in LineReaders
    BY DEF LineReaders
  <2> QED BY <1>4, <2>1, ReadUntilStep
<1>5. ASSUME NEW timed \in BOOLEAN, NEW op \in {"write_some", "write_all"}, Write(op, timed, 0) PROVE IInv'
  <2>1. 0 \in Nat /\ op \in Writers
    BY DEF Writers
  <2> QED BY <1>5, <2>1, WriteStep
<1>6. ASSUME NEW timed \in BOOLEAN, NEW n \in Lengths, Write("write_certain", timed, n) PROVE IInv'
  <2>1. n \in Nat /\ "write_certain" \in Writers
    BY StreamAssumption DEF Writers
  <2> QED BY <1>6, <2>1, WriteStep
<1>7. ASSUME Completes PROVE IInv'
  BY <1>7, RecvDataStep, RecvZeroStep, SendDataStep, SendZeroStep DEF Completes
<1>8. ASSUME UNCHANGED vars PROVE IInv'
  <2>1. UNCHANGED <<kind, buf, call, result, calls, arrived, received, closed, fifo, given, clobbered>>
    BY <1>8, Zenon DEF vars, peer, past
  <2>2. TypeInv' /\ PeerInv'
    BY <2>1, Zenon DEF IInv, TypeInv, PeerInv
  <2>3. FifoInv' /\ CallInv'
    BY <2>1, Zenon DEF IInv, FifoInv, CallInv
  <2>4. WriteDelivers'
    BY <2>1, Zenon DEF IInv, WriteDelivers
  <2>5. ReadersRight'
    BY <2>1, Zenon DEF IInv, ReadersRight
  <2> QED BY <2>2, <2>3, <2>4, <2>5, Zenon DEF IInv
<1>9. CASE Next
  BY <1>1, <1>2, <1>3, <1>4, <1>5, <1>6, <1>7, <1>9, ErrorStep, PeerStep DEF Next
<1> QED BY <1>8, <1>9

-----------------------------------------------------------------------------
LEMMA Invariant ==
  Spec => []IInv
BY InitHolds, StepHolds, PTL DEF Spec

\* The buffer never loses count of its bytes and never shows one that was not put into
\* it since it was last empty, also after make_room has rewound a partly read buffer;
\* until that happens it holds the unread ones, in their order.  For any sizes,
\* arguments, short counts and number of calls.
THEOREM BufferKeepsAccount == Spec => []BufferAccounts
<1>1. IInv => BufferAccounts
  <2> SUFFICES ASSUME IInv PROVE BufferAccounts
    OBVIOUS
  <2>1. BufferOK(buf) /\ call \in CallSet /\ result \in ResultSet /\ kind \in Kinds /\ Len(PeerBytes) \in Nat
    BY StreamAssumption DEF IInv, TypeInv
  <2>2. call.op \in Ops /\ result.op \in Ops /\ result.ret \in Rets
    BY <2>1 DEF CallSet, ResultSet
  <2>3. 0 <= buf.r /\ buf.r <= buf.w /\ buf.w <= Len(buf.data) /\ buf.r \in Nat /\ buf.w \in Nat
    BY <2>1, BufferTypes
  <2>4. received <= arrived /\ arrived <= Len(PeerBytes)
    BY <2>1 DEF IInv, PeerInv
  <2>5. TypeOK
    BY <2>1, <2>2, <2>3, <2>4 DEF TypeOK, Rets
  <2>6. ASSUME NEW i \in 1 .. readable(buf) PROVE readable_view(buf)[i] \in given
    <3>1. readable_view(buf)[i] = buf.data[buf.r + i]
      BY <2>1, View
    <3>2. buf.r + i \in 1 .. buf.w
      BY <2>3 DEF readable
    <3> QED BY <3>1, <3>2 DEF IInv, FifoInv, HeldBy
  <2>7. readable(buf) = Len(fifo) /\ (~clobbered => readable_view(buf) = fifo)
    BY DEF IInv, FifoInv
  <2> QED BY <2>5, <2>6, <2>7 DEF BufferAccounts
<1> QED BY <1>1, Invariant, PTL

\* write_all and write_certain return when exactly the bytes they should send
\* were handed to the kernel, in order, however the kernel cuts the sends.
THEOREM WritersDeliver == Spec => []WriteDelivers
<1>1. IInv => WriteDelivers
  BY DEF IInv
<1> QED BY <1>1, Invariant, PTL

\* read_line and the untimed read_crlf_line return the length of the first line, its
\* terminator included; no reader of a line or of a number of bytes returns after it
\* received anything; and read_some reports end of file only at the end of what the
\* peer sent.
THEOREM ReadersReturnRight == Spec => []ReadersRight
<1>1. IInv => ReadersRight
  BY DEF IInv
<1> QED BY <1>1, Invariant, PTL
=============================================================================
