---------------------------- MODULE FormatBuffer ----------------------------
(***************************************************************************)
(* The buffers format_to writes through: a contiguous container, which is  *)
(* a string and no other; any other output iterator, the logger's into its *)
(* vector among them, behind a small array; the same limited to n          *)
(* characters; n characters in place; a counter; and memory_buffer with    *)
(* its inline store.                                                       *)
(*                                                                         *)
(* data is the memory the buffer writes to, as long as its capacity; size  *)
(* of its characters are written.  out is what has left the buffer, count  *)
(* what the limit has counted.                                             *)
(***************************************************************************)
EXTENDS Integers, Sequences

CONSTANTS
    BufferSize,   \* the 256 of the iterator buffers
    InlineSize    \* the inline store of memory_buffer, 500

Junk(n) == [i \in 1..n |-> "junk"]

\* begin is what the container already holds; n the limit of a fixed buffer.
MakeBuffer(kind, begin, n) ==
    [kind |-> kind, out |-> <<>>, count |-> 0, limit |-> n,
     inPlace |-> kind = "fixed_pointer",
     size |-> IF kind = "container" THEN Len(begin) ELSE 0,
     data |-> CASE kind = "container"     -> begin
                [] kind = "fixed_pointer" -> Junk(n)
                [] kind = "memory"        -> Junk(InlineSize)
                [] kind \in {"iterator", "fixed", "counting"} -> Junk(BufferSize)]

\* How many of size characters still go out.
limit(b, size) ==
    LET n == IF b.limit > b.count THEN b.limit - b.count ELSE 0
    IN  IF b.kind \in {"fixed", "fixed_pointer"} /\ n < size THEN n ELSE size

\* In place, the characters are already where they belong: the destination
\* moves on, and what follows goes to the array, to be dropped.
flush(b) ==
    LET n == limit(b, b.size)
    IN  IF b.kind = "fixed_pointer"
        THEN [b EXCEPT !.count = @ + b.size, !.size = 0, !.inPlace = FALSE,
                       !.out  = IF b.inPlace THEN SubSeq(b.data, 1, n) ELSE @,
                       !.data = IF b.inPlace THEN Junk(BufferSize) ELSE @]
        ELSE [b EXCEPT !.out = @ \o SubSeq(b.data, 1, n), !.count = @ + b.size, !.size = 0]

\* basic_memory_buffer::grow: half as much again, or what is asked for.
MemoryCapacity(old, size) == IF size > old + old \div 2 THEN size ELSE old + old \div 2

Extend(b, capacity) ==
    [b EXCEPT !.data = SubSeq(@, 1, b.size) \o Junk(capacity - b.size)]

\* The container is resized to what is asked for, and that is its capacity.
grow(b, capacity) ==
    CASE b.kind = "container" -> [b EXCEPT !.data = @ \o Junk(capacity - Len(@))]
      [] b.kind = "memory"    -> Extend(b, MemoryCapacity(Len(b.data), capacity))
      [] b.kind \in {"iterator", "fixed"} -> IF b.size = BufferSize THEN flush(b) ELSE b
      [] b.kind = "fixed_pointer" -> IF b.size = Len(b.data) THEN flush(b) ELSE b
      [] b.kind = "counting" ->
           IF b.size # BufferSize THEN b ELSE [b EXCEPT !.count = @ + b.size, !.size = 0]

try_reserve(b, capacity) == IF capacity > Len(b.data) THEN grow(b, capacity) ELSE b

Put(b, text) ==
    [b EXCEPT !.size = @ + Len(text),
              !.data = [i \in DOMAIN @ |-> IF i \in b.size + 1..b.size + Len(text)
                                           THEN text[i - b.size] ELSE @[i]]]

RECURSIVE append(_, _)
append(b, text) ==
    LET r == try_reserve(b, b.size + Len(text))
        n == IF Len(r.data) - r.size < Len(text) THEN Len(r.data) - r.size ELSE Len(text)
    IN  IF text = <<>> THEN b
        ELSE append(Put(r, SubSeq(text, 1, n)), SubSeq(text, n + 1, Len(text)))

\* One by one; as long as there is room, asking for one more changes nothing.
RECURSIVE push_back(_, _)
push_back(b, text) ==
    LET r == try_reserve(b, b.size + 1)
        n == IF Len(r.data) - r.size < Len(text) THEN Len(r.data) - r.size ELSE Len(text)
    IN  IF text = <<>> THEN b
        ELSE push_back(Put(r, SubSeq(text, 1, n)), SubSeq(text, n + 1, Len(text)))

\* to_pointer: the characters are written in place if they all fit, else appended.
Fill(b, text) == IF Len(b.data) < b.size + Len(text) THEN append(b, text) ELSE Put(b, text)

Perform(b, op) ==
    CASE op.op = "reserve" -> try_reserve(b, b.size + op.n)
      [] op.op = "push"    -> push_back(b, op.text)
      [] op.op = "append"  -> append(b, op.text)
      [] op.op = "direct"  -> Fill(b, op.text)

\* out(), and the destructor when the call ends with an exception.
Finish(b) == IF b.kind \in {"iterator", "fixed", "fixed_pointer"} THEN flush(b) ELSE b

\* What the caller then has.
Delivered(b) ==
    CASE b.kind = "container" -> b.data
      [] b.kind = "memory"    -> SubSeq(b.data, 1, b.size)
      [] b.kind \in {"iterator", "fixed", "fixed_pointer"} -> b.out
      [] b.kind = "counting"  -> <<>>

\* count() of the limited and of the counting buffers.
Counted(b) == b.count + b.size

=============================================================================
