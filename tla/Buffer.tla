------------------------------- MODULE Buffer -------------------------------
(***************************************************************************)
(* fixed_buffer and flex_buffer: a container with a read and a write       *)
(* index, as pure operators on [data, r, w].  data is the container (its   *)
(* length is size()), r and w are index_read_ and index_write_.            *)
(***************************************************************************)
EXTENDS Integers, Sequences

CONSTANT Zero   \* a byte of a new container

NewBuffer(size) == [data |-> [i \in 1..size |-> Zero], r |-> 0, w |-> 0]

readable(b) == b.w - b.r
writable(b) == Len(b.data) - b.w
readable_view(b) == SubSeq(b.data, b.r + 1, b.w)

\* Mutant: only the read index is reset.
clear_read_index(b) == [b EXCEPT !.r = 0]

clear(b) == [b EXCEPT !.r = 0, !.w = 0]

\* Its assertion, len <= readable(), is the caller's concern here.
has_read(b, len) == IF len = readable(b) THEN clear(b) ELSE [b EXCEPT !.r = @ + len]
has_written(b, len) == [b EXCEPT !.w = @ + len]

\* What a write of the bytes s at back() leaves in the container; the kernel
\* does this for recv, the buffer itself for push_back.
Store(b, s) ==
  [b EXCEPT !.data = [i \in DOMAIN @ |-> IF i \in (b.w + 1)..(b.w + Len(s)) THEN s[i - b.w] ELSE @[i]]]

\* The first part of make_room.  The bytes are "moved" from front() to
\* data() + index_read_, which is the same place; only the indices move.
Rewind(b) == IF b.r > 0 THEN [b EXCEPT !.r = 0, !.w = readable(b)] ELSE b
\* Whether that left bytes at the front that are not the unread ones.
Clobbers(b) == b.r > 0 /\ readable(b) > 0

\* fixed_buffer::make_room throws, flex_buffer::make_room resizes.
FixedHasRoom(b, want) == writable(Rewind(b)) >= want
fixed_make_room(b, want) == Rewind(b)

flex_make_room(b, want) ==
  LET c == Rewind(b) IN
  IF writable(c) >= want THEN c
  ELSE [c EXCEPT !.data = @ \o [i \in 1..(want - writable(c)) |-> Zero]]

\* emplace_back, and what push_back does after make_room.
push_bytes(b, s) == has_written(Store(b, s), Len(s))

\* std::search and memchr: the first place of pat in s, 0 for none.
Search(s, pat) ==
  LET P == {i \in 1..(Len(s) - Len(pat) + 1) : SubSeq(s, i, i + Len(pat) - 1) = pat}
  IN IF P = {} THEN 0 ELSE CHOOSE i \in P : \A j \in P : i <= j

\* The result of pop_string.
pop_string(b, len) == SubSeq(readable_view(b), 1, IF len > readable(b) THEN readable(b) ELSE len)
=============================================================================
