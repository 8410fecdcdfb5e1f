------------------------------- MODULE Stream -------------------------------
(***************************************************************************)
(* One tcp connection used by one coroutine: the socket readers and        *)
(* writers over a buffer, against a kernel that may return short counts,   *)
(* end of file and errors, and cancels a timed operation.                  *)
(*                                                                         *)
(* The peer sends the bytes 1..Len(PeerBytes), PeerBytes[i] telling what   *)
(* byte i is ("c", "cr" or "lf"), and closes.  The coroutine calls one     *)
(* operation after the other.  A step runs from one co_await to the next:  *)
(* a call runs to its first recv or send, and the completion of that runs  *)
(* the code up to the next one or to the end of the call.                  *)
(***************************************************************************)
EXTENDS Buffer

CONSTANTS
  PeerBytes,   \* the kinds of the bytes the peer sends
  Kinds,       \* a subset of {"flex", "fixed"}
  InitSize,    \* size of the buffer
  AtLeast,     \* READ_BUFFER_AT_LEAST_WRITABLE
  Lengths,     \* arguments tried for lengths and byte counts
  MaxCalls     \* bound on the number of calls

ASSUME StreamAssumption ==
  /\ PeerBytes \in Seq({"c", "cr", "lf"})
  /\ Kinds \subseteq {"flex", "fixed"}
  /\ InitSize \in Nat /\ AtLeast \in Nat \ {0} /\ MaxCalls \in Nat
  /\ Lengths \subseteq Nat

VARIABLES
  kind,      \* the buffer's class
  buf,       \* the buffer
  call,      \* the call in progress: [op, timed, n, total, had, got, sent]
  result,    \* the last call: [op, timed, n, ret, val, had, got, sent]
  calls,     \* calls made so far
  arrived,   \* bytes of the peer that have reached the socket
  received,  \* bytes the kernel has handed over
  closed,    \* the peer has closed
  fifo,      \* history: the bytes the coroutine may expect in the buffer
  given,     \* history: the bytes appended since the buffer was last empty
  clobbered  \* history: since then make_room rewound over unread bytes, see Clobbers

peer == <<arrived, received, closed>>
past == <<fifo, given, clobbered>>
vars == <<kind, buf, call, result, calls, peer, past>>

KindOf(byte) == IF byte \in DOMAIN PeerBytes THEN PeerBytes[byte] ELSE "c"
Text(b) == [i \in 1..readable(b) |-> KindOf(readable_view(b)[i])]
find_eol(b) == Search(Text(b), <<"lf">>)
find_crlf(b) == Search(Text(b), <<"cr", "lf">>)

Idle == [op |-> "none", timed |-> FALSE, n |-> 0, total |-> 0, had |-> <<>>, got |-> 0, sent |-> <<>>]
NoResult == [op |-> "none", timed |-> FALSE, n |-> 0, ret |-> "ok", val |-> 0,
             had |-> <<>>, got |-> 0, sent |-> <<>>]
NewCall(op, timed, n) ==
  [Idle EXCEPT !.op = op, !.timed = timed, !.n = n, !.total = n, !.had = readable_view(buf)]
\* The call c returns val, throws, or fails an assertion and ends the program.
Ended(c, ret, val) ==
  /\ call' = Idle
  /\ result' = [op |-> c.op, timed |-> c.timed, n |-> c.n, ret |-> ret, val |-> val,
                had |-> c.had, got |-> c.got, sent |-> c.sent]

Init ==
  /\ kind \in Kinds
  /\ buf = NewBuffer(InitSize)
  /\ call = Idle /\ result = NoResult /\ calls = 0
  /\ arrived = 0 /\ received = 0 /\ closed = FALSE
  /\ fifo = <<>> /\ given = {} /\ clobbered = FALSE

make_room(want) == IF kind = "flex" THEN flex_make_room(buf, want) ELSE fixed_make_room(buf, want)
RoomThrows(want) == kind = "fixed" /\ ~FixedHasRoom(buf, want)
\* The history after k bytes were taken from the front of b, and after the bytes s
\* were appended.
Took(b, k) ==
  /\ fifo' = SubSeq(fifo, k + 1, Len(fifo))
  /\ given' = (IF readable(b) > k THEN given ELSE {})
  /\ clobbered' = (clobbered /\ readable(b) > k)
Gave(s) == fifo' = fifo \o s /\ given' = given \cup {s[i] : i \in DOMAIN s}

Calling == call.op = "none" /\ result.ret # "abort" /\ calls < MaxCalls /\ calls' = calls + 1

-----------------------------------------------------------------------------
(* The buffer's own operations *)

PopString(len) ==
  /\ Calling
  /\ LET s == pop_string(buf, len) IN
       /\ buf' = has_read(buf, Len(s))
       /\ Took(buf, Len(s))
       /\ Ended([NewCall("pop_string", FALSE, len) EXCEPT !.sent = s], "ok", Len(s))
  /\ UNCHANGED <<kind, peer>>

\* push_back(src, len); the bytes pushed are told apart by the call's number.
PushBack(len) ==
  /\ Calling
  /\ LET s == [i \in 1..len |-> 100 * (calls + 1) + i] IN
       /\ clobbered' = (clobbered \/ Clobbers(buf))
       /\ IF RoomThrows(len)
          THEN /\ buf' = make_room(len)
               /\ UNCHANGED <<fifo, given>>
               /\ Ended(NewCall("push_back", FALSE, len), "throw", 0)
          ELSE /\ buf' = push_bytes(make_room(len), s)
               /\ Gave(s)
               /\ Ended(NewCall("push_back", FALSE, len), "ok", 0)
  /\ UNCHANGED <<kind, peer>>

-----------------------------------------------------------------------------
(* The calls, to their first recv or send *)

ReadSome(timed) ==
  /\ Calling
  /\ buf' = make_room(AtLeast)
  /\ clobbered' = (clobbered \/ Clobbers(buf))
  /\ IF RoomThrows(AtLeast)
     THEN Ended(NewCall("read_some", timed, 0), "throw", 0)
     ELSE call' = NewCall("read_some", timed, 0) /\ result' = NoResult
  /\ UNCHANGED <<kind, peer, fifo, given>>

\* read_certain, read_line and read_crlf_line look at the buffer first.  The
\* length of a line counts its terminator, but the timed read_crlf_line
\* returns one less than the untimed one.
LineLength(op, timed) ==
  CASE op = "read_line" -> find_eol(buf)
    [] op = "read_crlf_line" /\ find_crlf(buf) # 0 -> find_crlf(buf) + (IF timed THEN 0 ELSE 1)
    [] OTHER -> 0

\* Mutant: a line is taken to end with the bytes that are there.
HasEnoughAny(op, n) == readable(buf) >= 1

HasEnough(op, n) ==
  CASE op = "read_certain" -> readable(buf) >= n
    [] op = "read_line" -> find_eol(buf) # 0
    [] op = "read_crlf_line" -> find_crlf(buf) # 0

ReadUntil(op, timed, n) ==
  /\ Calling
  /\ IF HasEnough(op, n)
     THEN Ended(NewCall(op, timed, n), "ok", LineLength(op, timed))
     ELSE call' = NewCall(op, timed, n) /\ result' = NoResult
  /\ UNCHANGED <<kind, buf, peer, past>>

\* Mutant: write_certain stops one byte early.
WantsMoreThanOne(op, total, b) ==
  CASE op = "write_some" -> TRUE
    [] op = "write_certain" -> total > 1
    [] op = "write_all" -> readable(b) # 0

\* Whether a writer needs (another) send.
Wants(op, total, b) ==
  CASE op = "write_some" -> TRUE
    [] op = "write_certain" -> total # 0
    [] op = "write_all" -> readable(b) # 0

Write(op, timed, n) ==
  /\ Calling
  /\ IF Wants(op, n, buf)
     THEN call' = NewCall(op, timed, n) /\ result' = NoResult
     ELSE Ended(NewCall(op, timed, n), "ok", 0)
  /\ UNCHANGED <<kind, buf, peer, past>>

-----------------------------------------------------------------------------
(* Completions *)

Readers == {"read_some", "read_certain", "read_line", "read_crlf_line"}
Writers == {"write_some", "write_certain", "write_all"}

\* recv(fd, back(), writable()): some bytes, stored at back(), or 0 at end of
\* file, and also when there is no room for a byte.  Only read_some calls
\* has_written; the others ask again with the same place and length.
RecvData(k) ==
  LET bytes == [i \in 1..k |-> received + i]
      c == [call EXCEPT !.got = @ + k]
  IN
  /\ call.op \in Readers
  /\ k <= writable(buf) /\ k <= arrived - received
  /\ received' = received + k
  /\ IF call.op = "read_some"
     THEN /\ buf' = has_written(Store(buf, bytes), k)
          /\ Gave(bytes)
          /\ Ended(c, "ok", k)
     ELSE /\ buf' = Store(buf, bytes)
          /\ UNCHANGED <<fifo, given>>
          /\ IF HasEnough(call.op, call.n)
             THEN Ended(c, "ok", LineLength(call.op, call.timed))
             ELSE call' = c /\ result' = result
  /\ UNCHANGED <<kind, calls, arrived, closed, clobbered>>

\* Mutant: a zero from recv is taken for a short count.
RecvZeroRetries ==
  /\ call.op \in Readers
  /\ writable(buf) = 0 \/ (closed /\ arrived = received)
  /\ IF call.op = "read_some" THEN Ended(call, "eof", 0) ELSE call' = call /\ result' = result
  /\ UNCHANGED <<kind, buf, calls, peer, past>>

RecvZero ==
  /\ call.op \in Readers
  /\ writable(buf) = 0 \/ (closed /\ arrived = received)
  /\ Ended(call, "eof", 0)
  /\ UNCHANGED <<kind, buf, calls, peer, past>>

\* A negative result: an error, or the linked timeout.
Errors == {"error"} \cup (IF call.timed THEN {"cancelled"} ELSE {})
RecvError ==
  /\ call.op \in Readers
  /\ \E e \in Errors : Ended(call, e, 0)
  /\ UNCHANGED <<kind, buf, calls, peer, past>>

\* send(fd, front(), readable()): some of the bytes.
SendData(k) ==
  LET b == has_read(buf, k)
      c == [call EXCEPT !.total = @ - k, !.got = @ + k, !.sent = @ \o SubSeq(readable_view(buf), 1, k)]
  IN
  /\ call.op \in Writers
  /\ k <= readable(buf)
  /\ buf' = b
  /\ Took(buf, k)
  /\ IF call.op # "write_some" /\ Wants(c.op, c.total, b)
     THEN call' = c /\ result' = result
     ELSE Ended(c, "ok", k)
  /\ UNCHANGED <<kind, calls, peer>>

\* With nothing to send the kernel returns 0: write_some calls has_read(0),
\* the others throw eof_error.
SendZero ==
  /\ call.op \in Writers
  /\ readable(buf) = 0
  /\ buf' = (IF call.op = "write_some" THEN has_read(buf, 0) ELSE buf)
  /\ Ended(call, IF call.op = "write_some" THEN "ok" ELSE "eof", 0)
  /\ UNCHANGED <<kind, calls, peer, past>>

SendError ==
  /\ call.op \in Writers
  /\ \E e \in Errors : Ended(call, e, 0)
  /\ UNCHANGED <<kind, buf, calls, peer, past>>

\* -EINTR is let through to has_read, whose assertion it fails.
SendInterrupted ==
  /\ call.op \in Writers
  /\ Ended(call, "abort", 0)
  /\ UNCHANGED <<kind, buf, calls, peer, past>>

\* The peer's bytes arrive one by one, then it closes (environment).
PeerSends ==
  /\ arrived < Len(PeerBytes) /\ arrived' = arrived + 1
  /\ UNCHANGED <<kind, buf, call, result, calls, received, closed, past>>
PeerCloses ==
  /\ arrived = Len(PeerBytes) /\ ~closed /\ closed' = TRUE
  /\ UNCHANGED <<kind, buf, call, result, calls, arrived, received, past>>

-----------------------------------------------------------------------------
\* A completion that is not an error.
Completes ==
  \/ \E k \in 1..writable(buf) : RecvData(k)
  \/ RecvZero
  \/ \E k \in 1..readable(buf) : SendData(k)
  \/ SendZero

Next ==
  \/ \E len \in Lengths : PopString(len) \/ PushBack(len)
  \/ \E timed \in BOOLEAN :
       \/ ReadSome(timed)
       \/ \E n \in Lengths : ReadUntil("read_certain", timed, n)
       \/ \E op \in {"read_line", "read_crlf_line"} : ReadUntil(op, timed, 0)
       \/ \E op \in {"write_some", "write_all"} : Write(op, timed, 0)
       \/ \E n \in Lengths : Write("write_certain", timed, n)
  \/ Completes \/ RecvError \/ SendError \/ SendInterrupted
  \/ PeerSends \/ PeerCloses

Spec == Init /\ [][Next]_vars
\* The kernel completes what is asked of it, and the peer goes on.
FairSpec == Spec /\ WF_vars(Completes) /\ WF_vars(PeerSends) /\ WF_vars(PeerCloses)
-----------------------------------------------------------------------------
Ops == Readers \cup Writers \cup {"none", "pop_string", "push_back"}

\* The indices stay in order and inside the container.
TypeOK ==
  /\ kind \in Kinds
  /\ 0 <= buf.r /\ buf.r <= buf.w /\ buf.w <= Len(buf.data)
  /\ call.op \in Ops /\ result.op \in Ops
  /\ result.ret \in {"ok", "eof", "error", "cancelled", "throw", "abort"}
  /\ received <= arrived /\ arrived <= Len(PeerBytes)

\* The buffer accounts for its bytes through every rewind, resize and short count: it
\* holds as many as were appended by push_back and read_some and not yet sent or
\* popped, and each is one that was appended since it was last empty.  They are the
\* unread ones, in their order, until make_room is called on a buffer that is partly
\* read; which ones they are from then on, until it is drained, is not said.
BufferAccounts ==
  /\ TypeOK
  /\ readable(buf) = Len(fifo)
  /\ \A i \in 1..readable(buf) : readable_view(buf)[i] \in given
  /\ ~clobbered => readable_view(buf) = fifo

\* The buffer is a queue: it holds the bytes that were appended and not yet taken, in
\* their order (what buffer_test expects of it).  It fails when make_room is called on a
\* partly read buffer: the "move" of the readable bytes is onto themselves.
BytesInOrder == readable_view(buf) = fifo

\* write_all returns when exactly the bytes that were in the buffer were
\* handed to the kernel, in order; write_certain when exactly nbytes were.
WriteDelivers ==
  result.ret = "ok" =>
    /\ result.op = "write_all" => result.sent = result.had /\ readable(buf) = 0
    /\ result.op = "write_certain" =>
         Len(result.sent) = result.n /\ result.sent = SubSeq(result.had, 1, Len(result.sent))

\* The length read_line and the untimed read_crlf_line return is that of the first line
\* in the buffer, its terminator included.  A reader that needs a number of bytes or a
\* line returns only what was in the buffer when it was called: whatever it receives
\* itself is not counted by has_written, and it never returns.  And read_some reports
\* end of file only when the peer has closed and everything it sent was received:
\* make_room leaves room, so a 0 cannot mean "no room".
ReadersRight ==
  LET n == result.val  text == Text(buf) IN
  /\ result.op = "read_some" /\ result.ret = "eof" => closed /\ received = Len(PeerBytes)
  /\ result.ret = "ok" =>
    /\ result.op \in {"read_certain", "read_line", "read_crlf_line"} => result.got = 0
    /\ result.op = "read_line" => n \in DOMAIN text /\ text[n] = "lf" /\ \A i \in 1..(n-1) : text[i] # "lf"
    /\ result.op = "read_crlf_line" /\ ~result.timed =>
         /\ n \in 2..Len(text) /\ text[n-1] = "cr" /\ text[n] = "lf"
         /\ \A i \in 1..(n-2) : ~(text[i] = "cr" /\ text[i+1] = "lf")

\* The doc comment of the timed read_crlf_line: "return the length of this line".  It
\* returns one less than the untimed one, the length without the LF.
TimedLineRight ==
  result.op = "read_crlf_line" /\ result.ret = "ok" =>
    result.val \in DOMAIN Text(buf) /\ Text(buf)[result.val] = "lf"

\* The doc comment of read_certain: short reads do not occur, and an error is
\* thrown only if end of file comes before nbytes bytes.
ReadCertainReads ==
  result.op = "read_certain" /\ result.ret = "eof" => Len(result.had) + result.got < result.n

\* Every call ends once the peer has sent what it has and closed: no reader
\* and no writer loops on short counts or on end of file.
CallEnds == (call.op # "none") ~> (call.op = "none")
=============================================================================
