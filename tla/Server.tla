------------------------------- MODULE Server -------------------------------
(***************************************************************************)
(* The two example servers, and a client: what acceptor, socket,           *)
(* file_descriptor, file, connect_to and buffer_pool do together on one    *)
(* io_context.  In mode "http" server() accepts and spawns do_http, in     *)
(* mode "echo" event_loop() accepts and spawns echo_loop, in mode "client" *)
(* coroutines call connect_to.                                             *)
(*                                                                         *)
(* Coroutines interleave at co_await only: an action is the completion of  *)
(* one awaited operation with the code up to the next co_await.  write_all *)
(* is one operation here (see Stream).  The kernel hands out the lowest    *)
(* free descriptor number and has no more than Limit of them.              *)
(***************************************************************************)
EXTENDS Http

CONSTANTS
  Modes,      \* a subset of {"http", "echo", "client"}
  NumConns,   \* connections, or clients
  Limit,      \* descriptors
  NumBlocks,  \* blocks of the buffer pool
  BlockSize,  \* bytes of a block
  BufferSize, \* of do_http's read buffer
  AtLeast,    \* READ_BUFFER_AT_LEAST_WRITABLE
  Scripts,    \* connection -> what its peer may send, a set of [text, ends, status]:
              \* the words, where each request in them ends and what it should get
  Files       \* path -> [dir, ext, content]

ASSUME ServerAssumption ==
  /\ Modes \subseteq {"http", "echo", "client"}
  /\ {NumConns, NumBlocks, BufferSize} \subseteq Nat
  /\ {Limit, BlockSize, AtLeast} \subseteq Nat \ {0}
  /\ \A c \in 1..NumConns : Scripts[c] \subseteq [text : Seq(Words), ends : Seq(Nat), status : Seq(Nat)]
  /\ \A p \in DOMAIN Files : Files[p] \in [dir : BOOLEAN, ext : STRING, content : Seq(Words)]

Conns == 1..NumConns
Blocks == 1..NumBlocks
Fds == 0..(Limit - 1)
Free == <<"free", 0>>
Listen == <<"listen", 0>>
DevNull == <<"null", 0>>
Conn(c) == <<"conn", c>>
FileOf(c) == <<"file", c>>

VARIABLES
  mode,
  fdt,       \* descriptor -> what it refers to
  closing,   \* descriptor -> close requests in flight (spawned by destructors)
  srv,       \* the accepting coroutine: [pc, fd]
  backup,    \* acceptor::backupfd_, -1 for none
  nextConn,  \* the next connection to be accepted
  co,        \* connection -> the coroutine that handles it, a record as in NoCo
  script,    \* connection -> what its peer sends
  taken,     \* connection -> how much of it was received
  out,       \* connection -> what its peer was sent
  asked,     \* history: connection -> the number of requests its handler found, the
             \* ones it sent nothing for, and whether some read of it brought
             \* anything but exactly one request
  blk,       \* block -> [owner, buf]
  shed,      \* history: accept() has taken the ENFILE branch
  leaked     \* history: descriptors dropped by an exception

vars == <<mode, fdt, closing, srv, backup, nextConn, co, script, taken, out, asked, blk, shed, leaked>>
server == <<srv, backup, nextConn>>
net == <<script, taken, out, asked>>
history == <<shed, leaked>>

\* A handler: its socket, its file, what it has read of the file, the block it
\* holds, its read buffer, parser, close flag and status.
NoCo == [pc |-> "none", fd |-> -1, file |-> -1, done |-> 0, size |-> 0, block |-> 0,
         buf |-> NewBuffer(BufferSize), ctx |-> NewContext, close |-> FALSE, status |-> 0]

EchoScript == [text |-> <<Word("a"), Word("b"), WordEol("c")>>, ends |-> <<>>, status |-> <<>>]
NewBlock == [owner |-> "new", buf |-> NewBuffer(BlockSize)]

Init ==
  /\ mode \in Modes
  /\ fdt = [f \in Fds |-> IF f = 0 /\ mode # "client" THEN Listen ELSE Free]
  /\ closing = [f \in Fds |-> 0]
  /\ srv = [pc |-> CASE mode = "http" -> "enable" [] mode = "echo" -> "provide" [] OTHER -> "done", fd |-> -1]
  /\ backup = -1 /\ nextConn = 1
  /\ co = [c \in Conns |-> IF mode = "client" THEN [NoCo EXCEPT !.pc = "connect_to"] ELSE NoCo]
  /\ script \in [Conns -> UNION {Scripts[c] : c \in Conns} \cup {EchoScript}]
  /\ \A c \in Conns : script[c] \in IF mode = "http" THEN Scripts[c] ELSE {EchoScript}
  /\ taken = [c \in Conns |-> 0]
  /\ out = [c \in Conns |-> <<>>]
  /\ asked = [c \in Conns |-> [found |-> 0, silent |-> {}, cut |-> FALSE]]
  /\ blk = [b \in Blocks |-> NewBlock]
  /\ shed = FALSE /\ leaked = {}

-----------------------------------------------------------------------------
(* Descriptors *)

Room == \E f \in Fds : fdt[f] = Free
LowestFree == CHOOSE f \in Fds : fdt[f] = Free /\ \A g \in Fds : fdt[g] = Free => f <= g
Refers(fd) == IF fd \in Fds THEN fdt[fd] ELSE Free
\* close(2): a number that is not open is refused, with no effect.
Closed(fd) == IF fd \in Fds THEN [fdt EXCEPT ![fd] = Free] ELSE fdt

\* ~file_descriptor of the descriptors in F: a spawned coroutine closes each.
file_descriptor_dtor(F) == closing' = [f \in Fds |-> IF f \in F THEN closing[f] + 1 ELSE closing[f]]
KernelCloses(f) ==
  /\ closing[f] > 0
  /\ closing' = [closing EXCEPT ![f] = @ - 1]
  /\ fdt' = Closed(f)
  /\ UNCHANGED <<mode, server, co, net, blk, history>>

-----------------------------------------------------------------------------
(* acceptor, and the accepting coroutine *)

At(pc) == srv.pc = pc
Goto(pc) == srv' = [srv EXCEPT !.pc = pc]
\* The head of the accept loop: stop may have been requested at any time, but
\* event_loop does not look.
LoopHeads == IF mode = "http" THEN {"accept", "done"} ELSE {"accept"}
Loop == \E pc \in LoopHeads : srv' = [pc |-> pc, fd |-> -1]

\* better_enable: listen, and open the spare descriptor.
better_enable ==
  /\ At("enable")
  /\ \/ Room /\ fdt' = [fdt EXCEPT ![LowestFree] = DevNull] /\ backup' = LowestFree
     \/ fdt' = fdt /\ backup' = -1
  /\ Goto("provide")
  /\ UNCHANGED <<mode, closing, nextConn, co, net, blk, history>>

\* provide_group_contiguous: the kernel gets the blocks, then the pool's own
\* selected_buffers are built; the exception of an error terminates the program.
provide_group_contiguous ==
  /\ At("provide")
  /\ \/ blk' = [b \in Blocks |-> [NewBlock EXCEPT !.owner = "kernel"]] /\ Loop
     \/ blk' = blk /\ Goto("stopped")
  /\ UNCHANGED <<mode, fdt, closing, backup, nextConn, co, net, history>>

\* co_spawn of a handler for a connection with descriptor fd: it runs to its
\* first receive.
Spawned(c, fd) ==
  co' = [co EXCEPT ![c] = [NoCo EXCEPT !.pc = IF mode = "http" THEN "recv" ELSE "pool_read", !.fd = fd]]

\* accept(): the next connection gets the lowest free descriptor.
AcceptConn ==
  /\ At("accept") /\ nextConn \in Conns /\ Room /\ fdt[0] = Listen
  /\ fdt' = [fdt EXCEPT ![LowestFree] = Conn(nextConn)]
  /\ Spawned(nextConn, LowestFree)
  /\ nextConn' = nextConn + 1
  /\ Loop
  /\ UNCHANGED <<mode, closing, backup, net, blk, history>>

\* EINTR is not an error: the handler is given an invalid socket.
AcceptEintr ==
  /\ At("accept") /\ nextConn \in Conns
  /\ Spawned(nextConn, -1)
  /\ nextConn' = nextConn + 1
  /\ Loop
  /\ UNCHANGED <<mode, fdt, closing, backup, net, blk, history>>

\* Any other error is thrown.  server() then stops the io_context, which still
\* completes what it has reaped; event_loop() only ends.
AcceptThrows == IF mode = "http" THEN Goto("stopped") ELSE Goto("done")
AcceptError ==
  /\ At("accept") /\ nextConn \in Conns
  /\ AcceptThrows
  /\ UNCHANGED <<mode, fdt, closing, backup, nextConn, co, net, blk, history>>

\* ENFILE: give up the spare descriptor.  Nothing sets it in enable(), so in
\* mode "echo" any descriptor may be the one that is closed.
AcceptEnfile ==
  /\ At("accept") /\ nextConn \in Conns /\ ~Room
  /\ \E f \in (IF mode = "http" THEN {backup} ELSE Fds \cup {-1}) : fdt' = Closed(f)
  /\ shed' = TRUE
  /\ Goto("accept2")
  /\ UNCHANGED <<mode, closing, backup, nextConn, co, net, blk, leaked>>

\* The second accept.  A connection is closed at once and the spare
\* descriptor opened again; on an error backupfd_ keeps its stale number.
AcceptAgain ==
  /\ At("accept2")
  /\ \/ /\ Room /\ fdt[0] = Listen
        /\ fdt' = [fdt EXCEPT ![LowestFree] = Conn(nextConn)]
        /\ srv' = [pc |-> "close_conn", fd |-> LowestFree]
        /\ UNCHANGED <<co, nextConn>>
     \/ AcceptThrows /\ UNCHANGED <<fdt, co, nextConn>>
     \/ Spawned(nextConn, -1) /\ nextConn' = nextConn + 1 /\ Loop /\ fdt' = fdt
  /\ UNCHANGED <<mode, closing, backup, net, blk, history>>

CloseConn ==
  /\ At("close_conn")
  /\ fdt' = Closed(srv.fd)
  /\ Goto("reopen")
  /\ UNCHANGED <<mode, closing, backup, nextConn, co, net, blk, history>>

\* ... and the number of the closed descriptor is returned as the connection.
Reopen ==
  /\ At("reopen")
  /\ \/ Room /\ fdt' = [fdt EXCEPT ![LowestFree] = DevNull] /\ backup' = LowestFree
     \/ fdt' = fdt /\ backup' = -1
  /\ Spawned(nextConn, srv.fd)
  /\ nextConn' = nextConn + 1
  /\ Loop
  /\ UNCHANGED <<mode, closing, net, blk, history>>

-----------------------------------------------------------------------------
(* buffer_pool *)

\* Mutant: the block is given back as it is.
GivenBackUncleared(b) == [blk EXCEPT ![b].owner = "providing"]

\* ~selected_buffer_resource: ask the kernel to take the block, and clear it.
GivenBack(b) == [blk EXCEPT ![b] = [owner |-> "providing", buf |-> clear(@.buf)]]

\* The result of provide_buffers is ignored.
KernelTakes(b) ==
  /\ blk[b].owner = "providing"
  /\ \E o \in {"kernel", "lost"} : blk' = [blk EXCEPT ![b].owner = o]
  /\ UNCHANGED <<mode, fdt, closing, server, co, net, history>>

\* buffer_pool_base::read after its co_await: block b now holds the bytes s.
Selected(b, s) ==
  /\ blk[b].owner = "kernel"
  /\ blk' = [blk EXCEPT ![b] = [owner |-> "user", buf |-> has_written(Store(@.buf, s), Len(s))]]

-----------------------------------------------------------------------------
(* The handlers *)

Is(c, pc) == co[c].pc = pc
\* The handler ends, by return or by exception: its descriptors are destroyed.
Ends(c) ==
  /\ co' = [co EXCEPT ![c] = [NoCo EXCEPT !.pc = "ended"]]
  /\ file_descriptor_dtor({co[c].fd, co[c].file} \cap Fds)

\* buffer_pool_base::read throws before it takes hold of a block: one that the
\* kernel has selected for the read by then is nobody's.
PoolReadThrows ==
  \/ blk' = blk
  \/ \E b \in Blocks : blk[b].owner = "kernel" /\ blk' = [blk EXCEPT ![b].owner = "lost"]

\* do_http with locals h, back at its loop head, the file destroyed if there
\* was one: ctx.reset(), then read_some's make_room, or the end.
NextRequest(c, h) ==
  IF h.close
  THEN /\ co' = [co EXCEPT ![c] = [NoCo EXCEPT !.pc = "ended"]]
       /\ file_descriptor_dtor({h.fd, h.file} \cap Fds)
  ELSE /\ co' = [co EXCEPT ![c] = [h EXCEPT
                   !.pc = "recv", !.ctx = NewContext, !.buf = flex_make_room(@, AtLeast),
                   !.file = -1, !.done = 0, !.size = 0, !.status = 0, !.block = 0]]
       /\ file_descriptor_dtor({h.file} \cap Fds)

\* Whose data a receive on the handler's descriptor would get.
Sender(c) == IF Refers(co[c].fd)[1] = "conn" THEN Refers(co[c].fd)[2] ELSE 0

\* Whether the next k words of peer s are exactly one request.
OneRequest(s, k) ==
  \E i \in DOMAIN script[s].ends :
    /\ taken[s] = IF i = 1 THEN 0 ELSE script[s].ends[i - 1]
    /\ taken[s] + k = script[s].ends[i]

\* What do_http does with the parser's answer p.
Parsed(c, p) ==
  LET h == [co[c] EXCEPT !.buf = p.buf, !.ctx = p.ctx] IN
  IF p.ok /\ ~gotAll(p.ctx) THEN NextRequest(c, h)
  ELSE /\ closing' = closing
       /\ co' = [co EXCEPT ![c] =
            IF ~p.ok THEN [h EXCEPT !.pc = "header", !.close = TRUE, !.status = 400]
            ELSE IF p.ctx.req.path = "public/bench"
            THEN [h EXCEPT !.pc = "header", !.close = keepalive(p.ctx.req), !.status = 404]
            ELSE [h EXCEPT !.pc = "open", !.close = keepalive(p.ctx.req)]]

\* read_some returns k words: parse, and act on the result.
HttpRecv(c, k) ==
  /\ Is(c, "recv") /\ Sender(c) # 0
  /\ k <= writable(co[c].buf)
  /\ LET s == Sender(c) IN
       /\ taken[s] + k <= Len(script[s].text)
       /\ taken' = [taken EXCEPT ![s] = @ + k]
       /\ \E b \in {has_written(Store(co[c].buf, SubSeq(script[s].text, taken[s] + 1, taken[s] + k)), k)} :
            \E p \in {parseRequest(co[c].ctx, b)} :
              /\ Parsed(c, p)
              /\ asked' = [asked EXCEPT ![c].found = IF p.ok /\ ~gotAll(p.ctx) THEN @ ELSE @ + 1,
                                       ![c].cut = @ \/ ~OneRequest(s, k)]
  /\ UNCHANGED <<mode, fdt, server, script, out, blk, history>>

\* Mutant: a receive that fails is tried again.
RecvFailsRetries(c) == Is(c, "recv") /\ UNCHANGED vars

\* End of file, an error, or a descriptor that is no connection.
RecvFails(c) ==
  /\ \/ Is(c, "recv") /\ blk' = blk
     \/ Is(c, "pool_read") /\ PoolReadThrows
  /\ Ends(c)
  /\ UNCHANGED <<mode, fdt, server, net, history>>

\* openat and get_statx in send_file.  bad_file is caught there: the status is
\* set, and nothing is sent.
BadFile(c) ==
  /\ NextRequest(c, co[c])
  /\ asked' = [asked EXCEPT ![c].silent = @ \cup {asked[c].found}]

OpenFile(c) ==
  /\ Is(c, "open") /\ Room /\ co[c].ctx.req.path \in DOMAIN Files
  /\ fdt' = [fdt EXCEPT ![LowestFree] = FileOf(c)]
  /\ co' = [co EXCEPT ![c].pc = "statx", ![c].file = LowestFree]
  /\ UNCHANGED <<mode, closing, server, net, blk, history>>

OpenFails(c) ==
  /\ Is(c, "open")
  /\ BadFile(c)
  /\ UNCHANGED <<mode, fdt, server, script, taken, out, blk, history>>

\* Mutant: a directory is served like a file.
get_statx_any(c) ==
  /\ Is(c, "statx")
  /\ co' = [co EXCEPT ![c].pc = "header", ![c].status = 200, ![c].size = Len(Files[co[c].ctx.req.path].content)]
  /\ UNCHANGED <<mode, fdt, closing, server, net, blk, history>>

get_statx(c) ==
  LET f == Files[co[c].ctx.req.path] IN
  /\ Is(c, "statx")
  /\ co' = [co EXCEPT ![c].pc = "header",
                      ![c].status = IF f.dir THEN 404 ELSE 200,
                      ![c].size = IF f.dir THEN 0 ELSE Len(f.content)]
  /\ UNCHANGED <<mode, fdt, closing, server, net, blk, history>>

StatxFails(c) ==
  /\ Is(c, "statx")
  /\ BadFile(c)
  /\ UNCHANGED <<mode, fdt, server, script, taken, out, blk, history>>

Header(c) ==
  LET h == co[c] IN
  appendToBuffer(h.status, h.close,
                 IF h.size = 0 THEN "none" ELSE setContentTypeByPath(Files[h.ctx.req.path].ext), h.size)
SendHeader(c) ==
  /\ Is(c, "header") /\ Sender(c) # 0
  /\ out' = [out EXCEPT ![Sender(c)] = Append(@, Header(c))]
  /\ IF co[c].size = 0 THEN NextRequest(c, co[c])
     ELSE co' = [co EXCEPT ![c].pc = "file_read"] /\ closing' = closing
  /\ UNCHANGED <<mode, fdt, server, script, taken, asked, blk, history>>

\* Mutant: the next read starts after the whole block.
FileReadSkips(c, b, k) ==
  LET content == Files[co[c].ctx.req.path].content IN
  /\ Is(c, "file_read") /\ Refers(co[c].file) = FileOf(c)
  /\ k <= BlockSize /\ co[c].done + k <= Len(content)
  /\ Selected(b, SubSeq(content, co[c].done + 1, co[c].done + k))
  /\ co' = [co EXCEPT ![c].pc = "body", ![c].block = b, ![c].done = @ + BlockSize]
  /\ UNCHANGED <<mode, fdt, closing, server, net, history>>

\* pool->read(file, GID, sent_bytes): k bytes at that offset, in some block.
FileRead(c, b, k) ==
  LET content == Files[co[c].ctx.req.path].content IN
  /\ Is(c, "file_read") /\ Refers(co[c].file) = FileOf(c)
  /\ k <= BlockSize /\ co[c].done + k <= Len(content)
  /\ Selected(b, SubSeq(content, co[c].done + 1, co[c].done + k))
  /\ co' = [co EXCEPT ![c].pc = "body", ![c].block = b, ![c].done = @ + readable(blk'[b].buf)]
  /\ UNCHANGED <<mode, fdt, closing, server, net, history>>

\* No block left (ENOBUFS), the file has become shorter, or an error.
FileReadFails(c) ==
  /\ Is(c, "file_read")
  /\ PoolReadThrows
  /\ Ends(c)
  /\ UNCHANGED <<mode, fdt, server, net, history>>

\* pool.read(conn.fd(), GID): what echo_loop receives.
EchoRead(c, b, k) ==
  LET s == Sender(c) IN
  /\ Is(c, "pool_read") /\ s # 0
  /\ k <= BlockSize /\ taken[s] + k <= Len(script[s].text)
  /\ Selected(b, SubSeq(script[s].text, taken[s] + 1, taken[s] + k))
  /\ taken' = [taken EXCEPT ![s] = @ + k]
  /\ co' = [co EXCEPT ![c].pc = "body", ![c].block = b]
  /\ UNCHANGED <<mode, fdt, closing, server, script, out, asked, history>>

\* write_all of the block, then its destructor, and the loop.
SendBody(c) ==
  LET b == co[c].block IN
  /\ Is(c, "body") /\ Sender(c) # 0
  /\ out' = [out EXCEPT ![Sender(c)] = @ \o readable_view(blk[b].buf)]
  /\ blk' = GivenBack(b)
  /\ IF mode = "http" /\ co[c].done >= co[c].size THEN NextRequest(c, co[c])
     ELSE /\ co' = [co EXCEPT ![c].pc = IF mode = "http" THEN "file_read" ELSE "pool_read", ![c].block = 0]
          /\ closing' = closing
  /\ UNCHANGED <<mode, fdt, server, script, taken, asked, history>>

\* write_all fails after some of the bytes.
SendFails(c) ==
  LET b == co[c].block  view == readable_view(blk[b].buf) IN
  /\ Is(c, "header") \/ Is(c, "body")
  /\ IF Is(c, "body") /\ Sender(c) # 0
     THEN \E k \in 0..Len(view) : out' = [out EXCEPT ![Sender(c)] = @ \o SubSeq(view, 1, k)]
     ELSE out' = out
  /\ Ends(c)
  /\ blk' = IF b = 0 THEN blk ELSE GivenBack(b)
  /\ UNCHANGED <<mode, fdt, server, script, taken, asked, history>>

\* The user of connect_to drops the connection.
CloseHandler(c) ==
  /\ Is(c, "close")
  /\ Ends(c)
  /\ UNCHANGED <<mode, fdt, server, net, blk, history>>

-----------------------------------------------------------------------------
(* connect_to *)

\* new_socket_safe, and ::bind in the overload with a local address, whose
\* exception leaves the descriptor open.
NewSocket(c) ==
  /\ Is(c, "connect_to")
  /\ \/ /\ Room /\ fdt' = [fdt EXCEPT ![LowestFree] = Conn(c)]
        /\ \/ leaked' = leaked /\ co' = [co EXCEPT ![c].pc = "connect", ![c].fd = LowestFree]
           \/ leaked' = leaked \cup {LowestFree} /\ co' = [co EXCEPT ![c].pc = "ended"]
     \/ UNCHANGED <<fdt, leaked>> /\ co' = [co EXCEPT ![c].pc = "ended"]
  /\ UNCHANGED <<mode, closing, server, net, blk, shed>>

\* Mutant: the descriptor is not closed.
handle_connect_error_keeps(c) == fdt' = fdt

\* handle_connect_error closes the descriptor and throws.
handle_connect_error(c) == fdt' = Closed(co[c].fd)

\* An error, or the linked timeout.  The overload that is given a descriptor only
\* throws: the caller still has it, and drops it later.
ConnectFails(c) ==
  /\ Is(c, "connect")
  /\ \/ handle_connect_error(c) /\ co' = [co EXCEPT ![c].pc = "ended", ![c].fd = -1]
     \/ fdt' = fdt /\ co' = [co EXCEPT ![c].pc = "close"]
  /\ UNCHANGED <<mode, closing, server, net, blk, history>>

Connected(c) ==
  /\ Is(c, "connect")
  /\ co' = [co EXCEPT ![c].pc = "close"]
  /\ UNCHANGED <<mode, fdt, closing, server, net, blk, history>>

-----------------------------------------------------------------------------
\* What happens without an error of the kernel or the network.
Handle(c) ==
  \/ \E k \in 1..writable(co[c].buf) : HttpRecv(c, k)
  \/ OpenFile(c) \/ get_statx(c) \/ SendHeader(c)
  \/ \E b \in Blocks, k \in 1..BlockSize : FileRead(c, b, k) \/ EchoRead(c, b, k)
  \/ SendBody(c) \/ CloseHandler(c) \/ NewSocket(c) \/ Connected(c)
Fail(c) ==
  RecvFails(c) \/ OpenFails(c) \/ StatxFails(c) \/ FileReadFails(c) \/ SendFails(c) \/ ConnectFails(c)
Serve == better_enable \/ provide_group_contiguous \/ AcceptConn \/ AcceptAgain \/ CloseConn \/ Reopen
Kernel == (\E f \in Fds : KernelCloses(f)) \/ (\E b \in Blocks : KernelTakes(b))

Next ==
  \/ \E c \in Conns : Handle(c) \/ Fail(c)
  \/ Serve \/ AcceptEintr \/ AcceptError \/ AcceptEnfile
  \/ Kernel

Spec == Init /\ [][Next]_vars
\* Operations in flight complete, the ones a coroutine awaits and the spawned ones: as
\* long as there is one, some one does.
FairSpec ==
  Spec /\ WF_vars(Kernel \/ Serve \/ \E c \in Conns : Handle(c) \/ Fail(c))
-----------------------------------------------------------------------------
\* Every descriptor, block and position is one there is.
TypeOK ==
  /\ mode \in Modes
  /\ \A f \in Fds : fdt[f] \in {Free, Listen, DevNull} \cup ({"conn", "file"} \X Conns)
  /\ closing \in [Fds -> Nat]
  /\ backup \in Fds \cup {-1} /\ nextConn \in 1..(NumConns + 1)
  /\ \A c \in Conns : /\ co[c].fd \in Fds \cup {-1} /\ co[c].file \in Fds \cup {-1}
                      /\ co[c].block \in Blocks \cup {0}
                      /\ taken[c] \in 0..Len(script[c].text)
  /\ \A b \in Blocks : blk[b].owner \in {"new", "kernel", "user", "providing", "lost"}

\* The descriptors something still has to close, or keeps for good.
Owners(f) ==
  {<<"conn", c>> : c \in {d \in Conns : co[d].fd = f}}
  \cup {<<"file", c>> : c \in {d \in Conns : co[d].file = f}}
  \cup {<<"backup", 0>> : x \in {y \in {1} : mode = "http" /\ backup = f}}
  \cup {<<"closing", i>> : i \in 1..closing[f]}
  \cup {<<"leaked", 0>> : x \in leaked \cap {f}}

\* Every open descriptor but the listening one has exactly one owner, and the
\* owner's number refers to what it opened; nothing is leaked and nothing is
\* closed twice, although destructors close asynchronously and numbers are
\* used again.  It ends where accept() has shed a connection: that returns a
\* number it has closed.
DescriptorOwned ==
  ~shed => \A f \in Fds :
    /\ Cardinality(Owners(f)) = IF fdt[f] \in {Free, Listen} THEN 0 ELSE 1
    /\ \A c \in Conns : /\ co[c].fd = f => fdt[f] = Conn(c)
                        /\ co[c].file = f => fdt[f] = FileOf(c)

\* A block belongs to one party at a time, and one that the kernel may fill is
\* empty: has_written after the next read cannot run past its end.
BlockOwned ==
  /\ TypeOK
  /\ \A b \in Blocks :
       /\ blk[b].owner \in {"kernel", "providing"} => blk[b].buf.w = 0
       /\ blk[b].buf.w <= BlockSize
       /\ (blk[b].owner = "user") = (\E c \in Conns : co[c].block = b)
  /\ \A c, d \in Conns : c # d /\ co[c].block # 0 => co[c].block # co[d].block

Headers(s) == {i \in DOMAIN s : "item" \in DOMAIN s[i]}
BodyAfter(s, i) ==
  LET N == {j \in Headers(s) : j > i} IN SubSeq(s, i + 1, IF N = {} THEN Len(s) ELSE Min(N) - 1)
\* What a 200 response's body must be: the content of the one file with its
\* length.
Contents == {Files[p].content : p \in DOMAIN Files}

\* Every response is framed: what follows a header is a beginning of a file of
\* the announced length, and all of it when another header follows; echo_loop
\* sends back what was received, in order.  Each holds over short reads,
\* blocks shared between connections, and failures, until a connection was
\* shed.
ResponsesFramed ==
  ~shed => \A c \in Conns :
    IF mode = "echo" THEN \E k \in 0..taken[c] : out[c] = SubSeq(script[c].text, 1, k)
    ELSE \A i \in Headers(out[c]) :
           LET body == BodyAfter(out[c], i) IN
           /\ \E content \in Contents \cup {<<>>} :
                /\ Len(content) = out[c][i].n
                /\ Len(body) <= Len(content) /\ body = SubSeq(content, 1, Len(body))
           /\ (\E j \in Headers(out[c]) : j > i) => Len(body) = out[c][i].n

\* The requests that get an answer, by their numbers; and that the n-th response a peer
\* was sent, closing ones included, has the status its request calls for.
Answerable(c) == 1..asked[c].found \ asked[c].silent
AnsweredRight(c) ==
  \A i \in Headers(out[c]) :
    \E r \in Answerable(c) \cap DOMAIN script[c].status :
      /\ Cardinality({q \in Answerable(c) : q <= r}) = Cardinality({j \in Headers(out[c]) : j <= i})
      /\ out[c][i].status = script[c].status[r]

\* do_http sends one response, and at most one, for each request that parseRequest
\* completes or refuses, unless the file cannot be opened; it owes one only between the
\* parse and the write of the header, or when that write failed.  And as long as every
\* read of the connection brought exactly one request, the n-th response, also one
\* that closes the connection, has the status that the n-th of these requests calls for.
RightAnswers ==
  ~shed => \A c \in Conns :
    /\ Cardinality(Answerable(c)) - Cardinality(Headers(out[c])) \in
         CASE co[c].pc \in {"open", "statx", "header"} -> {1}
           [] co[c].pc = "ended" -> {0, 1}
           [] OTHER -> {0}
    /\ ~asked[c].cut => AnsweredRight(c)

\* The same however the peer's bytes are cut into reads: parseRequest is to "return
\* false if any error", and only then.  It fails: do_http resets the parser after every
\* read, so the rest of a request that came in two parts is refused with 400.
AnyReadAnswered == ~shed => \A c \in Conns : AnsweredRight(c)

\* All is given back in the end: every handler ends, every descriptor but the
\* listening and the spare one is closed, and every block is with the kernel
\* again, except one whose return failed or whose read threw.  It ends where accept() has shed a
\* connection and where the program stops.
AllReleased ==
  <>[](~shed /\ ~At("stopped") =>
        /\ \A f \in Fds : fdt[f] \in {Free, Listen, DevNull} \/ f \in leaked
        /\ \A c \in Conns : co[c].pc \in {"none", "ended"}
        /\ \A b \in Blocks : blk[b].owner \in {"new", "kernel", "lost"})
=============================================================================
