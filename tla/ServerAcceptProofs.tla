------------------------- MODULE ServerAcceptProofs -------------------------
(***************************************************************************)
(* Proofs about the servers' descriptors and blocks, for any connections,  *)
(* requests, files and limits: the inductive invariant, that it holds      *)
(* initially, and that the kernel and the accepting coroutine keep it.     *)
(***************************************************************************)
EXTENDS Server, WellFoundedInduction, TLAPS

-----------------------------------------------------------------------------
(* Records.                                                                *)

\* The least-number principle, for sets.
LEMMA LeastNumber ==
  ASSUME NEW P \in SUBSET Nat, P # {}
  PROVE  \E x \in P : \A y \in P : ~(y < x)
<1>1. PICK x \in P : \A y \in P : ~(<<y, x>> \in OpToRel(<, Nat))
  BY NatLessThanWellFounded, WFMin
<1>2. OpToRel(<, Nat) = {ss \in Nat \X Nat : ss[1] < ss[2]}
  BY DEF OpToRel
<1>3. \A y \in P : <<y, x>> \in Nat \X Nat /\ ~(y < x)
  BY <1>1, <1>2
<1> QED BY <1>3

LEMMA FdsNat ==
  /\ NumConns \in Nat /\ NumBlocks \in Nat /\ Limit \in Nat /\ Limit > 0 /\ BlockSize \in Nat /\ BlockSize > 0
  /\ Fds \in SUBSET Nat /\ Conns \in SUBSET Nat /\ Blocks \in SUBSET Nat
  /\ -1 \notin Fds /\ 0 \notin Blocks /\ \A f \in Fds : f # -1
BY ServerAssumption DEF Fds, Conns, Blocks

\* The kernel's choice of a descriptor.
LEMMA LowestIsFree ==
  ASSUME Room
  PROVE  LowestFree \in Fds /\ fdt[LowestFree] = Free
<1>1. PICK P \in SUBSET Nat : P = {f \in Fds : fdt[f] = Free}
  BY FdsNat
<1>2. P # {}
  BY <1>1 DEF Room
<1>3. PICK x \in P : \A y \in P : ~(y < x)
  BY <1>2, LeastNumber
<1>4. x \in Fds /\ fdt[x] = Free /\ \A g \in Fds : fdt[g] = Free => x <= g
  BY <1>1, <1>3
<1> QED BY <1>4 DEF LowestFree

CoFields == {"pc", "fd", "file", "done", "size", "block", "buf", "ctx", "close", "status"}
\* A value with a handler's fields, whatever they hold.
Handler(h) == h = [x \in CoFields |-> h[x]]

-----------------------------------------------------------------------------
(* The inductive invariant.                                                *)

Pcs == {"none", "recv", "pool_read", "open", "statx", "header", "file_read", "body", "ended",
        "connect_to", "connect", "close"}
SrvPcs == {"enable", "provide", "accept", "accept2", "close_conn", "reopen", "stopped", "done"}
Shedding == {"accept2", "close_conn", "reopen"}
BlockOwners == {"new", "kernel", "user", "providing", "lost"}
Objects == {Free, Listen, DevNull} \cup ({"conn", "file"} \X Conns)

FdInv ==
  /\ mode \in Modes /\ shed \in BOOLEAN
  /\ fdt \in [Fds -> Objects] /\ closing \in [Fds -> Nat]
  /\ backup \in Fds \cup {-1} /\ nextConn \in 1 .. NumConns + 1

\* The accepting coroutine: it is in the ENFILE branch only after that was taken,
\* opens the spare descriptor once, and spawns each handler once.
SrvInv ==
  /\ srv \in [pc : SrvPcs, fd : Fds \cup {-1}]
  /\ srv.pc \in Shedding => shed /\ nextConn \in Conns
  /\ srv.pc = "enable" => mode = "http" /\ backup = -1
  /\ srv.pc \in {"enable", "provide"} => nextConn = 1
  /\ mode = "client" => srv.pc = "done"
  /\ mode # "client" => \A c \in Conns : c >= nextConn => co[c].pc = "none"

\* Where a handler can hold a descriptor, a file or a block.
CoOK(h) ==
  /\ Handler(h) /\ h.pc \in Pcs /\ h.done \in Nat
  /\ h.fd \in Fds \cup {-1} /\ h.file \in Fds \cup {-1} /\ h.block \in Blocks \cup {0}
  /\ h.pc = "body" => h.block # 0
  /\ h.pc # "body" => h.block = 0
  /\ h.pc \in {"none", "ended", "connect_to"} => h.fd = -1
  /\ h.pc \in {"none", "ended", "connect_to", "recv", "open", "connect", "close"} => h.file = -1
  /\ h.file # -1 => h.ctx.req.path \in DOMAIN Files
CoInv == co = [c \in Conns |-> co[c]] /\ \A c \in Conns : CoOK(co[c])

\* The words of a text.  EchoScript's are Words too, but the provers do not know
\* of a string literal that it is a STRING.
Symbols == Words \cup {Word("a"), Word("b"), WordEol("c")}
TextInv ==
  /\ script \in [Conns -> [text : Seq(Symbols), ends : Seq(Nat), status : Seq(Nat)]]
  /\ taken \in [Conns -> Nat]
  /\ \A c \in Conns : taken[c] <= Len(script[c].text)

\* Only a block that some handler holds has bytes in it.
BlkOK(x) ==
  /\ x = [f \in {"owner", "buf"} |-> x[f]]
  /\ x.buf = [f \in {"data", "r", "w"} |-> x.buf[f]] /\ x.buf.r = 0
  /\ x.owner \in BlockOwners /\ x.buf.w \in 0 .. BlockSize
  /\ x.owner # "user" => x.buf.w = 0
BlkInv ==
  /\ blk = [b \in Blocks |-> blk[b]]
  /\ \A b \in Blocks : BlkOK(blk[b]) /\ (blk[b].owner = "user" <=> \E c \in Conns : co[c].block = b)
  /\ \A c, d \in Conns : c # d /\ co[c].block # 0 => co[c].block # co[d].block

\* DescriptorOwned, owner by owner.
Unowned(f) ==
  /\ \A c \in Conns : co[c].fd # f /\ co[c].file # f
  /\ ~(mode = "http" /\ backup = f) /\ closing[f] = 0 /\ f \notin leaked
Owned(f) ==
  \/ \E c \in Conns : co[c].fd = f \/ co[c].file = f
  \/ mode = "http" /\ backup = f
  \/ closing[f] = 1
  \/ f \in leaked
OwnedOnce(f) ==
  /\ fdt[f] \in {Free, Listen} => Unowned(f)
  /\ fdt[f] \notin {Free, Listen} => Owned(f)
  /\ \A c \in Conns :
       /\ co[c].fd = f => fdt[f] = Conn(c) /\ closing[f] = 0 /\ f \notin leaked
       /\ co[c].file = f => fdt[f] = FileOf(c) /\ closing[f] = 0 /\ f \notin leaked
  /\ mode = "http" /\ backup = f => fdt[f] = DevNull /\ closing[f] = 0 /\ f \notin leaked
  /\ closing[f] # 0 => closing[f] = 1 /\ f \notin leaked
OwnInv == ~shed => \A f \in Fds : OwnedOnce(f)

IInv == FdInv /\ SrvInv /\ CoInv /\ TextInv /\ BlkInv /\ OwnInv

-----------------------------------------------------------------------------
(* One handler's step, seen by each part of the invariant.                 *)

LEMMA CoStep ==
  ASSUME CoInv, NEW c \in Conns, NEW h, CoOK(h), co' = [co EXCEPT ![c] = h]
  PROVE  CoInv' /\ co'[c] = h /\ \A d \in Conns : d # c => co'[d] = co[d]
<1>1. \A d \in Conns : co'[d] = IF d = c THEN h ELSE co[d]
  BY DEF CoInv
<1>2. co' = [d \in Conns |-> co'[d]]
  BY DEF CoInv
<1>3. \A d \in Conns : CoOK(co'[d])
  BY <1>1 DEF CoInv
<1> QED BY <1>1, <1>2, <1>3 DEF CoInv

LEMMA Conn0 ==
  /\ \A c, d \in Conns : Conn(c) = Conn(d) => c = d
  /\ \A c, d \in Conns : FileOf(c) = FileOf(d) => c = d
  /\ \A c, d \in Conns : Conn(c) # FileOf(d)
  /\ \A c \in Conns : /\ Conn(c) \notin {Free, Listen, DevNull} /\ FileOf(c) \notin {Free, Listen, DevNull}
                      /\ Conn(c) \in Objects /\ FileOf(c) \in Objects
  /\ DevNull \notin {Free, Listen} /\ DevNull \in Objects /\ Free \in Objects /\ Listen \in Objects
BY DEF Conn, FileOf, Free, Listen, DevNull, Objects

\* A step that leaves every descriptor with its owner.
LEMMA OwnSame ==
  ASSUME OwnInv, UNCHANGED <<mode, fdt, closing, backup, leaked>>, ~shed' => ~shed,
         \A d \in Conns : co'[d].fd = co[d].fd /\ co'[d].file = co[d].file
  PROVE  OwnInv'
BY DEF OwnInv, OwnedOnce, Unowned, Owned

\* Handler c lets the destructors close the descriptors F.
LEMMA OwnDrop ==
  ASSUME FdInv, OwnInv, NEW c \in Conns, NEW F \in SUBSET Fds,
         UNCHANGED <<mode, fdt, backup, leaked, shed>>, file_descriptor_dtor(F),
         \A d \in Conns : d # c => co'[d].fd = co[d].fd /\ co'[d].file = co[d].file,
         co'[c].fd = (IF co[c].fd \in F THEN -1 ELSE co[c].fd),
         co'[c].file = (IF co[c].file \in F THEN -1 ELSE co[c].file),
         \A f \in F : f = co[c].fd \/ f = co[c].file
  PROVE  OwnInv' /\ closing' \in [Fds -> Nat]
<1>1. closing' \in [Fds -> Nat] /\ \A f \in Fds : closing'[f] = IF f \in F THEN closing[f] + 1 ELSE closing[f]
  BY DEF file_descriptor_dtor, FdInv
<1>2. ASSUME ~shed', NEW f \in Fds PROVE OwnedOnce(f)'
  <2>1. OwnedOnce(f)
    BY <1>2 DEF OwnInv
  <2>2. f # -1
    BY FdsNat
  <2>3. CASE f \in F
    <3>1. co[c].fd = f \/ co[c].file = f
      BY <2>3
    <3>2. /\ fdt[f] \in {Conn(c), FileOf(c)} /\ closing[f] = 0 /\ f \notin leaked
          /\ closing'[f] = 1
      BY <1>1, <2>1, <2>3, <3>1 DEF OwnedOnce
    <3>3. fdt[f] \notin {Free, Listen, DevNull}
      BY <3>2, Conn0
    <3>4. \A d \in Conns : co'[d].fd # f /\ co'[d].file # f
      <4>1. co'[c].fd # f /\ co'[c].file # f
        BY <2>2, <2>3
      <4>2. ASSUME NEW d \in Conns, d # c PROVE co'[d].fd # f /\ co'[d].file # f
        BY <2>1, <3>2, <4>2, Conn0 DEF OwnedOnce
      <4> QED BY <4>1, <4>2
    <3>5. Owned(f)'
      BY <3>2 DEF Owned
    <3> QED BY <2>1, <3>2, <3>3, <3>4, <3>5 DEF OwnedOnce
  <2>4. CASE f \notin F
    <3>2. \A d \in Conns : (co'[d].fd = f <=> co[d].fd = f) /\ (co'[d].file = f <=> co[d].file = f)
      BY <2>2, <2>4
    <3>3. closing'[f] = closing[f]
      BY <1>1, <2>4
    <3>4. Unowned(f) => Unowned(f)'
      BY <3>2, <3>3 DEF Unowned
    <3>5. Owned(f) => Owned(f)'
      BY <3>2, <3>3 DEF Owned
    <3> QED BY <2>1, <3>2, <3>3, <3>4, <3>5 DEF OwnedOnce
  <2> QED BY <2>3, <2>4
<1>3. OwnInv'
  BY <1>2 DEF OwnInv
<1> QED BY <1>1, <1>3

\* A step that disturbs one descriptor only.
LEMMA OwnAt ==
  ASSUME OwnInv, NEW g \in Fds, mode' = mode, ~shed' => ~shed, ~shed' => OwnedOnce(g)',
         \A f \in Fds : f # g =>
           /\ fdt'[f] = fdt[f] /\ closing'[f] = closing[f] /\ (backup' = f <=> backup = f)
           /\ f \in leaked' <=> f \in leaked
           /\ \A d \in Conns : (co'[d].fd = f <=> co[d].fd = f) /\ (co'[d].file = f <=> co[d].file = f)
  PROVE  OwnInv'
<1>1. ASSUME ~shed', NEW f \in Fds, f # g PROVE OwnedOnce(f)'
  <2>1. OwnedOnce(f)
    BY <1>1 DEF OwnInv
  <2>2. Unowned(f) => Unowned(f)'
    BY <1>1 DEF Unowned
  <2>3. Owned(f) => Owned(f)'
    BY <1>1 DEF Owned
  <2> QED BY <1>1, <2>1, <2>2, <2>3 DEF OwnedOnce
<1> QED BY <1>1 DEF OwnInv

\* A free descriptor is opened as x, and gets one owner.
Opened(g, x) ==
  /\ fdt[g] = Free /\ x \notin {Free, Listen}
  /\ fdt' = [fdt EXCEPT ![g] = x] /\ closing' = closing /\ mode' = mode /\ (~shed' => ~shed)
  /\ \A f \in Fds : f # g =>
       /\ backup' = f <=> backup = f
       /\ f \in leaked' <=> f \in leaked
       /\ \A d \in Conns : (co'[d].fd = f <=> co[d].fd = f) /\ (co'[d].file = f <=> co[d].file = f)
  /\ \A d \in Conns : /\ co'[d].fd = g => co[d].fd = g \/ (x = Conn(d) /\ (g \in leaked' => g \in leaked))
                      /\ co'[d].file = g => co[d].file = g \/ (x = FileOf(d) /\ (g \in leaked' => g \in leaked))
  /\ mode = "http" /\ backup' = g => (mode = "http" /\ backup = g) \/ (x = DevNull /\ (g \in leaked' => g \in leaked))
  /\ \/ \E d \in Conns : co'[d].fd = g \/ co'[d].file = g
     \/ mode = "http" /\ backup' = g
     \/ g \in leaked'
LEMMA OwnOpen ==
  ASSUME FdInv, OwnInv, NEW g \in Fds, NEW x \in Objects, Opened(g, x)
  PROVE  OwnInv' /\ fdt' \in [Fds -> Objects]
<1>1. fdt' \in [Fds -> Objects] /\ fdt'[g] = x /\ \A f \in Fds : f # g => fdt'[f] = fdt[f]
  BY DEF FdInv, Opened
<1>2. ASSUME ~shed' PROVE OwnedOnce(g)'
  <2>1. OwnedOnce(g)
    BY <1>2 DEF OwnInv, Opened
  <2>2. Unowned(g)
    BY <2>1 DEF OwnedOnce, Opened
  <2>3. Owned(g)'
    BY DEF Owned, Opened
  <2> QED BY <1>1, <2>2, <2>3 DEF OwnedOnce, Unowned, Opened
<1>3. OwnInv'
  BY <1>1, <1>2, OwnAt DEF Opened
<1> QED BY <1>1, <1>3

\* The owner of a descriptor closes it.
LEMMA OwnClose ==
  ASSUME FdInv, OwnInv, NEW g \in Fds, fdt' = [fdt EXCEPT ![g] = Free],
         UNCHANGED <<mode, backup, leaked>>, ~shed' => ~shed, ~shed' => Unowned(g)',
         \A f \in Fds : f # g =>
           /\ closing'[f] = closing[f]
           /\ \A d \in Conns : (co'[d].fd = f <=> co[d].fd = f) /\ (co'[d].file = f <=> co[d].file = f)
  PROVE  OwnInv' /\ fdt' \in [Fds -> Objects]
<1>1. fdt' \in [Fds -> Objects] /\ fdt'[g] = Free /\ \A f \in Fds : f # g => fdt'[f] = fdt[f]
  BY Conn0 DEF FdInv
<1>2. ~shed' => OwnedOnce(g)'
  BY <1>1 DEF OwnedOnce, Unowned
<1>3. OwnInv'
  BY <1>1, <1>2, OwnAt
<1> QED BY <1>1, <1>3

\* Blocks that stay where they are.
LEMMA BlkSame ==
  ASSUME BlkInv, blk' = blk, \A d \in Conns : co'[d].block = co[d].block
  PROVE  BlkInv'
BY DEF BlkInv

\* A block that no handler holds stays with the kernel, or is nobody's.
LEMMA BlkLose ==
  ASSUME BlkInv, NEW b \in Blocks, blk[b].owner \in {"kernel", "providing"}, NEW o \in {"kernel", "lost"},
         blk' = [blk EXCEPT ![b].owner = o], \A d \in Conns : co'[d].block = co[d].block
  PROVE  BlkInv'
<1>1. BlkOK(blk[b]) /\ blk[b].owner # "user" /\ \A c \in Conns : co[c].block # b
  BY DEF BlkInv
<1>2. PICK x : x = [blk[b] EXCEPT !.owner = o]
  OBVIOUS
<1>3. x.owner = o /\ x.buf = blk[b].buf /\ x = [f \in {"owner", "buf"} |-> x[f]]
  BY <1>1, <1>2 DEF BlkOK
<1>4. BlkOK(x) /\ x.owner # "user"
  BY <1>1, <1>3 DEF BlkOK, BlockOwners
<1>5. blk' = [blk EXCEPT ![b] = x]
  BY <1>2
<1>6. blk'[b] = x /\ blk' = [a \in Blocks |-> blk'[a]] /\ \A a \in Blocks : a # b => blk'[a] = blk[a]
  BY <1>5 DEF BlkInv
<1> QED BY <1>1, <1>4, <1>6 DEF BlkInv

\* A block the kernel has filled goes to the handler that waited.
LEMMA BlkTake ==
  ASSUME BlkInv, CoInv, NEW c \in Conns, co[c].block = 0, NEW b \in Blocks, NEW s \in Seq(Symbols), Len(s) <= BlockSize,
         Selected(b, s), co'[c].block = b, \A d \in Conns : d # c => co'[d].block = co[d].block
  PROVE  BlkInv' /\ readable(blk'[b].buf) = Len(s)
<1>1. /\ BlkOK(blk[b]) /\ blk[b].owner = "kernel" /\ blk[b].buf.w = 0
      /\ \A d \in Conns : co[d].block # b
  BY DEF BlkInv, BlkOK, Selected
<1>2. PICK o : o = blk[b].buf /\ o = [f \in {"data", "r", "w"} |-> o[f]] /\ o.r = 0 /\ o.w = 0
  BY <1>1 DEF BlkOK
<1>3. PICK e : e = Store(o, s) /\ e = [f \in {"data", "r", "w"} |-> e[f]] /\ e.r = 0 /\ e.w = 0
  <2>1. PICK v : Store(o, s) = [o EXCEPT !.data = v]
    BY DEF Store
  <2>2. PICK e : e = [o EXCEPT !.data = v]
    OBVIOUS
  <2>3. e = [f \in {"data", "r", "w"} |-> e[f]] /\ e.r = 0 /\ e.w = 0
    BY <1>2, <2>2
  <2> QED BY <2>1, <2>2, <2>3, Zenon
<1>4. PICK n : n = has_written(e, Len(s)) /\ n = [f \in {"data", "r", "w"} |-> n[f]] /\ n.r = 0 /\ n.w = Len(s)
  <2>1. Len(s) \in Nat
    OBVIOUS
  <2>2. has_written(e, Len(s)) = [e EXCEPT !.w = Len(s)]
    BY <1>3, <2>1 DEF has_written
  <2> QED BY <1>3, <2>2
<1>5. PICK x : x = [owner |-> "user", buf |-> n]
  OBVIOUS
<1>6. blk' = [blk EXCEPT ![b] = x]
  BY <1>2, <1>3, <1>4, <1>5 DEF Selected
<1>7. blk'[b] = x /\ blk' = [a \in Blocks |-> blk'[a]] /\ \A a \in Blocks : a # b => blk'[a] = blk[a]
  BY <1>6 DEF BlkInv
<1>8. BlkOK(x) /\ x.owner = "user" /\ readable(x.buf) = Len(s)
  <2>1. Len(s) \in Nat /\ Len(s) \in 0 .. BlockSize
    BY FdsNat
  <2> QED BY <1>4, <1>5, <2>1 DEF BlkOK, BlockOwners, readable
<1>9. ASSUME NEW a \in Blocks
      PROVE  BlkOK(blk'[a]) /\ (blk'[a].owner = "user" <=> \E d \in Conns : co'[d].block = a)
  <2>1. CASE a = b
    BY <1>7, <1>8, <2>1
  <2>2. CASE a # b
    <3>1. blk'[a] = blk[a] /\ BlkOK(blk[a]) /\ (blk[a].owner = "user" <=> \E d \in Conns : co[d].block = a)
      BY <1>7, <2>2 DEF BlkInv
    <3>2. \A d \in Conns : co'[d].block = a <=> co[d].block = a
      BY <2>2, FdsNat
    <3> QED BY <3>1, <3>2
  <2> QED BY <2>1, <2>2
<1>10. ASSUME NEW d1 \in Conns, NEW d2 \in Conns, d1 # d2, co'[d1].block # 0
       PROVE  co'[d1].block # co'[d2].block
  BY <1>1, <1>10, FdsNat DEF BlkInv
<1> QED BY <1>7, <1>8, <1>9, <1>10 DEF BlkInv

\* ~selected_buffer_resource: the handler's block goes back, empty.
LEMMA BlkGive ==
  ASSUME BlkInv, NEW c \in Conns, NEW b \in Blocks, co[c].block = b, blk' = GivenBack(b),
         co'[c].block = 0, \A d \in Conns : d # c => co'[d].block = co[d].block
  PROVE  BlkInv'
<1>1. PICK o : o = blk[b].buf /\ o = [f \in {"data", "r", "w"} |-> o[f]]
  BY DEF BlkInv, BlkOK
<1>2. PICK x : x = [owner |-> "providing", buf |-> clear(o)]
  OBVIOUS
<1>3. blk' = [blk EXCEPT ![b] = x]
  BY <1>1, <1>2 DEF GivenBack
<1>4. blk'[b] = x /\ blk' = [a \in Blocks |-> blk'[a]] /\ \A a \in Blocks : a # b => blk'[a] = blk[a]
  BY <1>3 DEF BlkInv
<1>5. BlkOK(x) /\ x.owner # "user"
  <2>1. PICK n : n = clear(o) /\ n = [f \in {"data", "r", "w"} |-> n[f]] /\ n.r = 0 /\ n.w = 0
    <3>1. PICK m : m = [o EXCEPT !.r = 0]
      OBVIOUS
    <3>2. PICK n : n = [m EXCEPT !.w = 0]
      OBVIOUS
    <3>3. n = clear(o)
      BY <3>1, <3>2, Zenon DEF clear
    <3>4. m = [f \in {"data", "r", "w"} |-> m[f]] /\ m.r = 0
      BY <1>1, <3>1
    <3>5. n = [f \in {"data", "r", "w"} |-> n[f]] /\ n.r = 0 /\ n.w = 0
      BY <3>2, <3>4
    <3> QED BY <3>3, <3>5, Zenon
  <2> QED BY <1>2, <2>1, FdsNat DEF BlkOK, BlockOwners
<1>6. \A d \in Conns : co'[d].block # b
  BY FdsNat DEF BlkInv
<1>7. ASSUME NEW a \in Blocks
      PROVE  BlkOK(blk'[a]) /\ (blk'[a].owner = "user" <=> \E d \in Conns : co'[d].block = a)
  <2>1. CASE a = b
    BY <1>4, <1>5, <1>6, <2>1
  <2>2. CASE a # b
    <3>1. blk'[a] = blk[a] /\ BlkOK(blk[a]) /\ (blk[a].owner = "user" <=> \E d \in Conns : co[d].block = a)
      BY <1>4, <2>2 DEF BlkInv
    <3>2. \A d \in Conns : co'[d].block = a <=> co[d].block = a
      BY <2>2, FdsNat
    <3> QED BY <3>1, <3>2
  <2> QED BY <2>1, <2>2
<1>8. ASSUME NEW d1 \in Conns, NEW d2 \in Conns, d1 # d2, co'[d1].block # 0
      PROVE  co'[d1].block # co'[d2].block
  BY <1>8, FdsNat DEF BlkInv
<1> QED BY <1>4, <1>7, <1>8 DEF BlkInv

LEMMA SrvKept ==
  ASSUME SrvInv, UNCHANGED <<mode, srv, backup, nextConn, shed>>, NEW c \in Conns, co[c].pc # "none",
         \A d \in Conns : d # c => co'[d] = co[d]
  PROVE  SrvInv'
<1>1. ASSUME mode' # "client", NEW d \in Conns, d >= nextConn' PROVE co'[d].pc = "none"
  BY <1>1 DEF SrvInv
<1> QED BY <1>1 DEF SrvInv

LEMMA FdKept ==
  ASSUME FdInv, UNCHANGED <<mode, backup, nextConn, shed>>, fdt' \in [Fds -> Objects], closing' \in [Fds -> Nat]
  PROVE  FdInv'
BY DEF FdInv

LEMMA TextKept ==
  ASSUME TextInv, UNCHANGED <<script, taken>>
  PROVE  TextInv'
BY DEF TextInv

\* ~file_descriptor only adds to the closes in flight.
LEMMA DtorType ==
  ASSUME FdInv, NEW F, file_descriptor_dtor(F)
  PROVE  closing' \in [Fds -> Nat]
BY DEF FdInv, file_descriptor_dtor

LEMMA EndedCo ==
  ASSUME NEW h, h = [NoCo EXCEPT !.pc = "ended"]
  PROVE  CoOK(h) /\ h.pc = "ended" /\ h.fd = -1 /\ h.file = -1 /\ h.block = 0
<1>1. Handler(NoCo) /\ NoCo.fd = -1 /\ NoCo.file = -1 /\ NoCo.block = 0 /\ NoCo.done = 0
  BY DEF Handler, CoFields, NoCo
<1>2. /\ Handler(h) /\ h.pc = "ended" /\ h.fd = -1 /\ h.file = -1 /\ h.block = 0 /\ h.done = 0
  <2> HIDE DEF NoCo
  <2> QED BY <1>1 DEF Handler, CoFields
<1> QED BY <1>2 DEF CoOK, Pcs

\* A handler ends, and everything it owns is on its way back.
LEMMA EndsStep ==
  ASSUME IInv, NEW c \in Conns, co[c].pc # "none", NEW b, b = co[c].block, Ends(c),
         b = 0 => PoolReadThrows, b # 0 => blk' = GivenBack(b),
         UNCHANGED <<mode, fdt, server, history, script, taken>>
  PROVE  IInv'
<1>1. FdInv /\ SrvInv /\ CoInv /\ TextInv /\ BlkInv /\ OwnInv /\ CoOK(co[c])
  BY DEF IInv, CoInv
<1>2. UNCHANGED <<mode, fdt, srv, backup, nextConn, shed, leaked, script, taken>>
  BY DEF server, history
<1>3. PICK h : h = [NoCo EXCEPT !.pc = "ended"]
  OBVIOUS
<1>4. CoOK(h) /\ h.pc = "ended" /\ h.fd = -1 /\ h.file = -1 /\ h.block = 0
  BY <1>3, EndedCo
<1>5. co' = [co EXCEPT ![c] = h]
  BY <1>3 DEF Ends
<1>6. CoInv' /\ co'[c] = h /\ \A d \in Conns : d # c => co'[d] = co[d]
  BY <1>1, <1>4, <1>5, CoStep
<1>7. OwnInv' /\ closing' \in [Fds -> Nat]
  <2>1. PICK F \in SUBSET Fds : F = {co[c].fd, co[c].file} \cap Fds
    OBVIOUS
  <2>2. file_descriptor_dtor(F)
    BY <2>1 DEF Ends
  <2>3. co'[c].fd = (IF co[c].fd \in F THEN -1 ELSE co[c].fd)
    BY <1>1, <1>4, <1>6, <2>1 DEF CoOK
  <2>4. co'[c].file = (IF co[c].file \in F THEN -1 ELSE co[c].file)
    BY <1>1, <1>4, <1>6, <2>1 DEF CoOK
  <2>5. \A f \in F : f = co[c].fd \/ f = co[c].file
    BY <2>1
  <2>6. \A d \in Conns : d # c => co'[d].fd = co[d].fd /\ co'[d].file = co[d].file
    BY <1>6
  <2> QED BY <1>1, <1>2, <2>2, <2>3, <2>4, <2>5, <2>6, OwnDrop
<1>8. BlkInv'
  <2>1. CASE b = 0
    <3>1. \A d \in Conns : co'[d].block = co[d].block
      BY <1>4, <1>6, <2>1
    <3>2. CASE blk' = blk
      BY <1>1, <3>1, <3>2, BlkSame
    <3>3. ASSUME NEW a \in Blocks, blk[a].owner = "kernel", blk' = [blk EXCEPT ![a].owner = "lost"]
          PROVE  BlkInv'
      BY <1>1, <3>1, <3>3, BlkLose
    <3> QED BY <2>1, <3>2, <3>3 DEF PoolReadThrows
  <2>2. CASE b # 0
    <3>1. blk' = GivenBack(b) /\ b \in Blocks
      BY <1>1, <2>2 DEF CoOK
    <3>2. \A d \in Conns : d # c => co'[d].block = co[d].block
      BY <1>6
    <3> QED BY <1>1, <1>4, <1>6, <3>1, <3>2, BlkGive
  <2> QED BY <2>1, <2>2
<1>9. FdInv' /\ SrvInv' /\ TextInv'
  <2>1. fdt' \in [Fds -> Objects]
    BY <1>1, <1>2 DEF FdInv
  <2> QED BY <1>1, <1>2, <1>6, <1>7, <2>1, FdKept, SrvKept, TextKept
<1> QED BY <1>6, <1>7, <1>8, <1>9 DEF IInv

\* Back at the head of do_http's loop: the file goes, or everything does.
LEMMA NextRequestStep ==
  ASSUME IInv, NEW c \in Conns, co[c].pc # "none", NEW h, Handler(h), h.fd = co[c].fd, h.file = co[c].file,
         NextRequest(c, h), UNCHANGED <<mode, fdt, server, history>>
  PROVE  /\ FdInv' /\ SrvInv' /\ CoInv' /\ OwnInv' /\ co'[c].block = 0
         /\ \A d \in Conns : d # c => co'[d] = co[d]
<1>1. FdInv /\ SrvInv /\ CoInv /\ OwnInv /\ CoOK(co[c])
  BY DEF IInv, CoInv
<1>2. UNCHANGED <<mode, fdt, srv, backup, nextConn, shed, leaked>>
  BY DEF server, history
<1>3. PICK g, F :
        /\ F \in SUBSET Fds
        /\ CoOK(g) /\ co' = [co EXCEPT ![c] = g] /\ file_descriptor_dtor(F) /\ g.block = 0 /\ g.file = -1
        /\ \A f \in F : f = h.fd \/ f = h.file
        /\ h.file \in Fds => h.file \in F
        /\ \/ g.fd = -1 /\ (h.fd \in Fds => h.fd \in F)
           \/ g.fd = h.fd /\ F = {h.file} \cap Fds
  <2>1. CASE h.close
    <3>1. PICK g : g = [NoCo EXCEPT !.pc = "ended"]
      OBVIOUS
    <3>2. CoOK(g) /\ g.fd = -1 /\ g.file = -1 /\ g.block = 0
      BY <3>1, EndedCo
    <3>3. co' = [co EXCEPT ![c] = g] /\ file_descriptor_dtor({h.fd, h.file} \cap Fds)
      BY <2>1, <3>1 DEF NextRequest
    <3>4. PICK F \in SUBSET Fds : F = {h.fd, h.file} \cap Fds
      OBVIOUS
    <3>5. /\ file_descriptor_dtor(F) /\ \A f \in F : f = h.fd \/ f = h.file
          /\ (h.file \in Fds => h.file \in F) /\ (h.fd \in Fds => h.fd \in F)
      BY <3>3, <3>4
    <3> QED BY <3>2, <3>3, <3>5, Zenon
  <2>2. CASE ~h.close
    <3>1. PICK m : m = flex_make_room(h.buf, AtLeast)
      OBVIOUS
    <3>2. PICK g : g = [h EXCEPT !.pc = "recv", !.ctx = NewContext, !.buf = m,
                          !.file = -1, !.done = 0, !.size = 0, !.status = 0, !.block = 0]
      OBVIOUS
    <3>3. co' = [co EXCEPT ![c] = g] /\ file_descriptor_dtor({h.file} \cap Fds)
      BY <2>2, <3>1, <3>2 DEF NextRequest
    <3>4. PICK g1 : g1 = [h EXCEPT !.pc = "recv", !.ctx = NewContext, !.buf = m]
      OBVIOUS
    <3>5. Handler(g1) /\ g1.pc = "recv" /\ g1.fd = h.fd
      BY <3>4 DEF Handler, CoFields
    <3>6. PICK g2 : g2 = [g1 EXCEPT !.file = -1, !.done = 0, !.size = 0]
      OBVIOUS
    <3>7. Handler(g2) /\ g2.pc = "recv" /\ g2.fd = h.fd /\ g2.file = -1 /\ g2.done = 0
      BY <3>5, <3>6 DEF Handler, CoFields
    <3>8. g = [g2 EXCEPT !.status = 0, !.block = 0]
      BY <3>2, <3>4, <3>6, Zenon
    <3>9. Handler(g) /\ g.pc = "recv" /\ g.fd = h.fd /\ g.file = -1 /\ g.done = 0 /\ g.block = 0
      BY <3>7, <3>8 DEF Handler, CoFields
    <3>10. CoOK(g)
      BY <1>1, <3>9 DEF CoOK, Pcs
    <3>11. PICK F \in SUBSET Fds : F = {h.file} \cap Fds
      OBVIOUS
    <3>12. /\ file_descriptor_dtor(F) /\ \A f \in F : f = h.fd \/ f = h.file
           /\ h.file \in Fds => h.file \in F
      BY <3>3, <3>11
    <3> QED BY <3>3, <3>9, <3>10, <3>11, <3>12, Zenon
  <2> QED BY <2>1, <2>2
<1>4. CoInv' /\ co'[c] = g /\ \A d \in Conns : d # c => co'[d] = co[d]
  BY <1>1, <1>3, CoStep
<1>5. closing' \in [Fds -> Nat]
  BY <1>1, <1>3, DtorType
<1>6. OwnInv'
  <2>1. CASE shed
    BY <1>2, <2>1 DEF OwnInv
  <2>2. CASE ~shed
    <3>1. co[c].fd \in Fds => co[c].fd # co[c].file
      BY <1>1, <2>2, Conn0 DEF OwnInv, OwnedOnce
    <3>2. co'[c].fd = (IF co[c].fd \in F THEN -1 ELSE co[c].fd)
      BY <1>1, <1>3, <1>4, <3>1 DEF CoOK
    <3>3. co'[c].file = (IF co[c].file \in F THEN -1 ELSE co[c].file)
      BY <1>1, <1>3, <1>4 DEF CoOK
    <3>4. \A d \in Conns : d # c => co'[d].fd = co[d].fd /\ co'[d].file = co[d].file
      BY <1>4
    <3> QED BY <1>1, <1>2, <1>3, <3>2, <3>3, <3>4, OwnDrop
  <2> QED BY <2>1, <2>2
<1>7. FdInv' /\ SrvInv'
  <2>1. fdt' \in [Fds -> Objects]
    BY <1>1, <1>2 DEF FdInv
  <2> QED BY <1>1, <1>2, <1>4, <1>5, <2>1, FdKept, SrvKept
<1> QED BY <1>3, <1>4, <1>6, <1>7

LEMMA NextRequestPlain ==
  ASSUME IInv, NEW c \in Conns, co[c].pc \notin {"none", "body"}, NEW h, Handler(h), h.fd = co[c].fd, h.file = co[c].file,
         NextRequest(c, h), UNCHANGED <<mode, fdt, server, blk, history>>, TextInv'
  PROVE  IInv'
<1>1. BlkInv /\ CoOK(co[c])
  BY DEF IInv, CoInv
<1>2. /\ FdInv' /\ SrvInv' /\ CoInv' /\ OwnInv' /\ co'[c].block = 0
      /\ \A d \in Conns : d # c => co'[d] = co[d]
  BY NextRequestStep
<1>3. co[c].block = 0
  BY <1>1 DEF CoOK
<1>4. \A d \in Conns : co'[d].block = co[d].block
  BY <1>2, <1>3
<1>5. BlkInv'
  BY <1>1, <1>4, BlkSame
<1> QED BY <1>2, <1>5 DEF IInv

LEMMA SenderIsConn ==
  ASSUME FdInv, NEW c \in Conns, Sender(c) # 0
  PROVE  Sender(c) \in Conns
<1>1. PICK x : x = Refers(co[c].fd) /\ x \in Objects
  <2>1. Refers(co[c].fd) \in Objects
    BY Conn0 DEF Refers, FdInv
  <2> QED BY <2>1
<1>2. x[1] = "conn" /\ Sender(c) = x[2]
  BY <1>1 DEF Sender
<1> QED BY <1>1, <1>2 DEF Objects, Free, Listen, DevNull

LEMMA TextTake ==
  ASSUME TextInv, NEW s \in Conns, NEW k \in Nat, taken[s] + k <= Len(script[s].text), script' = script,
         taken' = [taken EXCEPT ![s] = @ + k]
  PROVE  TextInv'
<1>1. \A d \in Conns : taken'[d] = IF d = s THEN taken[s] + k ELSE taken[d]
  BY DEF TextInv
<1>2. taken' \in [Conns -> Nat]
  BY DEF TextInv
<1>3. \A d \in Conns : taken'[d] <= Len(script[d].text)
  BY <1>1 DEF TextInv
<1> QED BY <1>2, <1>3 DEF TextInv

LEMMA WordsAreSymbols == Seq(Words) \subseteq Seq(Symbols)
<1>1. Words \subseteq Symbols
  BY DEF Symbols
<1>2. ASSUME NEW s \in Seq(Words) PROVE s \in Seq(Symbols)
  BY <1>1
<1> QED BY <1>2

-----------------------------------------------------------------------------
(* Init.                                                                   *)

LEMMA NoCoOK == /\ CoOK(NoCo) /\ NoCo.pc = "none" /\ NoCo.fd = -1 /\ NoCo.file = -1 /\ NoCo.block = 0
BY DEF CoOK, Handler, CoFields, NoCo, Pcs

LEMMA NewBlockOK ==
  ASSUME NEW o \in BlockOwners \ {"user"}, NEW x, x = [NewBlock EXCEPT !.owner = o]
  PROVE  BlkOK(x) /\ x.owner = o
<1>1. PICK n : n = NewBuffer(BlockSize) /\ n = [f \in {"data", "r", "w"} |-> n[f]] /\ n.r = 0 /\ n.w = 0
  <2>1. PICK d : d = [i \in 1 .. BlockSize |-> Zero]
    OBVIOUS
  <2>2. PICK n : n = [data |-> d, r |-> 0, w |-> 0]
    OBVIOUS
  <2>3. n = [f \in {"data", "r", "w"} |-> n[f]] /\ n.r = 0 /\ n.w = 0
    BY <2>2
  <2>4. n = NewBuffer(BlockSize)
    BY <2>1, <2>2 DEF NewBuffer
  <2> QED BY <2>3, <2>4, Zenon
<1>2. x = [owner |-> o, buf |-> n]
  BY <1>1 DEF NewBlock
<1>3. x.owner = o /\ x.buf = n
  BY <1>2
<1>4. x = [f \in {"owner", "buf"} |-> x[f]]
  BY <1>2
<1>5. n.w \in 0 .. BlockSize
  BY <1>1, FdsNat
<1> QED BY <1>1, <1>3, <1>4, <1>5 DEF BlkOK

LEMMA InitHolds == Init => IInv
<1> SUFFICES ASSUME Init PROVE IInv
  OBVIOUS
<1>1. PICK h : h = [NoCo EXCEPT !.pc = "connect_to"]
  OBVIOUS
<1>2. CoOK(h) /\ h.pc = "connect_to" /\ h.fd = -1 /\ h.file = -1 /\ h.block = 0
  <2>1. Handler(NoCo) /\ NoCo.fd = -1 /\ NoCo.file = -1 /\ NoCo.block = 0 /\ NoCo.done = 0
    BY DEF Handler, CoFields, NoCo
  <2>2. Handler(h) /\ h.pc = "connect_to" /\ h.fd = -1 /\ h.file = -1 /\ h.block = 0 /\ h.done = 0
    <3> HIDE DEF NoCo
    <3> QED BY <1>1, <2>1 DEF Handler, CoFields
  <2> QED BY <2>2 DEF CoOK, Pcs
<1>3. \A c \in Conns : co[c] = IF mode = "client" THEN h ELSE NoCo
  BY <1>1 DEF Init
<1>4. CoInv
  <2>1. co = [c \in Conns |-> co[c]]
    BY DEF Init
  <2>2. \A c \in Conns : CoOK(co[c])
    BY <1>2, <1>3, NoCoOK
  <2> QED BY <2>1, <2>2 DEF CoInv
<1>5. \A c \in Conns : co[c].fd = -1 /\ co[c].file = -1 /\ co[c].block = 0
  BY <1>2, <1>3, NoCoOK
<1>6. FdInv
  <2>1. 1 \in 1 .. NumConns + 1
    BY FdsNat
  <2> QED BY <2>1, Conn0 DEF Init, FdInv
<1>7. SrvInv
  <2>1. /\ srv = [pc |-> CASE mode = "http" -> "enable" [] mode = "echo" -> "provide" [] OTHER -> "done", fd |-> -1]
        /\ mode \in {"http", "echo", "client"} /\ backup = -1 /\ nextConn = 1
    BY ServerAssumption DEF Init
  <2>2. /\ srv \in [pc : SrvPcs, fd : Fds \cup {-1}] /\ srv.pc \in {"enable", "provide", "done"}
        /\ srv.pc = "enable" => mode = "http"
        /\ mode = "client" => srv.pc = "done"
    <3>1. CASE mode = "http"
      BY <2>1, <3>1 DEF SrvPcs
    <3>2. CASE mode = "echo"
      BY <2>1, <3>2 DEF SrvPcs
    <3>3. CASE mode = "client"
      BY <2>1, <3>3 DEF SrvPcs
    <3> QED BY <2>1, <3>1, <3>2, <3>3
  <2>3. mode # "client" => \A c \in Conns : co[c].pc = "none"
    BY <1>3, NoCoOK
  <2> QED BY <2>1, <2>2, <2>3 DEF SrvInv, Shedding
<1>8. TextInv
  <2>1. EchoScript \in [text : Seq(Symbols), ends : Seq(Nat), status : Seq(Nat)]
    <3>1. Word("a") \in Symbols /\ Word("b") \in Symbols /\ WordEol("c") \in Symbols
      BY DEF Symbols
    <3>2. <<Word("a"), Word("b"), WordEol("c")>> \in Seq(Symbols)
      <4>1. PICK w1 \in Symbols, w2 \in Symbols, w3 \in Symbols :
              w1 = Word("a") /\ w2 = Word("b") /\ w3 = WordEol("c")
        BY <3>1
      <4>2. <<w1, w2, w3>> \in Seq(Symbols)
        OBVIOUS
      <4> QED BY <4>1, <4>2
    <3>3. <<>> \in Seq(Nat)
      OBVIOUS
    <3> QED BY <3>2, <3>3 DEF EchoScript
  <2>2. \A c \in Conns : script[c] \in [text : Seq(Symbols), ends : Seq(Nat), status : Seq(Nat)]
    <3>1. Seq(Words) \subseteq Seq(Symbols)
      BY WordsAreSymbols
    <3>2. ASSUME NEW c \in Conns PROVE script[c] \in [text : Seq(Symbols), ends : Seq(Nat), status : Seq(Nat)]
      <4>1. \/ script[c] = EchoScript
            \/ script[c] \in [text : Seq(Words), ends : Seq(Nat), status : Seq(Nat)]
        BY ServerAssumption DEF Init, Conns
      <4> QED BY <2>1, <3>1, <4>1
    <3> QED BY <3>2
  <2>3. script \in [Conns -> [text : Seq(Symbols), ends : Seq(Nat), status : Seq(Nat)]]
    BY <2>2 DEF Init
  <2>4. \A c \in Conns : script[c].text \in Seq(Symbols) /\ Len(script[c].text) \in Nat
    BY <2>2
  <2>5. taken \in [Conns -> Nat] /\ \A c \in Conns : taken[c] = 0
    BY DEF Init
  <2> QED BY <2>3, <2>4, <2>5 DEF TextInv
<1>9. BlkInv
  <2>1. PICK x : x = [NewBlock EXCEPT !.owner = "new"]
    OBVIOUS
  <2>2. x = NewBlock
    BY <2>1 DEF NewBlock
  <2>3. BlkOK(x) /\ x.owner = "new"
    BY <2>1, NewBlockOK DEF BlockOwners
  <2>4. blk = [b \in Blocks |-> x]
    BY <2>2 DEF Init
  <2> QED BY <1>5, <2>3, <2>4, FdsNat DEF BlkInv
<1>10. OwnInv
  <2>1. ASSUME NEW f \in Fds PROVE OwnedOnce(f)
    <3>1. f # -1 /\ closing[f] = 0 /\ f \notin leaked /\ backup = -1
      BY FdsNat DEF Init
    <3>2. fdt[f] \in {Free, Listen}
      BY DEF Init
    <3>3. Unowned(f)
      BY <1>5, <3>1 DEF Unowned
    <3> QED BY <3>1, <3>2, <3>3 DEF OwnedOnce, Unowned
  <2> QED BY <2>1 DEF OwnInv
<1> QED BY <1>4, <1>6, <1>7, <1>8, <1>9, <1>10 DEF IInv

-----------------------------------------------------------------------------
(* The kernel and the accepting coroutine.                                 *)

LEMMA ClosedType ==
  ASSUME FdInv, NEW g, fdt' = Closed(g)
  PROVE  fdt' \in [Fds -> Objects]
BY Conn0 DEF FdInv, Closed

LEMMA OpenedType ==
  ASSUME FdInv, NEW g \in Fds, NEW x \in Objects, fdt' = [fdt EXCEPT ![g] = x]
  PROVE  fdt' \in [Fds -> Objects]
BY DEF FdInv

LEMMA KernelClosesStep ==
  ASSUME IInv, NEW f \in Fds, KernelCloses(f)
  PROVE  IInv'
<1>1. FdInv /\ SrvInv /\ CoInv /\ TextInv /\ BlkInv /\ OwnInv
  BY DEF IInv
<1>2. UNCHANGED <<mode, srv, backup, nextConn, co, script, taken, blk, shed, leaked>>
  BY DEF KernelCloses, server, net, history
<1>3. /\ closing' \in [Fds -> Nat] /\ closing[f] > 0 /\ closing'[f] = closing[f] - 1
      /\ \A g \in Fds : g # f => closing'[g] = closing[g]
  BY <1>1 DEF KernelCloses, FdInv
<1>4. fdt' = [fdt EXCEPT ![f] = Free]
  BY DEF KernelCloses, Closed
<1>5. ASSUME ~shed' PROVE Unowned(f)'
  <2>1. OwnedOnce(f) /\ closing[f] # 0
    BY <1>1, <1>2, <1>3, <1>5 DEF OwnInv, FdInv
  <2>2. closing[f] = 1 /\ f \notin leaked /\ closing'[f] = 0
    BY <1>3, <2>1 DEF OwnedOnce
  <2>3. ~(mode = "http" /\ backup = f) /\ \A c \in Conns : co[c].fd # f /\ co[c].file # f
    BY <2>1 DEF OwnedOnce
  <2> QED BY <1>2, <2>2, <2>3 DEF Unowned
<1>6. OwnInv' /\ fdt' \in [Fds -> Objects]
  BY <1>1, <1>2, <1>3, <1>4, <1>5, OwnClose
<1>7. FdInv' /\ SrvInv' /\ CoInv' /\ TextInv' /\ BlkInv'
  BY <1>1, <1>2, <1>3, <1>6 DEF FdInv, SrvInv, CoInv, TextInv, BlkInv
<1> QED BY <1>6, <1>7 DEF IInv

LEMMA KernelTakesStep ==
  ASSUME IInv, NEW b \in Blocks, KernelTakes(b)
  PROVE  IInv'
<1>1. FdInv /\ SrvInv /\ CoInv /\ TextInv /\ BlkInv /\ OwnInv
  BY DEF IInv
<1>2. UNCHANGED <<mode, fdt, closing, srv, backup, nextConn, co, script, taken, shed, leaked>>
  BY DEF KernelTakes, server, net, history
<1>3. PICK o \in {"kernel", "lost"} : blk' = [blk EXCEPT ![b].owner = o]
  BY DEF KernelTakes
<1>4. BlkInv'
  BY <1>1, <1>2, <1>3, BlkLose DEF KernelTakes
<1>5. FdInv' /\ SrvInv' /\ CoInv' /\ TextInv' /\ OwnInv'
  <2>1. FdInv' /\ SrvInv'
    BY <1>1, <1>2 DEF FdInv, SrvInv
  <2>2. CoInv' /\ TextInv'
    BY <1>1, <1>2 DEF CoInv, TextInv
  <2>3. OwnInv'
    BY <1>1, <1>2, OwnSame
  <2> QED BY <2>1, <2>2, <2>3
<1> QED BY <1>4, <1>5 DEF IInv

LEMMA GotoFacts ==
  ASSUME SrvInv, NEW p \in SrvPcs, Goto(p)
  PROVE  srv' \in [pc : SrvPcs, fd : Fds \cup {-1}] /\ srv'.pc = p
BY DEF SrvInv, Goto

LEMMA LoopFacts ==
  ASSUME Loop
  PROVE  srv' \in [pc : SrvPcs, fd : Fds \cup {-1}] /\ srv'.pc \in {"accept", "done"}
<1>1. PICK pc \in {"accept", "done"} : srv' = [pc |-> pc, fd |-> -1]
  BY DEF Loop, LoopHeads
<1> QED BY <1>1 DEF SrvPcs

LEMMA EnableStep ==
  ASSUME IInv, better_enable
  PROVE  IInv'
<1>1. FdInv /\ SrvInv /\ CoInv /\ TextInv /\ BlkInv /\ OwnInv
  BY DEF IInv
<1>2. UNCHANGED <<mode, closing, nextConn, co, script, taken, blk, shed, leaked>>
  BY DEF better_enable, net, history
<1>3. srv.pc = "enable" /\ mode = "http" /\ backup = -1 /\ nextConn = 1
  BY <1>1 DEF better_enable, At, SrvInv
<1>4. srv' \in [pc : SrvPcs, fd : Fds \cup {-1}] /\ srv'.pc = "provide"
  BY <1>1, GotoFacts DEF better_enable, SrvPcs
<1>5. SrvInv'
  BY <1>1, <1>2, <1>3, <1>4 DEF SrvInv, Shedding
<1>6. OwnInv' /\ FdInv'
  <2>1. CASE Room /\ fdt' = [fdt EXCEPT ![LowestFree] = DevNull] /\ backup' = LowestFree
    <3>1. PICK g \in Fds : g = LowestFree /\ fdt[g] = Free
      BY <2>1, LowestIsFree
    <3>2. fdt' = [fdt EXCEPT ![g] = DevNull] /\ backup' = g
      BY <2>1, <3>1
    <3>3. \A f \in Fds : f # g => (backup' = f <=> backup = f)
      BY <1>3, <3>2, FdsNat
    <3>4. OwnInv' /\ fdt' \in [Fds -> Objects]
      <4>1. Opened(g, DevNull)
        BY <1>2, <1>3, <3>1, <3>2, <3>3, Conn0 DEF Opened
      <4> QED BY <1>1, <4>1, Conn0, OwnOpen
    <3> QED BY <1>1, <1>2, <3>2, <3>4 DEF FdInv
  <2>2. CASE fdt' = fdt /\ backup' = -1
    <3>1. OwnInv'
      BY <1>1, <1>2, <1>3, <2>2, OwnSame
    <3> QED BY <1>1, <1>2, <2>2, <3>1 DEF FdInv
  <2> QED BY <2>1, <2>2 DEF better_enable
<1>7. CoInv' /\ TextInv' /\ BlkInv'
  BY <1>1, <1>2 DEF CoInv, TextInv, BlkInv
<1> QED BY <1>5, <1>6, <1>7 DEF IInv

LEMMA ProvideStep ==
  ASSUME IInv, provide_group_contiguous
  PROVE  IInv'
<1>1. FdInv /\ SrvInv /\ CoInv /\ TextInv /\ BlkInv /\ OwnInv
  BY DEF IInv
<1>2. UNCHANGED <<mode, fdt, closing, backup, nextConn, co, script, taken, shed, leaked>>
  BY DEF provide_group_contiguous, net, history
<1>3. srv.pc = "provide" /\ mode # "client" /\ nextConn = 1
  BY <1>1 DEF provide_group_contiguous, At, SrvInv
<1>4. \A c \in Conns : co[c].pc = "none" /\ co[c].block = 0
  <2>1. ASSUME NEW c \in Conns PROVE co[c].pc = "none"
    <3>1. c >= nextConn
      BY <1>3 DEF Conns
    <3> QED BY <1>1, <1>3, <3>1 DEF SrvInv
  <2> QED BY <1>1, <2>1 DEF CoInv, CoOK
<1>5. srv' \in [pc : SrvPcs, fd : Fds \cup {-1}] /\ srv'.pc \in {"accept", "done", "stopped"}
  <2>1. CASE Loop
    BY <2>1, LoopFacts
  <2>2. CASE Goto("stopped")
    BY <1>1, <2>2, GotoFacts DEF SrvPcs
  <2> QED BY <2>1, <2>2 DEF provide_group_contiguous
<1>6. SrvInv'
  BY <1>1, <1>2, <1>3, <1>5 DEF SrvInv, Shedding
<1>7. BlkInv'
  <2>1. CASE blk' = [b \in Blocks |-> [NewBlock EXCEPT !.owner = "kernel"]]
    <3>1. PICK x : x = [NewBlock EXCEPT !.owner = "kernel"]
      OBVIOUS
    <3>2. BlkOK(x) /\ x.owner = "kernel"
      BY <3>1, NewBlockOK DEF BlockOwners
    <3>3. blk' = [b \in Blocks |-> x]
      BY <2>1, <3>1
    <3> QED BY <1>2, <1>4, <3>2, <3>3, FdsNat DEF BlkInv
  <2>2. CASE blk' = blk
    BY <1>1, <1>2, <2>2 DEF BlkInv
  <2> QED BY <2>1, <2>2 DEF provide_group_contiguous
<1>8. FdInv' /\ CoInv' /\ TextInv' /\ OwnInv'
  <2>1. FdInv' /\ CoInv' /\ TextInv'
    BY <1>1, <1>2 DEF FdInv, CoInv, TextInv
  <2>2. OwnInv'
    BY <1>1, <1>2, OwnSame
  <2> QED BY <2>1, <2>2
<1> QED BY <1>6, <1>7, <1>8 DEF IInv

\* co_spawn of the next handler, seen by everything but the descriptors.
LEMMA SpawnStep ==
  ASSUME IInv, mode # "client", nextConn \in Conns, NEW fd \in Fds \cup {-1}, Spawned(nextConn, fd),
         nextConn' = nextConn + 1, Loop, UNCHANGED <<mode, net, blk>>
  PROVE  /\ SrvInv' /\ CoInv' /\ TextInv' /\ BlkInv' /\ nextConn' \in 1 .. NumConns + 1
         /\ co[nextConn].fd = -1 /\ co[nextConn].file = -1
         /\ co'[nextConn].fd = fd /\ co'[nextConn].file = -1
         /\ \A d \in Conns : d # nextConn => co'[d] = co[d]
<1>1. FdInv /\ SrvInv /\ CoInv /\ TextInv /\ BlkInv
  BY DEF IInv
<1>2. UNCHANGED <<mode, script, taken, blk>>
  BY DEF net
<1>3. PICK c \in Conns : c = nextConn
  OBVIOUS
<1>4. co[c].pc = "none" /\ co[c].fd = -1 /\ co[c].file = -1 /\ co[c].block = 0
  <2>1. c >= nextConn
    BY <1>3, FdsNat
  <2>2. co[c].pc = "none" /\ CoOK(co[c])
    BY <1>1, <2>1 DEF SrvInv, CoInv
  <2> QED BY <2>2 DEF CoOK
<1>5. PICK p \in {"recv", "pool_read"} : p = IF mode = "http" THEN "recv" ELSE "pool_read"
  OBVIOUS
<1>6. PICK h : h = [NoCo EXCEPT !.pc = p, !.fd = fd]
  OBVIOUS
<1>7. CoOK(h) /\ h.fd = fd /\ h.file = -1 /\ h.block = 0
  <2>1. Handler(NoCo) /\ NoCo.file = -1 /\ NoCo.block = 0 /\ NoCo.done = 0
    BY DEF Handler, CoFields, NoCo
  <2>2. Handler(h) /\ h.pc = p /\ h.fd = fd /\ h.file = -1 /\ h.block = 0 /\ h.done = 0
    <3> HIDE DEF NoCo
    <3> QED BY <1>6, <2>1 DEF Handler, CoFields
  <2> QED BY <2>2 DEF CoOK, Pcs
<1>8. co' = [co EXCEPT ![c] = h]
  BY <1>3, <1>5, <1>6 DEF Spawned
<1>9. CoInv' /\ co'[c] = h /\ \A d \in Conns : d # c => co'[d] = co[d]
  BY <1>1, <1>7, <1>8, CoStep
<1>10. nextConn' \in 1 .. NumConns + 1
  BY FdsNat DEF Conns
<1>11. SrvInv'
  <2>1. srv' \in [pc : SrvPcs, fd : Fds \cup {-1}] /\ srv'.pc \in {"accept", "done"}
    BY LoopFacts
  <2>2. ASSUME NEW d \in Conns, d >= nextConn' PROVE co'[d].pc = "none"
    <3>1. d # c /\ d >= nextConn
      BY <1>3, <2>2, FdsNat
    <3> QED BY <1>1, <1>9, <3>1 DEF SrvInv
  <2> QED BY <1>2, <2>1, <2>2 DEF SrvInv, Shedding
<1>12. BlkInv'
  <2>1. \A d \in Conns : co'[d].block = co[d].block
    BY <1>4, <1>7, <1>9
  <2> QED BY <1>1, <1>2, <2>1, BlkSame
<1>13. TextInv'
  BY <1>1, <1>2, TextKept
<1> QED BY <1>3, <1>4, <1>7, <1>9, <1>10, <1>11, <1>12, <1>13

LEMMA AcceptConnStep ==
  ASSUME IInv, AcceptConn
  PROVE  IInv'
<1>1. FdInv /\ SrvInv /\ OwnInv /\ nextConn \in Conns
  BY DEF IInv, AcceptConn
<1>2. UNCHANGED <<mode, closing, backup, net, blk, shed, leaked>>
  BY DEF AcceptConn, history
<1>3. mode # "client"
  BY <1>1 DEF AcceptConn, At, SrvInv
<1>4. PICK g \in Fds : g = LowestFree /\ fdt[g] = Free
  BY LowestIsFree DEF AcceptConn
<1>5. PICK c \in Conns : c = nextConn
  BY <1>1
<1>6. fdt' = [fdt EXCEPT ![g] = Conn(c)] /\ Spawned(nextConn, g) /\ nextConn' = nextConn + 1 /\ Loop
  BY <1>4, <1>5 DEF AcceptConn
<1>7. /\ SrvInv' /\ CoInv' /\ TextInv' /\ BlkInv' /\ nextConn' \in 1 .. NumConns + 1
      /\ co[c].fd = -1 /\ co[c].file = -1
      /\ co'[c].fd = g /\ co'[c].file = -1
      /\ \A d \in Conns : d # c => co'[d] = co[d]
  BY <1>1, <1>2, <1>3, <1>5, <1>6, SpawnStep
<1>8. \A f \in Fds : f # g =>
        \A d \in Conns : (co'[d].fd = f <=> co[d].fd = f) /\ (co'[d].file = f <=> co[d].file = f)
  BY <1>7, FdsNat
<1>9. \A d \in Conns : /\ co'[d].fd = g => co[d].fd = g \/ d = c
                       /\ co'[d].file = g => co[d].file = g
  BY <1>7, FdsNat
<1>10. Conn(c) \in Objects /\ Conn(c) \notin {Free, Listen}
  BY Conn0
<1>11. OwnInv' /\ fdt' \in [Fds -> Objects]
  <2>1. Opened(g, Conn(c))
    BY <1>2, <1>4, <1>6, <1>7, <1>8, <1>9, <1>10 DEF Opened
  <2> QED BY <1>1, <1>10, <2>1, OwnOpen
<1>12. FdInv'
  BY <1>1, <1>2, <1>7, <1>11 DEF FdInv
<1> QED BY <1>7, <1>11, <1>12 DEF IInv

LEMMA AcceptEintrStep ==
  ASSUME IInv, AcceptEintr
  PROVE  IInv'
<1>1. FdInv /\ SrvInv /\ OwnInv /\ nextConn \in Conns
  BY DEF IInv, AcceptEintr
<1>2. UNCHANGED <<mode, fdt, closing, backup, net, blk, shed, leaked>>
  BY DEF AcceptEintr, history
<1>3. mode # "client"
  BY <1>1 DEF AcceptEintr, At, SrvInv
<1>4. Spawned(nextConn, -1) /\ nextConn' = nextConn + 1 /\ Loop
  BY DEF AcceptEintr
<1>5. /\ SrvInv' /\ CoInv' /\ TextInv' /\ BlkInv' /\ nextConn' \in 1 .. NumConns + 1
      /\ \A d \in Conns : co'[d].fd = co[d].fd /\ co'[d].file = co[d].file
  BY <1>1, <1>2, <1>3, <1>4, SpawnStep
<1>6. OwnInv'
  BY <1>1, <1>2, <1>5, OwnSame
<1>7. FdInv'
  BY <1>1, <1>2, <1>5 DEF FdInv
<1> QED BY <1>5, <1>6, <1>7 DEF IInv

LEMMA ThrowsFacts ==
  ASSUME SrvInv, AcceptThrows
  PROVE  srv' \in [pc : SrvPcs, fd : Fds \cup {-1}] /\ srv'.pc \in {"stopped", "done"}
<1>1. CASE Goto("stopped")
  BY <1>1, GotoFacts DEF SrvPcs
<1>2. CASE Goto("done")
  BY <1>2, GotoFacts DEF SrvPcs
<1> QED BY <1>1, <1>2 DEF AcceptThrows

\* A step of the accepting coroutine that spawns nothing.
LEMMA SrvMoves ==
  ASSUME SrvInv, mode # "client", srv' \in [pc : SrvPcs, fd : Fds \cup {-1}],
         srv'.pc \notin {"enable", "provide"}, srv'.pc \in Shedding => shed' /\ nextConn \in Conns,
         UNCHANGED <<mode, nextConn, co>>
  PROVE  SrvInv'
BY DEF SrvInv

LEMMA AcceptErrorStep ==
  ASSUME IInv, AcceptError
  PROVE  IInv'
<1>1. FdInv /\ SrvInv /\ CoInv /\ TextInv /\ BlkInv /\ OwnInv
  BY DEF IInv
<1>2. UNCHANGED <<mode, fdt, closing, backup, nextConn, co, script, taken, blk, shed, leaked>>
  BY DEF AcceptError, history, net
<1>3. mode # "client"
  BY <1>1 DEF AcceptError, At, SrvInv
<1>4. srv' \in [pc : SrvPcs, fd : Fds \cup {-1}] /\ srv'.pc \in {"stopped", "done"}
  BY <1>1, ThrowsFacts DEF AcceptError
<1>5. SrvInv'
  BY <1>1, <1>2, <1>3, <1>4, SrvMoves DEF Shedding
<1>6. FdInv' /\ CoInv' /\ TextInv' /\ BlkInv' /\ OwnInv'
  <2>1. FdInv' /\ CoInv'
    BY <1>1, <1>2 DEF FdInv, CoInv
  <2>2. TextInv' /\ BlkInv'
    BY <1>1, <1>2, TextKept, BlkSame
  <2>3. OwnInv'
    BY <1>1, <1>2, OwnSame
  <2> QED BY <2>1, <2>2, <2>3
<1> QED BY <1>5, <1>6 DEF IInv

LEMMA AcceptEnfileStep ==
  ASSUME IInv, AcceptEnfile
  PROVE  IInv'
<1>1. FdInv /\ SrvInv /\ CoInv /\ TextInv /\ BlkInv
  BY DEF IInv
<1>2. UNCHANGED <<mode, closing, backup, nextConn, co, script, taken, blk>> /\ shed' = TRUE
  BY DEF AcceptEnfile, net
<1>3. mode # "client" /\ nextConn \in Conns
  BY <1>1 DEF AcceptEnfile, At, SrvInv
<1>4. srv' \in [pc : SrvPcs, fd : Fds \cup {-1}] /\ srv'.pc = "accept2"
  BY <1>1, GotoFacts DEF AcceptEnfile, SrvPcs
<1>5. SrvInv'
  BY <1>1, <1>2, <1>3, <1>4, SrvMoves
<1>6. fdt' \in [Fds -> Objects]
  BY <1>1, ClosedType DEF AcceptEnfile
<1>7. FdInv' /\ CoInv' /\ TextInv' /\ BlkInv' /\ OwnInv'
  BY <1>1, <1>2, <1>6 DEF FdInv, CoInv, TextInv, BlkInv, OwnInv
<1> QED BY <1>5, <1>7 DEF IInv

LEMMA AcceptAgainStep ==
  ASSUME IInv, AcceptAgain
  PROVE  IInv'
<1>1. FdInv /\ SrvInv /\ CoInv /\ TextInv /\ BlkInv
  BY DEF IInv
<1>2. UNCHANGED <<mode, closing, backup, net, blk, shed>>
  BY DEF AcceptAgain, history
<1>3. mode # "client" /\ nextConn \in Conns /\ shed
  BY <1>1 DEF AcceptAgain, At, SrvInv, Shedding
<1>4. OwnInv'
  BY <1>2, <1>3 DEF OwnInv
<1>5. CASE /\ Room /\ fdt' = [fdt EXCEPT ![LowestFree] = Conn(nextConn)]
           /\ srv' = [pc |-> "close_conn", fd |-> LowestFree] /\ UNCHANGED <<co, nextConn>>
  <2>1. PICK g \in Fds : g = LowestFree
    BY <1>5, LowestIsFree
  <2>2. srv' \in [pc : SrvPcs, fd : Fds \cup {-1}] /\ srv'.pc = "close_conn"
    BY <1>5, <2>1 DEF SrvPcs
  <2>3. SrvInv'
    BY <1>1, <1>2, <1>3, <1>5, <2>2, SrvMoves
  <2>4. fdt' \in [Fds -> Objects]
    BY <1>1, <1>3, <1>5, <2>1, Conn0, OpenedType
  <2>5. FdInv' /\ CoInv' /\ TextInv' /\ BlkInv'
    BY <1>1, <1>2, <1>5, <2>4 DEF FdInv, CoInv, TextInv, BlkInv, net
  <2> QED BY <1>4, <2>3, <2>5 DEF IInv
<1>6. CASE AcceptThrows /\ UNCHANGED <<fdt, co, nextConn>>
  <2>1. srv' \in [pc : SrvPcs, fd : Fds \cup {-1}] /\ srv'.pc \in {"stopped", "done"}
    BY <1>1, <1>6, ThrowsFacts
  <2>2. SrvInv'
    BY <1>1, <1>2, <1>3, <1>6, <2>1, SrvMoves DEF Shedding
  <2>3. FdInv' /\ CoInv' /\ TextInv' /\ BlkInv'
    BY <1>1, <1>2, <1>6 DEF FdInv, CoInv, TextInv, BlkInv, net
  <2> QED BY <1>4, <2>2, <2>3 DEF IInv
<1>7. CASE Spawned(nextConn, -1) /\ nextConn' = nextConn + 1 /\ Loop /\ fdt' = fdt
  <2>1. SrvInv' /\ CoInv' /\ TextInv' /\ BlkInv' /\ nextConn' \in 1 .. NumConns + 1
    BY <1>2, <1>3, <1>7, SpawnStep
  <2>2. FdInv'
    BY <1>1, <1>2, <1>7, <2>1 DEF FdInv
  <2> QED BY <1>4, <2>1, <2>2 DEF IInv
<1> QED BY <1>5, <1>6, <1>7 DEF AcceptAgain

LEMMA CloseConnStep ==
  ASSUME IInv, CloseConn
  PROVE  IInv'
<1>1. FdInv /\ SrvInv /\ CoInv /\ TextInv /\ BlkInv
  BY DEF IInv
<1>2. UNCHANGED <<mode, closing, backup, nextConn, co, script, taken, blk, shed>>
  BY DEF CloseConn, net, history
<1>3. mode # "client" /\ nextConn \in Conns /\ shed
  BY <1>1 DEF CloseConn, At, SrvInv, Shedding
<1>4. srv' \in [pc : SrvPcs, fd : Fds \cup {-1}] /\ srv'.pc = "reopen"
  BY <1>1, GotoFacts DEF CloseConn, SrvPcs
<1>5. SrvInv'
  BY <1>1, <1>2, <1>3, <1>4, SrvMoves
<1>6. fdt' \in [Fds -> Objects]
  BY <1>1, ClosedType DEF CloseConn
<1>7. FdInv' /\ CoInv' /\ TextInv' /\ BlkInv' /\ OwnInv'
  BY <1>1, <1>2, <1>3, <1>6 DEF FdInv, CoInv, TextInv, BlkInv, OwnInv
<1> QED BY <1>5, <1>7 DEF IInv

LEMMA ReopenStep ==
  ASSUME IInv, Reopen
  PROVE  IInv'
<1>1. FdInv /\ SrvInv
  BY DEF IInv
<1>2. UNCHANGED <<mode, closing, net, blk, shed>>
  BY DEF Reopen, history
<1>3. mode # "client" /\ nextConn \in Conns /\ shed /\ srv.fd \in Fds \cup {-1}
  BY <1>1 DEF Reopen, At, SrvInv, Shedding
<1>4. OwnInv'
  BY <1>2, <1>3 DEF OwnInv
<1>5. SrvInv' /\ CoInv' /\ TextInv' /\ BlkInv' /\ nextConn' \in 1 .. NumConns + 1
  BY <1>2, <1>3, SpawnStep DEF Reopen
<1>6. fdt' \in [Fds -> Objects] /\ backup' \in Fds \cup {-1}
  <2>1. CASE Room /\ fdt' = [fdt EXCEPT ![LowestFree] = DevNull] /\ backup' = LowestFree
    BY <1>1, <2>1, LowestIsFree, Conn0, OpenedType
  <2>2. CASE fdt' = fdt /\ backup' = -1
    BY <1>1, <2>2 DEF FdInv
  <2> QED BY <2>1, <2>2 DEF Reopen
<1>7. FdInv'
  BY <1>1, <1>2, <1>5, <1>6 DEF FdInv
<1> QED BY <1>4, <1>5, <1>7 DEF IInv
=============================================================================
