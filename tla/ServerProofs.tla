---------------------------- MODULE ServerProofs ----------------------------
(***************************************************************************)
(* Proofs about the servers' descriptors and blocks, continued: the        *)
(* handlers keep the invariant of ServerAcceptProofs, and the theorems.    *)
(* What the parser makes of a request plays no part: a handler may get any *)
(* answer from it.                                                         *)
(***************************************************************************)
EXTENDS ServerAcceptProofs, FiniteSetTheorems

-----------------------------------------------------------------------------
(* The handlers.                                                           *)

\* A handler keeps its descriptors.
LEMMA KeepsFds ==
  ASSUME IInv, NEW c \in Conns, co[c].pc # "none", NEW h, CoOK(h), co' = [co EXCEPT ![c] = h],
         h.fd = co[c].fd, h.file = co[c].file, UNCHANGED <<mode, fdt, closing, server, history>>
  PROVE  /\ FdInv' /\ SrvInv' /\ CoInv' /\ OwnInv' /\ co'[c] = h
         /\ \A d \in Conns : d # c => co'[d] = co[d]
<1>1. FdInv /\ SrvInv /\ CoInv /\ OwnInv
  BY DEF IInv
<1>2. UNCHANGED <<mode, fdt, closing, srv, backup, nextConn, shed, leaked>>
  BY DEF server, history
<1>3. CoInv' /\ co'[c] = h /\ \A d \in Conns : d # c => co'[d] = co[d]
  BY <1>1, CoStep
<1>4. \A d \in Conns : co'[d].fd = co[d].fd /\ co'[d].file = co[d].file
  BY <1>3
<1>5. OwnInv'
  BY <1>1, <1>2, <1>4, OwnSame
<1>6. FdInv'
  BY <1>1, <1>2 DEF FdInv
<1>7. SrvInv'
  BY <1>1, <1>2, <1>3, SrvKept
<1> QED BY <1>3, <1>5, <1>6, <1>7

LEMMA PlainStep ==
  ASSUME IInv, NEW c \in Conns, co[c].pc # "none", NEW h, CoOK(h), co' = [co EXCEPT ![c] = h],
         h.fd = co[c].fd, h.file = co[c].file, h.block = co[c].block,
         UNCHANGED <<mode, fdt, closing, server, blk, history>>, TextInv'
  PROVE  IInv'
<1>1. /\ FdInv' /\ SrvInv' /\ CoInv' /\ OwnInv' /\ co'[c] = h
      /\ \A d \in Conns : d # c => co'[d] = co[d]
  BY KeepsFds
<1>2. \A d \in Conns : co'[d].block = co[d].block
  BY <1>1
<1>3. BlkInv'
  BY <1>2, BlkSame DEF IInv
<1> QED BY <1>1, <1>3 DEF IInv

LEMMA HttpRecvStep ==
  ASSUME IInv, NEW c \in Conns, NEW k \in Nat, HttpRecv(c, k)
  PROVE  IInv'
<1>1. FdInv /\ TextInv /\ CoOK(co[c]) /\ co[c].pc = "recv"
  BY DEF IInv, CoInv, HttpRecv, Is
<1>2. UNCHANGED <<mode, fdt, server, blk, history>>
  BY DEF HttpRecv
<1>3. TextInv'
  <2>1. PICK s \in Conns : s = Sender(c)
    BY <1>1, SenderIsConn DEF HttpRecv
  <2>2. taken[s] + k <= Len(script[s].text) /\ taken' = [taken EXCEPT ![s] = @ + k] /\ script' = script
    BY <2>1 DEF HttpRecv
  <2> QED BY <1>1, <2>2, TextTake
<1>4. PICK p : Parsed(c, p)
  BY DEF HttpRecv
<1>5. PICK h : h = [co[c] EXCEPT !.buf = p.buf, !.ctx = p.ctx]
  OBVIOUS
<1>7. /\ Handler(h) /\ h.fd = co[c].fd /\ h.file = -1 /\ co[c].file = -1 /\ h.done \in Nat
      /\ h.block = 0 /\ co[c].block = 0
  BY <1>1, <1>5 DEF CoOK, Handler, CoFields
<1>8. CASE p.ok /\ ~gotAll(p.ctx)
  <2>1. NextRequest(c, h)
    BY <1>4, <1>5, <1>8 DEF Parsed
  <2> QED BY <1>1, <1>2, <1>3, <1>7, <2>1, NextRequestPlain
<1>9. CASE ~(p.ok /\ ~gotAll(p.ctx))
  <2>1. PICK g : /\ closing' = closing /\ co' = [co EXCEPT ![c] = g]
                 /\ g = IF ~p.ok THEN [h EXCEPT !.pc = "header", !.close = TRUE, !.status = 400]
                        ELSE IF p.ctx.req.path = "public/bench"
                        THEN [h EXCEPT !.pc = "header", !.close = keepalive(p.ctx.req), !.status = 404]
                        ELSE [h EXCEPT !.pc = "open", !.close = keepalive(p.ctx.req)]
    BY <1>4, <1>5, <1>9 DEF Parsed
  <2>2. PICK v : v = keepalive(p.ctx.req)
    OBVIOUS
  <2>3. \/ g = [h EXCEPT !.pc = "header", !.close = TRUE, !.status = 400]
        \/ g = [h EXCEPT !.pc = "header", !.close = v, !.status = 404]
        \/ g = [h EXCEPT !.pc = "open", !.close = v]
    BY <2>1, <2>2
  <2>4. /\ Handler(g) /\ g.pc \in {"header", "open"} /\ g.fd = h.fd /\ g.file = -1 /\ g.done \in Nat /\ g.block = 0
    <3>1. ASSUME NEW u, NEW n, g = [h EXCEPT !.pc = "header", !.close = u, !.status = n]
          PROVE  /\ Handler(g) /\ g.pc = "header" /\ g.fd = h.fd /\ g.file = h.file
                 /\ g.done = h.done /\ g.block = h.block
      <4>1. PICK g1 : g1 = [h EXCEPT !.pc = "header", !.close = u]
        OBVIOUS
      <4>2. /\ Handler(g1) /\ g1.pc = "header" /\ g1.fd = h.fd /\ g1.file = h.file
            /\ g1.done = h.done /\ g1.block = h.block
        BY <1>7, <4>1 DEF Handler, CoFields
      <4>3. g = [g1 EXCEPT !.status = n]
        BY <3>1, <4>1, Zenon
      <4> QED BY <4>2, <4>3 DEF Handler, CoFields
    <3>2. CASE \E u, n : g = [h EXCEPT !.pc = "header", !.close = u, !.status = n]
      BY <1>7, <3>1, <3>2
    <3>3. CASE g = [h EXCEPT !.pc = "open", !.close = v]
      BY <1>7, <3>3 DEF Handler, CoFields
    <3>4. (\E u, n : g = [h EXCEPT !.pc = "header", !.close = u, !.status = n])
          \/ g = [h EXCEPT !.pc = "open", !.close = v]
      <4>1. CASE g = [h EXCEPT !.pc = "header", !.close = TRUE, !.status = 400]
        <5>1. \E u, n : g = [h EXCEPT !.pc = "header", !.close = u, !.status = n]
          <6> WITNESS TRUE, 400
          <6> QED BY <4>1
        <5> QED BY <5>1
      <4>2. CASE g = [h EXCEPT !.pc = "header", !.close = v, !.status = 404]
        <5>1. \E u, n : g = [h EXCEPT !.pc = "header", !.close = u, !.status = n]
          <6> WITNESS v, 404
          <6> QED BY <4>2
        <5> QED BY <5>1
      <4> QED BY <2>3, <4>1, <4>2
    <3> QED BY <3>2, <3>3, <3>4, Zenon
  <2>5. CoOK(g)
    BY <1>1, <1>7, <2>4 DEF CoOK, Pcs
  <2>6. /\ UNCHANGED <<mode, fdt, closing, server, blk, history>> /\ co[c].pc # "none"
        /\ g.fd = co[c].fd /\ g.file = co[c].file /\ g.block = co[c].block
    BY <1>1, <1>2, <1>7, <2>1, <2>4
  <2>7. co' = [co EXCEPT ![c] = g]
    BY <2>1
  <2> QED BY <1>3, <2>5, <2>6, <2>7, PlainStep
<1> QED BY <1>8, <1>9

LEMMA EndStep ==
  ASSUME IInv, NEW c \in Conns, RecvFails(c) \/ FileReadFails(c) \/ CloseHandler(c)
  PROVE  IInv'
<1>1. CoOK(co[c]) /\ co[c].pc \in {"recv", "pool_read", "file_read", "close"} /\ Ends(c)
      /\ PoolReadThrows
  BY DEF IInv, CoInv, RecvFails, FileReadFails, CloseHandler, Is, PoolReadThrows
<1>2. co[c].block = 0 /\ co[c].pc # "none"
  BY <1>1 DEF CoOK
<1>3. UNCHANGED <<mode, fdt, server, history, script, taken>>
  BY DEF RecvFails, FileReadFails, CloseHandler, net
<1> QED BY <1>1, <1>2, <1>3, EndsStep

LEMMA SendFailsStep ==
  ASSUME IInv, NEW c \in Conns, SendFails(c)
  PROVE  IInv'
<1>1. /\ co[c].pc # "none" /\ Ends(c)
      /\ co[c].block = 0 => PoolReadThrows
      /\ co[c].block # 0 => blk' = GivenBack(co[c].block)
  BY DEF SendFails, Is, PoolReadThrows
<1>2. UNCHANGED <<mode, fdt, server, history, script, taken>>
  BY DEF SendFails
<1> QED BY <1>1, <1>2, EndsStep

LEMMA BadFileStep ==
  ASSUME IInv, NEW c \in Conns, OpenFails(c) \/ StatxFails(c)
  PROVE  IInv'
<1>1. CoOK(co[c]) /\ co[c].pc \in {"open", "statx"} /\ BadFile(c)
  BY DEF IInv, CoInv, OpenFails, StatxFails, Is
<1>2. UNCHANGED <<mode, fdt, server, blk, history>> /\ UNCHANGED <<script, taken>>
  BY DEF OpenFails, StatxFails, net
<1>3. Handler(co[c]) /\ NextRequest(c, co[c])
  BY <1>1 DEF CoOK, BadFile
<1>4. TextInv'
  BY <1>2, TextKept DEF IInv
<1> QED BY <1>1, <1>2, <1>3, <1>4, NextRequestPlain

LEMMA OpenFileStep ==
  ASSUME IInv, NEW c \in Conns, OpenFile(c)
  PROVE  IInv'
<1>1. FdInv /\ SrvInv /\ CoInv /\ TextInv /\ BlkInv /\ OwnInv /\ CoOK(co[c]) /\ co[c].pc = "open"
  BY DEF IInv, CoInv, OpenFile, Is
<1>2. UNCHANGED <<mode, closing, srv, backup, nextConn, script, taken, blk, shed, leaked>>
  BY DEF OpenFile, server, net, history
<1>3. PICK g \in Fds : g = LowestFree /\ fdt[g] = Free
  BY LowestIsFree DEF OpenFile
<1>4. PICK h : h = [co[c] EXCEPT !.pc = "statx", !.file = g]
  OBVIOUS
<1>5. /\ Handler(h) /\ h.pc = "statx" /\ h.file = g /\ h.fd = co[c].fd /\ h.block = co[c].block
      /\ h.done = co[c].done /\ h.ctx = co[c].ctx
  BY <1>1, <1>4 DEF CoOK, Handler, CoFields
<1>6. CoOK(h)
  BY <1>1, <1>5 DEF CoOK, Pcs, OpenFile
<1>7. co' = [co EXCEPT ![c] = h]
  BY <1>1, <1>3, <1>4 DEF OpenFile, CoInv
<1>8. CoInv' /\ co'[c] = h /\ \A d \in Conns : d # c => co'[d] = co[d]
  BY <1>1, <1>6, <1>7, CoStep
<1>9. co[c].file = -1
  BY <1>1 DEF CoOK
<1>10. Opened(g, FileOf(c))
  <2>1. fdt' = [fdt EXCEPT ![g] = FileOf(c)]
    BY <1>3 DEF OpenFile
  <2>2. \A f \in Fds : f # g =>
          \A d \in Conns : (co'[d].fd = f <=> co[d].fd = f) /\ (co'[d].file = f <=> co[d].file = f)
    BY <1>5, <1>8, <1>9, FdsNat
  <2>3. \A d \in Conns : /\ co'[d].fd = g => co[d].fd = g
                         /\ co'[d].file = g => co[d].file = g \/ d = c
    BY <1>5, <1>8
  <2>4. co'[c].file = g
    BY <1>5, <1>8
  <2>5. FileOf(c) \notin {Free, Listen}
    BY Conn0
  <2> QED BY <1>2, <1>3, <2>1, <2>2, <2>3, <2>4, <2>5 DEF Opened
<1>11. OwnInv' /\ fdt' \in [Fds -> Objects]
  BY <1>1, <1>10, Conn0, OwnOpen
<1>12. FdInv' /\ SrvInv' /\ TextInv'
  <2>1. FdInv'
    BY <1>1, <1>2, <1>11 DEF FdInv
  <2>2. SrvInv'
    BY <1>1, <1>2, <1>8, SrvKept
  <2> QED BY <1>1, <1>2, <2>1, <2>2, TextKept
<1>13. BlkInv'
  <2>1. \A d \in Conns : co'[d].block = co[d].block
    BY <1>5, <1>8
  <2> QED BY <1>1, <1>2, <2>1, BlkSame
<1> QED BY <1>8, <1>11, <1>12, <1>13 DEF IInv

LEMMA StatxStep ==
  ASSUME IInv, NEW c \in Conns, get_statx(c)
  PROVE  IInv'
<1>1. CoInv /\ TextInv /\ CoOK(co[c]) /\ co[c].pc = "statx"
  BY DEF IInv, CoInv, get_statx, Is
<1>2. UNCHANGED <<mode, fdt, closing, server, blk, history>> /\ TextInv'
  BY <1>1, TextKept DEF get_statx, net
<1>3. PICK a, b : /\ a = IF Files[co[c].ctx.req.path].dir THEN 404 ELSE 200
                  /\ b = IF Files[co[c].ctx.req.path].dir THEN 0 ELSE Len(Files[co[c].ctx.req.path].content)
  OBVIOUS
<1>4. PICK h : h = [co[c] EXCEPT !.pc = "header", !.status = a, !.size = b]
  OBVIOUS
<1>5. co' = [co EXCEPT ![c].pc = "header", ![c].status = a, ![c].size = b]
  BY <1>3 DEF get_statx
<1>6. co' = [co EXCEPT ![c] = h]
  BY <1>1, <1>4, <1>5 DEF CoInv
<1>7. /\ Handler(h) /\ h.pc = "header" /\ h.fd = co[c].fd /\ h.file = co[c].file /\ h.block = co[c].block
      /\ h.done = co[c].done /\ h.ctx = co[c].ctx
  BY <1>1, <1>4 DEF CoOK, Handler, CoFields
<1>8. CoOK(h)
  BY <1>1, <1>7 DEF CoOK, Pcs
<1> QED BY <1>1, <1>2, <1>6, <1>7, <1>8, PlainStep

LEMMA SendHeaderStep ==
  ASSUME IInv, NEW c \in Conns, SendHeader(c)
  PROVE  IInv'
<1>1. CoInv /\ TextInv /\ CoOK(co[c]) /\ co[c].pc = "header"
  BY DEF IInv, CoInv, SendHeader, Is
<1>2. UNCHANGED <<mode, fdt, server, blk, history>> /\ TextInv'
  BY <1>1, TextKept DEF SendHeader
<1>3. CASE NextRequest(c, co[c])
  <2>1. Handler(co[c])
    BY <1>1 DEF CoOK
  <2> QED BY <1>1, <1>2, <1>3, <2>1, NextRequestPlain
<1>4. CASE co' = [co EXCEPT ![c].pc = "file_read"] /\ closing' = closing
  <2>1. PICK h : h = [co[c] EXCEPT !.pc = "file_read"]
    OBVIOUS
  <2>2. co' = [co EXCEPT ![c] = h]
    BY <1>1, <1>4, <2>1 DEF CoInv
  <2>3. /\ Handler(h) /\ h.pc = "file_read" /\ h.fd = co[c].fd /\ h.file = co[c].file /\ h.block = co[c].block
        /\ h.done = co[c].done /\ h.ctx = co[c].ctx
    BY <1>1, <2>1 DEF CoOK, Handler, CoFields
  <2>4. CoOK(h)
    BY <1>1, <2>3 DEF CoOK, Pcs
  <2> QED BY <1>1, <1>2, <1>4, <2>2, <2>3, <2>4, PlainStep
<1> QED BY <1>3, <1>4 DEF SendHeader

\* The words from position i + 1 to position i + k of a text.
LEMMA Portion ==
  ASSUME NEW t \in Seq(Symbols), NEW i \in Nat, NEW k \in Nat, i + k <= Len(t)
  PROVE  SubSeq(t, i + 1, i + k) \in Seq(Symbols) /\ Len(SubSeq(t, i + 1, i + k)) = k
<1>1. PICK a, b : a = i + 1 /\ b = i + k
  OBVIOUS
<1>2. SubSeq(t, a, b) \in Seq(Symbols)
  BY <1>1
<1>3. Len(SubSeq(t, a, b)) = k
  BY <1>1
<1> QED BY <1>1, <1>2, <1>3

LEMMA FileReadStep ==
  ASSUME IInv, NEW c \in Conns, NEW b \in Blocks, NEW k \in Nat, FileRead(c, b, k)
  PROVE  IInv'
<1>1. CoInv /\ TextInv /\ BlkInv /\ CoOK(co[c]) /\ co[c].pc = "file_read" /\ co[c].block = 0 /\ co[c].done \in Nat
  BY DEF IInv, CoInv, CoOK, FileRead, Is
<1>2. UNCHANGED <<mode, fdt, closing, server, history>> /\ TextInv'
  BY <1>1, TextKept DEF FileRead, net
<1>3. PICK t \in Seq(Symbols) : t = Files[co[c].ctx.req.path].content
  <2>1. co[c].file # -1
    BY FdsNat, Conn0 DEF FileRead, Refers
  <2>2. Files[co[c].ctx.req.path].content \in Seq(Words)
    BY <1>1, <2>1, ServerAssumption DEF CoOK
  <2> QED BY <2>2, WordsAreSymbols
<1>4. /\ k <= BlockSize /\ co[c].done + k <= Len(t) /\ Selected(b, SubSeq(t, co[c].done + 1, co[c].done + k))
      /\ co' = [co EXCEPT ![c].pc = "body", ![c].block = b, ![c].done = @ + readable(blk'[b].buf)]
  BY <1>3 DEF FileRead
<1>5. PICK s \in Seq(Symbols) : s = SubSeq(t, co[c].done + 1, co[c].done + k) /\ Len(s) = k
  BY <1>1, <1>4, Portion
<1>6. PICK m : m = readable(blk'[b].buf)
  OBVIOUS
<1>7. PICK n : n = co[c].done + m
  OBVIOUS
<1>8. PICK h : h = [co[c] EXCEPT !.pc = "body", !.block = b, !.done = n]
  OBVIOUS
<1>9. co' = [co EXCEPT ![c] = h]
  BY <1>1, <1>4, <1>6, <1>7, <1>8 DEF CoInv
<1>10. /\ Handler(h) /\ h.pc = "body" /\ h.fd = co[c].fd /\ h.file = co[c].file /\ h.block = b
       /\ h.done = n /\ h.ctx = co[c].ctx
  BY <1>1, <1>8 DEF CoOK, Handler, CoFields
<1>11. co'[c] = h /\ \A d \in Conns : d # c => co'[d] = co[d]
  BY <1>1, <1>9 DEF CoInv
<1>12. BlkInv' /\ m = k
  <2>1. Selected(b, s) /\ Len(s) <= BlockSize
    BY <1>4, <1>5
  <2>2. co'[c].block = b /\ \A d \in Conns : d # c => co'[d].block = co[d].block
    BY <1>10, <1>11
  <2>3. BlkInv' /\ readable(blk'[b].buf) = Len(s)
    BY <1>1, <2>1, <2>2, BlkTake
  <2> QED BY <1>5, <1>6, <2>3
<1>13. n \in Nat
  BY <1>1, <1>7, <1>12
<1>14. CoOK(h)
  BY <1>1, <1>10, <1>13, FdsNat DEF CoOK, Pcs
<1>15. FdInv' /\ SrvInv' /\ CoInv' /\ OwnInv'
  BY <1>1, <1>2, <1>9, <1>10, <1>14, KeepsFds
<1> QED BY <1>2, <1>12, <1>15 DEF IInv

LEMMA EchoReadStep ==
  ASSUME IInv, NEW c \in Conns, NEW b \in Blocks, NEW k \in Nat, EchoRead(c, b, k)
  PROVE  IInv'
<1>1. /\ FdInv /\ CoInv /\ TextInv /\ BlkInv /\ CoOK(co[c]) /\ co[c].pc = "pool_read" /\ co[c].block = 0
      /\ Sender(c) # 0
  BY DEF IInv, CoInv, CoOK, EchoRead, Is
<1>2. UNCHANGED <<mode, fdt, closing, server, history>>
  BY DEF EchoRead
<1>3. PICK e \in Conns : e = Sender(c)
  BY <1>1, SenderIsConn
<1>4. PICK t \in Seq(Symbols) : t = script[e].text
  BY <1>1 DEF TextInv
<1>5. PICK i \in Nat : i = taken[e]
  BY <1>1 DEF TextInv
<1>6. /\ k <= BlockSize /\ i + k <= Len(t) /\ Selected(b, SubSeq(t, i + 1, i + k))
      /\ taken' = [taken EXCEPT ![e] = @ + k] /\ script' = script
      /\ co' = [co EXCEPT ![c].pc = "body", ![c].block = b]
  BY <1>3, <1>4, <1>5 DEF EchoRead
<1>7. TextInv'
  BY <1>1, <1>4, <1>5, <1>6, TextTake
<1>8. PICK s \in Seq(Symbols) : s = SubSeq(t, i + 1, i + k) /\ Len(s) = k
  BY <1>6, Portion
<1>9. PICK h : h = [co[c] EXCEPT !.pc = "body", !.block = b]
  OBVIOUS
<1>10. co' = [co EXCEPT ![c] = h]
  BY <1>1, <1>6, <1>9 DEF CoInv
<1>11. /\ Handler(h) /\ h.pc = "body" /\ h.fd = co[c].fd /\ h.file = co[c].file /\ h.block = b
       /\ h.done = co[c].done /\ h.ctx = co[c].ctx
  BY <1>1, <1>9 DEF CoOK, Handler, CoFields
<1>12. CoOK(h)
  BY <1>1, <1>11, FdsNat DEF CoOK, Pcs
<1>13. /\ FdInv' /\ SrvInv' /\ CoInv' /\ OwnInv' /\ co'[c] = h
       /\ \A d \in Conns : d # c => co'[d] = co[d]
  BY <1>1, <1>2, <1>10, <1>11, <1>12, KeepsFds
<1>14. BlkInv'
  <2>1. Selected(b, s) /\ Len(s) <= BlockSize
    BY <1>6, <1>8
  <2>2. co'[c].block = b /\ \A d \in Conns : d # c => co'[d].block = co[d].block
    BY <1>11, <1>13
  <2> QED BY <1>1, <2>1, <2>2, BlkTake
<1> QED BY <1>7, <1>13, <1>14 DEF IInv

LEMMA SendBodyStep ==
  ASSUME IInv, NEW c \in Conns, SendBody(c)
  PROVE  IInv'
<1>1. CoInv /\ BlkInv /\ CoOK(co[c]) /\ co[c].pc = "body"
  BY DEF IInv, CoInv, SendBody, Is
<1>2. PICK b \in Blocks : b = co[c].block
  BY <1>1 DEF CoOK
<1>3. UNCHANGED <<mode, fdt, server, history>> /\ blk' = GivenBack(b)
  BY <1>2 DEF SendBody
<1>4. TextInv'
  BY TextKept DEF IInv, SendBody
<1>5. CASE NextRequest(c, co[c])
  <2>1. Handler(co[c])
    BY <1>1 DEF CoOK
  <2>2. /\ FdInv' /\ SrvInv' /\ CoInv' /\ OwnInv' /\ co'[c].block = 0
        /\ \A d \in Conns : d # c => co'[d] = co[d]
    BY <1>1, <1>3, <1>5, <2>1, NextRequestStep
  <2>3. BlkInv'
    BY <1>1, <1>2, <1>3, <2>2, BlkGive
  <2> QED BY <1>4, <2>2, <2>3 DEF IInv
<1>6. CASE /\ co' = [co EXCEPT ![c].pc = IF mode = "http" THEN "file_read" ELSE "pool_read", ![c].block = 0]
           /\ closing' = closing
  <2>1. PICK p \in {"file_read", "pool_read"} : p = IF mode = "http" THEN "file_read" ELSE "pool_read"
    OBVIOUS
  <2>2. PICK h : h = [co[c] EXCEPT !.pc = p, !.block = 0]
    OBVIOUS
  <2>3. co' = [co EXCEPT ![c] = h]
    BY <1>1, <1>6, <2>1, <2>2 DEF CoInv
  <2>4. /\ Handler(h) /\ h.pc = p /\ h.fd = co[c].fd /\ h.file = co[c].file /\ h.block = 0
        /\ h.done = co[c].done /\ h.ctx = co[c].ctx
    BY <1>1, <2>2 DEF CoOK, Handler, CoFields
  <2>5. CoOK(h)
    BY <1>1, <2>4 DEF CoOK, Pcs
  <2>6. /\ FdInv' /\ SrvInv' /\ CoInv' /\ OwnInv' /\ co'[c] = h
        /\ \A d \in Conns : d # c => co'[d] = co[d]
    BY <1>1, <1>3, <1>6, <2>3, <2>4, <2>5, KeepsFds
  <2>7. BlkInv'
    BY <1>1, <1>2, <1>3, <2>4, <2>6, BlkGive
  <2> QED BY <1>4, <2>6, <2>7 DEF IInv
<1> QED BY <1>5, <1>6 DEF SendBody

LEMMA NewSocketStep ==
  ASSUME IInv, NEW c \in Conns, NewSocket(c)
  PROVE  IInv'
<1>1. /\ FdInv /\ SrvInv /\ CoInv /\ TextInv /\ BlkInv /\ OwnInv
      /\ CoOK(co[c]) /\ co[c].pc = "connect_to" /\ co[c].fd = -1
  BY DEF IInv, CoInv, CoOK, NewSocket, Is
<1>2. UNCHANGED <<mode, closing, srv, backup, nextConn, script, taken, blk, shed>>
  BY DEF NewSocket, server, net
<1>3. PICK h : /\ CoOK(h) /\ h.file = co[c].file /\ h.block = co[c].block /\ co' = [co EXCEPT ![c] = h]
               /\ \/ /\ Room /\ fdt' = [fdt EXCEPT ![LowestFree] = Conn(c)]
                     /\ \/ leaked' = leaked /\ h.fd = LowestFree
                        \/ leaked' = leaked \cup {LowestFree} /\ h.fd = -1
                  \/ UNCHANGED <<fdt, leaked>> /\ h.fd = -1
  <2>1. CASE /\ Room /\ fdt' = [fdt EXCEPT ![LowestFree] = Conn(c)] /\ leaked' = leaked
             /\ co' = [co EXCEPT ![c].pc = "connect", ![c].fd = LowestFree]
    <3>1. PICK g \in Fds : g = LowestFree
      BY <2>1, LowestIsFree
    <3>2. PICK h : h = [co[c] EXCEPT !.pc = "connect", !.fd = g]
      OBVIOUS
    <3>3. co' = [co EXCEPT ![c] = h]
      BY <1>1, <2>1, <3>1, <3>2 DEF CoInv
    <3>4. /\ Handler(h) /\ h.pc = "connect" /\ h.fd = g /\ h.file = co[c].file /\ h.block = co[c].block
          /\ h.done = co[c].done /\ h.ctx = co[c].ctx
      BY <1>1, <3>2 DEF CoOK, Handler, CoFields
    <3>5. CoOK(h)
      BY <1>1, <3>4 DEF CoOK, Pcs
    <3> QED BY <2>1, <3>1, <3>3, <3>4, <3>5
  <2>2. CASE co' = [co EXCEPT ![c].pc = "ended"]
    <3>1. PICK h : h = [co[c] EXCEPT !.pc = "ended"]
      OBVIOUS
    <3>2. co' = [co EXCEPT ![c] = h]
      BY <1>1, <2>2, <3>1 DEF CoInv
    <3>3. /\ Handler(h) /\ h.pc = "ended" /\ h.fd = -1 /\ h.file = co[c].file /\ h.block = co[c].block
          /\ h.done = co[c].done /\ h.ctx = co[c].ctx
      BY <1>1, <3>1 DEF CoOK, Handler, CoFields
    <3>4. CoOK(h)
      BY <1>1, <3>3 DEF CoOK, Pcs
    <3>5. \/ Room /\ fdt' = [fdt EXCEPT ![LowestFree] = Conn(c)] /\ leaked' = leaked \cup {LowestFree}
          \/ Room /\ fdt' = [fdt EXCEPT ![LowestFree] = Conn(c)] /\ leaked' = leaked /\ h.fd = LowestFree
          \/ UNCHANGED <<fdt, leaked>>
      <4>1. CASE co' = [co EXCEPT ![c].pc = "connect", ![c].fd = LowestFree]
        <5>1. PICK g : g = LowestFree
          OBVIOUS
        <5>2. PICK x : x = [co[c] EXCEPT !.pc = "connect", !.fd = g]
          OBVIOUS
        <5>3. co' = [co EXCEPT ![c] = x]
          BY <1>1, <4>1, <5>1, <5>2 DEF CoInv
        <5>4. x.pc = "connect"
          BY <1>1, <5>2 DEF CoOK, Handler, CoFields
        <5>5. co'[c] = x /\ co'[c] = h
          BY <1>1, <3>2, <5>3 DEF CoInv
        <5> QED BY <3>3, <5>4, <5>5
      <4>2. CASE ~(co' = [co EXCEPT ![c].pc = "connect", ![c].fd = LowestFree])
        BY <4>2, Zenon DEF NewSocket
      <4> QED BY <4>1, <4>2
    <3> QED BY <3>2, <3>3, <3>4, <3>5
  <2> QED BY <2>1, <2>2, Zenon DEF NewSocket
<1>4. CoInv' /\ co'[c] = h /\ \A d \in Conns : d # c => co'[d] = co[d]
  BY <1>1, <1>3, CoStep
<1>5. OwnInv' /\ fdt' \in [Fds -> Objects]
  <2>1. CASE UNCHANGED <<fdt, leaked>> /\ h.fd = -1
    <3>1. \A d \in Conns : co'[d].fd = co[d].fd /\ co'[d].file = co[d].file
      BY <1>1, <1>3, <1>4, <2>1
    <3>2. OwnInv'
      BY <1>1, <1>2, <2>1, <3>1, OwnSame
    <3> QED BY <1>1, <2>1, <3>2 DEF FdInv
  <2>2. CASE /\ Room /\ fdt' = [fdt EXCEPT ![LowestFree] = Conn(c)]
             /\ \/ leaked' = leaked /\ h.fd = LowestFree
                \/ leaked' = leaked \cup {LowestFree} /\ h.fd = -1
    <3>1. PICK g \in Fds : g = LowestFree /\ fdt[g] = Free
      BY <2>2, LowestIsFree
    <3>2. /\ fdt' = [fdt EXCEPT ![g] = Conn(c)]
          /\ (leaked' = leaked /\ h.fd = g) \/ (leaked' = leaked \cup {g} /\ h.fd = -1)
      BY <2>2, <3>1
    <3>3. \A f \in Fds : f # g =>
            /\ f \in leaked' <=> f \in leaked
            /\ \A d \in Conns : (co'[d].fd = f <=> co[d].fd = f) /\ (co'[d].file = f <=> co[d].file = f)
      BY <1>1, <1>3, <1>4, <3>2, FdsNat
    <3>4. \A d \in Conns : /\ co'[d].fd = g => co[d].fd = g \/ (d = c /\ leaked' = leaked)
                           /\ co'[d].file = g => co[d].file = g
      BY <1>3, <1>4, <3>2, FdsNat
    <3>5. co'[c].fd = g \/ g \in leaked'
      BY <1>4, <3>2
    <3>6. Conn(c) \notin {Free, Listen} /\ Conn(c) \in Objects
      BY Conn0
    <3>7. Opened(g, Conn(c))
      BY <1>2, <3>1, <3>2, <3>3, <3>4, <3>5, <3>6 DEF Opened
    <3> QED BY <1>1, <3>6, <3>7, OwnOpen
  <2> QED BY <1>3, <2>1, <2>2
<1>6. BlkInv'
  <2>1. \A d \in Conns : co'[d].block = co[d].block
    BY <1>3, <1>4
  <2> QED BY <1>1, <1>2, <2>1, BlkSame
<1>7. FdInv'
  BY <1>1, <1>2, <1>5 DEF FdInv
<1>8. SrvInv' /\ TextInv'
  BY <1>1, <1>2, <1>4, SrvKept, TextKept
<1> QED BY <1>4, <1>5, <1>6, <1>7, <1>8 DEF IInv

LEMMA ConnectThrows ==
  ASSUME IInv, NEW c \in Conns, Is(c, "connect"), handle_connect_error(c),
         co' = [co EXCEPT ![c].pc = "ended", ![c].fd = -1],
         UNCHANGED <<mode, closing, server, net, blk, history>>
  PROVE  IInv'
<1>1. /\ FdInv /\ SrvInv /\ CoInv /\ TextInv /\ BlkInv /\ OwnInv
      /\ CoOK(co[c]) /\ co[c].pc = "connect" /\ co[c].file = -1
  BY DEF IInv, CoInv, CoOK, Is
<1>2. UNCHANGED <<mode, closing, srv, backup, nextConn, script, taken, blk, shed, leaked>>
  BY DEF server, net, history
<1>3. PICK h : h = [co[c] EXCEPT !.pc = "ended", !.fd = -1]
  OBVIOUS
<1>4. co' = [co EXCEPT ![c] = h]
  BY <1>1, <1>3 DEF CoInv
<1>5. /\ Handler(h) /\ h.pc = "ended" /\ h.fd = -1 /\ h.file = co[c].file /\ h.block = co[c].block
      /\ h.done = co[c].done /\ h.ctx = co[c].ctx
  BY <1>1, <1>3 DEF CoOK, Handler, CoFields
<1>6. CoOK(h)
  BY <1>1, <1>5 DEF CoOK, Pcs
<1>7. CoInv' /\ co'[c] = h /\ \A d \in Conns : d # c => co'[d] = co[d]
  BY <1>1, <1>4, <1>6, CoStep
<1>8. OwnInv' /\ fdt' \in [Fds -> Objects]
  <2>1. CASE co[c].fd = -1
    <3>1. fdt' = fdt
      BY <2>1, FdsNat DEF handle_connect_error, Closed
    <3>2. \A d \in Conns : co'[d].fd = co[d].fd /\ co'[d].file = co[d].file
      BY <1>5, <1>7, <2>1
    <3>3. OwnInv'
      BY <1>1, <1>2, <3>1, <3>2, OwnSame
    <3> QED BY <1>1, <3>1, <3>3 DEF FdInv
  <2>2. CASE co[c].fd # -1
    <3>1. PICK g \in Fds : g = co[c].fd
      BY <1>1, <2>2 DEF CoOK
    <3>2. fdt' = [fdt EXCEPT ![g] = Free]
      BY <3>1 DEF handle_connect_error, Closed
    <3>3. \A f \in Fds : f # g =>
            \A d \in Conns : (co'[d].fd = f <=> co[d].fd = f) /\ (co'[d].file = f <=> co[d].file = f)
      BY <1>5, <1>7, <3>1, FdsNat
    <3>4. ASSUME ~shed' PROVE Unowned(g)'
      <4>1. OwnedOnce(g)
        BY <1>1, <1>2, <3>4 DEF OwnInv
      <4>2. fdt[g] = Conn(c) /\ closing[g] = 0 /\ g \notin leaked
        BY <3>1, <4>1 DEF OwnedOnce
      <4>3. ~(mode = "http" /\ backup = g)
        BY <4>1, <4>2, Conn0 DEF OwnedOnce
      <4>4. \A d \in Conns : d # c => co[d].fd # g /\ co[d].file # g
        BY <4>1, <4>2, Conn0 DEF OwnedOnce
      <4>5. \A d \in Conns : co'[d].fd # g /\ co'[d].file # g
        BY <1>1, <1>5, <1>7, <4>4, FdsNat
      <4> QED BY <1>2, <4>2, <4>3, <4>5 DEF Unowned
    <3> QED BY <1>1, <1>2, <3>2, <3>3, <3>4, OwnClose
  <2> QED BY <2>1, <2>2
<1>9. BlkInv'
  <2>1. \A d \in Conns : co'[d].block = co[d].block
    BY <1>5, <1>7
  <2> QED BY <1>1, <1>2, <2>1, BlkSame
<1>10. FdInv'
  BY <1>1, <1>2, <1>8 DEF FdInv
<1>11. SrvInv' /\ TextInv'
  BY <1>1, <1>2, <1>7, SrvKept, TextKept
<1> QED BY <1>7, <1>8, <1>9, <1>10, <1>11 DEF IInv

\* The descriptor is handed on: connect_to has returned, or its caller has kept it.
LEMMA HandedOn ==
  ASSUME IInv, NEW c \in Conns, Is(c, "connect"), co' = [co EXCEPT ![c].pc = "close"],
         UNCHANGED <<mode, fdt, closing, server, net, blk, history>>
  PROVE  IInv'
<1>1. CoInv /\ TextInv /\ CoOK(co[c]) /\ co[c].pc = "connect"
  BY DEF IInv, CoInv, Is
<1>2. UNCHANGED <<mode, fdt, closing, server, blk, history>> /\ TextInv'
  BY <1>1, TextKept DEF net
<1>3. PICK h : h = [co[c] EXCEPT !.pc = "close"]
  OBVIOUS
<1>4. co' = [co EXCEPT ![c] = h]
  BY <1>1, <1>3 DEF CoInv
<1>5. /\ Handler(h) /\ h.pc = "close" /\ h.fd = co[c].fd /\ h.file = co[c].file /\ h.block = co[c].block
      /\ h.done = co[c].done /\ h.ctx = co[c].ctx
  BY <1>1, <1>3 DEF CoOK, Handler, CoFields
<1>6. CoOK(h)
  BY <1>1, <1>5 DEF CoOK, Pcs
<1> QED BY <1>1, <1>2, <1>4, <1>5, <1>6, PlainStep

LEMMA ConnectStep ==
  ASSUME IInv, NEW c \in Conns, ConnectFails(c) \/ Connected(c)
  PROVE  IInv'
<1>1. CASE ConnectFails(c)
  BY <1>1, ConnectThrows, HandedOn DEF ConnectFails
<1>2. CASE Connected(c)
  BY <1>2, HandedOn DEF Connected
<1> QED BY <1>1, <1>2

-----------------------------------------------------------------------------
(* The theorems.                                                           *)

LEMMA StutterStep ==
  ASSUME IInv, UNCHANGED vars
  PROVE  IInv'
<1>1. UNCHANGED <<mode, fdt, closing, srv, backup, nextConn, co, script, taken, blk, shed, leaked>>
  BY DEF vars
<1>2. FdInv' /\ SrvInv' /\ CoInv' /\ TextInv' /\ BlkInv'
  BY <1>1 DEF IInv, FdInv, SrvInv, CoInv, TextInv, BlkInv
<1>3. OwnInv'
  BY <1>1, OwnSame DEF IInv
<1> QED BY <1>2, <1>3 DEF IInv

LEMMA StepHolds ==
  ASSUME IInv, [Next]_vars
  PROVE  IInv'
<1>1. ASSUME NEW c \in Conns, Handle(c) PROVE IInv'
  <2>1. ASSUME NEW k \in 1 .. writable(co[c].buf), HttpRecv(c, k) PROVE IInv'
    <3>1. k \in Nat
      BY <2>1
    <3> QED BY <2>1, <3>1, HttpRecvStep
  <2>2. ASSUME NEW b \in Blocks, NEW k \in 1 .. BlockSize, FileRead(c, b, k) \/ EchoRead(c, b, k) PROVE IInv'
    <3>1. k \in Nat
      BY FdsNat
    <3> QED BY <2>2, <3>1, FileReadStep, EchoReadStep
  <2>3. CASE OpenFile(c)
    BY <2>3, OpenFileStep
  <2>4. CASE get_statx(c)
    BY <2>4, StatxStep
  <2>5. CASE SendHeader(c)
    BY <2>5, SendHeaderStep
  <2>6. CASE SendBody(c)
    BY <2>6, SendBodyStep
  <2>7. CASE CloseHandler(c)
    BY <2>7, EndStep
  <2>8. CASE NewSocket(c)
    BY <2>8, NewSocketStep
  <2>9. CASE Connected(c)
    BY <2>9, ConnectStep
  <2> QED BY <1>1, <2>1, <2>2, <2>3, <2>4, <2>5, <2>6, <2>7, <2>8, <2>9 DEF Handle
<1>2. ASSUME NEW c \in Conns, Fail(c) PROVE IInv'
  <2>1. CASE RecvFails(c) \/ FileReadFails(c)
    BY <2>1, EndStep
  <2>2. CASE OpenFails(c) \/ StatxFails(c)
    BY <2>2, BadFileStep
  <2>3. CASE SendFails(c)
    BY <2>3, SendFailsStep
  <2>4. CASE ConnectFails(c)
    BY <2>4, ConnectStep
  <2> QED BY <1>2, <2>1, <2>2, <2>3, <2>4 DEF Fail
<1>3. CASE Serve
  BY <1>3, EnableStep, ProvideStep, AcceptConnStep, AcceptAgainStep, CloseConnStep, ReopenStep DEF Serve
<1>4. CASE AcceptEintr \/ AcceptError \/ AcceptEnfile
  BY <1>4, AcceptEintrStep, AcceptErrorStep, AcceptEnfileStep
<1>5. CASE Kernel
  BY <1>5, KernelClosesStep, KernelTakesStep DEF Kernel
<1>6. CASE UNCHANGED vars
  BY <1>6, StutterStep
<1> QED BY <1>1, <1>2, <1>3, <1>4, <1>5, <1>6 DEF Next

\* The number of owners that Owners counts.
LEMMA OwnersOf ==
  ASSUME NEW f, NEW x
  PROVE  x \in Owners(f) <=>
           \/ \E c \in Conns : co[c].fd = f /\ x = <<"conn", c>>
           \/ \E c \in Conns : co[c].file = f /\ x = <<"file", c>>
           \/ mode = "http" /\ backup = f /\ x = <<"backup", 0>>
           \/ \E i \in 1 .. closing[f] : x = <<"closing", i>>
           \/ f \in leaked /\ x = <<"leaked", 0>>
BY DEF Owners

LEMMA OneOwner ==
  ASSUME FdInv, NEW f \in Fds, OwnedOnce(f)
  PROVE  Cardinality(Owners(f)) = IF fdt[f] \in {Free, Listen} THEN 0 ELSE 1
<1>1. CASE fdt[f] \in {Free, Listen}
  <2>1. Unowned(f)
    BY <1>1 DEF OwnedOnce
  <2>2. 1 .. closing[f] = {}
    BY <2>1 DEF Unowned
  <2>3. ASSUME NEW x PROVE x \notin Owners(f)
    BY <2>1, <2>2, OwnersOf DEF Unowned
  <2>4. Owners(f) = {}
    BY <2>3
  <2> QED BY <1>1, <2>4, FS_EmptySet
<1>2. CASE fdt[f] \notin {Free, Listen}
  <2>1. Owned(f)
    BY <1>2 DEF OwnedOnce
  <2>2. closing[f] = 1 => 1 .. closing[f] = {1}
    BY DEF FdInv
  <2>3. closing[f] # 1 => 1 .. closing[f] = {}
    <3>1. closing[f] # 1 => closing[f] = 0
      BY DEF OwnedOnce
    <3> QED BY <3>1
  <2>4. \E x : Owners(f) = {x}
    <3>1. ASSUME NEW c \in Conns, co[c].fd = f PROVE \E x : Owners(f) = {x}
      <4>1. fdt[f] = Conn(c) /\ closing[f] # 1 /\ f \notin leaked
        BY <3>1 DEF OwnedOnce
      <4>2. \A d \in Conns : co[d].file # f /\ (co[d].fd = f => d = c)
        BY <4>1, Conn0 DEF OwnedOnce
      <4>3. ~(mode = "http" /\ backup = f)
        BY <4>1, Conn0 DEF OwnedOnce
      <4>4. ASSUME NEW x PROVE x \in Owners(f) <=> x = <<"conn", c>>
        BY <2>3, <3>1, <4>1, <4>2, <4>3, OwnersOf
      <4>5. Owners(f) = {<<"conn", c>>}
        BY <4>4
      <4> QED BY <4>5
    <3>2. ASSUME NEW c \in Conns, co[c].file = f PROVE \E x : Owners(f) = {x}
      <4>1. fdt[f] = FileOf(c) /\ closing[f] # 1 /\ f \notin leaked
        BY <3>2 DEF OwnedOnce
      <4>2. \A d \in Conns : co[d].fd # f /\ (co[d].file = f => d = c)
        BY <4>1, Conn0 DEF OwnedOnce
      <4>3. ~(mode = "http" /\ backup = f)
        BY <4>1, Conn0 DEF OwnedOnce
      <4>4. ASSUME NEW x PROVE x \in Owners(f) <=> x = <<"file", c>>
        BY <2>3, <3>2, <4>1, <4>2, <4>3, OwnersOf
      <4>5. Owners(f) = {<<"file", c>>}
        BY <4>4
      <4> QED BY <4>5
    <3>3. ASSUME mode = "http" /\ backup = f PROVE \E x : Owners(f) = {x}
      <4>1. fdt[f] = DevNull /\ closing[f] # 1 /\ f \notin leaked
        BY <3>3 DEF OwnedOnce
      <4>2. \A d \in Conns : co[d].fd # f /\ co[d].file # f
        BY <4>1, Conn0 DEF OwnedOnce
      <4>3. ASSUME NEW x PROVE x \in Owners(f) <=> x = <<"backup", 0>>
        BY <2>3, <3>3, <4>1, <4>2, OwnersOf
      <4>4. Owners(f) = {<<"backup", 0>>}
        BY <4>3
      <4> QED BY <4>4
    <3>4. ASSUME \A d \in Conns : co[d].fd # f /\ co[d].file # f, ~(mode = "http" /\ backup = f)
          PROVE  \E x : Owners(f) = {x}
      <4>1. CASE closing[f] = 1
        <5>1. f \notin leaked
          BY <4>1 DEF OwnedOnce
        <5>2. ASSUME NEW x PROVE x \in Owners(f) <=> x = <<"closing", 1>>
          BY <2>2, <3>4, <4>1, <5>1, OwnersOf
        <5>3. Owners(f) = {<<"closing", 1>>}
          BY <5>2
        <5> QED BY <5>3
      <4>2. CASE closing[f] # 1
        <5>1. f \in leaked
          BY <2>1, <3>4, <4>2 DEF Owned
        <5>2. ASSUME NEW x PROVE x \in Owners(f) <=> x = <<"leaked", 0>>
          BY <2>3, <3>4, <4>2, <5>1, OwnersOf
        <5>3. Owners(f) = {<<"leaked", 0>>}
          BY <5>2
        <5> QED BY <5>3
      <4> QED BY <4>1, <4>2
    <3> QED BY <3>1, <3>2, <3>3, <3>4
  <2> QED BY <1>2, <2>4, FS_Singleton
<1> QED BY <1>1, <1>2

LEMMA OwnInvSuffices ==
  ASSUME IInv
  PROVE  DescriptorOwned
<1>1. ASSUME ~shed, NEW f \in Fds
      PROVE  /\ Cardinality(Owners(f)) = IF fdt[f] \in {Free, Listen} THEN 0 ELSE 1
             /\ \A c \in Conns : /\ co[c].fd = f => fdt[f] = Conn(c)
                                 /\ co[c].file = f => fdt[f] = FileOf(c)
  <2>1. FdInv /\ OwnedOnce(f)
    BY <1>1 DEF IInv, OwnInv
  <2>2. Cardinality(Owners(f)) = IF fdt[f] \in {Free, Listen} THEN 0 ELSE 1
    BY <2>1, OneOwner
  <2> QED BY <2>1, <2>2 DEF OwnedOnce
<1> QED BY <1>1 DEF DescriptorOwned

LEMMA BlkInvSuffices ==
  ASSUME IInv
  PROVE  BlockOwned
<1>1. FdInv /\ CoInv /\ TextInv /\ BlkInv
  BY DEF IInv
<1>2. TypeOK
  <2>1. \A c \in Conns : /\ co[c].fd \in Fds \cup {-1} /\ co[c].file \in Fds \cup {-1}
                         /\ co[c].block \in Blocks \cup {0}
    BY <1>1 DEF CoInv, CoOK
  <2>2. \A c \in Conns : taken[c] \in 0 .. Len(script[c].text)
    <3>1. ASSUME NEW c \in Conns PROVE taken[c] \in 0 .. Len(script[c].text)
      <4>1. PICK t \in Seq(Symbols) : t = script[c].text
        BY <1>1 DEF TextInv
      <4>2. Len(t) \in Nat
        OBVIOUS
      <4> QED BY <1>1, <4>1, <4>2 DEF TextInv
    <3> QED BY <3>1
  <2>3. \A b \in Blocks : blk[b].owner \in BlockOwners
    BY <1>1 DEF BlkInv, BlkOK
  <2>4. \A f \in Fds : fdt[f] \in Objects
    BY <1>1 DEF FdInv
  <2> QED BY <1>1, <2>1, <2>2, <2>3, <2>4 DEF TypeOK, FdInv, BlockOwners, Objects
<1>3. ASSUME NEW b \in Blocks
      PROVE  /\ blk[b].owner \in {"kernel", "providing"} => blk[b].buf.w = 0
             /\ blk[b].buf.w <= BlockSize
  <2>1. BlkOK(blk[b])
    BY <1>1 DEF BlkInv
  <2>2. blk[b].buf.w \in 0 .. BlockSize /\ (blk[b].owner # "user" => blk[b].buf.w = 0)
    BY <2>1 DEF BlkOK
  <2> QED BY <2>2, FdsNat
<1>4. ASSUME NEW b \in Blocks PROVE (blk[b].owner = "user") = (\E c \in Conns : co[c].block = b)
  <2>1. blk[b].owner = "user" <=> \E c \in Conns : co[c].block = b
    BY <1>1 DEF BlkInv
  <2> QED BY <2>1, Zenon
<1>5. \A c, d \in Conns : c # d /\ co[c].block # 0 => co[c].block # co[d].block
  BY <1>1 DEF BlkInv
<1> QED BY <1>2, <1>3, <1>4, <1>5, Zenon DEF BlockOwned

\* Until accept() takes its ENFILE branch, every open descriptor has exactly one
\* owner that will close it, keeps it, or is known to have dropped it, and the
\* owner's number refers to what it opened: with any number of connections,
\* descriptors and files, in any order of the destructors' asynchronous closes
\* and whatever the parser answers.
THEOREM DescriptorsHaveOneOwner == Spec => []DescriptorOwned
<1>1. Init => IInv
  BY InitHolds
<1>2. IInv /\ [Next]_vars => IInv'
  BY StepHolds
<1>3. IInv => DescriptorOwned
  BY OwnInvSuffices
<1> QED BY <1>1, <1>2, <1>3, PTL DEF Spec

\* For any pool and any number of handlers, a block of the buffer pool is held by
\* at most one handler, by none while the kernel has it, and is empty whenever
\* the kernel may fill it, also after accept() has shed a connection.
THEOREM BlocksHaveOneOwner == Spec => []BlockOwned
<1>1. Init => IInv
  BY InitHolds
<1>2. IInv /\ [Next]_vars => IInv'
  BY StepHolds
<1>3. IInv => BlockOwned
  BY BlkInvSuffices
<1> QED BY <1>1, <1>2, <1>3, PTL DEF Spec
=============================================================================
