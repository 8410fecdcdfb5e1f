-------------------------------- MODULE Http --------------------------------
(***************************************************************************)
(* HttpContext, HttpRequest and HttpResponse as pure operators.  The text  *)
(* of a request is a sequence of words; a word carries whether CR LF       *)
(* follows it (eol) or a space.  The words that end in ':' are FieldNames. *)
(* The query of a target is left out: nothing reads it.                    *)
(***************************************************************************)
EXTENDS Buffer, FiniteSets, FiniteSetsExt

FieldNames == {"Connection:", "Host:"}
Methods == {"GET", "POST", "HEAD", "PUT", "DELETE"}

Words == [word : STRING, eol : BOOLEAN]
Word(w) == [word |-> w, eol |-> FALSE]
WordEol(w) == [word |-> w, eol |-> TRUE]

NoRequest == [method |-> "kInvalid", version |-> "kUnknown", path |-> "", headers |-> <<>>]

setMethod(word) == IF word \in Methods THEN word ELSE "kInvalid"
setPath(word) == IF word = "/" THEN "public/index.html" ELSE "public" \o word

\* A request line is method, target and version, separated by single spaces.
\* What was set before a later part is found wrong stays set.
processRequestLine(req, words) ==
  LET m == [req EXCEPT !.method = setMethod(words[1])]
      t == [m EXCEPT !.path = setPath(words[2])]
  IN IF Len(words) < 2 \/ m.method = "kInvalid" THEN [ok |-> FALSE, req |-> IF Len(words) < 2 THEN req ELSE m]
     ELSE IF Len(words) < 3 THEN [ok |-> FALSE, req |-> m]
     ELSE IF Len(words) > 3 \/ words[3] \notin {"HTTP/1.0", "HTTP/1.1"} THEN [ok |-> FALSE, req |-> t]
     ELSE [ok |-> TRUE, req |-> [t EXCEPT !.version = words[3]]]

\* The value is trimmed; a later header of the same name replaces it.
Trim(words) ==
  LET T == {i \in DOMAIN words : words[i] # ""}
  IN IF T = {} THEN <<>> ELSE SubSeq(words, Min(T), Max(T))
Colon(words) ==
  LET C == {i \in DOMAIN words : words[i] \in FieldNames} IN IF C = {} THEN 0 ELSE Min(C)
addHeader(req, words) ==
  LET field == SubSeq(words, 1, Colon(words))
      value == Trim(SubSeq(words, Colon(words) + 1, Len(words)))
  IN [req EXCEPT !.headers = Append(SelectSeq(@, LAMBDA h : h[1] # field), <<field, value>>)]
getHeader(req, field) ==
  LET H == {i \in DOMAIN req.headers : req.headers[i][1] = field}
  IN IF H = {} THEN <<>> ELSE req.headers[Max(H)][2]

\* Despite its name, whether the connection is to be closed.
keepalive(req) ==
  LET connection == getHeader(req, <<"Connection:">>)
  IN connection = <<"close">> \/ (req.version = "HTTP/1.0" /\ connection # <<"Keep-Alive">>)

NewContext == [state |-> "kExpectRequestLine", req |-> NoRequest]
gotAll(ctx) == ctx.state = "kGotAll"

\* One line of parseRequest.  The first header line without a colon, empty
\* or not, ends the request.
ParseLine(ctx, words) ==
  IF ctx.state = "kExpectRequestLine"
  THEN LET p == processRequestLine(ctx.req, words)
       IN [ok |-> p.ok, ctx |-> [state |-> IF p.ok THEN "kExpectHeaders" ELSE ctx.state, req |-> p.req]]
  ELSE IF Colon(words) # 0 THEN [ok |-> TRUE, ctx |-> [ctx EXCEPT !.req = addHeader(@, words)]]
  ELSE [ok |-> TRUE, ctx |-> [ctx EXCEPT !.state = "kGotAll"]]

\* One turn of parseRequest's loop: a line, if there is one to look at.  A bad
\* line stays in the buffer.
ParseNext(p) ==
  LET view == readable_view(p.buf)
      E == {i \in DOMAIN view : view[i].eol}
      q == ParseLine(p.ctx, [i \in 1..Min(E) |-> view[i].word])
  IN IF ~p.more \/ E = {} THEN p
     ELSE [ok |-> q.ok, ctx |-> q.ctx, buf |-> IF q.ok THEN has_read(p.buf, Min(E)) ELSE p.buf,
           more |-> q.ok /\ ~gotAll(q.ctx)]

\* parseRequest: line after line, until one is bad, the request is complete or
\* no CR LF is left.  After n turns the parser is the one element of turns[n],
\* which TLC then computes once.
parseRequest(ctx, b) ==
  LET lines == Cardinality({i \in DOMAIN readable_view(b) : readable_view(b)[i].eol})
      turns[n \in 0..lines] ==
        IF n = 0 THEN {[ok |-> TRUE, ctx |-> ctx, buf |-> b, more |-> TRUE]}
        ELSE {ParseNext(p) : p \in turns[n - 1]}
  IN CHOOSE p \in turns[lines] : TRUE

\* setContentTypeByPath, on the extension in lower case; no entry, no header.
ContentTypes ==
  [jpeg |-> "image/jpeg", png |-> "image/png", jpg |-> "image/jpeg", gif |-> "image/gif",
   htm |-> "text/html", html |-> "text/html", js |-> "application/javascript",
   css |-> "text/css", txt |-> "text/plain", mp4 |-> "video/mpeg4"]
setContentTypeByPath(ext) == IF ext \in DOMAIN ContentTypes THEN ContentTypes[ext] ELSE "none"

\* appendToBuffer: the header block as one item of the output.
appendToBuffer(status, close, type, length) ==
  [item |-> "header", status |-> status, close |-> close, type |-> type, n |-> length]
=============================================================================
