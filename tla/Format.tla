------------------------------- MODULE Format -------------------------------
(***************************************************************************)
(* One formatting call, from the compiler's check of its format string to  *)
(* the characters its caller has: directly (format_to, format_to_n, a      *)
(* runtime string) or through the logger, whose log() captures the         *)
(* arguments in a task that the logger's thread runs later, while the      *)
(* caller goes on and may reuse the memory it passed.                      *)
(*                                                                         *)
(* A call is a record: the format string s, the arguments as the caller    *)
(* wrote them, the destination (sink, held, room), the locale's digit      *)
(* groups loc, whether it is logged, and limit, the length from which the  *)
(* long loop of parse_format_string is used.                               *)
(***************************************************************************)
EXTENDS FormatWrite, FormatBuffer

CONSTANTS
    Calls,        \* the calls that may be made, in families
    Reused        \* what the caller's memory holds once it is reused

VARIABLES
    call,         \* the call
    phase,        \* "compile", "called", "queued", "run", "done", "error", "never"
    verdict,      \* what the compiler said: "accepted", "rejected", "unchecked"
    kept,         \* the arguments as stored for the call
    memory,       \* the texts in the caller's memory, by argument
    st,           \* the parse state of the run
    buf           \* the buffer

vars == <<call, phase, verdict, kept, memory, st, buf>>

-----------------------------------------------------------------------------
(* Arguments: what the caller wrote, what log() stores, what fmt makes of  *)
(* it.  An argument is [src, num, exp, text, name].                        *)

map(src) ==
    CASE src \in {"signed char", "short", "int", "enum"}         -> "int"
      [] src \in {"unsigned char", "unsigned short", "unsigned"} -> "uint"
      [] src \in {"long", "long long"}                           -> "llong"
      [] src \in {"unsigned long", "unsigned long long"}         -> "ullong"
      [] src \in {"bool", "char", "float", "double"}             -> src
      [] src \in {"char *", "char *const", "char []", "const char []"}
                                                                 -> "cstring"
      [] src = "literal"                                         -> "cstring"
      [] src \in {"std::string", "string_view"}                  -> "string"
      [] src = "void *"                                          -> "pointer"

make_arg(a) == [type |-> map(a.src), num |-> a.num, exp |-> a.exp, text |-> a.text, name |-> a.name]

\* Mutant: a pointer to characters is stored as it is.
trans_not(src) == IF src = "char []" THEN "char *const" ELSE src

\* make_args_tuple: a char pointer becomes a string; an array decays to a pointer,
\* except a const one, a literal or not, of which a reference is kept.
trans(src) == CASE src = "char *"  -> "std::string"
                [] src = "char []" -> "char *const"
                [] OTHER           -> src

\* The text is not in the argument itself but where it points to.
Points(src) == src \in {"char *", "char *const", "char []", "const char []", "string_view"}

\* The arguments when fmt reads them.
Arguments == [i \in DOMAIN kept |->
    make_arg(IF Points(kept[i].src) THEN [kept[i] EXCEPT !.text = memory[i]] ELSE kept[i])]

-----------------------------------------------------------------------------

Init ==
    /\ \E family \in Calls : call \in family
    /\ phase = "compile"
    /\ verdict = "none"
    /\ kept = <<>>
    /\ memory = [i \in DOMAIN call.args |-> call.args[i].text]
    /\ st = ParseStart
    /\ buf = MakeBuffer("container", <<>>, 0)

Handler(name, args) == [phase |-> name, args |-> args]

\* The whole of parse_format_string with a format_string_checker.
RECURSIVE Checked(_, _, _)
Checked(h, s, x) ==
    IF x.err \/ AtEnd(s, x) THEN x ELSE Checked(h, s, parse_format_string(h, s, x, call.limit))

\* basic_format_string: the compiler checks the string, unless an argument has a
\* name.  A call of log() with a rejected string does not compile; elsewhere the
\* string may still be run, as a runtime string.
Compile ==
    /\ phase = "compile"
    /\ \E x \in {Checked(Handler("check", [i \in DOMAIN call.args |-> make_arg(call.args[i])]),
                         call.s, ParseStart)} :
         /\ verdict' = IF \E i \in DOMAIN call.args : call.args[i].name # <<>> THEN "unchecked"
                       ELSE IF x.err THEN "rejected" ELSE "accepted"
         /\ phase' = IF call.logged /\ verdict' = "rejected" THEN "never" ELSE "called"
    /\ UNCHANGED <<call, kept, memory, st, buf>>

\* logger::log, make_log_task: the task owns the tuple of what was stored.
Log ==
    /\ phase = "called"
    /\ call.logged
    /\ kept' = [i \in DOMAIN call.args |-> [call.args[i] EXCEPT !.src = trans(@)]]
    /\ phase' = "queued"
    /\ UNCHANGED <<call, verdict, memory, st, buf>>

\* The caller reuses the memory behind an argument once its call of log() returned.
Reuse(i) ==
    /\ call.logged
    /\ phase \in {"queued", "run"}
    /\ Points(call.args[i].src)
    /\ memory[i] # Reused
    /\ memory' = [memory EXCEPT ![i] = Reused]
    /\ UNCHANGED <<call, phase, verdict, kept, st, buf>>

\* get_buffer and format_handler: the call starts, in the logger's thread if logged,
\* whose output is an iterator into a vector.
Start ==
    /\ phase = IF call.logged THEN "queued" ELSE "called"
    /\ kept' = IF call.logged THEN kept ELSE call.args
    /\ buf' = MakeBuffer(IF call.logged THEN "iterator" ELSE call.sink, call.held, call.room)
    /\ phase' = "run"
    /\ UNCHANGED <<call, verdict, memory, st>>

Operations(e) ==
    CASE e.kind = "text"  -> Reserve(Len(e.text)) \o Copy(e.text)
      [] e.kind = "plain" -> WritePlain(e.arg)
      [] e.kind = "specs" -> WriteSpecs(call.loc, e.arg, e.specs)

\* The operations of a round, up to the first that throws.
AllOperations(x) == FoldLeft(LAMBDA ops, e : ops \o Operations(e), <<>>, x.out)

Throws(ops) == \E i \in DOMAIN ops : ops[i].op = "throw"

UpToThrow(ops) ==
    SubSeq(ops, 1, SelectInSeq(ops, LAMBDA o : o.op = "throw") - 1)

Performed(b, ops) ==
    FoldLeft(Perform, b, IF Throws(ops) THEN UpToThrow(ops) ELSE ops)

\* Mutant: what the buffer still holds is dropped when an error leaves it.
WriteDrops(x) ==
    /\ phase = "run"
    /\ \E ops \in {AllOperations(x)} :
         LET bad  == x.err \/ Throws(ops)
             over == AtEnd(call.s, x)
         IN  /\ st' = [x EXCEPT !.out = <<>>]
             /\ phase' = IF bad THEN "error" ELSE IF over THEN "done" ELSE "run"
             /\ buf' = IF bad THEN [buf EXCEPT !.size = 0]
                       ELSE IF over THEN Finish(Performed(buf, ops)) ELSE Performed(buf, ops)
    /\ UNCHANGED <<call, verdict, kept, memory>>

\* One round of the loop: its texts and its field, in x, are written.  An error
\* leaves through the buffer's destructor.
Write(x) ==
    /\ phase = "run"
    /\ \E ops \in {AllOperations(x)} :
         LET bad  == x.err \/ Throws(ops)
             over == AtEnd(call.s, x)
         IN  /\ st' = [x EXCEPT !.out = <<>>]
             /\ phase' = IF bad THEN "error" ELSE IF over THEN "done" ELSE "run"
             /\ buf' = IF bad \/ over THEN Finish(Performed(buf, ops)) ELSE Performed(buf, ops)
    /\ UNCHANGED <<call, verdict, kept, memory>>

\* "{}" alone is not parsed: the first argument is written.
Fast ==
    /\ call.s = <<"{", "}">>
    /\ phase = "run"
    /\ \E x \in {on_replacement_field(Handler("run", Arguments), Forward(st, 2))} : Write(x)

Round ==
    /\ call.s \notin {<<"{", "}">>, <<>>}
    /\ phase = "run"
    /\ \E x \in {parse_format_string(Handler("run", Arguments), call.s, st, call.limit)} : Write(x)

\* An empty string writes nothing.
Empty ==
    /\ phase = "run"
    /\ call.s = <<>>
    /\ phase' = "done"
    /\ buf' = Finish(buf)
    /\ UNCHANGED <<call, verdict, kept, memory, st>>

Next ==
    \/ Compile
    \/ Log
    \/ \E i \in DOMAIN call.args : Reuse(i)
    \/ Start
    \/ Fast
    \/ Round
    \/ Empty

Spec == Init /\ [][Next]_vars

-----------------------------------------------------------------------------
(* What a call should write, told without the parser: a call of kind       *)
(* "items" also carries the texts and fields its string was made of.  An   *)
(* item is [char, arg, plain, zero, dyn, specs]; arg is 0 for a character  *)
(* of the text, dyn are the arguments that give the width and the          *)
(* precision, or 0.                                                        *)

RECURSIVE Numeral(_, _, _)
Numeral(n, base, upper) ==
    (IF n < base THEN <<>> ELSE Numeral(n \div base, base, upper)) \o <<HexChars(upper)[(n % base) + 1]>>

Magnitude(n) == IF n < 0 THEN -n ELSE n

BaseOf(type) == CASE type \in {"hex_lower", "hex_upper"} -> 16 [] type = "oct" -> 8
                  [] type \in {"bin_lower", "bin_upper"} -> 2 [] OTHER -> 10

Columns(text) ==
    Cardinality({i \in DOMAIN text : text[i] # "cont"})
    + Cardinality({i \in DOMAIN text : text[i] = "wide" /\ i + 2 <= Len(text)})

WithSeparators(loc, digits) ==
    LET n  == Len(digits)
        at == IF loc = <<>> THEN {} ELSE {loc[1] + j * loc[Len(loc)] : j \in 0..n}
    IN  FlattenSeq([i \in 1..n |-> IF i > 1 /\ n - i + 1 \in at THEN <<",", digits[i]>>
                                   ELSE <<digits[i]>>])

IsNumber(a, type) ==
    \/ map(a.src) \in {"int", "uint", "llong", "ullong"} /\ type # "chr"
    \/ map(a.src) = "bool" /\ type \notin {"none", "string"}
    \/ map(a.src) = "char" /\ type \notin {"none", "chr"}

\* What stands before the digits, and the digits or the text itself.
FieldHead(a, specs) ==
    IF ~IsNumber(a, specs.type) THEN <<>>
    ELSE (IF a.num < 0 THEN <<"-">> ELSE IF specs.sign = "minus" THEN <<>> ELSE SignChars(specs.sign))
         \o (IF ~specs.alt THEN <<>>
             ELSE IF specs.type = "oct" THEN (IF a.num = 0 THEN <<>> ELSE <<"0">>)
             ELSE AlternatePrefix(specs.type))

FieldBody(a, specs, loc) ==
    LET digits == Numeral(Magnitude(a.num), BaseOf(specs.type), specs.type = "hex_upper")
    IN  CASE IsNumber(a, specs.type) ->
               IF specs.localized /\ specs.type \in {"none", "dec"}
               THEN WithSeparators(loc, digits) ELSE digits
          [] ~IsNumber(a, specs.type) ->
               CASE map(a.src) = "bool" -> BoolText(a)
                 [] map(a.src) = "pointer" \/ specs.type = "pointer" ->
                      <<"0", "x">> \o Numeral(a.num, 16, FALSE)
                 [] map(a.src) \in {"cstring", "string"} ->
                      IF specs.precision = -1 \/ specs.precision > Len(a.text) THEN a.text
                      ELSE SubSeq(a.text, 1, specs.precision)
                 [] OTHER -> <<CharOf(a.num)>>

DefaultAlign(a, specs) ==
    IF IsNumber(a, specs.type) \/ map(a.src) = "pointer" \/ specs.type = "pointer"
    THEN "right" ELSE "left"

FieldText(item, a, loc) ==
    LET specs == item.specs
        head  == FieldHead(a, specs)
        body  == FieldBody(a, specs, loc)
        more  == specs.width - Columns(head \o body)
        pad   == IF more > 0 THEN more ELSE 0
        align == IF specs.align = "none" THEN DefaultAlign(a, specs) ELSE specs.align
        left  == CASE align = "left" -> 0 [] align = "right" -> pad [] align = "center" -> pad \div 2
        fills == IF item.zero THEN <<"0">> ELSE specs.fill
        Pad(n) == FlattenSeq([i \in 1..n |-> fills])
    IN  IF item.zero /\ specs.align = "none" THEN head \o Times(pad, "0") \o body
        ELSE Pad(left) \o head \o body \o Pad(pad - left)

Expected(c) == FlattenSeq([i \in DOMAIN c.items |->
    IF c.items[i].arg = 0 THEN <<c.items[i].char>>
    ELSE FieldText(c.items[i], c.args[c.items[i].arg], c.loc)])

\* Three things the code does differently: the zeros of a localized number are
\* written before its sign, the "0" flag replaces one byte of a longer fill, and a
\* negative number presented as a character shows that of its absolute value.
Unusual(item, a) ==
    \/ item.zero /\ item.specs.localized /\ item.specs.type \in {"none", "dec"}
       /\ IsNumber(a, item.specs.type) /\ FieldHead(a, item.specs) # <<>>
    \/ item.zero /\ Len(item.specs.fill) > 1
    \/ item.specs.type = "chr" /\ a.num < 0

AsUsual(c) == \A i \in DOMAIN c.items :
    c.items[i].arg # 0 => ~Unusual(c.items[i], c.args[c.items[i].arg])

Matches(text) ==
    CASE buf.kind = "container" -> Delivered(buf) = call.held \o text
      [] buf.kind \in {"memory", "iterator"} -> Delivered(buf) = text
      [] buf.kind \in {"fixed", "fixed_pointer"} ->
           /\ Delivered(buf) = SubSeq(text, 1, IF call.room < Len(text) THEN call.room ELSE Len(text))
           /\ Counted(buf) = Len(text)
      [] buf.kind = "counting" -> Counted(buf) = Len(text)

First(n, text) == SubSeq(text, 1, IF n < Len(text) THEN n ELSE Len(text))

WrittenSoFar(b) ==
    LET held == SubSeq(b.data, 1, b.size)
    IN  CASE b.kind = "fixed" -> First(b.limit, b.out \o held)
          [] b.kind = "fixed_pointer" -> IF b.inPlace THEN held ELSE b.out
          [] OTHER -> b.out \o held

-----------------------------------------------------------------------------
(* The grammar of format strings, over the alphabet of the calls.  A       *)
(* specification is cut into its parts in every possible way; a width or a *)
(* precision is a number or a reference to one of n arguments; a number    *)
(* with more digits than the largest int is too big, whatever its value.   *)

Aligns == {<<"<">>, <<">">>, <<"^">>}

IsNumeral(t) == t # <<>> /\ (\A i \in DOMAIN t : t[i] \in Digits)

ValueOf(t) == FoldLeft(LAMBDA v, c : v * 10 + DigitValue(c), 0, t)

TypesFor(t) ==
    CASE t = "bool" -> {"d", "o", "x", "X", "b", "B", "c", "s"}
      [] t \in {"int", "uint", "llong", "ullong", "char"} -> {"d", "o", "x", "X", "b", "B", "c"}
      [] t = "cstring" -> {"s", "p"} [] t = "string" -> {"s"} [] t = "pointer" -> {"p"}
      [] t = "double" -> {"a", "A", "e", "E", "f", "F", "g", "G"}

IsFill(t) == (Len(t) = 1 /\ t[1] \notin {"{", "lead"}) \/ t = <<"lead", "cont">>

\* A fill stands before an alignment, and what could be one is one.
AlignPart(t, rest) ==
    \/ t = <<>> /\ ~(\E i \in 1..2 : i < Len(rest) /\ IsFill(SubSeq(rest, 1, i)) /\ <<rest[i + 1]>> \in Aligns)
       /\ ~(rest # <<>> /\ <<rest[1]>> \in Aligns)
    \/ t \in Aligns /\ ~(Len(rest) > 0 /\ <<rest[1]>> \in Aligns)
    \/ Len(t) > 1 /\ IsFill(SubSeq(t, 1, Len(t) - 1)) /\ <<t[Len(t)]>> \in Aligns

IsIndex(t, n) == IsNumeral(t) /\ (t[1] = "0" => Len(t) = 1) /\ ValueOf(t) < n

IsName(t) == t # <<>> /\ is_name_start(t[1]) /\ (\A i \in DOMAIN t : NameChar(t[i]))

IsReference(t, n) ==
    /\ Len(t) > 1 /\ t[1] = "{" /\ t[Len(t)] = "}"
    /\ LET id == SubSeq(t, 2, Len(t) - 1) IN id = <<>> \/ IsIndex(id, n) \/ IsName(id)

\* An optional part is present or not; the last cut leaves the type.
InSpecs(spec, t, args) ==
    LET n == Len(spec)
        Part(i, j) == SubSeq(spec, i + 1, j)
        numeric == t \in {"bool", "int", "uint", "llong", "ullong", "char", "double"}
        Flag(i, j, c) == j = i \/ (j = i + 1 /\ j <= n /\ spec[j] = c)
        Number(num) == \/ IsReference(num, args)
                       \/ IsNumeral(num) /\ Len(num) <= Digits10 + 1 /\ ValueOf(num) <= IntMax
    IN  \E i1 \in 0..n : AlignPart(Part(0, i1), Part(i1, n)) /\
        \E i2 \in i1..i1 + 1 : (\E c \in {"+", "-", " "} : Flag(i1, i2, c)) /\
        \E i3 \in i2..i2 + 1 : Flag(i2, i3, "#") /\
        \E i4 \in i3..i3 + 1 : Flag(i3, i4, "0") /\
        \E i5 \in i4..n : (i5 = i4 \/ (Number(Part(i4, i5)) /\ (spec[i4 + 1] = "0" => i4 > i3))) /\
        \E i6 \in i5..n : (i6 = i5 \/ (spec[i5 + 1] = "." /\ Number(Part(i5 + 1, i6)))) /\
        \E i7 \in i6..i6 + 1 : Flag(i6, i7, "L") /\
            LET type   == Part(i7, n)
                asChar == t = "char" /\ type \in {<<>>, <<"c">>}
            IN  /\ type = <<>> \/ \E c \in TypesFor(t) : type = <<c>>
                /\ i2 > i1 => t \in {"int", "llong", "char", "double"} /\ ~asChar
                /\ i3 > i2 => numeric /\ ~asChar
                /\ i4 > i3 => numeric /\ (asChar => i1 > 0)
                /\ i6 > i5 => t \in {"cstring", "string", "double"}
                /\ i7 > i6 => numeric

\* The automatic references of a specification; it has others if it has more "{".
Autos(spec) == {i \in DOMAIN spec : spec[i] = "{" /\ spec[i + 1] = "}"}

HasIndex(spec) == \E i \in DOMAIN spec : spec[i] = "{" /\ spec[i + 1] \in Digits

\* From position p on, with the number of automatic references so far and whether
\* there was an explicit index.
RECURSIVE InGrammarFrom(_, _, _, _, _)
InGrammarFrom(s, p, types, autos, manual) ==
    LET AtIs(i, c) == i <= Len(s) /\ s[i] = c
        OneKind(as, ms) == as <= Len(types) /\ (as = 0 \/ ~ms)
        FieldFrom(q, k, as, ms) ==    \* the index k is read, s[q] follows it
            /\ k < Len(types)
            /\ OneKind(as, ms)
            /\ \/ AtIs(q, "}") /\ InGrammarFrom(s, q + 1, types, as, ms)
               \/ /\ AtIs(q, ":")
                  /\ \E r \in q + 1..Len(s) :
                       LET spec == SubSeq(s, q + 1, r - 1)
                           all  == as + Cardinality(Autos(spec))
                           some == ms \/ HasIndex(spec)
                       IN  /\ s[r] = "}"
                           /\ InSpecs(spec, types[k + 1], Len(types))
                           /\ OneKind(all, some)
                           /\ r = q + 1 => ~(r < Len(s) /\ <<s[r + 1]>> \in Aligns)
                           /\ InGrammarFrom(s, r + 1, types, all, some)
    IN  \/ p > Len(s)
        \/ p <= Len(s) /\ s[p] \notin {"{", "}"} /\ InGrammarFrom(s, p + 1, types, autos, manual)
        \/ AtIs(p, "{") /\ AtIs(p + 1, "{") /\ InGrammarFrom(s, p + 2, types, autos, manual)
        \/ AtIs(p, "}") /\ AtIs(p + 1, "}") /\ InGrammarFrom(s, p + 2, types, autos, manual)
        \/ AtIs(p, "{") /\ FieldFrom(p + 1, autos, autos + 1, manual)
        \/ AtIs(p, "{") /\ \E q \in p + 2..Len(s) :
             /\ IsIndex(SubSeq(s, p + 1, q - 1), Len(types))
             /\ FieldFrom(q, ValueOf(SubSeq(s, p + 1, q - 1)), autos, TRUE)

InGrammar(s, types) == InGrammarFrom(s, 1, types, 0, FALSE)

-----------------------------------------------------------------------------

\* The variables keep their types, the buffer never holds more than its capacity,
\* and a limited destination never gets more than its limit.
TypeOK ==
    /\ phase \in {"compile", "called", "queued", "run", "done", "error", "never"}
    /\ verdict \in {"none", "accepted", "rejected", "unchecked"}
    /\ DOMAIN memory = DOMAIN call.args
    /\ st.id \in -1..Len(call.s) /\ (st.err \/ st.pos \in 1..Len(call.s) + 1)
    /\ buf.size \in 0..Len(buf.data)
    /\ buf.kind \in {"fixed", "fixed_pointer"} => Len(buf.out) <= buf.limit

\* A call writes exactly the texts and the fields of its string: every number with
\* its value, sign, prefix and separators, every string cut and padded to its
\* columns, through every kind of buffer and by both loops of parse_format_string.
\* Nothing else reaches the caller, an error included: no room that was reserved and
\* not filled shows.
OutputRight ==
    /\ TypeOK
    /\ phase \in {"done", "error"} => \A i \in DOMAIN Delivered(buf) : Delivered(buf)[i] # "junk"
    /\ (phase = "done" /\ call.kind = "items" /\ ~call.logged /\ AsUsual(call)) => Matches(Expected(call))

\* The texts a line of the log may show for argument i: the one it had when log() was
\* called, and, if what log() keeps of it is a pointer or a reference and the caller has
\* reused its memory since, the new one.
MayShow(i) ==
    {call.args[i].text}
    \cup (IF call.args[i].src \in {"char *const", "char []", "const char []", "string_view"}
             /\ memory[i] = Reused
          THEN {Reused} ELSE {})

\* A line of the log shows every argument that log() copies as it was at the call,
\* whatever the caller does with its memory before the logger's thread formats it; and
\* one that it does not copy, an array of characters, a const pointer or a string_view,
\* as it was at the call as long as the caller leaves it alone, and wholly as it was
\* then or as it is now if not.
LoggedAsCalled ==
    (phase = "done" /\ call.kind = "items" /\ call.logged) =>
        \E texts \in [DOMAIN call.args -> {Reused} \cup {call.args[i].text : i \in DOMAIN call.args}] :
            /\ \A i \in DOMAIN texts : texts[i] \in MayShow(i)
            /\ Matches(Expected([call EXCEPT !.args =
                                   [i \in DOMAIN texts |-> [@[i] EXCEPT !.text = texts[i]]]]))

\* A line of the log shows what the arguments were when log() was called ("make sure
\* pass by value instead of reference").  It fails for an argument that is not copied.
LoggedByValue ==
    (phase = "done" /\ call.kind = "items" /\ call.logged) => Matches(Expected(call))

\* The compiler accepts a string exactly when formatting with it raises no error.
\* Widths and precisions taken from arguments are only seen at run time, and a
\* pointer to characters logged with "p" is a string by the time it is formatted.
\* Such a width or precision must be an integer from 0 to the largest int; formatting
\* with any other ends with an error.
CheckedRunsClean ==
    /\ (/\ phase \in {"done", "error"} /\ verdict \in {"accepted", "rejected"} /\ ~st.dyn
        /\ ~(call.logged /\ \E i \in DOMAIN call.args : call.args[i].src = "char *"))
       => (verdict = "accepted") = (phase = "done")
    /\ (phase \in {"done", "error"} /\ call.kind = "items" /\ verdict = "accepted" /\ ~call.logged) =>
        (phase = "done") = (\A i \in DOMAIN call.items, k \in 1..2 :
            call.items[i].dyn[k] # 0 =>
                LET a == call.args[call.items[i].dyn[k]]
                IN  map(a.src) \in {"int", "uint", "llong", "ullong"} /\ a.num \in 0..IntMax)

\* What has been written stays: each step only adds to the text the caller will have.
WrittenStays ==
    [][phase = "run" /\ buf.kind # "counting" => IsPrefix(WrittenSoFar(buf), WrittenSoFar(buf'))]_vars

\* The compiler accepts exactly the strings of the grammar: "{{", "}}", and fields
\* with one kind of index, an existing argument, and specifiers in their order that
\* the argument's type takes.
GrammarRight ==
    (phase \in {"called", "never"} /\ verdict # "unchecked" /\ call.kind = "raw") =>
        (verdict = "accepted") = InGrammar(call.s, [i \in DOMAIN call.args |-> map(call.args[i].src)])

=============================================================================
