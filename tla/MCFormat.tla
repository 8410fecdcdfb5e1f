------------------------------ MODULE MCFormat ------------------------------
EXTENDS Format

A(src, num, text) == [src |-> src, num |-> num, exp |-> 0, text |-> text, name |-> <<>>]

Call(s, args) ==
    [kind |-> "raw", s |-> s, args |-> args, items |-> <<>>, sink |-> "container",
     held |-> <<>>, room |-> 0, limit |-> 32, loc |-> <<>>, logged |-> FALSE]

Strings(chars, n) == UNION {[1..k -> chars] : k \in 0..n}

\* All short strings, through both loops; the name is that of an argument or unknown.
Raw == {[Call(s, args) EXCEPT !.limit = l] :
            s \in Strings({"{", "}", ":", "0", "x", "1"}, 4),
            args \in {<<A("int", 7, <<>>)>>, <<A("unsigned", 7, <<>>), A("std::string", 0, <<"a">>)>>,
                      <<A("int", 7, <<>>), [A("int", 5, <<>>) EXCEPT !.name = <<"x">>]>>},
            l \in {0, 32}}

\* Two fields, with one kind of index or with two.
Indexes == {[Call(s, <<A("int", 7, <<>>), A("int", 8, <<>>)>>) EXCEPT !.limit = l] :
               s \in Strings({"{", "}", ":", "0"}, 6), l \in {0, 32}}

OneOf == [i |-> A("int", -3, <<>>), u |-> A("unsigned long", 200, <<>>), b |-> A("bool", 1, <<>>),
          c |-> A("char", 53, <<>>), p |-> A("void *", 10, <<>>), s |-> A("std::string", 0, <<"a", "b">>),
          t |-> A("char *", 9, <<"a", "b">>)]

\* All short specifications, for every type of argument.
Specs == {Call(<<"{", ":">> \o s \o <<"}">>, <<OneOf[t]>>) :
            s \in Strings({"<", "^", "+", "#", "0", "2", ".", "L", "d", "s", "c", "p", "}"}, 3),
            t \in DOMAIN OneOf}

\* Precisions, and references to an argument in them.
Precisions == {Call(<<"{", ":", ".">> \o s \o <<"}">>, <<OneOf.s, A("int", 1, <<>>)>>) :
                 s \in Strings({"{", "}", ".", "0", "1"}, 4)}

\* Numbers around the largest int, as width, as precision and as index.
Large == {Call(<<"{">> \o pre \o Numeral(n, 10, FALSE) \o post \o <<"}">>, <<A("std::string", 0, <<"a">>)>>) :
            n \in {9, 10, 99, 100, 126, 127, 128, 130, 255, 256, 257, 1000, 1270},
            pre \in {<<>>, <<":">>, <<":", ".">>}, post \in {<<>>, <<"s">>}}

-----------------------------------------------------------------------------
(* Calls made of items: their string is written from the items.            *)

T(c) == [char |-> c, arg |-> 0, plain |-> FALSE, zero |-> FALSE, dyn |-> <<0, 0>>, specs |-> NoSpecs]

P(i) == [T("") EXCEPT !.arg = i, !.plain = TRUE]

F(i, zero, specs) == [T("") EXCEPT !.arg = i, !.zero = zero, !.specs = specs]

S(type, align, width) == [NoSpecs EXCEPT !.type = type, !.align = align, !.width = width]

Unless(b, text) == IF b THEN <<>> ELSE text

AlignChar == [left |-> "<", right |-> ">", center |-> "^"]

Index(i) == Numeral(i - 1, 10, FALSE)

NumberString(n, dyn) == IF dyn = 0 THEN Numeral(n, 10, FALSE) ELSE <<"{">> \o Index(dyn) \o <<"}">>

SpecString(item) ==
    LET sp == item.specs
    IN  Unless(sp.align = "none",
               Unless(sp.fill = <<" ">>, sp.fill) \o <<AlignChar[IF sp.align = "none" THEN "left" ELSE sp.align]>>)
        \o Unless(sp.sign = "none", <<IF sp.sign = "minus" THEN "-" ELSE SignChars(sp.sign)[1]>>)
        \o Unless(~sp.alt, <<"#">>)
        \o Unless(~item.zero, <<"0">>)
        \o Unless(sp.width = 0 /\ item.dyn[1] = 0, NumberString(sp.width, item.dyn[1]))
        \o Unless(sp.precision = -1 /\ item.dyn[2] = 0, <<".">> \o NumberString(sp.precision, item.dyn[2]))
        \o Unless(~sp.localized, <<"L">>)
        \o Unless(sp.type = "none",
                  <<CHOOSE c \in DOMAIN PresentationOf \cup {""} :
                        c = "" \/ PresentationOf[c] = sp.type>>)

\* The automatic index where no field needs an explicit one.
ItemString(items, args) ==
    LET manual == \E i \in DOMAIN items : items[i].dyn # <<0, 0>>
        One(it) ==
            IF it.arg = 0 THEN IF it.char \in {"{", "}"} THEN <<it.char, it.char>> ELSE <<it.char>>
            ELSE <<"{">> \o (IF args[it.arg].name # <<>> THEN args[it.arg].name
                             ELSE Unless(~manual, Index(it.arg)))
                 \o Unless(it.plain, <<":">> \o SpecString(it)) \o <<"}">>
    IN  FoldLeft(LAMBDA text, it : text \o One(it), <<>>, items)

Items(items, args) ==
    [Call(ItemString(items, args), args) EXCEPT !.kind = "items", !.items = items]

Ints == {-128, -127, -10, -9, 0, 7, 8, 99, 100, 127}

Longs == {-32768, -1000, -999, -16, 9999, 10000, 32767}

Unsigned == {0, 9, 63, 64, 127, 128, 255}

Numbers == {A("int", n, <<>>) : n \in Ints} \cup {A("long long", n, <<>>) : n \in Longs}
           \cup {A("unsigned", n, <<>>) : n \in Unsigned}
           \cup {A("unsigned long", n, <<>>) : n \in {0, 15, 16, 32768, 65535}}

Numerals ==
    {Items(<<F(1, zero, [S(type, align, width) EXCEPT !.sign = sign, !.alt = alt])>>, <<a>>) :
        a \in Numbers, type \in {"none", "oct", "hex_upper", "bin_lower"},
        align \in {"none", "left", "center"}, width \in {0, 6},
        sign \in {"none"}, alt \in BOOLEAN, zero \in BOOLEAN}
    \cup
    {Items(<<F(1, zero, [S(type, "none", width) EXCEPT !.sign = sign])>>, <<a>>) :
        a \in {A("int", n, <<>>) : n \in Ints}, type \in {"none", "hex_lower", "chr"}, width \in {0, 4},
        sign \in {"none", "plus", "minus", "space"}, zero \in BOOLEAN}

Localized ==
    {[Items(<<F(1, zero, [S("dec", "none", width) EXCEPT !.localized = TRUE, !.sign = sign])>>, <<a>>)
        EXCEPT !.loc = loc] :
        a \in {A("long", n, <<>>) : n \in Longs \cup Ints}, width \in {0, 8},
        sign \in {"none", "plus"}, zero \in BOOLEAN, loc \in {<<>>, <<3>>, <<1, 2>>}}

TwoBytes == <<"lead", "cont">>

ThreeBytes == <<"wide", "cont", "cont">>

Texts == {<<>>, <<"a">>, <<"a", "b", "c">>, TwoBytes, <<"a">> \o TwoBytes, ThreeBytes, ThreeBytes \o <<"a">>}

Padded ==
    {Items(<<F(1, FALSE, [S("none", align, width) EXCEPT !.precision = p,
                                                        !.fill = IF align = "none" THEN @ ELSE f])>>,
           <<A(src, 3, t)>>) :
        align \in {"none", "left", "right", "center"}, width \in {0, 1, 2, 5}, p \in {-1, 0, 1, 2, 3},
        f \in {<<" ">>, TwoBytes}, src \in {"std::string", "char *"}, t \in Texts}
    \cup
    {Items(<<F(1, FALSE, S(type, align, width))>>, <<a>>) :
        type \in {"none"}, align \in {"none", "left", "right", "center"}, width \in {0, 1, 4, 7},
        a \in {OneOf[t] : t \in DOMAIN OneOf} \cup {A("bool", 0, <<>>), A("void *", 0, <<>>)}}

\* Pieces of a line: a character, or an item and its argument.
Pieces ==
    {<<T("a"), A("none", 0, <<>>)>>, <<T("{"), A("none", 0, <<>>)>>, <<T("}"), A("none", 0, <<>>)>>,
     <<P(1), A("int", -12, <<>>)>>, <<P(1), A("std::string", 0, <<"b", "c", "d", "e">>)>>,
     <<F(1, FALSE, S("hex_lower", "none", 0)), A("unsigned", 31, <<>>)>>,
     <<F(1, FALSE, [S("none", "center", 4) EXCEPT !.fill = TwoBytes]), A("bool", 1, <<>>)>>,
     <<F(1, TRUE, S("none", "none", 4)), A("int", -5, <<>>)>>}

Line(pieces) ==
    LET Add(line, p) ==
            IF p[1].arg = 0 THEN [line EXCEPT !.items = Append(@, p[1])]
            ELSE [items |-> Append(line.items, [p[1] EXCEPT !.arg = Len(line.args) + 1]),
                  args  |-> Append(line.args, p[2])]
        line == FoldLeft(Add, [items |-> <<>>, args |-> <<>>], pieces)
    IN  Items(line.items, line.args)

Lines == {Line(p) : p \in UNION {[1..k -> Pieces] : k \in 0..3}}

\* Lines of up to three pieces, into every kind of destination.
Buffers ==
    {[c EXCEPT !.limit = l, !.sink = k] :
        c \in Lines, l \in {0, 32}, k \in {"memory", "iterator", "counting"}}
    \cup {[c EXCEPT !.held = h] : c \in Lines, h \in {<<>>, <<"h">>}}
    \cup {[c EXCEPT !.sink = k, !.room = n] :
            c \in Lines, k \in {"fixed", "fixed_pointer"}, n \in {0, 1, 3, 4, 7}}

DynamicArgs == {A("int", 0, <<>>), A("int", 2, <<>>), A("int", -1, <<>>), A("unsigned", 5, <<>>),
                A("unsigned", 200, <<>>), A("long", 4, <<>>), A("long", 300, <<>>), A("bool", 1, <<>>),
                A("char", 53, <<>>), A("std::string", 0, <<"a">>)}

\* Widths and precisions taken from arguments, by index.
Dynamic ==
    {Items(<<[F(1, FALSE, [S("none", "none", w.num) EXCEPT !.precision = p.num]) EXCEPT !.dyn = <<2, 3>>], T("a")>>,
           <<A("std::string", 0, <<"a", "b", "c">>), w, p>>) :
        w \in DynamicArgs, p \in DynamicArgs}
    \cup
    {Items(<<[F(1, FALSE, S("none", "right", w.num)) EXCEPT !.dyn = <<2, 0>>]>>, <<A("int", 7, <<>>), w>>) :
        w \in DynamicArgs}

\* Every type of argument, plain, alone and behind a named one.
Types ==
    {Items(<<T("a"), P(1)>>, <<A(src, 7, <<>>)>>) :
        src \in {"signed char", "short", "int", "enum", "unsigned char", "unsigned short", "unsigned",
                 "long", "long long", "unsigned long", "unsigned long long", "void *"}}
    \cup {Items(<<P(1)>>, <<OneOf[t]>>) : t \in DOMAIN OneOf}
    \cup {Items(<<P(2), P(1)>>, <<OneOf[t], [OneOf[u] EXCEPT !.name = <<"n", "1">>]>>) :
            t \in DOMAIN OneOf, u \in DOMAIN OneOf}

Sources == {"literal", "char *", "char *const", "char []", "const char []", "std::string", "string_view"}

\* Lines of the logger with two texts of the caller's.
Logged ==
    {[Items(items, <<A(a, 9, <<"a", "b">>), A(b, 9, <<"c">>)>>) EXCEPT !.logged = TRUE] :
        items \in {<<P(1), T("a"), P(2)>>, <<P(1), F(2, FALSE, S("pointer", "none", 0))>>,
                   <<P(1), F(2, FALSE, S("dec", "none", 0))>>},
        a \in Sources, b \in Sources}

MCReused == <<"z">>

MCCalls == {Raw, Indexes, Specs, Precisions, Large, Numerals, Localized, Padded, Buffers, Dynamic, Types, Logged}

MCLogged == {Logged}
=============================================================================
