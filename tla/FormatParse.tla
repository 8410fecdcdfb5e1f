---------------------------- MODULE FormatParse ----------------------------
(***************************************************************************)
(* The format strings of the logger (the fmt library kept under            *)
(* detail/logging/fmt): the parsing context with its argument ids, the     *)
(* table of type-erased arguments, the specifier parser with its checks,   *)
(* replacement fields and the two loops of parse_format_string.            *)
(*                                                                         *)
(* The same parser runs twice on a string: with format_string_checker in   *)
(* the compiler (h.phase = "check") and with format_handler in vformat_to  *)
(* (h.phase = "run").  A string is a sequence of characters; "lead" and    *)
(* "cont" are the two bytes of a two-byte code point.  on_error throws (or *)
(* stops the compilation), so the first error ends the parse: st.err.      *)
(***************************************************************************)
EXTENDS Integers, Sequences, SequencesExt

CONSTANTS
    IntMax,       \* std::numeric_limits<int>::max()
    Digits10,     \* std::numeric_limits<int>::digits10
    MaxPacked     \* max_packed_args

DigitChars == <<"0", "1", "2", "3", "4", "5", "6", "7", "8", "9">>

Digits == {DigitChars[i] : i \in 1..10}

DigitValue(c) == (CHOOSE i \in 1..10 : DigitChars[i] = c) - 1

PresentationOf ==
    [d |-> "dec", o |-> "oct", x |-> "hex_lower", X |-> "hex_upper",
     b |-> "bin_lower", B |-> "bin_upper", a |-> "hexfloat_lower",
     A |-> "hexfloat_upper", e |-> "exp_lower", E |-> "exp_upper",
     f |-> "fixed_lower", F |-> "fixed_upper", g |-> "general_lower",
     G |-> "general_upper", c |-> "chr", s |-> "string", p |-> "pointer"]

is_ascii_letter(c) == c \in DOMAIN PresentationOf \cup {"L", "n"}

is_name_start(c) == is_ascii_letter(c) \/ c = "_"

parse_presentation_type(c) ==
    IF c \in DOMAIN PresentationOf THEN PresentationOf[c] ELSE "none"

\* The arguments' types, in the order of their enumeration.
TypeOrder == <<"int", "uint", "llong", "ullong", "int128", "uint128", "bool", "char",
               "float", "double", "ldouble", "cstring", "string", "pointer", "custom">>

is_integral_type(t) == t \in {TypeOrder[i] : i \in 1..8}

is_arithmetic_type(t) == t \in {TypeOrder[i] : i \in 1..11}

-----------------------------------------------------------------------------
(* Arguments: format_arg_store packs the types of a few arguments into one *)
(* number, or keeps a type with every argument.                            *)

NoArg == [type |-> "none", num |-> 0, exp |-> 0, text |-> <<>>, name |-> <<>>]

TypeCode(t) == CHOOSE i \in 1..15 : TypeOrder[i] = t

encode_types(args) ==
    FoldRight(LAMBDA a, rest : TypeCode(a.type) + 16 * rest, args, 0)

\* Mutant: every slot of the packed descriptor is taken for an argument.
get_unchecked(args, id) ==
    IF id < (IF Len(args) > MaxPacked THEN Len(args) ELSE MaxPacked)
    THEN IF id < Len(args) THEN args[id + 1] ELSE args[Len(args)]
    ELSE NoArg

get(args, id) ==
    IF Len(args) > MaxPacked
    THEN IF id < Len(args) THEN args[id + 1] ELSE NoArg
    ELSE IF id >= MaxPacked \/ (encode_types(args) \div 16 ^ id) % 16 = 0 THEN NoArg
    ELSE [args[id + 1] EXCEPT !.type = TypeOrder[(encode_types(args) \div 16 ^ id) % 16]]

Named(args) == {i \in DOMAIN args : args[i].name # <<>>}

\* The first argument of that name; there is no table without named arguments.
get_id(args, name) ==
    LET same == {i \in Named(args) : args[i].name = name}
    IN  IF same = {} THEN -1 ELSE (CHOOSE i \in same : \A j \in same : i <= j) - 1

-----------------------------------------------------------------------------
(* The parse state: the position, next_arg_id_ of the context, the id the  *)
(* last reference gave, the specifiers of the current field, and what the  *)
(* handler has been given to write: texts and fields, in order.  dyn tells *)
(* that a width or a precision was taken from an argument.                 *)

NoSpecs == [width |-> 0, precision |-> -1, type |-> "none", align |-> "none",
            sign |-> "none", alt |-> FALSE, localized |-> FALSE, fill |-> <<" ">>]

ParseStart == [pos |-> 1, id |-> 0, got |-> 0, specs |-> NoSpecs, err |-> FALSE, dyn |-> FALSE,
               out |-> <<>>]

Fail(st) == [st EXCEPT !.err = TRUE]

AtEnd(s, st) == st.pos > Len(s)

Here(s, st) == IF AtEnd(s, st) THEN "\\0" ELSE s[st.pos]

Forward(st, n) == [st EXCEPT !.pos = @ + n]

next_arg_id(h, st) ==
    IF st.id < 0 \/ (h.phase = "check" /\ st.id >= Len(h.args)) THEN Fail(st)
    ELSE [st EXCEPT !.id = @ + 1, !.got = st.id]

\* Mutant: switching from automatic to manual indexing goes unnoticed.
check_arg_id_mixed(h, st, id) ==
    IF h.phase = "check" /\ id >= Len(h.args) THEN Fail(st)
    ELSE [st EXCEPT !.id = -1, !.got = id]

check_arg_id(h, st, id) ==
    IF st.id > 0 \/ (h.phase = "check" /\ id >= Len(h.args)) THEN Fail(st)
    ELSE [st EXCEPT !.id = -1, !.got = id]

-----------------------------------------------------------------------------
(* Numbers and argument references.                                        *)

DigitsEnd(s, p) == CHOOSE q \in p..Len(s) + 1 :
    /\ \A i \in p..q - 1 : s[i] \in Digits
    /\ q <= Len(s) => s[q] \notin Digits

Decimal(ds) == FoldLeft(LAMBDA v, c : (v * 10 + DigitValue(c)) % (2 * IntMax + 2), 0, ds)

\* The value is computed in unsigned; prev * 10ull does not wrap.
parse_nonnegative_int(s, p, error) ==
    LET q    == DigitsEnd(s, p)
        last == DigitValue(s[q - 1])
        wide == Decimal(SubSeq(s, p, q - 2)) * 10 + last
    IN  [pos |-> q,
         value |-> IF q - p <= Digits10 \/ (q - p = Digits10 + 1 /\ wide <= IntMax)
                   THEN Decimal(SubSeq(s, p, q - 1)) ELSE error]

Ref(kind, pos, index, name) == [kind |-> kind, pos |-> pos, index |-> index, name |-> name]

NameChar(c) == is_name_start(c) \/ c \in Digits

NameEnd(s, p) == CHOOSE q \in p + 1..Len(s) + 1 :
    /\ \A i \in p + 1..q - 1 : NameChar(s[i])
    /\ q <= Len(s) => ~NameChar(s[q])

do_parse_arg_id(s, p) ==
    IF s[p] \in Digits
    THEN LET n == IF s[p] = "0" THEN [pos |-> p + 1, value |-> 0]
                  ELSE parse_nonnegative_int(s, p, IntMax)
         IN  IF n.pos > Len(s) \/ s[n.pos] \notin {"}", ":"}
             THEN Ref("error", n.pos, 0, <<>>)
             ELSE Ref("index", n.pos, n.value, <<>>)
    ELSE IF ~is_name_start(s[p]) THEN Ref("error", p, 0, <<>>)
    ELSE Ref("name", NameEnd(s, p), 0, SubSeq(s, p, NameEnd(s, p) - 1))

parse_arg_id(s, p) ==
    IF s[p] \in {"}", ":"} THEN Ref("auto", p, 0, <<>>) ELSE do_parse_arg_id(s, p)

\* on_arg_id: the argument of a field.  The checker knows no named arguments.
on_arg_id(h, st, ref) ==
    CASE ref.kind = "auto"  -> next_arg_id(h, st)
      [] ref.kind = "index" -> check_arg_id(h, st, ref.index)
      [] ref.kind = "error" -> Fail(st)
      [] ref.kind = "name"  -> IF h.phase = "check" \/ get_id(h.args, ref.name) < 0
                               THEN Fail(st)
                               ELSE [st EXCEPT !.got = get_id(h.args, ref.name)]

\* is_integer of width_checker and precision_checker: neither bool nor char.
is_integer(t) == is_integral_type(t) /\ t \notin {"bool", "char"}

\* get_dynamic_spec: the value of an argument as a width or a precision, or -1.
get_dynamic_spec(arg) ==
    IF is_integer(arg.type) /\ arg.num \in 0..IntMax THEN arg.num ELSE -1

SetNumber(st, which, value) == [st EXCEPT !.specs[which] = value]

\* on_dynamic_width, on_dynamic_precision: the checker only follows the ids (a
\* name is not looked up); the handler reads the argument's value.
OnDynamic(h, st, arg, which) ==
    IF st.err THEN st
    ELSE IF h.phase = "check" THEN SetNumber(st, which, 0)
    ELSE IF get_dynamic_spec(arg) < 0 THEN Fail(st)
    ELSE SetNumber(st, which, get_dynamic_spec(arg))

OnDynamicId(h, st, which) == OnDynamic(h, st, get(h.args, st.got), which)

OnDynamicName(h, st, id, which) ==
    OnDynamic(h, st, IF id < 0 THEN NoArg ELSE get(h.args, id), which)

\* The "}" after the reference, once the handler has been told.
AfterRef(s, st, pos) ==
    [st EXCEPT !.err = @ \/ pos > Len(s) \/ s[pos] # "}", !.pos = pos + 1, !.dyn = TRUE]

OnRef(h, s, st, ref, which) ==
    AfterRef(s, IF ref.kind = "name" THEN OnDynamicName(h, st, get_id(h.args, ref.name), which)
                ELSE OnDynamicId(h, on_arg_id(h, st, ref), which), ref.pos)

OnNumber(st, n, which) ==
    IF n.value = -1 THEN Fail(st) ELSE [SetNumber(st, which, n.value) EXCEPT !.pos = n.pos]

\* A number or "{" id "}" at st.pos, shared by parse_width and parse_precision.
NumberOrRef(h, s, st, which) ==
    IF Here(s, st) \in Digits THEN OnNumber(st, parse_nonnegative_int(s, st.pos, -1), which)
    ELSE IF st.pos + 1 > Len(s) THEN Fail(st)
    ELSE OnRef(h, s, st, parse_arg_id(s, st.pos + 1), which)

-----------------------------------------------------------------------------
(* The specifiers, in the order parse_format_specs reads them, with the    *)
(* conditions of specs_checker on the argument's type t.  Nothing is read  *)
(* at the end of the string or after an error.                             *)

AlignOf(c) == CASE c = "<" -> "left" [] c = ">" -> "right" [] c = "^" -> "center"
                [] OTHER -> "none"

code_point_length(c) == CASE c = "lead" -> 2 [] c = "wide" -> 3 [] OTHER -> 1

Stop(s, st) == st.err \/ AtEnd(s, st)

\* The character after one code point is looked at first, then the first one.
parse_align(s, st) ==
    LET after == st.pos + code_point_length(s[st.pos])
    IN  IF Stop(s, st) THEN st
        ELSE IF after <= Len(s) /\ AlignOf(s[after]) # "none"
        THEN IF s[st.pos] = "{" THEN Fail(st)
             ELSE [st EXCEPT !.specs.fill = SubSeq(s, st.pos, after - 1),
                             !.specs.align = AlignOf(s[after]), !.pos = after + 1]
        ELSE IF AlignOf(s[st.pos]) # "none"
        THEN [st EXCEPT !.specs.align = AlignOf(s[st.pos]), !.pos = @ + 1]
        ELSE st

SignOf(c) == CASE c = "+" -> "plus" [] c = "-" -> "minus" [] c = " " -> "space"
               [] OTHER -> "none"

SignAllowed(t) ==
    is_arithmetic_type(t) /\ (is_integral_type(t) => t \in {"int", "llong", "char"})

parse_sign(t, s, st) ==
    IF Stop(s, st) \/ SignOf(s[st.pos]) = "none" THEN st
    ELSE IF ~SignAllowed(t) THEN Fail(st)
    ELSE [st EXCEPT !.specs.sign = SignOf(s[st.pos]), !.pos = @ + 1]

on_hash(t, s, st) ==
    IF Stop(s, st) \/ s[st.pos] # "#" THEN st
    ELSE IF ~is_arithmetic_type(t) THEN Fail(st)
    ELSE [st EXCEPT !.specs.alt = TRUE, !.pos = @ + 1]

\* Only the first byte of the fill is replaced.
on_zero(t, s, st) ==
    IF Stop(s, st) \/ s[st.pos] # "0" THEN st
    ELSE IF ~is_arithmetic_type(t) THEN Fail(st)
    ELSE [st EXCEPT !.specs.align = IF @ = "none" THEN "numeric" ELSE @,
                    !.specs.fill[1] = "0", !.pos = @ + 1]

parse_width(h, s, st) ==
    IF Stop(s, st) \/ s[st.pos] \notin Digits \cup {"{"} THEN st
    ELSE NumberOrRef(h, s, st, "width")

\* end_precision: the type is looked at after the number.
end_precision(t, st) == IF is_integral_type(t) \/ t = "pointer" THEN Fail(st) ELSE st

parse_precision(h, t, s, st) ==
    IF Stop(s, st) \/ s[st.pos] # "." THEN st
    ELSE IF Here(s, Forward(st, 1)) \notin Digits \cup {"{"} THEN Fail(st)
    ELSE end_precision(t, NumberOrRef(h, s, Forward(st, 1), "precision"))

on_localized(t, s, st) ==
    IF Stop(s, st) \/ s[st.pos] # "L" THEN st
    ELSE IF ~is_arithmetic_type(t) THEN Fail(st)
    ELSE [st EXCEPT !.specs.localized = TRUE, !.pos = @ + 1]

on_type(s, st) ==
    IF Stop(s, st) \/ s[st.pos] = "}" THEN st
    ELSE IF parse_presentation_type(s[st.pos]) = "none" THEN Fail(st)
    ELSE [st EXCEPT !.specs.type = parse_presentation_type(s[st.pos]), !.pos = @ + 1]

\* A letter alone is a type; else the parts are read in their order.
parse_format_specs(h, t, s, st) ==
    IF st.pos + 1 <= Len(s) /\ s[st.pos + 1] = "}" /\ is_ascii_letter(s[st.pos]) /\ s[st.pos] # "L"
    THEN on_type(s, st)
    ELSE on_type(s, on_localized(t, s, parse_precision(h, t, s, parse_width(h, s,
             on_zero(t, s, on_hash(t, s, parse_sign(t, s, parse_align(s, st))))))))

-----------------------------------------------------------------------------
(* The presentation types an argument may have: formatter::parse asks in   *)
(* the compiler, the write functions ask again when they format.           *)

check_int_type_spec(type) ==
    type \in {"none", "dec", "oct", "hex_lower", "hex_upper", "bin_lower", "bin_upper", "chr"}

check_char_specs(specs) ==
    IF specs.type \in {"none", "chr"}
    THEN specs.align # "numeric" /\ specs.sign = "none" /\ ~specs.alt
    ELSE check_int_type_spec(specs.type)

FloatTypes == {"none", "general_upper", "general_lower", "exp_upper", "exp_lower", "fixed_upper",
               "fixed_lower", "hexfloat_upper", "hexfloat_lower"}

FormatterAccepts(t, specs) ==
    CASE t = "bool"        -> specs.type = "string" \/ check_int_type_spec(specs.type)
      [] t = "char"        -> check_char_specs(specs)
      [] is_integral_type(t) /\ t \notin {"bool", "char"} -> check_int_type_spec(specs.type)
      [] t \in {"float", "double", "ldouble"} -> specs.type \in FloatTypes
      [] t = "cstring"     -> specs.type \in {"none", "string", "pointer"}
      [] t = "string"      -> specs.type \in {"none", "string"}
      [] t = "pointer"     -> specs.type \in {"none", "pointer"}

-----------------------------------------------------------------------------
(* Replacement fields and texts, and the two loops over a format string,   *)
(* one round at a time.                                                    *)

Text(text) == [kind |-> "text", text |-> text, arg |-> NoArg, specs |-> NoSpecs]

Field(kind, arg, specs) == [kind |-> kind, text |-> <<>>, arg |-> arg, specs |-> specs]

\* The checker ignores texts; an empty text writes nothing.
on_text(h, s, st, from, to) ==
    IF h.phase = "check" \/ from > to \/ st.err THEN st
    ELSE [st EXCEPT !.out = Append(@, Text(SubSeq(s, from, to)))]

\* A field without specifiers: the default_arg_formatter of an argument that exists.
on_replacement_field(h, st) ==
    IF st.err \/ h.phase = "check" THEN st
    ELSE IF get(h.args, st.got) = NoArg THEN Fail(st)
    ELSE [st EXCEPT !.out = Append(@, Field("plain", get(h.args, st.got), NoSpecs))]

\* A field with specifiers: st.pos is after the ":".  The compiler's parse ends
\* with the argument type's own check, the handler's with the field to write.
AfterSpecs(h, s, st, arg) ==
    IF st.err \/ Here(s, st) # "}" THEN Fail(st)
    ELSE IF h.phase = "run" THEN [st EXCEPT !.out = Append(@, Field("specs", arg, st.specs))]
    ELSE IF FormatterAccepts(arg.type, st.specs) THEN st ELSE Fail(st)

on_format_specs(h, s, st) ==
    LET arg == get(h.args, st.got)
    IN  IF st.err THEN st
        ELSE IF arg = NoArg THEN Fail(st)
        ELSE AfterSpecs(h, s, parse_format_specs(h, arg.type, s, [st EXCEPT !.specs = NoSpecs]), arg)

\* What follows the argument id; st.pos is after it.
AfterId(h, s, st) ==
    CASE st.err            -> st
      [] Here(s, st) = "}" -> on_replacement_field(h, st)
      [] Here(s, st) = ":" -> on_format_specs(h, s, Forward(st, 1))
      [] OTHER             -> Fail(st)

OnArgument(h, s, st, ref) == AfterId(h, s, [on_arg_id(h, st, ref) EXCEPT !.pos = ref.pos])

\* st.pos is at the "{".
parse_replacement_field(h, s, st) ==
    LET c == Here(s, Forward(st, 1))
    IN  Forward(CASE AtEnd(s, Forward(st, 1)) -> Fail(st)
                  [] c = "}" -> on_replacement_field(h, Forward(next_arg_id(h, st), 1))
                  [] c = "{" -> on_text(h, s, Forward(st, 1), st.pos + 1, st.pos + 1)
                  [] OTHER   -> OnArgument(h, s, st, parse_arg_id(s, st.pos + 1)), 1)

FirstOf(s, from, to, cs) ==
    LET at == {i \in from..to : s[i] \in cs}
    IN  IF at = {} THEN 0 ELSE CHOOSE i \in at : \A j \in at : i <= j

\* The field after the text that the writer was given.
FieldAfter(h, s, st, p) ==
    IF st.err THEN st ELSE parse_replacement_field(h, s, [st EXCEPT !.pos = p])

\* A round of the loop for strings shorter than 32 characters.
ShortRound(h, s, st) ==
    LET p == FirstOf(s, st.pos, Len(s), {"{", "}"})
    IN  IF p = 0 THEN [on_text(h, s, st, st.pos, Len(s)) EXCEPT !.pos = Len(s) + 1]
        ELSE IF s[p] = "{"
        THEN FieldAfter(h, s, on_text(h, s, st, st.pos, p - 1), p)
        ELSE IF p = Len(s) \/ s[p + 1] # "}" THEN Fail(st)
        ELSE [on_text(h, s, st, st.pos, p) EXCEPT !.pos = p + 2]

\* The writer of the long loop: the text in from..to, each "}}" written as one.
RECURSIVE Writer(_, _, _, _, _)
Writer(h, s, st, from, to) ==
    LET p == FirstOf(s, from, to, {"}"})
    IN  IF p = 0 \/ st.err THEN on_text(h, s, st, from, to)
        ELSE IF p = to \/ s[p + 1] # "}" THEN Fail(st)
        ELSE Writer(h, s, on_text(h, s, st, from, p), p + 2, to)

\* A round of the loop for longer strings: up to the next "{", or to the end.
LongRound(h, s, st) ==
    LET p == IF s[st.pos] = "{" THEN st.pos ELSE FirstOf(s, st.pos + 1, Len(s), {"{"})
    IN  IF p = 0 THEN [Writer(h, s, st, st.pos, Len(s)) EXCEPT !.pos = Len(s) + 1]
        ELSE FieldAfter(h, s, Writer(h, s, st, st.pos, p - 1), p)

\* One round of parse_format_string; limit is its 32.
parse_format_string(h, s, st, limit) ==
    IF Len(s) < limit THEN ShortRound(h, s, st) ELSE LongRound(h, s, st)

=============================================================================
