---------------------------- MODULE FormatWrite ----------------------------
(***************************************************************************)
(* What a replacement field writes: digits, signs, prefixes, padding and   *)
(* fill, the alternate forms, digit grouping, strings cut to a precision,  *)
(* characters, booleans and pointers.                                      *)
(*                                                                         *)
(* A field is the sequence of operations it performs on the buffer: it     *)
(* reserves room, pushes characters one by one, appends runs of them, or   *)
(* asks for a pointer into the buffer and fills it directly.  loc is the   *)
(* thousands_sep of the locale: the sizes of its digit groups from the     *)
(* right, the last one repeated, or <<>> for the classic locale.           *)
(***************************************************************************)
EXTENDS FormatParse

CONSTANT
    IntBits       \* the width of int and unsigned; long long is twice as wide

Op(op, n, text) == [op |-> op, n |-> n, text |-> text]

Reserve(n) == <<Op("reserve", n, <<>>)>>

Push(text) == <<Op("push", 0, text)>>

Copy(text) == <<Op("append", 0, text)>>

Direct(text) == <<Op("direct", 0, text)>>

Times(n, c) == [i \in 1..n |-> c]

-----------------------------------------------------------------------------
(* Digits.                                                                 *)

\* The index of the highest bit of n | 1.
Bsr(n) == CHOOSE b \in 0..30 : 2 ^ b <= (IF n = 0 THEN 1 ELSE n) /\ (n < 2 ^ b * 2)

\* The 32 of FMT_INC: enough bits for every power of ten of the table.
IncBits == 20

\* Three bit lengths share an entry of the table: their power of ten, and its length.
\* The last entries of the table, for 30 bits and more, are not made so.
do_count_digits_32(n) ==
    LET k == Bsr(n) \div 3
        t == IF k = 0 THEN 0 ELSE 10 ^ k
    IN  (n + (k + 1) * 2 ^ IncBits - t) \div 2 ^ IncBits

bsr2log10 == <<1, 1, 1, 2, 2, 2, 3, 3, 3, 4, 4, 4, 4, 5, 5, 5, 6, 6, 6, 7, 7, 7, 7, 8>>

do_count_digits_64(n) ==
    LET t == bsr2log10[Bsr(n) + 1]
        zero_or_power == IF t < 2 THEN 0 ELSE 10 ^ (t - 1)
    IN  IF n < zero_or_power THEN t - 1 ELSE t

Width(t) == IF t \in {"int", "uint", "bool", "char"} THEN IntBits ELSE 2 * IntBits

count_digits(w, n) == IF w = IntBits THEN do_count_digits_32(n) ELSE do_count_digits_64(n)

\* The digits of n in base 2 ^ bits.
count_digits_bits(bits, w, n) ==
    IF w = IntBits THEN Bsr(n) \div bits + 1
    ELSE CHOOSE k \in 1..2 * IntBits : n < 2 ^ (bits * k) /\ (k > 1 => n >= 2 ^ (bits * (k - 1)))

Pair(n) == <<DigitChars[(n \div 10) + 1], DigitChars[(n % 10) + 1]>>

\* Two digits at a time, from the end of size characters; the ones before the
\* first digit keep what was there.
RECURSIVE format_decimal(_, _)
format_decimal(value, size) ==
    IF value >= 100
    THEN format_decimal(value \div 100, size - 2)
         \o Pair(value % 100)
    ELSE IF value < 10 THEN Times(size - 1, "junk") \o <<DigitChars[value + 1]>>
    ELSE Times(size - 2, "junk") \o Pair(value)

HexChars(upper) == DigitChars \o (IF upper THEN <<"A", "B", "C", "D", "E", "F">>
                                  ELSE <<"a", "b", "c", "d", "e", "f">>)

format_uint(bits, value, size, upper) ==
    [i \in 1..size |-> HexChars(upper)[((value \div 2 ^ (bits * (size - i))) % 2 ^ bits) + 1]]

-----------------------------------------------------------------------------
(* Padding.                                                                *)

fill(n, f) ==
    IF n = 0 THEN <<>>
    ELSE IF Len(f) = 1 THEN Push(Times(n, f[1]))
    ELSE [i \in 1..n |-> Op("append", 0, f)]

\* The shifts of write_padded; the entry after the last one is the terminator 0.
LeftPadding(default, align, padding) ==
    CASE align = "none"   -> IF default = "left" THEN 0 ELSE padding
      [] align = "left"   -> 0
      [] align = "center" -> padding \div 2
      [] align \in {"right", "numeric"} -> padding

write_padded(default, specs, size, width, body) ==
    LET padding == IF specs.width > width THEN specs.width - width ELSE 0
        left    == LeftPadding(default, specs.align, padding)
    IN  Reserve(size + padding * Len(specs.fill)) \o fill(left, specs.fill) \o body
        \o fill(padding - left, specs.fill)

write_bytes(default, text, specs) ==
    write_padded(default, specs, Len(text), Len(text), Copy(text))

write_char(c, specs) == write_padded("left", specs, 1, 1, Push(<<c>>))

write_ptr(value, specs) ==
    LET digits == count_digits_bits(4, 2 * IntBits, value)
    IN  write_padded("right", specs, digits + 2, digits + 2,
                     Push(<<"0", "x">>) \o Direct(format_uint(4, value, digits, FALSE)))

-----------------------------------------------------------------------------
(* Integers.                                                               *)

SignChars(sign) == CASE sign = "plus" -> <<"+">> [] sign = "space" -> <<" ">>
                     [] sign = "minus" -> <<"-">> [] sign = "none" -> <<>>

\* Mutant: the absolute value is computed in the signed type.
AbsoluteSigned(w, value) == IF value < 0 THEN (0 - value) % 2 ^ (w - 1) ELSE value

\* The absolute value, in the unsigned type of the same width.
Absolute(w, value) == IF value < 0 THEN (0 - (value % 2 ^ w)) % 2 ^ w ELSE value

\* The sign of make_write_int_arg: a "-" specifier writes nothing by itself.
IntSign(value, sign) ==
    IF value < 0 THEN <<"-">> ELSE IF sign = "minus" THEN <<>> ELSE SignChars(sign)

\* write_int: prefix, zeros, the n digits.  Numeric alignment pads with zeros after the prefix.
WriteInt(n, digits, prefix, specs) ==
    LET plain == Len(prefix) + n
        zeros == IF specs.align = "numeric"
                 THEN IF specs.width > plain THEN specs.width - plain ELSE 0
                 ELSE IF specs.precision > n THEN specs.precision - n ELSE 0
    IN  IF specs.width = 0 /\ specs.precision = -1
        THEN Reserve(plain) \o Push(prefix) \o digits
        ELSE write_padded("right", specs, plain + zeros, plain + zeros,
                          Push(prefix) \o Push(Times(zeros, "0")) \o digits)

\* The separator positions from the right that are below n.
RECURSIVE SeparatorsBelow(_, _, _)
SeparatorsBelow(loc, n, at) ==
    IF loc = <<>> \/ at + loc[1] >= n THEN {}
    ELSE {at + loc[1]}
         \cup SeparatorsBelow(IF Len(loc) = 1 THEN loc ELSE Tail(loc), n, at + loc[1])

count_separators(loc, n) ==
    Cardinality(SeparatorsBelow(loc, n, 0))

Grouped(loc, digits) ==
    LET n   == Len(digits)
        sep == SeparatorsBelow(loc, n, 0)
    IN  FoldLeft(LAMBDA out, i : out \o (IF n - i + 1 \in sep THEN <<",", digits[i]>> ELSE <<digits[i]>>),
                 <<>>, [i \in 1..n |-> i])

\* The sign is inside the padding, whatever the alignment.
write_int_localized(loc, abs, sign, specs) ==
    LET n    == count_digits(2 * IntBits, abs)
        size == Len(sign) + n + count_separators(loc, n)
    IN  write_padded("right", specs, size, size,
                     Push(sign) \o Push(Grouped(loc, format_decimal(abs, n))))

AlternatePrefix(type) ==
    CASE type = "hex_lower" -> <<"0", "x">> [] type = "hex_upper" -> <<"0", "X">>
      [] type = "bin_lower" -> <<"0", "b">> [] type = "bin_upper" -> <<"0", "B">>
      [] OTHER -> <<>>

\* Characters have the codes of the digits, 48 to 57.
CharOf(n) == IF n \in 48..57 THEN DigitChars[n - 47] ELSE "other"

\* write_int by the presentation type; "throw" ends the call with an error.
write_int(loc, w, value, specs) ==
    LET abs  == Absolute(w, value)
        sign == IntSign(value, specs.sign)
        bits == IF specs.type \in {"hex_lower", "hex_upper"} THEN 4
                ELSE IF specs.type = "oct" THEN 3 ELSE 1
        n    == count_digits_bits(bits, w, abs)
        alt  == IF ~specs.alt THEN <<>>
                ELSE IF specs.type # "oct" THEN AlternatePrefix(specs.type)
                ELSE IF specs.precision <= n /\ abs # 0 THEN <<"0">> ELSE <<>>
    IN  CASE specs.type \in {"none", "dec"} ->
               IF specs.localized THEN write_int_localized(loc, abs, sign, specs)
               ELSE LET d == count_digits(w, abs)
                    IN  WriteInt(d, Copy(format_decimal(abs, d)), sign, specs)
          [] specs.type \in {"hex_lower", "hex_upper", "bin_lower", "bin_upper", "oct"} ->
               WriteInt(n, Direct(format_uint(bits, abs, n, specs.type = "hex_upper")),
                        sign \o alt, specs)
          [] specs.type = "chr" -> write_char(CharOf(abs % 256), specs)
          [] OTHER -> <<Op("throw", 0, <<>>)>>

-----------------------------------------------------------------------------
(* Strings, booleans, characters, and the two visitors of an argument.     *)

\* Walks the code points; a byte that starts none counts as one of its own.
RECURSIVE compute_width(_)
compute_width(text) ==
    IF text = <<>> THEN 0
    ELSE (IF text[1] = "wide" /\ Len(text) >= 3 THEN 2 ELSE 1)
         + compute_width(SubSeq(text, 1 + code_point_length(text[1]), Len(text)))

\* The width is in columns, the precision and the size are in bytes.
write_string(text, specs) ==
    LET size  == IF specs.precision >= 0 /\ specs.precision < Len(text)
                 THEN specs.precision ELSE Len(text)
        cut   == SubSeq(text, 1, size)
        width == IF specs.width # 0 THEN compute_width(cut) ELSE 0
    IN  write_padded("left", specs, size, width, Copy(cut))

BoolText(arg) == IF arg.num = 1 THEN <<"t", "r", "u", "e">> ELSE <<"f", "a", "l", "s", "e">>

\* default_arg_formatter: a field without specifiers.
WritePlain(arg) ==
    LET w == Width(arg.type)
        d == format_decimal(Absolute(w, arg.num), count_digits(w, Absolute(w, arg.num)))
        sign == IF arg.num < 0 THEN <<"-">> ELSE <<>>
    IN  CASE arg.type = "bool" -> write_bytes("left", BoolText(arg), NoSpecs)
          [] arg.type = "char" -> Reserve(1) \o Push(<<CharOf(arg.num)>>)
          [] arg.type \in {"int", "uint", "llong", "ullong"} ->
               Reserve(Len(sign) + Len(d)) \o Direct(sign \o d)
          [] arg.type \in {"cstring", "string"} -> Reserve(Len(arg.text)) \o Copy(arg.text)
          [] arg.type = "pointer" -> write_ptr(arg.num, NoSpecs)

\* arg_formatter: a field with specifiers.  The locale is not passed on for a bool.
WriteSpecs(loc, arg, specs) ==
    CASE arg.type = "bool" ->
           IF specs.type \notin {"none", "string"}
           THEN write_int(<<>>, IntBits, arg.num, specs)
           ELSE write_bytes("left", BoolText(arg), specs)
      [] arg.type = "char" ->
           IF specs.type \in {"none", "chr"}
           THEN IF check_char_specs(specs) THEN write_char(CharOf(arg.num), specs)
                ELSE <<Op("throw", 0, <<>>)>>
           ELSE write_int(loc, IntBits, arg.num, specs)
      [] arg.type \in {"int", "uint", "llong", "ullong"} ->
           write_int(loc, Width(arg.type), arg.num, specs)
      [] arg.type = "cstring" /\ specs.type = "pointer" -> write_ptr(arg.num, specs)
      [] arg.type = "pointer" /\ specs.type \in {"none", "pointer"} -> write_ptr(arg.num, specs)
      [] arg.type \in {"cstring", "string"} /\ specs.type \in {"none", "string"} ->
           write_string(arg.text, specs)
      [] OTHER -> <<Op("throw", 0, <<>>)>>

=============================================================================
