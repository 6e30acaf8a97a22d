------------------------------- MODULE Format -------------------------------
(***************************************************************************)
(* The formatted output of lib/stdio.c: parse_conversion, format_integer,  *)
(* format_string, vsnprintf and the lines of hex_dump.  A character is a   *)
(* one-character string, a text a sequence of them.                        *)
(*                                                                         *)
(* Each step formats one conversion with its arguments: conv is the        *)
(* conversion that was written (want), the format and what came of it.     *)
(***************************************************************************)
EXTENDS Integers, Sequences, FiniteSets, FiniteSetsExt, SequencesExt

CONSTANTS Widths, Precisions,   \* -1 in Precisions: none; -2: "*" with a negative argument
    Values, Bases, Group,       \* numbers to format, their bases, digits in a group
    BufLen,                     \* 64, the size of format_integer's buffer
    BufSizes,                   \* sizes given to vsnprintf
    PerLine                     \* 16, the bytes of a line of hex_dump

VARIABLES conv
fmtVars == <<conv>>

Flags == {"-", "+", " ", "#", "0", "'"}
Digit == <<"0", "1", "2", "3", "4", "5", "6", "7", "8", "9", "a", "b", "c", "d", "e", "f">>
DigitOf(c) == CHOOSE d \in 0 .. 15 : Digit[d + 1] = c
IsDigit(c) == \E i \in 1 .. 10 : Digit[i] = c

ASSUME FormatAssumption == Bases \subseteq 2 .. 16 /\ Group \in Nat \ {0} /\ PerLine \in Nat \ {0}

-----------------------------------------------------------------------------
\* parse_conversion: f is the text after the percent sign, args the
\* arguments still unread.
Next1(f) == IF f = <<>> THEN "end" ELSE f[1]

\* The flag characters in front, as they stand.
RECURSIVE FlagsIn(_)
FlagsIn(f) == IF Next1(f) \in Flags THEN {f[1]} \cup FlagsIn(Tail(f)) ELSE {}
RECURSIVE AfterFlags(_)
AfterFlags(f) == IF Next1(f) \in Flags THEN AfterFlags(Tail(f)) ELSE f
RECURSIVE NumberIn(_, _)
NumberIn(f, n) == IF IsDigit(Next1(f)) THEN NumberIn(Tail(f), n * 10 + DigitOf(f[1])) ELSE [n |-> n, f |-> f]

\* A number or a "*".
Field(f, args) ==
    IF Next1(f) = "*" THEN [n |-> Head(args), f |-> Tail(f), args |-> Tail(args)]
    ELSE LET d == NumberIn(f, 0) IN [n |-> d.n, f |-> d.f, args |-> args]

ParseType(f) ==
    CASE Next1(f) = "h" /\ Next1(Tail(f)) = "h" -> [type |-> "hh", f |-> Tail(Tail(f))]
      [] Next1(f) = "h" /\ Next1(Tail(f)) # "h" -> [type |-> "h", f |-> Tail(f)]
      [] Next1(f) = "l" /\ Next1(Tail(f)) = "l" -> [type |-> "ll", f |-> Tail(Tail(f))]
      [] Next1(f) = "l" /\ Next1(Tail(f)) # "l" -> [type |-> "l", f |-> Tail(f)]
      [] Next1(f) \in {"j", "t", "z"} -> [type |-> f[1], f |-> Tail(f)]
      [] OTHER -> [type |-> "", f |-> f]

parse_conversion(f, args) ==
    LET raw == FlagsIn(f)
        w == Field(AfterFlags(f), args)
        dot == Next1(w.f) = "."
        p == IF dot THEN Field(Tail(w.f), w.args) ELSE [n |-> -1, f |-> w.f, args |-> w.args]
        prec == IF p.n < 0 THEN -1 ELSE p.n
        f1 == raw \ ((IF "-" \in raw THEN {"0"} ELSE {}) \cup (IF "+" \in raw THEN {" "} ELSE {}))
        f2 == IF w.n < 0 THEN f1 \cup {"-"} ELSE f1
        t == ParseType(p.f)
    IN  [flags |-> f2 \ (IF prec >= 0 THEN {"0"} ELSE {}), width |-> IF w.n < 0 THEN -w.n ELSE w.n,
         precision |-> prec, type |-> t.type, f |-> t.f, args |-> p.args]

-----------------------------------------------------------------------------
\* The digits of value, last digit first, with the commas of the ' flag.
RECURSIVE Digits(_, _, _, _)
Digits(value, base, grouped, cnt) ==
    IF value = 0 THEN <<>>
    ELSE (IF grouped /\ cnt > 0 /\ cnt % Group = 0 THEN <<",">> ELSE <<>>)
         \o <<Digit[(value % base) + 1]>> \o Digits(value \div base, base, grouped, cnt + 1)

Dup(c, n) == [i \in 1 .. (IF n > 0 THEN n ELSE 0) |-> c]

\* The buffer of format_integer, in the order of its bytes: digits, zeros up
\* to the precision while there is room, the zero of "#" in base 8.
IntegerBuf(value, base, c) ==
    LET digits == Digits(value, base, "'" \in c.flags, 0)
        prec == IF c.precision < 0 THEN 1 ELSE c.precision
        buf == digits \o Dup("0", Min({prec, BufLen - 1}) - Len(digits))
    IN  IF "#" \in c.flags /\ base = 8 /\ (buf = <<>> \/ Last(buf) # "0") THEN Append(buf, "0") ELSE buf

Sign(c, negative) ==
    CASE "+" \in c.flags -> IF negative THEN <<"-">> ELSE <<"+">>
      [] "+" \notin c.flags /\ " " \in c.flags -> IF negative THEN <<"-">> ELSE <<" ">>
      [] OTHER -> IF negative THEN <<"-">> ELSE <<>>

\* Mutant of format_integer: the sign is not counted in the padding.
IntegerWide(value, is_signed, negative, base, c) ==
    LET buf == IntegerBuf(value, base, c)
        sign == IF is_signed THEN Sign(c, negative) ELSE <<>>
        pad == c.width - Len(buf)
    IN  (IF c.flags \cap {"-", "0"} = {} THEN Dup(" ", pad) ELSE <<>>) \o sign
        \o (IF "0" \in c.flags THEN Dup("0", pad) ELSE <<>>) \o Reverse(buf)
        \o (IF "-" \in c.flags THEN Dup(" ", pad) ELSE <<>>)

format_integer(value, is_signed, negative, base, c) ==
    LET buf == IntegerBuf(value, base, c)
        sign == IF is_signed THEN Sign(c, negative) ELSE <<>>
        x == IF "#" \in c.flags /\ value # 0 /\ base = 16 THEN <<"0", "x">> ELSE <<>>
        pad == c.width - Len(buf) - Len(x) - Len(sign)
    IN  (IF c.flags \cap {"-", "0"} = {} THEN Dup(" ", pad) ELSE <<>>) \o sign \o x
        \o (IF "0" \in c.flags THEN Dup("0", pad) ELSE <<>>) \o Reverse(buf)
        \o (IF "-" \in c.flags THEN Dup(" ", pad) ELSE <<>>)

\* format_string of a string of n letters.
format_string(n, c) ==
    LET len == IF c.precision >= 0 /\ c.precision < n THEN c.precision ELSE n
    IN  (IF "-" \notin c.flags THEN Dup(" ", c.width - len) ELSE <<>>) \o Dup("s", len)
        \o (IF "-" \in c.flags THEN Dup(" ", c.width - len) ELSE <<>>)

\* __vprintf of "%", one conversion and what follows it.
vprintf(f, args, value, base) ==
    LET c == parse_conversion(f, args)
    IN  (IF Next1(c.f) = "s" THEN format_string(IF value < 0 THEN -value ELSE value, c)
         ELSE format_integer(IF value < 0 THEN -value ELSE value, Next1(c.f) = "d", value < 0, base, c))
        \o Tail(c.f)

\* What vsnprintf leaves in a buffer of the size; it returns Len(out).
vsnprintf(out, size) ==
    LET max == IF size > 0 THEN size - 1 ELSE 0
    IN  SubSeq(out, 1, Min({max, Len(out)})) \o (IF size > 0 THEN <<"end">> ELSE <<>>)

\* The lines of hex_dump: where each begins and which of its columns it fills.
RECURSIVE hex_dump(_, _)
hex_dump(ofs, size) ==
    IF size = 0 THEN <<>>
    ELSE LET start == ofs % PerLine
             n == IF PerLine - start > size THEN size ELSE PerLine - start
         IN  <<[at |-> ofs - start, from |-> start, n |-> n]>> \o hex_dump(ofs + n, size - n)

-----------------------------------------------------------------------------
\* A conversion as a programmer writes it.
Wanted == [flags : SUBSET Flags, width : Widths, precision : Precisions, kind : {"d", "u", "s"}]
Plain(n) == IF n = 0 THEN <<>> ELSE <<Digit[n + 1]>>
Written(w) ==
    SetToSeq(w.flags) \o (IF w.width < 0 THEN <<"*">> ELSE Plain(w.width))
    \o (CASE w.precision = -1 -> <<>> [] w.precision = -2 -> <<".", "*">>
          [] OTHER -> <<".">> \o Plain(w.precision))
    \o <<w.kind>> \o <<"!">>
ArgsOf(w) == (IF w.width < 0 THEN <<w.width>> ELSE <<>>) \o (IF w.precision = -2 THEN <<-7>> ELSE <<>>)

NoConv == [want |-> [flags |-> {}, width |-> 0, precision |-> -1, kind |-> "s"],
           value |-> 0, base |-> 10, out |-> <<>>]
FmtInit == conv = NoConv
Print1(w, v, b) ==
    /\ w.kind # "d" => v >= 0
    /\ w.kind # "u" => b = 10
    /\ conv' = [want |-> w, value |-> v, base |-> b, out |-> vprintf(Written(w), ArgsOf(w), v, b)]
FmtNext == conv = NoConv /\ \E w \in Wanted, v \in Values, b \in Bases : Print1(w, v, b)

-----------------------------------------------------------------------------
Strip(s) == SelectSeq(s, LAMBDA c : \E i \in DOMAIN Digit : Digit[i] = c)
RECURSIVE Value(_, _)
Value(s, base) == IF s = <<>> THEN 0 ELSE Value(Front(s), base) * base + DigitOf(Last(s))
Abs(n) == IF n < 0 THEN -n ELSE n

\* A "*" width that is negative sets the - flag after the - flag has had its
\* chance to cancel the 0 flag: the field is padded on both sides.
PaddedTwice(w) == w.width < 0 /\ "0" \in w.flags /\ "-" \notin w.flags /\ w.precision < 0

\* Unless PaddedTwice, what is printed can be read back: the digits are the number, the sign is
\* its sign, the text fills the field exactly when the number is shorter, on
\* the side the flags say, and no combination of flags, "*" arguments and
\* precision overruns the buffer or loses the text behind the conversion.
IntegerText ==
    conv.want.kind \in {"d", "u"} /\ ~PaddedTwice(conv.want) =>
      LET w == conv.want
          out == Front(conv.out)
          minus == "-" \in w.flags \/ w.width < 0
          c == parse_conversion(Written(w), ArgsOf(w))
          body == Len(Strip(out)) + Len(SelectSeq(out, LAMBDA x : x \in {",", "+", "-", "x"}))
      IN  /\ Last(conv.out) = "!"
          /\ Value(Strip(out), conv.base) = Abs(conv.value)
          /\ (\E i \in DOMAIN out : out[i] = "-") = (conv.value < 0)
          /\ Len(out) >= Abs(w.width)
          /\ Len(out) > Abs(w.width) => \A i \in DOMAIN out : out[i] = " " => i = 1 /\ " " \in w.flags
          /\ Len(IntegerBuf(Abs(conv.value), conv.base, c)) <= BufLen
          /\ minus /\ out # <<>> /\ body > 0 => out[1] # " " \/ " " \in w.flags
          /\ ~minus /\ body > 0 => Last(out) # " "
          /\ w.precision > 0 => Len(Strip(out)) + Len(SelectSeq(out, LAMBDA x : x = ",")) >= Min({w.precision, BufLen - 1})

\* vsnprintf writes no more than the buffer holds, ends it, and the buffer
\* is the beginning of the whole text.
BufferKept ==
    \A size \in BufSizes :
      LET b == vsnprintf(conv.out, size)
      IN  /\ Len(b) <= size
          /\ size > 0 => /\ Last(b) = "end" /\ Len(b) = Min({size, Len(conv.out) + 1})
                         /\ \A i \in 1 .. Len(b) - 1 : b[i] = conv.out[i]

\* hex_dump shows every byte of the block once, each line within one aligned
\* line, also when the block starts and ends inside one.
DumpCovers ==
    conv # NoConv => \A ofs \in 0 .. PerLine + 1, size \in 0 .. 2 * PerLine + 1 :
      LET lines == hex_dump(ofs + Len(conv.out), size)
          Bytes(k) == (lines[k].at + lines[k].from) .. (lines[k].at + lines[k].from + lines[k].n - 1)
      IN  /\ UNION {Bytes(k) : k \in DOMAIN lines} = (ofs + Len(conv.out)) .. (ofs + Len(conv.out) + size - 1)
          /\ \A k \in DOMAIN lines :
               lines[k].at % PerLine = 0 /\ lines[k].n > 0 /\ lines[k].from + lines[k].n <= PerLine

\* stdio.c: integers as text, bounded output and the lines of hex_dump.
FormatRight == IntegerText /\ BufferKept /\ DumpCovers
=============================================================================
