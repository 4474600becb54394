------------------------------- MODULE Printf -------------------------------
(***************************************************************************)
(* xpf::string::printf (src/include/xpf/string.h): the format is read by a *)
(* machine with six states, one character per step unless the state hands  *)
(* the character on to the next one (`p--').  A build with pointers of 64  *)
(* bits.  An argument is a number, a text for %s, or for %f a record: a    *)
(* sign, infinite or not, and the tenths of a millionth of its value.      *)
(***************************************************************************)
EXTENDS XpfString

CONSTANTS
    IntBits,    \* width of int (32 in the builds)
    LongBits    \* width of long and of long long (64)

ASSUME WidthsAssumption == IntBits > 16 /\ LongBits >= IntBits

Flags == {"-", "+", " ", "#", "0"}

\* The machine: position in the format, state, flags of the directive, width,
\* precision, output and the arguments not yet taken.  "W" and "P": a width and
\* a precision are given, "W*" and "P*": by an argument.  "THROWN": an exception
\* has left printf.  `wraps': whether the build wraps a negation that overflows.
Start(args, wraps) == [p |-> 1, state |-> "TEXT", flags |-> {}, width |-> 0, prec |-> 0,
                       out |-> <<>>, args |-> args, wraps |-> wraps]

\* The step ends with the next character, or looks at this one again.
Consume(m) == [m EXCEPT !.p = @ + 1]
Enter(m, state) == [m EXCEPT !.state = state]
Emit(m, text) == [m EXCEPT !.out = @ \o text]

\* The value of a digit, 10 for what is none.
DigitOf(c) == IF \E d \in 0 .. 9 : DigitChars[d + 1] = c
                THEN CHOOSE d \in 0 .. 9 : DigitChars[d + 1] = c ELSE 10
IsDigit(c) == DigitOf(c) < 10

InText(m, c) ==
    Consume(IF c = "%" THEN [m EXCEPT !.flags = {}, !.width = 0, !.prec = 0, !.state = "FLAGS"]
                       ELSE Emit(m, <<c>>))

\* '+' and ' ' put each other out.
InFlags(m, c) ==
    IF c \notin Flags THEN Enter(m, "WIDTH")
    ELSE Consume([m EXCEPT !.flags = (@ \ CASE c = "+" -> {" "} [] c = " " -> {"+"} [] OTHER -> {})
                                     \union {c}])

InWidth(m, c) ==
    CASE IsDigit(c) -> Consume([m EXCEPT !.flags = @ \union {"W"}, !.width = @ * 10 + DigitOf(c)])
      [] c = "*"    -> Consume([m EXCEPT !.flags = @ \union {"W", "W*"}])
      [] c = "."    -> Consume([m EXCEPT !.flags = @ \union {"P"}, !.state = "PREC"])
      [] OTHER      -> Enter(m, "SIZE")

InPrecision(m, c) ==
    CASE IsDigit(c) -> Consume([m EXCEPT !.prec = @ * 10 + DigitOf(c)])
      [] c = "*"    -> Consume([m EXCEPT !.flags = @ \union {"P*"}])
      [] OTHER      -> Enter(m, "SIZE")

\* `next' is the character after this one, or the terminating null.
InSize(m, c, next) ==
    CASE c \in {"l", "h"} /\ next = c -> Consume(Consume([m EXCEPT !.flags = @ \union {c \o c}]))
      [] c \in {"l", "h"} /\ next # c -> Consume([m EXCEPT !.flags = @ \union {c}])
      [] c \in {"j", "z", "t", "L"}   -> Consume(m)
      [] OTHER                        -> Enter(m, "SPEC")

\* _READ_PARAMS: a width and a precision among the arguments.
ReadParams(m) ==
    LET w == IF "W*" \in m.flags THEN [m EXCEPT !.width = Head(m.args), !.args = Tail(@)] ELSE m
    IN  IF "P*" \in w.flags THEN [w EXCEPT !.prec = Head(w.args), !.args = Tail(@)] ELSE w

\* va_arg.
TakeArg(m) == [m EXCEPT !.args = Tail(@)]

-----------------------------------------------------------------------------
\* n digits of `base' with the zeros in front left out, but for a single one.
Digits(v, base, n) ==
    LET all == [i \in 1 .. n |-> DigitChars[((v \div base^(n - i)) % base) + 1]]
        significant == {i \in 1 .. n : all[i] # "0"} IN
    IF significant = {} THEN <<"0">> ELSE SubSeq(all, Min(significant), n)

IsSigned(c) == c \in {"d", "i"}
BitsOf(flags) == IF "ll" \in flags THEN LongBits ELSE IntBits

\* va_arg: a long long for ll, an int for everything else, l included.
Taken(c, flags, v) ==
    LET bits == BitsOf(flags)
        low == v % 2^bits IN
    IF IsSigned(c) /\ low >= 2^(bits - 1) THEN low - 2^bits ELSE low

\* %h and %hh mask the value, signed or not.
Shrink(v, flags) ==
    CASE "ll" \in flags -> v
      [] "h" \in flags /\ "ll" \notin flags -> v % 65536
      [] "hh" \in flags /\ flags \intersect {"ll", "h"} = {} -> v % 256
      [] OTHER -> v

\* The constructor from f64: six decimals, rounded, as sprintf prints them.
FloatText(v) ==
    LET millionths == (v.units + 5) \div 10
        fraction == [i \in 1 .. 6 |-> DigitChars[((millionths \div 10^(6 - i)) % 10) + 1]] IN
    (IF v.neg THEN <<"-">> ELSE <<>>) \o
    (IF v.inf THEN <<"i", "n", "f">>
              ELSE DigitsFromEnd[millionths \div 1000000] \o <<".">> \o fraction)

\* The value as text.
ValueText(c, flags, arg, wraps) ==
    LET bits == BitsOf(flags)
        v == Shrink(Taken(c, flags, arg), flags) IN
    CASE c = "f" -> FloatText(arg)
      [] c = "x" -> Digits(v, 16, bits \div 4)
      [] c = "X" -> make_upper(Digits(v, 16, bits \div 4))
      [] c = "o" -> Digits(v, 8, (bits + 2) \div 3)
      [] OTHER   -> Decimal(v, bits, wraps)

IsHexOrOct(c) == c \in {"x", "X", "o"}
HasSign(c) == IsSigned(c) \/ c = "f"

\* Neither a width nor a precision is given.
PlainNumber(c, flags, val) ==
    LET sign == IF HasSign(c) /\ val[1] # "-"
                  THEN (IF "+" \in flags THEN <<"+">> ELSE <<>>) \o (IF " " \in flags THEN <<" ">> ELSE <<>>)
                  ELSE <<>>
        point == IF c = "f" /\ "#" \in flags /\ ~Contains(val, ".") THEN <<".">> ELSE <<>>
        base == IF IsHexOrOct(c) /\ "#" \in flags /\ val # <<"0">>
                  THEN IF c = "o" THEN <<"0">> ELSE <<"0", c>>
                  ELSE <<>>
    IN sign \o base \o val \o point

\* The sign, or the mark of the base.
Prefix(c, flags, val) ==
    CASE HasSign(c) /\ val[1] = "-"   -> <<"-">>
      [] HasSign(c) /\ val[1] # "-" /\ "+" \in flags -> <<"+">>
      [] HasSign(c) /\ val[1] # "-" /\ " " \in flags /\ "+" \notin flags -> <<" ">>
      [] IsHexOrOct(c) /\ "#" \in flags -> IF c = "o" THEN <<"0">> ELSE <<"0", c>>
      [] OTHER -> <<>>

\* The value without its minus.
Unsigned(c, val) == IF HasSign(c) /\ val[1] = "-" THEN Tail(val) ELSE val

\* A text with a point, cut or filled to the precision, which may be negative.
FloatDigits(flags, prec, val) ==
    IF ~Contains(val, ".")
      THEN IF prec > 0 \/ "#" \in flags THEN val \o <<".">> \o Repeat(prec, "0") ELSE val
      ELSE LET idx == CHOOSE i \in DOMAIN val : val[i] = "." 
               rest == Len(val) - idx IN
           IF rest > prec
             THEN SubSeq(val, 1, IF prec = 0 /\ "#" \notin flags THEN idx - 1 ELSE idx + prec)
             ELSE val \o Repeat(prec - rest, "0")

\* A precision is given: no digit for a zero at precision zero.
PreciseNumber(c, flags, prec, val) ==
    LET digits == Unsigned(c, val) IN
    IF c # "f" /\ prec = 0 /\ val = <<"0">>
      THEN IF ~IsSigned(c) THEN <<>> ELSE Prefix(c, flags, val)
      ELSE Prefix(c, flags, val) \o
           IF c = "f" THEN FloatDigits(flags, prec, digits)
                      ELSE Repeat(prec - Len(digits), "0") \o digits

\* Blanks up to the width, on the right or on the left.
InField(flags, width, text) ==
    IF "-" \in flags THEN text \o Repeat(width - Len(text), " ")
                     ELSE Repeat(width - Len(text), " ") \o text

\* Defect: zeros go in front of the sign.
WideNumber_ZerosFirst(c, flags, width, val) ==
    LET text == Prefix(c, flags, val) \o Unsigned(c, val) IN
    IF "0" \in flags /\ "-" \notin flags
      THEN Repeat(width - Len(text), "0") \o text
      ELSE InField(flags, width, text)

\* A width is given and no precision: zeros may fill the field behind the prefix.
WideNumber(c, flags, width, val) ==
    LET prefix == Prefix(c, flags, val)
        digits == Unsigned(c, val) IN
    IF "0" \in flags /\ "-" \notin flags
      THEN prefix \o Repeat(width - Len(prefix) - Len(digits), "0") \o digits
      ELSE InField(flags, width, prefix \o digits)

Number(c, flags, width, prec, val) ==
    CASE flags \intersect {"W", "P"} = {} -> PlainNumber(c, flags, val)
      [] "P" \in flags -> InField(flags, width, PreciseNumber(c, flags, prec, val))
      [] OTHER -> WideNumber(c, flags, width, val)

-----------------------------------------------------------------------------
\* %p is an eight-byte %x with all its digits; %F, %e, %g, %a are %f.
AsPointer(m) ==
    [m EXCEPT !.flags = (@ \intersect {"W", "W*", "P", "P*"}) \union {"P", "#", "ll"},
              !.prec = IF @ < 16 THEN 16 ELSE @]

FormatNumber(m, c) ==
    LET r == ReadParams(m) IN
    Emit(TakeArg(r), Number(c, r.flags, r.width, r.prec,
                            ValueText(c, r.flags, Head(r.args), r.wraps)))

\* One character in its field; a null is never appended.
FormatChar(m) ==
    LET r == ReadParams(m)
        text == IF Head(r.args) = "null" THEN <<>> ELSE <<Head(r.args)>>
        pad == Repeat(r.width - 1, " ") IN
    Emit(TakeArg(r), IF "-" \in r.flags THEN text \o pad ELSE pad \o text)

\* A text, cut at the precision; append throws std::length_error at a negative one.
FormatText(m) ==
    LET r == ReadParams(m)
        text == Head(r.args)
        cnt == IF "P" \in r.flags /\ r.prec < Len(text) THEN r.prec ELSE Len(text) IN
    IF cnt < 0 /\ text # <<>> THEN Enter(r, "THROWN")
    ELSE Emit(TakeArg(r), InField(r.flags, r.width, SubSeq(text, 1, cnt)))

InSpec(m, c) ==
    LET done == CASE c = "c" -> FormatChar(m)
                  [] c = "%" -> Emit(ReadParams(m), <<"%">>)
                  [] c = "p" -> FormatNumber(AsPointer(m), "x")
                  [] c \in {"F", "g", "G", "e", "E", "A", "a", "f"} -> FormatNumber(m, "f")
                  [] c \in {"x", "X", "o", "d", "i", "u"} -> FormatNumber(m, c)
                  [] c = "s" -> FormatText(m)
                  [] OTHER -> m
    IN IF done.state = "THROWN" THEN done ELSE Consume(Enter(done, "TEXT"))

\* One turn of the loop.
Step(format, m) ==
    LET c == format[m.p]
        next == IF m.p < Len(format) THEN format[m.p + 1] ELSE "null" IN
    CASE m.state = "TEXT"  -> InText(m, c)
      [] m.state = "FLAGS" -> InFlags(m, c)
      [] m.state = "WIDTH" -> InWidth(m, c)
      [] m.state = "PREC"  -> InPrecision(m, c)
      [] m.state = "SIZE"  -> InSize(m, c, next)
      [] m.state = "SPEC"  -> InSpec(m, c)

AtEnd(format, m) == m.p > Len(format) \/ m.state = "THROWN"

\* printf: the loop from the first character to the last; an exception instead of
\* a text, if there was one.
RECURSIVE Run(_, _)
Run(format, m) ==
    IF AtEnd(format, m) THEN IF m.state = "THROWN" THEN <<"length_error">> ELSE m.out
    ELSE Run(format, Step(format, m))
printf(format, args, wraps) == Run(format, Start(args, wraps))
=============================================================================
