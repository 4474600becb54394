---------------------------- MODULE LexicalCast ----------------------------
(***************************************************************************)
(* lexical_cast (src/include/xpf/lexicalcast.h) between integral values    *)
(* and text: one way through xpf::string::printf, the other through        *)
(* sscanf, which leaves its variable uninitialized when nothing matches.   *)
(* The types of 32 and 64 bits are IntBits and LongBits wide here.         *)
(***************************************************************************)
EXTENDS Printf

SignedTypes == {"c8", "s16", "s32"}
UnsignedTypes == {"u8", "u16", "u32"}
LongTypes == {"s64", "u64"}
IntegralTypes == SignedTypes \union UnsignedTypes \union LongTypes

\* Value to text.
toText(type, val, wraps) ==
    CASE type \in SignedTypes   -> printf(<<"%", "d">>, <<val>>, wraps)
      [] type \in UnsignedTypes -> printf(<<"%", "u">>, <<val>>, wraps)
      [] type = "s64"           -> printf(<<"%", "l", "l", "d">>, <<val>>, wraps)
      [] type = "u64"           -> printf(<<"%", "l", "l", "u">>, <<val>>, wraps)
      [] type = "bool"          -> IF val = 1 THEN <<"t", "r", "u", "e">>
                                              ELSE <<"f", "a", "l", "s", "e">>

\* sscanf with %d or %u: a sign and digits; otherwise the variable keeps whatever
\* it holds, one of `garbage'.
Scanned(text, garbage) ==
    LET minus == text # <<>> /\ text[1] = "-"
        digits == IF minus THEN Tail(text) ELSE text
        n == CHOOSE k \in 0 .. Len(digits) :
               /\ \A i \in 1 .. k : IsDigit(digits[i])
               /\ k < Len(digits) => ~IsDigit(digits[k + 1])
        val == FoldLeft(LAMBDA acc, d : acc * 10 + DigitOf(d), 0, SubSeq(digits, 1, n)) IN
    IF n = 0 THEN garbage ELSE {IF minus THEN 0 - val ELSE val}

\* Defect: every type is read as a signed byte.
Narrowed_Bytes(type, v) == ((v + 128) % 256) - 128

\* (TargetType) buf.
Narrowed(type, v) ==
    CASE type = "bool" -> IF v = 0 THEN 0 ELSE 1
      [] type = "c8"   -> ((v + 128) % 256) - 128
      [] type = "u8"   -> v % 256
      [] type = "s16"  -> ((v + 32768) % 65536) - 32768
      [] type = "u16"  -> v % 65536
      [] OTHER         -> v

\* Text to value: the values it may return.
fromText(type, text, garbage) == {Narrowed(type, v) : v \in Scanned(text, garbage)}
=============================================================================
