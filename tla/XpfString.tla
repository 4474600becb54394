----------------------------- MODULE XpfString -----------------------------
(***************************************************************************)
(* xpf::string (src/include/xpf/string.h): what the class adds to          *)
(* std::basic_string, but for printf (module Printf) and hash.  A string   *)
(* is a sequence of characters, a character is a string of length one, and *)
(* a terminating null is not represented.                                  *)
(***************************************************************************)
EXTENDS Integers, Sequences, SequencesExt

LowerCase == <<"a", "b", "c", "d", "e", "f", "x">>
UpperCase == <<"A", "B", "C", "D", "E", "F", "X">>

\* append(n, c): nothing for a count that is not positive.
Repeat(n, c) == [i \in 1 .. n |-> c]

DigitChars == <<"0", "1", "2", "3", "4", "5", "6", "7", "8", "9", "a", "b", "c", "d", "e", "f">>

\* The digits of a number that is not negative, written from the last one.
DigitsFromEnd[v \in Nat] ==
    (IF v < 10 THEN <<>> ELSE DigitsFromEnd[v \div 10]) \o <<DigitChars[(v % 10) + 1]>>

\* Every character of `from' becomes its like of `to'; any other stays.
Recase(s, from, to) ==
    [i \in DOMAIN s |-> IF \E k \in DOMAIN from : from[k] = s[i]
                          THEN to[CHOOSE k \in DOMAIN from : from[k] = s[i]] ELSE s[i]]
make_lower(s) == Recase(s, UpperCase, LowerCase)
make_upper(s) == Recase(s, LowerCase, UpperCase)

\* The lowest value of a signed type, and what '0' - d is for a digit d.
Lowest(bits) == 0 - 2^(bits - 1)
BelowZero == <<"0", "/", ".", "-", ",", "+", "*", ")", "(", "'">>

\* The constructors from integers: the value is negated first, the sign comes last.
\* The lowest value of a signed type cannot be negated (undefined): a build that
\* wraps around keeps it, with digits below '0'; an optimized one may print it.
Decimal(v, bits, wraps) ==
    LET digits == DigitsFromEnd[IF v < 0 THEN 0 - v ELSE v] IN
    IF v >= 0 THEN digits
    ELSE <<"-">> \o IF v = Lowest(bits) /\ wraps
                      THEN Recase(digits, SubSeq(DigitChars, 1, 10), BelowZero) ELSE digits

\* std::basic_string::substr and compare, from a position counted from 0; the
\* length is clamped to what there is.
Substr(s, pos, len) == SubSeq(s, pos + 1, IF pos + len > Len(s) THEN Len(s) ELSE pos + len)

\* Compares as many characters as `other' has, by default.
equals_ignore_case(s, other, pos, len) ==
    /\ pos >= 0
    /\ Substr(make_lower(s), pos, IF len < 0 THEN Len(other) ELSE len) = make_lower(other)

\* From the first to the last character that is not white.
trim(s, whitespace) ==
    LET solid == {i \in DOMAIN s : s[i] \notin whitespace} IN
    IF solid = {} THEN <<>>
    ELSE SubSeq(s, Min(solid), Max(solid))

\* One character of split: a token ends at a separator, unless it is empty and
\* empty ones are ignored or the character before is a separator too.
SplitAt(s, delimiter, ignoreEmptyTokens, keepSeparators, acc, i) ==
    IF s[i] \notin delimiter THEN [acc EXCEPT !.wasSeparator = FALSE]
    ELSE [tokens |-> IF (~ignoreEmptyTokens \/ i - 1 # acc.lastpos) /\ ~acc.wasSeparator
                       THEN Append(acc.tokens, SubSeq(s, acc.lastpos + 1, i - 1))
                       ELSE acc.tokens,
          lastpos |-> IF keepSeparators THEN i - 1 ELSE i,
          wasSeparator |-> TRUE]

\* The tokens of a string that is not empty.  What follows the last separator is
\* measured with size() - 1: its last character is left out.
split(s, delimiter, ignoreEmptyTokens, keepSeparators) ==
    LET start == [tokens |-> <<>>, lastpos |-> 0, wasSeparator |-> FALSE]
        end == FoldLeftDomain(LAMBDA acc, i :
                 SplitAt(s, delimiter, ignoreEmptyTokens, keepSeparators, acc, i), start, s) IN
    IF Len(s) - 1 > end.lastpos
      THEN Append(end.tokens, SubSeq(s, end.lastpos + 1, Len(s) - 1))
      ELSE end.tokens

begin_with(s, str, ignoreCase) ==
    /\ Len(s) >= Len(str)
    /\ LET snip == Substr(s, 0, Len(str)) IN
       IF ignoreCase THEN equals_ignore_case(snip, str, 0, -1) ELSE snip = str

end_with(s, str, ignoreCase) ==
    /\ Len(s) >= Len(str)
    /\ LET snip == Substr(s, Len(s) - Len(str), Len(str)) IN
       IF ignoreCase THEN equals_ignore_case(snip, str, 0, -1) ELSE snip = str
=============================================================================
