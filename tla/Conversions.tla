---------------------------- MODULE Conversions ----------------------------
(***************************************************************************)
(* The conversions of libxpf on bounded inputs, each against a definition  *)
(* of its own: a behavior chooses a job and, in one step, its outcome; a   *)
(* command line is parsed call by call, and then once more after           *)
(* xoptreset.  int and long are IntBits and LongBits wide.                 *)
(***************************************************************************)
EXTENDS LexicalCast, TLC

CONSTANTS
    Bytes,          \* bytes for Base64
    MaxBytes,       \* bound: length of the data encoded
    Codes,          \* code points for the conversion of texts
    RawBytes,       \* bytes of ill-formed UTF-8
    Rooms,          \* sizes of a destination buffer, besides one that is large enough
    Randoms,        \* what rand() returns
    Chars,          \* characters for the string operations
    MaxItems        \* bound: options and operands on a command line

B == INSTANCE Base64
U == INSTANCE UtfConv
I == INSTANCE Uuid

VARIABLES
    job,        \* what is converted
    done,       \* it was converted
    outcome,    \* into what
    parser,     \* the state of xgetopt
    reports,    \* the options its calls returned, with their arguments
    first       \* the same, of the parse before xoptreset; <<>> before it

vars == <<job, done, outcome, parser, reports, first>>

SeqsUpTo(S, n) == UNION {[1 .. k -> S] : k \in 0 .. n}

-----------------------------------------------------------------------------
(* Jobs *)

Base64Jobs == [kind : {"bytes"}, data : SeqsUpTo(Bytes, MaxBytes)]
ChunkJobs == [kind : {"chars"}, data : [1 .. 4 -> {0, 37, B!Pad, B!Other}]
                                       \union [1 .. 8 -> {37, B!Pad}] \union [1 .. 3 -> {37}]]

UtfJobs == [kind : {"text"}, data : SeqsUpTo(Codes, 2), scw : {1, 2, 4}, dcw : {1, 2, 4},
            counted : BOOLEAN, room : Rooms \union {-1}]
RawJobs == [kind : {"raw"}, data : [1 .. 3 -> RawBytes], counted : BOOLEAN]

UuidJobs == [kind : {"uuid"}, r : [1 .. 8 -> Randoms], pad : {0, 21, 42, 63}]
OrderJobs == [kind : {"order"},
              u : [1 .. 16 -> {0}] \union {[i \in 1 .. 16 |-> IF i = k THEN 1 ELSE 0] : k \in 1 .. 16},
              v : {[i \in 1 .. 16 |-> IF i \in {k, m} THEN 1 ELSE 0] : k, m \in 1 .. 16}]

Signed == {"d"}
OfNumber == {"d", "u", "x", "X", "o"}
Sizes == {<<>>, <<"h">>, <<"h", "h">>, <<"l">>, <<"l", "l">>}
BitsOfArg(size) == IF size \in {<<"l">>, <<"l", "l">>} THEN LongBits ELSE IntBits

\* The lengths and the values that suit a conversion specifier; those of numbers up
\* to the limits of the type of the argument.
SizesFor(spec) ==
    CASE spec \in OfNumber \union {"s", "c"} -> Sizes
      [] spec = "f" -> {<<>>, <<"l">>}
      [] spec = "p" -> {<<>>}
Float(neg, units) == [neg |-> neg, inf |-> FALSE, units |-> units]
ValuesFor(spec, size) ==
    CASE spec = "d" -> {Lowest(BitsOfArg(size)), -7, 0, 12345, 2^(BitsOfArg(size) - 1) - 1}
      [] spec \in {"u", "x", "X", "o"} -> {0, 8, 48879, 2^BitsOfArg(size) - 1}
      [] spec = "s" -> {<<>>, <<"a", "b", "c", "d", "e">>}
      [] spec = "c" -> {"a"}
      [] spec = "f" -> {Float(FALSE, 5000000), Float(FALSE, 17500000), Float(TRUE, 212500000),
                        Float(FALSE, 99999996), [neg |-> TRUE, inf |-> TRUE, units |-> 0]}
      [] spec = "p" -> {48879}

\* Every set of flags, written in an order and in the opposite one.
FlagOrders == UNION {{SetToSeq(flags), Reverse(SetToSeq(flags))} : flags \in SUBSET Flags}

\* A width and a precision, <<>> for none; `star': given by arguments, which may be
\* negative.
PrintfJobs ==
    UNION {UNION {
        [kind : {"printf"}, spec : {spec}, flags : FlagOrders, size : {size}, star : {FALSE},
         width : {<<>>, <<2>>, <<8>>}, prec : {<<>>, <<0>>, <<3>>, <<8>>}, value : ValuesFor(spec, size)]
        \union
        [kind : {"printf"}, spec : {spec}, flags : FlagOrders, size : {size}, star : {TRUE},
         width : {<<>>, <<8>>, <<-8>>}, prec : {<<>>, <<0>>, <<3>>, <<-1>>}, value : ValuesFor(spec, size)]
           : size \in SizesFor(spec)} : spec \in OfNumber \union {"c", "s", "f", "p"}}

\* Every integral type, at its limits and between them.
TypeLimits == [c8 |-> <<-128, 127>>, u8 |-> <<0, 255>>, s16 |-> <<-32768, 32767>>, u16 |-> <<0, 65535>>,
               s32 |-> <<Lowest(IntBits), 2^(IntBits - 1) - 1>>, u32 |-> <<0, 2^IntBits - 1>>,
               s64 |-> <<Lowest(LongBits), 2^(LongBits - 1) - 1>>, u64 |-> <<0, 2^LongBits - 1>>]
CastJobs ==
    UNION {LET low == TypeLimits[type][1]
               high == TypeLimits[type][2] IN
           [kind : {"cast"}, type : {type}, value : {low, low + 1, 0, 9, high - 1, high}]
           : type \in IntegralTypes}

StringJobs == [kind : {"string"}, s : SeqsUpTo(Chars, 4), other : SeqsUpTo(Chars, 2)]

-----------------------------------------------------------------------------
(* Command lines: what the user means, and how it is written *)

Optstring == <<"a", "c", "b", ":">>
LongOptions == << [name |-> <<"a", "d">>, has_arg |-> 0, flag |-> FALSE, val |-> "ad"],
                  [name |-> <<"a", "e", "f">>, has_arg |-> 1, flag |-> FALSE, val |-> "aef"],
                  [name |-> <<"b", "d">>, has_arg |-> 2, flag |-> TRUE, val |-> "bd"],
                  [name |-> <<"c", "d">>, has_arg |-> 0, flag |-> TRUE, val |-> "cd"] >>

\* A report: what the call returned, its argument, and the flag if one was stored.
Says(ret, arg, flag) == [ret |-> ret, arg |-> arg, flag |-> flag]

\* An item: the reports it should give, its arguments, and whether it is an operand.
Item(says, args, operand) == [says |-> says, args |-> args, operand |-> operand]
Terminator == Item(<<>>, << <<"-", "-">> >>, FALSE)
Items == {
    Item(<< Says("a", <<>>, "") >>, << <<"-", "a">> >>, FALSE),
    Item(<< Says("c", <<>>, ""), Says("a", <<>>, "") >>, << <<"-", "c", "a">> >>, FALSE),
    Item(<< Says("b", <<"x">>, "") >>, << <<"-", "b", "x">> >>, FALSE),
    Item(<< Says("a", <<>>, ""), Says("b", <<"y">>, "") >>, << <<"-", "a", "b">>, <<"y">> >>, FALSE),
    Item(<< Says("ad", <<>>, "") >>, << <<"-", "-", "a", "d">> >>, FALSE),
    Item(<< Says("aef", <<"-", "v">>, "") >>, << <<"-", "-", "a", "e", "=", "-", "v">> >>, FALSE),
    Item(<< Says("aef", <<"-", "a">>, "") >>, << <<"-", "-", "a", "e", "f">>, <<"-", "a">> >>, FALSE),
    Item(<< Says("stored", <<"v">>, "bd") >>, << <<"-", "-", "b", "d", "=", "v">> >>, FALSE),
    Item(<< Says("stored", <<>>, "bd") >>, << <<"-", "-", "b">> >>, FALSE),
    Item(<< Says("stored", <<>>, "cd") >>, << <<"-", "-", "c", "d">> >>, FALSE),
    Item(<< Says("?", <<>>, "") >>, << <<"-", "-", "a">> >>, FALSE),
    Item(<< Says("?", <<>>, "") >>, << <<"-", "e">> >>, FALSE),
    Terminator,
    Item(<<>>, << <<"f">> >>, TRUE),
    Item(<<>>, << <<"e", "b">> >>, TRUE),
    Item(<<>>, << <<>> >>, TRUE) }

\* The arguments of a command line, the program's name first.
Written(items) == << <<"p">> >> \o FlattenSeq([i \in DOMAIN items |-> items[i].args])
GetoptJobs == [kind : {"getopt"}, items : SeqsUpTo(Items, MaxItems), permute : BOOLEAN]

G == INSTANCE GetOpt WITH Text <- Written(job.items)

\* xoptarg as text.
ArgText(place) == IF place = G!None THEN <<>>
                  ELSE SubSeq(Written(job.items)[place[1]], place[2], Len(Written(job.items)[place[1]]))

\* Suboptions: a name of SubTokens or of none, with a value or without.
SubTokens == << <<"r", "o">>, <<"s">> >>
Sub == [name : {<<"r", "o">>, <<"s">>, <<"z">>}, value : {<<>>, <<"=">>, <<"=", "1", "=">>}]
WrittenSubs(subs) ==
    FlattenSeq([i \in DOMAIN subs |-> (IF i = 1 THEN <<>> ELSE <<",">>) \o subs[i].name \o subs[i].value])
SuboptJobs == [kind : {"subopt"}, subs : SeqsUpTo(Sub, 3)]

-----------------------------------------------------------------------------
(* What the code makes of a job *)

\* The text at a place, up to its null.
TextAt(text, i) ==
    SubSeq(text, i, Min({k \in i .. Len(text) : text[k] = "null"} \union {Len(text) + 1}) - 1)

\* The loop every user of getsubopt writes, until the option is used up; the values
\* are read at its end: <<>> for a null pointer, or a text.
RECURSIVE SuboptLoop(_, _, _)
SuboptLoop(text, optionp, got) ==
    IF optionp > Len(text)
      THEN [i \in DOMAIN got |->
              [ret |-> got[i].ret,
               value |-> IF got[i].value = 0 THEN <<>> ELSE <<TextAt(text, got[i].value)>>]]
      ELSE LET r == G!xgetsubopt(text, SubTokens, optionp) IN
           SuboptLoop(r.text, r.optionp, Append(got, r))

Garbage == {0, 77}

\* The text of a source buffer, its null, and what follows it in memory.
Buffer(units) == units \o <<0>> \o [i \in 1 .. 6 |-> 128]

RECURSIVE UnitsOf(_, _)
UnitsOf(width, codes) ==
    IF codes = <<>> THEN <<>> ELSE U!Units(width, Head(codes)) \o UnitsOf(width, Tail(codes))

FormatOf(j) ==
    LET given(n) == IF j.star THEN <<"*">> ELSE DigitsFromEnd[n] IN
    <<"%">> \o j.flags \o (IF j.width = <<>> THEN <<>> ELSE given(j.width[1]))
            \o (IF j.prec = <<>> THEN <<>> ELSE <<".">> \o given(j.prec[1])) \o j.size \o <<j.spec, "!">>
ArgsOf(j) == (IF j.star THEN j.width \o j.prec ELSE <<>>) \o <<j.value>>

Outcome(j, wraps) ==
    CASE j.kind = "bytes" ->
           LET n == B!encode(j.data, B!Query).ret
               e == B!encode(j.data, n) IN
           [size |-> n, encoded |-> e, refused |-> B!encode(j.data, n - 1),
            decoded |-> B!decode(e.out, B!decode(e.out, B!Query).ret)]
      [] j.kind = "chars" ->
           LET n == B!decode(j.data, B!Query).ret IN
           [size |-> n, decoded |-> IF n = -1 THEN B!decode(j.data, 8) ELSE B!decode(j.data, n)]
      [] j.kind = "text" ->
           LET src == UnitsOf(j.scw, j.data) IN
           U!utfConv(Buffer(src), j.scw, j.dcw, IF j.counted THEN Len(src) ELSE -1, j.room)
      [] j.kind = "raw" -> U!utfConv(Buffer(j.data), 1, 4, IF j.counted THEN Len(j.data) ELSE -1, -1)
      [] j.kind = "uuid" -> I!generate(j.r, j.pad)
      [] j.kind = "order" -> <<I!less(j.u, j.v), I!less(j.v, j.u), I!equal(j.u, j.v)>>
      [] j.kind = "printf" -> printf(FormatOf(j), ArgsOf(j), wraps)
      [] j.kind = "cast" -> toText(j.type, j.value, wraps)
      [] j.kind = "string" -> trim(j.s, {" "})
      [] j.kind = "subopt" -> SuboptLoop(WrittenSubs(j.subs), 1, <<>>)

-----------------------------------------------------------------------------
Init ==
    /\ \/ job \in Base64Jobs \/ job \in ChunkJobs
       \/ job \in UtfJobs \/ job \in RawJobs
       \/ job \in UuidJobs \/ job \in OrderJobs
       \/ job \in CastJobs \/ job \in StringJobs
       \/ job \in PrintfJobs
       \/ job \in GetoptJobs \/ job \in SuboptJobs
    /\ done = FALSE
    /\ outcome = <<>>
    /\ parser = IF job.kind = "getopt" THEN G!Fresh([i \in DOMAIN Written(job.items) |-> i]) ELSE <<>>
    /\ reports = <<>>
    /\ first = <<>>

\* What a build makes of a negation that overflows is open.
Convert ==
    /\ job.kind # "getopt"
    /\ ~done
    /\ \E wraps \in BOOLEAN : outcome' = Outcome(job, wraps)
    /\ done' = TRUE
    /\ UNCHANGED <<job, parser, reports, first>>

\* The loop every user of getopt writes, until -1.
Call ==
    /\ job.kind = "getopt"
    /\ ~done
    /\ parser' = G!xgetopt_long(IF job.permute THEN Optstring ELSE <<"+">> \o Optstring, LongOptions, parser)
    /\ IF parser'.ret = "end"
         THEN done' = TRUE /\ UNCHANGED reports
         ELSE /\ reports' = Append(reports, Says(parser'.ret, ArgText(parser'.arg),
                                                 IF parser'.ret = "stored" THEN parser'.flag ELSE ""))
              /\ UNCHANGED done
    /\ UNCHANGED <<job, outcome, first>>

\* xoptreset = 1 after a parse that found something: the permuted line again.
ParseAgain ==
    /\ job.kind = "getopt"
    /\ done
    /\ first = <<>>
    /\ reports # <<>>
    /\ first' = reports
    /\ reports' = <<>>
    /\ done' = FALSE
    /\ parser' = [parser EXCEPT !.reset = TRUE]
    /\ UNCHANGED <<job, outcome>>

Next == Convert \/ Call \/ ParseAgain

Spec == Init /\ [][Next]_vars

Finished(kind) == done /\ job.kind = kind

-----------------------------------------------------------------------------
(* Base64 *)

\* Three bytes as a number of 24 bits, in base 64; what is missing is padding.
Triplet(data, i) ==
    LET byte(k) == IF k <= Len(data) THEN data[k] ELSE 0
        n == byte(i) * 65536 + byte(i + 1) * 256 + byte(i + 2) IN
    [k \in 1 .. 4 |-> IF i + k - 2 > Len(data) THEN B!Pad ELSE (n \div 64^(4 - k)) % 64]

\* What encode writes is the text RFC 4648 gives, as long as the size it announced,
\* and decode takes it back; decode never writes more than the size it announced,
\* whatever the text, so a caller that sizes its buffer by a query is safe.
Base64RoundTrips ==
    /\ Finished("bytes") =>
         /\ outcome.encoded.ret = outcome.size /\ Len(outcome.encoded.out) = outcome.size
         /\ outcome.encoded.out =
              FlattenSeq([t \in 1 .. (Len(job.data) + 2) \div 3 |-> Triplet(job.data, 3 * t - 2)])
         /\ outcome.decoded.out = job.data /\ outcome.decoded.ret = Len(job.data)
         /\ job.data # <<>> => outcome.refused.ret = -1 /\ outcome.refused.outputlen = outcome.size
    /\ Finished("chars") =>
         /\ outcome.decoded.ret \in {-1, Len(outcome.decoded.out)}
         /\ outcome.size # -1 => Len(outcome.decoded.out) <= outcome.size
         /\ outcome.size = -1 => outcome.decoded.ret = -1

-----------------------------------------------------------------------------
(* Texts *)

\* The encoding forms of Unicode, range by range.
Standard(width, cp) ==
    CASE width = 4 -> <<cp>>
      [] width = 2 /\ cp <= 65535 -> <<cp>>
      [] width = 2 /\ cp > 65535 -> <<55232 + cp \div 1024, 56320 + (cp % 1024)>>
      [] width = 1 /\ cp <= 127 -> <<cp>>
      [] width = 1 /\ cp > 127 /\ cp <= 2047 -> <<192 + cp \div 64, 128 + (cp % 64)>>
      [] width = 1 /\ cp > 2047 /\ cp <= 65535 ->
           <<224 + cp \div 4096, 128 + ((cp \div 64) % 64), 128 + (cp % 64)>>
      [] width = 1 /\ cp > 65535 ->
           <<240 + cp \div 262144, 128 + ((cp \div 4096) % 64), 128 + ((cp \div 64) % 64), 128 + (cp % 64)>>

StandardText(width, codes) == FlattenSeq([i \in DOMAIN codes |-> Standard(width, codes[i])])
FirstOf(codes, k) == SubSeq(codes, 1, k)

\* What a conversion of a text wrote, and whether that leaves room for a null.
TextWritten == StandardText(job.dcw, FirstOf(job.data, outcome.ret))
RoomLeft == job.room = -1 \/ Len(TextWritten) < job.room

\* A conversion writes whole code points, in the standard form of the destination
\* and as many as its buffer holds, with nothing behind them but a null in room that
\* is left; when the source ends first and there is room, the null is there.  When a
\* code point does not fit it may be missing: utfconv.cpp:412 writes none, although
\* utfconv.h:55 promises one "if possible".
\* to_utf8 and its like have room enough.  A source is read to its count or its null
\* and never behind, however ill-formed it is.
UtfKeepsText ==
    /\ Finished("text") =>
         LET k == outcome.ret
             fits(n) == job.room = -1 \/ Len(StandardText(job.dcw, FirstOf(job.data, n))) <= job.room IN
         /\ fits(k) /\ (k < Len(job.data) => ~fits(k + 1))
         /\ outcome.out \in {TextWritten} \union (IF RoomLeft THEN {Append(TextWritten, 0)} ELSE {})
         /\ k = Len(job.data) /\ RoomLeft => outcome.out # TextWritten
         /\ outcome.seen <= Len(StandardText(job.scw, job.data)) + (IF job.counted THEN 0 ELSE 1)
         /\ U!toString(StandardText(job.scw, job.data), job.scw, job.dcw) = StandardText(job.dcw, job.data)
    /\ Finished("raw") =>
         LET nulls == {i \in 1 .. 3 : job.data[i] = 0} IN
         outcome.seen <= Min(nulls \union {IF job.counted THEN 3 ELSE 4})

-----------------------------------------------------------------------------
(* Uuid *)

\* A generated uuid is of version 4 and variant 10, every other bit is one of
\* rand()'s, its text gives it back; and two uuids neither of which is less than
\* the other are equal (what a sorted container takes operator< to say; that it
\* never says both is not true of operator<).
UuidKeepsIdentity ==
    /\ Finished("uuid") =>
         /\ outcome[7] \div 16 = 4 /\ outcome[9] \div 64 = 2
         /\ \A i \in 1 .. 16 : outcome[i] \in 0 .. 255
         /\ \A k \in 1 .. 8 :
              /\ outcome[2 * k] = job.r[k] % 256
              /\ k \notin {4, 5} => outcome[2 * k - 1] % 128 = (job.r[k] \div 256) % 128
         /\ I!fromString(I!asString(outcome)) = outcome
         /\ Len(I!asString(outcome)) = 36
    /\ Finished("order") =>
         /\ outcome[3] <=> job.u = job.v
         /\ ~outcome[1] /\ ~outcome[2] => outcome[3]

-----------------------------------------------------------------------------
(* printf *)

\* The digits of a number by place value; none at all for a zero at precision 0.
PlaceDigits(v, base) ==
    IF v = 0 THEN <<"0">>
    ELSE LET n == CHOOSE k \in 1 .. 12 : base^(k - 1) <= v /\ v < base^k IN
         [i \in 1 .. n |-> DigitChars[((v \div base^(n - i)) % base) + 1]]

BaseOf(spec) == IF spec = "o" THEN 8 ELSE IF spec \in {"x", "X", "p"} THEN 16 ELSE 10

\* ISO C: the argument is converted to the type its length names; a negative width
\* is the flag '-' and a width, a negative precision none (-1).
CValue(j) ==
    LET bits == CASE j.size = <<"h", "h">> -> 8 [] j.size = <<"h">> -> 16 [] OTHER -> BitsOfArg(j.size)
        low == j.value % 2^bits IN
    IF j.spec \in Signed /\ low >= 2^(bits - 1) THEN low - 2^bits ELSE low
CWidth(j) == IF j.width = <<>> THEN 0 ELSE IF j.width[1] < 0 THEN 0 - j.width[1] ELSE j.width[1]
CLeft(j) == "-" \in ToSet(j.flags) \/ (j.width # <<>> /\ j.width[1] < 0)
CPrec(j) == IF j.prec = <<>> THEN -1 ELSE j.prec[1]

\* Sign or base mark, digits at least as many as the precision, and the field filled
\* by blanks on either side or by zeros behind the sign.
CSign(j) ==
    IF (j.spec = "d" /\ CValue(j) < 0) \/ (j.spec = "f" /\ j.value.neg) THEN <<"-">>
    ELSE IF j.spec \in {"d", "f"} /\ "+" \in ToSet(j.flags) THEN <<"+">>
    ELSE IF j.spec \in {"d", "f"} /\ " " \in ToSet(j.flags) THEN <<" ">>
    ELSE IF j.spec \in {"x", "X"} /\ "#" \in ToSet(j.flags) /\ CValue(j) # 0 THEN <<"0", j.spec>>
    ELSE IF j.spec = "p" THEN <<"0", "x">>
    ELSE <<>>

\* The decimals of a %f beyond the last that is written, and whether they round it
\* up, a tie to the even one.
Dropped(j, places) == j.value.units % 10^(7 - places)
RoundsUp(j, places) ==
    \/ 2 * Dropped(j, places) > 10^(7 - places)
    \/ 2 * Dropped(j, places) = 10^(7 - places) /\ (j.value.units \div 10^(7 - places)) % 2 = 1

CFloat(j) ==
    LET prec == IF CPrec(j) = -1 THEN 6 ELSE CPrec(j)
        places == IF prec > 7 THEN 7 ELSE prec
        n == j.value.units \div 10^(7 - places) + (IF RoundsUp(j, places) THEN 1 ELSE 0)
        decimals == [i \in 1 .. places |-> DigitChars[((n \div 10^(places - i)) % 10) + 1]] IN
    IF j.value.inf THEN <<"i", "n", "f">>
    ELSE PlaceDigits(n \div 10^places, 10) \o (IF prec > 0 \/ "#" \in ToSet(j.flags) THEN <<".">> ELSE <<>>)
         \o decimals \o Repeat(prec - places, "0")

CDigits(j) ==
    LET v == IF CValue(j) < 0 THEN 0 - CValue(j) ELSE CValue(j)
        raw == IF v = 0 /\ CPrec(j) = 0 THEN <<>> ELSE PlaceDigits(v, BaseOf(j.spec))
        cased == IF j.spec = "X" THEN make_upper(raw) ELSE raw
        places == IF j.spec = "p" /\ ~(j.star /\ j.prec # <<>>) THEN 16 ELSE CPrec(j)
        padded == Repeat(places - Len(cased), "0") \o cased IN
    IF j.spec = "o" /\ "#" \in ToSet(j.flags) /\ (padded = <<>> \/ padded[1] # "0")
      THEN <<"0">> \o padded ELSE padded

CText(j) ==
    LET body == CASE j.spec = "s" -> SubSeq(j.value, 1, IF CPrec(j) = -1 \/ CPrec(j) > Len(j.value)
                                                          THEN Len(j.value) ELSE CPrec(j))
                  [] j.spec = "c" -> <<j.value>>
                  [] j.spec = "f" -> CFloat(j)
                  [] j.spec \in OfNumber \union {"p"} -> CDigits(j)
        sign == CSign(j)
        fill == CWidth(j) - Len(sign) - Len(body)
        zeros == /\ "0" \in ToSet(j.flags) /\ j.spec \in OfNumber \union {"f"}
                 /\ CPrec(j) = -1 \/ j.spec = "f"
                 /\ j.spec = "f" => ~j.value.inf IN
    IF CLeft(j) /\ j.spec # "p" THEN sign \o body \o Repeat(fill, " ")
    ELSE IF zeros THEN sign \o Repeat(fill, "0") \o body
    ELSE Repeat(fill, " ") \o sign \o body

\* Directives whose flags, width or precision the code treats otherwise than ISO C,
\* although string.h:387-388 calls them "Fully supported.":
\* a ' ' behind a '+', of a value that is not negative; the mark of the base, if a
\* width or a precision is given, on a zero or on octal digits that the precision fills
\* with zeros; zeros in front of a %f with a precision; a %f cut where it should be
\* rounded up, or with more than six decimals; any of '#', '0' and a precision on an
\* infinite one; a width that an argument makes negative; and such a precision, of a
\* text, of a %f or with zeros in a width.
KnownLayout(j) ==
    LET given(c) == c \in ToSet(j.flags)
        marked == given("#") /\ (j.width # <<>> \/ j.prec # <<>>) IN
    \/ /\ j.spec \in {"d", "f"} /\ CSign(j) # <<"-">>
       /\ \E i, k \in DOMAIN j.flags : i < k /\ j.flags[i] = "+" /\ j.flags[k] = " "
    \/ j.spec \in {"x", "X"} /\ marked /\ CValue(j) = 0 /\ CPrec(j) # 0
    \/ j.spec = "o" /\ marked /\ (CValue(j) = 0 \/ CPrec(j) > Len(PlaceDigits(CValue(j), 8)))
    \/ j.spec = "f" /\ given("0") /\ ~given("-") /\ j.width # <<>> /\ j.prec # <<>>
    \/ j.spec = "f" /\ CPrec(j) \in 0 .. 5 /\ RoundsUp(j, CPrec(j))
    \/ j.spec = "f" /\ CPrec(j) > 6 /\ Dropped(j, 6) # 0
    \/ j.spec = "f" /\ j.value.inf /\ (j.prec # <<>> \/ given("#") \/ given("0"))
    \/ j.width # <<>> /\ j.width[1] < 0
    \/ j.spec \in {"s", "f"} /\ j.prec # <<>> /\ j.prec[1] < 0
    \/ j.spec \in OfNumber /\ j.prec # <<>> /\ j.prec[1] < 0 /\ given("0") /\ j.width # <<>>

\* Values it takes otherwise, although string.h:380 lists the lengths as "Supported":
\* the lowest one of an int or a long long; one that %h or %hh makes negative; and one
\* of %l beyond an int.
KnownValue(j) ==
    /\ j.spec \in OfNumber
    /\ \/ j.spec = "d" /\ j.size \in {<<>>, <<"l", "l">>} /\ j.value = Lowest(BitsOfArg(j.size))
       \/ j.size \in {<<"h">>, <<"h", "h">>} /\ CValue(j) < 0
       \/ j.size = <<"l">> /\ CValue(j) # CValue([j EXCEPT !.size = <<>>])

\* printf writes what ISO C says of the directive, its flags, width, precision and
\* length, whether given in the format or by arguments, and goes on behind it, but for
\* the directives known to differ.  The length counts for nothing on %c and %s, as
\* string.h:382 says.  A pointer (what ISO C leaves open) is 0x and sixteen digits,
\* unless an argument gives the precision, and no flag counts.
PrintfFormatsLikeC ==
    Finished("printf") /\ ~KnownLayout(job) /\ ~KnownValue(job) => outcome = Append(CText(job), "!")

-----------------------------------------------------------------------------
(* Strings *)

IsRun(s, i, j) ==
    /\ \A k \in i .. j : s[k] # " "
    /\ i > 1 => s[i - 1] = " "
    /\ j < Len(s) => s[j + 1] = " "

\* The maximal runs of s without a separator, in order.
Runs(s) ==
    LET ends == {r \in (DOMAIN s) \X (DOMAIN s) : r[1] <= r[2] /\ IsRun(s, r[1], r[2])} IN
    [k \in 1 .. Cardinality(ends) |->
        LET r == CHOOSE r \in ends : Cardinality({q \in ends : q[1] < r[1]}) = k - 1
        IN SubSeq(s, r[1], r[2])]

SameLetters(s, t) == Len(s) = Len(t) /\ \A i \in DOMAIN s : make_lower(s)[i] = make_lower(t)[i]

\* A value of an integral type is written in decimal and survives the way to text
\* and back, but for the lowest one of 32 and 64 bits, whose negation overflows; trim
\* leaves what is between the outer blanks; begin_with and end_with tell the affixes,
\* in any case; split returns every run of a string that a separator follows, in
\* order.  The run at its end, which loses its last character, is left open.
TextOperationsAgree ==
    /\ Finished("cast") /\ ~(job.type \in {"s32", "s64"} /\ job.value = TypeLimits[job.type][1]) =>
         /\ outcome = IF job.value < 0 THEN <<"-">> \o PlaceDigits(0 - job.value, 10)
                                      ELSE PlaceDigits(job.value, 10)
         /\ fromText(job.type, outcome, Garbage) = {job.value}
    /\ Finished("string") =>
         /\ \E i \in 0 .. Len(job.s) :
              job.s = Repeat(i, " ") \o outcome \o Repeat(Len(job.s) - i - Len(outcome), " ")
         /\ outcome # <<>> => outcome[1] # " " /\ Last(outcome) # " "
         /\ begin_with(job.s, job.other, FALSE) <=> IsPrefix(job.other, job.s)
         /\ end_with(job.s, job.other, FALSE) <=> IsSuffix(job.other, job.s)
         /\ begin_with(job.s, job.other, TRUE) <=> \E t \in Prefixes(job.s) : SameLetters(t, job.other)
         /\ end_with(job.s, job.other, TRUE) <=> \E t \in Suffixes(job.s) : SameLetters(t, job.other)
         /\ job.s # <<>> =>
              LET open == Last(job.s) # " "
                  tokens == split(job.s, {" "}, TRUE, FALSE) IN
              /\ IsPrefix(IF open THEN Front(Runs(job.s)) ELSE Runs(job.s), tokens)
              /\ Len(tokens) <= Len(Runs(job.s))

-----------------------------------------------------------------------------
(* xgetopt *)

Meant(items) == FlattenSeq([i \in DOMAIN items |-> items[i].says])
ArgsIn(items) == FlattenSeq([i \in DOMAIN items |-> items[i].args])
Operands(items) == SelectSeq(items, LAMBDA i : i.operand)
OptionItems(items) == SelectSeq(items, LAMBDA i : ~i.operand)

\* A "--" ends the options: what is in front of it, and the arguments behind it.
Terminated(items) == Contains(items, Terminator)
InFront(items) == IF Terminated(items) THEN FirstOf(items, SelectInSeq(items, LAMBDA i : i = Terminator) - 1)
                                       ELSE items
Behind(items) == ArgsIn(SubSeq(items, Len(InFront(items)) + 2, Len(items)))

\* Without permutation the parse stops at the first operand.
Considered(j) ==
    IF j.permute THEN InFront(j.items)
    ELSE FirstOf(j.items, Max({k \in 0 .. Len(InFront(j.items)) : \A i \in 1 .. k : ~j.items[i].operand}))

\* Where the parse ends, and the arguments as GNU getopt leaves them.
GnuIndex(j) ==
    1 + Len(ArgsIn(OptionItems(Considered(j))))
      + (IF Terminated(j.items) /\ (j.permute \/ Considered(j) = InFront(j.items)) THEN 1 ELSE 0)
GnuLine(j) ==
    IF j.permute
      THEN LET front == InFront(j.items) IN
           << <<"p">> >> \o ArgsIn(OptionItems(front)) \o (IF Terminated(j.items) THEN Terminator.args ELSE <<>>)
             \o ArgsIn(Operands(front)) \o Behind(j.items)
      ELSE Written(j.items)
AsGnu == /\ [i \in DOMAIN parser.argv |-> Written(job.items)[parser.argv[i]]] = GnuLine(job)
         /\ parser.ind = GnuIndex(job)

\* The permutation goes on looking for options behind a "--", from the second argument
\* (getopt.cpp:107, against "Follow GNU." of getopt.h:53).
HiddenOptions(j) ==
    j.permute /\ \E k \in 2 .. Len(Behind(j.items)) : Behind(j.items)[k] # <<>> /\ Behind(j.items)[k][1] = "-"

\* The flags stored by a sequence of reports, one after the other.
FlagAfter(says) == FoldLeft(LAMBDA flag, r : IF r.ret = "stored" THEN r.flag ELSE flag, "clear", says)

\* When xgetopt returns -1 every option that was meant has been reported once, in
\* order and with its argument, and the flag holds what the last one that has a flag
\* stores; argv is the same arguments with the options first, and xoptind is where
\* the operands begin, in their order, unless an argument behind "--" looks like an
\* option.  A second parse of the permuted line reports the same.
GetoptSortsArguments ==
    Finished("getopt") =>
      /\ reports = Meant(Considered(job))
      /\ parser.flag = FlagAfter(Meant(Considered(job)))
      /\ ~HiddenOptions(job) => AsGnu
      /\ first # <<>> => reports = first

\* xgetsubopt takes a list apart at its commas: a suboption per call, the token it
\* names and the value between its first equals sign and the comma, none without the
\* sign, or the suboption itself when no token has that name; the texts stay as they
\* were returned while the rest is parsed, and the last call leaves nothing.
SuboptsAreTakenInOrder ==
    Finished("subopt") =>
      /\ Len(outcome) = Len(job.subs)
      /\ \A i \in DOMAIN outcome :
           LET sub == job.subs[i]
               known == \E k \in DOMAIN SubTokens : SubTokens[k] = sub.name IN
           /\ known => SubTokens[outcome[i].ret] = sub.name
           /\ ~known => outcome[i].ret = 0
           /\ outcome[i].value = IF ~known THEN <<sub.name \o sub.value>>
                                 ELSE IF sub.value = <<>> THEN <<>>
                                 ELSE <<Tail(sub.value)>>
=============================================================================
