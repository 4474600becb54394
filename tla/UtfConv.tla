------------------------------ MODULE UtfConv ------------------------------
(***************************************************************************)
(* utfConvInner (src/src/utfconv.cpp): a reader takes code points out of a *)
(* buffer of 1, 2 or 4 byte units, a writer puts them into another.  A     *)
(* count of -1 stands for a null-terminated source, or for a destination   *)
(* that is large enough.  A source buffer is followed by whatever is in    *)
(* memory: a unit of it that is read is recorded.                          *)
(***************************************************************************)
EXTENDS Integers, Sequences, SequencesExt

EndOfStream == -1   \* END_OF_STREAM, a u32 no code point in the model reaches
BadFormat == -2     \* BAD_FORMAT

\* A reader: next unit (from 1), Remaining, the code point read, and the last
\* unit looked at.
Reader(cnt) == [current |-> 1, remaining |-> cnt, cp |-> 0, seen |-> 0]
Gives(r, cp, upto) == [r EXCEPT !.cp = cp, !.seen = IF upto > @ THEN upto ELSE @]

\* Moves past a code point of n units, the last of which was looked at.
Takes(r, cp, n) ==
    [Gives(r, cp, r.current + n - 1) EXCEPT
        !.current = @ + n, !.remaining = IF @ > 0 THEN @ - n ELSE @]

\* The last unit, or a null.
AtEndOfStream(r, buf) == r.remaining = 0 \/ buf[r.current] = 0
Stops(r) == Gives(r, EndOfStream, IF r.remaining = 0 THEN 0 ELSE r.current)

\* How many bytes follow a lead byte, -1 for a byte that cannot lead.
Subsequent(c) ==
    CASE c < 128 -> 0
      [] c >= 192 /\ c < 224 -> 1
      [] c >= 224 /\ c < 240 -> 2
      [] c >= 240 /\ c < 248 -> 3
      [] c >= 248 /\ c < 252 -> 4
      [] c >= 252 /\ c < 254 -> 5
      [] OTHER -> -1

\* The bits a lead byte contributes.
LeadBits(c) ==
    LET n == Subsequent(c) IN IF n = 0 THEN c ELSE c % (2^(6 - n))

IsContinuation(c) == c >= 128 /\ c < 192

\* Defect: the end of the source is not compared with the length of the sequence.
Utf8Read_Overruns(r, buf) ==
    LET n == Subsequent(buf[r.current])
        rest == SubSeq(buf, r.current + 1, r.current + n)
        bad == {k \in 1 .. n : ~IsContinuation(buf[r.current + k])} IN
    CASE AtEndOfStream(r, buf) -> Stops(r)
      [] ~AtEndOfStream(r, buf) /\ n = -1 -> Gives(r, BadFormat, r.current)
      [] ~AtEndOfStream(r, buf) /\ n # -1 /\ bad # {} ->
           Gives(r, BadFormat, r.current + CHOOSE k \in bad : \A j \in bad : k <= j)
      [] OTHER -> Takes(r, FoldLeft(LAMBDA acc, c : acc * 64 + (c % 64),
                                    LeadBits(buf[r.current]), rest), n + 1)

\* Utf8Reader::read.  A sequence that does not fit in what remains ends the
\* stream; the first byte that is not a continuation makes it ill-formed.
Utf8Read(r, buf) ==
    LET n == Subsequent(buf[r.current])
        rest == SubSeq(buf, r.current + 1, r.current + n)
        bad == {k \in 1 .. n : ~IsContinuation(buf[r.current + k])} IN
    CASE AtEndOfStream(r, buf) -> Stops(r)
      [] ~AtEndOfStream(r, buf) /\ n = -1 -> Gives(r, BadFormat, r.current)
      [] ~AtEndOfStream(r, buf) /\ n # -1 /\ r.remaining > 0 /\ r.remaining < n + 1 ->
           Gives(r, EndOfStream, r.current)
      [] ~AtEndOfStream(r, buf) /\ n # -1 /\ ~(r.remaining > 0 /\ r.remaining < n + 1)
         /\ bad # {} ->
           Gives(r, BadFormat, r.current + CHOOSE k \in bad : \A j \in bad : k <= j)
      [] OTHER -> Takes(r, FoldLeft(LAMBDA acc, c : acc * 64 + (c % 64),
                                    LeadBits(buf[r.current]), rest), n + 1)

IsLead(u) == u >= 55296 /\ u <= 56319       \* 0xD800 .. 0xDBFF
IsTrail(u) == u >= 56320 /\ u <= 57343      \* 0xDC00 .. 0xDFFF

\* Ucs2Reader::read: a surrogate pair, or a unit that is not a surrogate.
Ucs2Read(r, buf) ==
    LET c == buf[r.current]
        t == buf[r.current + 1] IN
    CASE AtEndOfStream(r, buf) -> Stops(r)
      [] ~AtEndOfStream(r, buf) /\ IsLead(c) /\ r.remaining = 1 -> Gives(r, EndOfStream, r.current)
      [] ~AtEndOfStream(r, buf) /\ IsLead(c) /\ r.remaining # 1 /\ ~IsTrail(t) ->
           Gives(r, BadFormat, r.current + 1)
      [] ~AtEndOfStream(r, buf) /\ IsLead(c) /\ r.remaining # 1 /\ IsTrail(t) ->
           Takes(r, (c - 55296) * 1024 + (t - 56320) + 65536, 2)
      [] ~AtEndOfStream(r, buf) /\ IsTrail(c) -> Gives(r, BadFormat, r.current)
      [] OTHER -> Takes(r, c, 1)

\* Ucs4Reader::read.
Ucs4Read(r, buf) == IF AtEndOfStream(r, buf) THEN Stops(r) ELSE Takes(r, buf[r.current], 1)

Read(width, r, buf) ==
    CASE width = 1 -> Utf8Read(r, buf)
      [] width = 2 -> Ucs2Read(r, buf)
      [] width = 4 -> Ucs4Read(r, buf)

-----------------------------------------------------------------------------
\* A writer: Remaining and the units written.
Writer(cnt) == [remaining |-> cnt, out |-> <<>>]

\* Room for n units.
HasRoom(w, n) == w.remaining < 0 \/ w.remaining >= n
Puts(w, units) ==
    [remaining |-> IF w.remaining > 0 THEN w.remaining - Len(units) ELSE w.remaining,
     out |-> w.out \o units]

\* Bytes that follow the lead byte of a code point.
Utf8Tail(cp) ==
    CASE cp < 128 -> 0
      [] cp >= 128 /\ cp < 2048 -> 1
      [] cp >= 2048 /\ cp < 65536 -> 2
      [] cp >= 65536 /\ cp < 2097152 -> 3
      [] cp >= 2097152 /\ cp < 67108864 -> 4
      [] cp >= 67108864 -> 5

\* The mark of a lead byte with n bytes to follow.
LeadMark == <<0, 192, 224, 240, 248, 252>>

\* Utf8Writer::write: what is written.
Utf8Units(cp) ==
    LET n == Utf8Tail(cp) IN
    <<LeadMark[n + 1] + (cp \div 64^n)>> \o [i \in 1 .. n |-> 128 + ((cp \div 64^(n - i)) % 64)]

\* Ucs2Writer::write: nothing for what is beyond the last code point, which
\* counts as written.
Ucs2Units(cp) ==
    CASE cp < 65536 -> <<cp>>
      [] cp >= 65536 /\ cp <= 1114111 ->
           <<55296 + ((cp - 65536) \div 1024), 56320 + ((cp - 65536) % 1024)>>
      [] OTHER -> <<>>

Units(width, cp) ==
    CASE width = 1 -> Utf8Units(cp)
      [] width = 2 -> Ucs2Units(cp)
      [] width = 4 -> <<cp>>

\* A writer that is full refuses even a code point it would write nothing for.
MayWrite(w, width, cp) == w.remaining # 0 /\ HasRoom(w, Len(Units(width, cp)))

\* closure: the terminating null, if there is room.
Closed(w) == IF w.remaining # 0 THEN Append(w.out, 0) ELSE w.out

\* The loop of utfConvInner: it ends with the source, which the writer closes, or
\* with the destination.
RECURSIVE ConvLoop(_, _, _, _, _, _)
ConvLoop(sbuf, scw, dcw, reader, writer, cnt) ==
    LET r == Read(scw, reader, sbuf) IN
    CASE r.cp \in {EndOfStream, BadFormat} ->
           [ret |-> cnt, out |-> Closed(writer), seen |-> r.seen]
      [] r.cp \notin {EndOfStream, BadFormat} /\ ~MayWrite(writer, dcw, r.cp) ->
           [ret |-> cnt, out |-> writer.out, seen |-> r.seen]
      [] OTHER -> ConvLoop(sbuf, scw, dcw, r, Puts(writer, Units(dcw, r.cp)), cnt + 1)

utfConv(sbuf, scw, dcw, scnt, dcnt) ==
    ConvLoop(sbuf, scw, dcw, Reader(scnt), Writer(dcnt), 0)

\* to_utf8, to_ucs2, to_ucs4 and to_wchar: a buffer of eight units per unit of
\* the source and one, read up to its null if anything was converted.
toString(src, scw, dcw) ==
    LET c == utfConv(src, scw, dcw, Len(src), Len(src) * 8 + 1)
        nulls == {i \in DOMAIN c.out : c.out[i] = 0} IN
    IF src = <<>> \/ c.ret = 0 THEN <<>>
    ELSE SubSeq(c.out, 1, (CHOOSE i \in nulls : \A j \in nulls : i <= j) - 1)
=============================================================================
