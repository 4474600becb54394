------------------------------- MODULE Base64 -------------------------------
(***************************************************************************)
(* Base64::encode and decode (src/src/base64.cpp).  A byte is a number     *)
(* below 256.  A character of the encoded text is its place in chtab, Pad  *)
(* for '=' and Other for any character that is not of the alphabet.        *)
(***************************************************************************)
EXTENDS Integers, Sequences

Pad == 64
Other == 65

\* The place of a character, 0 for the padding, -1 for one that has none.
idxofch(ch) == IF ch = Pad THEN 0 ELSE IF ch = Other THEN -1 ELSE ch

EncodedLen(inputlen) == ((inputlen + 2) \div 3) * 4

\* No output buffer: the caller asks for the size.
Query == -1

\* The character `mod' of three, from the byte and the bits left by the one before.
Sextets(mod, ch, temp) ==
    CASE mod = 0 -> [out |-> <<ch \div 4>>, temp |-> (ch % 4) * 16]
      [] mod = 1 -> [out |-> <<ch \div 16 + temp>>, temp |-> (ch % 16) * 4]
      [] mod = 2 -> [out |-> <<ch \div 64 + temp, ch % 64>>, temp |-> temp]

\* Defect: the bits left over at the end of the input are not put out.
EncodeTurn_DropsTail(input, acc) ==
    LET mod == (acc.inidx % 3)
        s == Sextets(mod, input[acc.inidx + 1], acc.temp)
        atEnd == acc.inidx + 1 >= Len(input) /\ mod # 2 IN
    [inidx |-> acc.inidx + 1, temp |-> s.temp,
     out |-> acc.out \o s.out \o
             IF ~atEnd THEN <<>> ELSE IF mod = 0 THEN <<0, Pad, Pad>> ELSE <<0, Pad>>]

\* One turn of the loop: a byte, and the padding once the input is used up.
EncodeTurn(input, acc) ==
    LET mod == (acc.inidx % 3)
        s == Sextets(mod, input[acc.inidx + 1], acc.temp)
        atEnd == acc.inidx + 1 >= Len(input) /\ mod # 2 IN
    [inidx |-> acc.inidx + 1, temp |-> s.temp,
     out |-> acc.out \o s.out \o
             IF ~atEnd THEN <<>> ELSE IF mod = 0 THEN <<s.temp, Pad, Pad>> ELSE <<s.temp, Pad>>]

\* The loop of encode, until the text has its length: each turn puts out a character
\* at least, so there are no more turns than characters.
EncodeLoop(input) ==
    LET enclen == EncodedLen(Len(input))
        turn[n \in 0 .. enclen] ==
            IF n = 0 THEN [inidx |-> 0, temp |-> 0, out |-> <<>>]
            ELSE LET acc == turn[n - 1] IN
                 IF Len(acc.out) >= enclen THEN acc ELSE EncodeTurn(input, acc)
    IN  turn[enclen].out

\* A call returns a length or -1, sets *outputlen and fills the buffer.
Result(ret, outputlen, out) == [ret |-> ret, outputlen |-> outputlen, out |-> out]

\* `room' is *outputlen before the call, or Query.
encode(input, room) ==
    LET enclen == EncodedLen(Len(input)) IN
    CASE room = Query -> Result(enclen, enclen, <<>>)
      [] room # Query /\ room < enclen -> Result(-1, enclen, <<>>)
      [] OTHER -> Result(enclen, room, EncodeLoop(input))

\* Three bytes of four, less one for each '=' in the last two places.
DecodedLen(input) ==
    LET len == Len(input)
        padding == {i \in {len - 1, len} : i > 0 /\ input[i] = Pad} IN
    (len \div 4) * 3 - (IF len < 4 THEN 0 ELSE IF padding = {} THEN 0
                        ELSE IF \E i, j \in padding : i # j THEN 2 ELSE 1)

\* Four characters: the bytes they give, and whether the text ends or is corrupted.
Quartet(input, inidx) ==
    LET ch == [k \in 1 .. 4 |-> idxofch(input[inidx + k])]
        b1 == (ch[1] * 4) + (ch[2] \div 16)
        b2 == (ch[2] % 16) * 16 + (ch[3] \div 4)
        b3 == (ch[3] % 4) * 64 + ch[4] IN
    CASE \/ \E k \in 1 .. 4 : ch[k] = -1
         \/ input[inidx + 1] = Pad \/ input[inidx + 2] = Pad -> [bytes |-> <<>>, then |-> "corrupted"]
      [] OTHER ->
           IF input[inidx + 3] = Pad THEN [bytes |-> <<b1>>, then |-> "end"]
           ELSE IF input[inidx + 4] = Pad THEN [bytes |-> <<b1, b2>>, then |-> "end"]
           ELSE [bytes |-> <<b1, b2, b3>>, then |-> "on"]

\* The loop of decode, up to the end, the padding or a corrupted quartet: what was
\* written stays written when the text turns out to be corrupted.
DecodeLoop(input) ==
    LET quartets == Len(input) \div 4
        turn[n \in 0 .. quartets] ==
            IF n = 0 THEN [out |-> <<>>, then |-> "on"]
            ELSE LET acc == turn[n - 1]
                     q == Quartet(input, 4 * (n - 1)) IN
                 IF acc.then # "on" THEN acc ELSE [out |-> acc.out \o q.bytes, then |-> q.then]
    IN  turn[quartets]

decode(input, room) ==
    LET declen == DecodedLen(input) IN
    CASE (Len(input) % 4) # 0 -> Result(-1, room, <<>>)
      [] (Len(input) % 4) = 0 /\ room = Query -> Result(declen, declen, <<>>)
      [] (Len(input) % 4) = 0 /\ room # Query /\ room < declen -> Result(-1, declen, <<>>)
      [] OTHER -> LET end == DecodeLoop(input) IN
                  Result(IF end.then = "corrupted" THEN -1 ELSE Len(end.out), room, end.out)
=============================================================================
