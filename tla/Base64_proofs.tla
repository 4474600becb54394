---------------------------- MODULE Base64_proofs ----------------------------
(***************************************************************************)
(* Theorems about Base64, for every data and every text: encode writes what*)
(* RFC 4648 says, decode takes it back, and neither writes more than the   *)
(* buffer was said to hold.                                                *)
(***************************************************************************)
EXTENDS Base64, SequenceTheorems, NaturalsInduction, WellFoundedInduction, TLAPS

Byte == 0 .. 255
Character == 0 .. 65

\* What is missing of the last three bytes counts as zero.
ByteOf(data, i) == IF i <= Len(data) THEN data[i] ELSE 0

\* The four characters of the bytes behind the first 3 * t.
Char1(data, t) == ByteOf(data, 3 * t + 1) \div 4
Char2(data, t) == (ByteOf(data, 3 * t + 1) % 4) * 16 + ByteOf(data, 3 * t + 2) \div 16
Char3(data, t) == IF 3 * t + 2 > Len(data) THEN Pad
                  ELSE (ByteOf(data, 3 * t + 2) % 16) * 4 + ByteOf(data, 3 * t + 3) \div 64
Char4(data, t) == IF 3 * t + 3 > Len(data) THEN Pad ELSE ByteOf(data, 3 * t + 3) % 64

CharOf(data, j) ==
    LET t == (j - 1) \div 4 IN
    CASE (j - 1) % 4 = 0 -> Char1(data, t)
      [] (j - 1) % 4 = 1 -> Char2(data, t)
      [] (j - 1) % 4 = 2 -> Char3(data, t)
      [] (j - 1) % 4 = 3 -> Char4(data, t)

\* The text of the data, as RFC 4648 has it.
TextOf(data) == [j \in 1 .. EncodedLen(Len(data)) |-> CharOf(data, j)]

-----------------------------------------------------------------------------
(* Arithmetic *)

\* The places in a text and in the data, by threes and fours.
LEMMA CharAt ==
    ASSUME NEW data, NEW t \in Nat
    PROVE  /\ CharOf(data, 4 * t + 1) = Char1(data, t)
           /\ CharOf(data, 4 * t + 2) = Char2(data, t)
           /\ CharOf(data, 4 * t + 3) = Char3(data, t)
           /\ CharOf(data, 4 * t + 4) = Char4(data, t)
<1>1. /\ (4 * t + 1 - 1) \div 4 = t /\ (4 * t + 1 - 1) % 4 = 0
      /\ (4 * t + 2 - 1) \div 4 = t /\ (4 * t + 2 - 1) % 4 = 1
      /\ (4 * t + 3 - 1) \div 4 = t /\ (4 * t + 3 - 1) % 4 = 2
      /\ (4 * t + 4 - 1) \div 4 = t /\ (4 * t + 4 - 1) % 4 = 3
    OBVIOUS
<1> QED
    BY <1>1 DEF CharOf

\* Every number is three times another and a rest.
LEMMA ByThrees ==
    ASSUME NEW n \in Nat
    PROVE  \E t \in Nat : \/ n = 3 * t /\ n % 3 = 0
                          \/ n = 3 * t + 1 /\ n % 3 = 1
                          \/ n = 3 * t + 2 /\ n % 3 = 2
<1>1. n \div 3 \in Nat
    OBVIOUS
<1> QED
    BY <1>1

LEMMA EncodedLenIs ==
    ASSUME NEW t \in Nat
    PROVE  /\ EncodedLen(3 * t) = 4 * t
           /\ EncodedLen(3 * t + 1) = 4 * t + 4
           /\ EncodedLen(3 * t + 2) = 4 * t + 4
BY DEF EncodedLen

\* What six bits and two make of a byte, and so on.
LEMMA Shifts ==
    ASSUME NEW a \in Byte, NEW b \in Byte, NEW c \in Byte
    PROVE  /\ a \div 4 \in 0 .. 63
           /\ (a % 4) * 16 \in 0 .. 63 /\ (a % 4) * 16 + b \div 16 \in 0 .. 63
           /\ (b % 16) * 4 \in 0 .. 63 /\ (b % 16) * 4 + c \div 64 \in 0 .. 63
           /\ c % 64 \in 0 .. 63
BY DEF Byte

LEMMA ShiftsBack ==
    ASSUME NEW a \in Byte, NEW b \in Byte, NEW c \in Byte
    PROVE  /\ (a \div 4) * 4 + ((a % 4) * 16 + b \div 16) \div 16 = a
           /\ (((a % 4) * 16 + b \div 16) % 16) * 16 + ((b % 16) * 4 + c \div 64) \div 4 = b
           /\ (((b % 16) * 4 + c \div 64) % 4) * 64 + (c % 64) = c
<1>1. /\ ((a % 4) * 16 + b \div 16) \div 16 = a % 4
      /\ ((a % 4) * 16 + b \div 16) % 16 = b \div 16
    BY DEF Byte
<1>2. /\ ((b % 16) * 4 + c \div 64) \div 4 = b % 16
      /\ ((b % 16) * 4 + c \div 64) % 4 = c \div 64
    BY DEF Byte
<1>3. /\ (a \div 4) * 4 + (a % 4) = a /\ (b \div 16) * 16 + (b % 16) = b /\ (c \div 64) * 64 + (c % 64) = c
    BY DEF Byte
<1> QED
    BY <1>1, <1>2, <1>3
-----------------------------------------------------------------------------
(* The loops, as functions of the turn *)

\* f is what the loop of encode has after each turn up to the last.
Start == [inidx |-> 0, temp |-> 0, out |-> <<>>]
EncodeStep(input, acc) ==
    IF Len(acc.out) >= EncodedLen(Len(input)) THEN acc ELSE EncodeTurn(input, acc)
Encodes(input, f, last) ==
    f = [n \in 0 .. last |-> IF n = 0 THEN Start ELSE EncodeStep(input, f[n - 1])]

\* The same of decode.
Begin == [out |-> <<>>, then |-> "on"]
DecodeStep(input, acc, n) ==
    LET q == Quartet(input, 4 * (n - 1)) IN
    IF acc.then # "on" THEN acc ELSE [out |-> acc.out \o q.bytes, then |-> q.then]
Decodes(input, f, last) ==
    f = [n \in 0 .. last |-> IF n = 0 THEN Begin ELSE DecodeStep(input, f[n - 1], n)]

\* A set of numbers has a least element.
LEMMA Least ==
    ASSUME NEW B, B \subseteq Nat, B # {}
    PROVE  \E n \in B : \A m \in B : n <= m
<1>1. IsWellFoundedOn(OpToRel(<, Nat), Nat)
    BY NatLessThanWellFounded
<1>2. PICK n \in B : \A m \in B : ~(<<m, n>> \in OpToRel(<, Nat))
    BY <1>1, WFMin
<1>3. \A m \in B : ~(m < n)
    BY <1>2 DEF OpToRel
<1>4. \A m \in B : n \in Nat /\ m \in Nat
    OBVIOUS
<1> QED
    BY <1>3, <1>4

LEMMA EncodeExists ==
    ASSUME NEW input, NEW last \in Nat
    PROVE  \E f : Encodes(input, f, last)
<1> DEFINE B == {n \in Nat : ~\E f : Encodes(input, f, n)}
<1>1. SUFFICES ASSUME B # {} PROVE FALSE
    OBVIOUS
<1>2. PICK n \in B : \A m \in B : n <= m
    BY <1>1, Least
<1>3. CASE n = 0
  <2> DEFINE f == [k \in 0 .. 0 |-> Start]
  <2>1. f = [k \in 0 .. 0 |-> IF k = 0 THEN Start ELSE EncodeStep(input, f[k - 1])]
      OBVIOUS
  <2> QED
      BY <1>2, <1>3, <2>1 DEF Encodes
<1>4. CASE n # 0
  <2>1. n - 1 \in Nat /\ n - 1 \notin B
      BY <1>2, <1>4
  <2>2. PICK f : Encodes(input, f, n - 1)
      BY <2>1
  <2> DEFINE g == [k \in 0 .. n |-> IF k = 0 THEN Start ELSE EncodeStep(input, f[k - 1])]
  <2>3. ASSUME NEW k \in 0 .. n, k # 0
        PROVE  g[k - 1] = f[k - 1]
    <3>1. k - 1 \in 0 .. n - 1 /\ k - 1 \in 0 .. n
        BY <1>2, <2>3
    <3>2. f[k - 1] = IF k - 1 = 0 THEN Start ELSE EncodeStep(input, f[k - 1 - 1])
        BY <2>2, <3>1 DEF Encodes
    <3> QED
        BY <3>1, <3>2
  <2>4. Encodes(input, g, n)
      BY <2>3 DEF Encodes
  <2> QED
      BY <1>2, <2>4
<1> QED
    BY <1>3, <1>4

LEMMA EncodeLoopIs ==
    ASSUME NEW input
    PROVE  EncodeLoop(input)
             = (CHOOSE f : Encodes(input, f, EncodedLen(Len(input))))[EncodedLen(Len(input))].out
BY DEF EncodeLoop, Encodes, EncodeStep, Start

LEMMA DecodeExists ==
    ASSUME NEW input, NEW last \in Nat
    PROVE  \E f : Decodes(input, f, last)
<1> DEFINE B == {n \in Nat : ~\E f : Decodes(input, f, n)}
<1>1. SUFFICES ASSUME B # {} PROVE FALSE
    OBVIOUS
<1>2. PICK n \in B : \A m \in B : n <= m
    BY <1>1, Least
<1>3. CASE n = 0
  <2> DEFINE f == [k \in 0 .. 0 |-> Begin]
  <2>1. f = [k \in 0 .. 0 |-> IF k = 0 THEN Begin ELSE DecodeStep(input, f[k - 1], k)]
      OBVIOUS
  <2> QED
      BY <1>2, <1>3, <2>1 DEF Decodes
<1>4. CASE n # 0
  <2>1. n - 1 \in Nat /\ n - 1 \notin B
      BY <1>2, <1>4
  <2>2. PICK f : Decodes(input, f, n - 1)
      BY <2>1
  <2> DEFINE g == [k \in 0 .. n |-> IF k = 0 THEN Begin ELSE DecodeStep(input, f[k - 1], k)]
  <2>3. ASSUME NEW k \in 0 .. n, k # 0
        PROVE  g[k - 1] = f[k - 1]
    <3>1. k - 1 \in 0 .. n - 1 /\ k - 1 \in 0 .. n
        BY <1>2, <2>3
    <3>2. f[k - 1] = IF k - 1 = 0 THEN Begin ELSE DecodeStep(input, f[k - 1 - 1], k - 1)
        BY <2>2, <3>1 DEF Decodes
    <3> QED
        BY <3>1, <3>2
  <2>4. Decodes(input, g, n)
      BY <2>3 DEF Decodes
  <2> QED
      BY <1>2, <2>4
<1> QED
    BY <1>3, <1>4

LEMMA DecodeLoopIs ==
    ASSUME NEW input
    PROVE  DecodeLoop(input)
             = (CHOOSE f : Decodes(input, f, Len(input) \div 4))[Len(input) \div 4]
BY DEF DecodeLoop, Decodes, DecodeStep, Begin

-----------------------------------------------------------------------------
(* encode *)

\* How many characters n bytes have given, with the padding behind the last.
Written(data, n) == IF n < Len(data) THEN n + (n \div 3) ELSE EncodedLen(Len(data))

\* The bits left over by n bytes.
Rest(data, n) ==
    CASE n % 3 = 1 -> (data[n] % 4) * 16
      [] n % 3 = 2 -> (data[n] % 16) * 4

\* These are the first characters of the text.
Begins(data, out) ==
    /\ out \in Seq(0 .. 64)
    /\ \A j \in 1 .. Len(out) : out[j] = CharOf(data, j)

\* What the loop has after n bytes.
After(data, acc, n) ==
    /\ acc.inidx = n
    /\ n < Len(data) /\ n % 3 # 0 => acc.temp = Rest(data, n)
    /\ Begins(data, acc.out)
    /\ Len(acc.out) = Written(data, n)

LEMMA BeginsMore ==
    ASSUME NEW data, NEW out, NEW new \in Seq(0 .. 64), Begins(data, out),
           \A k \in 1 .. Len(new) : new[k] = CharOf(data, Len(out) + k)
    PROVE  Begins(data, out \o new) /\ Len(out \o new) = Len(out) + Len(new)
<1>1. /\ out \o new \in Seq(0 .. 64)
      /\ Len(out \o new) = Len(out) + Len(new)
      /\ Len(out) \in Nat /\ Len(new) \in Nat
    BY DEF Begins
<1>2. ASSUME NEW j \in 1 .. Len(out) + Len(new)
      PROVE  (out \o new)[j] = CharOf(data, j)
  <2>1. CASE j <= Len(out)
      BY <1>1, <2>1 DEF Begins
  <2>2. CASE j > Len(out)
    <3>1. (out \o new)[j] = new[j - Len(out)] /\ j - Len(out) \in 1 .. Len(new)
        BY <1>1, <2>2 DEF Begins
    <3>2. new[j - Len(out)] = CharOf(data, Len(out) + (j - Len(out)))
        BY <3>1
    <3> QED
        BY <1>1, <3>1, <3>2
  <2> QED
      BY <1>1, <2>1, <2>2
<1> QED
    BY <1>1, <1>2 DEF Begins

\* A turn: the characters of the byte, and the padding if it was the last.
Six(data, acc) == Sextets(acc.inidx % 3, data[acc.inidx + 1], acc.temp)

LEMMA TurnIs ==
    ASSUME NEW data, NEW acc
    PROVE  /\ EncodeTurn(data, acc).inidx = acc.inidx + 1
           /\ EncodeTurn(data, acc).temp = Six(data, acc).temp
           /\ ~(acc.inidx + 1 >= Len(data) /\ acc.inidx % 3 # 2)
                => EncodeTurn(data, acc).out = (acc.out \o Six(data, acc).out) \o <<>>
           /\ acc.inidx + 1 >= Len(data) /\ acc.inidx % 3 = 0
                => EncodeTurn(data, acc).out = (acc.out \o Six(data, acc).out)
                                               \o <<Six(data, acc).temp, Pad, Pad>>
           /\ acc.inidx + 1 >= Len(data) /\ acc.inidx % 3 = 1
                => EncodeTurn(data, acc).out = (acc.out \o Six(data, acc).out)
                                               \o <<Six(data, acc).temp, Pad>>
<1>1. PICK s : s = Six(data, acc)
    OBVIOUS
<1>2. PICK tail : tail = IF ~(acc.inidx + 1 >= Len(data) /\ acc.inidx % 3 # 2) THEN <<>>
                         ELSE IF acc.inidx % 3 = 0 THEN <<s.temp, Pad, Pad>> ELSE <<s.temp, Pad>>
    OBVIOUS
<1>3. PICK out, next : out = (acc.out \o s.out) \o tail /\ next = acc.inidx + 1
    OBVIOUS
<1>4. /\ EncodeTurn(data, acc).inidx = next
      /\ EncodeTurn(data, acc).temp = s.temp
      /\ EncodeTurn(data, acc).out = out
  <2>1. EncodeTurn(data, acc) = [inidx |-> next, temp |-> s.temp, out |-> out]
      BY <1>1, <1>2, <1>3, Zenon DEF EncodeTurn, Six
  <2> QED
      BY <2>1
<1>5. 0 # 2 /\ 1 # 2 /\ 1 # 0
    OBVIOUS
<1>6. /\ ~(acc.inidx + 1 >= Len(data) /\ acc.inidx % 3 # 2) => tail = <<>>
      /\ acc.inidx + 1 >= Len(data) /\ acc.inidx % 3 = 0 => tail = <<s.temp, Pad, Pad>>
      /\ acc.inidx + 1 >= Len(data) /\ acc.inidx % 3 = 1 => tail = <<s.temp, Pad>>
    BY <1>2, <1>5, Zenon
<1> QED
    BY <1>1, <1>3, <1>4, <1>6, Zenon

\* One character more.
LEMMA BeginsOne ==
    ASSUME NEW data, NEW out, NEW x \in 0 .. 64, Begins(data, out),
           x = CharOf(data, Len(out) + 1)
    PROVE  Begins(data, out \o <<x>>) /\ Len(out \o <<x>>) = Len(out) + 1
<1>1. <<x>> \in Seq(0 .. 64) /\ Len(<<x>>) = 1
    OBVIOUS
<1>2. \A k \in 1 .. Len(<<x>>) : <<x>>[k] = CharOf(data, Len(out) + k)
    BY <1>1
<1> QED
    BY <1>1, <1>2, BeginsMore

\* The first of three bytes.
LEMMA TurnFirst ==
    ASSUME NEW data \in Seq(Byte), NEW acc, NEW t \in Nat, 3 * t < Len(data),
           After(data, acc, 3 * t)
    PROVE  After(data, EncodeTurn(data, acc), 3 * t + 1)
<1>1. /\ Len(data) \in Nat /\ (3 * t) % 3 = 0 /\ (3 * t) \div 3 = t
      /\ (3 * t + 1) % 3 = 1 /\ (3 * t + 1) \div 3 = t
    OBVIOUS
<1>2. /\ acc.inidx = 3 * t /\ Len(acc.out) = 4 * t /\ Begins(data, acc.out)
    BY <1>1 DEF After, Written
<1>3. PICK a : a = data[3 * t + 1]
    OBVIOUS
<1>4. a \in Byte /\ ByteOf(data, 3 * t + 1) = a
    BY <1>1, <1>3 DEF ByteOf
<1>5. a \div 4 \in 0 .. 63 /\ (a % 4) * 16 \in 0 .. 63
    BY <1>4, Shifts
<1>6. PICK x \in 0 .. 64 : x = a \div 4
    BY <1>5
<1>7. PICK y \in 0 .. 64 : y = (a % 4) * 16
    BY <1>5
<1>8. Six(data, acc).out = <<x>> /\ Six(data, acc).temp = y
  <2>1. Sextets(0, a, acc.temp) = [out |-> <<a \div 4>>, temp |-> (a % 4) * 16]
      BY DEF Sextets
  <2>2. Six(data, acc) = Sextets(0, a, acc.temp)
      BY <1>1, <1>2, <1>3 DEF Six
  <2> QED
      BY <1>6, <1>7, <2>1, <2>2
<1>9. Rest(data, 3 * t + 1) = y
    BY <1>1, <1>3, <1>7 DEF Rest
<1>10. Begins(data, acc.out \o <<x>>) /\ Len(acc.out \o <<x>>) = 4 * t + 1
  <2>1. CharOf(data, 4 * t + 1) = x
      BY <1>4, <1>6, CharAt DEF Char1
  <2> QED
      BY <1>2, <2>1, BeginsOne
<1> DEFINE b == EncodeTurn(data, acc)
<1>11. CASE 3 * t + 1 < Len(data)
  <2>1. b.inidx = 3 * t + 1 /\ b.temp = y /\ b.out = acc.out \o <<x>>
    <3>1. (acc.out \o <<x>>) \o <<>> = acc.out \o <<x>>
        BY <1>10 DEF Begins
    <3>2. ~(acc.inidx + 1 >= Len(data) /\ acc.inidx % 3 # 2)
        BY <1>1, <1>2, <1>11
    <3> QED
        BY <1>2, <1>8, <3>1, <3>2, TurnIs
  <2>2. Written(data, 3 * t + 1) = 4 * t + 1
      BY <1>1, <1>11 DEF Written
  <2> HIDE DEF b
  <2>3. After(data, b, 3 * t + 1)
      BY <1>9, <1>10, <2>1, <2>2 DEF After
  <2> QED
      BY <2>3 DEF b
<1>12. CASE 3 * t + 1 >= Len(data)
  <2>1. Len(data) = 3 * t + 1
      BY <1>1, <1>12
  <2>2. b.inidx = 3 * t + 1 /\ b.out = (acc.out \o <<x>>) \o <<y, Pad, Pad>>
    <3>1. acc.inidx + 1 >= Len(data) /\ acc.inidx % 3 = 0
        BY <1>1, <1>2, <1>12
    <3> QED
        BY <1>2, <1>8, <3>1, TurnIs
  <2>4. CharOf(data, 4 * t + 2) = y
    <3>1. ByteOf(data, 3 * t + 2) = 0 /\ 0 \div 16 = 0
        BY <2>1 DEF ByteOf
    <3>2. CharOf(data, 4 * t + 2) = Char2(data, t)
        BY CharAt
    <3> QED
        BY <1>4, <1>7, <3>1, <3>2 DEF Char2
  <2>5. CharOf(data, 4 * t + 3) = Pad /\ CharOf(data, 4 * t + 4) = Pad
    <3>1. CharOf(data, 4 * t + 3) = Char3(data, t) /\ CharOf(data, 4 * t + 4) = Char4(data, t)
        BY CharAt
    <3> QED
        BY <2>1, <3>1 DEF Char3, Char4
  <2>6. /\ Begins(data, (acc.out \o <<x>>) \o <<y, Pad, Pad>>)
        /\ Len((acc.out \o <<x>>) \o <<y, Pad, Pad>>) = 4 * t + 4
    <3> DEFINE new == <<y, Pad, Pad>>
    <3>1. new \in Seq(0 .. 64) /\ Len(new) = 3
        BY DEF Pad
    <3>2. new[1] = y /\ new[2] = Pad /\ new[3] = Pad
        OBVIOUS
    <3> HIDE DEF new
    <3>3. \A k \in 1 .. 3 : new[k] = CharOf(data, 4 * t + 1 + k)
        BY <2>4, <2>5, <3>2
    <3>4. \A k \in 1 .. Len(new) : new[k] = CharOf(data, Len(acc.out \o <<x>>) + k)
        BY <1>10, <3>1, <3>3
    <3>5. PICK out : out = acc.out \o <<x>>
        OBVIOUS
    <3>6. Begins(data, out) /\ \A k \in 1 .. Len(new) : new[k] = CharOf(data, Len(out) + k)
        BY <1>10, <3>4, <3>5
    <3>7. Begins(data, out \o new) /\ Len(out \o new) = Len(out) + Len(new)
        BY <3>1, <3>6, BeginsMore
    <3>8. Len(out) = 4 * t + 1
        BY <1>10, <3>5
    <3> QED
        BY <3>1, <3>5, <3>7, <3>8 DEF new
  <2>7. Written(data, 3 * t + 1) = 4 * t + 4
      BY <2>1, EncodedLenIs DEF Written
  <2>8. Len(data) \in Nat /\ ~(3 * t + 1 < Len(data))
      BY <2>1
  <2> HIDE DEF b
  <2>9. After(data, b, 3 * t + 1)
      BY <2>2, <2>6, <2>7, <2>8 DEF After
  <2> QED
      BY <2>9 DEF b
<1> QED
    BY <1>1, <1>11, <1>12

\* The second.
LEMMA TurnSecond ==
    ASSUME NEW data \in Seq(Byte), NEW acc, NEW t \in Nat, 3 * t + 1 < Len(data),
           After(data, acc, 3 * t + 1)
    PROVE  After(data, EncodeTurn(data, acc), 3 * t + 2)
<1>1. /\ Len(data) \in Nat /\ (3 * t + 1) % 3 = 1 /\ (3 * t + 1) \div 3 = t
      /\ (3 * t + 2) % 3 = 2 /\ (3 * t + 2) \div 3 = t
    OBVIOUS
<1>2. /\ acc.inidx = 3 * t + 1 /\ Len(acc.out) = 4 * t + 1 /\ Begins(data, acc.out)
      /\ acc.temp = Rest(data, 3 * t + 1) /\ acc.inidx + 1 = 3 * t + 2
    BY <1>1 DEF After, Written
<1>3. PICK a, b : a = data[3 * t + 1] /\ b = data[3 * t + 2]
    OBVIOUS
<1>4. /\ a \in Byte /\ ByteOf(data, 3 * t + 1) = a
      /\ b \in Byte /\ ByteOf(data, 3 * t + 2) = b
    BY <1>1, <1>3 DEF ByteOf
<1>5. (a % 4) * 16 + b \div 16 \in 0 .. 63 /\ (b % 16) * 4 \in 0 .. 63
    BY <1>4, Shifts
<1>6. PICK x \in 0 .. 64 : x = (a % 4) * 16 + b \div 16
    BY <1>5
<1>7. PICK y \in 0 .. 64 : y = (b % 16) * 4
    BY <1>5
<1>8. Six(data, acc).out = <<x>> /\ Six(data, acc).temp = y
  <2>1. Sextets(1, b, acc.temp) = [out |-> <<b \div 16 + acc.temp>>, temp |-> (b % 16) * 4]
      BY DEF Sextets
  <2>2. Six(data, acc) = Sextets(1, b, acc.temp)
      BY <1>1, <1>2, <1>3 DEF Six
  <2>3. acc.temp = (a % 4) * 16
      BY <1>1, <1>2, <1>3 DEF Rest
  <2>4. b \div 16 + acc.temp = x
      BY <1>4, <1>6, <2>3 DEF Byte
  <2> QED
      BY <1>7, <2>1, <2>2, <2>4
<1>9. Rest(data, 3 * t + 2) = y
    BY <1>1, <1>3, <1>7 DEF Rest
<1>10. Begins(data, acc.out \o <<x>>) /\ Len(acc.out \o <<x>>) = 4 * t + 2
  <2>1. CharOf(data, 4 * t + 2) = x
    <3>1. CharOf(data, 4 * t + 2) = Char2(data, t)
        BY CharAt
    <3> QED
        BY <1>4, <1>6, <3>1 DEF Char2
  <2>2. x = CharOf(data, Len(acc.out) + 1) /\ Len(acc.out) + 1 = 4 * t + 2
      BY <1>2, <2>1
  <2>3. Begins(data, acc.out \o <<x>>) /\ Len(acc.out \o <<x>>) = Len(acc.out) + 1
      BY <1>2, <2>2, BeginsOne
  <2> QED
      BY <2>2, <2>3
<1> DEFINE turned == EncodeTurn(data, acc)
<1>11. CASE 3 * t + 2 < Len(data)
  <2>1. turned.inidx = 3 * t + 2 /\ turned.temp = y /\ turned.out = acc.out \o <<x>>
    <3>1. (acc.out \o <<x>>) \o <<>> = acc.out \o <<x>>
        BY <1>10 DEF Begins
    <3>2. ~(acc.inidx + 1 >= Len(data) /\ acc.inidx % 3 # 2)
        BY <1>1, <1>2, <1>11
    <3> QED
        BY <1>2, <1>8, <3>1, <3>2, TurnIs, Zenon
  <2>2. Written(data, 3 * t + 2) = 4 * t + 2
      BY <1>1, <1>11 DEF Written
  <2> HIDE DEF turned
  <2>3. After(data, turned, 3 * t + 2)
      BY <1>9, <1>10, <2>1, <2>2 DEF After
  <2> QED
      BY <2>3 DEF turned
<1>12. CASE 3 * t + 2 >= Len(data)
  <2>1. Len(data) = 3 * t + 2
      BY <1>1, <1>12
  <2>2. turned.inidx = 3 * t + 2 /\ turned.out = (acc.out \o <<x>>) \o <<y, Pad>>
    <3>1. acc.inidx + 1 >= Len(data) /\ acc.inidx % 3 = 1
        BY <1>1, <1>2, <1>12
    <3> QED
        BY <1>2, <1>8, <3>1, TurnIs, Zenon
  <2>3. CharOf(data, 4 * t + 3) = y /\ CharOf(data, 4 * t + 4) = Pad
    <3>1. ByteOf(data, 3 * t + 3) = 0 /\ 0 \div 64 = 0
        BY <2>1 DEF ByteOf
    <3>2. CharOf(data, 4 * t + 3) = Char3(data, t) /\ CharOf(data, 4 * t + 4) = Char4(data, t)
        BY CharAt
    <3> QED
        BY <1>4, <1>7, <2>1, <3>1, <3>2 DEF Char3, Char4
  <2>4. /\ Begins(data, (acc.out \o <<x>>) \o <<y, Pad>>)
        /\ Len((acc.out \o <<x>>) \o <<y, Pad>>) = 4 * t + 4
    <3> DEFINE new == <<y, Pad>>
    <3>1. new \in Seq(0 .. 64) /\ Len(new) = 2 /\ new[1] = y /\ new[2] = Pad
        BY DEF Pad
    <3> HIDE DEF new
    <3>2. PICK out : out = acc.out \o <<x>>
        OBVIOUS
    <3>3. Begins(data, out) /\ Len(out) = 4 * t + 2
        BY <1>10, <3>2
    <3>4. \A k \in 1 .. 2 : new[k] = CharOf(data, 4 * t + 2 + k)
        BY <2>3, <3>1
    <3>5. Begins(data, out \o new) /\ Len(out \o new) = Len(out) + Len(new)
        BY <3>1, <3>3, <3>4, BeginsMore
    <3> QED
        BY <3>1, <3>2, <3>3, <3>5 DEF new
  <2>5. Written(data, 3 * t + 2) = 4 * t + 4
      BY <2>1, EncodedLenIs DEF Written
  <2>6. Len(data) \in Nat /\ ~(3 * t + 2 < Len(data))
      BY <2>1
  <2> HIDE DEF turned
  <2>7. After(data, turned, 3 * t + 2)
      BY <2>2, <2>4, <2>5, <2>6 DEF After
  <2> QED
      BY <2>7 DEF turned
<1> QED
    BY <1>1, <1>11, <1>12

\* The third.
LEMMA TurnThird ==
    ASSUME NEW data \in Seq(Byte), NEW acc, NEW t \in Nat, 3 * t + 2 < Len(data),
           After(data, acc, 3 * t + 2)
    PROVE  After(data, EncodeTurn(data, acc), 3 * t + 3)
<1>1. /\ Len(data) \in Nat /\ (3 * t + 2) % 3 = 2 /\ (3 * t + 2) \div 3 = t
      /\ (3 * t + 3) % 3 = 0 /\ (3 * t + 3) \div 3 = t + 1
    OBVIOUS
<1>2. /\ acc.inidx = 3 * t + 2 /\ Len(acc.out) = 4 * t + 2 /\ Begins(data, acc.out)
      /\ acc.temp = Rest(data, 3 * t + 2) /\ acc.inidx + 1 = 3 * t + 3
    BY <1>1 DEF After, Written
<1>3. PICK b, c : b = data[3 * t + 2] /\ c = data[3 * t + 3]
    OBVIOUS
<1>4. /\ b \in Byte /\ ByteOf(data, 3 * t + 2) = b
      /\ c \in Byte /\ ByteOf(data, 3 * t + 3) = c
    BY <1>1, <1>3 DEF ByteOf
<1>5. (b % 16) * 4 + c \div 64 \in 0 .. 63 /\ c % 64 \in 0 .. 63
    BY <1>4, Shifts
<1>6. PICK x \in 0 .. 64 : x = (b % 16) * 4 + c \div 64
    BY <1>5
<1>7. PICK y \in 0 .. 64 : y = c % 64
    BY <1>5
<1>8. Six(data, acc).out = <<x, y>>
  <2>1. Sextets(2, c, acc.temp) = [out |-> <<c \div 64 + acc.temp, c % 64>>, temp |-> acc.temp]
      BY DEF Sextets
  <2>2. Six(data, acc) = Sextets(2, c, acc.temp)
      BY <1>1, <1>2, <1>3 DEF Six
  <2>3. acc.temp = (b % 16) * 4
      BY <1>1, <1>2, <1>3 DEF Rest
  <2>4. c \div 64 + acc.temp = x
      BY <1>4, <1>6, <2>3 DEF Byte
  <2> QED
      BY <1>7, <2>1, <2>2, <2>4
<1>9. CharOf(data, 4 * t + 3) = x /\ CharOf(data, 4 * t + 4) = y
  <2>1. CharOf(data, 4 * t + 3) = Char3(data, t) /\ CharOf(data, 4 * t + 4) = Char4(data, t)
      BY CharAt
  <2>2. ~(3 * t + 2 > Len(data)) /\ ~(3 * t + 3 > Len(data))
      BY <1>1
  <2> QED
      BY <1>4, <1>6, <1>7, <2>1, <2>2 DEF Char3, Char4
<1>10. Begins(data, acc.out \o <<x, y>>) /\ Len(acc.out \o <<x, y>>) = 4 * t + 4
  <2> DEFINE new == <<x, y>>
  <2>1. new \in Seq(0 .. 64) /\ Len(new) = 2 /\ new[1] = x /\ new[2] = y
      OBVIOUS
  <2> HIDE DEF new
  <2>2. \A k \in 1 .. 2 : new[k] = CharOf(data, 4 * t + 2 + k)
      BY <1>9, <2>1
  <2>3. \A k \in 1 .. Len(new) : new[k] = CharOf(data, Len(acc.out) + k)
      BY <1>2, <2>1, <2>2
  <2>4. Begins(data, acc.out \o new) /\ Len(acc.out \o new) = Len(acc.out) + Len(new)
      BY <1>2, <2>1, <2>3, BeginsMore
  <2> QED
      BY <1>2, <2>1, <2>4 DEF new
<1> DEFINE turned == EncodeTurn(data, acc)
<1>11. turned.inidx = 3 * t + 3 /\ turned.out = acc.out \o <<x, y>>
  <2>1. (acc.out \o <<x, y>>) \o <<>> = acc.out \o <<x, y>>
      BY <1>10 DEF Begins
  <2>2. ~(acc.inidx + 1 >= Len(data) /\ acc.inidx % 3 # 2)
      BY <1>1, <1>2
  <2> QED
      BY <1>2, <1>8, <2>1, <2>2, TurnIs, Zenon
<1>12. Written(data, 3 * t + 3) = 4 * t + 4
  <2>1. CASE 3 * t + 3 < Len(data)
      BY <1>1, <2>1 DEF Written
  <2>2. CASE 3 * t + 3 = Len(data)
    <3>1. PICK u \in Nat : u = t + 1
        OBVIOUS
    <3>2. EncodedLen(3 * u) = 4 * u
        BY EncodedLenIs
    <3> QED
        BY <2>2, <3>1, <3>2 DEF Written
  <2> QED
      BY <1>1, <2>1, <2>2
<1> HIDE DEF turned
<1>13. After(data, turned, 3 * t + 3)
    BY <1>1, <1>10, <1>11, <1>12 DEF After
<1> QED
    BY <1>13 DEF turned

\* Any turn: the guard of the loop lets n bytes be followed by one more.
LEMMA StepOn ==
    ASSUME NEW data \in Seq(Byte), NEW acc, NEW n \in Nat, n < Len(data), After(data, acc, n)
    PROVE  After(data, EncodeStep(data, acc), n + 1)
<1>1. PICK t \in Nat : n = 3 * t \/ n = 3 * t + 1 \/ n = 3 * t + 2
    BY ByThrees
<1>2. After(data, EncodeTurn(data, acc), n + 1)
  <2>1. CASE n = 3 * t
      BY <2>1, TurnFirst
  <2>2. CASE n = 3 * t + 1
    <3>1. n + 1 = 3 * t + 2
        BY <2>2
    <3> QED
        BY <2>2, <3>1, TurnSecond
  <2>3. CASE n = 3 * t + 2
    <3>1. n + 1 = 3 * t + 3
        BY <2>3
    <3> QED
        BY <2>3, <3>1, TurnThird
  <2> QED
      BY <1>1, <2>1, <2>2, <2>3
<1>3. Len(acc.out) < EncodedLen(Len(data)) /\ Len(acc.out) \in Nat /\ EncodedLen(Len(data)) \in Nat
  <2>1. Len(data) \in Nat /\ Len(acc.out) = n + (n \div 3)
      BY DEF After, Written
  <2> QED
      BY <2>1 DEF EncodedLen
<1> QED
    BY <1>2, <1>3 DEF EncodeStep

\* What encode writes is the text of the data.
LEMMA EncodeLoopText ==
    ASSUME NEW data \in Seq(Byte)
    PROVE  /\ EncodeLoop(data) = TextOf(data)
           /\ EncodeLoop(data) \in Seq(0 .. 64)
           /\ Len(EncodeLoop(data)) = EncodedLen(Len(data))
<1> DEFINE L == Len(data)
           E == EncodedLen(L)
           upto(n) == IF n < L THEN n ELSE L
<1>1. L \in Nat /\ E \in Nat /\ E >= L
    BY DEF EncodedLen
<1>2. PICK f : f = CHOOSE g : Encodes(data, g, E)
    OBVIOUS
<1>3. Encodes(data, f, E)
    BY <1>1, <1>2, EncodeExists
<1> HIDE DEF E
<1> DEFINE B == {n \in 0 .. E : ~After(data, f[n], upto(n))}
<1>4. B = {}
  <2>1. SUFFICES ASSUME B # {} PROVE FALSE
      OBVIOUS
  <2>2. B \subseteq Nat
      BY <1>1
  <2>3. PICK n \in B : \A m \in B : n <= m
      BY <2>1, <2>2, Least
  <2>4. CASE n = 0
    <3>1. f[0] = Start
        BY <1>1, <1>3 DEF Encodes
    <3>2. After(data, Start, 0)
      <4>1. Start.inidx = 0 /\ Start.out = <<>> /\ 0 % 3 = 0 /\ 0 \div 3 = 0
          BY DEF Start
      <4>2. Written(data, 0) = 0
          BY <1>1, <4>1 DEF Written, EncodedLen
      <4>3. Begins(data, <<>>) /\ Len(<<>>) = 0
          BY DEF Begins
      <4> QED
          BY <4>1, <4>2, <4>3 DEF After
    <3> QED
        BY <1>1, <2>3, <2>4, <3>1, <3>2
  <2>5. CASE n # 0
    <3>1. n - 1 \in 0 .. E /\ n - 1 \notin B /\ n \in Nat
        BY <1>1, <2>3, <2>5
    <3>2. After(data, f[n - 1], upto(n - 1))
        BY <3>1
    <3>3. f[n] = EncodeStep(data, f[n - 1])
        BY <1>1, <1>3, <2>3, <2>5 DEF Encodes
    <3>4. CASE n - 1 < L
      <4>1. upto(n - 1) = n - 1 /\ upto(n) = n
          BY <1>1, <3>1, <3>4
      <4>2. After(data, EncodeStep(data, f[n - 1]), n - 1 + 1)
          BY <1>1, <2>5, <3>1, <3>2, <3>4, <4>1, StepOn
      <4> QED
          BY <2>3, <3>1, <3>3, <4>1, <4>2
    <3>5. CASE n - 1 >= L
      <4>1. upto(n - 1) = L /\ upto(n) = L
          BY <1>1, <3>1, <3>5
      <4>2. Len(f[n - 1].out) = EncodedLen(Len(data))
        <5>1. ~(L < Len(data))
            BY <1>1
        <5>2. Written(data, L) = EncodedLen(Len(data))
            BY <5>1, Zenon DEF Written
        <5>3. Len(f[n - 1].out) = Written(data, L)
            BY <3>2, <4>1 DEF After
        <5> QED
            BY <5>2, <5>3
      <4>3. EncodeStep(data, f[n - 1]) = f[n - 1]
          BY <1>1, <4>2 DEF EncodeStep, E
      <4> QED
          BY <2>3, <3>2, <3>3, <4>1, <4>3
    <3> QED
        BY <1>1, <3>1, <3>4, <3>5
  <2> QED
      BY <2>4, <2>5
<1>5. After(data, f[E], L)
    BY <1>1, <1>4
<1>6. PICK out : out = f[E].out
    OBVIOUS
<1>7. EncodeLoop(data) = out
    BY <1>2, <1>6, EncodeLoopIs DEF E
<1>8. out \in Seq(0 .. 64) /\ Len(out) = E /\ \A j \in 1 .. Len(out) : out[j] = CharOf(data, j)
    BY <1>1, <1>5, <1>6 DEF After, Begins, Written, E
<1>9. out = [j \in 1 .. E |-> CharOf(data, j)]
    BY <1>8
<1> QED
    BY <1>7, <1>8, <1>9 DEF TextOf, E

-----------------------------------------------------------------------------
(* decode *)

First(p, q) == p * 4 + (q \div 16)
Second(q, r) == (q % 16) * 16 + (r \div 4)
Third(r, s) == (r % 4) * 64 + s

\* Four characters that are not corrupted.
Valid(text, at) ==
    /\ text[at + 1] \in 0 .. 63 /\ text[at + 2] \in 0 .. 63
    /\ text[at + 3] # Other /\ text[at + 4] # Other

LEMMA QuartetIs ==
    ASSUME NEW text, NEW at, \A k \in 1 .. 4 : text[at + k] \in Character
    PROVE  /\ ~Valid(text, at) => Quartet(text, at) = [bytes |-> <<>>, then |-> "corrupted"]
           /\ Valid(text, at) /\ text[at + 3] = Pad
                => Quartet(text, at) = [bytes |-> <<First(text[at + 1], text[at + 2])>>, then |-> "end"]
           /\ Valid(text, at) /\ text[at + 3] # Pad /\ text[at + 4] = Pad
                => Quartet(text, at) = [bytes |-> <<First(text[at + 1], text[at + 2]),
                                                    Second(text[at + 2], text[at + 3])>>, then |-> "end"]
           /\ Valid(text, at) /\ text[at + 3] # Pad /\ text[at + 4] # Pad
                => Quartet(text, at) = [bytes |-> <<First(text[at + 1], text[at + 2]),
                                                    Second(text[at + 2], text[at + 3]),
                                                    Third(text[at + 3], text[at + 4])>>, then |-> "on"]
<1>1. PICK p, q, r, s : p = text[at + 1] /\ q = text[at + 2] /\ r = text[at + 3] /\ s = text[at + 4]
    OBVIOUS
<1>2. p \in Character /\ q \in Character /\ r \in Character /\ s \in Character
    BY <1>1
<1> DEFINE ch == [k \in 1 .. 4 |-> idxofch(text[at + k])]
           bad == \/ \E k \in 1 .. 4 : ch[k] = -1
                  \/ text[at + 1] = Pad \/ text[at + 2] = Pad
<1>3. ch[1] = idxofch(p) /\ ch[2] = idxofch(q) /\ ch[3] = idxofch(r) /\ ch[4] = idxofch(s)
    BY <1>1
<1>4. ASSUME NEW x \in Character
      PROVE  /\ idxofch(x) = -1 <=> x = Other
             /\ x \in 0 .. 63 <=> x # Other /\ x # Pad
             /\ x \in 0 .. 63 => idxofch(x) = x
             /\ x # Other /\ x # Pad => idxofch(x) = x
    BY DEF idxofch, Character, Other, Pad
<1> HIDE DEF ch
<1>5. bad <=> ~Valid(text, at)
  <2>1. (\E k \in 1 .. 4 : ch[k] = -1) <=> ch[1] = -1 \/ ch[2] = -1 \/ ch[3] = -1 \/ ch[4] = -1
      OBVIOUS
  <2> QED
      BY <1>1, <1>2, <1>3, <1>4, <2>1 DEF Valid
<1>6. Quartet(text, at) =
        CASE bad -> [bytes |-> <<>>, then |-> "corrupted"]
          [] OTHER -> IF text[at + 3] = Pad THEN [bytes |-> <<First(ch[1], ch[2])>>, then |-> "end"]
                      ELSE IF text[at + 4] = Pad
                        THEN [bytes |-> <<First(ch[1], ch[2]), Second(ch[2], ch[3])>>, then |-> "end"]
                      ELSE [bytes |-> <<First(ch[1], ch[2]), Second(ch[2], ch[3]), Third(ch[3], ch[4])>>,
                            then |-> "on"]
    BY Zenon DEF Quartet, ch, First, Second, Third
<1> HIDE DEF bad
<1>7. CASE bad
    BY <1>5, <1>6, <1>7, Zenon
<1>8. CASE ~bad
  <2>1. Quartet(text, at) =
          IF r = Pad THEN [bytes |-> <<First(ch[1], ch[2])>>, then |-> "end"]
          ELSE IF s = Pad
            THEN [bytes |-> <<First(ch[1], ch[2]), Second(ch[2], ch[3])>>, then |-> "end"]
          ELSE [bytes |-> <<First(ch[1], ch[2]), Second(ch[2], ch[3]), Third(ch[3], ch[4])>>, then |-> "on"]
      BY <1>1, <1>6, <1>8, Zenon
  <2>2. ch[1] = p /\ ch[2] = q /\ (r # Pad => ch[3] = r) /\ (s # Pad => ch[4] = s)
      BY <1>1, <1>2, <1>3, <1>4, <1>5, <1>8 DEF Valid
  <2> QED
      BY <1>1, <1>5, <1>8, <2>1, <2>2, Zenon
<1> QED
    BY <1>7, <1>8

\* The bytes of the quartet that encode made of up to three.
LEMMA QuartetOf ==
    ASSUME NEW data \in Seq(Byte), NEW t \in Nat, 3 * t < Len(data)
    PROVE  /\ Len(data) = 3 * t + 1
                => Quartet(TextOf(data), 4 * t) = [bytes |-> <<data[3 * t + 1]>>, then |-> "end"]
           /\ Len(data) = 3 * t + 2
                => Quartet(TextOf(data), 4 * t)
                     = [bytes |-> <<data[3 * t + 1], data[3 * t + 2]>>, then |-> "end"]
           /\ Len(data) > 3 * t + 2
                => Quartet(TextOf(data), 4 * t)
                     = [bytes |-> <<data[3 * t + 1], data[3 * t + 2], data[3 * t + 3]>>, then |-> "on"]
<1> DEFINE text == TextOf(data)
<1>1. Len(data) \in Nat /\ 4 * t + 4 <= EncodedLen(Len(data)) /\ EncodedLen(Len(data)) \in Nat
    BY DEF EncodedLen
<1>2. /\ text[4 * t + 1] = Char1(data, t) /\ text[4 * t + 2] = Char2(data, t)
      /\ text[4 * t + 3] = Char3(data, t) /\ text[4 * t + 4] = Char4(data, t)
  <2>1. ASSUME NEW k \in 1 .. 4 PROVE text[4 * t + k] = CharOf(data, 4 * t + k)
      BY <1>1 DEF TextOf
  <2> QED
      BY <2>1, CharAt
<1> HIDE DEF text
<1>3. PICK a, b, c : /\ a = ByteOf(data, 3 * t + 1) /\ b = ByteOf(data, 3 * t + 2)
                     /\ c = ByteOf(data, 3 * t + 3)
    OBVIOUS
<1>4. /\ a \in Byte /\ b \in Byte /\ c \in Byte
      /\ a = data[3 * t + 1]
      /\ 3 * t + 2 <= Len(data) => b = data[3 * t + 2]
      /\ 3 * t + 3 <= Len(data) => c = data[3 * t + 3]
  <2>1. ASSUME NEW i \in Nat \ {0}
        PROVE  ByteOf(data, i) \in Byte /\ (i <= Len(data) => ByteOf(data, i) = data[i])
    <3>1. CASE i <= Len(data)
        BY <1>1, <3>1 DEF ByteOf
    <3>2. CASE ~(i <= Len(data))
        BY <3>2 DEF ByteOf, Byte
    <3> QED
        BY <3>1, <3>2
  <2>2. 3 * t + 1 \in Nat \ {0} /\ 3 * t + 2 \in Nat \ {0} /\ 3 * t + 3 \in Nat \ {0}
      OBVIOUS
  <2>3. 3 * t + 1 <= Len(data)
      BY <1>1
  <2> QED
      BY <1>3, <2>1, <2>2, <2>3
<1>5. PICK p, q, r, s : /\ p = a \div 4 /\ q = (a % 4) * 16 + (b \div 16)
                        /\ r = (b % 16) * 4 + (c \div 64) /\ s = c % 64
    OBVIOUS
<1>6. /\ p \in 0 .. 63 /\ q \in 0 .. 63 /\ r \in 0 .. 63 /\ s \in 0 .. 63
    BY <1>4, <1>5, Shifts
<1>7. First(p, q) = a /\ Second(q, r) = b /\ Third(r, s) = c
  <2>1. /\ (a \div 4) * 4 + ((a % 4) * 16 + b \div 16) \div 16 = a
        /\ (((a % 4) * 16 + b \div 16) % 16) * 16 + ((b % 16) * 4 + c \div 64) \div 4 = b
        /\ (((b % 16) * 4 + c \div 64) % 4) * 64 + (c % 64) = c
      BY <1>4, ShiftsBack
  <2> QED
      BY <1>5, <2>1 DEF First, Second, Third
<1>8. /\ 63 \in Nat /\ Pad \in Character /\ Pad # Other /\ \A x \in 0 .. 63 : x \in Character /\ x # Pad /\ x # Other
    BY DEF Pad, Other, Character
<1>9. text[4 * t + 1] = p /\ text[4 * t + 2] = q
    BY <1>2, <1>3, <1>5 DEF Char1, Char2
<1>10. \A k \in 1 .. 4 : text[4 * t + k] \in Character
  <2>1. /\ Char3(data, t) \in Character /\ Char4(data, t) \in Character
      BY <1>3, <1>5, <1>6, <1>8 DEF Char3, Char4
  <2>2. /\ text[4 * t + 1] \in Character /\ text[4 * t + 2] \in Character
        /\ text[4 * t + 3] \in Character /\ text[4 * t + 4] \in Character
      BY <1>2, <1>6, <1>8, <1>9, <2>1
  <2>3. \A k \in 1 .. 4 : k = 1 \/ k = 2 \/ k = 3 \/ k = 4
      OBVIOUS
  <2> QED
      BY <2>2, <2>3, Zenon
<1>11. CASE Len(data) = 3 * t + 1
  <2>1. text[4 * t + 3] = Pad /\ text[4 * t + 4] = Pad
      BY <1>2, <1>11 DEF Char3, Char4
  <2>2. Valid(text, 4 * t)
      BY <1>6, <1>8, <1>9, <2>1 DEF Valid
  <2>3. Quartet(text, 4 * t) = [bytes |-> <<First(text[4 * t + 1], text[4 * t + 2])>>, then |-> "end"]
      BY <1>10, <2>1, <2>2, QuartetIs
  <2> QED
      BY <1>4, <1>7, <1>9, <1>11, <2>3 DEF text
<1>12. CASE Len(data) = 3 * t + 2
  <2>1. text[4 * t + 3] = r /\ text[4 * t + 4] = Pad
    <3>1. ~(3 * t + 2 > Len(data)) /\ 3 * t + 3 > Len(data)
        BY <1>12
    <3> QED
        BY <1>2, <1>3, <1>5, <3>1 DEF Char3, Char4
  <2>2. Valid(text, 4 * t) /\ text[4 * t + 3] # Pad
      BY <1>6, <1>8, <1>9, <2>1 DEF Valid
  <2>3. Quartet(text, 4 * t) = [bytes |-> <<First(text[4 * t + 1], text[4 * t + 2]),
                                            Second(text[4 * t + 2], text[4 * t + 3])>>, then |-> "end"]
      BY <1>10, <2>1, <2>2, QuartetIs
  <2> QED
      BY <1>4, <1>7, <1>9, <1>12, <2>1, <2>3 DEF text
<1>13. CASE Len(data) > 3 * t + 2
  <2>1. text[4 * t + 3] = r /\ text[4 * t + 4] = s
    <3>1. ~(3 * t + 2 > Len(data)) /\ ~(3 * t + 3 > Len(data))
        BY <1>1, <1>13
    <3> QED
        BY <1>2, <1>3, <1>5, <3>1 DEF Char3, Char4
  <2>2. Valid(text, 4 * t) /\ text[4 * t + 3] # Pad /\ text[4 * t + 4] # Pad
      BY <1>6, <1>8, <1>9, <2>1 DEF Valid
  <2>3. Quartet(text, 4 * t) = [bytes |-> <<First(text[4 * t + 1], text[4 * t + 2]),
                                            Second(text[4 * t + 2], text[4 * t + 3]),
                                            Third(text[4 * t + 3], text[4 * t + 4])>>, then |-> "on"]
      BY <1>10, <2>2, QuartetIs
  <2>4. 3 * t + 2 <= Len(data) /\ 3 * t + 3 <= Len(data) /\ Len(data) # 3 * t + 1 /\ Len(data) # 3 * t + 2
      BY <1>1, <1>13
  <2> QED
      BY <1>4, <1>7, <1>9, <1>13, <2>1, <2>3, <2>4 DEF text
<1> QED
    BY <1>1, <1>11, <1>12, <1>13

\* These are the first bytes of the data.
Takes(data, out) ==
    /\ out \in Seq(Byte)
    /\ \A i \in 1 .. Len(out) : out[i] = data[i]

\* What the loop has after n quartets of the text of the data.
Decoded(data, acc, n) ==
    /\ Takes(data, acc.out)
    /\ 3 * n <= Len(data) => Len(acc.out) = 3 * n /\ acc.then = "on"
    /\ 3 * n > Len(data) => Len(acc.out) = Len(data) /\ acc.then = "end"

LEMMA TakesMore ==
    ASSUME NEW data, NEW out, NEW new \in Seq(Byte), Takes(data, out),
           \A k \in 1 .. Len(new) : new[k] = data[Len(out) + k]
    PROVE  Takes(data, out \o new) /\ Len(out \o new) = Len(out) + Len(new)
<1>1. /\ out \o new \in Seq(Byte)
      /\ Len(out \o new) = Len(out) + Len(new)
      /\ Len(out) \in Nat /\ Len(new) \in Nat
    BY DEF Takes
<1>2. ASSUME NEW j \in 1 .. Len(out) + Len(new)
      PROVE  (out \o new)[j] = data[j]
  <2>1. CASE j <= Len(out)
      BY <1>1, <2>1 DEF Takes
  <2>2. CASE j > Len(out)
    <3>1. (out \o new)[j] = new[j - Len(out)] /\ j - Len(out) \in 1 .. Len(new)
        BY <1>1, <2>2 DEF Takes
    <3>2. new[j - Len(out)] = data[Len(out) + (j - Len(out))]
        BY <3>1
    <3> QED
        BY <1>1, <3>1, <3>2
  <2> QED
      BY <1>1, <2>1, <2>2
<1> QED
    BY <1>1, <1>2 DEF Takes

\* A turn of decode reads a quartet, unless the loop has ended.
LEMMA DecodeStepIs ==
    ASSUME NEW text, NEW acc, NEW n \in Nat
    PROVE  /\ acc.then # "on" => DecodeStep(text, acc, n + 1) = acc
           /\ acc.then = "on" =>
                /\ DecodeStep(text, acc, n + 1).out = acc.out \o Quartet(text, 4 * n).bytes
                /\ DecodeStep(text, acc, n + 1).then = Quartet(text, 4 * n).then
<1>1. PICK m : m = n + 1
    OBVIOUS
<1>2. PICK q : q = Quartet(text, 4 * (m - 1))
    OBVIOUS
<1>3. q = Quartet(text, 4 * n)
    BY <1>1, <1>2
<1>4. DecodeStep(text, acc, m) =
        IF acc.then # "on" THEN acc ELSE [out |-> acc.out \o q.bytes, then |-> q.then]
    BY <1>2, Zenon DEF DecodeStep
<1>5. acc.then # "on" => DecodeStep(text, acc, m) = acc
    BY <1>4, Zenon
<1>6. ASSUME acc.then = "on"
      PROVE  DecodeStep(text, acc, m).out = acc.out \o q.bytes /\ DecodeStep(text, acc, m).then = q.then
  <2>1. PICK out, end : out = acc.out \o q.bytes /\ end = q.then
      OBVIOUS
  <2>2. DecodeStep(text, acc, m) = [out |-> out, then |-> end]
      BY <1>4, <1>6, <2>1, Zenon
  <2>3. DecodeStep(text, acc, m).out = out /\ DecodeStep(text, acc, m).then = end
      BY <2>2
  <2> QED
      BY <2>1, <2>3, Zenon
<1> QED
    BY <1>1, <1>3, <1>5, <1>6, Zenon

LEMMA DecodeStepOn ==
    ASSUME NEW data \in Seq(Byte), NEW acc, NEW n \in Nat, 3 * n < Len(data),
           Decoded(data, acc, n)
    PROVE  Decoded(data, DecodeStep(TextOf(data), acc, n + 1), n + 1)
<1> DEFINE next == DecodeStep(TextOf(data), acc, n + 1)
<1>1. /\ Len(data) \in Nat /\ Takes(data, acc.out) /\ Len(acc.out) = 3 * n /\ acc.then = "on"
    BY DEF Decoded
<1>2. PICK q : q = Quartet(TextOf(data), 4 * n)
    OBVIOUS
<1>3. next.out = acc.out \o q.bytes /\ next.then = q.then
    BY <1>1, <1>2, DecodeStepIs, Zenon
<1> HIDE DEF next
<1>4. CASE Len(data) > 3 * n + 2
  <2> DEFINE new == <<data[3 * n + 1], data[3 * n + 2], data[3 * n + 3]>>
  <2>1. q = [bytes |-> new, then |-> "on"]
      BY <1>1, <1>2, <1>4, QuartetOf
  <2>2. /\ new \in Seq(Byte) /\ Len(new) = 3
        /\ new[1] = data[3 * n + 1] /\ new[2] = data[3 * n + 2] /\ new[3] = data[3 * n + 3]
    <3>1. /\ data[3 * n + 1] \in Byte /\ data[3 * n + 2] \in Byte /\ data[3 * n + 3] \in Byte
        BY <1>1, <1>4
    <3> QED
        BY <3>1
  <2> HIDE DEF new
  <2>3. \A k \in 1 .. Len(new) : new[k] = data[Len(acc.out) + k]
      BY <1>1, <2>2
  <2>4. Takes(data, acc.out \o new) /\ Len(acc.out \o new) = Len(acc.out) + Len(new)
      BY <1>1, <2>2, <2>3, TakesMore
  <2>5. q.bytes = new /\ q.then = "on"
      BY <2>1
  <2>6. 3 * (n + 1) <= Len(data) /\ ~(3 * (n + 1) > Len(data))
      BY <1>1, <1>4
  <2>7. Takes(data, next.out) /\ Len(next.out) = Len(acc.out) + Len(new) /\ next.then = "on"
      BY <1>3, <2>4, <2>5
  <2>8. Decoded(data, next, n + 1)
      BY <1>1, <1>4, <2>2, <2>6, <2>7 DEF Decoded
  <2> QED
      BY <2>8 DEF next
<1>5. CASE Len(data) = 3 * n + 2
  <2> DEFINE new == <<data[3 * n + 1], data[3 * n + 2]>>
  <2>1. q = [bytes |-> new, then |-> "end"]
      BY <1>1, <1>2, <1>5, QuartetOf
  <2>2. /\ new \in Seq(Byte) /\ Len(new) = 2
        /\ new[1] = data[3 * n + 1] /\ new[2] = data[3 * n + 2]
    <3>1. /\ data[3 * n + 1] \in Byte /\ data[3 * n + 2] \in Byte
        BY <1>1, <1>5
    <3> QED
        BY <3>1
  <2> HIDE DEF new
  <2>3. \A k \in 1 .. Len(new) : new[k] = data[Len(acc.out) + k]
      BY <1>1, <2>2
  <2>4. Takes(data, acc.out \o new) /\ Len(acc.out \o new) = Len(acc.out) + Len(new)
      BY <1>1, <2>2, <2>3, TakesMore
  <2>5. q.bytes = new /\ q.then = "end"
      BY <2>1
  <2>6. 3 * (n + 1) > Len(data) /\ ~(3 * (n + 1) <= Len(data))
      BY <1>1, <1>5
  <2>7. Takes(data, next.out) /\ Len(next.out) = Len(acc.out) + Len(new) /\ next.then = "end"
      BY <1>3, <2>4, <2>5
  <2>8. Decoded(data, next, n + 1)
      BY <1>1, <1>5, <2>2, <2>6, <2>7 DEF Decoded
  <2> QED
      BY <2>8 DEF next
<1>6. CASE Len(data) = 3 * n + 1
  <2> DEFINE new == <<data[3 * n + 1]>>
  <2>1. q = [bytes |-> new, then |-> "end"]
      BY <1>1, <1>2, <1>6, QuartetOf
  <2>2. new \in Seq(Byte) /\ Len(new) = 1 /\ new[1] = data[3 * n + 1]
    <3>1. data[3 * n + 1] \in Byte
        BY <1>1, <1>6
    <3> QED
        BY <3>1
  <2> HIDE DEF new
  <2>3. \A k \in 1 .. Len(new) : new[k] = data[Len(acc.out) + k]
      BY <1>1, <2>2
  <2>4. Takes(data, acc.out \o new) /\ Len(acc.out \o new) = Len(acc.out) + Len(new)
      BY <1>1, <2>2, <2>3, TakesMore
  <2>5. q.bytes = new /\ q.then = "end"
      BY <2>1
  <2>6. 3 * (n + 1) > Len(data) /\ ~(3 * (n + 1) <= Len(data))
      BY <1>1, <1>6
  <2>7. Takes(data, next.out) /\ Len(next.out) = Len(acc.out) + Len(new) /\ next.then = "end"
      BY <1>3, <2>4, <2>5
  <2>8. Decoded(data, next, n + 1)
      BY <1>1, <1>6, <2>2, <2>6, <2>7 DEF Decoded
  <2> QED
      BY <2>8 DEF next
<1> QED
    BY <1>1, <1>4, <1>5, <1>6

\* The loop gives the data back, and finds nothing wrong with its text.
LEMMA DecodeLoopText ==
    ASSUME NEW data \in Seq(Byte)
    PROVE  DecodeLoop(TextOf(data)).out = data /\ DecodeLoop(TextOf(data)).then # "corrupted"
<1> DEFINE L == Len(data)
           text == TextOf(data)
           Q == Len(text) \div 4
<1>1. L \in Nat /\ Q \in Nat /\ \A n \in Nat : n < Q <=> 3 * n < L
  <2>1. L \in Nat
      OBVIOUS
  <2>2. Len(text) = EncodedLen(L)
      BY EncodeLoopText
  <2>3. Q = (L + 2) \div 3
      BY <2>1, <2>2 DEF EncodedLen
  <2> QED
      BY <2>1, <2>3
<1>2. PICK f : f = CHOOSE g : Decodes(text, g, Q)
    OBVIOUS
<1>3. Decodes(text, f, Q)
    BY <1>1, <1>2, DecodeExists
<1>4. DecodeLoop(text) = f[Q]
    BY <1>2, DecodeLoopIs
<1> HIDE DEF Q
<1> DEFINE B == {n \in 0 .. Q : ~Decoded(data, f[n], n)}
<1>5. B = {}
  <2>1. SUFFICES ASSUME B # {} PROVE FALSE
      OBVIOUS
  <2>2. B \subseteq Nat
      BY <1>1
  <2>3. PICK n \in B : \A m \in B : n <= m
      BY <2>1, <2>2, Least
  <2>4. CASE n = 0
    <3>1. f[0] = Begin
        BY <1>1, <1>3 DEF Decodes
    <3>2. Begin.out = <<>> /\ Begin.then = "on"
        BY DEF Begin
    <3>3. Decoded(data, Begin, 0)
        BY <1>1, <3>2 DEF Decoded, Takes
    <3> QED
        BY <2>3, <2>4, <3>1, <3>3
  <2>5. CASE n # 0
    <3>1. n - 1 \in Nat /\ n - 1 \in 0 .. Q /\ n - 1 \notin B /\ n - 1 < Q /\ n - 1 + 1 = n
        BY <1>1, <2>3, <2>5
    <3>2. Decoded(data, f[n - 1], n - 1) /\ 3 * (n - 1) < L
        BY <1>1, <3>1
    <3>3. f[n] = DecodeStep(text, f[n - 1], n)
        BY <1>3, <2>3, <2>5 DEF Decodes
    <3>4. PICK m \in Nat : m = n - 1
        BY <3>1
    <3>5. Decoded(data, DecodeStep(text, f[m], m + 1), m + 1)
        BY <3>2, <3>4, DecodeStepOn
    <3> QED
        BY <2>3, <3>1, <3>3, <3>4, <3>5
  <2> QED
      BY <2>4, <2>5
<1>6. Decoded(data, f[Q], Q) /\ 3 * Q >= L
    BY <1>1, <1>5
<1>7. PICK end : end = f[Q]
    OBVIOUS
<1>8. Takes(data, end.out) /\ Len(end.out) = L /\ end.then \in {"on", "end"}
    BY <1>1, <1>6, <1>7 DEF Decoded
<1>9. end.out = data
    BY <1>8 DEF Takes
<1> QED
    BY <1>4, <1>7, <1>8, <1>9

\* The size that a query announces, by the padding in the last two places.
LEMMA DecodedLenIs ==
    ASSUME NEW text \in Seq(Character), NEW n \in Nat, Len(text) = 4 * n
    PROVE  /\ n = 0 => DecodedLen(text) = 0
           /\ n # 0 => /\ text[4 * n - 1] # Pad /\ text[4 * n] # Pad => DecodedLen(text) = 3 * n
                       /\ text[4 * n - 1] # Pad /\ text[4 * n] = Pad => DecodedLen(text) = 3 * n - 1
                       /\ text[4 * n - 1] = Pad => DecodedLen(text) \in {3 * n - 1, 3 * n - 2}
                       /\ text[4 * n - 1] = Pad /\ text[4 * n] = Pad => DecodedLen(text) = 3 * n - 2
<1> DEFINE padding == {i \in {Len(text) - 1, Len(text)} : i > 0 /\ text[i] = Pad}
<1>1. DecodedLen(text) = (Len(text) \div 4) * 3 -
        (IF Len(text) < 4 THEN 0 ELSE IF padding = {} THEN 0
         ELSE IF \E i, j \in padding : i # j THEN 2 ELSE 1)
    BY Zenon DEF DecodedLen
<1>2. (4 * n) \div 4 = n
    OBVIOUS
<1>3. CASE n = 0
    BY <1>1, <1>2, <1>3
<1>4. CASE n # 0
  <2>1. ~(Len(text) < 4)
      BY <1>4
  <2>2. /\ 4 * n - 1 \in padding <=> text[4 * n - 1] = Pad
        /\ 4 * n \in padding <=> text[4 * n] = Pad
        /\ \A i \in padding : i = 4 * n - 1 \/ i = 4 * n
        /\ 4 * n - 1 # 4 * n
      BY <1>4
  <2> HIDE DEF padding
  <2>3. /\ text[4 * n - 1] # Pad /\ text[4 * n] # Pad => padding = {}
        /\ text[4 * n - 1] = Pad /\ text[4 * n] = Pad => \E i, j \in padding : i # j
        /\ text[4 * n - 1] # Pad \/ text[4 * n] # Pad => ~\E i, j \in padding : i # j
        /\ text[4 * n - 1] = Pad \/ text[4 * n] = Pad => padding # {}
      BY <2>2
  <2> QED
      BY <1>1, <1>2, <1>4, <2>1, <2>3
<1> QED
    BY <1>3, <1>4

\* What a query announces of the text of the data is the length of the data.
LEMMA DecodedLenOfText ==
    ASSUME NEW data \in Seq(Byte)
    PROVE  DecodedLen(TextOf(data)) = Len(data)
<1> DEFINE text == TextOf(data)
<1>1. PICK t \in Nat : Len(data) = 3 * t \/ Len(data) = 3 * t + 1 \/ Len(data) = 3 * t + 2
  <2>1. Len(data) \in Nat
      OBVIOUS
  <2> QED
      BY <2>1, ByThrees
<1>2. /\ text \in Seq(Character) /\ Len(text) = EncodedLen(Len(data))
      /\ \A j \in 1 .. Len(text) : text[j] \in 0 .. 64 /\ text[j] = CharOf(data, j)
  <2>1. text \in Seq(0 .. 64) /\ Len(text) = EncodedLen(Len(data))
      BY EncodeLoopText
  <2>2. \A j \in 1 .. Len(text) : text[j] = CharOf(data, j)
      BY <2>1 DEF TextOf
  <2>3. text \in Seq(Character)
      BY <2>1 DEF Character
  <2> HIDE DEF text
  <2>4. \A j \in 1 .. Len(text) : text[j] \in 0 .. 64
      BY <2>1, ElementOfSeq
  <2> QED
      BY <2>1, <2>2, <2>3, <2>4
<1> HIDE DEF text
<1>3. ASSUME NEW u \in Nat, 3 * u + 2 < Len(data)
      PROVE  Char3(data, u) # Pad /\ Char4(data, u) # Pad
  <2>1. PICK b \in Byte, c \in Byte : b = data[3 * u + 2] /\ c = data[3 * u + 3]
    <3>1. data[3 * u + 2] \in Byte /\ data[3 * u + 3] \in Byte
        BY <1>3
    <3> QED
        BY <3>1
  <2>2. Char3(data, u) = (b % 16) * 4 + c \div 64
    <3>1. ~(3 * u + 2 > Len(data)) /\ 3 * u + 2 <= Len(data) /\ 3 * u + 3 <= Len(data)
        BY <1>3
    <3> QED
        BY <2>1, <3>1 DEF Char3, ByteOf
  <2>3. Char4(data, u) = c % 64
    <3>1. ~(3 * u + 3 > Len(data)) /\ 3 * u + 3 <= Len(data)
        BY <1>3
    <3> QED
        BY <2>1, <3>1 DEF Char4, ByteOf
  <2> QED
    <3>1. (b % 16) * 4 + c \div 64 \in 0 .. 63 /\ c % 64 \in 0 .. 63
        BY Shifts
    <3>2. \A x \in 0 .. 63 : x # Pad
        BY DEF Pad
    <3> QED
        BY <2>2, <2>3, <3>1, <3>2
<1>4. CASE Len(data) = 3 * t
  <2>1. Len(text) = 4 * t
      BY <1>2, <1>4, EncodedLenIs
  <2>2. CASE t = 0
      BY <1>2, <1>4, <2>1, <2>2, DecodedLenIs DEF text
  <2>3. CASE t # 0
    <3>1. PICK u \in Nat : t = u + 1
      <4>1. t - 1 \in Nat /\ t = (t - 1) + 1
          BY <2>3
      <4> QED
          BY <4>1
    <3>2. text[4 * t - 1] = Char3(data, u) /\ text[4 * t] = Char4(data, u)
      <4>1. 4 * t - 1 = 4 * u + 3 /\ 4 * t = 4 * u + 4 /\ 4 * t - 1 \in 1 .. 4 * t /\ 4 * t \in 1 .. 4 * t
          BY <3>1
      <4>2. text[4 * t - 1] = CharOf(data, 4 * t - 1) /\ text[4 * t] = CharOf(data, 4 * t)
          BY <1>2, <2>1, <4>1
      <4> QED
          BY <4>1, <4>2, CharAt
    <3>3. 3 * u + 2 < Len(data)
        BY <1>4, <3>1
    <3>4. text[4 * t - 1] # Pad /\ text[4 * t] # Pad
        BY <1>3, <3>2, <3>3
    <3> QED
        BY <1>2, <1>4, <2>1, <2>3, <3>4, DecodedLenIs DEF text
  <2> QED
      BY <2>2, <2>3
<1>5. CASE Len(data) # 3 * t
  <2>1. PICK n \in Nat : n = t + 1
      OBVIOUS
  <2>2. Len(text) = 4 * n /\ n # 0
    <3>1. EncodedLen(3 * t + 1) = 4 * t + 4 /\ EncodedLen(3 * t + 2) = 4 * t + 4
        BY EncodedLenIs
    <3>2. Len(text) = 4 * t + 4
        BY <1>1, <1>2, <1>5, <3>1
    <3> QED
        BY <2>1, <3>2
  <2>3. text[4 * n - 1] = Char3(data, t) /\ text[4 * n] = Char4(data, t)
    <3>1. 4 * n - 1 = 4 * t + 3 /\ 4 * n = 4 * t + 4 /\ 4 * n - 1 \in 1 .. 4 * n /\ 4 * n \in 1 .. 4 * n
        BY <2>1
    <3>2. text[4 * n - 1] = CharOf(data, 4 * n - 1) /\ text[4 * n] = CharOf(data, 4 * n)
        BY <1>2, <2>2, <3>1
    <3> QED
        BY <3>1, <3>2, CharAt
  <2>4. text[4 * n] = Pad
    <3>1. 3 * t + 3 > Len(data)
        BY <1>1, <1>5
    <3> QED
        BY <2>3, <3>1 DEF Char4
  <2>5. CASE Len(data) = 3 * t + 1
    <3>1. 3 * t + 2 > Len(data)
        BY <2>5
    <3>2. text[4 * n - 1] = Pad
        BY <2>3, <3>1 DEF Char3
    <3>3. DecodedLen(text) = 3 * n - 2
        BY <1>2, <2>2, <2>4, <3>2, DecodedLenIs
    <3> QED
        BY <2>1, <2>5, <3>3 DEF text
  <2>6. CASE Len(data) = 3 * t + 2
    <3>1. text[4 * n - 1] # Pad
      <4>1. ~(3 * t + 2 > Len(data)) /\ 3 * t + 2 <= Len(data) /\ ~(3 * t + 3 <= Len(data))
          BY <2>6
      <4>2. Char3(data, t) = (data[3 * t + 2] % 16) * 4 + 0 \div 64
          BY <4>1 DEF Char3, ByteOf
      <4>3. PICK b \in Byte : b = data[3 * t + 2]
        <5>1. data[3 * t + 2] \in Byte
            BY <2>6
        <5> QED
            BY <5>1
      <4>4. (b % 16) * 4 + 0 \div 64 \in 0 .. 63
          BY DEF Byte
      <4>5. \A x \in 0 .. 63 : x # Pad
          BY DEF Pad
      <4> QED
          BY <2>3, <4>2, <4>3, <4>4, <4>5
    <3>2. DecodedLen(text) = 3 * n - 1
        BY <1>2, <2>2, <2>4, <3>1, DecodedLenIs
    <3> QED
        BY <2>1, <2>6, <3>2 DEF text
  <2> QED
      BY <1>1, <1>5, <2>5, <2>6
<1> QED
    BY <1>4, <1>5

\* The bytes of a quartet, whatever its characters are.
LEMMA QuartetBounds ==
    ASSUME NEW text, NEW at, \A k \in 1 .. 4 : text[at + k] \in Character
    PROVE  LET q == Quartet(text, at) IN
           /\ q.bytes \in Seq(Byte)
           /\ \/ q.then = "corrupted" /\ Len(q.bytes) = 0
              \/ q.then = "end" /\ Len(q.bytes) = 1 /\ text[at + 3] = Pad
              \/ q.then = "end" /\ Len(q.bytes) = 2 /\ text[at + 3] # Pad /\ text[at + 4] = Pad
              \/ q.then = "on" /\ Len(q.bytes) = 3 /\ text[at + 3] # Pad /\ text[at + 4] # Pad
<1>1. PICK p, q, r, s : p = text[at + 1] /\ q = text[at + 2] /\ r = text[at + 3] /\ s = text[at + 4]
    OBVIOUS
<1>2. PICK b1, b2, b3 : b1 = First(p, q) /\ b2 = Second(q, r) /\ b3 = Third(r, s)
    OBVIOUS
<1>3. Valid(text, at) => /\ b1 \in Byte
                         /\ r # Pad => b2 \in Byte
                         /\ r # Pad /\ s # Pad => b3 \in Byte
  <2>1. r \in Character /\ s \in Character
      BY <1>1
  <2>2. Valid(text, at) => /\ p \in 0 .. 63 /\ q \in 0 .. 63
                           /\ r # Pad => r \in 0 .. 63
                           /\ s # Pad => s \in 0 .. 63
      BY <1>1, <2>1 DEF Valid, Character, Other, Pad
  <2>3. \A x, y \in 0 .. 63 : First(x, y) \in Byte /\ Second(x, y) \in Byte /\ Third(x, y) \in Byte
      BY DEF First, Second, Third, Byte
  <2> QED
      BY <1>2, <2>2, <2>3
<1> DEFINE z == Quartet(text, at)
<1>4. CASE ~Valid(text, at)
  <2>1. z = [bytes |-> <<>>, then |-> "corrupted"]
      BY <1>4, QuartetIs
  <2> HIDE DEF z
  <2>2. z.bytes = <<>> /\ z.then = "corrupted"
      BY <2>1
  <2> QED
      BY <2>2 DEF z
<1>5. CASE Valid(text, at) /\ r = Pad
  <2>1. z = [bytes |-> <<b1>>, then |-> "end"]
      BY <1>1, <1>2, <1>5, QuartetIs, Zenon
  <2> HIDE DEF z
  <2>2. z.bytes = <<b1>> /\ z.then = "end"
      BY <2>1
  <2>3. <<b1>> \in Seq(Byte) /\ Len(<<b1>>) = 1
      BY <1>3, <1>5
  <2> QED
      BY <1>1, <1>5, <2>2, <2>3 DEF z
<1>6. CASE Valid(text, at) /\ r # Pad /\ s = Pad
  <2>1. z = [bytes |-> <<b1, b2>>, then |-> "end"]
      BY <1>1, <1>2, <1>6, QuartetIs, Zenon
  <2> HIDE DEF z
  <2>2. z.bytes = <<b1, b2>> /\ z.then = "end"
      BY <2>1
  <2>3. <<b1, b2>> \in Seq(Byte) /\ Len(<<b1, b2>>) = 2
      BY <1>3, <1>6
  <2> QED
      BY <1>1, <1>6, <2>2, <2>3 DEF z
<1>7. CASE Valid(text, at) /\ r # Pad /\ s # Pad
  <2>1. z = [bytes |-> <<b1, b2, b3>>, then |-> "on"]
      BY <1>1, <1>2, <1>7, QuartetIs, Zenon
  <2> HIDE DEF z
  <2>2. z.bytes = <<b1, b2, b3>> /\ z.then = "on"
      BY <2>1
  <2>3. <<b1, b2, b3>> \in Seq(Byte) /\ Len(<<b1, b2, b3>>) = 3
      BY <1>3, <1>7
  <2> QED
      BY <1>1, <1>7, <2>2, <2>3 DEF z
<1> QED
    BY <1>4, <1>5, <1>6, <1>7

\* What the loop has written after n quartets of any text.
Bounded(text, acc, n) ==
    /\ acc.out \in Seq(Byte)
    /\ acc.then = "on" =>
         /\ Len(acc.out) = 3 * n
         /\ n # 0 => text[4 * n - 1] # Pad /\ text[4 * n] # Pad
    /\ acc.then # "on" =>
         /\ n # 0
         /\ \/ Len(acc.out) <= 3 * n - 2
            \/ Len(acc.out) = 3 * n - 1 /\ text[4 * n - 1] # Pad /\ text[4 * n] = Pad

LEMMA DecodeStepBounds ==
    ASSUME NEW text \in Seq(Character), NEW n \in Nat, 4 * n + 4 <= Len(text),
           NEW acc, Bounded(text, acc, n)
    PROVE  Bounded(text, DecodeStep(text, acc, n + 1), n + 1)
<1> DEFINE next == DecodeStep(text, acc, n + 1)
<1>1. PICK q : q = Quartet(text, 4 * n)
    OBVIOUS
<1>2. /\ acc.then # "on" => next = acc
      /\ acc.then = "on" => next.out = acc.out \o q.bytes /\ next.then = q.then
    BY <1>1, DecodeStepIs, Zenon
<1> HIDE DEF next
<1>3. CASE acc.then # "on"
  <2>1. next = acc
      BY <1>2, <1>3, Zenon
  <2>2. Len(acc.out) <= 3 * n - 1 /\ Len(acc.out) \in Nat
      BY <1>3 DEF Bounded
  <2>3. Len(acc.out) <= 3 * (n + 1) - 2 /\ n + 1 # 0
      BY <2>2
  <2>4. Bounded(text, acc, n + 1)
      BY <1>3, <2>3 DEF Bounded
  <2> QED
      BY <2>1, <2>4 DEF next
<1>4. CASE acc.then = "on"
  <2>1. next.out = acc.out \o q.bytes /\ next.then = q.then
      BY <1>2, <1>4, Zenon
  <2>2. \A k \in 1 .. 4 : text[4 * n + k] \in Character
    <3>1. \A k \in 1 .. 4 : 4 * n + k \in 1 .. Len(text)
        OBVIOUS
    <3> QED
        BY <3>1, ElementOfSeq
  <2>3. /\ q.bytes \in Seq(Byte)
        /\ \/ q.then = "corrupted" /\ Len(q.bytes) = 0
           \/ q.then = "end" /\ Len(q.bytes) = 1 /\ text[4 * n + 3] = Pad
           \/ q.then = "end" /\ Len(q.bytes) = 2 /\ text[4 * n + 3] # Pad /\ text[4 * n + 4] = Pad
           \/ q.then = "on" /\ Len(q.bytes) = 3 /\ text[4 * n + 3] # Pad /\ text[4 * n + 4] # Pad
      BY <1>1, <2>2, QuartetBounds
  <2>4. /\ acc.out \in Seq(Byte) /\ Len(acc.out) = 3 * n
      BY <1>4 DEF Bounded
  <2>5. next.out \in Seq(Byte) /\ Len(next.out) = 3 * n + Len(q.bytes)
    <3>1. PICK x \in Seq(Byte), y \in Seq(Byte) : x = acc.out /\ y = q.bytes
        BY <2>3, <2>4
    <3>2. x \o y \in Seq(Byte) /\ Len(x \o y) = Len(x) + Len(y)
        OBVIOUS
    <3>3. next.out = x \o y
        BY <2>1, <3>1
    <3>4. Len(x) = 3 * n
        BY <2>4, <3>1
    <3> QED
        BY <3>1, <3>2, <3>3, <3>4
  <2>6. 4 * (n + 1) - 1 = 4 * n + 3 /\ 4 * (n + 1) = 4 * n + 4
      OBVIOUS
  <2>7. ASSUME q.then = "on" PROVE Bounded(text, next, n + 1)
    <3>1. Len(q.bytes) = 3 /\ text[4 * n + 3] # Pad /\ text[4 * n + 4] # Pad
        BY <2>3, <2>7
    <3>2. Len(next.out) = 3 * (n + 1) /\ next.then = "on" /\ next.out \in Seq(Byte)
        BY <2>1, <2>5, <2>7, <3>1
    <3>3. text[4 * (n + 1) - 1] # Pad /\ text[4 * (n + 1)] # Pad
        BY <2>6, <3>1
    <3> QED
        BY <3>2, <3>3 DEF Bounded
  <2>8. ASSUME q.then # "on" /\ Len(q.bytes) = 2 PROVE Bounded(text, next, n + 1)
      BY <2>1, <2>3, <2>5, <2>6, <2>8 DEF Bounded
  <2>9. ASSUME q.then # "on" /\ Len(q.bytes) \in {0, 1} PROVE Bounded(text, next, n + 1)
    <3>1. Len(next.out) <= 3 * (n + 1) - 2 /\ n + 1 # 0
      <4>1. PICK k \in {0, 1} : k = Len(q.bytes)
          BY <2>9
      <4>2. 3 * n + k <= 3 * (n + 1) - 2 /\ n + 1 # 0
          OBVIOUS
      <4> QED
          BY <2>5, <4>1, <4>2
    <3>2. next.then # "on" /\ next.out \in Seq(Byte)
        BY <2>1, <2>5, <2>9
    <3> QED
        BY <3>1, <3>2 DEF Bounded
  <2> QED
      BY <2>3, <2>7, <2>8, <2>9 DEF next
<1> QED
    BY <1>3, <1>4

LEMMA DecodeLoopBounds ==
    ASSUME NEW text \in Seq(Character), Len(text) % 4 = 0
    PROVE  /\ DecodeLoop(text).out \in Seq(Byte)
           /\ Len(DecodeLoop(text).out) <= DecodedLen(text)
<1> DEFINE Q == Len(text) \div 4
<1>1. Q \in Nat /\ Len(text) = 4 * Q
    OBVIOUS
<1>2. PICK f : f = CHOOSE g : Decodes(text, g, Q)
    OBVIOUS
<1>3. Decodes(text, f, Q)
    BY <1>1, <1>2, DecodeExists
<1>4. DecodeLoop(text) = f[Q]
    BY <1>2, DecodeLoopIs
<1> HIDE DEF Q
<1> DEFINE B == {n \in 0 .. Q : ~Bounded(text, f[n], n)}
<1>5. B = {}
  <2>1. SUFFICES ASSUME B # {} PROVE FALSE
      OBVIOUS
  <2>2. B \subseteq Nat
      BY <1>1
  <2>3. PICK n \in B : \A m \in B : n <= m
      BY <2>1, <2>2, Least
  <2>4. CASE n = 0
    <3>1. f[0] = Begin
        BY <1>1, <1>3 DEF Decodes
    <3>2. Begin.out = <<>> /\ Begin.then = "on"
        BY DEF Begin
    <3>3. Bounded(text, Begin, 0)
        BY <3>2 DEF Bounded
    <3> QED
        BY <2>3, <2>4, <3>1, <3>3
  <2>5. CASE n # 0
    <3>1. n - 1 \in Nat /\ n - 1 \in 0 .. Q /\ n - 1 \notin B /\ n - 1 < Q /\ n - 1 + 1 = n
        BY <1>1, <2>3, <2>5
    <3>2. Bounded(text, f[n - 1], n - 1) /\ 4 * (n - 1) + 4 <= Len(text)
        BY <1>1, <3>1
    <3>3. f[n] = DecodeStep(text, f[n - 1], n)
        BY <1>3, <2>3, <2>5 DEF Decodes
    <3>4. PICK m \in Nat : m = n - 1
        BY <3>1
    <3>5. Bounded(text, DecodeStep(text, f[m], m + 1), m + 1)
        BY <3>2, <3>4, DecodeStepBounds
    <3> QED
        BY <2>3, <3>1, <3>3, <3>4, <3>5
  <2> QED
      BY <2>4, <2>5
<1>6. Bounded(text, f[Q], Q)
    BY <1>1, <1>5
<1>7. PICK end : end = f[Q]
    OBVIOUS
<1>8. Len(end.out) <= DecodedLen(text)
  <2>1. Len(end.out) \in Nat
      BY <1>6, <1>7 DEF Bounded
  <2>2. CASE Q = 0
    <3>1. DecodedLen(text) = 0
        BY <1>1, <2>2, DecodedLenIs
    <3>2. Bounded(text, end, 0)
        BY <1>6, <1>7, <2>2
    <3> QED
        BY <2>1, <3>1, <3>2 DEF Bounded
  <2>3. CASE Q # 0
    <3>1. DecodedLen(text) \in {3 * Q, 3 * Q - 1, 3 * Q - 2}
        BY <1>1, <2>3, DecodedLenIs
    <3>2. text[4 * Q - 1] # Pad /\ text[4 * Q] # Pad => DecodedLen(text) = 3 * Q
        BY <1>1, <2>3, DecodedLenIs
    <3>3. text[4 * Q - 1] # Pad /\ text[4 * Q] = Pad => DecodedLen(text) = 3 * Q - 1
        BY <1>1, <2>3, DecodedLenIs
    <3> QED
        BY <1>1, <1>6, <1>7, <2>1, <2>3, <3>1, <3>2, <3>3 DEF Bounded
  <2> QED
      BY <2>2, <2>3
<1> QED
    BY <1>4, <1>6, <1>7, <1>8 DEF Bounded

-----------------------------------------------------------------------------
(* Theorems *)

\* A caller that asks encode for the size of the text and decode for the size of
\* the data, and makes buffers of these sizes, has its data back, for any data.
\* The text in between is that of RFC 4648.
THEOREM RoundTrip ==
    ASSUME NEW data \in Seq(Byte)
    PROVE  LET size == encode(data, Query).ret
               text == encode(data, size).out
               room == decode(text, Query).ret IN
           /\ encode(data, size).ret = size /\ Len(text) = size /\ text = TextOf(data)
           /\ decode(text, room).ret = room /\ decode(text, room).out = data
<1> DEFINE E == EncodedLen(Len(data))
<1>1. Len(data) \in Nat /\ E \in Nat
    BY DEF EncodedLen
<1>2. EncodeLoop(data) = TextOf(data) /\ Len(TextOf(data)) = E
    BY EncodeLoopText
<1> HIDE DEF E
<1>3. E # -1 /\ ~(E < E)
    BY <1>1
<1>4. encode(data, Query).ret = E
    BY DEF encode, Result, E
<1>5. encode(data, E).out = TextOf(data) /\ encode(data, E).ret = E
  <2>1. encode(data, E) = Result(E, E, EncodeLoop(data))
      BY <1>3 DEF encode, Query, E
  <2> QED
      BY <1>2, <2>1 DEF Result
<1>6. PICK text : text = TextOf(data)
    OBVIOUS
<1>7. Len(text) % 4 = 0
    BY <1>1, <1>2, <1>6 DEF E, EncodedLen
<1>8. DecodedLen(text) = Len(data)
    BY <1>6, DecodedLenOfText
<1>9. decode(text, Query).ret = Len(data)
    BY <1>7, <1>8 DEF decode, Result
<1>10. decode(text, Len(data)).ret = Len(data) /\ decode(text, Len(data)).out = data
  <2>1. DecodeLoop(text).out = data /\ DecodeLoop(text).then # "corrupted"
      BY <1>6, DecodeLoopText
  <2>2. Len(data) # -1 /\ ~(Len(data) < Len(data))
      BY <1>1
  <2>3. decode(text, Len(data)) = Result(Len(data), Len(data), data)
      BY <1>7, <1>8, <2>1, <2>2 DEF decode, Query
  <2> QED
      BY <2>3 DEF Result
<1> QED
    BY <1>2, <1>4, <1>5, <1>6, <1>9, <1>10

\* encode never writes more than the caller says its buffer holds.
THEOREM EncodeFits ==
    ASSUME NEW data \in Seq(Byte), NEW room \in Nat
    PROVE  Len(encode(data, room).out) <= room
<1> DEFINE E == EncodedLen(Len(data))
<1>1. Len(data) \in Nat /\ E \in Nat
    BY DEF EncodedLen
<1>2. Len(EncodeLoop(data)) = E
    BY EncodeLoopText
<1> HIDE DEF E
<1>3. CASE room < E
  <2>1. encode(data, room).out = <<>>
      BY <1>3 DEF encode, Query, Result, E
  <2> QED
      BY <2>1
<1>4. CASE ~(room < E)
  <2>1. encode(data, room).out = EncodeLoop(data)
      BY <1>4 DEF encode, Query, Result, E
  <2> QED
      BY <1>1, <1>2, <1>4, <2>1
<1> QED
    BY <1>3, <1>4

\* decode never writes more than the caller says its buffer holds, and never
\* anything but bytes, whatever the text is: where its padding lies, whether it is
\* corrupted and where.
THEOREM DecodeFits ==
    ASSUME NEW text \in Seq(Character), NEW room \in Nat
    PROVE  LET out == decode(text, room).out IN out \in Seq(Byte) /\ Len(out) <= room
<1> DEFINE out == decode(text, room).out
<1>1. CASE Len(text) % 4 # 0 \/ room < DecodedLen(text)
  <2>1. out = <<>>
      BY <1>1 DEF decode, Query, Result
  <2> QED
      BY <2>1
<1>2. CASE Len(text) % 4 = 0 /\ ~(room < DecodedLen(text))
  <2>1. out = DecodeLoop(text).out
      BY <1>2 DEF decode, Query, Result
  <2>2. DecodedLen(text) \in Int
    <3>1. PICK n \in Nat : Len(text) = 4 * n
      <4>1. Len(text) \div 4 \in Nat /\ Len(text) = 4 * (Len(text) \div 4)
          BY <1>2
      <4> QED
          BY <4>1
    <3> QED
        BY <3>1, DecodedLenIs
  <2>3. Len(DecodeLoop(text).out) \in Nat
      BY <1>2, DecodeLoopBounds
  <2> QED
      BY <1>2, <2>1, <2>2, <2>3, DecodeLoopBounds
<1> QED
    BY <1>1, <1>2
=============================================================================
