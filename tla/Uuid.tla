-------------------------------- MODULE Uuid --------------------------------
(***************************************************************************)
(* Uuid (src/src/uuidv4.cpp): sixteen octets, generated from rand(),       *)
(* converted to text and back, and compared as four words.  Octets are     *)
(* numbered from 1; a hexadecimal digit of the text is its value, any      *)
(* other character is Dash.                                                *)
(***************************************************************************)
EXTENDS Integers, Sequences, SequencesExt

Dash == 16
Null == [i \in 1 .. 16 |-> 0]

\* Bit k of a number, counted from 0.
Bit(n, k) == (n \div 2^k) % 2

\* fromOctet.
fromOctet(octets) == [i \in 1 .. 16 |-> octets[i]]

\* Two octets per (u16) rand().
Filled(r) ==
    [i \in 1 .. 16 |-> IF i % 2 = 1 THEN r[(i + 1) \div 2] \div 256 ELSE r[i \div 2] % 256]

\* `|=' with the highest bit of an octet.
OrHighest(octet, bit) == IF octet >= 128 THEN octet ELSE octet + 128 * bit

\* Defect: the variant is put into the octet after its own.
generate_VariantMoved(r, pad) ==
    LET u == Filled(r) IN
    [i \in 1 .. 16 |->
        CASE i = 1  -> OrHighest(u[i], Bit(pad, 0))
          [] i = 3  -> OrHighest(u[i], Bit(pad, 1))
          [] i = 5  -> OrHighest(u[i], Bit(pad, 2))
          [] i = 7  -> (u[i] % 16) + 64
          [] i = 10 -> (u[i] % 64) + 128
          [] i = 11 -> OrHighest(u[i], Bit(pad, 3))
          [] i = 13 -> OrHighest(u[i], Bit(pad, 4))
          [] i = 15 -> OrHighest(u[i], Bit(pad, 5))
          [] OTHER  -> u[i]]

\* generate: eight random numbers, and a ninth for the bits that they leave zero
\* where RAND_MAX is 32767 (elsewhere `|=' makes ones of more than half of them);
\* the version and the variant.
generate(r, pad) ==
    LET u == Filled(r) IN
    [i \in 1 .. 16 |->
        CASE i = 1  -> OrHighest(u[i], Bit(pad, 0))
          [] i = 3  -> OrHighest(u[i], Bit(pad, 1))
          [] i = 5  -> OrHighest(u[i], Bit(pad, 2))
          [] i = 7  -> (u[i] % 16) + 64
          [] i = 9  -> (u[i] % 64) + 128
          [] i = 11 -> OrHighest(u[i], Bit(pad, 3))
          [] i = 13 -> OrHighest(u[i], Bit(pad, 4))
          [] i = 15 -> OrHighest(u[i], Bit(pad, 5))
          [] OTHER  -> u[i]]

\* asString: two digits per octet, dashes after the fourth, sixth, eighth and tenth.
asString(u) ==
    FlattenSeq([i \in 1 .. 16 |->
        <<u[i] \div 16, u[i] % 16>> \o (IF i \in {4, 6, 8, 10} THEN <<Dash>> ELSE <<>>)])

\* fromString: pairs of digits, whatever stands between them, until sixteen
\* octets are full; a digit left over is dropped.
fromString(text) ==
    LET digits == SelectSeq(text, LAMBDA c : c # Dash)
        cnt == Len(digits) \div 2 IN
    [i \in 1 .. 16 |-> IF i <= cnt THEN digits[2 * i - 1] * 16 + digits[2 * i] ELSE 0]

\* Four octets read as an unsigned word on a little-endian machine.
WordLess(u, v, k) ==
    \E i \in 1 .. 4 : /\ u[4 * k + i] < v[4 * k + i]
                      /\ \A j \in i + 1 .. 4 : u[4 * k + j] = v[4 * k + j]
SameWord(u, v, k) == \A i \in 1 .. 4 : u[4 * k + i] = v[4 * k + i]

\* operator<: some word is less, whatever the words before it are.
less(u, v) == \E k \in 0 .. 3 : WordLess(u, v, k)

\* operator==.
equal(u, v) == \A k \in 0 .. 3 : SameWord(u, v, k)
=============================================================================
