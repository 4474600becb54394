------------------------ MODULE BuddyAllocator_proofs ------------------------
(***************************************************************************)
(* Theorems about BuddyAllocator, for every number of tiers, every set of  *)
(* requests and any number of pointers: the flags and the chains always    *)
(* are what the blocks handed out make them, so that every pointer is      *)
(* found again, buddies that are both free are merged, no byte is handed   *)
(* out twice, and used() is the sum of the blocks held.                    *)
(***************************************************************************)
EXTENDS BuddyAllocator, SequenceTheorems, FiniteSetTheorems, WellFoundedInduction, TLAPS

-----------------------------------------------------------------------------
(* Blocks *)

\* Block b is c, or was split on the way down to c.
Above(b, c) == Len(b) <= Len(c) /\ \A i \in 1 .. Len(b) : b[i] = c[i]

\* A block is a sequence of at most TierNum - 1 bits.
LEMMA BlockType ==
    ASSUME NEW b \in Blocks
    PROVE  /\ Len(b) \in Tiers /\ Len(b) \in Nat /\ Len(b) < TierNum
           /\ b \in Seq(Bit) /\ DOMAIN b = 1 .. Len(b)
           /\ \A i \in 1 .. Len(b) : b[i] \in {0, 1}
<1>1. PICK t \in Tiers : b \in [1 .. t -> Bit]
    BY DEF Blocks
<1>2. t \in Nat /\ t < TierNum /\ TierNum \in Nat
    BY ConstantsAssumption DEF Tiers
<1>3. b \in Seq(Bit) /\ Len(b) = t
    BY <1>1, <1>2
<1> QED
    BY <1>1, <1>2, <1>3 DEF Bit

LEMMA SequenceIsBlock ==
    ASSUME NEW t \in Tiers, NEW b, b \in [1 .. t -> Bit]
    PROVE  b \in Blocks /\ Len(b) = t
<1>1. t \in Nat
    BY DEF Tiers
<1> QED
    BY <1>1 DEF Blocks

LEMMA BlocksEqual ==
    ASSUME NEW b \in Blocks, NEW c \in Blocks, Len(b) = Len(c), \A i \in 1 .. Len(b) : b[i] = c[i]
    PROVE  b = c
BY BlockType, SeqEqual

LEMMA TopType == Top \in Blocks /\ Len(Top) = 0 /\ \A b \in Blocks : Len(b) = 0 => b = Top
<1>1. 0 \in Tiers
    BY ConstantsAssumption DEF Tiers
<1>2. Top \in [1 .. 0 -> Bit]
    BY DEF Top
<1>3. Top \in Blocks /\ Len(Top) = 0
    BY <1>1, <1>2, SequenceIsBlock
<1> QED
    BY <1>3, BlocksEqual

\* A block above.
LEMMA CutType ==
    ASSUME NEW b \in Blocks, NEW j \in 0 .. Len(b)
    PROVE  /\ SubSeq(b, 1, j) \in Blocks /\ Len(SubSeq(b, 1, j)) = j
           /\ \A i \in 1 .. j : SubSeq(b, 1, j)[i] = b[i]
<1>1. Len(b) \in Tiers /\ Len(b) \in Nat /\ b \in Seq(Bit) /\ \A i \in 1 .. Len(b) : b[i] \in {0, 1}
    BY BlockType
<1>2. j \in Tiers
    BY <1>1, ConstantsAssumption DEF Tiers
<1>3. SubSeq(b, 1, j) = [i \in 1 .. j |-> b[i]]
    BY <1>1
<1>4. SubSeq(b, 1, j) \in [1 .. j -> Bit]
  <2>1. \A i \in 1 .. j : b[i] \in Bit
      BY <1>1 DEF Bit
  <2> QED
      BY <1>3, <2>1
<1> QED
    BY <1>2, <1>3, <1>4, SequenceIsBlock

\* The blocks above one are its prefixes.
LEMMA CutIsAbove ==
    ASSUME NEW b \in Blocks, NEW c \in Blocks
    PROVE  /\ Above(b, c) <=> Len(b) <= Len(c) /\ b = SubSeq(c, 1, Len(b))
           /\ Above(b, c) <=> \E j \in 0 .. Len(c) : b = SubSeq(c, 1, j)
           /\ Above(b, c) <=> IsPrefix(b, c)
<1>1. Len(b) \in Nat /\ Len(c) \in Nat
    BY BlockType
<1>2. ASSUME Len(b) <= Len(c) PROVE (\A i \in 1 .. Len(b) : b[i] = c[i]) <=> b = SubSeq(c, 1, Len(b))
  <2>1. Len(b) \in 0 .. Len(c)
      BY <1>1, <1>2
  <2>2. /\ SubSeq(c, 1, Len(b)) \in Blocks /\ Len(SubSeq(c, 1, Len(b))) = Len(b)
        /\ \A i \in 1 .. Len(b) : SubSeq(c, 1, Len(b))[i] = c[i]
      BY <2>1, CutType
  <2> QED
      BY <2>2, BlocksEqual
<1>3. Above(b, c) <=> Len(b) <= Len(c) /\ b = SubSeq(c, 1, Len(b))
    BY <1>2 DEF Above
<1>4. ASSUME NEW j \in 0 .. Len(c), b = SubSeq(c, 1, j) PROVE j = Len(b) /\ Len(b) <= Len(c)
    BY <1>1, <1>4, CutType
<1>5. SubSeq(b, 1, Len(b)) = b
    BY BlockType, SubSeqFull
<1>6. Above(b, c) => Len(b) \in 0 .. Len(c) /\ b = SubSeq(c, 1, Len(b))
    BY <1>1, <1>3
<1>7. Above(b, c) <=> \E j \in 0 .. Len(c) : b = SubSeq(c, 1, j)
    BY <1>3, <1>4, <1>6
<1>8. Above(b, c) <=> IsPrefix(b, c)
    BY <1>3, <1>5 DEF IsPrefix
<1> QED
    BY <1>3, <1>7, <1>8

\* The blocks are ordered by what they are split from, and those above one
\* are on one line.
LEMMA AboveOrder ==
    ASSUME NEW a \in Blocks, NEW b \in Blocks, NEW c \in Blocks
    PROVE  /\ Above(a, a)
           /\ Above(a, b) /\ Above(b, c) => Above(a, c)
           /\ Above(a, b) /\ Len(b) <= Len(a) => a = b
           /\ Above(a, c) /\ Above(b, c) /\ Len(a) <= Len(b) => Above(a, b)
<1>1. Len(a) \in Nat /\ Len(b) \in Nat /\ Len(c) \in Nat
    BY BlockType
<1>2. Above(a, b) /\ Len(b) <= Len(a) => a = b
    BY <1>1, BlocksEqual DEF Above
<1> QED
    BY <1>1, <1>2 DEF Above

\* A block and its buddy are the two halves of the same block.
LEMMA BuddyType ==
    ASSUME NEW b \in Blocks, b # Top
    PROVE  /\ Len(b) > 0 /\ Buddy(b) \in Blocks /\ Len(Buddy(b)) = Len(b) /\ Buddy(b) # Top
           /\ \A i \in 1 .. Len(b) - 1 : Buddy(b)[i] = b[i]
           /\ Buddy(b)[Len(b)] = 1 - b[Len(b)]
           /\ Buddy(b) # b /\ Buddy(Buddy(b)) = b
<1>1. /\ Len(b) \in Tiers /\ Len(b) \in Nat /\ DOMAIN b = 1 .. Len(b)
      /\ \A i \in 1 .. Len(b) : b[i] \in {0, 1}
    BY BlockType
<1>2. Len(b) > 0
    BY <1>1, TopType
<1> DEFINE n == Len(b)
<1>3. Buddy(b) = [i \in 1 .. n |-> IF i = n THEN 1 - b[i] ELSE b[i]]
    BY DEF Buddy
<1>10. \A i \in 1 .. n : (b[i] = 0 /\ 1 - b[i] = 1) \/ (b[i] = 1 /\ 1 - b[i] = 0)
    BY <1>1
<1> HIDE DEF n
<1>4. Buddy(b) \in [1 .. n -> Bit]
  <2>1. \A i \in 1 .. n : (IF i = n THEN 1 - b[i] ELSE b[i]) \in Bit
      BY <1>10 DEF Bit
  <2> QED
      BY <1>3, <2>1
<1>5. Buddy(b) \in Blocks /\ Len(Buddy(b)) = n
    BY <1>1, <1>4, SequenceIsBlock DEF n
<1>6. Buddy(b) # Top
    BY <1>2, <1>5, TopType DEF n
<1>11. n \in Nat /\ n \in 1 .. n
    BY <1>1, <1>2 DEF n
<1>7. (\A i \in 1 .. n - 1 : Buddy(b)[i] = b[i]) /\ Buddy(b)[n] = 1 - b[n]
    BY <1>3, <1>11
<1>8. Buddy(b) # b
    BY <1>7, <1>10, <1>11
<1>9. Buddy(Buddy(b)) = b
  <2> DEFINE c == Buddy(b)
  <2> HIDE DEF c
  <2>1. Buddy(c) = [i \in 1 .. n |-> IF i = n THEN 1 - c[i] ELSE c[i]]
      BY <1>5 DEF Buddy, c, n
  <2>2. \A i \in 1 .. n : c[i] = IF i = n THEN 1 - b[i] ELSE b[i]
      BY <1>3 DEF c
  <2>3. ASSUME NEW i \in 1 .. n PROVE Buddy(c)[i] = b[i]
    <3>1. Buddy(c)[i] = IF i = n THEN 1 - c[i] ELSE c[i]
        BY <2>1
    <3>2. c[i] = IF i = n THEN 1 - b[i] ELSE b[i]
        BY <2>2
    <3>3. 1 - 1 = 0 /\ 1 - 0 = 1
        OBVIOUS
    <3> QED
        BY <1>10, <3>1, <3>2, <3>3
  <2>4. Buddy(c) \in [1 .. n -> Bit]
      BY <1>10, <2>1, <2>3 DEF Bit
  <2>5. Buddy(c) \in Blocks /\ Len(Buddy(c)) = n
      BY <1>1, <2>4, SequenceIsBlock DEF n
  <2> QED
      BY <2>3, <2>5, BlocksEqual DEF c, n
<1> QED
    BY <1>2, <1>5, <1>6, <1>7, <1>8, <1>9 DEF n

\* Two blocks that part at the last bit are buddies.
LEMMA PartAtLast ==
    ASSUME NEW b \in Blocks, NEW c \in Blocks, Len(b) = Len(c), b # c,
           \A i \in 1 .. Len(b) - 1 : b[i] = c[i]
    PROVE  b # Top /\ c # Top /\ c = Buddy(b)
<1>1. /\ Len(b) \in Nat /\ (\A i \in 1 .. Len(b) : b[i] \in {0, 1})
      /\ \A i \in 1 .. Len(b) : c[i] \in {0, 1}
    BY BlockType
<1>2. b # Top /\ c # Top
    BY TopType
<1>3. /\ Len(b) > 0 /\ Buddy(b) \in Blocks /\ Len(Buddy(b)) = Len(b)
      /\ \A i \in 1 .. Len(b) - 1 : Buddy(b)[i] = b[i]
      /\ Buddy(b)[Len(b)] = 1 - b[Len(b)]
    BY <1>2, BuddyType
<1>4. b[Len(b)] # c[Len(b)]
  <2>1. SUFFICES ASSUME b[Len(b)] = c[Len(b)] PROVE FALSE
      OBVIOUS
  <2>2. \A i \in 1 .. Len(b) : i \in 1 .. Len(b) - 1 \/ i = Len(b)
      BY <1>1
  <2> QED
      BY <2>1, <2>2, BlocksEqual
<1>5. \A i \in 1 .. Len(b) : c[i] = Buddy(b)[i]
    BY <1>1, <1>3, <1>4
<1> QED
    BY <1>2, <1>3, <1>5, BlocksEqual

\* The first block of a tier inside a block.
LEMMA FirstType ==
    ASSUME NEW b \in Blocks, NEW t \in Tiers, Len(b) <= t
    PROVE  /\ FirstIn(b, t) \in Blocks /\ Len(FirstIn(b, t)) = t
           /\ Above(b, FirstIn(b, t))
           /\ \A i \in 1 .. t : FirstIn(b, t)[i] = IF i <= Len(b) THEN b[i] ELSE 0
<1>1. t \in Nat /\ Len(b) \in Nat /\ \A i \in 1 .. Len(b) : b[i] \in {0, 1}
    BY BlockType DEF Tiers
<1>2. FirstIn(b, t) \in [1 .. t -> Bit]
    BY <1>1 DEF FirstIn, Bit
<1>3. FirstIn(b, t) \in Blocks /\ Len(FirstIn(b, t)) = t
    BY <1>2, SequenceIsBlock
<1>4. \A i \in 1 .. t : FirstIn(b, t)[i] = IF i <= Len(b) THEN b[i] ELSE 0
    BY DEF FirstIn
<1> QED
    BY <1>1, <1>3, <1>4 DEF Above

LEMMA FirstIsAbove ==
    ASSUME NEW b \in Blocks, NEW t \in Tiers, NEW u \in Tiers, Len(b) <= t, t <= u
    PROVE  FirstIn(b, Len(b)) = b /\ Above(FirstIn(b, t), FirstIn(b, u))
<1>1. t \in Nat /\ u \in Nat /\ Len(b) \in Nat /\ Len(b) \in Tiers
    BY BlockType DEF Tiers
<1>2. FirstIn(b, Len(b)) = b
  <2>1. Len(b) <= Len(b)
      BY <1>1
  <2>2. FirstIn(b, Len(b)) \in Blocks /\ Len(FirstIn(b, Len(b))) = Len(b)
        /\ \A i \in 1 .. Len(b) : FirstIn(b, Len(b))[i] = b[i]
      BY <1>1, <2>1, FirstType
  <2> QED
      BY <2>2, BlocksEqual
<1>3. Above(FirstIn(b, t), FirstIn(b, u))
  <2>1. Len(b) <= u
      BY <1>1
  <2>2. /\ Len(FirstIn(b, t)) = t /\ Len(FirstIn(b, u)) = u
        /\ \A i \in 1 .. t : FirstIn(b, t)[i] = IF i <= Len(b) THEN b[i] ELSE 0
        /\ \A i \in 1 .. u : FirstIn(b, u)[i] = IF i <= Len(b) THEN b[i] ELSE 0
      BY <2>1, FirstType
  <2> QED
      BY <1>1, <2>2 DEF Above
<1> QED
    BY <1>2, <1>3

-----------------------------------------------------------------------------
(* Flags and chains *)

\* No block of a set is part of another one.
Apart(given) == given \subseteq Blocks /\ \A a, b \in given : Above(a, b) => a = b

\* The blocks whose flags are set when these are given out.
Used(given) == {b \in Blocks : \E a \in given : Above(b, a)}

\* The blocks of a tier that belong in its chain.
Vacant(flags, t) ==
    {b \in Blocks : Len(b) = t /\ b \notin flags /\ (b = Top \/ Buddy(b) \in flags)}

\* Flags are set downwards.
LEMMA UsedIsNested ==
    ASSUME NEW given, Apart(given), NEW b \in Used(given), NEW c \in Blocks, Above(c, b)
    PROVE  c \in Used(given)
BY AboveOrder DEF Used, Apart

\* What is above a block and not the block itself is above its buddy.
LEMMA AboveBuddy ==
    ASSUME NEW b \in Blocks, NEW c \in Blocks, Above(c, b), Len(c) < Len(b)
    PROVE  b # Top /\ Above(c, Buddy(b))
<1>1. Len(b) \in Nat /\ Len(c) \in Nat
    BY BlockType
<1>2. b # Top
    BY <1>1, TopType
<1>3. Len(Buddy(b)) = Len(b) /\ \A i \in 1 .. Len(b) - 1 : Buddy(b)[i] = b[i]
    BY <1>2, BuddyType
<1> QED
    BY <1>1, <1>2, <1>3 DEF Above

\* The flags that obtain sets on the way down from a free block are those of the
\* blocks above the one it returns, which is no part of any given out before.
LEMMA ObtainUsed ==
    ASSUME NEW given, Apart(given), NEW b \in Blocks, NEW tier \in Tiers, Len(b) <= tier,
           b \in Vacant(Used(given), Len(b))
    PROVE  LET a == FirstIn(b, tier) IN
           /\ a \in Blocks
           /\ \A c \in given : ~Above(a, c) /\ ~Above(c, a)
           /\ Apart(given \union {a})
           /\ Used(given \union {a}) = Used(given) \union {FirstIn(b, t) : t \in Len(b) .. tier}
<1> DEFINE a == FirstIn(b, tier)
<1>1. Len(b) \in Nat /\ tier \in Nat /\ Len(b) .. tier \subseteq Tiers
    BY BlockType, ConstantsAssumption DEF Tiers
<1>2. a \in Blocks /\ Len(a) = tier /\ Above(b, a)
    BY FirstType
<1>3. b \notin Used(given) /\ (b = Top \/ Buddy(b) \in Used(given))
    BY DEF Vacant
<1> HIDE DEF a
<1>4. ASSUME NEW c \in Blocks, Above(c, b), c # b PROVE \E d \in given : Above(c, d) /\ c # d
  <2>1. Len(c) < Len(b)
      BY <1>1, <1>4, AboveOrder, BlockType DEF Above
  <2>2. b # Top /\ Above(c, Buddy(b))
      BY <1>4, <2>1, AboveBuddy
  <2>3. PICK d \in given : Above(Buddy(b), d)
      BY <1>3, <2>2 DEF Used
  <2>4. Buddy(b) \in Blocks /\ Len(Buddy(b)) = Len(b) /\ d \in Blocks
      BY <2>2, BuddyType DEF Apart
  <2>5. Above(c, d)
      BY <1>4, <2>2, <2>3, <2>4, AboveOrder
  <2>6. Len(c) # Len(d)
      BY <1>1, <2>1, <2>3, <2>4, BlockType DEF Above
  <2> QED
      BY <2>5, <2>6
<1>5. ASSUME NEW c \in given PROVE ~Above(a, c) /\ ~Above(c, a)
  <2>0. c \in Blocks /\ c \in Used(given)
      BY AboveOrder DEF Apart, Used
  <2>1. ~Above(b, c)
      BY <1>3, <2>0 DEF Used
  <2>2. ~Above(a, c)
      BY <1>2, <2>0, <2>1, AboveOrder
  <2>3. CASE Above(c, a)
    <3>1. Above(c, b)
        BY <1>1, <1>2, <2>0, <2>1, <2>3, AboveOrder, BlockType
    <3>2. c # b
        BY <1>3, <2>0
    <3>3. PICK d \in given : Above(c, d) /\ c # d
        BY <1>4, <2>0, <3>1, <3>2
    <3> QED
        BY <3>3 DEF Apart
  <2> QED
      BY <2>2, <2>3
<1>6. Apart(given \union {a})
    BY <1>2, <1>5, AboveOrder DEF Apart
<1>7. ASSUME NEW c \in Used(given \union {a}) PROVE c \in Used(given) \union {FirstIn(b, t) : t \in Len(b) .. tier}
  <2>0. c \in Blocks /\ Len(c) \in Nat
      BY BlockType DEF Used
  <2>1. CASE Above(c, a) /\ Len(b) <= Len(c)
    <3>1. Len(c) \in Len(b) .. tier /\ Len(c) \in Tiers
        BY <1>1, <1>2, <2>0, <2>1 DEF Above
    <3>2. FirstIn(b, Len(c)) \in Blocks /\ Len(FirstIn(b, Len(c))) = Len(c) /\ Above(FirstIn(b, Len(c)), a)
        BY <1>1, <2>0, <3>1, FirstType, FirstIsAbove DEF a
    <3>3. FirstIn(b, Len(c)) = c
        BY <1>1, <1>2, <2>0, <2>1, <3>2, AboveOrder, BlockType
    <3> QED
        BY <3>1, <3>3
  <2>2. CASE Above(c, a) /\ Len(c) < Len(b)
    <3>1. Above(c, b) /\ c # b
        BY <1>1, <1>2, <2>0, <2>2, AboveOrder, BlockType
    <3> QED
        BY <1>4, <2>0, <3>1 DEF Used
  <2>3. CASE ~Above(c, a)
      BY <2>0, <2>3 DEF Used
  <2> QED
      BY <1>1, <2>0, <2>1, <2>2, <2>3
<1>8. ASSUME NEW t \in Len(b) .. tier PROVE FirstIn(b, t) \in Used(given \union {a})
  <2>1. t \in Tiers /\ Len(b) <= t /\ t <= tier
      BY <1>1
  <2>2. FirstIn(b, t) \in Blocks /\ Above(FirstIn(b, t), a)
      BY <2>1, FirstType, FirstIsAbove DEF a
  <2> QED
      BY <2>2 DEF Used
<1>9. Used(given) \subseteq Used(given \union {a})
    BY DEF Used
<1> QED
    BY <1>2, <1>5, <1>6, <1>7, <1>8, <1>9 DEF a

\* The flags after obtain has split block b down to a tier.
Splits(flags, given, b, tier) ==
    \A c : c \in flags <=> c \in Used(given) \/ \E u \in Len(b) .. tier : c = FirstIn(b, u)

\* What obtain does to the chains: a block leaves the first one, and of every tier
\* below a second half, which is vacant alone there.
LEMMA ObtainVacant ==
    ASSUME NEW given, Apart(given), NEW b \in Blocks, NEW tier \in Tiers, Len(b) <= tier,
           b \in Vacant(Used(given), Len(b)),
           NEW flags, Splits(flags, given, b, tier),
           NEW t \in Tiers
    PROVE  /\ t < Len(b) \/ t > tier => Vacant(flags, t) = Vacant(Used(given), t)
           /\ t = Len(b) => Vacant(flags, t) = Vacant(Used(given), t) \ {b}
           /\ t \in Len(b) + 1 .. tier =>
                /\ Buddy(FirstIn(b, t)) \in Blocks
                /\ Vacant(Used(given), t) = {} => Vacant(flags, t) = {Buddy(FirstIn(b, t))}
<1> DEFINE U == Used(given)
<1>0. Len(b) \in Nat /\ tier \in Nat /\ t \in Nat /\ Len(b) .. tier \subseteq Tiers /\ U \subseteq Blocks
    BY BlockType, ConstantsAssumption DEF Tiers, Used
<1>1. \A u \in Len(b) .. tier : FirstIn(b, u) \in Blocks /\ Len(FirstIn(b, u)) = u /\ Above(b, FirstIn(b, u))
    BY <1>0, FirstType
<1>2. \A c : c \in flags <=> c \in U \/ \E u \in Len(b) .. tier : c = FirstIn(b, u)
    BY DEF U, Splits
<1> HIDE DEF U
<1>3. ASSUME NEW c \in Blocks, Len(c) = t
      PROVE  c \in flags <=> c \in U \/ (t \in Len(b) .. tier /\ c = FirstIn(b, t))
    BY <1>1, <1>2, <1>3
<1>4. ASSUME NEW c \in Blocks, Len(c) = t, c # Top PROVE Buddy(c) \in Blocks /\ Len(Buddy(c)) = t
    BY <1>4, BuddyType
<1>5. CASE t < Len(b) \/ t > tier
  <2>1. t # Len(b) /\ t \notin Len(b) .. tier /\ t \notin Len(b) + 1 .. tier
      BY <1>0, <1>5
  <2>2. \A c \in Blocks : Len(c) = t => (c \in flags <=> c \in U)
      BY <1>3, <2>1
  <2>3. Vacant(flags, t) = Vacant(U, t)
      BY <1>4, <2>2 DEF Vacant
  <2> QED
      BY <2>1, <2>3 DEF U
<1>6. CASE t = Len(b)
  <2>1. FirstIn(b, t) = b /\ t \in Len(b) .. tier
      BY <1>0, <1>6, FirstIsAbove
  <2>2. b \notin U /\ (b = Top \/ Buddy(b) \in U)
      BY DEF Vacant, U
  <2>3. ASSUME NEW c \in Blocks, Len(c) = t, c # Top, Buddy(c) = b PROVE c \in U
      BY <2>2, <2>3, BuddyType
  <2>4. ASSUME NEW c \in Blocks, Len(c) = t
        PROVE c \in Vacant(flags, t) <=> c \in Vacant(U, t) /\ c # b
      BY <1>3, <1>4, <2>1, <2>2, <2>3, <2>4 DEF Vacant
  <2> QED
      BY <1>0, <1>6, <2>4 DEF Vacant, U
<1>7. CASE t \in Len(b) + 1 .. tier
  <2> DEFINE f == FirstIn(b, t)
  <2>1. f \in Blocks /\ Len(f) = t /\ Above(b, f) /\ Len(b) < t /\ t \in Len(b) .. tier /\ f # Top
      BY <1>0, <1>1, <1>7, TopType
  <2> HIDE DEF f
  <2>2. Buddy(f) \in Blocks /\ Len(Buddy(f)) = t /\ Buddy(f) # f /\ Above(b, Buddy(f)) /\ Buddy(Buddy(f)) = f /\ Buddy(f) # Top
      BY <2>1, BuddyType, AboveBuddy
  <2>3. Buddy(f) \notin U
      BY <2>2, UsedIsNested DEF Vacant, U
  <2>4. ASSUME Vacant(U, t) = {} PROVE Vacant(flags, t) = {Buddy(f)}
    <3>1. Buddy(f) \notin flags /\ f \in flags
        BY <1>3, <2>1, <2>2, <2>3 DEF f
    <3>2. Buddy(f) \in Vacant(flags, t)
        BY <2>2, <3>1 DEF Vacant
    <3>3. ASSUME NEW c \in Vacant(flags, t) PROVE c = Buddy(f)
      <4>1. c \in Blocks /\ Len(c) = t /\ c \notin flags /\ c # Top /\ Buddy(c) \in flags
          BY <1>0, <2>1, <3>3, TopType DEF Vacant
      <4>2. c \notin U
          BY <1>2, <4>1
      <4>3. Buddy(c) \notin U
          BY <2>4, <4>1, <4>2 DEF Vacant
      <4>4. Buddy(c) = f
          BY <1>3, <1>4, <4>1, <4>3 DEF f
      <4> QED
          BY <4>1, <4>4, BuddyType
    <3> QED
        BY <3>2, <3>3
  <2> QED
      BY <1>0, <2>1, <2>2, <2>4 DEF f, U
<1> QED
    BY <1>0, <1>5, <1>6, <1>7

\* A set of tiers, or of bits, has a first one.
LEMMA Least ==
    ASSUME NEW S, S \subseteq Nat, S # {}
    PROVE  \E x \in S : \A y \in S : x <= y
<1>1. IsWellFoundedOn(OpToRel(<, Nat), Nat)
    BY NatLessThanWellFounded
<1>2. PICK x \in S : \A y \in S : ~(<<y, x>> \in OpToRel(<, Nat))
    BY <1>1, WFMin
<1>3. \A y \in S : ~(y < x)
    BY <1>2 DEF OpToRel
<1>4. \A y \in S : x <= y
  <2>1. \A y \in S : x \in Nat /\ y \in Nat
      OBVIOUS
  <2> QED
      BY <1>3, <2>1
<1> QED
    BY <1>4

\* Two blocks of which neither is part of the other lie in buddies further up.
LEMMA PartSomewhere ==
    ASSUME NEW b \in Blocks, NEW c \in Blocks, ~Above(b, c), ~Above(c, b)
    PROVE  \E m \in 1 .. Len(b) :
             /\ m <= Len(c) /\ b[m] # c[m]
             /\ SubSeq(c, 1, m) = Buddy(SubSeq(b, 1, m))
<1> DEFINE D == {i \in 1 .. Len(b) : i <= Len(c) /\ b[i] # c[i]}
<1>1. Len(b) \in Nat /\ Len(c) \in Nat
    BY BlockType
<1>2. D # {}
    BY <1>1 DEF Above
<1>3. D \subseteq Nat
    BY <1>1
<1>4. PICK m \in D : \A i \in D : m <= i
    BY <1>2, <1>3, Least
<1>5. m \in 1 .. Len(b) /\ m <= Len(c) /\ b[m] # c[m] /\ m \in Nat
    BY <1>1, <1>4
<1>6. \A i \in 1 .. m - 1 : b[i] = c[i]
    BY <1>1, <1>4, <1>5
<1>7. m \in 0 .. Len(b) /\ m \in 0 .. Len(c)
    BY <1>1, <1>5
<1>8. /\ SubSeq(b, 1, m) \in Blocks /\ Len(SubSeq(b, 1, m)) = m
      /\ \A i \in 1 .. m : SubSeq(b, 1, m)[i] = b[i]
      /\ SubSeq(c, 1, m) \in Blocks /\ Len(SubSeq(c, 1, m)) = m
      /\ \A i \in 1 .. m : SubSeq(c, 1, m)[i] = c[i]
    BY <1>7, CutType
<1>9. m \in 1 .. m /\ 1 .. m - 1 \subseteq 1 .. m
    BY <1>5
<1>10. SubSeq(b, 1, m) # SubSeq(c, 1, m)
    BY <1>5, <1>8, <1>9
<1>11. \A i \in 1 .. m - 1 : SubSeq(b, 1, m)[i] = SubSeq(c, 1, m)[i]
    BY <1>6, <1>8, <1>9
<1> QED
    BY <1>5, <1>8, <1>10, <1>11, PartAtLast

\* What recycle finds when it climbs from a block that was given out.
Climbed(given, b, k) ==
    /\ Apart(given) /\ b \in given /\ k \in 0 .. Len(b)
    /\ k = 0 \/ Buddy(SubSeq(b, 1, k)) \in Used(given)
    /\ \A j \in k + 1 .. Len(b) : Buddy(SubSeq(b, 1, j)) \notin Used(given)

\* The flags that recycle clears are those that no other block needs.
LEMMA RecycleUsed ==
    ASSUME NEW given, NEW b, NEW k, Climbed(given, b, k)
    PROVE  /\ Apart(given \ {b})
           /\ Used(given \ {b}) = Used(given) \ {SubSeq(b, 1, j) : j \in k .. Len(b)}
<1>1. /\ Apart(given) /\ b \in given /\ b \in Blocks /\ k \in 0 .. Len(b) /\ Len(b) \in Nat /\ k \in Nat
      /\ k = 0 \/ Buddy(SubSeq(b, 1, k)) \in Used(given)
      /\ \A j \in k + 1 .. Len(b) : Buddy(SubSeq(b, 1, j)) \notin Used(given)
    BY BlockType DEF Climbed, Apart
<1>2. Apart(given \ {b})
    BY <1>1 DEF Apart
<1>3. ASSUME NEW c \in Used(given \ {b}), NEW j \in k .. Len(b), c = SubSeq(b, 1, j) PROVE FALSE
  <2>1. PICK y \in given : y # b /\ Above(c, y)
      BY <1>3 DEF Used
  <2>2. y \in Blocks /\ ~Above(b, y) /\ ~Above(y, b) /\ j \in 0 .. Len(b)
      BY <1>1, <2>1 DEF Apart
  <2>3. PICK m \in 1 .. Len(b) : /\ m <= Len(y) /\ b[m] # y[m]
                                 /\ SubSeq(y, 1, m) = Buddy(SubSeq(b, 1, m))
      BY <1>1, <2>2, PartSomewhere
  <2>4. Len(y) \in Nat /\ m \in 0 .. Len(y) /\ m \in Nat
      BY <2>2, <2>3, BlockType
  <2>5. SubSeq(y, 1, m) \in Blocks /\ Above(SubSeq(y, 1, m), y)
      BY <2>2, <2>4, CutType, CutIsAbove
  <2>6. Buddy(SubSeq(b, 1, m)) \in Used(given)
      BY <2>3, <2>5 DEF Used
  <2>7. Len(c) = j /\ \A i \in 1 .. j : c[i] = b[i]
      BY <1>1, <1>3, <2>2, CutType
  <2>8. \A i \in 1 .. j : b[i] = y[i]
      BY <2>1, <2>7 DEF Above
  <2>9. m \in k + 1 .. Len(b)
      BY <1>1, <2>2, <2>3, <2>8
  <2> QED
      BY <1>1, <2>6, <2>9
<1>4. ASSUME NEW c \in Used(given), \A j \in k .. Len(b) : c # SubSeq(b, 1, j) PROVE c \in Used(given \ {b})
  <2>1. PICK a \in given : Above(c, a) /\ c \in Blocks
      BY DEF Used
  <2>2. CASE a = b
    <3> DEFINE s == SubSeq(b, 1, k)
    <3>1. Len(c) \in Nat /\ Len(c) <= Len(b) /\ c = SubSeq(b, 1, Len(c))
        BY <1>1, <2>1, <2>2, BlockType, CutIsAbove
    <3>2. Len(c) < k /\ k # 0
      <4>1. Len(c) \notin k .. Len(b)
          BY <1>4, <3>1
      <4> QED
          BY <1>1, <3>1, <4>1
    <3>3. s \in Blocks /\ Len(s) = k /\ Above(s, b)
        BY <1>1, CutType, CutIsAbove
    <3> HIDE DEF s
    <3>4. Above(c, s)
        BY <1>1, <2>1, <2>2, <3>2, <3>3, AboveOrder
    <3>5. s # Top /\ Above(c, Buddy(s))
        BY <2>1, <3>2, <3>3, <3>4, AboveBuddy
    <3>6. Buddy(s) \in Blocks /\ Len(Buddy(s)) = k /\ Buddy(s) # s
        BY <3>3, <3>5, BuddyType
    <3>7. PICK y \in given : Above(Buddy(s), y)
        BY <1>1, <3>2 DEF Used, s
    <3>8. y # b
        BY <1>1, <3>3, <3>6, <3>7, AboveOrder
    <3>9. Above(c, y)
        BY <1>1, <2>1, <3>5, <3>6, <3>7, AboveOrder DEF Apart
    <3> QED
        BY <2>1, <3>8, <3>9 DEF Used
  <2>3. CASE a # b
      BY <2>1, <2>3 DEF Used
  <2> QED
      BY <2>2, <2>3
<1>5. Used(given \ {b}) \subseteq Used(given)
    BY DEF Used
<1> QED
    BY <1>2, <1>3, <1>4, <1>5

\* The flags after recycle has climbed from block b to tier k.
Merges(flags, given, b, k) ==
    \A c : c \in flags <=> c \in Used(given) /\ \A j \in k .. Len(b) : c # SubSeq(b, 1, j)

\* The buddies that recycle takes off the chains are in them, and the merged block
\* is not in the one it joins.
LEMMA RecycleVacant ==
    ASSUME NEW given, NEW b, NEW k, Climbed(given, b, k),
           NEW flags, Merges(flags, given, b, k),
           NEW t \in Tiers
    PROVE  /\ t < k \/ t > Len(b) => Vacant(flags, t) = Vacant(Used(given), t)
           /\ t = k => /\ SubSeq(b, 1, k) \in Blocks
                       /\ SubSeq(b, 1, k) \notin Vacant(Used(given), t)
                       /\ Vacant(flags, t) = Vacant(Used(given), t) \union {SubSeq(b, 1, k)}
           /\ t \in k + 1 .. Len(b) =>
                /\ Buddy(SubSeq(b, 1, t)) \in Vacant(Used(given), t)
                /\ Vacant(flags, t) = Vacant(Used(given), t) \ {Buddy(SubSeq(b, 1, t))}
<1> DEFINE U == Used(given)
<1>1. /\ Apart(given) /\ b \in given /\ b \in Blocks /\ k \in 0 .. Len(b) /\ Len(b) \in Nat /\ k \in Nat
      /\ k = 0 \/ Buddy(SubSeq(b, 1, k)) \in U
      /\ \A j \in k + 1 .. Len(b) : Buddy(SubSeq(b, 1, j)) \notin U
      /\ t \in Nat
    BY BlockType DEF Climbed, Apart, Tiers
<1>2. \A j \in k .. Len(b) : SubSeq(b, 1, j) \in Blocks /\ Len(SubSeq(b, 1, j)) = j /\ SubSeq(b, 1, j) \in U
  <2>1. ASSUME NEW j \in k .. Len(b)
        PROVE  SubSeq(b, 1, j) \in Blocks /\ Len(SubSeq(b, 1, j)) = j /\ Above(SubSeq(b, 1, j), b)
    <3>1. j \in 0 .. Len(b)
        BY <1>1
    <3> QED
        BY <1>1, <3>1, CutType, CutIsAbove
  <2> QED
      BY <1>1, <2>1 DEF Used
<1> HIDE DEF U
<1>3. ASSUME NEW c \in Blocks, Len(c) = t
      PROVE  c \in flags <=> c \in U /\ ~(t \in k .. Len(b) /\ c = SubSeq(b, 1, t))
  <2>1. c \in flags <=> c \in U /\ \A j \in k .. Len(b) : c # SubSeq(b, 1, j)
      BY DEF U, Merges
  <2> QED
      BY <1>2, <1>3, <2>1
<1>4. ASSUME NEW c \in Blocks, Len(c) = t, c # Top
      PROVE  Buddy(c) \in Blocks /\ Len(Buddy(c)) = t /\ Buddy(c) # Top /\ Buddy(Buddy(c)) = c /\ Buddy(c) # c
    BY <1>4, BuddyType
<1>5. CASE t < k \/ t > Len(b)
    BY <1>1, <1>3, <1>4, <1>5 DEF Vacant, U
<1> DEFINE s == SubSeq(b, 1, t)
<1>6. t \in k .. Len(b) => s \in Blocks /\ Len(s) = t /\ s \in U
    BY <1>2
<1>7. CASE t = k
  <2>1. s \in Blocks /\ Len(s) = t /\ s \in U /\ t \in k .. Len(b)
      BY <1>1, <1>6, <1>7
  <2>2. s # Top => Buddy(s) \in U
      BY <1>1, <1>7, <2>1, TopType
  <2> HIDE DEF s
  <2>3. s \notin Vacant(U, t)
      BY <2>1 DEF Vacant
  <2>4. s \in Vacant(flags, t)
    <3>1. s \notin flags /\ (s # Top => Buddy(s) \in flags)
        BY <1>3, <1>4, <2>1, <2>2 DEF s
    <3> QED
        BY <2>1, <3>1 DEF Vacant
  <2>5. ASSUME NEW c \in Blocks, Len(c) = t, c # s PROVE c \in Vacant(flags, t) <=> c \in Vacant(U, t)
    <3>1. c \in flags <=> c \in U
        BY <1>3, <2>5 DEF s
    <3>2. c # Top /\ Buddy(c) = s => s # Top /\ c = Buddy(s)
        BY <1>4, <2>5
    <3>3. c # Top /\ c \notin U => (Buddy(c) \in flags <=> Buddy(c) \in U)
        BY <1>3, <1>4, <2>2, <2>5, <3>2 DEF s
    <3> QED
        BY <2>5, <3>1, <3>3 DEF Vacant
  <2>6. Vacant(flags, t) = Vacant(U, t) \union {s}
      BY <2>1, <2>4, <2>5 DEF Vacant
  <2> QED
      BY <1>1, <1>7, <2>1, <2>3, <2>6 DEF s, U
<1>8. CASE t \in k + 1 .. Len(b)
  <2>1. s \in Blocks /\ Len(s) = t /\ s \in U /\ t \in k .. Len(b) /\ Buddy(s) \notin U /\ s # Top
      BY <1>1, <1>6, <1>8, TopType
  <2> HIDE DEF s
  <2>2. Buddy(s) \in Blocks /\ Len(Buddy(s)) = t /\ Buddy(s) # Top /\ Buddy(Buddy(s)) = s /\ Buddy(s) # s
      BY <1>4, <2>1
  <2>3. Buddy(s) \in Vacant(U, t)
      BY <2>1, <2>2 DEF Vacant
  <2>4. s \notin flags /\ Buddy(s) \notin flags
      BY <1>3, <2>1, <2>2 DEF s
  <2>5. Buddy(s) \notin Vacant(flags, t) /\ s \notin Vacant(flags, t) /\ s \notin Vacant(U, t)
      BY <2>1, <2>2, <2>4 DEF Vacant
  <2>6. ASSUME NEW c \in Blocks, Len(c) = t, c # s, c # Buddy(s)
        PROVE  c \in Vacant(flags, t) <=> c \in Vacant(U, t)
    <3>1. c \in flags <=> c \in U
        BY <1>3, <2>6 DEF s
    <3>2. c # Top => Buddy(c) # s
        BY <1>4, <2>6
    <3>3. c # Top => (Buddy(c) \in flags <=> Buddy(c) \in U)
        BY <1>3, <1>4, <2>6, <3>2 DEF s
    <3> QED
        BY <2>6, <3>1, <3>3 DEF Vacant
  <2>7. Vacant(flags, t) = Vacant(U, t) \ {Buddy(s)}
      BY <2>5, <2>6 DEF Vacant
  <2> QED
      BY <1>1, <1>8, <2>3, <2>7 DEF s, U
<1> QED
    BY <1>1, <1>5, <1>7, <1>8 DEF U

-----------------------------------------------------------------------------
(* Chains *)

\* Chain c holds every block of S once and no other.
Lists(c, S) == c \in Seq(Blocks) /\ IsInjective(c) /\ ToSet(c) = S

LEMMA ListsPointwise ==
    ASSUME NEW S, NEW c \in Seq(Blocks)
    PROVE  Lists(c, S) <=> /\ \A i \in 1 .. Len(c) : c[i] \in S
                           /\ \A x \in S : \E i \in 1 .. Len(c) : c[i] = x
                           /\ \A i, j \in 1 .. Len(c) : c[i] = c[j] => i = j
<1>1. DOMAIN c = 1 .. Len(c)
    BY LenProperties
<1>2. IsInjective(c) <=> \A i, j \in 1 .. Len(c) : c[i] = c[j] => i = j
    BY <1>1 DEF IsInjective
<1>3. \A x : x \in ToSet(c) <=> \E i \in 1 .. Len(c) : c[i] = x
    BY <1>1 DEF ToSet
<1>4. ToSet(c) = S <=> \A x : x \in ToSet(c) <=> x \in S
    OBVIOUS
<1> QED
    BY <1>2, <1>3, <1>4 DEF Lists

LEMMA ListsNone == Lists(<<>>, {})
<1>1. PICK c \in Seq(Blocks) : c = <<>> /\ Len(c) = 0
    BY EmptySeq
<1>2. \A i \in 1 .. Len(c) : FALSE
    BY <1>1
<1>3. Lists(c, {})
    BY <1>2, ListsPointwise
<1> QED
    BY <1>1, <1>3

LEMMA ListsOfEmpty ==
    ASSUME NEW S, NEW c, Lists(c, S)
    PROVE  c = <<>> <=> S = {}
<1>1. c \in Seq(Blocks) /\ Len(c) \in Nat
    BY LenProperties DEF Lists
<1>2. /\ \A i \in 1 .. Len(c) : c[i] \in S
      /\ \A x \in S : \E i \in 1 .. Len(c) : c[i] = x
    BY <1>1, ListsPointwise
<1>3. c # <<>> => Len(c) \in Nat \ {0}
    BY <1>1, EmptySeq
<1>4. c # <<>> => 1 \in 1 .. Len(c)
    BY <1>3
<1>5. c = <<>> => Len(c) = 0
    BY EmptySeq
<1> QED
    BY <1>2, <1>4, <1>5

\* A block joins a chain.
LEMMA ListsCons ==
    ASSUME NEW S, NEW c, Lists(c, S), NEW x \in Blocks, x \notin S
    PROVE  Lists(Cons(x, c), S \union {x})
<1> DEFINE d == Cons(x, c)
<1>1. c \in Seq(Blocks) /\ Len(c) \in Nat /\ <<x>> \in Seq(Blocks) /\ Len(<<x>>) = 1 /\ <<x>>[1] = x
    BY LenProperties DEF Lists
<1>2. /\ \A i \in 1 .. Len(c) : c[i] \in S
      /\ \A y \in S : \E i \in 1 .. Len(c) : c[i] = y
      /\ \A i, j \in 1 .. Len(c) : c[i] = c[j] => i = j
    BY <1>1, ListsPointwise
<1>3. /\ d \in Seq(Blocks) /\ Len(d) = 1 + Len(c)
      /\ \A i \in 1 .. 1 + Len(c) : d[i] = IF i <= 1 THEN <<x>>[i] ELSE c[i - 1]
    BY <1>1, ConcatProperties DEF Cons
<1> HIDE DEF d
<1>4. d[1] = x /\ 1 \in 1 .. Len(d)
    BY <1>1, <1>3
<1>5. \A i \in 1 .. Len(d) : i = 1 \/ (i - 1 \in 1 .. Len(c) /\ d[i] = c[i - 1])
    BY <1>1, <1>3
<1>6. \A i \in 1 .. Len(c) : i + 1 \in 1 .. Len(d) /\ d[i + 1] = c[i]
  <2>1. ASSUME NEW i \in 1 .. Len(c) PROVE i + 1 \in 1 .. Len(d) /\ d[i + 1] = c[i]
    <3>1. i + 1 \in 1 .. Len(d) /\ i + 1 # 1 /\ (i + 1) - 1 = i
        BY <1>1, <1>3
    <3> QED
        BY <1>5, <3>1
  <2> QED
      BY <2>1
<1>7. \A i \in 1 .. Len(d) : d[i] \in S \union {x}
    BY <1>2, <1>4, <1>5
<1>8. \A y \in S \union {x} : \E i \in 1 .. Len(d) : d[i] = y
    BY <1>2, <1>4, <1>6
<1>9. ASSUME NEW i \in 1 .. Len(d), NEW j \in 1 .. Len(d), d[i] = d[j] PROVE i = j
  <2>1. i = 1 <=> d[i] = x
      BY <1>2, <1>4, <1>5
  <2>2. j = 1 <=> d[j] = x
      BY <1>2, <1>4, <1>5
  <2>3. CASE i # 1 /\ j # 1
    <3>1. i - 1 = j - 1
        BY <1>2, <1>5, <1>9, <2>3
    <3> QED
        BY <1>1, <1>3, <3>1
  <2> QED
      BY <1>9, <2>1, <2>2, <2>3
<1> QED
    BY <1>3, <1>7, <1>8, <1>9, ListsPointwise DEF d

\* What is left of a chain when the block at position n is removed.
LEMMA ListsRemove ==
    ASSUME NEW S, NEW c, Lists(c, S), NEW n \in 1 .. Len(c)
    PROVE  Lists(RemoveAt(c, n), S \ {c[n]})
<1> DEFINE d == RemoveAt(c, n)
<1> DEFINE p == SubSeq(c, 1, n - 1)
<1> DEFINE q == SubSeq(c, n + 1, Len(c))
<1>1. c \in Seq(Blocks) /\ Len(c) \in Nat /\ n \in Nat /\ n >= 1 /\ n <= Len(c)
    BY LenProperties DEF Lists
<1>2. /\ \A i \in 1 .. Len(c) : c[i] \in S
      /\ \A y \in S : \E i \in 1 .. Len(c) : c[i] = y
      /\ \A i, j \in 1 .. Len(c) : c[i] = c[j] => i = j
    BY <1>1, ListsPointwise
<1>3. \A i \in 1 .. Len(c) : c[i] \in Blocks
    BY <1>1, ElementOfSeq
<1>4. /\ p \in Seq(Blocks) /\ Len(p) = n - 1
      /\ \A i \in 1 .. n - 1 : p[i] = c[i]
  <2>1. \A i \in 1 .. n - 1 : c[i] \in Blocks
      BY <1>1, <1>3
  <2>2. 1 \in Int /\ n - 1 \in Int
      BY <1>1
  <2>3. /\ p \in Seq(Blocks)
        /\ Len(p) = IF 1 <= n - 1 THEN (n - 1) - 1 + 1 ELSE 0
        /\ \A i \in 1 .. (n - 1) - 1 + 1 : p[i] = c[1 + i - 1]
      BY <2>1, <2>2, SubSeqProperties
  <2>4. \A i \in 1 .. n - 1 : p[i] = c[i]
    <3>1. \A i \in 1 .. n - 1 : i \in 1 .. (n - 1) - 1 + 1 /\ 1 + i - 1 = i
        BY <1>1
    <3> QED
        BY <2>3, <3>1
  <2> QED
      BY <1>1, <2>3, <2>4
<1>5. /\ q \in Seq(Blocks) /\ Len(q) = Len(c) - n
      /\ \A i \in 1 .. Len(c) - n : q[i] = c[n + i]
  <2>1. \A i \in n + 1 .. Len(c) : c[i] \in Blocks
      BY <1>1, <1>3
  <2>2. n + 1 \in Int /\ Len(c) \in Int
      BY <1>1
  <2>3. /\ q \in Seq(Blocks)
        /\ Len(q) = IF n + 1 <= Len(c) THEN Len(c) - (n + 1) + 1 ELSE 0
        /\ \A i \in 1 .. Len(c) - (n + 1) + 1 : q[i] = c[n + 1 + i - 1]
      BY <2>1, <2>2, SubSeqProperties
  <2>4. \A i \in 1 .. Len(c) - n : q[i] = c[n + i]
    <3>1. \A i \in 1 .. Len(c) - n : i \in 1 .. Len(c) - (n + 1) + 1 /\ n + 1 + i - 1 = n + i
        BY <1>1
    <3> QED
        BY <2>3, <3>1
  <2> QED
      BY <1>1, <2>3, <2>4
<1> HIDE DEF p, q
<1>6. /\ d \in Seq(Blocks) /\ Len(d) = Len(c) - 1
      /\ \A i \in 1 .. Len(c) - 1 : d[i] = IF i < n THEN c[i] ELSE c[i + 1]
  <2>1. d = p \o q
      BY DEF RemoveAt, p, q
  <2>2. /\ p \o q \in Seq(Blocks) /\ Len(p \o q) = Len(p) + Len(q)
        /\ \A i \in 1 .. Len(p) + Len(q) : (p \o q)[i] = IF i <= Len(p) THEN p[i] ELSE q[i - Len(p)]
      BY <1>4, <1>5, ConcatProperties
  <2> HIDE DEF d
  <2>3. ASSUME NEW i \in 1 .. Len(c) - 1 PROVE d[i] = IF i < n THEN c[i] ELSE c[i + 1]
    <3>1. i \in 1 .. Len(p) + Len(q)
        BY <1>1, <1>4, <1>5
    <3>2. d[i] = IF i <= Len(p) THEN p[i] ELSE q[i - Len(p)]
        BY <2>1, <2>2, <3>1
    <3>3. CASE i < n
      <4>1. i <= Len(p) /\ i \in 1 .. n - 1
          BY <1>1, <1>4, <3>3
      <4> QED
          BY <1>4, <3>2, <3>3, <4>1
    <3>4. CASE ~(i < n)
      <4>1. ~(i <= Len(p)) /\ i - Len(p) \in 1 .. Len(c) - n /\ n + (i - Len(p)) = i + 1
          BY <1>1, <1>4, <3>4
      <4> QED
          BY <1>5, <3>2, <3>4, <4>1
    <3> QED
        BY <3>3, <3>4
  <2>4. Len(d) = Len(c) - 1
      BY <1>1, <1>4, <1>5, <2>1, <2>2
  <2> QED
      BY <2>1, <2>2, <2>3, <2>4
<1> HIDE DEF d
<1>7. \A i \in 1 .. Len(d) : \E j \in 1 .. Len(c) : j # n /\ d[i] = c[j] /\ j = IF i < n THEN i ELSE i + 1
  <2>1. ASSUME NEW i \in 1 .. Len(d)
        PROVE  \E j \in 1 .. Len(c) : j # n /\ d[i] = c[j] /\ j = IF i < n THEN i ELSE i + 1
    <3>1. i \in 1 .. Len(c) - 1 /\ (d[i] = IF i < n THEN c[i] ELSE c[i + 1])
        BY <1>6
    <3>2. CASE i < n
      <4>1. i \in 1 .. Len(c) /\ i # n /\ d[i] = c[i]
          BY <1>1, <3>1, <3>2
      <4> QED
          BY <3>2, <4>1
    <3>3. CASE ~(i < n)
      <4>1. i + 1 \in 1 .. Len(c) /\ i + 1 # n /\ d[i] = c[i + 1]
          BY <1>1, <3>1, <3>3
      <4> QED
          BY <3>3, <4>1
    <3> QED
        BY <3>2, <3>3
  <2> QED
      BY <2>1
<1>8. \A j \in 1 .. Len(c) : j # n => \E i \in 1 .. Len(d) : d[i] = c[j]
  <2>1. ASSUME NEW j \in 1 .. Len(c), j # n PROVE \E i \in 1 .. Len(d) : d[i] = c[j]
    <3>1. CASE j < n
      <4>1. j \in 1 .. Len(d) /\ d[j] = c[j]
          BY <1>1, <1>6, <2>1, <3>1
      <4> QED
          BY <4>1
    <3>2. CASE ~(j < n)
      <4>1. j - 1 \in 1 .. Len(c) - 1 /\ ~(j - 1 < n) /\ (j - 1) + 1 = j
          BY <1>1, <2>1, <3>2
      <4>2. d[j - 1] = c[j]
          BY <1>6, <4>1
      <4> QED
          BY <1>6, <4>1, <4>2
    <3> QED
        BY <3>1, <3>2
  <2> QED
      BY <2>1
<1>9. \A i \in 1 .. Len(d) : d[i] \in S \ {c[n]}
    BY <1>2, <1>7
<1>10. \A y \in S \ {c[n]} : \E i \in 1 .. Len(d) : d[i] = y
    BY <1>2, <1>8
<1>11. ASSUME NEW i \in 1 .. Len(d), NEW j \in 1 .. Len(d), d[i] = d[j] PROVE i = j
  <2>1. PICK a \in 1 .. Len(c) : d[i] = c[a] /\ a = IF i < n THEN i ELSE i + 1
      BY <1>7
  <2>2. PICK b \in 1 .. Len(c) : d[j] = c[b] /\ b = IF j < n THEN j ELSE j + 1
      BY <1>7
  <2>3. a = b
      BY <1>2, <1>11, <2>1, <2>2
  <2>4. i \in Nat /\ j \in Nat
      BY <1>1, <1>6
  <2> QED
      BY <1>1, <2>1, <2>2, <2>3, <2>4
<1> QED
    BY <1>6, <1>9, <1>10, <1>11, ListsPointwise DEF d

\* The first block leaves a chain.
LEMMA ListsTail ==
    ASSUME NEW S, NEW c, Lists(c, S), c # <<>>
    PROVE  Head(c) \in S /\ Head(c) \in Blocks /\ Lists(Tail(c), S \ {Head(c)})
<1>1. c \in Seq(Blocks) /\ Len(c) \in Nat \ {0}
    BY EmptySeq DEF Lists
<1>2. 1 \in 1 .. Len(c) /\ 1 \in Int /\ 1 - 1 \in Int
    BY <1>1
<1>3. Head(c) = c[1] /\ Head(c) \in S /\ Head(c) \in Blocks
    BY <1>1, <1>2, HeadTailProperties, ListsPointwise
<1>4. RemoveAt(c, 1) = Tail(c)
  <2>1. Tail(c) \in Seq(Blocks) /\ Tail(c) = SubSeq(c, 2, Len(c))
      BY <1>1, HeadTailProperties, TailIsSubSeq
  <2>2. SubSeq(c, 1, 1 - 1) = <<>>
      BY <1>2, SubSeqEmpty
  <2>3. RemoveAt(c, 1) = <<>> \o SubSeq(c, 2, Len(c))
      BY <2>2 DEF RemoveAt
  <2> QED
      BY <2>1, <2>3, ConcatEmptySeq
<1>5. Lists(RemoveAt(c, 1), S \ {c[1]})
    BY <1>2, ListsRemove
<1> QED
    BY <1>3, <1>4, <1>5

\* A block leaves a chain, wherever it is.
LEMMA ListsUnchained ==
    ASSUME NEW S, NEW c, Lists(c, S), NEW x \in S
    PROVE  Lists(Unchained(c, x), S \ {x})
<1>1. x \in ToSet(c) /\ DOMAIN c = 1 .. Len(c)
    BY LenProperties DEF Lists
<1> DEFINE n == CHOOSE i \in DOMAIN c : c[i] = x
<1>2. n \in 1 .. Len(c) /\ c[n] = x
    BY <1>1 DEF ToSet
<1>3. Unchained(c, x) = RemoveAt(c, n)
    BY <1>1 DEF Unchained
<1> HIDE DEF n
<1> QED
    BY <1>2, <1>3, ListsRemove

-----------------------------------------------------------------------------
(* The heap *)

\* The flags and the chains are what the blocks handed out make them.
Sound(h, given) ==
    /\ Apart(given)
    /\ h.inUse = Used(given)
    /\ h.chain = [t \in Tiers |-> h.chain[t]]
    /\ \A t \in Tiers : Lists(h.chain[t], Vacant(Used(given), t))

\* obtain returns a block that none given out has a part of, and leaves the heap
\* sound.
LEMMA ObtainSound ==
    ASSUME NEW h, NEW given, Sound(h, given), NEW tier \in Tiers, NEW src \in Tiers,
           Serves(h, src, tier)
    PROVE  /\ Obtained(h, src, tier) \in Blocks /\ Len(Obtained(h, src, tier)) = tier
           /\ \A c \in given : ~Above(Obtained(h, src, tier), c) /\ ~Above(c, Obtained(h, src, tier))
           /\ Sound(Obtain(h, src, tier), given \union {Obtained(h, src, tier)})
<1> DEFINE b == Head(h.chain[src])
<1> DEFINE a == FirstIn(b, tier)
<1> DEFINE flags == Used(given) \union {FirstIn(b, t) : t \in Len(b) .. tier}
<1> DEFINE new == Obtain(h, src, tier)
<1>1. /\ Apart(given) /\ h.inUse = Used(given)
      /\ \A t \in Tiers : Lists(h.chain[t], Vacant(Used(given), t))
    BY DEF Sound
<1>2. h.chain[src] # <<>> /\ src \in 0 .. tier /\ \A u \in src + 1 .. tier : h.chain[u] = <<>>
    BY DEF Serves
<1>3. /\ b \in Vacant(Used(given), src) /\ b \in Blocks
      /\ Lists(Tail(h.chain[src]), Vacant(Used(given), src) \ {b})
    BY <1>1, <1>2, ListsTail
<1>4. new.inUse = h.inUse \union {FirstIn(b, t) : t \in src .. tier}
    BY DEF Obtain
<1>5. new.chain = [t \in Tiers |->
                      IF t = src THEN Tail(h.chain[t])
                      ELSE IF t \in src + 1 .. tier
                             THEN Cons(Buddy(FirstIn(b, t)), h.chain[t])
                      ELSE h.chain[t]]
    BY DEF Obtain
<1>6. Obtained(h, src, tier) = a
    BY DEF Obtained
<1> HIDE DEF b, new
<1>7. Len(b) = src /\ b \in Vacant(Used(given), Len(b)) /\ Len(b) <= tier /\ src \in Nat /\ tier \in Nat
    BY <1>2, <1>3 DEF Vacant, Tiers
<1>8. /\ a \in Blocks /\ Len(a) = tier
      /\ \A c \in given : ~Above(a, c) /\ ~Above(c, a)
      /\ Apart(given \union {a})
      /\ Used(given \union {a}) = flags
    BY <1>1, <1>3, <1>7, FirstType, ObtainUsed
<1>9. new.inUse = Used(given \union {a})
    BY <1>1, <1>4, <1>7, <1>8
<1> DEFINE V(t) == Vacant(Used(given), t)
<1> DEFINE W(t) == Vacant(Used(given \union {a}), t)
<1>10. ASSUME NEW t \in Tiers
       PROVE  /\ t < src \/ t > tier => W(t) = V(t)
              /\ t = src => W(t) = V(t) \ {b}
              /\ t \in src + 1 .. tier =>
                   /\ Buddy(FirstIn(b, t)) \in Blocks
                   /\ V(t) = {} => W(t) = {Buddy(FirstIn(b, t))}
  <2>0. Splits(flags, given, b, tier)
      BY DEF Splits
  <2>1. ASSUME NEW F, Splits(F, given, b, tier)
        PROVE  /\ t < src \/ t > tier => Vacant(F, t) = V(t)
               /\ t = src => Vacant(F, t) = V(t) \ {b}
               /\ t \in src + 1 .. tier =>
                    /\ Buddy(FirstIn(b, t)) \in Blocks
                    /\ V(t) = {} => Vacant(F, t) = {Buddy(FirstIn(b, t))}
    <3> HIDE DEF a, flags, W
    <3> QED
        BY <1>1, <1>3, <1>7, <2>1, ObtainVacant
  <2> HIDE DEF a, V, flags
  <2> QED
      BY <1>8, <2>0, <2>1
<1> HIDE DEF a, V, W, flags
<1>11. ASSUME NEW t \in Tiers PROVE Lists(new.chain[t], W(t))
  <2>1. t \in Nat /\ Lists(h.chain[t], V(t))
      BY <1>1 DEF Tiers, V
  <2>2. CASE t = src
    <3>1. new.chain[t] = Tail(h.chain[src]) /\ W(t) = V(src) \ {b}
        BY <1>5, <1>10, <2>2
    <3> QED
        BY <1>3, <3>1 DEF V
  <2>3. CASE t \in src + 1 .. tier
    <3> DEFINE x == Buddy(FirstIn(b, t))
    <3>1. t # src
        BY <1>7, <2>3
    <3>2. new.chain[t] = Cons(x, h.chain[t]) /\ x \in Blocks
        BY <1>5, <1>10, <2>3, <3>1
    <3>3. V(t) = {}
        BY <1>2, <2>1, <2>3, ListsOfEmpty
    <3>4. W(t) = {x}
        BY <1>10, <2>3, <3>3
    <3> HIDE DEF x
    <3>5. Lists(Cons(x, h.chain[t]), V(t) \union {x})
        BY <2>1, <3>2, <3>3, ListsCons
    <3> QED
        BY <3>2, <3>3, <3>4, <3>5
  <2>4. CASE t # src /\ t \notin src + 1 .. tier
    <3>1. t < src \/ t > tier
        BY <1>7, <2>1, <2>4
    <3> QED
        BY <1>5, <1>10, <2>1, <2>4, <3>1
  <2> QED
      BY <2>2, <2>3, <2>4
<1>12. new.chain = [t \in Tiers |-> new.chain[t]]
    BY <1>5
<1>13. Sound(new, given \union {a})
    BY <1>8, <1>9, <1>11, <1>12 DEF Sound, W
<1> QED
    BY <1>6, <1>8, <1>13 DEF new

\* recycle leaves the heap sound.
LEMMA RecycleSound ==
    ASSUME NEW h, NEW given, Sound(h, given), NEW b \in given, NEW k, ClimbsTo(h, b, k)
    PROVE  Sound(Recycle(h, b, k), given \ {b})
<1> DEFINE new == Recycle(h, b, k)
<1> DEFINE flags == Used(given) \ {SubSeq(b, 1, j) : j \in k .. Len(b)}
<1>1. /\ Apart(given) /\ h.inUse = Used(given)
      /\ \A t \in Tiers : Lists(h.chain[t], Vacant(Used(given), t))
    BY DEF Sound
<1>2. Climbed(given, b, k)
    BY <1>1 DEF Climbed, ClimbsTo
<1>3. Apart(given \ {b}) /\ Used(given \ {b}) = flags
    BY <1>2, RecycleUsed
<1>4. new.inUse = flags
    BY <1>1 DEF Recycle
<1>5. new.chain = [t \in Tiers |->
                  IF t = k THEN Cons(SubSeq(b, 1, k), h.chain[t])
                  ELSE IF t \in k + 1 .. Len(b)
                         THEN Unchained(h.chain[t], Buddy(SubSeq(b, 1, t)))
                  ELSE h.chain[t]]
    BY DEF Recycle
<1> DEFINE V(t) == Vacant(Used(given), t)
<1> DEFINE W(t) == Vacant(Used(given \ {b}), t)
<1>6. ASSUME NEW t \in Tiers
      PROVE  /\ t < k \/ t > Len(b) => W(t) = V(t)
             /\ t = k => /\ SubSeq(b, 1, k) \in Blocks
                         /\ SubSeq(b, 1, k) \notin V(t)
                         /\ W(t) = V(t) \union {SubSeq(b, 1, k)}
             /\ t \in k + 1 .. Len(b) =>
                  /\ Buddy(SubSeq(b, 1, t)) \in V(t)
                  /\ W(t) = V(t) \ {Buddy(SubSeq(b, 1, t))}
  <2>0. Merges(flags, given, b, k)
      BY DEF Merges
  <2>1. ASSUME NEW F, Merges(F, given, b, k)
        PROVE  /\ t < k \/ t > Len(b) => Vacant(F, t) = V(t)
               /\ t = k => /\ SubSeq(b, 1, k) \in Blocks
                           /\ SubSeq(b, 1, k) \notin V(t)
                           /\ Vacant(F, t) = V(t) \union {SubSeq(b, 1, k)}
               /\ t \in k + 1 .. Len(b) =>
                    /\ Buddy(SubSeq(b, 1, t)) \in V(t)
                    /\ Vacant(F, t) = V(t) \ {Buddy(SubSeq(b, 1, t))}
    <3> HIDE DEF new, flags, W
    <3> QED
        BY <1>2, <2>1, RecycleVacant
  <2> HIDE DEF V, flags
  <2> QED
      BY <1>3, <2>0, <2>1
<1>7. Len(b) \in Nat /\ k \in Nat /\ k <= Len(b)
    BY <1>1, <1>2, BlockType DEF Climbed, Apart
<1> HIDE DEF new, flags, V, W
<1>8. ASSUME NEW t \in Tiers PROVE Lists(new.chain[t], W(t))
  <2>1. t \in Nat /\ Lists(h.chain[t], V(t))
      BY <1>1 DEF Tiers, V
  <2>2. CASE t = k
    <3>1. new.chain[t] = Cons(SubSeq(b, 1, k), h.chain[t])
        BY <1>5, <2>2
    <3>2. Lists(Cons(SubSeq(b, 1, k), h.chain[t]), V(t) \union {SubSeq(b, 1, k)})
        BY <1>6, <2>1, <2>2, ListsCons
    <3> QED
        BY <1>6, <2>2, <3>1, <3>2
  <2>3. CASE t \in k + 1 .. Len(b)
    <3>1. new.chain[t] = Unchained(h.chain[t], Buddy(SubSeq(b, 1, t)))
        BY <1>5, <1>7, <2>3
    <3>2. Lists(Unchained(h.chain[t], Buddy(SubSeq(b, 1, t))), V(t) \ {Buddy(SubSeq(b, 1, t))})
        BY <1>6, <2>1, <2>3, ListsUnchained
    <3> QED
        BY <1>6, <2>3, <3>1, <3>2
  <2>4. CASE t # k /\ t \notin k + 1 .. Len(b)
    <3>1. t < k \/ t > Len(b)
        BY <1>7, <2>1, <2>4
    <3> QED
        BY <1>5, <1>6, <2>1, <2>4, <3>1
  <2> QED
      BY <2>2, <2>3, <2>4
<1>9. new.chain = [t \in Tiers |-> new.chain[t]]
    BY <1>5
<1>10. Sound(new, given \ {b})
    BY <1>3, <1>4, <1>8, <1>9 DEF Sound, W
<1> QED
    BY <1>10 DEF new

-----------------------------------------------------------------------------
(* Pointers *)

\* What an application that holds a pointer to block b has: its address, and a size
\* for which the tier of b is the one dealloc computes.
Fits(held, b) ==
    /\ held \in [addr : Addresses, size : Nat]
    /\ b \in Blocks
    /\ TierOf(held.size, Len(b))
    /\ held.addr = Address(b)

\* The blocks that an address lies in are those above the block it is the address
\* of, and its first parts.
LEMMA AddressCut ==
    ASSUME NEW b \in Blocks, NEW t \in Tiers
    PROVE  /\ Address(b) \in Addresses
           /\ BlockAt(Address(b), t) \in Blocks /\ Len(BlockAt(Address(b), t)) = t
           /\ t <= Len(b) => Above(BlockAt(Address(b), t), b)
           /\ Len(b) <= t => Above(b, BlockAt(Address(b), t))
<1> DEFINE p == Address(b)
<1> DEFINE n == TierNum - 1
<1>1. /\ TierNum \in Nat \ {0} /\ n \in Nat /\ t \in Nat /\ t <= n
      /\ Len(b) \in Nat /\ Len(b) <= n /\ \A i \in 1 .. Len(b) : b[i] \in {0, 1}
    BY BlockType, ConstantsAssumption DEF Tiers
<1>2. p = [i \in 1 .. n |-> IF i <= Len(b) THEN b[i] ELSE 0]
    BY DEF Address
<1>3. \A i \in 1 .. n : (IF i <= Len(b) THEN b[i] ELSE 0) \in Bit
    BY <1>1 DEF Bit
<1>4. p \in [1 .. n -> Bit] /\ p \in Addresses
    BY <1>2, <1>3 DEF Addresses
<1> HIDE DEF p, n
<1>5. p \in Seq(Bit) /\ Len(p) = n
    BY <1>1, <1>4
<1>6. SubSeq(p, 1, t) = [i \in 1 .. t |-> p[i]]
    BY <1>1, <1>5
<1>7. \A i \in 1 .. t : SubSeq(p, 1, t)[i] = IF i <= Len(b) THEN b[i] ELSE 0
    BY <1>1, <1>2, <1>6
<1>8. \A i \in 1 .. t : p[i] \in Bit
    BY <1>1, <1>4
<1>9. SubSeq(p, 1, t) \in [1 .. t -> Bit]
    BY <1>6, <1>8
<1>10. SubSeq(p, 1, t) \in Blocks /\ Len(SubSeq(p, 1, t)) = t
    BY <1>9, SequenceIsBlock
<1>11. t <= Len(b) => Above(SubSeq(p, 1, t), b)
    BY <1>1, <1>7, <1>10 DEF Above
<1>12. Len(b) <= t => Above(b, SubSeq(p, 1, t))
    BY <1>1, <1>7, <1>10 DEF Above
<1> QED
    BY <1>4, <1>10, <1>11, <1>12 DEF BlockAt, p

\* The size asked for leads to one tier only.
LEMMA TierOfOnce ==
    ASSUME NEW size, NEW t, TierOf(size, t)
    PROVE  /\ t \in Tiers
           /\ \A u : TierOf(size, u) <=> u = t
           /\ (CHOOSE u \in Tiers : TierOf(size, u)) = t
<1>1. t \in Tiers /\ \A u : TierOf(size, u) => u = t
    BY DEF TierOf, Tiers
<1> QED
    BY <1>1

\* By its size a pointer leads to the one block it fits.
LEMMA FitsOnce ==
    ASSUME NEW held, NEW b, Fits(held, b)
    PROVE  /\ BlockOf(held) = b
           /\ BlockAt(held.addr, Len(b)) = b
           /\ \A u : TierOf(held.size, u) <=> u = Len(b)
<1>1. b \in Blocks /\ TierOf(held.size, Len(b)) /\ held.addr = Address(b)
    BY DEF Fits
<1>2. /\ Len(b) \in Tiers /\ \A u : TierOf(held.size, u) <=> u = Len(b)
      /\ (CHOOSE u \in Tiers : TierOf(held.size, u)) = Len(b)
    BY <1>1, TierOfOnce
<1>3. BlockAt(held.addr, Len(b)) = b
  <2> DEFINE x == BlockAt(Address(b), Len(b))
  <2>1. x \in Blocks /\ Len(x) = Len(b) /\ (Len(b) <= Len(b) => Above(x, b))
      BY <1>1, <1>2, AddressCut
  <2>2. Len(b) \in Nat
      BY <1>1, BlockType
  <2> HIDE DEF x
  <2>3. Above(x, b) /\ Len(b) <= Len(x)
      BY <2>1, <2>2
  <2>4. x = b
      BY <1>1, <2>1, <2>3, AboveOrder
  <2> QED
      BY <1>1, <2>4 DEF x
<1> QED
    BY <1>2, <1>3 DEF BlockOf

\* The blocks of the pointers of a set.
Given(l) == {BlockOf(held) : held \in l}

\* Every pointer of a set fits a block that no other one has.
Owners(l) ==
    /\ \A held \in l : Fits(held, BlockOf(held))
    /\ \A h, k \in l : BlockOf(h) = BlockOf(k) => h = k

LEMMA OwnersAdd ==
    ASSUME NEW l, Owners(l), NEW held, NEW b, Fits(held, b), b \notin Given(l)
    PROVE  Owners(l \union {held}) /\ Given(l \union {held}) = Given(l) \union {b}
<1>1. BlockOf(held) = b
    BY FitsOnce
<1>2. \A k \in l : BlockOf(k) # b
    BY DEF Given
<1> QED
    BY <1>1, <1>2 DEF Owners, Given

LEMMA OwnersRemove ==
    ASSUME NEW l, Owners(l), NEW held \in l
    PROVE  Owners(l \ {held}) /\ Given(l \ {held}) = Given(l) \ {BlockOf(held)}
BY DEF Owners, Given

\* What locateBlockInUse finds for a pointer to a block that was given out.
LEMMA LocatedOnce ==
    ASSUME NEW given, Apart(given), inUse = Used(given), NEW b \in given
    PROVE  \A t : LocatedAt(Address(b), t) <=> t = Len(b)
<1> DEFINE x(t) == BlockAt(Address(b), t)
<1>1. b \in Blocks /\ Len(b) \in Tiers /\ Len(b) \in Nat
    BY BlockType DEF Apart
<1>2. TierNum \in Nat /\ \A t \in Tiers : t \in Nat /\ \A u \in t + 1 .. TierNum - 1 : u \in Tiers
    BY ConstantsAssumption DEF Tiers
<1>3. ASSUME NEW t \in Tiers
      PROVE  /\ x(t) \in Blocks /\ Len(x(t)) = t
             /\ t <= Len(b) => Above(x(t), b)
             /\ Len(b) <= t => Above(b, x(t))
    BY <1>1, AddressCut
<1> HIDE DEF x
<1>4. ASSUME NEW t \in Tiers PROVE x(t) \in inUse <=> t <= Len(b)
  <2>1. ASSUME t <= Len(b) PROVE x(t) \in inUse
      BY <1>3, <2>1 DEF Used
  <2>2. ASSUME ~(t <= Len(b)), x(t) \in inUse PROVE FALSE
    <3>1. PICK a \in given : Above(x(t), a)
        BY <2>2 DEF Used
    <3>2. a \in Blocks /\ Above(b, x(t))
        BY <1>1, <1>2, <1>3, <2>2 DEF Apart
    <3>3. Above(b, a)
        BY <1>1, <1>3, <3>1, <3>2, AboveOrder
    <3>4. a = b
        BY <3>3 DEF Apart
    <3>5. Len(x(t)) <= Len(b)
        BY <3>1, <3>4 DEF Above
    <3> QED
        BY <1>3, <2>2, <3>5
  <2> QED
      BY <2>1, <2>2
<1>5. ASSUME NEW t PROVE LocatedAt(Address(b), t) <=> t = Len(b)
  <2>1. LocatedAt(Address(b), t) <=>
          t \in Tiers /\ x(t) \in inUse /\ \A u \in t + 1 .. TierNum - 1 : x(u) \notin inUse
      BY DEF LocatedAt, x
  <2>2. t \in Tiers => (x(t) \in inUse <=> t <= Len(b))
      BY <1>4
  <2>3. t \in Tiers => \A u \in t + 1 .. TierNum - 1 : u \in Tiers /\ (x(u) \in inUse <=> u <= Len(b))
      BY <1>2, <1>4
  <2>4. ASSUME t \in Tiers, t < Len(b) PROVE Len(b) \in t + 1 .. TierNum - 1
      BY <1>1, <1>2, <2>4 DEF Tiers
  <2>5. ASSUME t = Len(b) PROVE LocatedAt(Address(b), t)
    <3>1. t \in Tiers /\ t \in Nat /\ t <= Len(b)
        BY <1>1, <2>5
    <3>2. \A u \in t + 1 .. TierNum - 1 : ~(u <= Len(b))
        BY <1>1, <1>2, <2>5
    <3> QED
        BY <2>1, <2>2, <2>3, <3>1, <3>2
  <2>6. ASSUME LocatedAt(Address(b), t) PROVE t = Len(b)
    <3>1. t \in Tiers /\ t \in Nat /\ t <= Len(b)
        BY <1>2, <2>1, <2>2, <2>6
    <3>2. ~(t < Len(b))
        BY <1>1, <2>1, <2>3, <2>4, <2>6, <3>1
    <3> QED
        BY <1>1, <3>1, <3>2
  <2> QED
      BY <2>5, <2>6
<1> QED
    BY <1>5

-----------------------------------------------------------------------------
(* The invariant *)

\* Every pointer held has a block of its own, and the flags and the chains are those
\* of these blocks.
Inv == Owners(live) /\ Sound(heap, Given(live))

\* The product calloc computes is not cut by its width.
ProductsFit == \A a \in Arrays : a[1] * a[2] < Word

\* With nothing given out the chunk is one free block.
LEMMA NothingGiven ==
    /\ Used({}) = {} /\ Apart({})
    /\ \A t \in Tiers : Vacant({}, t) = IF t = 0 THEN {Top} ELSE {}
<1>1. Used({}) = {} /\ Apart({})
    BY DEF Used, Apart
<1>2. ASSUME NEW t \in Tiers PROVE Vacant({}, t) = IF t = 0 THEN {Top} ELSE {}
    BY TopType DEF Vacant
<1> QED
    BY <1>1, <1>2

LEMMA ListsOne ==
    ASSUME NEW x \in Blocks, NEW c
    PROVE  Lists(c, {x}) <=> c = <<x>>
<1>1. Lists(<<x>>, {x})
  <2>1. PICK d \in Seq(Blocks) : d = <<x>> /\ Len(d) = 1 /\ d[1] = x
    <3>1. <<x>> \in Seq(Blocks) /\ Len(<<x>>) = 1 /\ <<x>>[1] = x
        OBVIOUS
    <3> QED
        BY <3>1
  <2>2. Lists(d, {x})
    <3>1. 1 \in 1 .. Len(d) /\ \A i \in 1 .. Len(d) : i = 1
        BY <2>1
    <3> QED
        BY <2>1, <3>1, ListsPointwise
  <2> QED
      BY <2>1, <2>2
<1>2. ASSUME Lists(c, {x}) PROVE c = <<x>>
  <2>1. c \in Seq(Blocks) /\ Len(c) \in Nat /\ <<x>> \in Seq(Blocks) /\ Len(<<x>>) = 1 /\ <<x>>[1] = x
      BY <1>2, LenProperties DEF Lists
  <2>2. /\ \A i \in 1 .. Len(c) : c[i] = x
        /\ \E i \in 1 .. Len(c) : c[i] = x
        /\ \A i, j \in 1 .. Len(c) : c[i] = c[j] => i = j
      BY <1>2, <2>1, ListsPointwise
  <2>3. \A i, j \in 1 .. Len(c) : i = j
      BY <2>2
  <2>4. Len(c) # 0
      BY <2>1, <2>2
  <2>5. 1 \in 1 .. Len(c) /\ Len(c) \in 1 .. Len(c)
      BY <2>1, <2>4
  <2>6. Len(c) = 1
      BY <2>3, <2>5
  <2>7. \A i \in 1 .. Len(c) : c[i] = <<x>>[i]
      BY <2>1, <2>2, <2>6
  <2> QED
      BY <2>1, <2>6, <2>7, SeqEqual
<1> QED
    BY <1>1, <1>2

LEMMA InitInv == Init => Inv
<1> SUFFICES ASSUME Init PROVE Inv
    OBVIOUS
<1>1. inUse = {} /\ chain = [t \in Tiers |-> IF t = 0 THEN <<Top>> ELSE <<>>] /\ live = {}
    BY DEF Init
<1>2. Owners(live) /\ Given(live) = {}
    BY <1>1 DEF Owners, Given
<1>3. ASSUME NEW t \in Tiers PROVE Lists(chain[t], Vacant({}, t))
  <2>1. CASE t = 0
      BY <1>1, <2>1, NothingGiven, ListsOne, TopType
  <2>2. CASE t # 0
      BY <1>1, <2>2, NothingGiven, ListsNone
  <2> QED
      BY <2>1, <2>2
<1>4. Sound(heap, {})
    BY <1>1, <1>3, NothingGiven DEF Sound, heap
<1> QED
    BY <1>2, <1>4 DEF Inv

\* dealloc and free compute the tier of the block they were given.
LEMMA HeldFacts ==
    ASSUME Inv, NEW held \in live
    PROVE  /\ held \in [addr : Addresses, size : Nat]
           /\ BlockOf(held) \in Given(live) /\ BlockOf(held) \in Blocks
           /\ Len(BlockOf(held)) \in Tiers
           /\ BlockAt(held.addr, Len(BlockOf(held))) = BlockOf(held)
           /\ held.addr = Address(BlockOf(held))
           /\ \A t : TierOf(held.size, t) <=> t = Len(BlockOf(held))
           /\ \A t : LocatedAt(held.addr, t) <=> t = Len(BlockOf(held))
<1> DEFINE b == BlockOf(held)
<1>1. Fits(held, b) /\ b \in Given(live)
    BY DEF Inv, Owners, Given
<1> HIDE DEF b
<1>2. /\ held \in [addr : Addresses, size : Nat] /\ b \in Blocks /\ held.addr = Address(b)
      /\ Len(b) \in Tiers
    BY <1>1 DEF Fits, TierOf
<1>3. BlockAt(held.addr, Len(b)) = b /\ \A t : TierOf(held.size, t) <=> t = Len(b)
    BY <1>1, FitsOnce
<1>4. Apart(Given(live)) /\ inUse = Used(Given(live))
    BY DEF Inv, Sound, heap
<1>5. \A t : LocatedAt(Address(b), t) <=> t = Len(b)
    BY <1>1, <1>4, LocatedOnce
<1> QED
    BY <1>1, <1>2, <1>3, <1>5 DEF b

\* A new pointer to what obtain returned for a size that fits.
LEMMA ObtainedFits ==
    ASSUME NEW h, NEW given, Sound(h, given), NEW size \in Nat, NEW tier, TierOf(size, tier),
           NEW src \in Tiers, Serves(h, src, tier)
    PROVE  /\ Fits([addr |-> Address(Obtained(h, src, tier)), size |-> size], Obtained(h, src, tier))
           /\ Obtained(h, src, tier) \notin given
           /\ Sound(Obtain(h, src, tier), given \union {Obtained(h, src, tier)})
<1> DEFINE a == Obtained(h, src, tier)
<1>1. tier \in Tiers
    BY DEF TierOf
<1>2. /\ a \in Blocks /\ Len(a) = tier
      /\ \A c \in given : ~Above(a, c) /\ ~Above(c, a)
      /\ Sound(Obtain(h, src, tier), given \union {a})
    BY <1>1, ObtainSound
<1> HIDE DEF a
<1>3. a \notin given
    BY <1>2, AboveOrder
<1>4. Address(a) \in Addresses
    BY <1>1, <1>2, AddressCut
<1>5. Fits([addr |-> Address(a), size |-> size], a)
    BY <1>2, <1>4 DEF Fits
<1> QED
    BY <1>2, <1>3, <1>5 DEF a

LEMMA AllocInv ==
    ASSUME Inv, NEW length, NEW size \in Nat, length = size, AllocLength(length, size)
    PROVE  Inv'
<1>1. PICK tier \in Tiers, src \in Tiers :
        /\ TierOf(size, tier)
        /\ Serves(heap, src, tier)
        /\ SetHeap(Obtain(heap, src, tier))
        /\ live' = live \union {[addr |-> Address(Obtained(heap, src, tier)), size |-> size]}
    BY DEF AllocLength
<1> DEFINE a == Obtained(heap, src, tier)
<1> DEFINE new == [addr |-> Address(a), size |-> size]
<1>2. Fits(new, a) /\ a \notin Given(live) /\ Sound(Obtain(heap, src, tier), Given(live) \union {a})
    BY <1>1, ObtainedFits DEF Inv
<1>3. live' = live \union {new}
    BY <1>1
<1> HIDE DEF a, new
<1>4. Owners(live \union {new}) /\ Given(live \union {new}) = Given(live) \union {a}
    BY <1>2, OwnersAdd DEF Inv
<1>5. inUse' = Obtain(heap, src, tier).inUse /\ chain' = Obtain(heap, src, tier).chain
    BY <1>1 DEF SetHeap
<1>6. PICK h, l : h = Obtain(heap, src, tier) /\ l = live'
    OBVIOUS
<1>7. Sound(h, Given(l)) /\ Owners(l) /\ inUse' = h.inUse /\ chain' = h.chain
    BY <1>2, <1>3, <1>4, <1>5, <1>6
<1> QED
    BY <1>6, <1>7 DEF Inv, heap, Sound

LEMMA ReleaseInv ==
    ASSUME Inv, NEW held \in live, NEW tier, tier = Len(BlockOf(held)), ReleaseBlock(held, tier)
    PROVE  Inv'
<1> DEFINE b == BlockOf(held)
<1>1. b \in Given(live) /\ BlockAt(held.addr, tier) = b
    BY HeldFacts
<1>2. PICK k \in Tiers :
        /\ ClimbsTo(heap, b, k)
        /\ SetHeap(Recycle(heap, b, k))
        /\ live' = live \ {held}
    BY <1>1 DEF ReleaseBlock
<1>3. Sound(Recycle(heap, b, k), Given(live) \ {b})
    BY <1>1, <1>2, RecycleSound DEF Inv
<1>4. Owners(live \ {held}) /\ Given(live \ {held}) = Given(live) \ {b}
    BY OwnersRemove DEF Inv
<1> HIDE DEF b
<1>5. PICK h, l : h = Recycle(heap, b, k) /\ l = live'
    OBVIOUS
<1>6. Sound(h, Given(l)) /\ Owners(l) /\ inUse' = h.inUse /\ chain' = h.chain
    BY <1>2, <1>3, <1>4, <1>5 DEF SetHeap
<1> QED
    BY <1>5, <1>6 DEF Inv, heap, Sound

\* The size that realloc leaves in place leads to the same tier.
LEMMA InPlaceFits ==
    ASSUME Inv, NEW held \in live, NEW size \in Nat, ReallocInPlace(held, size)
    PROVE  Fits([held EXCEPT !.size = size], BlockOf(held))
<1> DEFINE b == BlockOf(held)
<1> DEFINE new == [held EXCEPT !.size = size]
<1>1. PICK tier \in Tiers :
        /\ LocatedAt(held.addr, tier)
        /\ size <= BlockSize[tier]
        /\ tier = TierNum - 1 \/ 2 * size > BlockSize[tier]
        /\ live' = (live \ {held}) \union {new}
        /\ UNCHANGED <<inUse, chain>>
    BY DEF ReallocInPlace
<1>2. /\ held \in [addr : Addresses, size : Nat]
      /\ b \in Given(live) /\ b \in Blocks /\ tier = Len(b) /\ held.addr = Address(b)
    BY <1>1, HeldFacts
<1>3. TierOf(size, tier)
  <2>1. SUFFICES ASSUME NEW u \in Tiers, size <= BlockSize[u], u > tier PROVE FALSE
      BY <1>1 DEF TierOf, Tiers
  <2>2. TierNum \in Nat /\ u \in Nat /\ tier \in Nat /\ u < TierNum
      BY ConstantsAssumption DEF Tiers
  <2>3. tier + 1 \in Tiers /\ tier # TierNum - 1
      BY <2>1, <2>2 DEF Tiers
  <2>4. /\ BlockSize[tier] = 2 * BlockSize[tier + 1]
        /\ BlockSize[tier] \in Nat /\ BlockSize[tier + 1] \in Nat /\ BlockSize[u] \in Nat
      BY <2>3, ConstantsAssumption
  <2>5. tier + 1 = u \/ BlockSize[u] < BlockSize[tier + 1]
      BY <2>1, <2>2, <2>3, ConstantsAssumption
  <2>6. BlockSize[u] <= BlockSize[tier + 1]
      BY <2>4, <2>5
  <2> QED
      BY <1>1, <2>1, <2>3, <2>4, <2>6
<1>4. Fits(new, b)
    BY <1>2, <1>3 DEF Fits
<1> QED
    BY <1>4

LEMMA InPlaceInv ==
    ASSUME Inv, NEW held \in live, NEW size \in Nat, ReallocInPlace(held, size)
    PROVE  Inv'
<1> DEFINE b == BlockOf(held)
<1> DEFINE new == [held EXCEPT !.size = size]
<1>1. live' = (live \ {held}) \union {new} /\ UNCHANGED <<inUse, chain>>
    BY DEF ReallocInPlace
<1>2. b \in Given(live)
    BY HeldFacts
<1>3. Fits(new, b)
    BY InPlaceFits
<1>4. Owners(live \ {held}) /\ Given(live \ {held}) = Given(live) \ {b}
    BY OwnersRemove DEF Inv
<1> HIDE DEF b, new
<1>5. PICK l : l = live \ {held}
    OBVIOUS
<1>6. /\ Owners(l \union {new})
      /\ Given(l \union {new}) = (Given(live) \ {b}) \union {b}
  <2>1. Owners(l) /\ Given(l) = Given(live) \ {b} /\ b \notin Given(l)
      BY <1>4, <1>5
  <2>2. Owners(l \union {new}) /\ Given(l \union {new}) = Given(l) \union {b}
      BY <1>3, <2>1, OwnersAdd
  <2> QED
      BY <2>1, <2>2
<1>7. PICK m : m = live'
    OBVIOUS
<1>8. Owners(m) /\ Given(m) = Given(live)
    BY <1>1, <1>2, <1>5, <1>6, <1>7
<1> QED
    BY <1>1, <1>7, <1>8 DEF Inv, heap, Sound

LEMMA MovesInv ==
    ASSUME Inv, NEW held \in live, NEW size \in Nat, ReallocMoves(held, size)
    PROVE  Inv'
<1> DEFINE b == BlockOf(held)
<1>1. PICK tier \in Tiers, new \in Tiers, src \in Tiers, k \in Tiers :
        /\ LocatedAt(held.addr, tier)
        /\ TierOf(size, new)
        /\ Serves(heap, src, new)
        /\ ClimbsTo(Obtain(heap, src, new), BlockAt(held.addr, tier), k)
        /\ SetHeap(Recycle(Obtain(heap, src, new), BlockAt(held.addr, tier), k))
        /\ live' = (live \ {held}) \union
                     {[addr |-> Address(Obtained(heap, src, new)), size |-> size]}
    BY DEF ReallocMoves
<1>2. b \in Given(live) /\ BlockAt(held.addr, tier) = b
    BY <1>1, HeldFacts
<1> DEFINE a == Obtained(heap, src, new)
<1> DEFINE n == [addr |-> Address(a), size |-> size]
<1>3. Fits(n, a) /\ a \notin Given(live) /\ Sound(Obtain(heap, src, new), Given(live) \union {a})
    BY <1>1, ObtainedFits DEF Inv
<1>4. Owners(live \ {held}) /\ Given(live \ {held}) = Given(live) \ {b}
    BY OwnersRemove DEF Inv
<1>5. live' = (live \ {held}) \union {n}
    BY <1>1
<1> HIDE DEF a, b, n
<1>6. PICK l : l = live \ {held}
    OBVIOUS
<1>7. Owners(l \union {n}) /\ Given(l \union {n}) = (Given(live) \ {b}) \union {a}
    BY <1>3, <1>4, <1>6, OwnersAdd
<1>8. PICK grown, given : grown = Obtain(heap, src, new) /\ given = Given(live) \union {a}
    OBVIOUS
<1>9. Sound(Recycle(grown, b, k), given \ {b})
    BY <1>1, <1>2, <1>3, <1>8, RecycleSound
<1>10. given \ {b} = (Given(live) \ {b}) \union {a}
    BY <1>2, <1>3, <1>8
<1>11. PICK h, m : h = Recycle(grown, b, k) /\ m = live'
    OBVIOUS
<1>12. Owners(m) /\ Sound(h, Given(m)) /\ inUse' = h.inUse /\ chain' = h.chain
    BY <1>1, <1>2, <1>5, <1>6, <1>7, <1>8, <1>9, <1>10, <1>11 DEF SetHeap
<1> QED
    BY <1>11, <1>12 DEF Inv, heap, Sound

LEMMA Product ==
    ASSUME ProductsFit, NEW a \in Arrays
    PROVE  a[1] * a[2] \in Nat /\ (a[1] * a[2]) % Word = a[1] * a[2]
<1>1. a[1] \in Nat /\ a[2] \in Nat /\ Word \in Nat \ {0}
    BY ConstantsAssumption
<1>2. a[1] * a[2] \in Nat
    BY <1>1
<1>3. ASSUME NEW n \in Nat, NEW w \in Nat \ {0}, n < w PROVE n % w = n
    BY <1>3
<1> QED
    BY <1>1, <1>2, <1>3 DEF ProductsFit

LEMMA NextInv ==
    ASSUME ProductsFit
    PROVE  Inv /\ [Next]_vars => Inv'
<1> SUFFICES ASSUME Inv, [Next]_vars PROVE Inv'
    OBVIOUS
<1>1. ASSUME NEW size \in Requests, Alloc(size) PROVE Inv'
    BY <1>1, AllocInv, ConstantsAssumption DEF Alloc
<1>2. ASSUME NEW a \in Arrays, Calloc(a[1], a[2]) PROVE Inv'
    BY <1>2, AllocInv, Product DEF Calloc
<1>3. ASSUME NEW held \in live, Dealloc(held) PROVE Inv'
    BY <1>3, ReleaseInv, HeldFacts DEF Dealloc
<1>4. ASSUME NEW held \in live, Free(held) PROVE Inv'
    BY <1>4, ReleaseInv, HeldFacts DEF Free
<1>5. ASSUME NEW held \in live, NEW size \in Requests, Realloc(held, size) PROVE Inv'
  <2>1. size \in Nat
      BY ConstantsAssumption
  <2>2. CASE Free(held)
      BY <1>4, <2>2
  <2>3. CASE ReallocInPlace(held, size)
      BY <2>1, <2>3, InPlaceInv
  <2>4. CASE ReallocMoves(held, size)
      BY <2>1, <2>4, MovesInv
  <2> QED
      BY <1>5, <2>2, <2>3, <2>4 DEF Realloc
<1>6. CASE Reset
    BY <1>6 DEF Reset, Inv, heap
<1>7. CASE UNCHANGED vars
    BY <1>7 DEF vars, Inv, heap
<1> QED
    BY <1>1, <1>2, <1>3, <1>4, <1>5, <1>6, <1>7 DEF Next

LEMMA Invariance ==
    ASSUME ProductsFit
    PROVE  Spec => []Inv
BY InitInv, NextInv, PTL DEF Spec

-----------------------------------------------------------------------------
(* What the invariant says *)

LEMMA InvFlags == Inv => FlagsAreNested
<1> SUFFICES ASSUME Inv, NEW b \in inUse, NEW c \in Prefixes(b) PROVE c \in inUse
    BY DEF FlagsAreNested
<1>1. Apart(Given(live)) /\ inUse = Used(Given(live)) /\ b \in Blocks
    BY DEF Inv, Sound, heap, Used
<1>2. PICK j \in 0 .. Len(b) : c = SubSeq(b, 1, j)
    BY DEF Prefixes
<1>3. c \in Blocks /\ Above(c, b)
    BY <1>1, <1>2, CutType, CutIsAbove
<1> QED
    BY <1>1, <1>3, UsedIsNested

LEMMA InvChains == Inv => ChainsHoldFreeBlocks
<1> SUFFICES ASSUME Inv, NEW t \in Tiers PROVE IsInjective(chain[t]) /\ ToSet(chain[t]) = Vacant(inUse, t)
    BY DEF ChainsHoldFreeBlocks, Vacant
<1> QED
    BY DEF Inv, Sound, heap, Lists

\* The blocks handed out are the blocks with a flag that have no flag below.
LEMMA GivenAreLeaves ==
    ASSUME Inv
    PROVE  Leaves = Given(live)
<1>1. PICK given : given = Given(live)
    OBVIOUS
<1>2. Apart(given) /\ inUse = Used(given) /\ given \subseteq Blocks /\ given \subseteq inUse
    BY <1>1, AboveOrder DEF Inv, Sound, heap, Apart, Used
<1>3. ASSUME NEW b \in given PROVE b \in Leaves
  <2>1. SUFFICES ASSUME NEW c \in inUse, Len(c) = Len(b) + 1, IsPrefix(b, c) PROVE FALSE
      BY <1>2 DEF Leaves
  <2>2. c \in Blocks /\ b \in Blocks /\ Above(b, c)
      BY <1>2, <2>1, CutIsAbove DEF Used
  <2>3. PICK a \in given : Above(c, a)
      BY <1>2 DEF Used
  <2>4. a = b
      BY <1>2, <2>2, <2>3, AboveOrder DEF Apart
  <2>5. Len(b) \in Nat /\ Len(c) <= Len(b)
      BY <2>2, <2>3, <2>4, BlockType DEF Above
  <2> QED
      BY <2>1, <2>5
<1>4. ASSUME NEW b \in Leaves PROVE b \in given
  <2>1. b \in inUse /\ b \in Blocks /\ \A c \in inUse : Len(c) = Len(b) + 1 => ~IsPrefix(b, c)
      BY <1>2 DEF Leaves, Used
  <2>2. PICK a \in given : Above(b, a)
      BY <1>2, <2>1 DEF Used
  <2>3. SUFFICES ASSUME a # b PROVE FALSE
      OBVIOUS
  <2>4. a \in Blocks /\ Len(a) \in Nat /\ Len(b) \in Nat /\ Len(b) <= Len(a)
      BY <1>2, <2>1, <2>2, BlockType DEF Above
  <2>5. Len(b) < Len(a)
      BY <2>1, <2>2, <2>3, <2>4, AboveOrder
  <2> DEFINE c == SubSeq(a, 1, Len(b) + 1)
  <2>6. Len(b) + 1 \in 0 .. Len(a)
      BY <2>4, <2>5
  <2>7. c \in Blocks /\ Len(c) = Len(b) + 1 /\ Above(c, a)
      BY <2>4, <2>6, CutType, CutIsAbove
  <2> HIDE DEF c
  <2>8. Above(b, c)
      BY <2>1, <2>2, <2>4, <2>7, AboveOrder
  <2>9. c \in inUse /\ IsPrefix(b, c)
      BY <1>2, <2>1, <2>7, <2>8, CutIsAbove DEF Used
  <2> QED
      BY <2>1, <2>7, <2>9
<1> QED
    BY <1>1, <1>3, <1>4

\* By size and by address: the same block, which is no other pointer's.
LEMMA InvPointers == Inv => PointersAreFound
<1> SUFFICES ASSUME Inv PROVE PointersAreFound
    OBVIOUS
<1>1. ASSUME NEW held \in live
      PROVE  \E tier \in Tiers : /\ TierOf(held.size, tier)
                                 /\ LocatedAt(held.addr, tier)
                                 /\ held.addr = Address(BlockAt(held.addr, tier))
  <2>1. PICK tier : tier = Len(BlockOf(held))
      OBVIOUS
  <2>2. /\ tier \in Tiers /\ BlockAt(held.addr, tier) = BlockOf(held)
        /\ held.addr = Address(BlockOf(held))
        /\ TierOf(held.size, tier) /\ LocatedAt(held.addr, tier)
      BY <2>1, HeldFacts
  <2> QED
      BY <2>2
<1>2. ASSUME NEW h \in live, NEW k \in live, h.addr = k.addr PROVE h = k
  <2>1. /\ \A t : LocatedAt(h.addr, t) <=> t = Len(BlockOf(h))
        /\ \A t : LocatedAt(k.addr, t) <=> t = Len(BlockOf(k))
        /\ BlockAt(h.addr, Len(BlockOf(h))) = BlockOf(h)
        /\ BlockAt(k.addr, Len(BlockOf(k))) = BlockOf(k)
      BY HeldFacts
  <2>2. Len(BlockOf(h)) = Len(BlockOf(k))
      BY <1>2, <2>1
  <2>3. BlockOf(h) = BlockOf(k)
      BY <1>2, <2>1, <2>2
  <2> QED
      BY <2>3 DEF Inv, Owners
<1>3. ASSUME NEW b
      PROVE  b \in Given(live) <=>
               b \in inUse /\ \E held \in live : LocatedAt(held.addr, Len(b)) /\ b = BlockAt(held.addr, Len(b))
  <2>1. ASSUME b \in Given(live)
        PROVE  b \in inUse /\ \E held \in live : LocatedAt(held.addr, Len(b)) /\ b = BlockAt(held.addr, Len(b))
    <3>1. PICK held \in live : b = BlockOf(held)
        BY <2>1 DEF Given
    <3>2. b \in inUse
        BY <2>1, GivenAreLeaves DEF Leaves
    <3> QED
        BY <3>1, <3>2, HeldFacts
  <2>2. ASSUME NEW held \in live, LocatedAt(held.addr, Len(b)), b = BlockAt(held.addr, Len(b))
        PROVE  b \in Given(live)
    <3>1. Len(b) = Len(BlockOf(held))
        BY <2>2, HeldFacts
    <3>2. b = BlockOf(held)
        BY <2>2, <3>1, HeldFacts
    <3> QED
        BY <3>2 DEF Given
  <2> QED
      BY <2>1, <2>2
<1>4. Leaves = {b \in inUse : \E held \in live : LocatedAt(held.addr, Len(b)) /\ b = BlockAt(held.addr, Len(b))}
    BY <1>3, GivenAreLeaves
<1> QED
    BY <1>1, <1>2, <1>4 DEF PointersAreFound

LEMMA InvWhole == Inv => AllFreeIsWhole
<1> SUFFICES ASSUME Inv, live = {}
             PROVE  inUse = {} /\ chain = [t \in Tiers |-> IF t = 0 THEN <<Top>> ELSE <<>>]
    BY DEF AllFreeIsWhole
<1>1. Given(live) = {}
    BY DEF Given
<1>2. /\ inUse = {} /\ chain = [t \in Tiers |-> chain[t]]
      /\ \A t \in Tiers : Lists(chain[t], Vacant({}, t))
    BY <1>1, NothingGiven DEF Inv, Sound, heap
<1>3. ASSUME NEW t \in Tiers PROVE chain[t] = IF t = 0 THEN <<Top>> ELSE <<>>
  <2>1. CASE t = 0
      BY <1>2, <2>1, NothingGiven, ListsOne, TopType
  <2>2. CASE t # 0
      BY <1>2, <2>2, NothingGiven, ListsOfEmpty
  <2> QED
      BY <2>1, <2>2
<1> QED
    BY <1>2, <1>3

-----------------------------------------------------------------------------
(* available() *)

LEMMA Greatest ==
    ASSUME NEW S, S \subseteq Tiers, S # {}
    PROVE  \E x \in S : \A y \in S : y <= x
<1> DEFINE D == {TierNum - t : t \in S}
<1>1. TierNum \in Nat /\ \A t \in S : t \in Nat /\ t < TierNum
    BY ConstantsAssumption DEF Tiers
<1>2. D \subseteq Nat /\ D # {}
    BY <1>1
<1> HIDE DEF D
<1>3. PICK d \in D : \A e \in D : d <= e
    BY <1>2, Least
<1>4. PICK x \in S : d = TierNum - x
    BY <1>3 DEF D
<1>5. ASSUME NEW y \in S PROVE y <= x
  <2>1. TierNum - y \in D
      BY DEF D
  <2>2. TierNum - x <= TierNum - y
      BY <1>3, <1>4, <2>1
  <2> QED
      BY <1>1, <2>2
<1> QED
    BY <1>5

LEMMA SizesFall ==
    ASSUME NEW t \in Tiers, NEW u \in Tiers, t <= u
    PROVE  BlockSize[u] \in Nat /\ BlockSize[t] \in Nat \ {0} /\ BlockSize[u] <= BlockSize[t]
<1>1. t \in Nat /\ u \in Nat /\ BlockSize[u] \in Nat /\ BlockSize[t] \in Nat \ {0}
    BY ConstantsAssumption DEF Tiers
<1>2. t = u \/ t < u
    BY <1>1
<1>3. t < u => BlockSize[u] < BlockSize[t]
    BY ConstantsAssumption
<1> QED
    BY <1>1, <1>2, <1>3

\* The highest tier with a free block bounds what can be served, and serves it.
LEMMA AvailableServed == AvailableIsServed
<1> DEFINE Stocked == {t \in Tiers : chain[t] # <<>>}
<1> SUFFICES ASSUME NEW size \in Requests \ {0}
             PROVE  size <= Available <=>
                      \E tier, src \in Tiers : TierOf(size, tier) /\ Serves(heap, src, tier)
    BY DEF AvailableIsServed
<1>1. size \in Nat /\ size # 0 /\ Tiers \subseteq Nat
    BY ConstantsAssumption DEF Tiers
<1>2. \A tier, src \in Tiers : Serves(heap, src, tier) =>
        /\ src \in Stocked /\ src <= tier
        /\ \A u \in src + 1 .. tier : chain[u] = <<>>
    BY <1>1 DEF Serves, heap
<1>3. CASE Stocked = {}
  <2>1. Available = 0
      BY <1>3 DEF Available
  <2> HIDE DEF Stocked
  <2>2. ~(size <= Available)
      BY <1>1, <2>1
  <2> QED
      BY <1>2, <1>3, <2>2
<1>4. CASE Stocked # {}
  <2> DEFINE Highest(t) == chain[t] # <<>> /\ \A u \in 0 .. t - 1 : chain[u] = <<>>
  <2> DEFINE top == CHOOSE t \in Tiers : Highest(t)
  <2>1. \E t \in Tiers : Highest(t)
    <3>1. PICK t \in Stocked : \A u \in Stocked : t <= u
      <4>1. Stocked \subseteq Nat
          BY <1>1
      <4> HIDE DEF Stocked
      <4> QED
          BY <1>4, <4>1, Least
    <3>2. t \in Tiers /\ t \in Nat /\ chain[t] # <<>>
        BY <1>1
    <3>3. \A u \in 0 .. t - 1 : u \in Tiers /\ ~(t <= u)
        BY <3>2, ConstantsAssumption DEF Tiers
    <3> QED
        BY <3>1, <3>2, <3>3
  <2>2. top \in Tiers /\ Highest(top)
    <3> HIDE DEF Highest
    <3> QED
        BY <2>1
  <2>3. Available = BlockSize[top]
      BY <1>4 DEF Available
  <2> HIDE DEF top
  <2>4. top \in Stocked /\ top \in Nat /\ \A t \in Stocked : top <= t
    <3>1. top \in Stocked /\ top \in Nat
        BY <1>1, <2>2
    <3>2. ASSUME NEW t \in Stocked, ~(top <= t) PROVE FALSE
      <4>1. t \in Nat /\ t \in 0 .. top - 1
          BY <1>1, <3>1, <3>2
      <4> QED
          BY <2>2, <4>1
    <3> QED
        BY <3>1, <3>2
  <2>5. Stocked \subseteq Tiers
      OBVIOUS
  <2>6. \A t \in Tiers : t \notin Stocked => chain[t] = <<>>
      OBVIOUS
  <2> HIDE DEF Stocked, Highest
  <2>7. ASSUME NEW tier \in Tiers, NEW src \in Tiers, TierOf(size, tier), Serves(heap, src, tier)
        PROVE  size <= BlockSize[top]
    <3>1. top <= src /\ src <= tier
        BY <1>2, <2>4, <2>7
    <3>2. BlockSize[tier] <= BlockSize[src] /\ BlockSize[src] <= BlockSize[top] /\ size <= BlockSize[tier]
        BY <2>2, <2>7, <3>1, SizesFall DEF TierOf
    <3> QED
        BY <1>1, <2>2, <3>2, ConstantsAssumption
  <2>8. ASSUME size <= BlockSize[top]
        PROVE  \E tier, src \in Tiers : TierOf(size, tier) /\ Serves(heap, src, tier)
    <3>1. PICK tier \in Tiers : TierOf(size, tier)
      <4> DEFINE Roomy == {t \in Tiers : size <= BlockSize[t]}
      <4>1. top \in Roomy /\ Roomy \subseteq Tiers
          BY <2>2, <2>8
      <4>2. PICK t \in Roomy : \A u \in Roomy : u <= t
        <5> HIDE DEF Roomy
        <5> QED
            BY <4>1, Greatest
      <4> QED
          BY <4>2 DEF TierOf
    <3>2. tier \in Nat /\ top <= tier
        BY <1>1, <2>2, <2>8, <3>1 DEF TierOf
    <3> DEFINE Near == {t \in Stocked : t <= tier}
    <3>3. top \in Near /\ Near \subseteq Tiers
        BY <2>4, <2>5, <3>2
    <3>4. PICK src \in Near : \A u \in Near : u <= src
      <4> HIDE DEF Near
      <4> QED
          BY <3>3, Greatest
    <3>5. src \in Tiers /\ src \in Stocked /\ src \in 0 .. tier /\ src \in Nat
        BY <1>1, <2>5, <3>2, <3>4
    <3>6. ASSUME NEW u \in src + 1 .. tier PROVE chain[u] = <<>>
      <4>1. u \in Tiers /\ u <= tier /\ ~(u <= src)
          BY <3>1, <3>5, ConstantsAssumption DEF Tiers
      <4>2. u \notin Stocked
          BY <3>4, <4>1
      <4> QED
          BY <2>6, <4>1, <4>2
    <3>7. chain[src] # <<>>
        BY <3>5 DEF Stocked
    <3>8. Serves(heap, src, tier)
        BY <3>5, <3>6, <3>7 DEF Serves, heap
    <3> QED
        BY <3>1, <3>5, <3>8
  <2> QED
      BY <2>3, <2>7, <2>8
<1> QED
    BY <1>3, <1>4

-----------------------------------------------------------------------------
(* The promise *)

\* A pointer to a block that no pointer held has a part of.
IsNew(n, a) ==
    /\ Fits(n, a)
    /\ \A c \in Given(live) : ~Above(a, c) /\ ~Above(c, a)

\* What a step does to the pointers.
Allocs == \E n, a : IsNew(n, a) /\ live' = live \union {n}
Releases == \E held \in live : live' = live \ {held}
Resizes ==
    \E held \in live : \E n, a :
      /\ Fits(n, a)
      /\ a = BlockOf(held) \/ IsNew(n, a)
      /\ live' = (live \ {held}) \union {n}

LEMMA ObtainedIsNew ==
    ASSUME Inv, NEW size \in Nat, NEW tier, TierOf(size, tier), NEW src \in Tiers, Serves(heap, src, tier)
    PROVE  IsNew([addr |-> Address(Obtained(heap, src, tier)), size |-> size], Obtained(heap, src, tier))
<1>1. tier \in Tiers /\ Sound(heap, Given(live))
    BY DEF TierOf, Inv
<1>2. \A c \in Given(live) : ~Above(Obtained(heap, src, tier), c) /\ ~Above(c, Obtained(heap, src, tier))
    BY <1>1, ObtainSound
<1>3. Fits([addr |-> Address(Obtained(heap, src, tier)), size |-> size], Obtained(heap, src, tier))
    BY <1>1, ObtainedFits
<1> QED
    BY <1>2, <1>3 DEF IsNew

\* Every step hands out a block, takes one back, exchanges one or leaves all as it
\* is.
LEMMA StepsOfPointers ==
    ASSUME ProductsFit, Inv, [Next]_vars
    PROVE  Allocs \/ Releases \/ Resizes \/ live' = live
<1>1. ASSUME NEW length, NEW size \in Nat, length = size, AllocLength(length, size) PROVE Allocs
  <2>1. PICK tier \in Tiers, src \in Tiers :
          /\ TierOf(size, tier) /\ Serves(heap, src, tier)
          /\ live' = live \union {[addr |-> Address(Obtained(heap, src, tier)), size |-> size]}
      BY <1>1 DEF AllocLength
  <2> QED
      BY <2>1, ObtainedIsNew DEF Allocs
<1>2. ASSUME NEW size \in Requests, Alloc(size) PROVE Allocs
    BY <1>1, <1>2, ConstantsAssumption DEF Alloc
<1>3. ASSUME NEW a \in Arrays, Calloc(a[1], a[2]) PROVE Allocs
    BY <1>1, <1>3, Product DEF Calloc
<1>4. ASSUME NEW held \in live, Dealloc(held) \/ Free(held) PROVE Releases
    BY <1>4 DEF Dealloc, Free, ReleaseBlock, Releases
<1>5. ASSUME NEW held \in live, NEW size \in Requests, ReallocInPlace(held, size) PROVE Resizes
  <2>1. live' = (live \ {held}) \union {[held EXCEPT !.size = size]}
      BY <1>5 DEF ReallocInPlace
  <2>2. Fits([held EXCEPT !.size = size], BlockOf(held))
      BY <1>5, InPlaceFits, ConstantsAssumption
  <2> QED
      BY <2>1, <2>2 DEF Resizes
<1>6. ASSUME NEW held \in live, NEW size \in Requests, ReallocMoves(held, size) PROVE Resizes
  <2>1. PICK new \in Tiers, src \in Tiers :
          /\ TierOf(size, new) /\ Serves(heap, src, new)
          /\ live' = (live \ {held}) \union
                       {[addr |-> Address(Obtained(heap, src, new)), size |-> size]}
      BY <1>6 DEF ReallocMoves
  <2>2. IsNew([addr |-> Address(Obtained(heap, src, new)), size |-> size], Obtained(heap, src, new))
      BY <2>1, ObtainedIsNew, ConstantsAssumption
  <2> QED
      BY <2>1, <2>2 DEF Resizes, IsNew
<1>7. ASSUME NEW held \in live, NEW size \in Requests, Realloc(held, size) PROVE Releases \/ Resizes
    BY <1>4, <1>5, <1>6, <1>7 DEF Realloc
<1>8. Reset \/ UNCHANGED vars => live' = live
    BY DEF Reset, vars
<1> QED
    BY <1>2, <1>3, <1>4, <1>7, <1>8 DEF Next

\* The pointers as the interface sees them.
Seen(l) == {[region |-> BlockOf(held), size |-> held.size] : held \in l}

LEMMA SeenAdd ==
    ASSUME NEW l, NEW n, NEW a, Fits(n, a)
    PROVE  Seen(l \union {n}) = Seen(l) \union {[region |-> a, size |-> n.size]}
BY FitsOnce DEF Seen

LEMMA SeenRemove ==
    ASSUME NEW l, Owners(l), NEW held \in l
    PROVE  Seen(l \ {held}) = Seen(l) \ {[region |-> BlockOf(held), size |-> held.size]}
BY DEF Seen, Owners

LEMMA FitsSuits ==
    ASSUME NEW n, NEW a, Fits(n, a)
    PROVE  a \in Blocks /\ n.size <= BlockRoom(a)
BY DEF Fits, TierOf, BlockRoom

LEMMA NewIsFree ==
    ASSUME Inv, NEW n, NEW a, IsNew(n, a), NEW s \in Seen(live)
    PROVE  ~BlocksOverlap(s.region, a)
<1>1. PICK held \in live : s = [region |-> BlockOf(held), size |-> held.size]
    BY DEF Seen
<1>2. PICK c : c = s.region /\ c \in Given(live) /\ c \in Blocks
    BY <1>1, HeldFacts
<1>3. a \in Blocks /\ ~Above(a, c) /\ ~Above(c, a)
    BY <1>2 DEF IsNew, Fits
<1> QED
    BY <1>2, <1>3, CutIsAbove DEF BlocksOverlap

LEMMA SeenInit == Init => Promise!Init
BY DEF Init, Promise!Init

LEMMA SeenStep ==
    ASSUME ProductsFit, Inv, [Next]_vars
    PROVE  [Promise!Next]_(Seen(live))
<1>1. Owners(live)
    BY DEF Inv
<1>2. PICK m : m = live'
    OBVIOUS
<1>3. ASSUME Allocs PROVE Promise!Alloc
  <2>1. PICK n, a : IsNew(n, a) /\ m = live \union {n}
      BY <1>2, <1>3 DEF Allocs
  <2> DEFINE s == [region |-> a, size |-> n.size]
  <2>2. Seen(m) = Seen(live) \union {s}
      BY <2>1, SeenAdd DEF IsNew
  <2>3. s.region \in Blocks /\ s.size <= BlockRoom(s.region)
      BY <2>1, FitsSuits DEF IsNew
  <2>4. \A x \in Seen(live) : ~BlocksOverlap(x.region, s.region)
      BY <2>1, NewIsFree
  <2> HIDE DEF s
  <2>5. s \in Seen(live') /\ Seen(live') = Seen(live) \union {s}
      BY <1>2, <2>2
  <2> QED
      BY <2>3, <2>4, <2>5 DEF Promise!Alloc, Promise!Suits, Promise!Free, Seen
<1>4. ASSUME Releases PROVE Promise!Release
  <2>1. PICK held \in live : m = live \ {held}
      BY <1>2, <1>4 DEF Releases
  <2> DEFINE s == [region |-> BlockOf(held), size |-> held.size]
  <2>2. Seen(m) = Seen(live) \ {s} /\ s \in Seen(live)
      BY <1>1, <2>1, SeenRemove DEF Seen
  <2> HIDE DEF s
  <2>3. Seen(live') = Seen(live) \ {s}
      BY <1>2, <2>2
  <2> QED
      BY <2>2, <2>3 DEF Promise!Release, Seen
<1>5. ASSUME Resizes PROVE Promise!Resize
  <2>1. PICK held \in live : \E n, a :
          /\ Fits(n, a)
          /\ a = BlockOf(held) \/ IsNew(n, a)
          /\ m = (live \ {held}) \union {n}
      BY <1>2, <1>5 DEF Resizes
  <2>2. PICK n, a :
          /\ Fits(n, a)
          /\ a = BlockOf(held) \/ IsNew(n, a)
          /\ m = (live \ {held}) \union {n}
      BY <2>1
  <2> DEFINE r == [region |-> BlockOf(held), size |-> held.size]
  <2> DEFINE s == [region |-> a, size |-> n.size]
  <2>3. Seen(m) = (Seen(live) \ {r}) \union {s} /\ r \in Seen(live)
    <3>1. PICK l : l = live \ {held}
        OBVIOUS
    <3>2. Seen(l) = Seen(live) \ {r} /\ r \in Seen(live)
        BY <1>1, <3>1, SeenRemove DEF Seen
    <3>3. Seen(l \union {n}) = Seen(l) \union {s}
        BY <2>2, SeenAdd
    <3> QED
        BY <2>2, <3>1, <3>2, <3>3
  <2>4. s.region \in Blocks /\ s.size <= BlockRoom(s.region)
      BY <2>2, FitsSuits
  <2>5. s.region = r.region \/ \A x \in Seen(live) : ~BlocksOverlap(x.region, s.region)
      BY <2>2, NewIsFree
  <2> HIDE DEF r, s
  <2>6. s \in Seen(live') /\ Seen(live') = (Seen(live) \ {r}) \union {s}
      BY <1>2, <2>3
  <2> QED
      BY <2>3, <2>4, <2>5, <2>6 DEF Promise!Resize, Promise!Suits, Promise!Free, Seen
<1>6. live' = live => Seen(live)' = Seen(live)
    BY DEF Seen
<1> QED
    BY <1>3, <1>4, <1>5, <1>6, StepsOfPointers DEF Promise!Next

-----------------------------------------------------------------------------
(* The sum of the blocks held.  A fold is a recursive function; that it has *)
(* the value its equation says is shown from a least set for which it would *)
(* not.                                                                     *)

\* What a pointer adds to used().
Weight(held) == BlockSize[Len(BlockOf(held))]

Total(l) == FoldSet(LAMBDA held, sum : sum + BlockSize[Len(BlockOf(held))], 0, l)

\* The pointer the fold takes first.
Taken(l) == CHOOSE held \in l : TRUE

\* f is the function that the fold over l is computed with.
Adds(f, l) ==
    f = [s \in SUBSET l |->
           IF s = {} THEN 0 ELSE f[s \ {Taken(s)}] + Weight(Taken(s))]

Addition(l) == CHOOSE f : Adds(f, l)

LEMMA TotalIs ==
    ASSUME NEW l
    PROVE  Total(l) = Addition(l)[l]
BY DEF Total, Addition, Adds, Taken, Weight, FoldSet, MapThenFoldSet

\* Among finite sets there is one that no other of them is part of.
LEMMA LeastSet ==
    ASSUME NEW S, NEW B, B \subseteq SUBSET S, IsFiniteSet(S), B # {}
    PROVE  \E s \in B : \A r \in B : r \subseteq s => r = s
<1>1. IsWellFoundedOn(StrictSubsetOrdering(S), SUBSET S)
    BY FS_StrictSubsetOrderingWellFounded, FS_FiniteSubsetsOfFinite
<1>2. PICK s \in B : \A r \in B : ~(<<r, s>> \in StrictSubsetOrdering(S))
    BY <1>1, WFMin
<1>3. \A r \in B : r \subseteq s => r = s
    BY <1>2 DEF StrictSubsetOrdering
<1> QED
    BY <1>3

LEMMA TakenType ==
    ASSUME NEW l, l # {}
    PROVE  Taken(l) \in l
BY DEF Taken

\* What such functions have in common.
LEMMA AddsOnce ==
    ASSUME NEW l, NEW m, NEW f, NEW g, Adds(f, l), Adds(g, m),
           NEW s, IsFiniteSet(s), s \subseteq l, s \subseteq m
    PROVE  f[s] = g[s]
<1>1. /\ \A r \in SUBSET l : f[r] = IF r = {} THEN 0 ELSE f[r \ {Taken(r)}] + Weight(Taken(r))
      /\ \A r \in SUBSET m : g[r] = IF r = {} THEN 0 ELSE g[r \ {Taken(r)}] + Weight(Taken(r))
    BY DEF Adds
<1> DEFINE B == {r \in SUBSET s : f[r] # g[r]}
<1>2. SUFFICES ASSUME B # {} PROVE FALSE
    OBVIOUS
<1>0. B \subseteq SUBSET s
    OBVIOUS
<1> HIDE DEF B
<1>3. PICK r \in B : \A q \in B : q \subseteq r => q = r
    BY <1>0, <1>2, LeastSet
<1>4. r \in SUBSET l /\ r \in SUBSET m /\ r \subseteq s /\ f[r] # g[r]
    BY <1>3 DEF B
<1>5. r # {}
    BY <1>1, <1>4
<1>6. r \ {Taken(r)} \notin B /\ r \ {Taken(r)} \subseteq s
    BY <1>3, <1>4, <1>5, TakenType
<1>7. f[r \ {Taken(r)}] = g[r \ {Taken(r)}]
    BY <1>6 DEF B
<1> QED
    BY <1>1, <1>4, <1>5, <1>7

\* The equation of the fold.
AddsUp(l) == Total(l) = IF l = {} THEN 0 ELSE Total(l \ {Taken(l)}) + Weight(Taken(l))

\* There is such a function for each finite set.
LEMMA AddsExists ==
    ASSUME NEW l, IsFiniteSet(l)
    PROVE  \E f : Adds(f, l)
<1> DEFINE B == {s \in SUBSET l : ~\E f : Adds(f, s)}
<1>1. SUFFICES ASSUME B # {} PROVE FALSE
    OBVIOUS
<1>0. B \subseteq SUBSET l
    OBVIOUS
<1> HIDE DEF B
<1>2. PICK m \in B : \A q \in B : q \subseteq m => q = m
    BY <1>0, <1>1, LeastSet
<1>3. m \subseteq l /\ IsFiniteSet(m) /\ ~\E f : Adds(f, m)
    BY <1>2, FS_Subset DEF B
<1>4. ASSUME NEW s, s \subseteq m, s # m
      PROVE  Adds(Addition(s), s) /\ IsFiniteSet(s)
  <2>1. s \notin B /\ s \in SUBSET l
      BY <1>2, <1>3, <1>4
  <2>2. \E f : Adds(f, s)
      BY <2>1 DEF B
  <2> QED
      BY <1>3, <1>4, <2>2, FS_Subset DEF Addition
<1> DEFINE f == [s \in SUBSET m |->
                   IF s = {} THEN 0 ELSE Total(s \ {Taken(s)}) + Weight(Taken(s))]
<1>5. ASSUME NEW s, s \subseteq m, s # m
      PROVE  f[s] = Total(s)
  <2>1. /\ Adds(Addition(s), s) /\ Total(s) = Addition(s)[s]
        /\ f[s] = IF s = {} THEN 0 ELSE Total(s \ {Taken(s)}) + Weight(Taken(s))
      BY <1>4, <1>5, TotalIs
  <2>2. Addition(s)[s] = IF s = {} THEN 0
                         ELSE Addition(s)[s \ {Taken(s)}] + Weight(Taken(s))
      BY <2>1 DEF Adds
  <2>3. ASSUME s # {} PROVE Addition(s)[s \ {Taken(s)}] = Total(s \ {Taken(s)})
    <3>1. PICK r : r = s \ {Taken(s)}
        OBVIOUS
    <3>2. r \subseteq s /\ r \subseteq m /\ r # m
        BY <1>5, <3>1
    <3>3. Adds(Addition(r), r) /\ IsFiniteSet(r) /\ Total(r) = Addition(r)[r]
        BY <1>4, <3>2, TotalIs
    <3>4. Addition(s)[r] = Addition(r)[r]
        BY <2>1, <3>2, <3>3, AddsOnce
    <3> QED
        BY <3>1, <3>3, <3>4
  <2> QED
      BY <2>1, <2>2, <2>3
<1>6. ASSUME NEW s \in SUBSET m, s # {} PROVE f[s \ {Taken(s)}] = Total(s \ {Taken(s)})
  <2>1. s \ {Taken(s)} \subseteq m /\ s \ {Taken(s)} # m
      BY <1>6, TakenType
  <2> QED
      BY <1>5, <2>1
<1>7. Adds(f, m)
    BY <1>6 DEF Adds
<1> QED
    BY <1>3, <1>7

LEMMA TotalAddsUp ==
    ASSUME NEW l, IsFiniteSet(l)
    PROVE  AddsUp(l)
<1>1. PICK r : r = l \ {Taken(l)}
    OBVIOUS
<1>2. r \subseteq l /\ IsFiniteSet(r)
    BY <1>1, FS_Subset
<1>3. /\ Adds(Addition(l), l) /\ Total(l) = Addition(l)[l]
      /\ Adds(Addition(r), r) /\ Total(r) = Addition(r)[r]
    BY <1>2, AddsExists, TotalIs DEF Addition
<1>4. Addition(l)[l] = IF l = {} THEN 0 ELSE Addition(l)[r] + Weight(Taken(l))
    BY <1>1, <1>3 DEF Adds
<1>5. Addition(l)[r] = Addition(r)[r]
    BY <1>2, <1>3, AddsOnce
<1> QED
    BY <1>1, <1>3, <1>4, <1>5 DEF AddsUp

\* Each pointer adds a number of bytes.
Weighs(l) == IsFiniteSet(l) /\ \A held \in l : Weight(held) \in Nat

LEMMA TotalType ==
    ASSUME NEW l, Weighs(l)
    PROVE  Total(l) \in Nat
<1> DEFINE B == {s \in SUBSET l : Total(s) \notin Nat}
<1>1. SUFFICES ASSUME B # {} PROVE FALSE
    OBVIOUS
<1>0. B \subseteq SUBSET l
    OBVIOUS
<1> HIDE DEF B
<1>2. PICK s \in B : \A q \in B : q \subseteq s => q = s
    BY <1>0, <1>1, LeastSet DEF Weighs
<1>3. s \subseteq l /\ IsFiniteSet(s) /\ Total(s) \notin Nat
    BY <1>2, FS_Subset DEF Weighs, B
<1>4. Total(s) = IF s = {} THEN 0 ELSE Total(s \ {Taken(s)}) + Weight(Taken(s))
    BY <1>3, TotalAddsUp DEF AddsUp
<1>5. s # {} /\ Taken(s) \in s
    BY <1>3, <1>4, TakenType
<1>6. Total(s \ {Taken(s)}) \in Nat /\ Weight(Taken(s)) \in Nat
    BY <1>2, <1>3, <1>5 DEF Weighs, B
<1> QED
    BY <1>3, <1>4, <1>5, <1>6

\* In whatever order the fold takes the pointers, each counts once.
LEMMA TotalRemove ==
    ASSUME NEW l, Weighs(l), NEW x \in l
    PROVE  Total(l) = Total(l \ {x}) + Weight(x)
<1> DEFINE B == {s \in SUBSET l : \E y \in s : Total(s) # Total(s \ {y}) + Weight(y)}
<1>1. SUFFICES ASSUME B # {} PROVE FALSE
    OBVIOUS
<1>0. B \subseteq SUBSET l
    OBVIOUS
<1> HIDE DEF B
<1>2. PICK s \in B : \A q \in B : q \subseteq s => q = s
    BY <1>0, <1>1, LeastSet DEF Weighs
<1>3. PICK y \in s : Total(s) # Total(s \ {y}) + Weight(y)
    BY <1>2 DEF B
<1>4. PICK p : p = Taken(s) /\ p \in s /\ p \in l /\ y \in l /\ s \subseteq l
    BY <1>2, <1>3, TakenType DEF B
<1>12. \E u, v, w : u = s \ {p} /\ v = s \ {y} /\ w = u \ {y}
    OBVIOUS
<1>5. PICK u, v, w : u = s \ {p} /\ v = s \ {y} /\ w = u \ {y} /\ w = v \ {p}
    BY <1>12
<1>6. IsFiniteSet(s) /\ Weighs(u) /\ Weighs(v) /\ Weighs(w)
    BY <1>4, <1>5, FS_Subset DEF Weighs
<1>7. Total(s) = Total(u) + Weight(p)
    BY <1>3, <1>4, <1>5, <1>6, TotalAddsUp DEF AddsUp
<1>8. p # y
    BY <1>3, <1>5, <1>7
<1>9. u \notin B /\ v \notin B /\ u \in SUBSET l /\ v \in SUBSET l /\ y \in u /\ p \in v
    BY <1>2, <1>3, <1>4, <1>5, <1>8
<1>10. Total(u) = Total(w) + Weight(y) /\ Total(v) = Total(w) + Weight(p)
    BY <1>5, <1>9 DEF B
<1>11. Total(w) \in Nat /\ Weight(p) \in Nat /\ Weight(y) \in Nat
    BY <1>4, <1>6, TotalType DEF Weighs
<1> QED
    BY <1>3, <1>5, <1>7, <1>10, <1>11

LEMMA TotalAdd ==
    ASSUME NEW l, Weighs(l), NEW x, x \notin l, Weight(x) \in Nat
    PROVE  Weighs(l \union {x}) /\ Total(l \union {x}) = Total(l) + Weight(x)
<1>1. PICK m : m = l \union {x}
    OBVIOUS
<1>2. Weighs(m)
    BY <1>1, FS_AddElement DEF Weighs
<1>3. Total(m) = Total(m \ {x}) + Weight(x) /\ m \ {x} = l
    BY <1>1, <1>2, TotalRemove
<1> QED
    BY <1>1, <1>2, <1>3

\* What used() answers is the sum of the blocks held.
Accounts == Inv /\ IsFiniteSet(live) /\ used = Total(live)

LEMMA HeldWeighs ==
    ASSUME Inv, IsFiniteSet(live)
    PROVE  Weighs(live)
<1>1. \A held \in live : Len(BlockOf(held)) \in Tiers
    BY HeldFacts
<1>2. \A held \in live : BlockSize[Len(BlockOf(held))] \in Nat
    BY <1>1, ConstantsAssumption
<1> QED
    BY <1>2 DEF Weighs, Weight

\* A pointer to a block weighs what is counted for the tier of its size.
LEMMA WeightOf ==
    ASSUME NEW held, NEW b, Fits(held, b), NEW tier, TierOf(held.size, tier)
    PROVE  Weight(held) = BlockSize[tier] /\ BlockSize[tier] \in Nat
<1>1. BlockOf(held) = b /\ Len(b) = tier
    BY FitsOnce
<1>2. tier \in Tiers
    BY DEF TierOf
<1> QED
    BY <1>1, <1>2, ConstantsAssumption DEF Weight

\* A set of pointers that loses one, and one that gains one.
LEMMA Loses ==
    ASSUME Accounts, NEW held \in live
    PROVE  /\ Weighs(live \ {held})
           /\ used = Total(live \ {held}) + Weight(held)
           /\ Total(live \ {held}) \in Nat /\ Weight(held) \in Nat
<1>1. Weighs(live)
    BY HeldWeighs DEF Accounts
<1>2. used = Total(live \ {held}) + Weight(held)
    BY <1>1, TotalRemove DEF Accounts
<1>3. IsFiniteSet(live \ {held})
    BY FS_Subset DEF Accounts
<1>4. Weighs(live \ {held})
    BY <1>1, <1>3 DEF Weighs
<1>5. Total(live \ {held}) \in Nat
    BY <1>4, TotalType
<1> QED
    BY <1>1, <1>2, <1>4, <1>5 DEF Weighs

LEMMA AllocAccounts ==
    ASSUME Accounts, NEW length, NEW size \in Nat, length = size, AllocLength(length, size)
    PROVE  Accounts'
<1>1. PICK tier \in Tiers, src \in Tiers :
        /\ TierOf(size, tier)
        /\ Serves(heap, src, tier)
        /\ used' = used + BlockSize[tier]
        /\ live' = live \union {[addr |-> Address(Obtained(heap, src, tier)), size |-> size]}
    BY DEF AllocLength
<1> DEFINE a == Obtained(heap, src, tier)
<1> DEFINE new == [addr |-> Address(a), size |-> size]
<1>2. Fits(new, a) /\ a \notin Given(live)
    BY <1>1, ObtainedFits DEF Inv, Accounts
<1>3. live' = live \union {new} /\ new.size = size
    BY <1>1
<1> HIDE DEF a, new
<1>4. new \notin live
    BY <1>2, FitsOnce DEF Given
<1>5. Weight(new) = BlockSize[tier] /\ BlockSize[tier] \in Nat
    BY <1>1, <1>2, <1>3, WeightOf
<1>6. Weighs(live)
    BY HeldWeighs DEF Accounts
<1>7. PICK m : m = live'
    OBVIOUS
<1>8. Weighs(m) /\ Total(m) = Total(live) + Weight(new)
    BY <1>3, <1>4, <1>5, <1>6, <1>7, TotalAdd
<1>9. IsFiniteSet(m) /\ used' = Total(m)
    BY <1>1, <1>5, <1>8 DEF Accounts, Weighs
<1>10. Inv'
    BY AllocInv DEF Accounts
<1> QED
    BY <1>7, <1>9, <1>10 DEF Accounts

LEMMA ReleaseAccounts ==
    ASSUME Accounts, NEW held \in live, NEW tier, tier = Len(BlockOf(held)),
           ReleaseBlock(held, tier)
    PROVE  Accounts'
<1>1. used' = used - BlockSize[tier] /\ live' = live \ {held}
    BY DEF ReleaseBlock
<1>2. Inv'
    BY ReleaseInv DEF Accounts
<1>3. PICK m : m = live'
    OBVIOUS
<1>4. Weighs(m) /\ used = Total(m) + Weight(held) /\ Total(m) \in Nat /\ Weight(held) \in Nat
    BY <1>1, <1>3, Loses
<1>5. IsFiniteSet(m) /\ used' = Total(m)
    BY <1>1, <1>4 DEF Weighs, Weight
<1> QED
    BY <1>2, <1>3, <1>5 DEF Accounts

\* One pointer makes place for another.
LEMMA ExchangeAccounts ==
    ASSUME Accounts, Inv', NEW held \in live, NEW n, NEW a, Fits(n, a), n \notin live \ {held},
           NEW tier, TierOf(n.size, tier),
           live' = (live \ {held}) \union {n},
           used' = used + BlockSize[tier] - Weight(held)
    PROVE  Accounts'
<1>1. PICK l, m : l = live \ {held} /\ m = live'
    OBVIOUS
<1>2. Weighs(l) /\ used = Total(l) + Weight(held) /\ Total(l) \in Nat /\ Weight(held) \in Nat
    BY <1>1, Loses
<1>3. Weight(n) = BlockSize[tier] /\ BlockSize[tier] \in Nat
    BY WeightOf
<1>4. m = l \union {n} /\ n \notin l
    BY <1>1
<1>5. Weighs(m) /\ Total(m) = Total(l) + Weight(n)
    BY <1>2, <1>3, <1>4, TotalAdd
<1>6. IsFiniteSet(m) /\ used' = Total(m)
    BY <1>2, <1>3, <1>5 DEF Weighs
<1> QED
    BY <1>1, <1>6 DEF Accounts

LEMMA InPlaceAccounts ==
    ASSUME Accounts, NEW held \in live, NEW size \in Nat, ReallocInPlace(held, size)
    PROVE  Accounts'
<1> DEFINE b == BlockOf(held)
<1> DEFINE n == [held EXCEPT !.size = size]
<1>1. live' = (live \ {held}) \union {n} /\ used' = used
    BY DEF ReallocInPlace
<1>2. Inv' /\ Fits(n, b)
    BY InPlaceInv, InPlaceFits DEF Accounts
<1>3. /\ b \in Blocks /\ Len(b) \in Tiers
      /\ b \in Given(live) /\ \A k \in live : BlockOf(k) = b => k = held
    BY HeldFacts DEF Accounts, Inv, Owners
<1> HIDE DEF b, n
<1>4. TierOf(n.size, Len(b)) /\ BlockOf(n) = b
    BY <1>2, FitsOnce DEF Fits
<1>5. n \notin live \ {held}
    BY <1>3, <1>4
<1>6. Weight(held) = BlockSize[Len(b)]
    BY DEF Weight, b
<1>7. used \in Nat /\ BlockSize[Len(b)] \in Nat
    BY <1>3, HeldWeighs, TotalType, ConstantsAssumption DEF Accounts
<1>8. used' = used + BlockSize[Len(b)] - Weight(held)
    BY <1>1, <1>6, <1>7
<1> QED
    BY <1>1, <1>2, <1>4, <1>5, <1>8, ExchangeAccounts

LEMMA MovesAccounts ==
    ASSUME Accounts, NEW held \in live, NEW size \in Nat, ReallocMoves(held, size)
    PROVE  Accounts'
<1>1. PICK tier \in Tiers, new \in Tiers, src \in Tiers :
        /\ LocatedAt(held.addr, tier)
        /\ TierOf(size, new)
        /\ Serves(heap, src, new)
        /\ used' = used + BlockSize[new] - BlockSize[tier]
        /\ live' = (live \ {held}) \union
                     {[addr |-> Address(Obtained(heap, src, new)), size |-> size]}
    BY DEF ReallocMoves
<1> DEFINE a == Obtained(heap, src, new)
<1> DEFINE n == [addr |-> Address(a), size |-> size]
<1>2. Fits(n, a) /\ a \notin Given(live)
    BY <1>1, ObtainedFits DEF Inv, Accounts
<1>3. live' = (live \ {held}) \union {n} /\ n.size = size
    BY <1>1
<1> HIDE DEF a, n
<1>4. n \notin live
    BY <1>2, FitsOnce DEF Given
<1>5. tier = Len(BlockOf(held))
    BY <1>1, HeldFacts DEF Accounts
<1>6. Weight(held) = BlockSize[tier]
    BY <1>5 DEF Weight
<1>7. Inv'
    BY MovesInv DEF Accounts
<1> QED
    BY <1>1, <1>2, <1>3, <1>4, <1>6, <1>7, ExchangeAccounts

LEMMA NextAccounts ==
    ASSUME ProductsFit
    PROVE  Accounts /\ [Next]_vars => Accounts'
<1> SUFFICES ASSUME Accounts, [Next]_vars PROVE Accounts'
    OBVIOUS
<1>1. ASSUME NEW size \in Requests, Alloc(size) PROVE Accounts'
    BY <1>1, AllocAccounts, ConstantsAssumption DEF Alloc
<1>2. ASSUME NEW a \in Arrays, Calloc(a[1], a[2]) PROVE Accounts'
    BY <1>2, AllocAccounts, Product DEF Calloc
<1>3. ASSUME NEW held \in live, Dealloc(held) PROVE Accounts'
    BY <1>3, ReleaseAccounts, HeldFacts DEF Dealloc, Accounts
<1>4. ASSUME NEW held \in live, Free(held) PROVE Accounts'
    BY <1>4, ReleaseAccounts, HeldFacts DEF Free, Accounts
<1>5. ASSUME NEW held \in live, NEW size \in Requests, Realloc(held, size) PROVE Accounts'
  <2>1. size \in Nat
      BY ConstantsAssumption
  <2> QED
      BY <1>4, <1>5, <2>1, InPlaceAccounts, MovesAccounts DEF Realloc
<1>6. CASE Reset \/ UNCHANGED vars
  <2>1. live' = live /\ used' = used /\ inUse' = inUse /\ chain' = chain
      BY <1>6 DEF Reset, vars
  <2>2. Inv'
      BY <2>1 DEF Accounts, Inv, heap
  <2> QED
      BY <2>1, <2>2 DEF Accounts
<1> QED
    BY <1>1, <1>2, <1>3, <1>4, <1>5, <1>6 DEF Next

LEMMA InitAccounts == Init => Accounts
<1> SUFFICES ASSUME Init PROVE Accounts
    OBVIOUS
<1>1. live = {} /\ used = 0 /\ Inv
    BY InitInv DEF Init
<1>2. IsFiniteSet({}) /\ Total({}) = 0
    BY FS_EmptySet, TotalAddsUp DEF AddsUp
<1> QED
    BY <1>1, <1>2 DEF Accounts

-----------------------------------------------------------------------------
(* The theorems *)

\* Flags are nested (isBlockInUse, setBlockInUse, the assertion of recycle,
\* allocators.cpp:271): whatever is allocated, resized and given back, a flag is set
\* only below flags that are set, so that locateBlockInUse may stop at the first.
THEOREM FlagsCorrect ==
    ASSUME ProductsFit
    PROVE  Spec => []FlagsAreNested
<1>1. Spec => []Inv
    BY Invariance
<1> QED
    BY <1>1, InvFlags, PTL

\* The free chains (obtain and recycle): each holds every free block of its tier
\* whose buddy is not free, once, and nothing else.  Free buddies are always merged,
\* no block is lost or handed out twice, and recycle finds the buddy it unchains.
THEOREM ChainsCorrect ==
    ASSUME ProductsFit
    PROVE  Spec => []ChainsHoldFreeBlocks
<1>1. Spec => []Inv
    BY Invariance
<1> QED
    BY <1>1, InvChains, PTL

\* dealloc and free: every pointer leads by its size and by its address to the block
\* it was given, which no other pointer has; no other block is in use.
THEOREM PointersCorrect ==
    ASSUME ProductsFit
    PROVE  Spec => []PointersAreFound
<1>1. Spec => []Inv
    BY Invariance
<1> QED
    BY <1>1, InvPointers, PTL

\* When everything was given back the chunk is one free block (recycle).
THEOREM WholeCorrect ==
    ASSUME ProductsFit
    PROVE  Spec => []AllFreeIsWhole
<1>1. Spec => []Inv
    BY Invariance
<1> QED
    BY <1>1, InvWhole, PTL

\* used() (alloc, calloc, dealloc, free, realloc): the counter is at every moment the
\* sum of the sizes of the blocks held, whatever was resized in place or moved.
THEOREM UsedCorrect ==
    ASSUME ProductsFit
    PROVE  Spec => []UsedIsSumOfBlocks
<1>1. Accounts => UsedIsSumOfBlocks
    BY DEF Accounts, Total, UsedIsSumOfBlocks
<1> QED
    BY <1>1, InitAccounts, NextAccounts, PTL DEF Spec

\* No byte is handed out twice (alloc, calloc, realloc).
THEOREM NoByteTwice ==
    ASSUME ProductsFit
    PROVE  Spec => []Promise!Disjoint
<1>1. Spec => []Inv
    BY Invariance
<1>2. ASSUME Inv, NEW h \in Seen(live), NEW k \in Seen(live), h # k
      PROVE  ~BlocksOverlap(h.region, k.region)
  <2>1. PICK g \in live, l \in live : /\ h = [region |-> BlockOf(g), size |-> g.size]
                                      /\ k = [region |-> BlockOf(l), size |-> l.size]
      BY <1>2 DEF Seen
  <2>2. PICK b, c : b = BlockOf(g) /\ c = BlockOf(l)
      OBVIOUS
  <2>3. b # c /\ b \in Given(live) /\ c \in Given(live) /\ Apart(Given(live))
      BY <1>2, <2>1, <2>2 DEF Inv, Owners, Given, Sound
  <2>4. b \in Blocks /\ c \in Blocks /\ ~Above(b, c) /\ ~Above(c, b)
      BY <2>3 DEF Apart
  <2> QED
      BY <2>1, <2>2, <2>4, CutIsAbove DEF BlocksOverlap
<1>3. Inv => Promise!Disjoint
    BY <1>2 DEF Promise!Disjoint, Seen
<1> QED
    BY <1>1, <1>3, PTL

\* available() tells which requests alloc can serve (obtain, tierOf): it follows from
\* the block sizes alone, whatever is in the chains.
THEOREM AvailableCorrect == Spec => []AvailableIsServed
BY AvailableServed, PTL

\* BuddyAllocator implements the interface: alloc, calloc and realloc hand out parts
\* of the chunk that are large enough and disjoint from all others in use.
THEOREM Implements ==
    ASSUME ProductsFit
    PROVE  Spec => ImplementsBlockAllocator
<1>1. Spec => []Inv
    BY Invariance
<1>2. Inv /\ [Next]_vars => [Promise!Next]_(Seen(live))
    BY SeenStep
<1>3. [Promise!Next]_(Seen(live)) <=>
        [Promise!Next]_({[region |-> BlockOf(held), size |-> held.size] : held \in live})
    BY DEF Seen
<1> QED
    BY <1>1, <1>2, <1>3, SeenInit, PTL DEF Spec, ImplementsBlockAllocator, Promise!Spec
=============================================================================
