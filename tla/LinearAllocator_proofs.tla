------------------------ MODULE LinearAllocator_proofs ------------------------
(***************************************************************************)
(* Theorems about LinearAllocator, for every capacity and every set of     *)
(* requests, when the application keeps to the stack or to the arena       *)
(* discipline: no cell in use is rolled back over, everything given back   *)
(* leaves the chunk empty, and every pointer has a cell of its own.        *)
(***************************************************************************)
EXTENDS LinearAllocator, WellFoundedInduction, TLAPS

\* The application is known by its discipline.
Ordered == Disciplines \subseteq {"stack", "arena"}

\* Header and rounding do not exceed the width of a size, nor does calloc's product.
SizesFit ==
    /\ \A size \in Requests : size + 2 * Header <= Word
    /\ \A a \in Arrays : a[1] * a[2] + 2 * Header <= Word

-----------------------------------------------------------------------------
(* The invariant *)

\* The link of the record at o goes down, the one at the bottom to itself.
Below(p, o) == p < o \/ (p = 0 /\ o = 0)

Records ==
    /\ current \in Offsets /\ previous \in Offsets
    /\ cell \in [Offsets -> [prev : Offsets, freed : BOOLEAN]]
    /\ Below(previous, current)
    /\ \A o \in Offsets : Below(cell[o].prev, o)

\* A pointer with a cell that is large enough, between the offsets low and high.
Fills(held, low, high) ==
    /\ held \in [off : Offsets, end : Offsets, size : Nat]
    /\ low <= held.off
    /\ held.off + Header + held.size <= held.end
    /\ held.end <= high

Apart(h, k) == h.end <= k.off \/ k.end <= h.off

Cells ==
    /\ \A held \in live : Fills(held, 0, current) /\ ~cell[held.off].freed
    /\ \A h, k \in live : h # k => Apart(h, k)

InUse(o) == \E held \in live : held.off = o

\* In stack discipline the cell at the bottom is in use as long as any is, and the
\* links of those in use, and Previous, lead to cells in use.
Stacked ==
    /\ live # {} => InUse(0) /\ InUse(previous)
    /\ \A held \in live : held.off # 0 => InUse(cell[held.off].prev)

Inv ==
    /\ Records
    /\ Cells
    /\ live = {} => current = 0
    /\ discipline \in {"stack", "arena"}
    /\ discipline = "stack" => Stacked

-----------------------------------------------------------------------------
(* Offsets and sizes *)

LEMMA OffsetType ==
    /\ 0 \in Offsets
    /\ \A o \in Offsets : o \in Nat /\ o <= Capacity /\ o % 8 = 0
    /\ \A o \in Nat : o % 8 = 0 /\ o <= Capacity => o \in Offsets
BY ConstantsAssumption DEF Offsets

\* Rounding up: to a multiple of 8 that is not smaller, and below any such bound.
LEMMA Rounding ==
    ASSUME NEW n \in Nat, n % 8 # 0
    PROVE  LET r == (n \div 8 + 1) * 8
           IN  r \in Nat /\ r % 8 = 0 /\ n <= r /\ \A w \in Nat : w % 8 = 0 /\ n <= w => r <= w
OBVIOUS

\* A cell has room for its record and for the request.
LEMMA CellSizeFits ==
    ASSUME NEW size \in Nat, size + 2 * Header <= Word
    PROVE  CellSize(size) \in Nat /\ CellSize(size) % 8 = 0 /\ size + Header <= CellSize(size)
<1>1. Word \in Nat \ {0} /\ Word % 8 = 0 /\ Header = 8
    BY ConstantsAssumption DEF Header
<1>2. ASSUME NEW n \in Nat, NEW w \in Nat \ {0}, n < w PROVE n % w = n
    BY <1>2
<1>3. PICK full : full = size + Header /\ full \in Nat /\ full + 8 <= Word
    BY <1>1
<1>4. full % Word = full
    BY <1>1, <1>2, <1>3
<1>5. CASE full % 8 = 0
  <2>1. CellSize(size) = full
      BY <1>3, <1>4, <1>5 DEF CellSize
  <2> QED
      BY <1>1, <1>3, <1>5, <2>1
<1>6. CASE full % 8 # 0
  <2>1. PICK r : r = (full \div 8 + 1) * 8
      OBVIOUS
  <2>2. /\ r \in Nat /\ r % 8 = 0 /\ full <= r
        /\ \A w \in Nat : w % 8 = 0 /\ full <= w => r <= w
      BY <1>3, <1>6, <2>1, Rounding
  <2>3. Word - 8 \in Nat /\ (Word - 8) % 8 = 0 /\ full <= Word - 8
      BY <1>1, <1>3
  <2>4. r < Word
      BY <1>1, <2>2, <2>3
  <2>5. r % Word = r
      BY <1>1, <1>2, <2>2, <2>4
  <2>6. CellSize(size) = r
      BY <1>3, <1>4, <1>6, <2>1, <2>5 DEF CellSize
  <2> QED
      BY <1>1, <1>3, <2>2, <2>6
<1> QED
    BY <1>5, <1>6

-----------------------------------------------------------------------------
(* The roll back.  Its loop is a recursive function; that it has the value  *)
(* its equation says is shown from a least offset up to which there is no   *)
(* such function.                                                           *)

\* A set of offsets has a first one.
LEMMA Least ==
    ASSUME NEW S, S \subseteq Nat, S # {}
    PROVE  \E x \in S : \A y \in S : x <= y
<1>1. IsWellFoundedOn(OpToRel(<, Nat), Nat)
    BY NatLessThanWellFounded
<1>2. PICK x \in S : \A y \in S : ~(<<y, x>> \in OpToRel(<, Nat))
    BY <1>1, WFMin
<1>3. \A y \in S : ~(y < x)
    BY <1>2 DEF OpToRel
<1>4. \A y \in S : x \in Nat /\ y \in Nat
    OBVIOUS
<1> QED
    BY <1>3, <1>4

\* The links of these records go down.
Falling(cells) ==
    /\ cells \in [Offsets -> [prev : Offsets, freed : BOOLEAN]]
    /\ \A o \in Offsets : Below(cells[o].prev, o)

\* One turn of the loop at rec, with f for the turns to come.
Turn(cells, f, rec) ==
    IF rec = 0 THEN [current |-> 0, previous |-> 0]
    ELSE IF ~cells[cells[rec].prev].freed
           THEN [current |-> rec, previous |-> cells[cells[rec].prev].prev]
    ELSE f[cells[rec].prev]

\* f does the loop from each of these offsets.
Loops(cells, f, S) == f = [rec \in S |-> Turn(cells, f, rec)]

LEMMA RolledBackIs ==
    ASSUME NEW cells, NEW top
    PROVE  RolledBack(cells, top) = (CHOOSE f : Loops(cells, f, Offsets))[top]
BY DEF RolledBack, Loops, Turn

LEMMA LoopExists ==
    ASSUME NEW cells, Falling(cells)
    PROVE  \E f : Loops(cells, f, Offsets)
<1> DEFINE UpTo(n) == {o \in Offsets : o <= n}
<1> DEFINE B == {n \in Nat : ~\E f : Loops(cells, f, UpTo(n))}
<1>1. Capacity \in Nat /\ UpTo(Capacity) = Offsets
    BY OffsetType, ConstantsAssumption
<1>2. SUFFICES ASSUME B # {} PROVE FALSE
  <2>1. Capacity \notin B => \E f : Loops(cells, f, UpTo(Capacity))
      BY <1>1
  <2> QED
      BY <1>1, <2>1
<1>3. B \subseteq Nat
    OBVIOUS
<1> HIDE DEF B
<1>4. PICK n \in B : \A m \in B : n <= m
    BY <1>2, <1>3, Least
<1>5. n \in Nat /\ ~\E f : Loops(cells, f, UpTo(n))
    BY <1>4 DEF B
<1>6. CASE n = 0
  <2>1. UpTo(0) = {0}
      BY OffsetType
  <2> DEFINE f == [rec \in UpTo(0) |-> [current |-> 0, previous |-> 0]]
  <2>2. Loops(cells, f, UpTo(0))
      BY <2>1 DEF Loops, Turn
  <2> QED
      BY <1>5, <1>6, <2>2
<1>7. CASE n # 0
  <2>1. n - 1 \in Nat /\ n - 1 \notin B
      BY <1>4, <1>5, <1>7
  <2>2. PICK f : Loops(cells, f, UpTo(n - 1))
      BY <2>1 DEF B
  <2> DEFINE g == [rec \in UpTo(n) |-> Turn(cells, f, rec)]
  <2>3. ASSUME NEW rec \in UpTo(n), rec # 0
        PROVE  g[cells[rec].prev] = f[cells[rec].prev]
    <3>1. PICK p : p = cells[rec].prev /\ p \in Offsets /\ p < rec
        BY <2>3 DEF Falling, Below
    <3>2. p \in UpTo(n - 1) /\ p \in UpTo(n)
        BY <1>5, <2>3, <3>1, OffsetType
    <3>3. f[p] = Turn(cells, f, p)
        BY <2>2, <3>2 DEF Loops
    <3>4. g[p] = Turn(cells, f, p)
        BY <3>2
    <3> QED
        BY <3>1, <3>3, <3>4
  <2>4. \A rec \in UpTo(n) : Turn(cells, f, rec) = Turn(cells, g, rec)
      BY <2>3 DEF Turn
  <2>5. Loops(cells, g, UpTo(n))
      BY <2>4 DEF Loops
  <2> QED
      BY <1>5, <2>5
<1> QED
    BY <1>6, <1>7

\* The equation of the loop.
LEMMA RollsBack ==
    ASSUME NEW cells, Falling(cells), NEW top \in Offsets
    PROVE  RolledBack(cells, top) =
             IF top = 0 THEN [current |-> 0, previous |-> 0]
             ELSE IF ~cells[cells[top].prev].freed
                    THEN [current |-> top, previous |-> cells[cells[top].prev].prev]
             ELSE RolledBack(cells, cells[top].prev)
<1>1. PICK f : f = CHOOSE g : Loops(cells, g, Offsets)
    OBVIOUS
<1>2. Loops(cells, f, Offsets)
    BY <1>1, LoopExists
<1>3. f[top] = Turn(cells, f, top)
    BY <1>2 DEF Loops
<1>4. RolledBack(cells, top) = f[top] /\ RolledBack(cells, cells[top].prev) = f[cells[top].prev]
    BY <1>1, RolledBackIs
<1> QED
    BY <1>3, <1>4 DEF Turn

-----------------------------------------------------------------------------
(* What alloc and free do to the records *)

LEMMA FillsOrder ==
    ASSUME NEW held, NEW low \in Nat, NEW high \in Nat, Fills(held, low, high)
    PROVE  /\ held.off \in Offsets /\ held.end \in Offsets /\ held.size \in Nat
           /\ held.off \in Nat /\ held.end \in Nat
           /\ low <= held.off /\ held.off < held.end /\ held.end <= high
BY OffsetType DEF Fills, Header

\* What alloc makes of the stack: its top, its records and the pointer to the cell.
IsPush(top, cells, new, size) ==
    /\ top = current + CellSize(size)
    /\ cells = [cell EXCEPT ![current] = [prev |-> previous, freed |-> FALSE]]
    /\ new = Holding(size, size)

OnTop(top, cells, new, size) ==
    /\ top \in Offsets /\ current \in Offsets /\ current < top
    /\ Pushed(stack, size) = [current |-> top, previous |-> current, cell |-> cells]
    /\ Falling(cells)
    /\ cells[current].prev = previous /\ ~cells[current].freed
    /\ \A o \in Offsets : o # current => cells[o] = cell[o]
    /\ Fills(new, current, top) /\ new.off = current
    /\ \A held \in live : Fills(held, 0, current) /\ held.off < current

\* alloc: the new cell lies above all in use.
LEMMA PushFacts ==
    ASSUME Inv, NEW size \in Nat, size + 2 * Header <= Word, Fits(stack, size),
           NEW top, NEW cells, NEW new, IsPush(top, cells, new, size)
    PROVE  OnTop(top, cells, new, size)
<1>0. /\ top = current + CellSize(size)
      /\ cells = [cell EXCEPT ![current] = [prev |-> previous, freed |-> FALSE]]
      /\ new = Holding(size, size)
    BY DEF IsPush
<1>1. /\ current \in Offsets /\ previous \in Offsets /\ Below(previous, current)
      /\ cell \in [Offsets -> [prev : Offsets, freed : BOOLEAN]]
      /\ \A o \in Offsets : Below(cell[o].prev, o)
    BY DEF Inv, Records
<1>2. PICK n : n = CellSize(size) /\ n \in Nat /\ n % 8 = 0 /\ size + 8 <= n
    BY CellSizeFits DEF Header
<1>3. current \in Nat /\ current % 8 = 0 /\ current <= Capacity /\ Capacity \in Nat
    BY <1>1, OffsetType, ConstantsAssumption
<1>4. n <= Available(current)
    BY <1>2 DEF Fits, stack
<1>5. n <= Capacity - current - 8
  <2>1. n # 0 /\ n > 0
      BY <1>2
  <2>2. ~(Capacity - current < 8)
      BY <1>2, <1>3, <1>4, <2>1 DEF Available, Header
  <2> QED
      BY <1>2, <1>3, <1>4, <2>2 DEF Available, Header
<1>6. top \in Nat /\ top % 8 = 0 /\ top <= Capacity /\ current < top /\ top = current + n
    BY <1>0, <1>2, <1>3, <1>5
<1>7. top \in Offsets
    BY <1>6, OffsetType
<1>8. Pushed(stack, size) = [current |-> top, previous |-> current, cell |-> cells]
    BY <1>0 DEF Pushed, stack
<1>9. /\ cells \in [Offsets -> [prev : Offsets, freed : BOOLEAN]]
      /\ cells[current] = [prev |-> previous, freed |-> FALSE]
      /\ \A o \in Offsets : o # current => cells[o] = cell[o]
    BY <1>0, <1>1
<1>10. ASSUME NEW o \in Offsets PROVE Below(cells[o].prev, o)
  <2>1. CASE o = current
      BY <1>1, <1>9, <2>1
  <2>2. CASE o # current
      BY <1>1, <1>9, <2>2
  <2> QED
      BY <2>1, <2>2
<1>11. Falling(cells)
    BY <1>9, <1>10 DEF Falling
<1>12. new = [off |-> current, end |-> top, size |-> size]
    BY <1>0 DEF Holding
<1>13. Fills(new, current, top) /\ new.off = current
    BY <1>1, <1>2, <1>3, <1>6, <1>7, <1>12 DEF Fills, Header
<1>14. \A held \in live : Fills(held, 0, current)
    BY DEF Inv, Cells
<1>15. \A held \in live : held.off < current
    BY <1>3, <1>14, FillsOrder
<1> QED
    BY <1>1, <1>6, <1>7, <1>8, <1>9, <1>11, <1>13, <1>14, <1>15 DEF OnTop

\* free: a record is marked.
Mark(cells, off) == [cells EXCEPT ![off].freed = TRUE]

LEMMA MarkFacts ==
    ASSUME NEW cells, Falling(cells), NEW off \in Offsets,
           NEW marked, marked = Mark(cells, off)
    PROVE  /\ Falling(marked)
           /\ \A o \in Offsets : marked[o].prev = cells[o].prev
           /\ \A o \in Offsets : o # off => marked[o].freed = cells[o].freed
           /\ marked[off].freed
<1>1. /\ cells \in [Offsets -> [prev : Offsets, freed : BOOLEAN]]
      /\ \A o \in Offsets : Below(cells[o].prev, o)
    BY DEF Falling
<1>2. /\ marked \in [Offsets -> [prev : Offsets, freed : BOOLEAN]]
      /\ \A o \in Offsets : o # off => marked[o] = cells[o]
      /\ marked[off].prev = cells[off].prev /\ marked[off].freed = TRUE
    BY <1>1 DEF Mark
<1>3. \A o \in Offsets : marked[o].prev = cells[o].prev
    BY <1>2
<1> QED
    BY <1>1, <1>2, <1>3 DEF Falling

\* A cell that is not the one Previous leads to is only marked.
LEMMA FreedMarks ==
    ASSUME NEW s, NEW cur, NEW prev, NEW cells, NEW off, prev # off,
           s = [current |-> cur, previous |-> prev, cell |-> cells]
    PROVE  Freed(s, off) =
             [current |-> cur, previous |-> prev, cell |-> Mark(cells, off)]
BY DEF Freed, Mark

\* The one Previous leads to is taken off.
LEMMA FreedRolls ==
    ASSUME NEW s, NEW cur, NEW cells, NEW off, NEW marked,
           marked = Mark(cells, off),
           s = [current |-> cur, previous |-> off, cell |-> cells]
    PROVE  Freed(s, off) =
             [current |-> RolledBack(marked, off).current,
              previous |-> RolledBack(marked, off).previous,
              cell |-> marked]
BY DEF Freed, Mark

-----------------------------------------------------------------------------
(* The invariant is kept *)

LEMMA InitInv ==
    ASSUME Ordered
    PROVE  Init => Inv
<1> SUFFICES ASSUME Init PROVE Inv
    OBVIOUS
<1>1. /\ current = 0 /\ previous = 0 /\ live = {} /\ discipline \in {"stack", "arena"}
      /\ cell = [o \in Offsets |-> [prev |-> 0, freed |-> FALSE]]
    BY DEF Init, Ordered
<1>2. Records
    BY <1>1, OffsetType DEF Records, Below
<1> QED
    BY <1>1, <1>2 DEF Inv, Cells, Stacked

LEMMA AllocInv ==
    ASSUME Inv, NEW length, NEW size \in Nat, length = size, size + 2 * Header <= Word,
           AllocLength(length, size)
    PROVE  Inv'
<1>1. PICK top, cells, new : IsPush(top, cells, new, size)
    BY DEF IsPush
<1>2. Fits(stack, size)
    BY DEF AllocLength
<1>3. /\ top \in Offsets /\ current \in Offsets /\ current < top
      /\ Pushed(stack, size) = [current |-> top, previous |-> current, cell |-> cells]
      /\ Falling(cells)
      /\ cells[current].prev = previous /\ ~cells[current].freed
      /\ \A o \in Offsets : o # current => cells[o] = cell[o]
      /\ Fills(new, current, top) /\ new.off = current
      /\ \A held \in live : Fills(held, 0, current) /\ held.off < current
    BY <1>1, <1>2, PushFacts DEF OnTop
<1>4. /\ current' = top /\ previous' = current /\ cell' = cells
      /\ live' = live \union {new} /\ discipline' = discipline
    BY <1>1, <1>3 DEF AllocLength, SetStack, IsPush, Holding
<1>5. current \in Nat /\ top \in Nat
    BY <1>3, OffsetType
<1>6. Records'
    BY <1>3, <1>4 DEF Records, Falling, Below
<1>7. ASSUME NEW held \in live PROVE Fills(held, 0, top) /\ ~cells[held.off].freed /\ Apart(held, new)
  <2>1. Fills(held, 0, current) /\ held.off < current /\ ~cell[held.off].freed
      BY <1>3 DEF Inv, Cells
  <2>2. held.off \in Offsets /\ held.off \in Nat /\ held.end \in Nat /\ held.end <= current
      BY <1>5, <2>1, FillsOrder
  <2>3. cells[held.off] = cell[held.off]
      BY <1>3, <1>5, <2>1, <2>2
  <2>4. Fills(held, 0, top)
      BY <1>3, <1>5, <2>1, <2>2 DEF Fills
  <2>5. Apart(held, new)
      BY <1>3, <2>2 DEF Apart
  <2> QED
      BY <2>1, <2>3, <2>4, <2>5
<1>8. Fills(new, 0, top) /\ ~cells[new.off].freed
    BY <1>3, <1>5, FillsOrder DEF Fills
<1>9. Cells'
  <2>1. \A held \in live' : Fills(held, 0, current') /\ ~cell'[held.off].freed
      BY <1>4, <1>7, <1>8
  <2>2. ASSUME NEW h \in live', NEW k \in live', h # k PROVE Apart(h, k)
    <3>1. \A a \in live : Apart(a, new) /\ Apart(new, a)
        BY <1>7 DEF Apart
    <3>2. \A a, b \in live : a # b => Apart(a, b)
        BY DEF Inv, Cells
    <3> QED
        BY <1>4, <2>2, <3>1, <3>2
  <2> QED
      BY <2>1, <2>2 DEF Cells
<1>10. ASSUME discipline = "stack" PROVE Stacked'
  <2>1. /\ live # {} => InUse(0) /\ InUse(previous)
        /\ \A held \in live : held.off # 0 => InUse(cell[held.off].prev)
        /\ live = {} => current = 0
        /\ Below(previous, current)
      BY <1>10 DEF Inv, Stacked, Records
  <2>2. \A o : InUse(o) => \E held \in live' : held.off = o
      BY <1>4 DEF InUse
  <2>3. \E held \in live' : held.off = current
      BY <1>3, <1>4
  <2>4. \E held \in live' : held.off = 0
      BY <2>1, <2>2, <2>3
  <2>5. ASSUME NEW held \in live', held.off # 0
        PROVE  \E k \in live' : k.off = cells[held.off].prev
    <3>1. CASE held \in live
      <4>1. held.off \in Offsets /\ held.off # current
          BY <1>3, <1>5, <3>1, FillsOrder
      <4> QED
          BY <1>3, <2>1, <2>2, <2>5, <3>1, <4>1
    <3>2. CASE held = new
      <4>1. held.off = current /\ live # {}
          BY <1>3, <2>1, <2>5, <3>2
      <4> QED
          BY <1>3, <2>1, <2>2, <4>1
    <3> QED
        BY <1>4, <3>1, <3>2
  <2> QED
      BY <1>4, <2>3, <2>4, <2>5 DEF Stacked, InUse
<1>11. live' # {} /\ discipline' \in {"stack", "arena"}
    BY <1>4 DEF Inv
<1> QED
    BY <1>4, <1>6, <1>9, <1>10, <1>11 DEF Inv

\* realloc, in arena discipline: a new cell, and a mark on the old one, which cannot be
\* on top.
LEMMA ReallocInv ==
    ASSUME Inv, NEW held \in live, NEW size \in Nat, size + 2 * Header <= Word,
           Realloc(held, size)
    PROVE  Inv'
<1>1. PICK top, cells, new : IsPush(top, cells, new, size)
    BY DEF IsPush
<1>2. Fits(stack, size)
    BY DEF Realloc
<1>3. /\ top \in Offsets /\ current \in Offsets /\ current < top
      /\ Pushed(stack, size) = [current |-> top, previous |-> current, cell |-> cells]
      /\ Falling(cells)
      /\ ~cells[current].freed
      /\ \A o \in Offsets : o # current => cells[o] = cell[o]
      /\ Fills(new, current, top) /\ new.off = current
      /\ \A k \in live : Fills(k, 0, current) /\ k.off < current
    BY <1>1, <1>2, PushFacts DEF OnTop
<1>4. current \in Nat /\ top \in Nat
    BY <1>3, OffsetType
<1>5. PICK off : off = held.off /\ off \in Offsets /\ off # current
    BY <1>3, <1>4, FillsOrder
<1>6. PICK marked : marked = Mark(cells, off)
    OBVIOUS
<1>7. /\ Falling(marked)
      /\ \A o \in Offsets : o # off => marked[o].freed = cells[o].freed
  <2>1. Falling(cells) /\ off \in Offsets
      BY <1>3, <1>5
  <2> QED
      BY <1>6, <2>1, MarkFacts
<1>8. Freed(Pushed(stack, size), off) = [current |-> top, previous |-> current, cell |-> marked]
  <2>1. PICK s, c : s = Pushed(stack, size) /\ c = current
      OBVIOUS
  <2>2. s = [current |-> top, previous |-> c, cell |-> cells] /\ c # off
      BY <1>3, <1>5, <2>1
  <2>3. Freed(s, off) = [current |-> top, previous |-> c, cell |-> Mark(cells, off)]
      BY <2>2, FreedMarks
  <2> QED
      BY <1>6, <2>1, <2>3
<1>9. /\ current' = top /\ previous' = current /\ cell' = marked
      /\ live' = (live \ {held}) \union {new} /\ discipline' = discipline
      /\ discipline = "arena"
    BY <1>1, <1>5, <1>8 DEF Realloc, SetStack, IsPush, Inv
<1>10. Records'
    BY <1>3, <1>7, <1>9 DEF Records, Falling, Below
<1>11. ASSUME NEW k \in live, k # held
       PROVE  Fills(k, 0, top) /\ ~marked[k.off].freed /\ Apart(k, new) /\ Apart(new, k)
  <2>1. Fills(k, 0, current) /\ Fills(held, 0, current) /\ ~cell[k.off].freed
      BY <1>3 DEF Inv, Cells
  <2>2. /\ k.off \in Offsets /\ k.off \in Nat /\ k.end \in Nat /\ k.end <= current
        /\ k.off < k.end /\ off \in Nat /\ held.end \in Nat /\ off < held.end
      BY <1>4, <1>5, <2>1, FillsOrder
  <2>3. k.off # off /\ k.off # current
    <3>1. k.end <= off \/ held.end <= k.off
        BY <1>5, <1>11 DEF Inv, Cells, Apart
    <3> QED
        BY <1>3, <1>4, <2>2, <3>1
  <2>4. ~marked[k.off].freed
      BY <1>3, <1>7, <2>1, <2>2, <2>3
  <2>5. Fills(k, 0, top)
      BY <1>3, <1>4, <2>1, <2>2 DEF Fills
  <2> QED
      BY <1>3, <2>2, <2>4, <2>5 DEF Apart
<1>12. Fills(new, 0, top) /\ ~marked[new.off].freed
  <2>1. ~marked[current].freed
      BY <1>3, <1>5, <1>7
  <2> QED
      BY <1>3, <1>4, <2>1, FillsOrder DEF Fills
<1>13. Cells'
  <2>1. \A k \in live' : Fills(k, 0, current') /\ ~cell'[k.off].freed
      BY <1>9, <1>11, <1>12
  <2>2. ASSUME NEW h \in live', NEW k \in live', h # k PROVE Apart(h, k)
    <3>1. \A a, b \in live : a # b => Apart(a, b)
        BY DEF Inv, Cells
    <3> QED
        BY <1>9, <1>11, <2>2, <3>1
  <2> QED
      BY <2>1, <2>2 DEF Cells
<1> QED
    BY <1>9, <1>10, <1>13 DEF Inv

\* free, in stack discipline, of the newest pointer.
LEMMA FreeInv ==
    ASSUME Inv, NEW held \in live, Free(held)
    PROVE  Inv'
<1>1. discipline = "stack" /\ Stacked /\ Records /\ Cells
    BY DEF Inv, Free
<1>2. /\ \A k \in live : k.off <= held.off
      /\ live' = live \ {held} /\ discipline' = discipline
      /\ current' = Freed(stack, held.off).current
      /\ previous' = Freed(stack, held.off).previous
      /\ cell' = Freed(stack, held.off).cell
    BY <1>1 DEF Free, SetStack
<1>3. current \in Nat /\ current \in Offsets /\ previous \in Offsets /\ Falling(cell)
    BY <1>1, OffsetType DEF Records, Falling
<1>4. PICK off : off = held.off /\ off \in Offsets /\ off \in Nat /\ off < current
  <2>1. Fills(held, 0, current)
      BY <1>1 DEF Cells
  <2>2. /\ held.off \in Offsets /\ held.off \in Nat /\ held.end \in Nat
        /\ held.off < held.end /\ held.end <= current
      BY <1>3, <2>1, FillsOrder
  <2> QED
      BY <1>3, <2>2
<1>5. PICK marked : marked = Mark(cell, off)
    OBVIOUS
<1>6. /\ Falling(marked)
      /\ \A o \in Offsets : marked[o].prev = cell[o].prev
      /\ \A o \in Offsets : o # off => marked[o].freed = cell[o].freed
  <2>1. PICK cells : cells = cell
      OBVIOUS
  <2>2. Falling(cells) /\ marked = Mark(cells, off)
      BY <1>3, <1>5, <2>1
  <2> QED
      BY <1>4, <2>1, <2>2, MarkFacts
\* The pointers that stay lie below the one freed.
<1>7. ASSUME NEW k \in live, k # held
      PROVE  /\ k.off \in Offsets /\ k.off < off /\ k.end <= off
             /\ Fills(k, 0, off) /\ ~marked[k.off].freed
  <2>1. Fills(k, 0, current) /\ ~cell[k.off].freed /\ Fills(held, 0, current)
      BY <1>1 DEF Cells
  <2>2. /\ k.off \in Offsets /\ k.off \in Nat /\ k.end \in Nat /\ k.off < k.end
        /\ held.end \in Nat /\ off < held.end
      BY <1>3, <1>4, <2>1, FillsOrder
  <2>3. k.end <= off \/ held.end <= k.off
      BY <1>1, <1>4, <1>7 DEF Cells, Apart
  <2>4. k.off <= off
      BY <1>2, <1>4
  <2>5. k.end <= off /\ k.off < off
      BY <1>4, <2>2, <2>3, <2>4
  <2>6. ~marked[k.off].freed
      BY <1>4, <1>6, <2>1, <2>2, <2>5
  <2> QED
      BY <2>1, <2>2, <2>5, <2>6 DEF Fills
\* Below the one freed there is none, or the links stay in use.
<1>8. /\ live' # {} => (\E k \in live' : k.off = 0) /\ off # 0
      /\ \A k \in live' : k.off # 0 => \E g \in live' : g.off = marked[k.off].prev
      /\ off # 0 => \E g \in live' : g.off = marked[off].prev
      /\ off # 0 => live' # {}
  <2>1. /\ \E k \in live : k.off = 0
        /\ \A k \in live : k.off # 0 => \E g \in live : g.off = cell[k.off].prev
      BY <1>1 DEF Stacked, InUse
  <2>2. ASSUME NEW k \in live, k.off # 0, k.off \in Offsets
        PROVE  \E g \in live' : g.off = marked[k.off].prev
    <3>1. PICK g \in live : g.off = marked[k.off].prev
        BY <1>6, <2>1, <2>2
    <3>2. g.off < k.off
        BY <1>6, <2>2, <3>1 DEF Falling, Below
    <3>3. k.off \in Nat /\ k.off <= off
        BY <1>2, <1>4, <2>2, OffsetType
    <3>4. g # held
        BY <1>4, <3>2, <3>3
    <3> QED
        BY <1>2, <3>1, <3>4
  <2>3. \A k \in live : k.off \in Offsets
      BY <1>4, <1>7
  <2>4. off # 0 => \E k \in live' : k.off = 0
      BY <1>2, <1>4, <2>1
  <2>5. live' # {} => off # 0
    <3>1. ASSUME NEW k \in live' PROVE off # 0
      <4>1. k \in live /\ k.off < off /\ k.off \in Nat
          BY <1>2, <1>7, <3>1, OffsetType
      <4> QED
          BY <1>4, <4>1
    <3> QED
        BY <3>1
  <2> QED
      BY <1>2, <1>4, <2>2, <2>3, <2>4, <2>5
<1>9. CASE previous # off
  <2>1. Freed(stack, off) = [current |-> current, previous |-> previous, cell |-> marked]
    <3>1. PICK s, c, p, d : s = stack /\ c = current /\ p = previous /\ d = cell
        OBVIOUS
    <3>2. s = [current |-> c, previous |-> p, cell |-> d] /\ p # off
        BY <1>9, <3>1 DEF stack
    <3>3. Freed(s, off) = [current |-> c, previous |-> p, cell |-> Mark(d, off)]
        BY <3>2, FreedMarks
    <3> QED
        BY <1>5, <3>1, <3>3
  <2>2. current' = current /\ previous' = previous /\ cell' = marked
      BY <1>2, <1>4, <2>1
  <2>3. Records'
      BY <1>1, <1>3, <1>6, <2>2 DEF Records, Falling
  <2>4. ASSUME NEW k \in live' PROVE Fills(k, 0, current') /\ ~cell'[k.off].freed
    <3>1. Fills(k, 0, current) /\ ~marked[k.off].freed
        BY <1>1, <1>2, <1>7, <2>4 DEF Cells
    <3> QED
        BY <2>2, <3>1
  <2>5. Cells'
      BY <1>1, <1>2, <2>4 DEF Cells
  <2>6. \E k \in live' : k.off = previous'
      BY <1>1, <1>2, <1>4, <1>9, <2>2 DEF Stacked, InUse
  <2>7. Stacked'
      BY <1>8, <2>2, <2>6 DEF Stacked, InUse
  <2> QED
      BY <1>1, <1>2, <2>3, <2>5, <2>6, <2>7 DEF Inv
<1>10. CASE previous = off
  <2>1. PICK r : r = RolledBack(marked, off)
      OBVIOUS
  <2>2. Freed(stack, off) = [current |-> r.current, previous |-> r.previous, cell |-> marked]
    <3>1. PICK s, c, d : s = stack /\ c = current /\ d = cell
        OBVIOUS
    <3>2. s = [current |-> c, previous |-> off, cell |-> d] /\ marked = Mark(d, off)
        BY <1>5, <1>10, <3>1 DEF stack
    <3> QED
        BY <2>1, <3>1, <3>2, FreedRolls
  <2>3. current' = r.current /\ previous' = r.previous /\ cell' = marked
      BY <1>2, <1>4, <2>2
  \* The roll back ends at the cell freed, the one below is in use.
  <2>4. /\ r.current = off
        /\ off = 0 => r.previous = 0
        /\ off # 0 => \E b \in live' : r.previous = marked[b.off].prev
    <3>1. CASE off = 0
        BY <1>4, <1>6, <2>1, <3>1, RollsBack
    <3>2. CASE off # 0
      <4>1. PICK b \in live' : b.off = marked[off].prev
          BY <1>8, <3>2
      <4>2. ~marked[marked[off].prev].freed
          BY <1>2, <1>7, <4>1
      <4>3. r = [current |-> off, previous |-> marked[marked[off].prev].prev]
          BY <1>4, <1>6, <2>1, <3>2, <4>2, RollsBack
      <4> QED
          BY <3>2, <4>1, <4>3
    <3> QED
        BY <3>1, <3>2
  <2>5. \A k \in live' : k.off \in Offsets /\ k.off \in Nat /\ k.off < off
      BY <1>2, <1>7, OffsetType
  <2>6. r.previous \in Offsets /\ Below(r.previous, off)
    <3>1. CASE off = 0
        BY <1>4, <2>4, <3>1 DEF Below
    <3>2. CASE off # 0
      <4>1. PICK b \in live' : r.previous = marked[b.off].prev
          BY <2>4, <3>2
      <4>2. b.off \in Offsets /\ b.off \in Nat /\ b.off < off
          BY <2>5, <4>1
      <4>3. r.previous \in Offsets /\ r.previous \in Nat /\ Below(r.previous, b.off)
          BY <1>6, <4>1, <4>2, OffsetType DEF Falling
      <4> QED
          BY <1>4, <4>2, <4>3 DEF Below
    <3> QED
        BY <3>1, <3>2
  <2>7. Records'
      BY <1>4, <1>6, <2>3, <2>4, <2>6 DEF Records, Falling
  <2>8. Cells'
    <3>1. \A k \in live' : Fills(k, 0, current') /\ ~cell'[k.off].freed
        BY <1>2, <1>7, <2>3, <2>4
    <3> QED
        BY <1>1, <1>2, <3>1 DEF Cells
  <2>9. live' # {} => \E k \in live' : k.off = previous'
    <3>1. ASSUME live' # {} PROVE \E k \in live' : k.off = previous'
      <4>1. PICK b \in live' : r.previous = marked[b.off].prev
          BY <1>8, <2>4, <3>1
      <4>2. CASE b.off # 0
          BY <1>8, <2>3, <4>1, <4>2
      <4>3. CASE b.off = 0
        <5>1. 0 \in Offsets
            BY OffsetType
        <5>2. marked[0].prev \in Offsets /\ Below(marked[0].prev, 0)
            BY <1>6, <5>1 DEF Falling
        <5>3. marked[0].prev = 0
            BY <5>2, OffsetType DEF Below
        <5> QED
            BY <1>8, <2>3, <3>1, <4>1, <4>3, <5>3
      <4> QED
          BY <4>2, <4>3
    <3> QED
        BY <3>1
  <2>10. Stacked'
      BY <1>8, <2>3, <2>9 DEF Stacked, InUse
  <2>11. live' = {} => current' = 0
      BY <1>8, <2>3, <2>4
  <2> QED
      BY <1>1, <1>2, <2>7, <2>8, <2>10, <2>11 DEF Inv
<1> QED
    BY <1>9, <1>10

LEMMA ResetInv ==
    ASSUME Inv, Reset
    PROVE  Inv'
<1>1. current' = 0 /\ previous' = 0 /\ live' = {} /\ cell' = cell /\ discipline' = discipline
    BY DEF Reset
<1>2. Records'
    BY <1>1, OffsetType DEF Inv, Records, Below
<1> QED
    BY <1>1, <1>2 DEF Inv, Cells, Stacked

\* calloc computes the product it was asked for.
LEMMA Product ==
    ASSUME SizesFit, NEW a \in Arrays
    PROVE  /\ a[1] * a[2] \in Nat /\ (a[1] * a[2]) % Word = a[1] * a[2]
           /\ a[1] * a[2] + 2 * Header <= Word
<1>1. a[1] \in Nat /\ a[2] \in Nat /\ Word \in Nat \ {0}
    BY ConstantsAssumption
<1>2. PICK p : p = a[1] * a[2] /\ p \in Nat
    BY <1>1
<1>3. p + 2 * Header <= Word
    BY <1>2 DEF SizesFit
<1>4. p < Word
    BY <1>1, <1>2, <1>3 DEF Header
<1>5. ASSUME NEW n \in Nat, NEW w \in Nat \ {0}, n < w PROVE n % w = n
    BY <1>5
<1>6. p % Word = p
    BY <1>1, <1>2, <1>4, <1>5
<1> QED
    BY <1>2, <1>3, <1>6

LEMMA Request ==
    ASSUME SizesFit, NEW size \in Requests
    PROVE  size \in Nat /\ size + 2 * Header <= Word
BY ConstantsAssumption DEF SizesFit

LEMMA NextInv ==
    ASSUME SizesFit
    PROVE  Inv /\ [Next]_vars => Inv'
<1> SUFFICES ASSUME Inv, [Next]_vars PROVE Inv'
    OBVIOUS
<1>1. ASSUME NEW size \in Requests, Alloc(size) PROVE Inv'
    BY <1>1, AllocInv, Request DEF Alloc
<1>2. ASSUME NEW a \in Arrays, Calloc(a[1], a[2]) PROVE Inv'
    BY <1>2, AllocInv, Product DEF Calloc
<1>3. ASSUME NEW held \in live, Free(held) PROVE Inv'
    BY <1>3, FreeInv
<1>4. ASSUME NEW held \in live, NEW size \in Requests, Realloc(held, size) PROVE Inv'
    BY <1>4, ReallocInv, Request
<1>5. CASE Reset
    BY <1>5, ResetInv
<1>6. CASE UNCHANGED vars
    BY <1>6 DEF vars, Inv, Records, Cells, Stacked, InUse
<1> QED
    BY <1>1, <1>2, <1>3, <1>4, <1>5, <1>6 DEF Next

LEMMA Invariance ==
    ASSUME Ordered, SizesFit
    PROVE  Spec => []Inv
BY InitInv, NextInv, PTL DEF Spec

-----------------------------------------------------------------------------
(* The allocator and its interface *)

\* The pointers as the interface sees them.
Seen(l) == {[region |-> [off |-> held.off, end |-> held.end], size |-> held.size] : held \in l}

LEMMA FillsSuits ==
    ASSUME NEW held, NEW low, NEW high, Fills(held, low, high),
           NEW region, region = [off |-> held.off, end |-> held.end]
    PROVE  /\ region \in CellRegions
           /\ held.size <= CellRoom(region)
<1>1. /\ held.off \in Offsets /\ held.end \in Offsets /\ held.size \in Nat
      /\ held.off \in Nat /\ held.end \in Nat
      /\ held.off + 8 + held.size <= held.end
    BY OffsetType DEF Fills, Header
<1>2. region \in CellRegions /\ region.off = held.off /\ region.end = held.end
    BY <1>1 DEF CellRegions
<1>3. held.end > held.off /\ held.size <= held.end - held.off - 8
    BY <1>1
<1> QED
    BY <1>2, <1>3 DEF CellRoom, Header

\* No cell in use overlaps one that begins at Current.
LEMMA NewIsFree ==
    ASSUME Inv, NEW new, new.off = current, NEW region, region = [off |-> new.off, end |-> new.end],
           NEW x \in Seen(live)
    PROVE  ~CellsOverlap(x.region, region)
<1>1. PICK k \in live : x.region = [off |-> k.off, end |-> k.end]
    BY DEF Seen
<1>2. current \in Nat /\ Fills(k, 0, current)
    BY OffsetType DEF Inv, Records, Cells
<1>3. k.end \in Nat /\ k.end <= current
    BY <1>2, FillsOrder
<1> QED
    BY <1>1, <1>2, <1>3 DEF CellsOverlap

LEMMA SeenRemove ==
    ASSUME Inv, NEW held \in live
    PROVE  Seen(live \ {held}) =
             Seen(live) \ {[region |-> [off |-> held.off, end |-> held.end], size |-> held.size]}
<1>1. ASSUME NEW k \in live, k.off = held.off, k.end = held.end PROVE k = held
  <2>1. current \in Nat /\ Fills(k, 0, current) /\ Fills(held, 0, current)
      BY OffsetType DEF Inv, Records, Cells
  <2>2. /\ k.off \in Nat /\ k.end \in Nat /\ k.off < k.end
        /\ held.off \in Nat /\ held.end \in Nat
      BY <2>1, FillsOrder
  <2>3. ~Apart(k, held)
      BY <1>1, <2>2 DEF Apart
  <2> QED
      BY <2>3 DEF Inv, Cells
<1> QED
    BY <1>1 DEF Seen

\* A pointer to a new cell on top, as PushFacts has it.
IsNew(new) == new.off = current /\ \E top : Fills(new, current, top)

LEMMA PushedIsNew ==
    ASSUME Inv, NEW size \in Nat, size + 2 * Header <= Word, Fits(stack, size)
    PROVE  IsNew(Holding(size, size))
<1>1. PICK top, cells, new : IsPush(top, cells, new, size)
    BY DEF IsPush
<1>2. Fills(new, current, top) /\ new.off = current
    BY <1>1, PushFacts DEF OnTop
<1>3. new = Holding(size, size)
    BY <1>1 DEF IsPush
<1>4. IsNew(new)
    BY <1>2 DEF IsNew
<1> QED
    BY <1>3, <1>4

\* What a step does to the pointers.
Allocs == \E new : IsNew(new) /\ live' = live \union {new}
Releases == \E held \in live : live' = live \ {held}
Resizes == \E held \in live : \E new : IsNew(new) /\ live' = (live \ {held}) \union {new}

LEMMA StepsOfPointers ==
    ASSUME SizesFit, Inv, [Next]_vars
    PROVE  Allocs \/ Releases \/ Resizes \/ live' = {} \/ live' = live
<1>1. ASSUME NEW length, NEW size \in Nat, length = size, size + 2 * Header <= Word,
             AllocLength(length, size)
      PROVE  Allocs
    BY <1>1, PushedIsNew DEF AllocLength, Allocs
<1>2. ASSUME NEW size \in Requests, Alloc(size) PROVE Allocs
    BY <1>1, <1>2, Request DEF Alloc
<1>3. ASSUME NEW a \in Arrays, Calloc(a[1], a[2]) PROVE Allocs
    BY <1>1, <1>3, Product DEF Calloc
<1>4. ASSUME NEW held \in live, Free(held) PROVE Releases
    BY <1>4 DEF Free, Releases
<1>5. ASSUME NEW held \in live, NEW size \in Requests, Realloc(held, size) PROVE Resizes
    BY <1>5, PushedIsNew, Request DEF Realloc, Resizes
<1>6. Reset => live' = {}
    BY DEF Reset
<1>7. UNCHANGED vars => live' = live
    BY DEF vars
<1> QED
    BY <1>2, <1>3, <1>4, <1>5, <1>6, <1>7 DEF Next

LEMMA SeenStep ==
    ASSUME SizesFit, Inv, [Next]_vars
    PROVE  [Promise!Next]_(Seen(live))
<1>1. PICK l, m : l = live /\ m = live'
    OBVIOUS
<1>2. ASSUME NEW new, IsNew(new), NEW s,
             s = [region |-> [off |-> new.off, end |-> new.end], size |-> new.size]
      PROVE  /\ s.region \in CellRegions /\ s.size <= CellRoom(s.region)
             /\ \A x \in Seen(l) : ~CellsOverlap(x.region, s.region)
  <2>1. PICK top : new.off = current /\ Fills(new, current, top)
      BY <1>2 DEF IsNew
  <2>2. s.region = [off |-> new.off, end |-> new.end] /\ s.size = new.size
      BY <1>2
  <2>3. s.region \in CellRegions /\ s.size <= CellRoom(s.region)
      BY <2>1, <2>2, FillsSuits
  <2>4. \A x \in Seen(l) : ~CellsOverlap(x.region, s.region)
      BY <1>1, <2>1, <2>2, NewIsFree
  <2> QED
      BY <2>3, <2>4
<1>3. ASSUME NEW held \in l
      PROVE  Seen(l \ {held}) =
               Seen(l) \ {[region |-> [off |-> held.off, end |-> held.end], size |-> held.size]}
    BY <1>1, SeenRemove
<1>4. Seen(live) = Seen(l) /\ Seen(live') = Seen(m)
    BY <1>1
<1>5. ASSUME Allocs PROVE Promise!Alloc
  <2>1. PICK new : IsNew(new) /\ m = l \union {new}
      BY <1>1, <1>5 DEF Allocs
  <2>2. PICK s : s = [region |-> [off |-> new.off, end |-> new.end], size |-> new.size]
      OBVIOUS
  <2>3. /\ s.region \in CellRegions /\ s.size <= CellRoom(s.region)
        /\ \A x \in Seen(l) : ~CellsOverlap(x.region, s.region)
      BY <1>2, <2>1, <2>2
  <2>4. Seen(m) = Seen(l) \union {s} /\ s \in Seen(m)
      BY <2>1, <2>2 DEF Seen
  <2> QED
      BY <1>1, <2>3, <2>4 DEF Promise!Alloc, Promise!Suits, Promise!Free, Seen
<1>6. ASSUME Releases PROVE Promise!Release
  <2>1. PICK held \in l : m = l \ {held}
      BY <1>1, <1>6 DEF Releases
  <2>2. PICK s : s = [region |-> [off |-> held.off, end |-> held.end], size |-> held.size]
      OBVIOUS
  <2>3. Seen(m) = Seen(l) \ {s} /\ s \in Seen(l)
      BY <1>3, <2>1, <2>2 DEF Seen
  <2> QED
      BY <1>1, <2>3 DEF Promise!Release, Seen
<1>7. ASSUME Resizes PROVE Promise!Resize
  <2>1. PICK held \in l : \E new : IsNew(new) /\ m = (l \ {held}) \union {new}
      BY <1>1, <1>7 DEF Resizes
  <2>2. PICK new : IsNew(new) /\ m = (l \ {held}) \union {new}
      BY <2>1
  <2>3. PICK r, s : /\ r = [region |-> [off |-> held.off, end |-> held.end], size |-> held.size]
                    /\ s = [region |-> [off |-> new.off, end |-> new.end], size |-> new.size]
      OBVIOUS
  <2>4. /\ s.region \in CellRegions /\ s.size <= CellRoom(s.region)
        /\ \A x \in Seen(l) : ~CellsOverlap(x.region, s.region)
      BY <1>2, <2>2, <2>3
  <2>5. PICK k : k = l \ {held}
      OBVIOUS
  <2>6. Seen(k) = Seen(l) \ {r} /\ r \in Seen(l)
      BY <1>3, <2>3, <2>5 DEF Seen
  <2>7. Seen(m) = Seen(k) \union {s} /\ s \in Seen(m)
      BY <2>2, <2>3, <2>5 DEF Seen
  <2>8. Seen(m) = (Seen(l) \ {r}) \union {s}
      BY <2>6, <2>7
  <2> QED
      BY <1>1, <2>4, <2>6, <2>7, <2>8 DEF Promise!Resize, Promise!Suits, Promise!Free, Seen
<1>8. ASSUME live' = {} PROVE Promise!Reset
    BY <1>8 DEF Promise!Reset
<1>9. live' = live => Seen(live)' = Seen(live)
    BY DEF Seen
<1> QED
    BY <1>5, <1>6, <1>7, <1>8, <1>9, StepsOfPointers DEF Promise!Next

LEMMA SeenInit == Init => Promise!Init
BY DEF Init, Promise!Init

-----------------------------------------------------------------------------
(* The theorems *)

\* The roll back of free, and alloc: no cell in use is rolled back over or handed out
\* again, for every capacity, when the application frees the newest pointer first or
\* only resizes.
THEOREM AliveCorrect ==
    ASSUME Ordered, SizesFit
    PROVE  Spec => []AliveCellsStay
<1>1. Spec => []Inv
    BY Invariance
<1>2. Inv => AliveCellsStay
  <2> SUFFICES ASSUME Inv PROVE AliveCellsStay
      OBVIOUS
  <2>1. \A held \in live : held.end <= current
      BY DEF Inv, Cells, Fills
  <2>2. \A h, k \in live : h # k => h.end <= k.off \/ k.end <= h.off
      BY DEF Inv, Cells, Apart
  <2> QED
      BY <2>1, <2>2 DEF AliveCellsStay
<1> QED
    BY <1>1, <1>2, PTL

\* free, reset: when nothing is held any more the whole chunk is free, though the roll
\* back leaves cells behind on the way.
THEOREM EmptyCorrect ==
    ASSUME Ordered, SizesFit
    PROVE  Spec => []AllFreeIsEmpty
<1>1. Spec => []Inv
    BY Invariance
<1>2. Inv => AllFreeIsEmpty
    BY DEF Inv, AllFreeIsEmpty
<1> QED
    BY <1>1, <1>2, PTL

\* LinearAllocator implements the interface: alloc, calloc and realloc hand out cells
\* that are large enough and disjoint from all others in use.
THEOREM Implements ==
    ASSUME Ordered, SizesFit
    PROVE  Spec => ImplementsBlockAllocator
<1>1. Spec => []Inv
    BY Invariance
<1>2. Inv /\ [Next]_vars => [Promise!Next]_(Seen(live))
    BY SeenStep
<1>3. [Promise!Next]_(Seen(live)) <=>
        [Promise!Next]_({[region |-> [off |-> held.off, end |-> held.end], size |-> held.size]
                           : held \in live})
    BY DEF Seen
<1> QED
    BY <1>1, <1>2, <1>3, SeenInit, PTL DEF Spec, ImplementsBlockAllocator, Promise!Spec
==============================================================================
