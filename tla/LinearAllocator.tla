--------------------------- MODULE LinearAllocator ---------------------------
(***************************************************************************)
(* LinearAllocator (src/src/allocators.cpp): a stack of cells.  In front   *)
(* of its bytes a cell has a record with the offset of the cell before it  *)
(* and a flag that says it was freed.  Freeing the cell at the top rolls   *)
(* the stack back over the cells below it that were freed before.          *)
(*                                                                         *)
(* There is no lock: each operation is one step.  An operation that        *)
(* returns NULL changes nothing, and is no step.  The checksum of a record *)
(* is left out: it only changes when the application writes where it may   *)
(* not.                                                                    *)
(***************************************************************************)
EXTENDS Naturals, FiniteSets

CONSTANTS
    Capacity,   \* bytes of the chunk, a multiple of 8
    Word,       \* 2^32: the sizes are u32
    Requests,   \* the sizes the application asks for
    Arrays,     \* the <<num, size>> it calls calloc with
    Disciplines \* of the application, "stack": it frees the newest pointer first and
                \* never calls realloc; "arena": it never calls free; "any": neither

Header == 8     \* sizeof(FreeCellRecord)

ASSUME ConstantsAssumption ==
    /\ Capacity \in Nat \ {0} /\ Capacity % 8 = 0
    /\ Word \in Nat \ {0} /\ Word % 8 = 0 /\ Capacity < Word
    /\ Requests \subseteq 0 .. Word - 1
    /\ Arrays \subseteq Nat \X Nat
    /\ Disciplines \subseteq {"stack", "arena", "any"}

VARIABLES
    current,    \* Current: where the next cell goes
    previous,   \* Previous: where the newest cell is
    hwm,        \* HWMBytes
    cell,       \* the FreeCellRecords, by offset
    live,       \* what the application holds: the cells and the sizes asked for
    discipline  \* how it uses the allocator

vars == <<current, previous, hwm, cell, live, discipline>>

Offsets == {o \in 0 .. Capacity : o % 8 = 0}

Init ==
    /\ current = 0
    /\ previous = 0
    /\ hwm = 0
    /\ cell = [o \in Offsets |-> [prev |-> 0, freed |-> FALSE]]
    /\ live = {}
    /\ discipline \in Disciplines

\* available()
Available(cur) == IF Capacity - cur < Header THEN 0 ELSE Capacity - cur - Header

\* Defect: there is no room for the header.
CellSize_NoHeader(size) == IF size % 8 = 0 THEN size ELSE ((size \div 8 + 1) * 8) % Word

\* The size of the cell for a request: header and rounding, in u32.
CellSize(size) ==
    LET full == (size + Header) % Word
    IN  IF full % 8 = 0 THEN full ELSE ((full \div 8 + 1) * 8) % Word

\* The three variables alloc and free work on.
stack == [current |-> current, previous |-> previous, cell |-> cell]

Fits(s, length) ==
    /\ CellSize(length) <= Available(s.current)
    /\ s.current < Capacity

\* alloc: a cell on top of the stack.
Pushed(s, length) ==
    [current |-> s.current + CellSize(length),
     previous |-> s.current,
     cell |-> [s.cell EXCEPT ![s.current] = [prev |-> s.previous, freed |-> FALSE]]]

\* Defect: the roll back does not stop at a cell that is alive.
RolledBack_Through(cells, top) ==
    [current |-> 0, previous |-> 0]

\* The loop of free, from the freed cell at top, which is marked too: Current goes down
\* to rec, and further if the cell below rec was freed.  Previous ends up one cell
\* below the one that is still alive.
RolledBack(cells, top) ==
    LET down[rec \in Offsets] ==
          LET below == cells[rec].prev
          IN  IF rec = 0 THEN [current |-> 0, previous |-> 0]
              ELSE IF ~cells[below].freed
                     THEN [current |-> rec, previous |-> cells[below].prev]
              ELSE down[below]
    IN  down[top]

\* free: the cell is marked; the one on top is taken off with the freed ones below.
Freed(s, off) ==
    LET cells == [s.cell EXCEPT ![off].freed = TRUE]
        rolled == RolledBack(cells, off)
    IN  IF s.previous # off
          THEN [s EXCEPT !.cell = cells]
          ELSE [current |-> rolled.current, previous |-> rolled.previous, cell |-> cells]

-----------------------------------------------------------------------------
(* The operations *)

SetStack(s) == current' = s.current /\ previous' = s.previous /\ cell' = s.cell

Holding(length, size) ==
    [off |-> current, end |-> current + CellSize(length), size |-> size]

\* alloc(length), for a request of size bytes.
AllocLength(length, size) ==
    /\ Fits(stack, length)
    /\ SetStack(Pushed(stack, length))
    /\ hwm' = IF current' > hwm THEN current' ELSE hwm
    /\ live' = live \union {Holding(length, size)}
    /\ UNCHANGED discipline

Alloc(size) == AllocLength(size, size)

\* calloc: the product is a u32.
Calloc(num, size) == AllocLength((num * size) % Word, num * size)

\* free and dealloc.
Free(held) ==
    /\ discipline # "arena"
    /\ discipline = "stack" => \A other \in live : other.off <= held.off
    /\ SetStack(Freed(stack, held.off))
    /\ live' = live \ {held}
    /\ UNCHANGED <<hwm, discipline>>

\* realloc: a new cell, always, and the old one is freed.
Realloc(held, size) ==
    /\ discipline # "stack"
    /\ size # 0
    /\ Fits(stack, size)
    /\ SetStack(Freed(Pushed(stack, size), held.off))
    /\ LET top == Pushed(stack, size).current
       IN  hwm' = IF top > hwm THEN top ELSE hwm
    /\ live' = (live \ {held}) \union {Holding(size, size)}
    /\ UNCHANGED discipline

\* Defect: Previous is not reset.
Reset_KeepsPrevious ==
    /\ current' = 0
    /\ hwm' = 0
    /\ live' = {}
    /\ UNCHANGED <<previous, cell, discipline>>

\* reset: the application's pointers are no longer valid.
Reset ==
    /\ current' = 0
    /\ previous' = 0
    /\ hwm' = 0
    /\ live' = {}
    /\ UNCHANGED <<cell, discipline>>

Next ==
    \/ \E size \in Requests : Alloc(size)
    \/ \E a \in Arrays : Calloc(a[1], a[2])
    \/ \E held \in live : Free(held)
    \/ \E held \in live, size \in Requests : Realloc(held, size)
    \/ Reset

Spec == Init /\ [][Next]_vars

-----------------------------------------------------------------------------
\* The cells the application holds lie below Current, and no two share a byte: a
\* roll back stops at a cell that is still alive ("adjust both mDetails->Current
\* and mDetails->Previous to fit the next top-most cell which is still alive",
\* allocators.cpp:762).
AliveCellsStay ==
    /\ \A held \in live : held.end <= current
    /\ \A h, k \in live : h # k => h.end <= k.off \/ k.end <= h.off

\* When the application has given everything back the whole chunk is free again.
AllFreeIsEmpty == live = {} => current = 0

-----------------------------------------------------------------------------
(* What the allocator promises, and keeps in stack and arena discipline      *)

CellRegions == [off : Offsets, end : Offsets]
CellRoom(region) == IF region.end > region.off THEN region.end - region.off - Header ELSE 0
CellsOverlap(a, b) == a.off < b.end /\ b.off < a.end

Promise == INSTANCE BlockAllocator WITH
    Regions <- CellRegions,
    Room <- CellRoom,
    Overlap <- CellsOverlap,
    live <- {[region |-> [off |-> held.off, end |-> held.end], size |-> held.size] : held \in live}

\* Every pointer in use has a cell of its own that is large enough.
ImplementsBlockAllocator == Promise!Spec
=============================================================================
