--------------------------- MODULE BuddyAllocator ---------------------------
(***************************************************************************)
(* BuddyAllocator (src/src/allocators.cpp).  The chunk is split in two     *)
(* again and again: TierNum tiers of blocks, each half the size of those   *)
(* above.  The code names a block by its tier and its number in the tier;  *)
(* here a block is the sequence of the bits of that number, first bit      *)
(* first.  The tier is the length of the sequence, the buddy differs in    *)
(* the last bit, the block above drops it, and a pointer is the sequence   *)
(* of bits of a block of the lowest tier.                                  *)
(*                                                                         *)
(* The allocator has no lock: each operation is one step, the recursions   *)
(* of obtain and recycle included.  An operation that returns NULL changes *)
(* nothing, and is no step.                                                *)
(***************************************************************************)
EXTENDS Naturals, Sequences, FiniteSets, FiniteSetsExt, SequencesExt

CONSTANTS
    TierNum,    \* TierNum, from the size given to the constructor
    BlockSize,  \* blockSizeOf: a function of the tier
    Word,       \* 2^32: the sizes are u32
    Requests,   \* the sizes the application asks for
    Arrays,     \* the <<num, size>> it calls calloc with
    MaxLive     \* bound: how many pointers it holds at a time

Tiers == 0 .. TierNum - 1

ASSUME ConstantsAssumption ==
    /\ TierNum \in Nat \ {0}
    /\ BlockSize \in [Tiers -> Nat \ {0}]
    /\ \A t, u \in Tiers : t < u => BlockSize[u] < BlockSize[t]
    /\ \A t \in Tiers : t + 1 \in Tiers => BlockSize[t] = 2 * BlockSize[t + 1]
    /\ Word \in Nat \ {0}
    /\ Requests \subseteq Nat
    /\ Arrays \subseteq Nat \X Nat
    /\ MaxLive \in Nat

VARIABLES
    inUse,      \* Flags: the blocks whose bit is set
    chain,      \* FreeChainHead: the free blocks of each tier, first one first
    used,       \* UsedBytes
    hwm,        \* HWMBytes
    live        \* what the application holds: pointers and the sizes asked for

vars == <<inUse, chain, used, hwm, live>>

Bit == {0, 1}
Blocks == UNION {[1 .. t -> Bit] : t \in Tiers}
Addresses == [1 .. TierNum - 1 -> Bit]
Top == <<>>

\* A pointer to a block is to its first byte.
Address(b) == [i \in 1 .. TierNum - 1 |-> IF i <= Len(b) THEN b[i] ELSE 0]

\* The block of tier t that pointer p points into.
BlockAt(p, t) == SubSeq(p, 1, t)

\* blockId ^ 1
Buddy(b) == [i \in 1 .. Len(b) |-> IF i = Len(b) THEN 1 - b[i] ELSE b[i]]

\* The constructor sets the flag of the top block and recycles it.
Init ==
    /\ inUse = {}
    /\ chain = [t \in Tiers |-> IF t = 0 THEN <<Top>> ELSE <<>>]
    /\ used = 0
    /\ hwm = 0
    /\ live = {}

\* Defect: the bound is strict.
TierOf_Strict(size, t) ==
    /\ t \in Tiers
    /\ size < BlockSize[t]
    /\ \A u \in Tiers : size < BlockSize[u] => u <= t

\* tierOf: the lowest tier whose blocks are large enough.
TierOf(size, t) ==
    /\ t \in Tiers
    /\ size <= BlockSize[t]
    /\ \A u \in Tiers : size <= BlockSize[u] => u <= t

-----------------------------------------------------------------------------
(* obtain(tier) and recycle(tier, blockId), as functions of Flags and       *)
(* FreeChainHead: a heap is a record of the two                             *)

heap == [inUse |-> inUse, chain |-> chain]

\* obtain climbs to tier src, the first at or above the tier asked for that has
\* a free block.
Serves(h, src, tier) ==
    /\ src \in 0 .. tier
    /\ h.chain[src] # <<>>
    /\ \A u \in src + 1 .. tier : h.chain[u] = <<>>

\* The first block of tier t inside block b.
FirstIn(b, t) == [i \in 1 .. t |-> IF i <= Len(b) THEN b[i] ELSE 0]

\* Defect: the blocks split get no flag.
Obtain_FlagsResult(h, src, tier) ==
    LET b == Head(h.chain[src])
    IN  [inUse |-> h.inUse \union {FirstIn(b, tier)},
         chain |-> [t \in Tiers |->
                      IF t = src THEN Tail(h.chain[t])
                      ELSE IF t \in src + 1 .. tier
                             THEN Cons(Buddy(FirstIn(b, t)), h.chain[t])
                      ELSE h.chain[t]]]

\* The first free block of tier src is taken off its chain and split down to the
\* tier asked for: the first halves are in use, the second halves are free.
Obtain(h, src, tier) ==
    LET b == Head(h.chain[src])
    IN  [inUse |-> h.inUse \union {FirstIn(b, t) : t \in src .. tier},
         chain |-> [t \in Tiers |->
                      IF t = src THEN Tail(h.chain[t])
                      ELSE IF t \in src + 1 .. tier
                             THEN Cons(Buddy(FirstIn(b, t)), h.chain[t])
                      ELSE h.chain[t]]]

Obtained(h, src, tier) == FirstIn(Head(h.chain[src]), tier)

\* recycle climbs from block b as long as the buddy is free, to tier k.
ClimbsTo(h, b, k) ==
    /\ k \in 0 .. Len(b)
    /\ k = 0 \/ Buddy(SubSeq(b, 1, k)) \in h.inUse
    /\ \A j \in k + 1 .. Len(b) : Buddy(SubSeq(b, 1, j)) \notin h.inUse

\* A block leaves its chain.
Unchained(c, b) ==
    LET i == CHOOSE i \in DOMAIN c : c[i] = b
    IN  IF b \in ToSet(c) THEN RemoveAt(c, i) ELSE c

\* Defect: the block above the merged buddies keeps its flag.
Recycle_KeepsFlag(h, b, k) ==
    [inUse |-> h.inUse \ {SubSeq(b, 1, j) : j \in k + 1 .. Len(b)},
     chain |-> [t \in Tiers |->
                  IF t = k THEN Cons(SubSeq(b, 1, k), h.chain[t])
                  ELSE IF t \in k + 1 .. Len(b)
                         THEN Unchained(h.chain[t], Buddy(SubSeq(b, 1, t)))
                  ELSE h.chain[t]]]

\* Defect: the buddy stays in its chain.
Recycle_KeepsBuddy(h, b, k) ==
    [inUse |-> h.inUse \ {SubSeq(b, 1, j) : j \in k .. Len(b)},
     chain |-> [h.chain EXCEPT ![k] = Cons(SubSeq(b, 1, k), @)]]

\* The flags of the blocks merged are cleared, their buddies leave the chains, and
\* the block that has no free buddy goes first in the chain of its tier.
Recycle(h, b, k) ==
    [inUse |-> h.inUse \ {SubSeq(b, 1, j) : j \in k .. Len(b)},
     chain |-> [t \in Tiers |->
                  IF t = k THEN Cons(SubSeq(b, 1, k), h.chain[t])
                  ELSE IF t \in k + 1 .. Len(b)
                         THEN Unchained(h.chain[t], Buddy(SubSeq(b, 1, t)))
                  ELSE h.chain[t]]]

\* Defect: the search starts at the top.
LocatedAt_FromTop(p, t) ==
    /\ t \in Tiers
    /\ BlockAt(p, t) \in inUse
    /\ \A u \in 0 .. t - 1 : BlockAt(p, u) \notin inUse

\* locateBlockInUse: the lowest tier with a flag set for the pointer.
LocatedAt(p, t) ==
    /\ t \in Tiers
    /\ BlockAt(p, t) \in inUse
    /\ \A u \in t + 1 .. TierNum - 1 : BlockAt(p, u) \notin inUse

-----------------------------------------------------------------------------
(* The operations *)

SetHeap(h) == inUse' = h.inUse /\ chain' = h.chain

Largest(m, n) == IF m > n THEN m ELSE n

\* alloc(length): for a request of size bytes.
AllocLength(length, size) ==
    \E tier, src \in Tiers :
      /\ TierOf(length, tier)
      /\ Serves(heap, src, tier)
      /\ SetHeap(Obtain(heap, src, tier))
      /\ used' = used + BlockSize[tier]
      /\ hwm' = Largest(hwm, used')
      /\ live' = live \union {[addr |-> Address(Obtained(heap, src, tier)), size |-> size]}

Alloc(size) == Cardinality(live) < MaxLive /\ AllocLength(size, size)

\* calloc: the product is a u32.
Calloc(num, size) == Cardinality(live) < MaxLive /\ AllocLength((num * size) % Word, num * size)

\* dealloc and free differ in how they find the tier.
ReleaseBlock(held, tier) ==
    LET b == BlockAt(held.addr, tier)
    IN  \E k \in Tiers :
          /\ ClimbsTo(heap, b, k)
          /\ SetHeap(Recycle(heap, b, k))
          /\ used' = used - BlockSize[tier]
          /\ live' = live \ {held}
          /\ UNCHANGED hwm

\* dealloc(p, size), with the size that was asked for.
Dealloc(held) == \E tier \in Tiers : TierOf(held.size, tier) /\ ReleaseBlock(held, tier)

\* free(p)
Free(held) == \E tier \in Tiers : LocatedAt(held.addr, tier) /\ ReleaseBlock(held, tier)

\* realloc(p, size) when the block stays suitable.
ReallocInPlace(held, size) ==
    \E tier \in Tiers :
      /\ size # 0
      /\ LocatedAt(held.addr, tier)
      /\ size <= BlockSize[tier]
      /\ tier = TierNum - 1 \/ 2 * size > BlockSize[tier]
      /\ live' = (live \ {held}) \union {[held EXCEPT !.size = size]}
      /\ UNCHANGED <<inUse, chain, used, hwm>>

\* Defect: the old block is given back before the new one is found.
ReallocMoves_FreesFirst(held, size) ==
    \E tier, new, src, k \in Tiers :
      /\ size # 0
      /\ LocatedAt(held.addr, tier)
      /\ (size > BlockSize[tier] /\ tier # 0) \/ (2 * size <= BlockSize[tier] /\ tier # TierNum - 1)
      /\ TierOf(size, new)
      /\ LET old == BlockAt(held.addr, tier)
             freed == Recycle(heap, old, k)
         IN  /\ ClimbsTo(heap, old, k)
             /\ Serves(freed, src, new)
             /\ SetHeap(Obtain(freed, src, new))
             /\ live' = (live \ {held}) \union
                          {[addr |-> Address(Obtained(freed, src, new)), size |-> size]}
      /\ used' = used + BlockSize[new] - BlockSize[tier]
      /\ hwm' = Largest(hwm, used + BlockSize[new])

\* Defect: dealloc gets the new size as its hint.
ReallocMoves_NewSizeHint(held, size) ==
    \E tier, new, src, k \in Tiers :
      /\ size # 0
      /\ LocatedAt(held.addr, tier)
      /\ (size > BlockSize[tier] /\ tier # 0) \/ (2 * size <= BlockSize[tier] /\ tier # TierNum - 1)
      /\ TierOf(size, new)
      /\ Serves(heap, src, new)
      /\ LET old == BlockAt(held.addr, new)
             grown == Obtain(heap, src, new)
         IN  /\ ClimbsTo(grown, old, k)
             /\ SetHeap(Recycle(grown, old, k))
      /\ used' = used
      /\ hwm' = Largest(hwm, used + BlockSize[new])
      /\ live' = (live \ {held}) \union
                   {[addr |-> Address(Obtained(heap, src, new)), size |-> size]}

\* realloc(p, size) to a larger block, or to one of at most half the size: alloc,
\* copy, dealloc with the size of the old block.
ReallocMoves(held, size) ==
    \E tier, new, src, k \in Tiers :
      /\ size # 0
      /\ LocatedAt(held.addr, tier)
      /\ (size > BlockSize[tier] /\ tier # 0) \/ (2 * size <= BlockSize[tier] /\ tier # TierNum - 1)
      /\ TierOf(size, new)
      /\ Serves(heap, src, new)
      /\ LET old == BlockAt(held.addr, tier)
             grown == Obtain(heap, src, new)
         IN  /\ ClimbsTo(grown, old, k)
             /\ SetHeap(Recycle(grown, old, k))
      /\ used' = used + BlockSize[new] - BlockSize[tier]
      /\ hwm' = Largest(hwm, used + BlockSize[new])
      /\ live' = (live \ {held}) \union
                   {[addr |-> Address(Obtained(heap, src, new)), size |-> size]}

\* realloc(p, 0) frees, realloc(NULL, size) allocates.
Realloc(held, size) ==
    \/ size = 0 /\ Free(held)
    \/ ReallocInPlace(held, size)
    \/ ReallocMoves(held, size)

\* reset() answers the high water mark and forgets it.
Reset == hwm' = 0 /\ UNCHANGED <<inUse, chain, used, live>>

Next ==
    \/ \E size \in Requests : Alloc(size)
    \/ \E a \in Arrays : Calloc(a[1], a[2])
    \/ \E held \in live : Dealloc(held) \/ Free(held)
    \/ \E held \in live, size \in Requests : Realloc(held, size)
    \/ Reset

Spec == Init /\ [][Next]_vars

-----------------------------------------------------------------------------
\* The flag of a block is set only while those of all blocks above it are.  It is
\* what recycle asserts at each level it climbs (allocators.cpp:271) and why
\* locateBlockInUse may stop at the first flag from below.
FlagsAreNested == \A b \in inUse : Prefixes(b) \subseteq inUse

\* The chain of a tier holds a block once if the block is free and its buddy is
\* not (or it is the whole chunk), and not otherwise: buddies that are both free
\* are always merged, no free block is lost, none is handed out twice, and when
\* recycle takes a free buddy off the chain it is there to be taken.
ChainsHoldFreeBlocks ==
    \A t \in Tiers :
      /\ IsInjective(chain[t])
      /\ ToSet(chain[t]) =
           {b \in Blocks : Len(b) = t /\ b \notin inUse /\ (b = Top \/ Buddy(b) \in inUse)}

\* The blocks with a flag that have no flag below: neither split nor free.
Leaves == {b \in inUse : \A c \in inUse : Len(c) = Len(b) + 1 => ~IsPrefix(b, c)}

\* Every pointer the application holds is found again, by its address and by the
\* size it was asked with, and both lead to the block it was given, which no other
\* pointer has: dealloc and free are interchangeable, after any realloc too.
PointersAreFound ==
    /\ \A held \in live : \E tier \in Tiers :
         /\ TierOf(held.size, tier)
         /\ LocatedAt(held.addr, tier)
         /\ held.addr = Address(BlockAt(held.addr, tier))
    /\ \A h, k \in live : h.addr = k.addr => h = k
    /\ Leaves = {b \in inUse : \E held \in live :
                                 LocatedAt(held.addr, Len(b)) /\ b = BlockAt(held.addr, Len(b))}

\* The block of a pointer, by the size it was asked with.
BlockOf(held) == BlockAt(held.addr, CHOOSE t \in Tiers : TierOf(held.size, t))

\* used() is the sum of the sizes of the blocks held, whatever was resized in place,
\* moved and given back.
UsedIsSumOfBlocks ==
    used = FoldSet(LAMBDA held, sum : sum + BlockSize[Len(BlockOf(held))], 0, live)

\* When the application has given everything back the chunk is one free block again,
\* whatever was allocated, resized and freed in whatever order (the last check of
\* tests/allocators/allocator_test.cpp).
AllFreeIsWhole ==
    live = {} => /\ inUse = {}
                 /\ chain = [t \in Tiers |-> IF t = 0 THEN <<Top>> ELSE <<>>]

\* available(): the size of the largest free block.
Available ==
    IF \E t \in Tiers : chain[t] # <<>>
      THEN BlockSize[CHOOSE t \in Tiers :
                       chain[t] # <<>> /\ \A u \in 0 .. t - 1 : chain[u] = <<>>]
      ELSE 0

\* What available() answers can be allocated, and nothing larger can.
AvailableIsServed ==
    \A size \in Requests \ {0} :
      size <= Available <=>
        \E tier, src \in Tiers : TierOf(size, tier) /\ Serves(heap, src, tier)

-----------------------------------------------------------------------------
(* What the allocator promises *)

BlockRoom(b) == BlockSize[Len(b)]
BlocksOverlap(a, b) == IsPrefix(a, b) \/ IsPrefix(b, a)

Promise == INSTANCE BlockAllocator WITH
    Regions <- Blocks,
    Room <- BlockRoom,
    Overlap <- BlocksOverlap,
    live <- {[region |-> BlockOf(held), size |-> held.size] : held \in live}

\* Every pointer in use has a block of its own that is large enough.
ImplementsBlockAllocator == Promise!Spec
=============================================================================
