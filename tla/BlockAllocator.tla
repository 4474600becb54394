--------------------------- MODULE BlockAllocator ---------------------------
(***************************************************************************)
(* What an allocator promises (the interface BuddyAllocator and            *)
(* LinearAllocator share): every pointer it hands out is a region of the   *)
(* chunk that is large enough for the request and that no other pointer in *)
(* use has a part of, until the application gives it back.                 *)
(***************************************************************************)
EXTENDS Naturals

CONSTANTS
    Regions,        \* the parts of the chunk that can be handed out
    Room(_),        \* how many bytes of a region the application may use
    Overlap(_, _)   \* two regions have a byte in common

VARIABLE live       \* what the application holds: [region, size] records

Init == live = {}

\* A region of the chunk that is large enough.
Suits(held) == held.region \in Regions /\ held.size <= Room(held.region)

\* Nothing in use has a part of it.
Free(region) == \A held \in live : ~Overlap(held.region, region)

\* alloc, calloc.
Alloc ==
    \E new \in live' :
      /\ Suits(new)
      /\ Free(new.region)
      /\ live' = live \union {new}

\* free, dealloc.
Release == \E held \in live : live' = live \ {held}

\* realloc: the region changes its use, or the content moves to another one.
Resize ==
    \E held \in live, new \in live' :
      /\ Suits(new)
      /\ new.region = held.region \/ Free(new.region)
      /\ live' = (live \ {held}) \union {new}

\* reset: all that is in use is given back at once.
Reset == live' = {}

Next == Alloc \/ Release \/ Resize \/ Reset

Spec == Init /\ [][Next]_live

\* Two pointers in use never share a byte.
Disjoint ==
    \A h, k \in live : h # k => ~Overlap(h.region, k.region)
=============================================================================
