-------------------------- MODULE MCBuddyAllocator --------------------------
(***************************************************************************)
(* Instances of BuddyAllocator for TLC: the smallest block is MinSize      *)
(* bytes (16 in the code).                                                 *)
(***************************************************************************)
EXTENDS BuddyAllocator

CONSTANT MinSize

\* blockSizeOf
MCBlockSize == [t \in Tiers |-> MinSize * 2 ^ (TierNum - 1 - t)]

SmallArrays == {<<2, 2>>, <<0, 3>>}
=============================================================================
