------------------------- MODULE MCLinearAllocator -------------------------
(***************************************************************************)
(* Instances of LinearAllocator for TLC.                                   *)
(***************************************************************************)
EXTENDS LinearAllocator

SmallArrays == {<<2, 4>>}
=============================================================================
