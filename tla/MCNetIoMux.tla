---------------------------- MODULE MCNetIoMux ----------------------------
(***************************************************************************)
(* Instances of NetIoMux for TLC.                                          *)
(***************************************************************************)
EXTENDS NetIoMux, TLC

\* Worker threads are interchangeable, and so are endpoints.
Symmetry == Permutations(Workers) \union Permutations(Endpoints)
=============================================================================
