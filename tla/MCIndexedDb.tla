---------------------------- MODULE MCIndexedDb -----------------------------
(***************************************************************************)
(* Instances of IndexedDb for TLC.                                          *)
(***************************************************************************)
EXTENDS IndexedDb, TLC

NameSymmetry == Permutations(Names)
=============================================================================
