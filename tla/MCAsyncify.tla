----------------------------- MODULE MCAsyncify -----------------------------
(***************************************************************************)
(* Instances of Asyncify for TLC: _start and calls of the resize listener.   *)
(***************************************************************************)
EXTENDS Asyncify, TLC

CallSymmetry == Permutations(Calls)
=============================================================================
