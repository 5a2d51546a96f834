---------------------------- MODULE MCOpenFiles ----------------------------
(* Model-checking instances of OpenFiles. *)
EXTENDS OpenFiles, TLC

CONSTANTS f1, f2

OneFile  == {f1}
TwoFiles == {f1, f2}

FileSymmetry == Permutations(Files)
=============================================================================
