------------------------- MODULE MCComponentHandles -------------------------
(* Model-checking instance of ComponentHandles. *)
EXTENDS ComponentHandles
=============================================================================
