--------------------------- MODULE MCChildProcess ---------------------------
(***************************************************************************)
(* Instances of ChildProcess for TLC: two children, of which one is polled.  *)
(***************************************************************************)
EXTENDS ChildProcess
=============================================================================
