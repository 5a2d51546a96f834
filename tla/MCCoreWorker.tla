--------------------------- MODULE MCCoreWorker ---------------------------
(***************************************************************************)
(* Instances of CoreWorker for TLC.  Calls, runs and resize events are      *)
(* bounded by the constants of the specification itself.                    *)
(***************************************************************************)
EXTENDS CoreWorker
=============================================================================
