------------------------------ MODULE Coroutines ------------------------------
(***************************************************************************)
(* What asyncify is to give those who call a module's exports: every call is *)
(* a coroutine.  It stops in an import that takes its time, goes on with the *)
(* answer of just that import, whatever other calls do meanwhile, and fails  *)
(* only where its own guest or the import it waits in does.                  *)
(***************************************************************************)
CONSTANTS
  Calls,    \* calls of the exports
  Imports   \* calls of asynchronous imports, as numbers from 1 on

VARIABLES
  status,    \* how far each call is
  awaiting,  \* the import it has stopped in, 0 if none
  answers,   \* the answer each import gave the guest, 0 if none yet
  rejected,  \* imports that failed
  sound      \* the promise holds

vars == <<status, awaiting, answers, rejected, sound>>

Init ==
  /\ status = [c \in Calls |-> "idle"]
  /\ awaiting = [c \in Calls |-> 0]
  /\ answers = [i \in Imports |-> 0]
  /\ rejected = {}
  /\ sound = TRUE

\* Nobody has called this import so far.
Fresh(i) == answers[i] = 0 /\ i \notin rejected /\ \A c \in Calls : awaiting[c] # i

Stops(c) ==
  \E i \in Imports :
    /\ Fresh(i)
    /\ awaiting' = [awaiting EXCEPT ![c] = i]
    /\ status' = [status EXCEPT ![c] = "suspended"]

Ends(c, how) ==
  /\ awaiting' = [awaiting EXCEPT ![c] = 0]
  /\ status' = [status EXCEPT ![c] = how]

GoesOn(c) == Stops(c) \/ \E how \in {"done", "failed"} : Ends(c, how)

Start(c) ==
  /\ status[c] = "idle"
  /\ GoesOn(c)
  /\ UNCHANGED <<answers, rejected>>

Resume(c) ==
  /\ status[c] = "suspended"
  /\ answers' = [answers EXCEPT ![awaiting[c]] = awaiting[c]]
  /\ GoesOn(c)
  /\ UNCHANGED rejected

Reject(c) ==
  /\ status[c] = "suspended"
  /\ rejected' = rejected \cup {awaiting[c]}
  /\ Ends(c, "failed")
  /\ UNCHANGED answers

\* The promise may be broken, and then nothing is promised any more.
Break == sound' = FALSE

Next ==
  \/ Break
  \/ UNCHANGED sound /\ \E c \in Calls : Start(c) \/ Resume(c) \/ Reject(c)

Spec == Init /\ [][Next]_vars
=============================================================================
