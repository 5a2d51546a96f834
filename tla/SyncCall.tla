------------------------------ MODULE SyncCall ------------------------------
(***************************************************************************)
(* What a guest may rely on when it calls a host import: the call is made,  *)
(* served once by the host, and returns to the guest with the answer the    *)
(* host computed for this very call and with the host's writes to linear    *)
(* memory visible.  Calls never overlap.  How the call crosses the worker    *)
(* boundary is the business of CoreWorker, which implements this module.    *)
(***************************************************************************)
EXTENDS Naturals

CONSTANTS
  MaxCalls,   \* bound on the number of import calls
  Kinds       \* the kinds of answer an import can give

VARIABLES
  program,    \* number of programs started so far
  stage,      \* "guest", "called" or "served": where the latest call is
  n,          \* number of calls made so far
  served,     \* kind of the answer computed for each call, or "none"
  got,        \* the last answer handed to the guest: [call, kind]
  mem         \* the writes the guest finds in its memory

absVars == <<program, stage, n, served, got, mem>>

CallIds == 1 .. MaxCalls

Init ==
  /\ program = 0
  /\ stage = "guest"
  /\ n = 0
  /\ served = [c \in CallIds |-> "none"]
  /\ got = [call |-> 0, kind |-> "none"]
  /\ mem = {}

\* The guest puts the arguments in memory, calls an import and is suspended.
Call ==
  /\ stage = "guest"
  /\ n < MaxCalls
  /\ stage' = "called"
  /\ n' = n + 1
  /\ mem' = mem \cup {<<n + 1, "guest">>}
  /\ UNCHANGED <<program, served, got>>

\* The host serves the call that is open.
Serve ==
  /\ stage = "called"
  /\ \E k \in Kinds :
       /\ served' = [served EXCEPT ![n] = k]
       /\ stage' = "served"
  /\ UNCHANGED <<program, n, got, mem>>

\* The host fails to transmit the answer; the guest stays suspended.
Lose ==
  /\ stage = "called"
  /\ \E k \in Kinds : served' = [served EXCEPT ![n] = k]
  /\ UNCHANGED <<program, stage, n, got, mem>>

\* The guest goes on with the answer to its own call.
Return ==
  /\ stage = "served"
  /\ stage' = "guest"
  /\ got' = [call |-> n, kind |-> served[n]]
  /\ mem' = mem \cup {<<n, "host">>}
  /\ UNCHANGED <<program, n, served>>

\* A new program starts in a fresh memory.  A call that the program before it
\* has not come back from is abandoned: its answer reaches nobody.
Reset ==
  /\ program' = program + 1
  /\ stage' = "guest"
  /\ mem' = {}
  /\ UNCHANGED <<n, served, got>>

Next == Call \/ Serve \/ Lose \/ Return \/ Reset

Spec == Init /\ [][Next]_absVars
=============================================================================
