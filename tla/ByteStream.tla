----------------------------- MODULE ByteStream -----------------------------
(***************************************************************************)
(* What the parent of child processes relies on: the output of each child is *)
(* one stream.  It arrives whole and in order, and once the parent has been  *)
(* told that the child is over, nothing is added to it any more.             *)
(***************************************************************************)
EXTENDS SequencesExt

CONSTANT Streams

VARIABLES
  sent,      \* what has been written to each stream so far
  received,  \* what has been read of it
  closed,    \* its writer has ended
  told       \* its reader knows

vars == <<sent, received, closed, told>>

Init ==
  /\ sent = [s \in Streams |-> <<>>]
  /\ received = [s \in Streams |-> <<>>]
  /\ closed = [s \in Streams |-> FALSE]
  /\ told = [s \in Streams |-> FALSE]

Send(s) ==
  /\ ~closed[s]
  /\ IsPrefix(sent[s], sent'[s])
  /\ sent' = [sent EXCEPT ![s] = sent'[s]]
  /\ UNCHANGED <<received, closed, told>>

Receive(s) ==
  /\ IsPrefix(received[s], received'[s])
  /\ IsPrefix(received'[s], sent[s])
  /\ received' = [received EXCEPT ![s] = received'[s]]
  /\ UNCHANGED <<sent, closed, told>>

Close(s) ==
  /\ closed' = [closed EXCEPT ![s] = TRUE]
  /\ UNCHANGED <<sent, received, told>>

Learn(s) ==
  /\ closed[s]
  /\ told' = [told EXCEPT ![s] = TRUE]
  /\ UNCHANGED <<sent, received, closed>>

Next == \E s \in Streams : Send(s) \/ Receive(s) \/ Close(s) \/ Learn(s)

Spec == Init /\ [][Next]_vars
=============================================================================
