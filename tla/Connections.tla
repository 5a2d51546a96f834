----------------------------- MODULE Connections -----------------------------
(***************************************************************************)
(* What a guest relies on of its connections: each is a stream of its own.   *)
(* It is given to the guest once, brings what the peer sent and nothing       *)
(* else, and ends once, after all of it.                                     *)
(***************************************************************************)
EXTENDS Naturals

CONSTANT Conns

VARIABLES
  place,      \* "nowhere", "queued", "open", "closed" by the guest, or "cut"
  sent,       \* bytes that the peer has sent
  delivered,  \* bytes that the guest has been given
  over,       \* the peer sends no more
  told        \* the guest knows

vars == <<place, sent, delivered, over, told>>

Init ==
  /\ place = [c \in Conns |-> "nowhere"]
  /\ sent = [c \in Conns |-> 0]
  /\ delivered = [c \in Conns |-> 0]
  /\ over = [c \in Conns |-> FALSE]
  /\ told = [c \in Conns |-> FALSE]

\* It waits to be accepted.
Arrive(c) ==
  /\ place[c] = "nowhere"
  /\ place' = [place EXCEPT ![c] = "queued"]
  /\ UNCHANGED <<sent, delivered, over, told>>

\* The guest gets it, by accepting or by connecting.
Give(c) ==
  /\ place[c] \in {"nowhere", "queued"}
  /\ place' = [place EXCEPT ![c] = "open"]
  /\ UNCHANGED <<sent, delivered, over, told>>

Send(c) ==
  /\ place[c] # "nowhere" /\ ~over[c]
  /\ sent' = [sent EXCEPT ![c] = sent'[c]]
  /\ sent'[c] > sent[c]
  /\ UNCHANGED <<place, delivered, over, told>>

\* A read that is under way gets its bytes though another thread has closed.
Deliver(c) ==
  /\ place[c] \in {"open", "closed"}
  /\ delivered' = [delivered EXCEPT ![c] = delivered'[c]]
  /\ delivered'[c] \in delivered[c] + 1 .. sent[c]
  /\ UNCHANGED <<place, sent, over, told>>

\* The peer is through; the guest may lose a connection that it has by that.
End(c) ==
  /\ place[c] # "nowhere" /\ ~over[c]
  /\ over' = [over EXCEPT ![c] = TRUE]
  /\ \/ UNCHANGED place
     \/ place[c] = "open" /\ place' = [place EXCEPT ![c] = "cut"]
  /\ UNCHANGED <<sent, delivered, told>>

Tell(c) ==
  /\ over[c]
  /\ \/ place[c] = "open" /\ delivered[c] = sent[c]
     \/ place[c] = "cut"
  /\ told' = [told EXCEPT ![c] = TRUE]
  /\ UNCHANGED <<place, sent, delivered, over>>

Close(c) ==
  /\ place[c] = "open"
  /\ place' = [place EXCEPT ![c] = "closed"]
  /\ UNCHANGED <<sent, delivered, over, told>>

Next ==
  \E c \in Conns :
    Arrive(c) \/ Give(c) \/ Send(c) \/ Deliver(c) \/ End(c) \/ Tell(c) \/ Close(c)

Spec == Init /\ [][Next]_vars
=============================================================================
