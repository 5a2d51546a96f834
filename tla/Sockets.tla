------------------------------ MODULE Sockets ------------------------------
(***************************************************************************)
(* TCP sockets of a guest: one that listens, the connections it accepts and  *)
(* those it opens itself (NetTcpSocket, the accept calls of both previews,   *)
(* the pollable of preview 2 and the reads and writes of both).              *)
(*                                                                          *)
(* Events of the network and calls of the guest take turns on one event      *)
(* loop.  What a promise resolved or rejected in a turn sets off runs before *)
(* the next event, so a turn is one step with all of it.  Of the data only   *)
(* their number of bytes is kept.                                            *)
(***************************************************************************)
EXTENDS Integers, Sequences, SequencesExt

CONSTANTS
  Callers,    \* threads of the guest: each makes one call at a time
  Incoming,   \* connections others make to the listening socket
  Outgoing,   \* connections the guest makes
  Followed,   \* connections the guest keeps reading
  Drained,    \* connections whose peers read what the guest writes
  MaxBytes,   \* bound on the bytes each peer sends
  MaxConns    \* bound on the connections that are made

Conns == Incoming \cup Outgoing

ASSUME SocketsAssumption ==
  /\ Incoming \cap Outgoing = {} /\ Followed \subseteq Conns /\ Drained \subseteq Conns
  /\ MaxBytes \in Nat \ {0} /\ MaxConns \in Nat

VARIABLES
  component,  \* the guest is a component: it calls preview 2, not preview 1
  listening,  \* the descriptor of the listening socket is open
  queue,      \* _acceptedSockets
  waiting,    \* _acceptedSocketPromises, as the callers that await them
  call,       \* what each caller is doing
  life,       \* of each connection: its node socket
  where,      \* of each connection: its NetTcpSocket
  arrived,    \* bytes that have been put in _dataBuffer
  taken,      \* bytes that have been taken out of it again
  told        \* history: the guest was told that nothing more will come

connVars == <<life, where, arrived, taken>>
vars == <<component, listening, queue, waiting, call, life, where, arrived, taken, told>>

Idle == [op |-> "idle"]
Buffered(c) == arrived[c] - taken[c]

\* One more connection can be made.
IsNew(c) == life[c] = "new" /\ Cardinality({d \in Conns : life[d] # "new"}) < MaxConns

\* _closed of an open socket.
Closed(c) == life[c] \in {"refused", "ended", "reset"}

Init ==
  /\ component \in BOOLEAN
  /\ listening = TRUE
  /\ queue = <<>>
  /\ waiting = <<>>
  /\ call = [k \in Callers |-> Idle]
  /\ life = [c \in Conns |-> "new"]
  /\ where = [c \in Conns |-> "nowhere"]
  /\ arrived = [c \in Conns |-> 0]
  /\ taken = [c \in Conns |-> 0]
  /\ told = [c \in Conns |-> FALSE]

-----------------------------------------------------------------------------
(* Accepting. *)

\* Callers that wait in the first n places are given an answer.
Release(n) ==
  call' = [k \in Callers |-> IF \E i \in 1 .. n : waiting[i] = k THEN Idle ELSE call[k]]

\* rejectAllAcceptPromises: whoever waits is told to try again.
RejectAll == Release(Len(waiting)) /\ waiting' = <<>>

\* What the events of an accepted connection do to those that wait for another.
RejectWaitersOf(c) == IF c \in Incoming THEN RejectAll ELSE UNCHANGED <<waiting, call>>

\* Faulty variant: the caller is given the socket it finds, and leaves it there.
Accept_Keeps(k) ==
  /\ call[k] = Idle
  /\ listening
  /\ queue # <<>>
  /\ where' = [where EXCEPT ![Head(queue)] = "open"]
  /\ UNCHANGED <<component, listening, queue, waiting, call, life, arrived, taken, told>>

\* getAcceptedSocket finds a socket in the queue.
Accept(k) ==
  /\ call[k] = Idle
  /\ listening
  /\ queue # <<>>
  /\ queue' = Tail(queue)
  /\ where' = [where EXCEPT ![Head(queue)] = "open"]
  /\ UNCHANGED <<component, listening, waiting, call, life, arrived, taken, told>>

\* hasConnectedClient takes a socket and hands it in again, behind the others.
Poll(k) ==
  /\ call[k] = Idle
  /\ listening /\ component
  /\ queue # <<>>
  /\ queue' = Append(Tail(queue), Head(queue))
  /\ RejectAll
  /\ UNCHANGED <<component, listening, connVars, told>>

\* Faulty variant: it waits whatever is in the queue.
Wait_Always(k) ==
  /\ call[k] = Idle
  /\ listening
  /\ \E op \in {"accept", "poll"} :
       /\ op = "poll" => component
       /\ call' = [call EXCEPT ![k] = [op |-> op]]
  /\ waiting' = Append(waiting, k)
  /\ UNCHANGED <<component, listening, queue, connVars, told>>

\* Either finds none and adds a promise to the list.
Wait(k) ==
  /\ call[k] = Idle
  /\ listening
  /\ queue = <<>>
  /\ \E op \in {"accept", "poll"} :
       /\ op = "poll" => component
       /\ call' = [call EXCEPT ![k] = [op |-> op]]
  /\ waiting' = Append(waiting, k)
  /\ UNCHANGED <<component, listening, queue, connVars, told>>

\* Faulty variant: the promise stays in the list.
WaitEnds_Stays(k) ==
  /\ call[k].op \in {"accept", "poll"}
  /\ call' = [call EXCEPT ![k] = Idle]
  /\ UNCHANGED <<component, listening, queue, waiting, connVars, told>>

\* A millisecond later the promise is removed (the list has one for everyone who
\* waits: PromisesAreAwaited) and the caller told to try again.
WaitEnds(k) ==
  /\ call[k].op \in {"accept", "poll"}
  /\ call' = [call EXCEPT ![k] = Idle]
  /\ \E i \in 1 .. Len(waiting) : waiting[i] = k /\ waiting' = RemoveAt(waiting, i)
  /\ UNCHANGED <<component, listening, queue, connVars, told>>

\* The places in the list of those that wait to accept, not to poll.
Accepting == {i \in 1 .. Len(waiting) : call[waiting[i]].op = "accept"}

\* The server's "connection" event when someone waits to accept: a poll that is
\* first in the list hands the socket on to the next.
ConnectionTaken(c) ==
  /\ c \in Incoming /\ IsNew(c)
  /\ life' = [life EXCEPT ![c] = "up"]
  /\ \E i \in Accepting :
       /\ \A j \in Accepting : i <= j
       /\ Release(i)
       /\ waiting' = SubSeq(waiting, i + 1, Len(waiting))
  /\ where' = [where EXCEPT ![c] = "open"]
  /\ UNCHANGED <<component, listening, queue, arrived, taken, told>>

\* The same when nobody does, or the listening socket has been closed: close
\* ends the node socket that never was connected, and not the server.
ConnectionQueued(c) ==
  /\ c \in Incoming /\ IsNew(c)
  /\ life' = [life EXCEPT ![c] = "up"]
  /\ Accepting = {}
  /\ queue' = Append(queue, c)
  /\ where' = [where EXCEPT ![c] = "queued"]
  /\ RejectAll
  /\ UNCHANGED <<component, listening, arrived, taken, told>>

\* close of the listening socket.
CloseListener(k) ==
  /\ call[k] = Idle
  /\ listening
  /\ listening' = FALSE
  /\ RejectAll
  /\ UNCHANGED <<component, queue, connVars, told>>

-----------------------------------------------------------------------------
(* Connecting. *)

Connect(k, c) ==
  /\ call[k] = Idle
  /\ c \in Outgoing /\ IsNew(c)
  /\ life' = [life EXCEPT ![c] = "connecting"]
  /\ where' = [where EXCEPT ![c] = "open"]
  /\ UNCHANGED <<component, listening, queue, waiting, call, arrived, taken, told>>

\* "connect" and "ready", or "error" and "close".
Connected(c) ==
  /\ life[c] = "connecting"
  /\ \E to \in {"up", "refused"} : life' = [life EXCEPT ![c] = to]
  /\ UNCHANGED <<component, listening, queue, waiting, call, where, arrived, taken, told>>

-----------------------------------------------------------------------------
(* Events of a connection. *)

\* "data": bytes go into the buffer.
Data(c) ==
  /\ life[c] = "up"
  /\ \E n \in arrived[c] + 1 .. MaxBytes : arrived' = [arrived EXCEPT ![c] = n]
  /\ RejectWaitersOf(c)
  /\ UNCHANGED <<component, listening, queue, life, where, taken, told>>

\* "end", and "close" after it, which does nothing more: a component's
\* connectionCloser takes the descriptor away.
End(c) ==
  /\ life[c] = "up"
  /\ life' = [life EXCEPT ![c] = "ended"]
  /\ where' = [where EXCEPT ![c] =
                 IF component /\ c \in Incoming /\ @ = "open" THEN "cut" ELSE @]
  /\ RejectWaitersOf(c)
  /\ UNCHANGED <<component, listening, queue, arrived, taken, told>>

\* "error" and "close".
Reset(c) ==
  /\ life[c] = "up"
  /\ life' = [life EXCEPT ![c] = "reset"]
  /\ RejectWaitersOf(c)
  /\ UNCHANGED <<component, listening, queue, where, arrived, taken, told>>

-----------------------------------------------------------------------------
(* Reading, writing and closing a connection. *)

\* Faulty variant: the end is told to a guest that has not read everything.
ReadEnd_Early(k, c) ==
  /\ call[k] = Idle
  /\ where[c] = "open"
  /\ Closed(c)
  /\ told' = [told EXCEPT ![c] = TRUE]
  /\ UNCHANGED <<component, listening, queue, waiting, call, connVars>>

\* Faulty variant: only the event "end" tells that the connection is closed.
ReadEnd_NotReset(k, c) ==
  /\ call[k] = Idle
  /\ where[c] = "open"
  /\ life[c] = "ended" /\ Buffered(c) = 0
  /\ told' = [told EXCEPT ![c] = TRUE]
  /\ UNCHANGED <<component, listening, queue, waiting, call, connVars>>

\* read: the connection is closed and nothing is left.
ReadEnd(k, c) ==
  /\ call[k] = Idle
  /\ where[c] = "open"
  /\ Closed(c) /\ Buffered(c) = 0
  /\ told' = [told EXCEPT ![c] = TRUE]
  /\ UNCHANGED <<component, listening, queue, waiting, call, connVars>>

\* Faulty variant: as many are taken as were asked for.
Take_All(c, n) == taken' = [taken EXCEPT ![c] = @ + n]

\* Up to n bytes are taken out of the buffer.
Take(c, n) == taken' = [taken EXCEPT ![c] = @ + (IF n < Buffered(c) THEN n ELSE Buffered(c))]

\* read: there is something.
ReadSome(k, c) ==
  /\ call[k] = Idle
  /\ where[c] = "open"
  /\ Buffered(c) > 0
  /\ \E n \in 1 .. MaxBytes : Take(c, n)
  /\ UNCHANGED <<component, listening, queue, waiting, call, life, where, arrived, told>>

\* read: there is nothing yet.  It sleeps, or waits for the connection.
ReadNothing(k, c) ==
  /\ call[k] = Idle
  /\ where[c] = "open"
  /\ ~Closed(c) /\ Buffered(c) = 0
  /\ call' = [call EXCEPT ![k] =
                IF life[c] = "up" THEN [op |-> "again"] ELSE [op |-> "read", of |-> c]]
  /\ UNCHANGED <<component, listening, queue, waiting, connVars, told>>

\* It is told to try again, whatever has arrived in the meantime.
ReadAgain(k) ==
  /\ call[k].op = "again"
  /\ call' = [call EXCEPT ![k] = Idle]
  /\ UNCHANGED <<component, listening, queue, waiting, connVars, told>>

\* Faulty variant: a reader waits for a connection that was refused.
ReadGoesOn_IfConnected(k) ==
  /\ call[k].op = "read"
  /\ LET c == call[k].of
     IN  /\ life[c] \notin {"connecting", "refused"}
         /\ IF Buffered(c) = 0
              THEN call' = [call EXCEPT ![k] = [op |-> "again"]] /\ UNCHANGED taken
              ELSE call' = [call EXCEPT ![k] = Idle] /\ \E n \in 1 .. MaxBytes : Take(c, n)
  /\ UNCHANGED <<component, listening, queue, waiting, life, where, arrived, told>>

\* The connection is there, or was refused, which the reader is told.
ReadGoesOn(k) ==
  /\ call[k].op = "read"
  /\ LET c == call[k].of
     IN  /\ life[c] # "connecting"
         /\ IF life[c] # "refused" /\ Buffered(c) = 0
              THEN call' = [call EXCEPT ![k] = [op |-> "again"]] /\ UNCHANGED taken
              ELSE call' = [call EXCEPT ![k] = Idle] /\ \E n \in 1 .. MaxBytes : Take(c, n)
  /\ UNCHANGED <<component, listening, queue, waiting, life, where, arrived, told>>

\* A descriptor that was taken away reads as a closed stream.
ReadCut(k, c) ==
  /\ call[k] = Idle
  /\ where[c] = "cut"
  /\ told' = [told EXCEPT ![c] = TRUE]
  /\ UNCHANGED <<component, listening, queue, waiting, call, connVars>>

\* write.
Write(k, c) ==
  /\ call[k] = Idle
  /\ where[c] = "open"
  /\ call' = [call EXCEPT ![k] = [op |-> "write", of |-> c]]
  /\ UNCHANGED <<component, listening, queue, waiting, connVars, told>>

\* Node's callback, at once or when the peer reads, or never: there is no
\* time-out.  Where the connection was refused the error is thrown in the
\* executor of a promise, which then never settles.
WriteEnds(k) ==
  /\ call[k].op = "write"
  /\ life[call[k].of] \notin {"connecting", "refused"}
  /\ call' = [call EXCEPT ![k] = Idle]
  /\ UNCHANGED <<component, listening, queue, waiting, connVars, told>>

\* The guest closes the connection.
Close(k, c) ==
  /\ call[k] = Idle
  /\ where[c] = "open"
  /\ where' = [where EXCEPT ![c] = "closed"]
  /\ UNCHANGED <<component, listening, queue, waiting, call, life, arrived, taken, told>>

-----------------------------------------------------------------------------
NetworkNext(c) ==
  \/ ConnectionTaken(c) \/ ConnectionQueued(c) \/ Connected(c)
  \/ Data(c) \/ End(c) \/ Reset(c)

ListenerNext(k) == Accept(k) \/ Poll(k) \/ Wait(k) \/ WaitEnds(k) \/ CloseListener(k)

ConnNext(k, c) ==
  \/ Connect(k, c) \/ Write(k, c) \/ Close(k, c)
  \/ ReadEnd(k, c) \/ ReadSome(k, c) \/ ReadNothing(k, c) \/ ReadCut(k, c)

Next ==
  \/ \E c \in Conns : NetworkNext(c)
  \/ \E k \in Callers :
       \/ ListenerNext(k) \/ ReadAgain(k) \/ ReadGoesOn(k) \/ WriteEnds(k)
       \/ \E c \in Conns : ConnNext(k, c)

Spec == Init /\ [][Next]_vars

CallEnds(k) == WaitEnds(k) \/ ReadAgain(k) \/ ReadGoesOn(k) \/ WriteEnds(k)

\* Node is bound to call a write back: it failed with its connection, or the
\* peer makes room for it.  Other peers may let it wait for ever.
CalledBack(c) == life[c] = "reset" \/ c \in Drained

MustEnd(k) == CallEnds(k) /\ (call[k].op = "write" => CalledBack(call[k].of))

\* Timers fire, attempts to connect are answered, and so are writes that Node is
\* bound to call back.  The guest reads what it follows again and again.
FairToCaller(k) == WF_vars(MustEnd(k))
FairToAttempt(c) == WF_vars(Connected(c))
FairToReader(c) == SF_vars(\E k \in Callers : ReadEnd(k, c) \/ ReadSome(k, c))

FairToCallers == \A k \in Callers : FairToCaller(k)
FairToAttempts == \A c \in Outgoing : FairToAttempt(c)
FairToReaders == \A c \in Followed : FairToReader(c)

Fairness == FairToCallers /\ FairToAttempts /\ FairToReaders

FairSpec == Spec /\ Fairness

-----------------------------------------------------------------------------
(* Properties. *)

\* The state of listener, connections and callers is what the code keeps.
TypeOK ==
  /\ component \in BOOLEAN /\ listening \in BOOLEAN
  /\ queue \in Seq(Incoming)
  /\ waiting \in Seq(Callers)
  /\ call \in [Callers -> [op : {"idle", "accept", "poll", "again"}]
                            \cup [op : {"read", "write"}, of : Conns]]
  /\ life \in [Conns -> {"new", "connecting", "refused", "up", "ended", "reset"}]
  /\ where \in [Conns -> {"nowhere", "queued", "open", "closed", "cut"}]
  /\ arrived \in [Conns -> Nat] /\ taken \in [Conns -> Nat]
  /\ told \in [Conns -> BOOLEAN]
  /\ \A c \in Conns : taken[c] <= arrived[c]

\* Nobody waits for a connection while one is in the queue, or once the
\* listening socket is closed.
NobodyWaitsInVain == queue # <<>> \/ ~listening => waiting = <<>>

\* The promises in the list are those of the callers that wait, one each: a
\* connection is never handed to a call that has already timed out.
PromisesAreAwaited ==
  /\ \A k \in Callers :
       call[k].op \in {"accept", "poll"} <=> \E i \in 1 .. Len(waiting) : waiting[i] = k
  /\ \A i, j \in 1 .. Len(waiting) : waiting[i] = waiting[j] => i = j

\* A connection is in the queue until it is accepted, and there only once: polls
\* neither lose one nor hand it out twice.
QueueKeepsConnections ==
  /\ \A c \in Conns : where[c] = "queued" <=> \E i \in 1 .. Len(queue) : queue[i] = c
  /\ \A i, j \in 1 .. Len(queue) : queue[i] = queue[j] => i = j

\* The guest is told that nothing more will come only after it has been given all
\* that has arrived, where the descriptor was not taken away.
EndComesLast == \A c \in Conns : told[c] /\ where[c] # "cut" => taken[c] = arrived[c]

Connection ==
  INSTANCE Connections WITH
    place <- where,
    sent <- arrived,
    delivered <- taken,
    over <- [c \in Conns |-> Closed(c)]

\* Whatever threads accept, poll, time out and read, and whatever happens to
\* other connections: each is handed to the guest once and is one stream, whose
\* end is told after all its bytes.  (A component's may be taken away.)
ImplementsConnections == Connection!Spec

\* A write on a connection that was refused, or that waits for its peer to read.
Stuck(k) ==
  /\ call[k].op = "write"
  /\ \/ life[call[k].of] = "refused"
     \/ life[call[k].of] \in {"up", "ended"} /\ ~CalledBack(call[k].of)

\* Every call returns, but for writes on a connection that was refused or whose
\* peer does not read; and those that wait for a peer do when the connection is reset.
CallsReturn == \A k \in Callers : call[k] # Idle ~> call[k] = Idle \/ Stuck(k)

\* A guest that keeps reading an open connection learns that it is over, unless
\* all its threads are stuck in writes.
EndIsLearned ==
  \A c \in Followed :
    Closed(c) /\ where[c] = "open"
      ~> told[c] \/ where[c] # "open" \/ \A k \in Callers : Stuck(k)
=============================================================================
