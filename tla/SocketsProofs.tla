--------------------------- MODULE SocketsProofs ---------------------------
(***************************************************************************)
(* Sockets for every set of callers and connections and every bound on the   *)
(* data: types; the list of promises, which has one for each caller that      *)
(* waits; the queue of connections; the end of a connection; that calls       *)
(* return; and that each connection is a stream of its own (Connections).     *)
(***************************************************************************)
EXTENDS Sockets, SequenceTheorems, TLAPS

-----------------------------------------------------------------------------
(* The inductive invariant. *)

\* What a caller may be doing.
CallStates ==
  [op : {"idle", "accept", "poll", "again"}] \cup [op : {"read", "write"}, of : Conns]

CallTypes == waiting \in Seq(Callers) /\ call \in [Callers -> CallStates]

ConnTypes ==
  /\ component \in BOOLEAN /\ listening \in BOOLEAN
  /\ queue \in Seq(Incoming)
  /\ life \in [Conns -> {"new", "connecting", "refused", "up", "ended", "reset"}]
  /\ where \in [Conns -> {"nowhere", "queued", "open", "closed", "cut"}]
  /\ arrived \in [Conns -> Nat] /\ taken \in [Conns -> Nat]
  /\ told \in [Conns -> BOOLEAN]
  /\ \A c \in Conns : taken[c] <= arrived[c]

\* A connection that is not there yet is not in the queue, and one that was
\* taken away or told to be over is over.
Phases ==
  \A c \in Conns :
    /\ life[c] = "new" => where[c] = "nowhere"
    /\ where[c] = "cut" => Closed(c)
    /\ told[c] => Closed(c)

IInv ==
  /\ CallTypes /\ ConnTypes /\ Phases
  /\ NobodyWaitsInVain /\ PromisesAreAwaited
  /\ QueueKeepsConnections /\ EndComesLast

-----------------------------------------------------------------------------
(* Lemmas about sequences. *)

\* A connection or a caller more at the end.
LEMMA Appended ==
  ASSUME NEW S, NEW s \in Seq(S), NEW x \in S
  PROVE  /\ Append(s, x) \in Seq(S)
         /\ Len(Append(s, x)) = Len(s) + 1
         /\ Append(s, x)[Len(s) + 1] = x
         /\ \A i \in 1 .. Len(s) : Append(s, x)[i] = s[i]
BY AppendProperties

\* What is left from a place on.
LEMMA Suffix ==
  ASSUME NEW S, NEW s \in Seq(S), NEW n \in 0 .. Len(s)
  PROVE  LET rest == SubSeq(s, n + 1, Len(s))
         IN  /\ rest \in Seq(S)
             /\ Len(rest) = Len(s) - n
             /\ \A i \in 1 .. Len(s) - n : rest[i] = s[n + i]
<1>1. Len(s) \in Nat /\ \A i \in n + 1 .. Len(s) : s[i] \in S
  OBVIOUS
<1> DEFINE rest == SubSeq(s, n + 1, Len(s))
<1>2. /\ rest \in Seq(S)
      /\ Len(rest) = IF n + 1 <= Len(s) THEN Len(s) - (n + 1) + 1 ELSE 0
      /\ \A i \in 1 .. Len(s) - (n + 1) + 1 : rest[i] = s[n + 1 + i - 1]
  BY <1>1, SubSeqProperties, Z3
<1> HIDE DEF rest
<1>3. Len(rest) = Len(s) - n
  BY <1>1, <1>2
<1>4. \A i \in 1 .. Len(s) - n : rest[i] = s[n + i]
  BY <1>1, <1>2
<1> QED BY <1>2, <1>3, <1>4 DEF rest

\* What is left when one is removed.
LEMMA Removed ==
  ASSUME NEW S, NEW s \in Seq(S), NEW p \in 1 .. Len(s)
  PROVE  LET rest == RemoveAt(s, p)
         IN  /\ rest \in Seq(S)
             /\ Len(rest) = Len(s) - 1
             /\ \A i \in 1 .. Len(s) - 1 : rest[i] = s[IF i < p THEN i ELSE i + 1]
<1>1. Len(s) \in Nat /\ p \in 0 .. Len(s) /\ \A i \in 1 .. p - 1 : s[i] \in S
  OBVIOUS
<1> DEFINE before == SubSeq(s, 1, p - 1)
           after == SubSeq(s, p + 1, Len(s))
<1>2. /\ before \in Seq(S)
      /\ Len(before) = IF 1 <= p - 1 THEN p - 1 - 1 + 1 ELSE 0
      /\ \A i \in 1 .. p - 1 - 1 + 1 : before[i] = s[1 + i - 1]
  BY <1>1, SubSeqProperties, Z3
<1>3. /\ after \in Seq(S)
      /\ Len(after) = Len(s) - p
      /\ \A i \in 1 .. Len(s) - p : after[i] = s[p + i]
  BY <1>1, Suffix
<1> HIDE DEF before, after
<1>4. Len(before) = p - 1 /\ \A i \in 1 .. p - 1 : before[i] = s[i]
  BY <1>1, <1>2
<1>5. /\ before \o after \in Seq(S)
      /\ Len(before \o after) = Len(before) + Len(after)
      /\ \A i \in 1 .. Len(before) + Len(after) :
           (before \o after)[i] = IF i <= Len(before) THEN before[i] ELSE after[i - Len(before)]
  BY <1>2, <1>3, ConcatProperties
<1> DEFINE rest == before \o after
<1> HIDE DEF rest
<1>6. Len(rest) = Len(s) - 1
  BY <1>1, <1>3, <1>4, <1>5 DEF rest
<1>7. ASSUME NEW i \in 1 .. Len(s) - 1
      PROVE  rest[i] = s[IF i < p THEN i ELSE i + 1]
  <2>1. i \in 1 .. Len(before) + Len(after)
    BY <1>1, <1>3, <1>4
  <2>2. CASE i < p
    BY <2>1, <2>2, <1>1, <1>4, <1>5 DEF rest
  <2>3. CASE ~(i < p)
    <3>1. rest[i] = after[i - (p - 1)] /\ i - (p - 1) \in 1 .. Len(s) - p
      BY <2>1, <2>3, <1>1, <1>4, <1>5 DEF rest
    <3> QED BY <3>1, <2>3, <1>1, <1>3
  <2> QED BY <2>2, <2>3
<1> QED BY <1>5, <1>6, <1>7 DEF rest, before, after, RemoveAt

-----------------------------------------------------------------------------
(* Lemmas about callers. *)

\* The states of a call.
LEMMA States ==
  /\ Idle \in CallStates /\ Idle.op = "idle"
  /\ \A op \in {"accept", "poll", "again"} :
       [op |-> op] \in CallStates /\ [op |-> op].op = op
  /\ \A op \in {"read", "write"}, c \in Conns :
       [op |-> op, of |-> c] \in CallStates /\ [op |-> op, of |-> c].op = op
  /\ \A r \in CallStates : r.op \in {"read", "write"} => r.of \in Conns
BY DEF Idle, CallStates

\* The part of the invariant that is about callers.
Waits == CallTypes /\ PromisesAreAwaited

\* A call that does not wait becomes another that does not.
LEMMA OtherCall ==
  ASSUME Waits, NEW k \in Callers, NEW r \in CallStates,
         call[k].op \notin {"accept", "poll"}, r.op \notin {"accept", "poll"},
         call' = [call EXCEPT ![k] = r], UNCHANGED waiting
  PROVE  Waits'
<1>1. CallTypes'
  BY DEF Waits, CallTypes
<1>2. \A j \in Callers :
        call'[j].op \in {"accept", "poll"} <=> call[j].op \in {"accept", "poll"}
  BY DEF Waits, CallTypes
<1> QED BY <1>1, <1>2, ZenonT(30) DEF Waits, PromisesAreAwaited

\* Callers at the head of the list are released and leave it.
LEMMA ReleasedFirst ==
  ASSUME Waits, NEW n \in 0 .. Len(waiting), Release(n),
         waiting' = SubSeq(waiting, n + 1, Len(waiting))
  PROVE  Waits' /\ Len(waiting') = Len(waiting) - n
<1>1. /\ waiting \in Seq(Callers) /\ Len(waiting) \in Nat
      /\ call \in [Callers -> CallStates]
      /\ \A i \in 1 .. Len(waiting) : waiting[i] \in Callers
  BY DEF Waits, CallTypes
<1>2. /\ waiting' \in Seq(Callers) /\ Len(waiting') = Len(waiting) - n
      /\ \A i \in 1 .. Len(waiting) - n : waiting'[i] = waiting[n + i]
  BY <1>1, Suffix
<1>3. CallTypes'
  BY <1>1, <1>2, States DEF CallTypes, Release
<1>4. \A i, j \in 1 .. Len(waiting) : waiting[i] = waiting[j] => i = j
  BY DEF Waits, PromisesAreAwaited
<1>5. \A i, j \in 1 .. Len(waiting') : waiting'[i] = waiting'[j] => i = j
  <2>1. SUFFICES ASSUME NEW i \in 1 .. Len(waiting'), NEW j \in 1 .. Len(waiting'),
                        waiting'[i] = waiting'[j]
                 PROVE  i = j
    OBVIOUS
  <2>2. n + i \in 1 .. Len(waiting) /\ n + j \in 1 .. Len(waiting)
    BY <1>1, <1>2
  <2>3. waiting[n + i] = waiting[n + j]
    BY <1>2, <2>1
  <2> QED BY <2>2, <2>3, <1>4
<1>6. ASSUME NEW k \in Callers
      PROVE  call'[k].op \in {"accept", "poll"} <=> \E i \in 1 .. Len(waiting') : waiting'[i] = k
  <2>1. call[k].op \in {"accept", "poll"} <=> \E i \in 1 .. Len(waiting) : waiting[i] = k
    BY DEF Waits, PromisesAreAwaited
  <2>2. call'[k] = IF \E i \in 1 .. n : waiting[i] = k THEN Idle ELSE call[k]
    BY DEF Release
  <2>3. CASE \E i \in 1 .. n : waiting[i] = k
    <3>1. PICK i \in 1 .. n : waiting[i] = k
      BY <2>3
    <3>2. ASSUME NEW j \in 1 .. Len(waiting'), waiting'[j] = k
          PROVE  FALSE
      <4>1. n + j \in 1 .. Len(waiting) /\ waiting[n + j] = k /\ i \in 1 .. Len(waiting) /\ i # n + j
        BY <3>2, <1>1, <1>2
      <4> QED BY <4>1, <3>1, <1>4
    <3>3. call'[k].op = "idle"
      BY <2>2, <2>3, States
    <3> QED BY <3>2, <3>3
  <2>4. CASE ~ \E i \in 1 .. n : waiting[i] = k
    <3>1. call'[k] = call[k]
      BY <2>2, <2>4
    <3>2. ASSUME NEW i \in 1 .. Len(waiting), waiting[i] = k
          PROVE  \E j \in 1 .. Len(waiting') : waiting'[j] = k
      <4>1. i - n \in 1 .. Len(waiting') /\ n + (i - n) = i
        BY <2>4, <3>2, <1>1, <1>2
      <4>2. waiting'[i - n] = k
        BY <4>1, <3>2, <1>2
      <4> QED BY <4>1, <4>2
    <3>3. ASSUME NEW j \in 1 .. Len(waiting'), waiting'[j] = k
          PROVE  \E i \in 1 .. Len(waiting) : waiting[i] = k
      <4>1. n + j \in 1 .. Len(waiting) /\ waiting[n + j] = k
        BY <3>3, <1>1, <1>2
      <4> QED BY <4>1
    <3> QED BY <2>1, <3>1, <3>2, <3>3
  <2> QED BY <2>3, <2>4
<1> QED BY <1>2, <1>3, <1>5, <1>6 DEF Waits, PromisesAreAwaited

\* All are released.
LEMMA AllReleased ==
  ASSUME Waits, RejectAll
  PROVE  Waits' /\ waiting' = <<>>
<1>1. waiting \in Seq(Callers) /\ Len(waiting) \in Nat
  BY DEF Waits, CallTypes
<1>2. Release(Len(waiting)) /\ waiting' = <<>>
  BY DEF RejectAll
<1>3. SubSeq(waiting, Len(waiting) + 1, Len(waiting)) = <<>>
  BY <1>1, SubSeqEmpty
<1> QED BY <1>1, <1>2, <1>3, ReleasedFirst

\* An event of a connection releases all or none.
LEMMA ReleasedByEvent ==
  ASSUME Waits, NEW c \in Conns, RejectWaitersOf(c)
  PROVE  Waits' /\ (waiting' = <<>> \/ UNCHANGED waiting)
<1>1. CASE RejectAll
  BY <1>1, AllReleased
<1>2. CASE UNCHANGED <<waiting, call>>
  BY <1>2 DEF Waits, CallTypes, PromisesAreAwaited
<1> QED BY <1>1, <1>2 DEF RejectWaitersOf

-----------------------------------------------------------------------------
(* Every step preserves the part about callers. *)

\* A caller without a promise waits for a connection.
LEMMA WaitKeepsWaits ==
  ASSUME Waits, NEW k \in Callers, Wait(k)
  PROVE  Waits'
<1>1. /\ waiting \in Seq(Callers) /\ Len(waiting) \in Nat
      /\ call \in [Callers -> CallStates]
  BY DEF Waits, CallTypes
<1>2. PICK op \in {"accept", "poll"} : call' = [call EXCEPT ![k] = [op |-> op]]
  BY DEF Wait
<1>3. /\ waiting' \in Seq(Callers) /\ Len(waiting') = Len(waiting) + 1
      /\ waiting'[Len(waiting) + 1] = k
      /\ \A i \in 1 .. Len(waiting) : waiting'[i] = waiting[i]
  BY <1>1, Appended DEF Wait
<1>4. CallTypes'
  BY <1>1, <1>2, <1>3, States DEF CallTypes
<1>5. \A i \in 1 .. Len(waiting) : waiting[i] # k
  BY States DEF Waits, PromisesAreAwaited, Wait
<1>6. \A i, j \in 1 .. Len(waiting') : waiting'[i] = waiting'[j] => i = j
  <2>1. \A i, j \in 1 .. Len(waiting) : waiting[i] = waiting[j] => i = j
    BY DEF Waits, PromisesAreAwaited
  <2>2. \A i \in 1 .. Len(waiting') : i = Len(waiting) + 1 \/ i \in 1 .. Len(waiting)
    BY <1>1, <1>3
  <2> QED BY <2>1, <2>2, <1>3, <1>5
<1>7. ASSUME NEW j \in Callers
      PROVE  call'[j].op \in {"accept", "poll"} <=> \E i \in 1 .. Len(waiting') : waiting'[i] = j
  <2>1. call[j].op \in {"accept", "poll"} <=> \E i \in 1 .. Len(waiting) : waiting[i] = j
    BY DEF Waits, PromisesAreAwaited
  <2>2. CASE j = k
    <3>1. call'[k].op = op
      BY <1>1, <1>2, States
    <3>2. Len(waiting) + 1 \in 1 .. Len(waiting')
      BY <1>1, <1>3
    <3> QED BY <2>2, <3>1, <3>2, <1>3
  <2>3. CASE j # k
    <3>1. call'[j] = call[j]
      BY <1>1, <1>2, <2>3
    <3>2. (\E i \in 1 .. Len(waiting') : waiting'[i] = j)
            <=> \E i \in 1 .. Len(waiting) : waiting[i] = j
      <4>1. 1 .. Len(waiting') = (1 .. Len(waiting)) \cup {Len(waiting) + 1}
        BY <1>1, <1>3
      <4> QED BY <4>1, <1>3, <2>3
    <3> QED BY <2>1, <3>1, <3>2
  <2> QED BY <2>2, <2>3
<1> QED BY <1>4, <1>6, <1>7 DEF Waits, PromisesAreAwaited

\* The promise of a caller whose time is over is removed.
LEMMA WaitEndsKeepsWaits ==
  ASSUME Waits, NEW k \in Callers, WaitEnds(k)
  PROVE  Waits'
<1>1. /\ waiting \in Seq(Callers) /\ Len(waiting) \in Nat
      /\ call \in [Callers -> CallStates]
      /\ call' = [call EXCEPT ![k] = Idle]
  BY DEF Waits, CallTypes, WaitEnds
<1>2. PICK p \in 1 .. Len(waiting) : waiting[p] = k /\ waiting' = RemoveAt(waiting, p)
  BY DEF WaitEnds
<1>3. /\ waiting' \in Seq(Callers) /\ Len(waiting') = Len(waiting) - 1
      /\ \A i \in 1 .. Len(waiting) - 1 : waiting'[i] = waiting[IF i < p THEN i ELSE i + 1]
  BY <1>1, <1>2, Removed
<1>4. CallTypes'
  BY <1>1, <1>3, States DEF CallTypes
<1>5. \A i, j \in 1 .. Len(waiting) : waiting[i] = waiting[j] => i = j
  BY DEF Waits, PromisesAreAwaited
<1> DEFINE from(i) == IF i < p THEN i ELSE i + 1
<1>6. \A i \in 1 .. Len(waiting') :
        from(i) \in 1 .. Len(waiting) /\ from(i) # p /\ waiting'[i] = waiting[from(i)]
  BY <1>1, <1>3
<1>7. \A i \in 1 .. Len(waiting) : i # p => \E j \in 1 .. Len(waiting') : from(j) = i
  <2>1. SUFFICES ASSUME NEW i \in 1 .. Len(waiting), i # p
                 PROVE  \E j \in 1 .. Len(waiting') : from(j) = i
    OBVIOUS
  <2>2. CASE i < p
    <3>1. i \in 1 .. Len(waiting') /\ from(i) = i
      BY <2>2, <1>1, <1>3
    <3> QED BY <3>1
  <2>3. CASE ~(i < p)
    <3>1. i - 1 \in 1 .. Len(waiting') /\ from(i - 1) = i
      BY <2>1, <2>3, <1>1, <1>3
    <3> QED BY <3>1
  <2> QED BY <2>2, <2>3
<1>8. \A i, j \in 1 .. Len(waiting') : from(i) = from(j) => i = j
  BY <1>1, <1>3
<1> HIDE DEF from
<1>9. \A i, j \in 1 .. Len(waiting') : waiting'[i] = waiting'[j] => i = j
  BY <1>5, <1>6, <1>8
<1>10. ASSUME NEW j \in Callers
       PROVE  call'[j].op \in {"accept", "poll"} <=> \E i \in 1 .. Len(waiting') : waiting'[i] = j
  <2>1. call[j].op \in {"accept", "poll"} <=> \E i \in 1 .. Len(waiting) : waiting[i] = j
    BY DEF Waits, PromisesAreAwaited
  <2>2. CASE j = k
    <3>1. call'[k].op = "idle"
      BY <1>1, States
    <3>2. \A i \in 1 .. Len(waiting') : waiting'[i] # k
      BY <1>2, <1>5, <1>6
    <3> QED BY <2>2, <3>1, <3>2
  <2>3. CASE j # k
    <3>1. call'[j] = call[j]
      BY <1>1, <2>3
    <3>2. (\E i \in 1 .. Len(waiting') : waiting'[i] = j)
            <=> \E i \in 1 .. Len(waiting) : waiting[i] = j
      BY SMTT(20), <1>2, <1>6, <1>7, <2>3
    <3> QED BY <2>1, <3>1, <3>2
  <2> QED BY <2>2, <2>3
<1> QED BY <1>4, <1>9, <1>10 DEF Waits, PromisesAreAwaited

\* A new connection goes to the first that waits to accept one.
LEMMA ConnectionTakenKeepsWaits ==
  ASSUME Waits, NEW c \in Conns, ConnectionTaken(c)
  PROVE  Waits' /\ (waiting = <<>> => waiting' = <<>>)
<1>1. PICK n \in Accepting :
        Release(n) /\ waiting' = SubSeq(waiting, n + 1, Len(waiting))
  BY DEF ConnectionTaken
<1>2. waiting \in Seq(Callers) /\ n \in 1 .. Len(waiting) /\ Len(waiting) \in Nat
  BY <1>1 DEF Waits, CallTypes, Accepting
<1>3. Waits'
  BY <1>1, <1>2, ReleasedFirst
<1>4. waiting # <<>>
  BY <1>2
<1> QED BY <1>3, <1>4

\* All steps.
LEMMA NextKeepsWaits ==
  ASSUME Waits, ConnTypes, [Next]_vars
  PROVE  Waits'
<1> USE States
<1>1. ASSUME NEW c \in Conns, NetworkNext(c)
      PROVE  Waits'
  <2>1. CASE ConnectionTaken(c)
    BY <2>1, ConnectionTakenKeepsWaits
  <2>2. CASE ConnectionQueued(c)
    BY <2>2, AllReleased DEF ConnectionQueued
  <2>3. CASE Connected(c)
    BY <2>3 DEF Connected, Waits, CallTypes, PromisesAreAwaited
  <2>4. CASE Data(c)
    BY <2>4, ReleasedByEvent DEF Data
  <2>5. CASE End(c)
    BY <2>5, ReleasedByEvent DEF End
  <2>6. CASE Reset(c)
    BY <2>6, ReleasedByEvent DEF Reset
  <2> QED BY <1>1, <2>1, <2>2, <2>3, <2>4, <2>5, <2>6 DEF NetworkNext
<1>2. ASSUME NEW k \in Callers, ListenerNext(k)
      PROVE  Waits'
  <2>1. CASE Accept(k)
    BY <2>1 DEF Accept, Waits, CallTypes, PromisesAreAwaited
  <2>2. CASE Poll(k)
    BY <2>2, AllReleased DEF Poll
  <2>3. CASE Wait(k)
    BY <2>3, WaitKeepsWaits
  <2>4. CASE WaitEnds(k)
    BY <2>4, WaitEndsKeepsWaits
  <2>5. CASE CloseListener(k)
    BY <2>5, AllReleased DEF CloseListener
  <2> QED BY <1>2, <2>1, <2>2, <2>3, <2>4, <2>5 DEF ListenerNext
<1>3. ASSUME NEW k \in Callers, ReadAgain(k) \/ ReadGoesOn(k) \/ WriteEnds(k)
      PROVE  Waits'
  <2>1. CASE ReadAgain(k)
    BY <2>1, OtherCall DEF ReadAgain
  <2>2. CASE ReadGoesOn(k)
    BY <2>2, OtherCall DEF ReadGoesOn
  <2>3. CASE WriteEnds(k)
    BY <2>3, OtherCall DEF WriteEnds
  <2> QED BY <1>3, <2>1, <2>2, <2>3
<1>4. ASSUME NEW k \in Callers, NEW c \in Conns, ConnNext(k, c)
      PROVE  Waits'
  <2>1. CASE Connect(k, c) \/ Close(k, c) \/ ReadEnd(k, c) \/ ReadSome(k, c) \/ ReadCut(k, c)
    BY <2>1 DEF Connect, Close, ReadEnd, ReadSome, ReadCut, Waits, CallTypes, PromisesAreAwaited
  <2>2. CASE ReadNothing(k, c)
    BY <2>2, OtherCall DEF ReadNothing
  <2>3. CASE Write(k, c)
    BY <2>3, OtherCall DEF Write
  <2> QED BY <1>4, <2>1, <2>2, <2>3 DEF ConnNext
<1>5. CASE UNCHANGED vars
  BY <1>5 DEF vars, Waits, CallTypes, PromisesAreAwaited
<1> QED BY <1>1, <1>2, <1>3, <1>4, <1>5 DEF Next

\* Nobody waits once a connection is queued or the listening socket is closed.
LEMMA NextKeepsNobodyWaitsInVain ==
  ASSUME IInv, [Next]_vars
  PROVE  NobodyWaitsInVain'
<1> USE DEF IInv, NobodyWaitsInVain
<1>1. Waits
  BY DEF Waits
<1>2. ASSUME NEW c \in Conns, NetworkNext(c)
      PROVE  NobodyWaitsInVain'
  <2>1. CASE ConnectionTaken(c)
    BY <2>1, <1>1, ConnectionTakenKeepsWaits DEF ConnectionTaken
  <2>2. CASE ConnectionQueued(c)
    BY <2>2 DEF ConnectionQueued, RejectAll
  <2>3. CASE Connected(c)
    BY <2>3 DEF Connected
  <2>4. CASE Data(c) \/ End(c) \/ Reset(c)
    BY <2>4, <1>1, ReleasedByEvent DEF Data, End, Reset
  <2> QED BY <1>2, <2>1, <2>2, <2>3, <2>4 DEF NetworkNext
<1>3. ASSUME NEW k \in Callers, ListenerNext(k)
      PROVE  NobodyWaitsInVain'
  <2>1. CASE Accept(k)
    BY <2>1 DEF Accept
  <2>2. CASE Poll(k)
    BY <2>2 DEF Poll, RejectAll
  <2>3. CASE Wait(k)
    BY <2>3 DEF Wait
  <2>4. CASE WaitEnds(k)
    <3>1. waiting # <<>>
      <4>1. PICK p \in 1 .. Len(waiting) : waiting[p] = k
        BY <2>4 DEF WaitEnds
      <4> QED BY <4>1
    <3> QED BY <2>4, <3>1 DEF WaitEnds
  <2>5. CASE CloseListener(k)
    BY <2>5 DEF CloseListener, RejectAll
  <2> QED BY <1>3, <2>1, <2>2, <2>3, <2>4, <2>5 DEF ListenerNext
<1>4. ASSUME NEW k \in Callers, ReadAgain(k) \/ ReadGoesOn(k) \/ WriteEnds(k)
      PROVE  NobodyWaitsInVain'
  BY <1>4 DEF ReadAgain, ReadGoesOn, WriteEnds
<1>5. ASSUME NEW k \in Callers, NEW c \in Conns, ConnNext(k, c)
      PROVE  NobodyWaitsInVain'
  BY <1>5 DEF ConnNext, Connect, Close, ReadEnd, ReadSome, ReadCut, ReadNothing, Write, connVars
<1>6. CASE UNCHANGED vars
  BY <1>6 DEF vars
<1> QED BY <1>2, <1>3, <1>4, <1>5, <1>6 DEF Next

-----------------------------------------------------------------------------
(* Every step preserves the part about connections. *)

\* The bounds are numbers.
LEMMA Bounds == MaxBytes \in Nat /\ Incoming \subseteq Conns /\ Outgoing \subseteq Conns
BY SocketsAssumption DEF SocketsAssumption, Conns

\* What can be in the queue.
LEMMA HeadOfQueue ==
  ASSUME ConnTypes, queue # <<>>
  PROVE  /\ Len(queue) \in Nat \ {0} /\ Head(queue) = queue[1]
         /\ Head(queue) \in Incoming /\ Tail(queue) \in Seq(Incoming)
         /\ Len(Tail(queue)) = Len(queue) - 1
         /\ \A i \in 1 .. Len(queue) - 1 : Tail(queue)[i] = queue[i + 1]
<1>1. queue \in Seq(Incoming)
  BY DEF ConnTypes
<1>2. Len(queue) \in Nat \ {0} /\ Head(queue) = queue[1]
  BY <1>1
<1> QED BY <1>1, <1>2, HeadTailProperties

\* Taking never takes more than there is, and nothing where nothing is left.
LEMMA Taken ==
  ASSUME ConnTypes, NEW c \in Conns, NEW n \in 1 .. MaxBytes, Take(c, n)
  PROVE  /\ taken' \in [Conns -> Nat]
         /\ \A d \in Conns : taken'[d] <= arrived[d]
         /\ \A d \in Conns : taken[d] = arrived[d] => taken'[d] = arrived[d]
<1>1. /\ taken \in [Conns -> Nat] /\ arrived \in [Conns -> Nat] /\ n \in Nat \ {0}
      /\ \A d \in Conns : taken[d] <= arrived[d]
  BY Bounds DEF ConnTypes
<1>2. taken' = [taken EXCEPT ![c] = taken[c] +
                  (IF n < arrived[c] - taken[c] THEN n ELSE arrived[c] - taken[c])]
  BY DEF Take, Buffered
<1> QED BY <1>1, <1>2

\* Types of the connections.
LEMMA NextKeepsConnTypes ==
  ASSUME IInv, [Next]_vars
  PROVE  ConnTypes'
<1> USE Bounds DEF ConnTypes, connVars
<1>0. ConnTypes
  BY DEF IInv
<1>1. ASSUME NEW c \in Conns, NetworkNext(c)
      PROVE  ConnTypes'
  <2>1. CASE ConnectionTaken(c)
    BY <2>1, <1>0 DEF ConnectionTaken
  <2>2. CASE ConnectionQueued(c)
    <3>1. queue' \in Seq(Incoming)
      BY <2>2, <1>0, Appended DEF ConnectionQueued
    <3> QED BY <2>2, <3>1, <1>0 DEF ConnectionQueued
  <2>3. CASE Connected(c)
    BY <2>3, <1>0 DEF Connected
  <2>4. CASE Data(c)
    BY <2>4, <1>0 DEF Data
  <2>5. CASE End(c)
    BY <2>5, <1>0 DEF End
  <2>6. CASE Reset(c)
    BY <2>6, <1>0 DEF Reset
  <2> QED BY <1>1, <2>1, <2>2, <2>3, <2>4, <2>5, <2>6 DEF NetworkNext
<1>2. ASSUME NEW k \in Callers, ListenerNext(k)
      PROVE  ConnTypes'
  <2>1. CASE Accept(k)
    BY <2>1, <1>0, HeadOfQueue DEF Accept
  <2>2. CASE Poll(k)
    <3>1. queue' \in Seq(Incoming)
      BY <2>2, <1>0, HeadOfQueue, Appended DEF Poll
    <3> QED BY <2>2, <3>1, <1>0 DEF Poll
  <2>3. CASE Wait(k) \/ WaitEnds(k) \/ CloseListener(k)
    BY <2>3, <1>0 DEF Wait, WaitEnds, CloseListener
  <2> QED BY <1>2, <2>1, <2>2, <2>3 DEF ListenerNext
<1>3. ASSUME NEW k \in Callers, ReadAgain(k) \/ WriteEnds(k)
      PROVE  ConnTypes'
  BY <1>3, <1>0 DEF ReadAgain, WriteEnds
<1>4. ASSUME NEW k \in Callers, ReadGoesOn(k)
      PROVE  ConnTypes'
  <2>1. call[k].of \in Conns
    BY <1>4, States DEF ReadGoesOn, IInv, CallTypes
  <2>2. CASE UNCHANGED taken
    BY <1>4, <2>2, <1>0 DEF ReadGoesOn
  <2>3. CASE \E n \in 1 .. MaxBytes : Take(call[k].of, n)
    <3>1. taken' \in [Conns -> Nat] /\ \A d \in Conns : taken'[d] <= arrived[d]
      BY <2>1, <2>3, <1>0, Taken
    <3> QED BY <1>4, <3>1, <1>0 DEF ReadGoesOn
  <2> QED BY <1>4, <2>2, <2>3 DEF ReadGoesOn
<1>5. ASSUME NEW k \in Callers, NEW c \in Conns, ConnNext(k, c)
      PROVE  ConnTypes'
  <2>1. CASE ReadSome(k, c)
    <3>1. taken' \in [Conns -> Nat] /\ \A d \in Conns : taken'[d] <= arrived[d]
      BY <2>1, <1>0, Taken DEF ReadSome
    <3> QED BY <2>1, <3>1, <1>0 DEF ReadSome
  <2>2. CASE Connect(k, c) \/ Close(k, c)
    BY ZenonT(30), <2>2, <1>0 DEF Connect, Close
  <2>3. CASE ReadEnd(k, c) \/ ReadCut(k, c) \/ ReadNothing(k, c) \/ Write(k, c)
    BY <2>3, <1>0 DEF ReadEnd, ReadCut, ReadNothing, Write
  <2> QED BY <1>5, <2>1, <2>2, <2>3 DEF ConnNext
<1>6. CASE UNCHANGED vars
  BY <1>6, <1>0 DEF vars
<1> QED BY <1>1, <1>2, <1>3, <1>4, <1>5, <1>6 DEF Next

\* Connections live forwards.
LEMMA NextKeepsPhases ==
  ASSUME IInv, [Next]_vars
  PROVE  Phases'
<1> USE Bounds DEF Phases, Closed, connVars
<1>0. Phases /\ ConnTypes /\ QueueKeepsConnections
  BY DEF IInv
<1>1. ASSUME NEW c \in Conns, NetworkNext(c)
      PROVE  Phases'
  BY <1>1, <1>0 DEF NetworkNext, ConnectionTaken, ConnectionQueued, Connected, Data, End, Reset,
                    IsNew, ConnTypes
<1>2. ASSUME NEW k \in Callers, ListenerNext(k)
      PROVE  Phases'
  <2>1. CASE Accept(k)
    <3>1. Head(queue) \in Conns /\ where[Head(queue)] = "queued"
      BY <2>1, <1>0, HeadOfQueue DEF Accept, QueueKeepsConnections
    <3> QED BY <2>1, <3>1, <1>0 DEF Accept, ConnTypes
  <2>2. CASE Poll(k) \/ Wait(k) \/ WaitEnds(k) \/ CloseListener(k)
    BY <2>2, <1>0 DEF Poll, Wait, WaitEnds, CloseListener
  <2> QED BY <1>2, <2>1, <2>2 DEF ListenerNext
<1>3. ASSUME NEW k \in Callers, ReadAgain(k) \/ ReadGoesOn(k) \/ WriteEnds(k)
      PROVE  Phases'
  BY <1>3, <1>0 DEF ReadAgain, ReadGoesOn, WriteEnds
<1>4. ASSUME NEW k \in Callers, NEW c \in Conns, ConnNext(k, c)
      PROVE  Phases'
  BY <1>4, <1>0 DEF ConnNext, Connect, Close, ReadEnd, ReadSome, ReadCut, ReadNothing, Write,
                    IsNew, ConnTypes
<1>5. CASE UNCHANGED vars
  BY <1>5, <1>0 DEF vars
<1> QED BY <1>1, <1>2, <1>3, <1>4, <1>5 DEF Next

\* The queue stays as it is while no connection enters or leaves it.
LEMMA QueueUntouched ==
  ASSUME QueueKeepsConnections, UNCHANGED queue,
         \A c \in Conns : where'[c] = "queued" <=> where[c] = "queued"
  PROVE  QueueKeepsConnections'
BY DEF QueueKeepsConnections

\* The queue loses nothing and holds nothing twice.
LEMMA NextKeepsQueue ==
  ASSUME IInv, [Next]_vars
  PROVE  QueueKeepsConnections'
<1> USE Bounds DEF connVars
<1>0. ConnTypes /\ Phases /\ QueueKeepsConnections
  BY DEF IInv
<1>q. /\ queue \in Seq(Incoming) /\ Len(queue) \in Nat
      /\ \A i \in 1 .. Len(queue) : queue[i] \in Conns
      /\ where \in [Conns -> {"nowhere", "queued", "open", "closed", "cut"}]
  BY <1>0 DEF ConnTypes
<1>u. /\ \A c \in Conns : where[c] = "queued" <=> \E i \in 1 .. Len(queue) : queue[i] = c
      /\ \A i, j \in 1 .. Len(queue) : queue[i] = queue[j] => i = j
  BY <1>0 DEF QueueKeepsConnections
<1>1. ASSUME NEW c \in Conns, ConnectionQueued(c)
      PROVE  QueueKeepsConnections'
  <2>1. /\ Len(queue') = Len(queue) + 1 /\ queue'[Len(queue) + 1] = c
        /\ \A i \in 1 .. Len(queue) : queue'[i] = queue[i]
    BY <1>1, <1>q, Appended DEF ConnectionQueued
  <2>2. \A i \in 1 .. Len(queue) : queue[i] # c
    BY <1>1, <1>0, <1>u DEF ConnectionQueued, IsNew, Phases
  <2>3. 1 .. Len(queue') = (1 .. Len(queue)) \cup {Len(queue) + 1}
    BY <1>q, <2>1
  <2>4. \A d \in Conns : where'[d] = IF d = c THEN "queued" ELSE where[d]
    BY <1>1, <1>q DEF ConnectionQueued
  <2>5. \A d \in Conns : where'[d] = "queued" <=> \E i \in 1 .. Len(queue') : queue'[i] = d
    BY <2>1, <2>3, <2>4, <1>u
  <2>6. \A i, j \in 1 .. Len(queue') : queue'[i] = queue'[j] => i = j
    BY <2>1, <2>2, <2>3, <1>u
  <2> QED BY <2>5, <2>6 DEF QueueKeepsConnections
<1>2. ASSUME NEW k \in Callers, Accept(k)
      PROVE  QueueKeepsConnections'
  <2>1. /\ Len(queue) \in Nat \ {0} /\ Len(queue') = Len(queue) - 1
        /\ \A i \in 1 .. Len(queue) - 1 : queue'[i] = queue[i + 1]
        /\ where' = [where EXCEPT ![queue[1]] = "open"]
    BY <1>2, <1>0, HeadOfQueue DEF Accept
  <2>2. \A i \in 1 .. Len(queue') : i + 1 \in 1 .. Len(queue) /\ i + 1 # 1 /\ queue'[i] = queue[i + 1]
    BY <2>1
  <2>3. \A i \in 1 .. Len(queue) : i # 1 => i - 1 \in 1 .. Len(queue') /\ queue'[i - 1] = queue[i]
    BY <2>1
  <2>4. \A d \in Conns : where'[d] = IF d = queue[1] THEN "open" ELSE where[d]
    BY <2>1, <1>q
  <2>5. 1 \in 1 .. Len(queue)
    BY <2>1
  <2>6. ASSUME NEW d \in Conns
        PROVE  where'[d] = "queued" <=> \E i \in 1 .. Len(queue') : queue'[i] = d
    <3>1. CASE d = queue[1]
      BY <3>1, <2>2, <2>4, <2>5, <1>u
    <3>2. CASE d # queue[1]
      <4>1. where'[d] = "queued" <=> \E i \in 1 .. Len(queue) : queue[i] = d
        BY <3>2, <2>4, <1>u
      <4>2. ASSUME NEW i \in 1 .. Len(queue), queue[i] = d
            PROVE  \E j \in 1 .. Len(queue') : queue'[j] = d
        BY <4>2, <3>2, <2>3
      <4>3. ASSUME NEW j \in 1 .. Len(queue'), queue'[j] = d
            PROVE  \E i \in 1 .. Len(queue) : queue[i] = d
        BY <4>3, <2>2
      <4> QED BY <4>1, <4>2, <4>3
    <3> QED BY <3>1, <3>2
  <2>7. \A i, j \in 1 .. Len(queue') : queue'[i] = queue'[j] => i = j
    <3>1. SUFFICES ASSUME NEW i \in 1 .. Len(queue'), NEW j \in 1 .. Len(queue'),
                          queue'[i] = queue'[j]
                   PROVE  i = j
      OBVIOUS
    <3>2. i + 1 = j + 1
      BY <3>1, <2>2, <1>u
    <3> QED BY <3>2
  <2> QED BY <2>6, <2>7 DEF QueueKeepsConnections
<1>3. ASSUME NEW k \in Callers, Poll(k)
      PROVE  QueueKeepsConnections'
  <2> DEFINE n == Len(queue)
             from(i) == IF i = n THEN 1 ELSE i + 1
  <2>1. /\ n \in Nat \ {0} /\ Len(queue') = n
        /\ \A i \in 1 .. n : queue'[i] = queue[from(i)]
    <3>1. /\ n \in Nat \ {0} /\ Head(queue) = queue[1] /\ Head(queue) \in Incoming
          /\ Tail(queue) \in Seq(Incoming) /\ Len(Tail(queue)) = n - 1
          /\ \A i \in 1 .. n - 1 : Tail(queue)[i] = queue[i + 1]
      BY <1>3, <1>0, HeadOfQueue DEF Poll
    <3> DEFINE t == Tail(queue)
    <3> HIDE DEF t
    <3>2. /\ Len(queue') = Len(t) + 1 /\ queue'[Len(t) + 1] = Head(queue)
          /\ \A i \in 1 .. Len(t) : queue'[i] = t[i]
      BY <1>3, <3>1, Appended DEF Poll, t
    <3>3. Len(t) = n - 1 /\ \A i \in 1 .. n - 1 : t[i] = queue[i + 1]
      BY <3>1 DEF t
    <3> HIDE DEF n
    <3>4. Len(queue') = n /\ queue'[n] = queue[1] /\ \A i \in 1 .. n - 1 : queue'[i] = queue[i + 1]
      BY <3>1, <3>2, <3>3
    <3>5. ASSUME NEW i \in 1 .. n PROVE queue'[i] = queue[from(i)]
      <4>1. CASE i = n
        BY <4>1, <3>1, <3>4
      <4>2. CASE i # n
        BY <4>2, <3>1, <3>4
      <4> QED BY <4>1, <4>2
    <3> QED BY <3>1, <3>4, <3>5
  <2>2. \A i \in 1 .. n : from(i) \in 1 .. n
    BY <2>1
  <2>3. \A i, j \in 1 .. n : from(i) = from(j) => i = j
    BY <2>1
  <2>4. \A i \in 1 .. n : \E j \in 1 .. n : from(j) = i
    <3>1. SUFFICES ASSUME NEW i \in 1 .. n
                   PROVE  \E j \in 1 .. n : from(j) = i
      OBVIOUS
    <3>2. CASE i = 1
      BY <3>2, <2>1
    <3>3. CASE i # 1
      <4>1. i - 1 \in 1 .. n /\ from(i - 1) = i
        BY <3>1, <3>3, <2>1
      <4> QED BY <4>1
    <3> QED BY <3>2, <3>3
  <2>5. UNCHANGED where
    BY <1>3 DEF Poll
  <2> HIDE DEF from
  <2>6. ASSUME NEW d \in Conns
        PROVE  where'[d] = "queued" <=> \E i \in 1 .. n : queue'[i] = d
    <3>1. where[d] = "queued" <=> \E i \in 1 .. n : queue[i] = d
      BY <1>u
    <3>2. ASSUME NEW i \in 1 .. n, queue[i] = d
          PROVE  \E j \in 1 .. n : queue'[j] = d
      BY <3>2, <2>1, <2>4
    <3>3. ASSUME NEW i \in 1 .. n, queue'[i] = d
          PROVE  \E j \in 1 .. n : queue[j] = d
      BY <3>3, <2>1, <2>2
    <3> QED BY <3>1, <3>2, <3>3, <2>5
  <2>7. \A i, j \in 1 .. n : queue'[i] = queue'[j] => i = j
    BY <2>1, <2>2, <2>3, <1>u
  <2> QED BY <2>1, <2>6, <2>7 DEF QueueKeepsConnections
<1>4. ASSUME NEW c \in Conns,
             ConnectionTaken(c) \/ Connected(c) \/ Data(c) \/ End(c) \/ Reset(c)
      PROVE  QueueKeepsConnections'
  <2>1. UNCHANGED queue
    BY <1>4 DEF ConnectionTaken, Connected, Data, End, Reset
  <2>2. \A d \in Conns : where'[d] = "queued" <=> where[d] = "queued"
    BY <1>4, <1>0, <1>q DEF ConnectionTaken, Connected, Data, End, Reset, IsNew, Phases
  <2> QED BY <1>0, <2>1, <2>2, QueueUntouched
<1>5. ASSUME NEW k \in Callers,
             \/ Wait(k) \/ WaitEnds(k) \/ CloseListener(k)
             \/ ReadAgain(k) \/ ReadGoesOn(k) \/ WriteEnds(k)
      PROVE  QueueKeepsConnections'
  <2>1. UNCHANGED <<queue, where>>
    BY <1>5 DEF Wait, WaitEnds, CloseListener, ReadAgain, ReadGoesOn, WriteEnds
  <2> QED BY <1>0, <2>1, QueueUntouched
<1>6. ASSUME NEW k \in Callers, NEW c \in Conns, ConnNext(k, c)
      PROVE  QueueKeepsConnections'
  <2>1. UNCHANGED queue
    BY <1>6 DEF ConnNext, Connect, Close, ReadEnd, ReadSome, ReadCut, ReadNothing, Write
  <2>2. \A d \in Conns : where'[d] = "queued" <=> where[d] = "queued"
    BY <1>6, <1>0, <1>q DEF ConnNext, Connect, Close, ReadEnd, ReadSome, ReadCut, ReadNothing,
                            Write, IsNew, Phases
  <2> QED BY <1>0, <2>1, <2>2, QueueUntouched
<1>7. CASE UNCHANGED vars
  BY <1>0, <1>7, QueueUntouched DEF vars
<1> QED BY <1>1, <1>2, <1>3, <1>4, <1>5, <1>6, <1>7
        DEF Next, NetworkNext, ListenerNext

\* The end is told last.
LEMMA NextKeepsEndLast ==
  ASSUME IInv, [Next]_vars
  PROVE  EndComesLast'
<1> USE Bounds DEF EndComesLast, connVars
<1>0. ConnTypes /\ Phases /\ QueueKeepsConnections /\ EndComesLast
  BY DEF IInv
<1>1. ASSUME NEW c \in Conns, NetworkNext(c)
      PROVE  EndComesLast'
  BY <1>1, <1>0 DEF NetworkNext, ConnectionTaken, ConnectionQueued, Connected, Data, End, Reset,
                    IsNew, Phases, Closed, ConnTypes
<1>2. ASSUME NEW k \in Callers, ListenerNext(k)
      PROVE  EndComesLast'
  <2>1. CASE Accept(k)
    <3>1. Head(queue) \in Conns /\ where[Head(queue)] = "queued"
      BY <2>1, <1>0, HeadOfQueue DEF Accept, QueueKeepsConnections
    <3> QED BY <2>1, <3>1, <1>0 DEF Accept, ConnTypes
  <2>2. CASE Poll(k) \/ Wait(k) \/ WaitEnds(k) \/ CloseListener(k)
    BY <2>2, <1>0 DEF Poll, Wait, WaitEnds, CloseListener
  <2> QED BY <1>2, <2>1, <2>2 DEF ListenerNext
<1>3. ASSUME NEW k \in Callers, ReadAgain(k) \/ WriteEnds(k)
      PROVE  EndComesLast'
  BY <1>3, <1>0 DEF ReadAgain, WriteEnds
<1>4. ASSUME NEW k \in Callers, ReadGoesOn(k)
      PROVE  EndComesLast'
  <2>1. call[k].of \in Conns
    BY <1>4, States DEF ReadGoesOn, IInv, CallTypes
  <2>2. CASE UNCHANGED taken
    BY <1>4, <2>2, <1>0 DEF ReadGoesOn
  <2>3. CASE \E n \in 1 .. MaxBytes : Take(call[k].of, n)
    <3>1. \A d \in Conns : taken[d] = arrived[d] => taken'[d] = arrived[d]
      BY <2>1, <2>3, <1>0, Taken
    <3> QED BY <1>4, <3>1, <1>0 DEF ReadGoesOn
  <2> QED BY <1>4, <2>2, <2>3 DEF ReadGoesOn
<1>5. ASSUME NEW k \in Callers, NEW c \in Conns, ConnNext(k, c)
      PROVE  EndComesLast'
  <2>1. CASE ReadSome(k, c)
    <3>1. \A d \in Conns : taken[d] = arrived[d] => taken'[d] = arrived[d]
      BY <2>1, <1>0, Taken DEF ReadSome
    <3> QED BY <2>1, <3>1, <1>0 DEF ReadSome
  <2>2. CASE ReadEnd(k, c)
    BY <2>2, <1>0 DEF ReadEnd, Buffered, ConnTypes
  <2>3. CASE ReadCut(k, c)
    BY <2>3, <1>0 DEF ReadCut, ConnTypes
  <2>4. CASE Connect(k, c) \/ Close(k, c)
    BY <2>4, <1>0 DEF Connect, Close, IsNew, Phases, Closed, ConnTypes
  <2>5. CASE ReadNothing(k, c) \/ Write(k, c)
    BY <2>5, <1>0 DEF ReadNothing, Write
  <2> QED BY <1>5, <2>1, <2>2, <2>3, <2>4, <2>5 DEF ConnNext
<1>6. CASE UNCHANGED vars
  BY <1>6, <1>0 DEF vars
<1> QED BY <1>1, <1>2, <1>3, <1>4, <1>5, <1>6 DEF Next

-----------------------------------------------------------------------------
(* The theorems. *)

\* The invariant holds at the start,
LEMMA InitEstablishes == Init => IInv
<1> SUFFICES ASSUME Init PROVE IInv
  OBVIOUS
<1>1. queue = <<>> /\ waiting = <<>>
  BY DEF Init
<1>2. CallTypes
  BY States, EmptySeq DEF Init, CallTypes
<1>3. ConnTypes
  BY EmptySeq DEF Init, ConnTypes
<1>4. Phases /\ EndComesLast /\ NobodyWaitsInVain
  BY DEF Init, Phases, EndComesLast, NobodyWaitsInVain
<1>5. PromisesAreAwaited /\ QueueKeepsConnections
  BY States DEF Init, PromisesAreAwaited, QueueKeepsConnections
<1> QED BY <1>2, <1>3, <1>4, <1>5 DEF IInv

\* and after every step.
LEMMA NextPreserves == IInv /\ [Next]_vars => IInv'
<1> SUFFICES ASSUME IInv, [Next]_vars PROVE IInv'
  OBVIOUS
<1>1. CallTypes' /\ PromisesAreAwaited'
  BY NextKeepsWaits DEF Waits, IInv
<1> QED
  BY <1>1, NextKeepsConnTypes, NextKeepsPhases, NextKeepsNobodyWaitsInVain,
     NextKeepsQueue, NextKeepsEndLast
  DEF IInv

\* The invariant always holds.
LEMMA Invariant == Spec => []IInv
BY InitEstablishes, NextPreserves, PTL DEF Spec

\* The state of listener, connections and callers is of the types the code keeps,
\* and no more bytes are read than have arrived.
THEOREM TypeCorrect == Spec => []TypeOK
<1>1. IInv => TypeOK
  BY DEF IInv, CallTypes, ConnTypes, CallStates, TypeOK
<1> QED BY <1>1, Invariant, PTL

\* notifyAcceptedSocket and close leave nobody waiting who has a connection to
\* take, or none to expect.
THEOREM NobodyIsLeftWaiting == Spec => []NobodyWaitsInVain
<1>1. IInv => NobodyWaitsInVain
  BY DEF IInv
<1> QED BY <1>1, Invariant, PTL

\* The list has one promise for each caller that waits, and no other: no
\* connection is handed to a call that timed out.
THEOREM PromisesKept == Spec => []PromisesAreAwaited
<1>1. IInv => PromisesAreAwaited
  BY DEF IInv
<1> QED BY <1>1, Invariant, PTL

\* Polls and accepts lose no connection and hand none out twice.
THEOREM NoConnectionIsLost == Spec => []QueueKeepsConnections
<1>1. IInv => QueueKeepsConnections
  BY DEF IInv
<1> QED BY <1>1, Invariant, PTL

\* A guest that is told that a connection is over has read all that arrived,
\* where its descriptor was not taken away.
THEOREM EndIsToldLast == Spec => []EndComesLast
<1>1. IInv => EndComesLast
  BY DEF IInv
<1> QED BY <1>1, Invariant, PTL

-----------------------------------------------------------------------------
(* Liveness: every call returns.  The prover does not evaluate ENABLED, so   *)
(* the theorem assumes Ready: that an action of Fairness can be taken        *)
(* wherever the conditions on the current state that it states hold.         *)

Ready ==
  /\ \A c \in Conns : life[c] = "connecting" => ENABLED <<Connected(c)>>_vars
  /\ \A k \in Callers :
       \/ /\ call[k].op \in {"accept", "poll"}
          /\ \E i \in 1 .. Len(waiting) : waiting[i] = k
       \/ call[k].op = "again"
       \/ call[k].op = "read" /\ life[call[k].of] # "connecting"
       \/ /\ call[k].op = "write" /\ life[call[k].of] \notin {"connecting", "refused"}
          /\ CalledBack(call[k].of)
       => ENABLED <<MustEnd(k)>>_vars

\* Only attempts of the guest are being connected, and only a connection that
\* has been begun is read or written.
Attempts ==
  /\ \A c \in Conns : life[c] = "connecting" => c \in Outgoing
  /\ \A k \in Callers : call[k].op \in {"read", "write"} => life[call[k].of] # "new"

\* A call that is under way goes on, returns, or is a read that will be told to
\* try again.
LEMMA CallStep ==
  ASSUME IInv, [Next]_vars, NEW k \in Callers, call[k] # Idle
  PROVE  \/ call'[k] = call[k] /\ ~CallEnds(k)
         \/ call'[k] = Idle
         \/ call[k].op = "read" /\ call'[k] = [op |-> "again"]
<1> USE States
<1>t. call \in [Callers -> CallStates]
  BY DEF IInv, CallTypes
<1> DEFINE Goes == \/ call'[k] = call[k] /\ ~CallEnds(k)
                   \/ call'[k] = Idle
                   \/ call[k].op = "read" /\ call'[k] = [op |-> "again"]
<1>1. CallEnds(k) => Goes
  <2>1. CASE WaitEnds(k) \/ ReadAgain(k) \/ WriteEnds(k)
    BY <2>1, <1>t DEF WaitEnds, ReadAgain, WriteEnds
  <2>2. CASE ReadGoesOn(k)
    BY <2>2, <1>t DEF ReadGoesOn
  <2> QED BY <2>1, <2>2 DEF CallEnds
<1>2. ASSUME call'[k] = call[k] \/ call'[k] = Idle PROVE Goes
  BY <1>1, <1>2
<1>3. ASSUME RejectAll PROVE call'[k] = call[k] \/ call'[k] = Idle
  BY <1>3 DEF RejectAll, Release
<1>4. ASSUME NEW c \in Conns, NetworkNext(c) PROVE call'[k] = call[k] \/ call'[k] = Idle
  BY <1>3, <1>4 DEF NetworkNext, ConnectionTaken, Release, ConnectionQueued, Connected, Data, End,
     Reset, RejectWaitersOf
<1>5. ASSUME NEW j \in Callers, ListenerNext(j) PROVE call'[k] = call[k] \/ call'[k] = Idle
  BY <1>t, <1>3, <1>5 DEF ListenerNext, Accept, Poll, Wait, WaitEnds, CloseListener
<1>6. ASSUME NEW j \in Callers, CallEnds(j) PROVE Goes
  <2>1. CASE j = k
    BY <2>1, <1>1, <1>6
  <2>2. CASE j # k
    <3>1. call'[k] = call[k]
      BY <2>2, <1>t, <1>6 DEF CallEnds, WaitEnds, ReadAgain, ReadGoesOn, WriteEnds
    <3> QED BY <3>1, <1>2
  <2> QED BY <2>1, <2>2
<1>7. ASSUME NEW j \in Callers, NEW c \in Conns, ConnNext(j, c)
      PROVE  call'[k] = call[k] \/ call'[k] = Idle
  BY <1>t, <1>7 DEF ConnNext, Connect, Close, ReadEnd, ReadSome, ReadCut, ReadNothing, Write, connVars
<1>8. CASE UNCHANGED vars
  BY <1>8, <1>2 DEF vars
<1> QED BY <1>2, <1>4, <1>5, <1>6, <1>7, <1>8 DEF Next, CallEnds

\* A connection that is being made stays so or is made or refused; one that has
\* come that far stays so, and only an attempt is refused.
LEMMA LifeStep ==
  ASSUME IInv, Attempts, [Next]_vars, NEW c \in Conns
  PROVE  /\ life[c] = "connecting" => life'[c] \in {"connecting", "up", "refused"}
         /\ life[c] \in {"up", "ended", "reset"} => life'[c] \in {"up", "ended", "reset"}
         /\ life[c] = "refused" => life'[c] = "refused"
         /\ life[c] = "new" => \/ life'[c] \in {"new", "up"}
                               \/ life'[c] = "connecting" /\ c \in Outgoing
<1>t. life \in [Conns -> {"new", "connecting", "refused", "up", "ended", "reset"}]
  BY DEF IInv, ConnTypes
<1>1. ASSUME NEW d \in Conns, NetworkNext(d)
      PROVE  \/ life'[c] = life[c]
             \/ life[c] = "new" /\ life'[c] = "up"
             \/ life[c] = "connecting" /\ life'[c] \in {"up", "refused"}
             \/ life[c] = "up" /\ life'[c] \in {"ended", "reset"}
  BY <1>t, <1>1 DEF NetworkNext, ConnectionTaken, ConnectionQueued, Connected, Data, End, Reset, IsNew
<1>2. ASSUME NEW j \in Callers, NEW d \in Conns, ConnNext(j, d)
      PROVE  \/ life'[c] = life[c]
             \/ life[c] = "new" /\ life'[c] = "connecting" /\ c \in Outgoing
  <2>1. CASE Connect(j, d)
    BY <1>t, <2>1 DEF Connect, IsNew
  <2>2. CASE ~Connect(j, d)
    BY <1>2, <2>2 DEF ConnNext, Close, ReadEnd, ReadSome, ReadCut, ReadNothing, Write, connVars
  <2> QED BY <2>1, <2>2
<1>3. ASSUME NEW j \in Callers, ListenerNext(j) \/ ReadAgain(j) \/ ReadGoesOn(j) \/ WriteEnds(j)
      PROVE  life' = life
  BY <1>3 DEF ListenerNext, Accept, Poll, Wait, WaitEnds, CloseListener, ReadAgain, ReadGoesOn,
     WriteEnds, connVars
<1>4. UNCHANGED vars => life' = life
  BY DEF vars
<1> DEFINE LifeGoes ==
             \/ life'[c] = life[c]
             \/ life[c] = "new" /\ life'[c] = "up"
             \/ life[c] = "new" /\ life'[c] = "connecting" /\ c \in Outgoing
             \/ life[c] = "connecting" /\ life'[c] \in {"up", "refused"}
             \/ life[c] = "up" /\ life'[c] \in {"ended", "reset"}
<1>5. LifeGoes
  BY <1>1, <1>2, <1>3, <1>4 DEF Next
<1> QED BY <1>t, <1>5

\* A read or write begins on a connection whose descriptor is open.
LEMMA Begins ==
  ASSUME IInv, [Next]_vars, NEW k \in Callers,
         call'[k].op \in {"read", "write"}, call'[k] # call[k]
  PROVE  \E c \in Conns : call'[k].of = c /\ (ReadNothing(k, c) \/ Write(k, c))
<1> USE States
<1>t. call \in [Callers -> CallStates]
  BY DEF IInv, CallTypes
<1>1. call[k] = Idle
  BY CallStep
<1>2. PICK c \in Conns : ReadNothing(k, c) \/ Write(k, c)
  <2>1. ASSUME NEW c \in Conns, NetworkNext(c) PROVE call'[k] \in {call[k], Idle}
    BY <2>1 DEF NetworkNext, ConnectionTaken, Release, ConnectionQueued, Connected, Data, End,
       Reset, RejectWaitersOf, RejectAll
  <2>2. ASSUME NEW j \in Callers, ListenerNext(j) PROVE call'[k].op \notin {"read", "write"}
    BY <1>t, <1>1, <2>2 DEF ListenerNext, Accept, Poll, Wait, WaitEnds, CloseListener, RejectAll,
       Release
  <2>3. ASSUME NEW j \in Callers, CallEnds(j) PROVE call'[k].op \notin {"read", "write"}
    BY <1>t, <1>1, <2>3 DEF CallEnds, WaitEnds, ReadAgain, ReadGoesOn, WriteEnds
  <2>4. ASSUME NEW j \in Callers, NEW c \in Conns, ConnNext(j, c)
        PROVE  ReadNothing(k, c) \/ Write(k, c)
    BY <1>t, <2>4 DEF ConnNext, Connect, Close, ReadEnd, ReadSome, ReadCut, ReadNothing,
       Write, connVars
  <2>5. ~UNCHANGED vars
    BY DEF vars
  <2> QED BY <1>1, <2>1, <2>2, <2>3, <2>4, <2>5 DEF Next, CallEnds
<1>3. call'[k].of = c
  BY <1>t, <1>2 DEF ReadNothing, Write
<1> QED BY <1>2, <1>3

\* Attempts is kept: a descriptor is that of a connection that has been begun.
LEMMA AttemptsStep == IInv /\ Attempts /\ [Next]_vars => Attempts'
<1> SUFFICES ASSUME IInv, Attempts, [Next]_vars PROVE Attempts'
  OBVIOUS
<1> USE States
<1>t. call \in [Callers -> CallStates]
  BY DEF IInv, CallTypes
<1>1. ASSUME NEW c \in Conns, life'[c] = "connecting" PROVE c \in Outgoing
  <2>1. life[c] \in {"new", "connecting", "refused", "up", "ended", "reset"}
    BY DEF IInv, ConnTypes
  <2> QED BY <1>1, <2>1, LifeStep DEF Attempts
<1>2. ASSUME NEW k \in Callers, call'[k].op \in {"read", "write"}
      PROVE  life'[call'[k].of] # "new"
  <2>1. CASE call'[k] = call[k]
    <3>1. call[k].of \in Conns /\ life[call[k].of] # "new"
      BY <1>t, <1>2, <2>1 DEF Attempts
    <3>2. life[call[k].of] \in {"new", "connecting", "refused", "up", "ended", "reset"}
      BY <3>1 DEF IInv, ConnTypes
    <3> QED BY <2>1, <3>1, <3>2, LifeStep
  <2>2. CASE call'[k] # call[k]
    <3>1. PICK c \in Conns : call'[k].of = c /\ (ReadNothing(k, c) \/ Write(k, c))
      BY <1>2, <2>2, Begins
    <3>2. where[c] = "open" /\ life' = life
      BY <3>1 DEF ReadNothing, Write, connVars
    <3>3. life[c] # "new"
      BY <3>2 DEF IInv, Phases
    <3> QED BY <3>1, <3>2, <3>3
  <2> QED BY <2>1, <2>2
<1> QED BY <1>1, <1>2 DEF Attempts

\* The invariant for the calls.
LEMMA AttemptsInvariant == Spec => [](IInv /\ Attempts)
<1>1. Init => Attempts
  BY States DEF Init, Attempts
<1> QED BY <1>1, AttemptsStep, InitEstablishes, NextPreserves, PTL DEF Spec

\* A caller at work on a connection: op is "read" or "write".
On(k, op, c) == call[k] = [op |-> op, of |-> c]

\* It, once the connection is there or was refused.
Settled(k, op, c) == On(k, op, c) /\ life[c] \in {"refused", "up", "ended", "reset"}

\* A reader that will be told to try again, and a caller at the listening socket.
Again(k) == call[k].op = "again"
Waiting(k) == call[k].op \in {"accept", "poll"}

\* A call has returned, or is a write that may never do.
Returned(k) == call[k] = Idle \/ Stuck(k)

\* What a caller may be doing.
LEMMA Underway ==
  ASSUME IInv, NEW k \in Callers, call[k] # Idle
  PROVE  \/ Again(k) \/ Waiting(k)
         \/ \E c \in Conns : On(k, "read", c)
         \/ \E c \in Conns : On(k, "write", c)
BY States DEF IInv, CallTypes, CallStates, Again, Waiting, On, Idle

\* An attempt that a caller waits for is answered.
LEMMA AttemptEnds ==
  ASSUME NEW k \in Callers, NEW op \in {"read", "write"}, NEW c \in Conns
  PROVE  FairSpec /\ []Ready => (On(k, op, c) ~> Settled(k, op, c) \/ Again(k) \/ Returned(k))
<1> DEFINE Trying == On(k, op, c) /\ life[c] = "connecting" /\ c \in Outgoing
           Inv == IInv /\ Attempts
<1> USE States
<1>1. Inv /\ On(k, op, c) => Settled(k, op, c) \/ Trying
  BY DEF Attempts, On, Settled, IInv, ConnTypes
<1>2. Inv /\ [Next]_vars /\ Trying
      => Trying' \/ Settled(k, op, c)' \/ Again(k)' \/ Returned(k)'
  <2> SUFFICES ASSUME Inv, [Next]_vars, Trying
               PROVE  Trying' \/ Settled(k, op, c)' \/ Again(k)' \/ Returned(k)'
    OBVIOUS
  <2>1. life'[c] \in {"connecting", "up", "refused"}
    BY LifeStep
  <2>2. On(k, op, c)' \/ Again(k)' \/ call'[k] = Idle
    BY CallStep DEF On, Idle, Again
  <2> QED BY <2>1, <2>2 DEF Returned, Settled
<1>3. Inv /\ <<Connected(c)>>_vars /\ Trying => Settled(k, op, c)'
  BY DEF Connected, On, Settled, IInv, ConnTypes
<1>4. Inv /\ Ready /\ Trying => ENABLED <<Connected(c)>>_vars
  BY DEF Ready
<1>5. Spec => []Inv
  BY AttemptsInvariant
<1>6. c \in Outgoing /\ FairToAttempts => FairToAttempt(c)
  BY DEF FairToAttempts
<1>7. CASE c \in Outgoing
  <2>1. FairToAttempts => FairToAttempt(c)
    BY <1>6, <1>7
  <2> HIDE DEF Trying, Inv
  <2> QED BY <1>1, <1>2, <1>3, <1>4, <1>5, <2>1, PTL DEF FairSpec, Spec, Fairness, FairToAttempt
<1>8. CASE c \notin Outgoing
  <2>1. ~Trying
    BY <1>8
  <2> HIDE DEF Trying, Inv
  <2> QED BY <1>1, <1>5, <2>1, PTL DEF FairSpec
<1> QED BY <1>7, <1>8

\* A call that CallEnds can end does end.
LEMMA OthersEnd ==
  ASSUME NEW k \in Callers
  PROVE  FairSpec /\ []Ready => (Again(k) \/ Waiting(k) ~> Returned(k))
<1> DEFINE Ends == Again(k) \/ Waiting(k)
<1> USE States
<1>1. IInv /\ [Next]_vars /\ Ends => Ends' \/ Returned(k)'
  BY CallStep DEF Again, Waiting, Returned, Idle
<1>2. IInv /\ <<MustEnd(k)>>_vars /\ Ends => Returned(k)'
  <2> SUFFICES ASSUME IInv, CallEnds(k), Ends PROVE call'[k] = Idle
    BY DEF Returned, MustEnd
  <2> QED BY DEF CallEnds, WaitEnds, ReadAgain, ReadGoesOn, WriteEnds, Again, Waiting, IInv, CallTypes
<1>3. IInv /\ Ready /\ Ends => ENABLED <<MustEnd(k)>>_vars
  <2> SUFFICES ASSUME IInv, Ready, Ends PROVE ENABLED <<MustEnd(k)>>_vars
    OBVIOUS
  <2>1. CASE Again(k)
    BY <2>1 DEF Ready, Again
  <2>2. CASE Waiting(k)
    <3>1. \E i \in 1 .. Len(waiting) : waiting[i] = k
      BY <2>2 DEF IInv, PromisesAreAwaited, Waiting
    <3> QED BY <2>2, <3>1 DEF Ready, Waiting
  <2> QED BY <2>1, <2>2
<1>4. FairToCallers => FairToCaller(k)
  BY DEF FairToCallers
<1> HIDE DEF Ends
<1>5. FairSpec /\ []Ready => (Ends ~> Returned(k))
  BY <1>1, <1>2, <1>3, <1>4, Invariant, PTL DEF FairSpec, Spec, Fairness, FairToCaller
<1> QED BY <1>5 DEF Ends

\* A call on a connection that is there, or was refused, returns or is a read
\* that will be told to try again.
LEMMA SettledEnds ==
  ASSUME NEW k \in Callers, NEW op \in {"read", "write"}, NEW c \in Conns
  PROVE  FairSpec /\ []Ready => (Settled(k, op, c) ~> Again(k) \/ Returned(k))
<1> DEFINE Inv == IInv /\ Attempts
<1> USE States
<1>1. Inv /\ [Next]_vars /\ Settled(k, op, c) => Settled(k, op, c)' \/ Again(k)' \/ Returned(k)'
  <2> SUFFICES ASSUME Inv, [Next]_vars, Settled(k, op, c)
               PROVE  Settled(k, op, c)' \/ Again(k)' \/ Returned(k)'
    OBVIOUS
  <2>1. life'[c] \in {"refused", "up", "ended", "reset"}
    BY LifeStep DEF Settled
  <2>2. On(k, op, c)' \/ Again(k)' \/ call'[k] = Idle
    BY CallStep DEF Settled, On, Idle, Again
  <2> QED BY <2>1, <2>2 DEF Returned, Settled
<1>2. Inv /\ [Next]_vars /\ <<MustEnd(k)>>_vars /\ Settled(k, op, c) => Again(k)' \/ Returned(k)'
  BY CallStep DEF MustEnd, Settled, On, Again, Returned, Idle
<1>3. Inv /\ Ready /\ Settled(k, op, c) /\ ~Returned(k) => ENABLED <<MustEnd(k)>>_vars
  BY DEF Ready, Settled, On, Returned, Stuck, CalledBack
<1>4. Spec => []Inv
  BY AttemptsInvariant
<1>5. FairToCallers => FairToCaller(k)
  BY DEF FairToCallers
<1> HIDE DEF Inv
<1> QED BY <1>1, <1>2, <1>3, <1>4, <1>5, PTL DEF FairSpec, Spec, Fairness, FairToCaller

\* Timers fire and Node answers attempts to connect: accept, poll and read always
\* return, and a write does where the peer reads or the connection is reset.  The
\* callback of any other write is not assumed to come, nor said to.
THEOREM CallsAllReturn == FairSpec /\ []Ready => CallsReturn
<1>1. ASSUME NEW k \in Callers PROVE FairSpec /\ []Ready => (call[k] # Idle ~> Returned(k))
  <2> DEFINE Ops == {"read", "write"}
             Return == \A op \in Ops, c \in Conns : On(k, op, c) => <>Returned(k)
  <2>1. ASSUME NEW op \in Ops, NEW c \in Conns
        PROVE  FairSpec /\ []Ready => [](On(k, op, c) => <>Returned(k))
    BY AttemptEnds, SettledEnds, OthersEnd, PTL
  <2>2. FairSpec /\ []Ready => \A op \in Ops, c \in Conns : [](On(k, op, c) => <>Returned(k))
    BY <2>1
  <2>3. (\A op \in Ops, c \in Conns : [](On(k, op, c) => <>Returned(k))) => []Return
    OBVIOUS
  <2>4. IInv /\ Return /\ call[k] # Idle => Again(k) \/ Waiting(k) \/ <>Returned(k)
    BY Underway
  <2> HIDE DEF Return
  <2>5. FairSpec /\ []Ready => []Return
    BY <2>2, <2>3
  <2> QED BY <2>4, <2>5, Invariant, OthersEnd, PTL DEF FairSpec
<1> QED BY <1>1 DEF CallsReturn, Returned

-----------------------------------------------------------------------------
(* Refinement: to the guest, each connection is a stream of its own.          *)

\* A reader that waits for its connection has begun before another thread
\* closed it, and nobody takes an outgoing connection away.
Reading ==
  \A k \in Callers :
    call[k].op = "read" => call[k].of \in Outgoing /\ where[call[k].of] \in {"open", "closed"}

\* What the guest has opened stays open until it closes it.
LEMMA WhereStep ==
  ASSUME IInv, [Next]_vars, NEW c \in Outgoing, where[c] \in {"open", "closed"}
  PROVE  where'[c] \in {"open", "closed"}
<1>t. /\ where \in [Conns -> {"nowhere", "queued", "open", "closed", "cut"}]
      /\ c \in Conns /\ c \notin Incoming
  BY SocketsAssumption DEF SocketsAssumption, IInv, ConnTypes, Conns
<1>1. ASSUME NEW d \in Conns, NetworkNext(d) PROVE where'[c] = where[c]
  <2>1. CASE ConnectionTaken(d) \/ ConnectionQueued(d)
    <3>1. d # c
      BY <1>t, <2>1 DEF ConnectionTaken, ConnectionQueued
    <3> QED BY <1>t, <2>1, <3>1 DEF ConnectionTaken, ConnectionQueued
  <2>2. CASE End(d)
    BY <1>t, <2>2 DEF End
  <2>3. CASE Connected(d) \/ Data(d) \/ Reset(d)
    BY <2>3 DEF Connected, Data, Reset
  <2> QED BY <1>1, <2>1, <2>2, <2>3 DEF NetworkNext
<1>2. ASSUME NEW j \in Callers, ListenerNext(j) PROVE where'[c] \in {"open", "closed"}
  BY <1>t, <1>2 DEF ListenerNext, Accept, Poll, Wait, WaitEnds, CloseListener, connVars
<1>3. ASSUME NEW j \in Callers, ReadAgain(j) \/ ReadGoesOn(j) \/ WriteEnds(j)
      PROVE  where' = where
  BY <1>3 DEF ReadAgain, ReadGoesOn, WriteEnds, connVars
<1>4. ASSUME NEW j \in Callers, NEW d \in Conns, ConnNext(j, d)
      PROVE  where'[c] \in {"open", "closed"}
  BY <1>t, <1>4 DEF ConnNext, Connect, Close, ReadEnd, ReadSome, ReadCut, ReadNothing, Write, connVars
<1>5. UNCHANGED vars => where' = where
  BY DEF vars
<1> QED BY <1>1, <1>2, <1>3, <1>4, <1>5 DEF Next

\* Reading is kept.
LEMMA ReadingStep == IInv /\ Attempts /\ Reading /\ [Next]_vars => Reading'
<1> SUFFICES ASSUME IInv, Attempts, Reading, [Next]_vars,
                    NEW k \in Callers, call'[k].op = "read"
             PROVE  call'[k].of \in Outgoing /\ where'[call'[k].of] \in {"open", "closed"}
  BY DEF Reading
<1>1. CASE call'[k] = call[k]
  BY <1>1, WhereStep DEF Reading
<1>2. CASE call'[k] # call[k]
  <2>1. PICK c \in Conns : call'[k].of = c /\ (ReadNothing(k, c) \/ Write(k, c))
    BY <1>2, Begins
  <2>2. ReadNothing(k, c)
    <3>1. call \in [Callers -> CallStates]
      BY DEF IInv, CallTypes
    <3> QED BY <2>1, <3>1, States DEF Write
  <2>3. life[c] # "new" /\ life[c] # "up"
    <3>1. call \in [Callers -> CallStates]
      BY DEF IInv, CallTypes
    <3> QED BY <2>2, <3>1, States DEF ReadNothing, IInv, Phases
  <2>4. life[c] = "connecting"
    BY <2>2, <2>3 DEF ReadNothing, Closed, IInv, ConnTypes
  <2> QED BY <2>1, <2>2, <2>4 DEF Attempts, ReadNothing, connVars
<1> QED BY <1>1, <1>2

\* A connection that has begun is somewhere.
Placed == \A c \in Conns : where[c] = "nowhere" => life[c] = "new"

\* Placed is kept.
LEMMA PlacedStep == IInv /\ Placed /\ [Next]_vars => Placed'
<1> SUFFICES ASSUME IInv, Placed, [Next]_vars, NEW c \in Conns, where'[c] = "nowhere"
             PROVE  life'[c] = "new"
  BY DEF Placed
<1>t. ConnTypes
  BY DEF IInv
<1>1. ASSUME NEW d \in Conns, NetworkNext(d) PROVE life'[c] = "new"
  <2>1. CASE ConnectionTaken(d) \/ ConnectionQueued(d)
    BY <1>t, <2>1 DEF ConnectionTaken, ConnectionQueued, ConnTypes, Placed
  <2>2. CASE Connected(d) \/ Data(d) \/ End(d) \/ Reset(d)
    BY <1>t, <2>2 DEF Connected, Data, End, Reset, ConnTypes, Placed
  <2> QED BY <1>1, <2>1, <2>2 DEF NetworkNext
<1>2. ASSUME NEW j \in Callers, ListenerNext(j) PROVE life'[c] = "new"
  BY <1>t, <1>2 DEF ListenerNext, Accept, Poll, Wait, WaitEnds, CloseListener, connVars, ConnTypes,
     Placed
<1>3. ASSUME NEW j \in Callers, ReadAgain(j) \/ ReadGoesOn(j) \/ WriteEnds(j)
      PROVE  life'[c] = "new"
  BY <1>3 DEF ReadAgain, ReadGoesOn, WriteEnds, connVars, Placed
<1>4. ASSUME NEW j \in Callers, NEW d \in Conns, ConnNext(j, d) PROVE life'[c] = "new"
  <2>1. CASE Connect(j, d) \/ Close(j, d)
    BY <1>t, <2>1 DEF Connect, Close, ConnTypes, Placed
  <2>2. CASE ~(Connect(j, d) \/ Close(j, d))
    BY <1>4, <2>2 DEF ConnNext, ReadEnd, ReadSome, ReadCut, ReadNothing, Write, connVars, Placed
  <2> QED BY <2>1, <2>2
<1>5. CASE UNCHANGED vars
  BY <1>5 DEF vars, Placed
<1> QED BY <1>1, <1>2, <1>3, <1>4, <1>5 DEF Next

\* The invariant under the refinement mapping.
RefInv == IInv /\ Reading /\ Placed

LEMMA ReadingInvariant == Spec => []RefInv
<1>1. Init => Reading /\ Placed
  BY States DEF Init, Reading, Placed
<1> QED BY <1>1, ReadingStep, PlacedStep, AttemptsInvariant, PTL DEF Spec, RefInv

\* The peer of a connection has sent all it will.
Over == [c \in Conns |-> Closed(c)]

\* Nothing happens to any connection.
Quiet == UNCHANGED <<life, where, arrived, taken, told>>

LEMMA QuietStutters == Quiet => UNCHANGED Connection!vars
BY DEF Quiet, Connection!vars, Closed

\* What happens in the network,
LEMMA NetworkRefines ==
  ASSUME RefInv, NEW c \in Conns, NetworkNext(c)
  PROVE  Connection!Next \/ UNCHANGED Connection!vars
<1> USE DEF Connection!Next
<1>t. /\ life \in [Conns -> {"new", "connecting", "refused", "up", "ended", "reset"}]
      /\ where \in [Conns -> {"nowhere", "queued", "open", "closed", "cut"}]
      /\ arrived \in [Conns -> Nat]
  BY DEF RefInv, IInv, ConnTypes
<1>1. life[c] = "new" <=> where[c] = "nowhere"
  BY DEF RefInv, IInv, Phases, Placed
<1>2. CASE ConnectionTaken(c)
  <2>1. Over' = Over
    BY <1>t, <1>2 DEF Over, Closed, ConnectionTaken, IsNew
  <2> QED BY <1>1, <1>2, <2>1 DEF ConnectionTaken, Connection!Give, IsNew, Over
<1>3. CASE ConnectionQueued(c)
  <2>1. Over' = Over
    BY <1>t, <1>3 DEF Over, Closed, ConnectionQueued, IsNew
  <2> QED BY <1>1, <1>3, <2>1 DEF ConnectionQueued, Connection!Arrive, IsNew, Over
<1>4. ASSUME life[c] \in {"connecting", "up"}, NEW to \in {"refused", "ended", "reset"},
             life' = [life EXCEPT ![c] = to], UNCHANGED <<arrived, taken, told>>,
             where' = where \/ (where[c] = "open" /\ where' = [where EXCEPT ![c] = "cut"])
      PROVE  Connection!End(c)
  <2>1. Over' = [Over EXCEPT ![c] = TRUE] /\ ~Over[c]
    BY <1>t, <1>4 DEF Over, Closed
  <2> QED BY <1>1, <1>4, <2>1 DEF Connection!End, Over
<1>5. CASE Connected(c)
  <2>1. PICK to \in {"up", "refused"} : life' = [life EXCEPT ![c] = to]
    BY <1>5 DEF Connected
  <2>2. CASE to = "up"
    <3>1. Over' = Over
      BY <1>t, <1>5, <2>1, <2>2 DEF Over, Closed, Connected
    <3> QED BY <1>5, <3>1 DEF Connected, Connection!vars, Over
  <2>3. CASE to = "refused"
    BY <1>4, <1>5, <2>1, <2>3 DEF Connected
  <2> QED BY <2>1, <2>2, <2>3
<1>6. CASE Data(c)
  <2>1. PICK n \in arrived[c] + 1 .. MaxBytes : arrived' = [arrived EXCEPT ![c] = n]
    BY <1>6 DEF Data
  <2>2. arrived'[c] = n /\ n > arrived[c] /\ arrived' = [arrived EXCEPT ![c] = arrived'[c]]
    BY <1>t, <2>1, Bounds
  <2>3. Over' = Over /\ ~Over[c]
    BY <1>6 DEF Data, Over, Closed
  <2> QED BY <1>1, <1>6, <2>2, <2>3 DEF Data, Connection!Send, Over
<1>7. CASE End(c)
  <2>1. where' = where \/ (where[c] = "open" /\ where' = [where EXCEPT ![c] = "cut"])
    BY <1>t, <1>7 DEF End
  <2> QED BY <1>4, <1>7, <2>1 DEF End
<1>8. CASE Reset(c)
  BY <1>4, <1>8 DEF Reset
<1> QED BY <1>2, <1>3, <1>5, <1>6, <1>7, <1>8 DEF NetworkNext

\* what bytes a read takes,
LEMMA TakeRefines ==
  ASSUME RefInv, NEW c \in Conns, NEW n \in 1 .. MaxBytes, Take(c, n),
         where[c] \in {"open", "closed"}, UNCHANGED <<life, where, arrived, told>>
  PROVE  Connection!Deliver(c) \/ UNCHANGED Connection!vars
<1>1. /\ taken \in [Conns -> Nat] /\ arrived \in [Conns -> Nat] /\ n \in Nat \ {0}
      /\ taken[c] <= arrived[c]
  BY Bounds DEF RefInv, IInv, ConnTypes
<1> DEFINE m == IF n < arrived[c] - taken[c] THEN n ELSE arrived[c] - taken[c]
<1>2. m \in 0 .. arrived[c] - taken[c] /\ taken' = [taken EXCEPT ![c] = taken[c] + m]
  BY <1>1 DEF Take, Buffered
<1> HIDE DEF m
<1>3. Over' = Over
  BY DEF Over, Closed
<1>4. CASE m = 0
  <2>1. taken' = taken
    BY <1>1, <1>2, <1>4
  <2> QED BY <2>1, QuietStutters DEF Quiet
<1>5. CASE m # 0
  <2>1. /\ taken'[c] \in taken[c] + 1 .. arrived[c]
        /\ taken' = [taken EXCEPT ![c] = taken'[c]]
    BY <1>1, <1>2, <1>5
  <2> QED BY <1>3, <2>1 DEF Connection!Deliver, Over
<1> QED BY <1>4, <1>5

\* and what a guest does with a connection.
LEMMA ConnRefines ==
  ASSUME RefInv, NEW k \in Callers, NEW c \in Conns, ConnNext(k, c)
  PROVE  Connection!Next \/ UNCHANGED Connection!vars
<1> USE DEF Connection!Next
<1>t. life \in [Conns -> {"new", "connecting", "refused", "up", "ended", "reset"}]
  BY DEF RefInv, IInv, ConnTypes
<1>1. CASE Connect(k, c)
  <2>1. Over' = Over
    BY <1>t, <1>1 DEF Over, Closed, Connect, IsNew
  <2>2. where[c] = "nowhere"
    BY <1>1 DEF Connect, IsNew, RefInv, IInv, Phases
  <2> QED BY <1>1, <2>1, <2>2 DEF Connect, Connection!Give, Over
<1>2. CASE Close(k, c)
  <2>1. Over' = Over
    BY <1>2 DEF Over, Closed, Close
  <2> QED BY <1>2, <2>1 DEF Close, Connection!Close, Over
<1>3. CASE ReadEnd(k, c)
  <2>1. Over' = Over /\ Over[c]
    BY <1>3 DEF Over, Closed, ReadEnd, connVars
  <2>2. taken[c] = arrived[c]
    BY <1>3 DEF ReadEnd, Buffered, RefInv, IInv, ConnTypes
  <2> QED BY <1>3, <2>1, <2>2 DEF ReadEnd, Connection!Tell, Over, connVars
<1>4. CASE ReadCut(k, c)
  <2>1. Over' = Over /\ Over[c]
    BY <1>4 DEF Over, Closed, ReadCut, connVars, RefInv, IInv, Phases
  <2> QED BY <1>4, <2>1 DEF ReadCut, Connection!Tell, Over, connVars
<1>5. CASE ReadSome(k, c)
  BY <1>5, TakeRefines DEF ReadSome
<1>6. CASE ReadNothing(k, c) \/ Write(k, c)
  BY <1>6, QuietStutters DEF ReadNothing, Write, connVars, Quiet
<1> QED BY <1>1, <1>2, <1>3, <1>4, <1>5, <1>6 DEF ConnNext

\* Whatever threads accept, poll and time out, and whatever becomes of the
\* others, each connection is handed to the guest once, brings it what the peer
\* sent and nothing else, and its end is told once all of that was read.
THEOREM RefinesConnections == Spec => ImplementsConnections
<1>1. Init => Connection!Init
  <2>1. Init => Over = [c \in Conns |-> FALSE]
    <3>1. Init => \A c \in Conns : Closed(c) = FALSE
      BY DEF Init, Closed
    <3> QED BY <3>1, Zenon DEF Over
  <2> QED BY <2>1 DEF Init, Connection!Init, Over
<1>2. RefInv /\ [Next]_vars => [Connection!Next]_(Connection!vars)
  <2> SUFFICES ASSUME RefInv, [Next]_vars PROVE Connection!Next \/ UNCHANGED Connection!vars
    OBVIOUS
  <2>1. ASSUME NEW c \in Conns, NetworkNext(c)
        PROVE  Connection!Next \/ UNCHANGED Connection!vars
    BY <2>1, NetworkRefines
  <2>2. ASSUME NEW k \in Callers, ListenerNext(k)
        PROVE  Connection!Next \/ UNCHANGED Connection!vars
    <3>1. CASE Accept(k)
      <4>1. Head(queue) \in Conns /\ where[Head(queue)] = "queued"
        <5>1. ConnTypes /\ QueueKeepsConnections /\ queue # <<>>
          BY <3>1 DEF Accept, RefInv, IInv
        <5> QED BY <5>1, HeadOfQueue, Bounds DEF QueueKeepsConnections
      <4>2. Over' = Over
        BY <3>1 DEF Over, Closed, Accept
      <4> QED BY <3>1, <4>1, <4>2 DEF Accept, Connection!Next, Connection!Give, Over
    <3>2. CASE Poll(k) \/ Wait(k) \/ WaitEnds(k) \/ CloseListener(k)
      BY <3>2, QuietStutters DEF Poll, Wait, WaitEnds, CloseListener, connVars, Quiet
    <3> QED BY <2>2, <3>1, <3>2 DEF ListenerNext
  <2>3. ASSUME NEW k \in Callers, ReadGoesOn(k)
        PROVE  Connection!Next \/ UNCHANGED Connection!vars
    <3> DEFINE c == call[k].of
    <3>1. c \in Conns /\ where[c] \in {"open", "closed"}
      BY <2>3, Bounds DEF ReadGoesOn, RefInv, Reading
    <3>2. UNCHANGED taken \/ \E n \in 1 .. MaxBytes : Take(c, n)
      BY <2>3 DEF ReadGoesOn
    <3>3. UNCHANGED <<life, where, arrived, told>>
      BY <2>3 DEF ReadGoesOn
    <3> HIDE DEF c
    <3>4. CASE UNCHANGED taken
      BY <3>3, <3>4, QuietStutters DEF Quiet
    <3>5. CASE \E n \in 1 .. MaxBytes : Take(c, n)
      BY <3>1, <3>3, <3>5, TakeRefines DEF Connection!Next
    <3> QED BY <3>2, <3>4, <3>5
  <2>4. ASSUME NEW k \in Callers, ReadAgain(k) \/ WriteEnds(k)
        PROVE  UNCHANGED Connection!vars
    BY <2>4, QuietStutters DEF ReadAgain, WriteEnds, connVars, Quiet
  <2>5. ASSUME NEW k \in Callers, NEW c \in Conns, ConnNext(k, c)
        PROVE  Connection!Next \/ UNCHANGED Connection!vars
    BY <2>5, ConnRefines
  <2>6. CASE UNCHANGED vars
    BY <2>6, QuietStutters DEF vars, Quiet
  <2> QED BY <2>1, <2>2, <2>3, <2>4, <2>5, <2>6 DEF Next
<1> QED
  BY <1>1, <1>2, ReadingInvariant, PTL DEF Spec, ImplementsConnections, Connection!Spec
=============================================================================
