--------------------------- MODULE AsyncifyProofs ---------------------------
(***************************************************************************)
(* Asyncify's properties, for every set of calls and every bound on the      *)
(* imports: the types; and, as long as promises settle in turn, that each    *)
(* call rewinds its own frames and gets its own answers.                     *)
(***************************************************************************)
EXTENDS Asyncify, SequenceTheorems, TLAPS

-----------------------------------------------------------------------------
(* The inductive invariant. *)

\* Imports are numbered as they are called, and each is awaited by one call.
Numbered ==
  /\ \A i \in 1 .. Len(buffer) : buffer[i] <= imports
  /\ \A c \in Calls : awaiting[c] <= imports
  /\ \A c, d \in Waiting : awaiting[c] = awaiting[d] => c = d

\* The buffer is a stack: newer frames are above older ones.
Stacked == \A i, j \in 1 .. Len(buffer) : i < j => buffer[i] < buffer[j]

\* A call that waits has its frames in the buffer, and above them there are
\* only frames of other calls that wait.
Kept ==
  \A c \in Waiting :
    /\ \E i \in 1 .. Len(buffer) : buffer[i] = awaiting[c]
    /\ \A i \in 1 .. Len(buffer) : buffer[i] > awaiting[c] => buffer[i] \in Awaited

OrderlyInv == orderly => state = "None" /\ Stacked /\ Kept

IInv == TypeOK /\ Numbered /\ OrderlyInv /\ AnswersAreOwn /\ FramesAccountedFor

-----------------------------------------------------------------------------
(* Lemmas about the buffer. *)

\* The bound is a number.
LEMMA Bound == MaxImports \in Nat
BY AsyncifyAssumption DEF AsyncifyAssumption

\* What pushing frames gives.
LEMMA Pushed ==
  ASSUME NEW s \in Seq(Imports), NEW x \in Imports
  PROVE  /\ PushFrames(s, x) \in Seq(Imports)
         /\ Len(PushFrames(s, x)) = Len(s) + 1
         /\ PushFrames(s, x)[Len(s) + 1] = x
         /\ \A i \in 1 .. Len(s) : PushFrames(s, x)[i] = s[i]
BY DEF PushFrames

\* A prefix of the buffer.
LEMMA Prefix ==
  ASSUME NEW s \in Seq(Imports), NEW n \in 0 .. Len(s)
  PROVE  /\ SubSeq(s, 1, n) \in Seq(Imports)
         /\ Len(SubSeq(s, 1, n)) = n
         /\ \A i \in 1 .. n : SubSeq(s, 1, n)[i] = s[i]
<1>1. \A i \in 1 .. n : s[i] \in Imports
  OBVIOUS
<1> QED BY <1>1, SubSeqProperties, Z3

\* What popping frames leaves.
LEMMA Popped ==
  ASSUME NEW s \in Seq(Imports), s # <<>>
  PROVE  /\ PopFrames(s) \in Seq(Imports)
         /\ Len(s) \in Nat \ {0} /\ Len(PopFrames(s)) = Len(s) - 1
         /\ \A i \in 1 .. Len(s) - 1 : PopFrames(s)[i] = s[i]
         /\ Last(s) = s[Len(s)] /\ Last(s) \in Imports
<1>1. Len(s) \in Nat \ {0}
  OBVIOUS
<1> DEFINE n == Len(s) - 1
<1>2. n \in 0 .. Len(s) /\ PopFrames(s) = SubSeq(s, 1, n)
  BY <1>1 DEF PopFrames, Front
<1> HIDE DEF n
<1>3. /\ PopFrames(s) \in Seq(Imports) /\ Len(PopFrames(s)) = n
      /\ \A i \in 1 .. n : PopFrames(s)[i] = s[i]
  BY <1>2, Prefix
<1>4. Last(s) = s[Len(s)] /\ Last(s) \in Imports
  BY <1>1 DEF Last
<1> QED BY <1>1, <1>3, <1>4 DEF n

\* The elements of the buffer.
LEMMA Elements ==
  ASSUME NEW s \in Seq(Imports)
  PROVE  DOMAIN s = 1 .. Len(s) /\ ToSet(s) = {s[i] : i \in 1 .. Len(s)}
BY DEF ToSet

\* A call waits exactly if it awaits an import.
LEMMA WaitingCalls ==
  ASSUME TypeOK
  PROVE  /\ Waiting \subseteq Calls
         /\ \A c \in Calls : c \in Waiting <=> awaiting[c] # 0
         /\ \A c \in Waiting : awaiting[c] \in Imports
BY Bound DEF TypeOK, Waiting, Imports

-----------------------------------------------------------------------------
(* The state in which the guest starts to run. *)

\* The guest runs on with well-typed frames and a well-typed field.
LEMMA RunTypes ==
  ASSUME TypeOK, NEW c \in Calls, NEW frames \in Seq(Imports),
         NEW v \in 0 .. MaxImports, GuestRuns(c, frames, v)
  PROVE  /\ buffer' \in Seq(Imports) /\ value' \in 0 .. MaxImports
         /\ status' \in [Calls -> {"idle", "suspended", "done", "failed"}]
         /\ awaiting' \in [Calls -> 0 .. MaxImports]
         /\ imports' \in 0 .. MaxImports
         /\ \A d \in Calls : status'[d] = "suspended" <=> awaiting'[d] # 0
<1>1. CASE imports < MaxImports /\ imports' = imports + 1
           /\ buffer' = PushFrames(frames, imports + 1)
           /\ value' = imports + 1
           /\ status' = [status EXCEPT ![c] = "suspended"]
           /\ awaiting' = [awaiting EXCEPT ![c] = imports + 1]
  <2>1. imports + 1 \in Imports
    BY <1>1, Bound DEF TypeOK, Imports
  <2>2. buffer' \in Seq(Imports)
    BY <1>1, <2>1, Pushed
  <2> QED BY <1>1, <2>1, <2>2, Bound DEF TypeOK, Imports
<1>2. CASE /\ \E end \in {"done", "failed"} : status' = [status EXCEPT ![c] = end]
           /\ buffer' = frames
           /\ value' = v
           /\ awaiting' = [awaiting EXCEPT ![c] = 0]
           /\ UNCHANGED imports
  BY <1>2, Bound DEF TypeOK
<1> QED BY <1>1, <1>2 DEF GuestRuns

\* What a failed call changes is well typed.
LEMMA FailTypes ==
  ASSUME TypeOK, NEW c \in Calls, CallFails(c)
  PROVE  /\ status' \in [Calls -> {"idle", "suspended", "done", "failed"}]
         /\ awaiting' \in [Calls -> 0 .. MaxImports]
         /\ imports' \in 0 .. MaxImports
         /\ \A d \in Calls : status'[d] = "suspended" <=> awaiting'[d] # 0
BY Bound DEF TypeOK, CallFails

(* TypeOK is an invariant: the wrappers keep their state and the calls' within *)
(* its types, whatever order promises settle in.                              *)
THEOREM TypeCorrect == Spec => []TypeOK
<1>1. Init => TypeOK
  BY Bound DEF Init, TypeOK, Imports
<1>2. ASSUME TypeOK, [Next]_vars
      PROVE  TypeOK'
  <2>1. CASE UNCHANGED vars
    BY <1>2, <2>1 DEF TypeOK, vars, moduleVars, callVars, historyVars
  <2>2. ASSUME NEW c \in Calls, StartExport(c)
        PROVE  TypeOK'
    <3>1. buffer \in Seq(Imports) /\ value \in 0 .. MaxImports
      BY <1>2 DEF TypeOK
    <3>2. GuestRuns(c, buffer, value)
      BY <2>2 DEF StartExport
    <3> QED BY <1>2, <2>2, <3>1, <3>2, RunTypes
            DEF TypeOK, StartExport, historyVars
  <2>3. ASSUME NEW c \in Calls, StartRefused(c)
        PROVE  TypeOK'
    BY <1>2, <2>3, FailTypes DEF TypeOK, StartRefused, moduleVars, historyVars
  <2>4. ASSUME NEW c \in Calls, Resume(c)
        PROVE  TypeOK'
    <3>1. PopFrames(buffer) \in Seq(Imports) /\ AwaitedValue(c) \in 0 .. MaxImports
      BY <1>2, <2>4, Popped DEF TypeOK, Resume, AwaitedValue
    <3>2. GuestRuns(c, PopFrames(buffer), AwaitedValue(c))
      BY <2>4 DEF Resume
    <3> QED BY <1>2, <2>4, <3>1, <3>2, RunTypes DEF TypeOK, Resume, StateInImport
  <2>5. ASSUME NEW c \in Calls, ResumeAstray(c)
        PROVE  TypeOK'
    <3>1. AwaitedValue(c) \in 0 .. MaxImports /\ buffer \in Seq(Imports)
      BY <1>2 DEF TypeOK, AwaitedValue
    <3>2. CASE /\ state' = "Rewinding"
               /\ \E n \in 0 .. Len(buffer) : buffer' = SubSeq(buffer, 1, n)
               /\ value' = AwaitedValue(c)
               /\ CallFails(c)
               /\ UNCHANGED answers
      <4>1. buffer' \in Seq(Imports)
        BY <3>1, <3>2, Prefix
      <4> QED BY <1>2, <2>5, <3>1, <3>2, <4>1, FailTypes DEF TypeOK, ResumeAstray
    <3>3. CASE /\ buffer # <<>>
               /\ answers' = [answers EXCEPT ![Last(buffer)] = AwaitedValue(c)]
               /\ GuestRuns(c, PopFrames(buffer), AwaitedValue(c))
               /\ state' = StateInImport
      <4>1. PopFrames(buffer) \in Seq(Imports)
        BY <3>1, <3>3, Popped
      <4> QED BY <1>2, <2>5, <3>1, <3>3, <4>1, RunTypes
              DEF TypeOK, ResumeAstray, StateInImport
    <3> QED BY <2>5, <3>2, <3>3 DEF ResumeAstray
  <2>6. ASSUME NEW c \in Calls, ResumeRefused(c)
        PROVE  TypeOK'
    BY <1>2, <2>6, FailTypes DEF TypeOK, ResumeRefused, AwaitedValue
  <2>7. ASSUME NEW c \in Calls, Reject(c)
        PROVE  TypeOK'
    BY <1>2, <2>7, WaitingCalls, FailTypes DEF TypeOK, Reject, moduleVars, Waiting
  <2> QED BY <1>2, <2>1, <2>2, <2>3, <2>4, <2>5, <2>6, <2>7 DEF Next
<1> QED BY <1>1, <1>2, PTL DEF Spec
-----------------------------------------------------------------------------
(* The stack discipline. *)

\* Where the guest may be let to run on: its own frames are off the buffer,
\* and the frames of every other call that waits are there, in order.
Ready(c, frames) ==
  /\ frames \in Seq(Imports)
  /\ \A i \in 1 .. Len(frames) : frames[i] <= imports
  /\ \A i, j \in 1 .. Len(frames) : i < j => frames[i] < frames[j]
  /\ \A i \in 1 .. Len(frames) :
       frames[i] \in {awaiting[d] : d \in Waiting \ {c}} \cup rejected
  /\ \A d \in Waiting \ {c} :
       /\ \E i \in 1 .. Len(frames) : frames[i] = awaiting[d]
       /\ \A i \in 1 .. Len(frames) :
            frames[i] > awaiting[d] => frames[i] \in {awaiting[e] : e \in Waiting \ {c}}

\* When the guest has run on, the buffer is a stack again and all calls that
\* wait have their frames in it.
LEMMA RunKeepsStack ==
  ASSUME TypeOK, TypeOK', Numbered, NEW c \in Calls, NEW frames, NEW v,
         Ready(c, frames), GuestRuns(c, frames, v), rejected \subseteq rejected'
  PROVE  Stacked' /\ Kept' /\ ToSet(buffer') \subseteq (Awaited \cup rejected)'
<1>1. Waiting \subseteq Calls /\ Waiting' \subseteq Calls
  BY DEF Waiting
<1>2. ASSUME NEW d \in Calls \ {c}
      PROVE  awaiting'[d] = awaiting[d] /\ (d \in Waiting' <=> d \in Waiting)
  BY <1>2 DEF GuestRuns, TypeOK, Waiting
<1>3. \A d \in Waiting \ {c} : awaiting[d] \in Awaited'
  BY <1>1, <1>2 DEF Awaited
<1>4. frames \in Seq(Imports) /\ imports \in Nat /\ Len(frames) \in Nat
  BY Bound DEF Ready, TypeOK
<1>5. CASE imports < MaxImports /\ imports' = imports + 1
           /\ buffer' = PushFrames(frames, imports + 1)
           /\ status' = [status EXCEPT ![c] = "suspended"]
           /\ awaiting' = [awaiting EXCEPT ![c] = imports + 1]
  <2>1. imports + 1 \in Imports
    BY <1>5, Bound DEF TypeOK, Imports
  <2>2. /\ Len(buffer') = Len(frames) + 1 /\ buffer'[Len(frames) + 1] = imports + 1
        /\ \A i \in 1 .. Len(frames) : buffer'[i] = frames[i]
    BY <1>4, <1>5, <2>1, Pushed
  <2>3. c \in Waiting' /\ awaiting'[c] = imports + 1 /\ imports + 1 \in Awaited'
    BY <1>5 DEF TypeOK, Waiting, Awaited
  <2>4. \A i \in 1 .. Len(frames) : frames[i] \in Imports /\ frames[i] <= imports
    BY <1>4 DEF Ready
  <2>5. Stacked'
    <3>1. \A i, j \in 1 .. Len(frames) : i < j => buffer'[i] < buffer'[j]
      BY <2>2 DEF Ready
    <3>2. \A i \in 1 .. Len(frames) : buffer'[i] < buffer'[Len(frames) + 1]
      BY <1>4, <2>2, <2>4, Bound DEF Imports
    <3> QED BY <1>4, <2>2, <3>1, <3>2 DEF Stacked
  <2>6. \A i \in 1 .. Len(buffer') : buffer'[i] \in (Awaited \cup rejected)'
    <3>1. \A i \in 1 .. Len(frames) : buffer'[i] \in (Awaited \cup rejected)'
      BY <1>3, <2>2 DEF Ready
    <3> QED BY <1>4, <2>2, <2>3, <3>1
  <2>7. ASSUME NEW d \in Waiting'
        PROVE  /\ \E i \in 1 .. Len(buffer') : buffer'[i] = awaiting'[d]
               /\ \A i \in 1 .. Len(buffer') : buffer'[i] > awaiting'[d] => buffer'[i] \in Awaited'
    <3>1. CASE d = c
      BY <1>4, <2>2, <2>3, <2>4, <3>1, Bound DEF Imports
    <3>2. CASE d # c
      <4>1. d \in Waiting \ {c} /\ awaiting'[d] = awaiting[d]
        BY <1>1, <1>2, <3>2
      <4>2. \E i \in 1 .. Len(frames) : frames[i] = awaiting[d]
        BY <4>1 DEF Ready
      <4>3. \E i \in 1 .. Len(buffer') : buffer'[i] = awaiting'[d]
        BY <1>4, <2>2, <4>1, <4>2
      <4>4. \A i \in 1 .. Len(frames) : frames[i] > awaiting[d] => frames[i] \in Awaited'
        BY <1>3, <4>1 DEF Ready
      <4> QED BY <1>4, <2>2, <2>3, <4>1, <4>3, <4>4
    <3> QED BY <3>1, <3>2
  <2>8. ToSet(buffer') \subseteq (Awaited \cup rejected)'
    <3>1. buffer' \in Seq(Imports)
      BY DEF TypeOK
    <3> QED BY <2>6, <3>1, Elements
  <2> QED BY <2>5, <2>7, <2>8 DEF Kept
<1>6. CASE /\ \E end \in {"done", "failed"} : status' = [status EXCEPT ![c] = end]
           /\ buffer' = frames
           /\ awaiting' = [awaiting EXCEPT ![c] = 0]
  <2>1. c \notin Waiting'
    BY <1>6 DEF TypeOK, Waiting
  <2>2. Stacked'
    BY <1>6 DEF Stacked, Ready
  <2>3. \A i \in 1 .. Len(buffer') : buffer'[i] \in (Awaited \cup rejected)'
    BY <1>3, <1>6 DEF Ready
  <2>4. ASSUME NEW d \in Waiting'
        PROVE  /\ \E i \in 1 .. Len(buffer') : buffer'[i] = awaiting'[d]
               /\ \A i \in 1 .. Len(buffer') : buffer'[i] > awaiting'[d] => buffer'[i] \in Awaited'
    <3>1. d \in Waiting \ {c} /\ awaiting'[d] = awaiting[d]
      BY <1>1, <1>2, <2>1
    <3>2. \E i \in 1 .. Len(frames) : frames[i] = awaiting[d]
      BY <3>1 DEF Ready
    <3>3. \A i \in 1 .. Len(frames) : frames[i] > awaiting[d] => frames[i] \in Awaited'
      BY <1>3, <3>1 DEF Ready
    <3> QED BY <1>6, <3>1, <3>2, <3>3
  <2>5. ToSet(buffer') \subseteq (Awaited \cup rejected)'
    <3>1. buffer' \in Seq(Imports)
      BY DEF TypeOK
    <3> QED BY <2>3, <3>1, Elements
  <2> QED BY <2>2, <2>4, <2>5 DEF Kept
<1> QED BY <1>5, <1>6 DEF GuestRuns

\* Imports stay numbered in the order they are called.
LEMMA RunKeepsNumbers ==
  ASSUME TypeOK, TypeOK', Numbered, NEW c \in Calls, NEW frames \in Seq(Imports), NEW v,
         \A i \in 1 .. Len(frames) : frames[i] <= imports, GuestRuns(c, frames, v)
  PROVE  Numbered'
<1>1. imports \in Nat /\ Len(frames) \in Nat
  BY Bound DEF TypeOK
<1>2. CASE imports < MaxImports /\ imports' = imports + 1
           /\ buffer' = PushFrames(frames, imports + 1)
           /\ status' = [status EXCEPT ![c] = "suspended"]
           /\ awaiting' = [awaiting EXCEPT ![c] = imports + 1]
  <2>1. imports + 1 \in Imports
    BY <1>2, Bound DEF TypeOK, Imports
  <2>2. /\ Len(buffer') = Len(frames) + 1 /\ buffer'[Len(frames) + 1] = imports + 1
        /\ \A i \in 1 .. Len(frames) : buffer'[i] = frames[i]
    BY <1>2, <2>1, Pushed
  <2>3. \A i \in 1 .. Len(frames) : frames[i] \in Nat
    BY Bound DEF Imports
  <2>4. \A i \in 1 .. Len(buffer') : buffer'[i] <= imports'
    BY <1>1, <1>2, <2>2, <2>3
  <2>5. \A d \in Calls : awaiting'[d] <= imports' /\ (d # c => awaiting'[d] < imports')
    BY <1>1, <1>2, Bound DEF TypeOK, Numbered
  <2>6. \A d \in Calls : d # c /\ d \in Waiting' => d \in Waiting /\ awaiting'[d] = awaiting[d]
    BY <1>2 DEF TypeOK, Waiting
  <2>7. awaiting'[c] = imports' /\ Waiting' \subseteq Calls
    BY <1>2 DEF TypeOK, Waiting
  <2> QED BY <1>1, <1>2, <2>4, <2>5, <2>6, <2>7 DEF Numbered, TypeOK
<1>3. CASE /\ \E end \in {"done", "failed"} : status' = [status EXCEPT ![c] = end]
           /\ buffer' = frames
           /\ awaiting' = [awaiting EXCEPT ![c] = 0]
           /\ UNCHANGED imports
  BY <1>1, <1>3 DEF TypeOK, Numbered, Waiting
<1> QED BY <1>2, <1>3 DEF GuestRuns

\* Popped frames are still numbered.
LEMMA PoppedNumbers ==
  ASSUME TypeOK, Numbered, buffer # <<>>
  PROVE  /\ PopFrames(buffer) \in Seq(Imports)
         /\ \A i \in 1 .. Len(PopFrames(buffer)) : PopFrames(buffer)[i] <= imports
<1>1. /\ Len(buffer) \in Nat \ {0} /\ Len(PopFrames(buffer)) = Len(buffer) - 1
      /\ PopFrames(buffer) \in Seq(Imports)
      /\ \A i \in 1 .. Len(buffer) - 1 : PopFrames(buffer)[i] = buffer[i]
  BY Popped DEF TypeOK
<1>2. \A i \in 1 .. Len(buffer) - 1 : buffer[i] <= imports
  BY <1>1 DEF Numbered
<1> QED BY <1>1, <1>2

\* With the frames of the newest call off the buffer, its guest may run on.
LEMMA ResumeReady ==
  ASSUME IInv, orderly, NEW c \in Waiting, buffer # <<>>, Last(buffer) = awaiting[c]
  PROVE  Ready(c, PopFrames(buffer))
<1> DEFINE top == Len(buffer)
<1>1. /\ top \in Nat \ {0} /\ Len(PopFrames(buffer)) = top - 1
      /\ PopFrames(buffer) \in Seq(Imports) /\ buffer \in Seq(Imports)
      /\ \A i \in 1 .. top - 1 : PopFrames(buffer)[i] = buffer[i]
      /\ buffer[top] = awaiting[c]
  BY Popped DEF IInv, TypeOK
<1>2. /\ \A i \in 1 .. top - 1 : buffer[i] < awaiting[c]
      /\ \A i, j \in 1 .. top - 1 : i < j => buffer[i] < buffer[j]
  BY <1>1 DEF IInv, OrderlyInv, Stacked
<1>3. \A i \in 1 .. top - 1 : buffer[i] \in Nat /\ buffer[i] <= imports /\ buffer[i] # awaiting[c]
  BY SMTT(20), <1>1, <1>2, Bound DEF IInv, Numbered, Imports
<1>4. \A i \in 1 .. top - 1 :
        buffer[i] \in Awaited => buffer[i] \in {awaiting[d] : d \in Waiting \ {c}}
  BY <1>3 DEF Awaited
<1>5. \A i \in 1 .. top : buffer[i] \in Awaited \cup rejected
  BY <1>1, Elements DEF IInv, FramesAccountedFor
<1>6. ASSUME NEW d \in Waiting \ {c}
      PROVE  /\ \E i \in 1 .. top - 1 : buffer[i] = awaiting[d]
             /\ \A i \in 1 .. top - 1 :
                  buffer[i] > awaiting[d] => buffer[i] \in {awaiting[e] : e \in Waiting \ {c}}
  <2>1. awaiting[d] # awaiting[c]
    BY <1>6 DEF IInv, Numbered
  <2>2. PICK i \in 1 .. top : buffer[i] = awaiting[d]
    BY <1>6 DEF IInv, OrderlyInv, Kept
  <2>3. i \in 1 .. top - 1
    BY <1>1, <2>1, <2>2
  <2>4. \A k \in 1 .. top - 1 : buffer[k] > awaiting[d] => buffer[k] \in Awaited
    BY <1>1, <1>6 DEF IInv, OrderlyInv, Kept
  <2> QED BY <1>4, <2>2, <2>3, <2>4
<1>7. \A i \in 1 .. top - 1 : buffer[i] \in {awaiting[d] : d \in Waiting \ {c}} \cup rejected
  BY <1>1, <1>4, <1>5
<1> QED BY <1>1, <1>2, <1>3, <1>6, <1>7 DEF Ready

\* A call that starts finds the frames of all that wait in order.
LEMMA StartReady ==
  ASSUME IInv, orderly, NEW c \in Calls, c \notin Waiting
  PROVE  Ready(c, buffer)
<1>1. buffer \in Seq(Imports) /\ Waiting \ {c} = Waiting
  BY DEF IInv, TypeOK
<1>2. \A i \in 1 .. Len(buffer) : buffer[i] \in Awaited \cup rejected
  BY <1>1, Elements DEF IInv, FramesAccountedFor
<1>3. \A i \in 1 .. Len(buffer) : buffer[i] <= imports
  BY DEF IInv, Numbered
<1> QED BY <1>1, <1>2, <1>3 DEF IInv, OrderlyInv, Stacked, Kept, Ready, Awaited

\* The invariant gives NewestOnTop.
LEMMA OnTop == IInv => NewestOnTop
<1> SUFFICES ASSUME IInv, orderly, NEW c \in Waiting, ~OutOfTurn(c)
             PROVE  state = "None" /\ buffer # <<>> /\ Last(buffer) = awaiting[c]
  BY DEF NewestOnTop
<1>1. PICK i \in 1 .. Len(buffer) : buffer[i] = awaiting[c]
  BY DEF IInv, OrderlyInv, Kept
<1>2. Len(buffer) \in Nat \ {0} /\ buffer # <<>> /\ i <= Len(buffer) /\ i \in Nat
  BY <1>1 DEF IInv, TypeOK
<1>3. CASE i = Len(buffer)
  BY <1>1, <1>2, <1>3 DEF IInv, OrderlyInv, Last
<1>4. CASE i < Len(buffer)
  <2>1. buffer[Len(buffer)] > awaiting[c]
    <3>1. buffer[i] \in Imports /\ buffer[Len(buffer)] \in Imports
      BY <1>1, <1>2 DEF IInv, TypeOK
    <3>2. buffer[i] < buffer[Len(buffer)]
      BY <1>2, <1>4 DEF IInv, OrderlyInv, Stacked
    <3> QED BY <1>1, <3>1, <3>2, Bound DEF Imports
  <2>2. buffer[Len(buffer)] \in Awaited
    BY <1>2, <2>1 DEF IInv, OrderlyInv, Kept
  <2> QED BY <2>1, <2>2 DEF Awaited, OutOfTurn
<1> QED BY <1>2, <1>3, <1>4

-----------------------------------------------------------------------------
(* The invariant is inductive. *)

\* A call that ends without running on loses nobody's frames.
LEMMA FailKeeps ==
  ASSUME IInv, TypeOK', NEW c \in Calls, CallFails(c), UNCHANGED <<state, buffer, answers>>,
         orderly' => orderly,
         orderly' /\ c \in Waiting => ~Buries(c) /\ rejected' = rejected \cup {awaiting[c]},
         c \notin Waiting => rejected' = rejected
  PROVE  orderly' => Stacked' /\ Kept' /\ AnswersAreOwn' /\ FramesAccountedFor'
<1> SUFFICES ASSUME orderly'
             PROVE  Stacked' /\ Kept' /\ AnswersAreOwn' /\ FramesAccountedFor'
  OBVIOUS
<1>1. /\ Waiting' = Waiting \ {c} /\ Waiting \subseteq Calls
      /\ \A d \in Waiting' : awaiting'[d] = awaiting[d]
  BY DEF CallFails, IInv, TypeOK, Waiting
<1>2. Awaited \ {awaiting[c]} \subseteq Awaited'
  BY <1>1 DEF Awaited
<1>3. Stacked' /\ AnswersAreOwn'
  BY DEF IInv, OrderlyInv, Stacked, AnswersAreOwn
<1>4. buffer \in Seq(Imports) /\ buffer' = buffer
  BY DEF IInv, TypeOK
<1>5. \A i \in 1 .. Len(buffer) : buffer[i] \in Awaited \cup rejected
  BY <1>4, Elements DEF IInv, FramesAccountedFor
<1>6. \A i \in 1 .. Len(buffer') : buffer'[i] \in Awaited' \cup rejected'
  <2>1. CASE c \in Waiting
    BY <1>2, <1>4, <1>5, <2>1
  <2>2. CASE c \notin Waiting
    <3>1. Awaited \subseteq Awaited'
      BY <1>1, <2>2 DEF Awaited
    <3> QED BY <1>4, <1>5, <2>2, <3>1
  <2> QED BY <2>1, <2>2
<1>7. FramesAccountedFor'
  BY <1>4, <1>6, Elements DEF FramesAccountedFor
<1>8. ASSUME NEW d \in Waiting'
      PROVE  /\ \E i \in 1 .. Len(buffer') : buffer'[i] = awaiting'[d]
             /\ \A i \in 1 .. Len(buffer') : buffer'[i] > awaiting'[d] => buffer'[i] \in Awaited'
  <2>1. d \in Waiting /\ awaiting'[d] = awaiting[d] /\ d # c
    BY <1>1
  <2>2. \A i \in 1 .. Len(buffer) : buffer[i] > awaiting[d] => buffer[i] \in Awaited
    BY <2>1 DEF IInv, OrderlyInv, Kept
  <2>3. \E i \in 1 .. Len(buffer) : buffer[i] = awaiting[d]
    BY <2>1 DEF IInv, OrderlyInv, Kept
  <2>4. CASE c \in Waiting
    <3>1. ~(awaiting[d] < awaiting[c])
      BY <2>1, <2>4 DEF Buries
    <3>2. \A i \in 1 .. Len(buffer) : buffer[i] > awaiting[d] => buffer[i] # awaiting[c]
      BY <1>1, <2>1, <2>4, <3>1, WaitingCalls, Bound DEF IInv, Imports
    <3> QED BY <1>2, <1>4, <2>1, <2>2, <2>3, <3>2
  <2>5. CASE c \notin Waiting
    <3>1. Awaited' = Awaited
      BY <1>1, <2>5 DEF Awaited
    <3> QED BY <1>4, <2>1, <2>2, <2>3, <3>1
  <2> QED BY <2>4, <2>5
<1> QED BY <1>3, <1>7, <1>8 DEF Kept

\* The promise of the newest call may have settled in turn only with the
\* call's frames on top; so a rewind that goes astray is out of turn.
LEMMA AstrayOutOfTurn ==
  ASSUME IInv, NEW c \in Waiting, orderly, ~OutOfTurn(c)
  PROVE  state = "None" /\ buffer # <<>> /\ Last(buffer) = awaiting[c]
BY OnTop DEF NewestOnTop

LEMMA Induction == IInv /\ TypeOK' /\ [Next]_vars => IInv'
<1> SUFFICES ASSUME IInv, TypeOK', [Next]_vars
             PROVE  IInv'
  OBVIOUS
<1> USE DEF IInv
<1>1. CASE UNCHANGED vars
  <2>1. Waiting' = Waiting /\ Awaited' = Awaited
    BY <1>1 DEF Waiting, Awaited, vars, moduleVars, callVars, historyVars
  <2> QED BY <1>1, <2>1 DEF vars, moduleVars, callVars, historyVars, Numbered, OrderlyInv,
             Stacked, Kept, AnswersAreOwn, FramesAccountedFor
<1>2. ASSUME NEW c \in Calls, StartExport(c)
      PROVE  IInv'
  <2>1. /\ GuestRuns(c, buffer, value) /\ c \notin Waiting /\ buffer \in Seq(Imports)
        /\ UNCHANGED <<state, answers, rejected, orderly>>
    BY <1>2 DEF StartExport, historyVars, Waiting, TypeOK
  <2>2. Numbered'
    BY <2>1, RunKeepsNumbers DEF Numbered
  <2>3. orderly' => Stacked' /\ Kept' /\ FramesAccountedFor'
    BY <2>1, StartReady, RunKeepsStack DEF FramesAccountedFor
  <2> QED BY <2>1, <2>2, <2>3 DEF OrderlyInv, AnswersAreOwn, FramesAccountedFor
<1>3. ASSUME NEW c \in Calls, StartRefused(c)
      PROVE  IInv'
  <2>1. CallFails(c) /\ c \notin Waiting /\ UNCHANGED <<moduleVars, historyVars>>
    BY <1>3 DEF StartRefused, Waiting
  <2>2. Numbered'
    BY <2>1 DEF Numbered, CallFails, TypeOK, Waiting, moduleVars
  <2> QED BY <2>1, <2>2, FailKeeps DEF OrderlyInv, moduleVars, historyVars, AnswersAreOwn, FramesAccountedFor
<1>4. ASSUME NEW c \in Calls, Resume(c)
      PROVE  IInv'
  <2>1. /\ c \in Waiting /\ buffer # <<>> /\ Last(buffer) = awaiting[c]
        /\ GuestRuns(c, PopFrames(buffer), AwaitedValue(c))
        /\ state' = "None" /\ rejected' = rejected
        /\ answers' = [answers EXCEPT ![awaiting[c]] = awaiting[c]]
        /\ orderly' => orderly
    BY <1>4 DEF Resume, Waiting, StateInImport, AwaitedValue
  <2>2. Numbered'
    <3>1. /\ PopFrames(buffer) \in Seq(Imports)
          /\ \A i \in 1 .. Len(PopFrames(buffer)) : PopFrames(buffer)[i] <= imports
      BY <2>1, PoppedNumbers
    <3> QED BY <2>1, <3>1, RunKeepsNumbers
  <2>3. orderly' => Stacked' /\ Kept' /\ FramesAccountedFor'
    BY <2>1, ResumeReady, RunKeepsStack DEF FramesAccountedFor
  <2>4. AnswersAreOwn'
    BY <2>1 DEF AnswersAreOwn, TypeOK
  <2> QED BY <2>1, <2>2, <2>3, <2>4 DEF OrderlyInv, FramesAccountedFor
<1>5. ASSUME NEW c \in Calls, ResumeAstray(c)
      PROVE  IInv'
  <2>1. c \in Waiting /\ ~orderly'
    BY <1>5, AstrayOutOfTurn DEF ResumeAstray, Waiting
  <2>2. Numbered'
    <3>1. CASE /\ \E n \in 0 .. Len(buffer) : buffer' = SubSeq(buffer, 1, n)
               /\ CallFails(c)
      <4>1. \A i \in 1 .. Len(buffer') : buffer'[i] <= imports
        BY <3>1, Prefix DEF Numbered, TypeOK
      <4> QED BY <3>1, <4>1 DEF Numbered, CallFails, TypeOK, Waiting
    <3>2. CASE buffer # <<>> /\ GuestRuns(c, PopFrames(buffer), AwaitedValue(c))
      <4>1. /\ PopFrames(buffer) \in Seq(Imports)
            /\ \A i \in 1 .. Len(PopFrames(buffer)) : PopFrames(buffer)[i] <= imports
        BY <3>2, PoppedNumbers
      <4> QED BY <3>2, <4>1, RunKeepsNumbers
    <3> QED BY <1>5, <3>1, <3>2 DEF ResumeAstray
  <2> QED BY <2>1, <2>2 DEF OrderlyInv, AnswersAreOwn, FramesAccountedFor
<1>6. ASSUME NEW c \in Calls, ResumeRefused(c)
      PROVE  IInv'
  <2>1. c \in Waiting /\ ~orderly' /\ CallFails(c) /\ buffer' = buffer
    BY <1>6, AstrayOutOfTurn DEF ResumeRefused, Waiting
  <2>2. Numbered'
    BY <2>1 DEF Numbered, CallFails, TypeOK, Waiting
  <2> QED BY <2>1, <2>2 DEF OrderlyInv, AnswersAreOwn, FramesAccountedFor
<1>7. ASSUME NEW c \in Calls, Reject(c)
      PROVE  IInv'
  <2>1. /\ c \in Waiting /\ CallFails(c) /\ UNCHANGED <<moduleVars, answers>>
        /\ rejected' = rejected \cup {awaiting[c]}
        /\ orderly' => orderly /\ ~Buries(c)
    BY <1>7 DEF Reject, Waiting
  <2>2. Numbered'
    BY <2>1 DEF Numbered, CallFails, TypeOK, Waiting, moduleVars
  <2> QED BY <2>1, <2>2, FailKeeps DEF OrderlyInv, moduleVars, AnswersAreOwn, FramesAccountedFor
<1> QED BY <1>1, <1>2, <1>3, <1>4, <1>5, <1>6, <1>7 DEF Next

\* The invariant holds in every state.
LEMMA Invariant == Spec => []IInv
<1>1. Init => IInv
  <2>1. Init => TypeOK
    BY Bound DEF Init, TypeOK, Imports
  <2>2. Init => Waiting = {}
    BY DEF Init, Waiting
  <2> QED BY <2>1, <2>2 DEF Init, IInv, Numbered, OrderlyInv, Stacked, Kept, AnswersAreOwn,
             FramesAccountedFor, ToSet
<1> QED BY <1>1, Induction, TypeCorrect, PTL DEF Spec

(* As long as promises settle in turn, the newest call that waits is ready to *)
(* be resumed: its frames are on top of the one buffer all calls share.       *)
THEOREM NewestCallIsOnTop == Spec => []NewestOnTop
BY Invariant, OnTop, PTL

(* As long as promises settle in turn, `value` hands every import the answer  *)
(* of its own promise.                                                       *)
THEOREM AnswersReachTheirImports == Spec => []AnswersAreOwn
<1>1. IInv => AnswersAreOwn
  BY DEF IInv
<1> QED BY <1>1, Invariant, PTL

(* The buffer holds nothing but the frames of calls that wait and those that  *)
(* rejected calls have left behind.                                          *)
THEOREM BufferAccountedFor == Spec => []FramesAccountedFor
<1>1. IInv => FramesAccountedFor
  BY DEF IInv
<1> QED BY <1>1, Invariant, PTL

\* What running on leaves in place.
LEMMA RunKeepsPlaces ==
  ASSUME TypeOK, NEW c \in Calls, NEW frames \in Seq(Imports), NEW v,
         GuestRuns(c, frames, v)
  PROVE  /\ \A i \in 1 .. Len(frames) : i \in 1 .. Len(buffer') /\ buffer'[i] = frames[i]
         /\ awaiting'[c] \in {0, imports + 1} /\ DOMAIN buffer' = 1 .. Len(buffer')
         /\ \A d \in Calls \ {c} : awaiting'[d] = awaiting[d]
<1>1. CASE imports < MaxImports /\ buffer' = PushFrames(frames, imports + 1)
           /\ awaiting' = [awaiting EXCEPT ![c] = imports + 1]
  <2>1. imports + 1 \in Imports
    BY <1>1, Bound DEF TypeOK, Imports
  <2>2. /\ Len(buffer') = Len(frames) + 1
        /\ \A i \in 1 .. Len(frames) : buffer'[i] = frames[i]
    BY <1>1, <2>1, Pushed
  <2>3. buffer' \in Seq(Imports) /\ Len(frames) \in Nat
    BY <1>1, <2>1, Pushed
  <2>4. DOMAIN buffer' = 1 .. Len(buffer')
    BY <2>3
  <2>5. \A i \in 1 .. Len(frames) : i \in 1 .. Len(buffer') /\ buffer'[i] = frames[i]
    BY <2>2, <2>3
  <2>6. awaiting' \in [Calls -> Nat] /\ awaiting'[c] = imports + 1
    BY <1>1, <2>1, Bound DEF TypeOK, Imports
  <2>7. \A d \in Calls \ {c} : awaiting'[d] = awaiting[d]
    BY <1>1 DEF TypeOK
  <2> QED BY <2>4, <2>5, <2>6, <2>7
<1>2. CASE buffer' = frames /\ awaiting' = [awaiting EXCEPT ![c] = 0]
  BY <1>2 DEF TypeOK
<1> QED BY <1>1, <1>2 DEF GuestRuns

(* While a call waits, its frames stay where they are, whatever other calls   *)
(* that run in turn do with the buffer.                                      *)
THEOREM FramesStay == Spec => PausedFramesStay
<1> DEFINE Stay == \A i \in DOMAIN buffer :
                     buffer[i] \in Awaited \cap Awaited' =>
                       i \in DOMAIN buffer' /\ buffer'[i] = buffer[i]
<1>1. ASSUME IInv, TypeOK', [Next]_vars, orderly'
      PROVE  Stay
  <2> USE DEF IInv
  <2>1. buffer \in Seq(Imports) /\ DOMAIN buffer = 1 .. Len(buffer)
    BY <1>1 DEF TypeOK
  <2>2. CASE buffer' = buffer
    BY <2>1, <2>2
  <2>3. ASSUME NEW c \in Calls, StartExport(c)
        PROVE  Stay
    BY <1>1, <2>1, <2>3, RunKeepsPlaces DEF StartExport
  <2>4. ASSUME NEW c \in Calls, Resume(c)
        PROVE  Stay
    <3>1. /\ c \in Waiting /\ buffer # <<>> /\ Last(buffer) = awaiting[c]
          /\ GuestRuns(c, PopFrames(buffer), AwaitedValue(c))
      BY <2>4 DEF Resume, Waiting
    <3>2. /\ Len(buffer) \in Nat \ {0} /\ Len(PopFrames(buffer)) = Len(buffer) - 1
          /\ PopFrames(buffer) \in Seq(Imports) /\ buffer[Len(buffer)] = awaiting[c]
          /\ \A i \in 1 .. Len(buffer) - 1 : PopFrames(buffer)[i] = buffer[i]
      BY <2>1, <3>1, Popped
    <3>3. /\ \A i \in 1 .. Len(buffer) - 1 : i \in DOMAIN buffer' /\ buffer'[i] = buffer[i]
          /\ awaiting'[c] \in {0, imports + 1}
          /\ \A d \in Calls \ {c} : awaiting'[d] = awaiting[d]
      BY <1>1, <3>1, <3>2, RunKeepsPlaces
    <3>4. awaiting[c] \notin Awaited'
      <4>1. awaiting[c] \in Nat \ {0} /\ awaiting[c] <= imports /\ imports \in Nat
        <5>1. awaiting[c] \in Imports /\ c \in Calls
          BY <1>1, <3>1, WaitingCalls
        <5> QED BY <1>1, <5>1, Bound DEF Numbered, TypeOK, Imports
      <4>2. awaiting'[c] # awaiting[c]
        BY <3>3, <4>1
      <4>3. ASSUME NEW d \in Waiting' \ {c}
            PROVE  awaiting'[d] # awaiting[c]
        <5>1. d \in Calls /\ awaiting'[d] = awaiting[d]
          BY <3>3 DEF Waiting
        <5>2. CASE awaiting[d] = awaiting[c]
          BY <1>1, <3>1, <4>1, <5>1, <5>2, WaitingCalls DEF Numbered
        <5> QED BY <5>1, <5>2
      <4> QED BY <4>2, <4>3 DEF Awaited
    <3> QED BY <2>1, <3>2, <3>3, <3>4
  <2>5. ASSUME NEW c \in Calls, ResumeAstray(c)
        PROVE  FALSE
    BY <1>1, <2>5, AstrayOutOfTurn DEF ResumeAstray, Waiting
  <2>6. ASSUME NEW c \in Calls, StartRefused(c) \/ ResumeRefused(c) \/ Reject(c)
        PROVE  buffer' = buffer
    BY <2>6 DEF StartRefused, ResumeRefused, Reject, moduleVars
  <2>7. CASE UNCHANGED vars
    BY <2>2, <2>7 DEF vars, moduleVars
  <2> QED BY <1>1, <2>2, <2>3, <2>4, <2>5, <2>6, <2>7 DEF Next
<1>2. IInv /\ TypeOK' /\ [Next]_vars => [orderly' => Stay]_vars
  BY <1>1
<1> QED BY <1>2, Invariant, TypeCorrect, PTL DEF Spec, PausedFramesStay

-----------------------------------------------------------------------------
(* Every call is a coroutine of its own.                                     *)

\* Only imports that have been called are answered or rejected.
Called ==
  /\ \A i \in rejected : i <= imports
  /\ \A i \in Imports : answers[i] # 0 => i <= imports

\* Running on calls the next import or none, and the call waits in it or ends.
LEMMA RunGoesOn ==
  ASSUME IInv, Called, NEW c \in Calls, NEW frames, NEW v, GuestRuns(c, frames, v)
  PROVE  imports' \in Nat /\ imports <= imports' /\ Coroutine!GoesOn(c)
<1>1. imports \in Nat
  BY Bound DEF IInv, TypeOK
<1>2. CASE /\ imports < MaxImports
           /\ imports' = imports + 1
           /\ status' = [status EXCEPT ![c] = "suspended"]
           /\ awaiting' = [awaiting EXCEPT ![c] = imports + 1]
  <2>1. imports + 1 \in Imports
    BY <1>1, <1>2, Bound DEF Imports
  <2>2. answers[imports + 1] = 0 /\ imports + 1 \notin rejected
    BY <1>1, <2>1 DEF Called
  <2>3. ASSUME NEW d \in Calls PROVE awaiting[d] # imports + 1
    BY <1>1, Bound DEF IInv, Numbered, TypeOK
  <2>4. Coroutine!Fresh(imports + 1)
    BY <2>2, <2>3 DEF Coroutine!Fresh
  <2>5. Coroutine!Stops(c)
    BY <1>2, <2>1, <2>4, Zenon DEF Coroutine!Stops
  <2> QED BY <1>1, <1>2, <2>5 DEF Coroutine!GoesOn
<1>3. CASE /\ \E end \in {"done", "failed"} : status' = [status EXCEPT ![c] = end]
           /\ awaiting' = [awaiting EXCEPT ![c] = 0]
           /\ UNCHANGED imports
  <2>1. \E how \in {"done", "failed"} : Coroutine!Ends(c, how)
    BY <1>3, Zenon DEF Coroutine!Ends
  <2> QED BY <1>1, <1>3, <2>1 DEF Coroutine!GoesOn
<1> QED BY <1>2, <1>3 DEF GuestRuns

\* Called is kept: a rewind that goes astray, too, reaches an import whose frames
\* are in the buffer.
LEMMA CalledStep == IInv /\ Called /\ [Next]_vars => Called'
<1> SUFFICES ASSUME IInv, Called, [Next]_vars PROVE Called'
  OBVIOUS
<1>1. imports \in Nat /\ \A c \in Waiting : awaiting[c] <= imports
  BY Bound DEF IInv, TypeOK, Numbered, Waiting
<1>2. rejected \subseteq Imports /\ answers \in [Imports -> 0 .. MaxImports] /\ Imports \subseteq Nat
  BY Bound DEF IInv, TypeOK, Imports
<1>3. ASSUME NEW c \in Calls, StartExport(c) \/ StartRefused(c) \/ ResumeRefused(c)
      PROVE  Called'
  <2>1. CASE StartExport(c)
    <3>1. imports' \in Nat /\ imports <= imports'
      BY <2>1, RunGoesOn DEF StartExport
    <3> QED BY <1>1, <1>2, <2>1, <3>1 DEF StartExport, historyVars, Called
  <2>2. CASE StartRefused(c) \/ ResumeRefused(c)
    BY <2>2 DEF StartRefused, ResumeRefused, historyVars, CallFails, Called
  <2> QED BY <1>3, <2>1, <2>2
<1>4. ASSUME NEW c \in Calls, Resume(c)
      PROVE  Called'
  <2>1. imports' \in Nat /\ imports <= imports'
    BY <1>4, RunGoesOn DEF Resume
  <2>2. awaiting[c] <= imports
    BY <1>1, <1>4 DEF Resume, Waiting
  <2>3. \A i \in Imports : answers'[i] # 0 => i = awaiting[c] \/ answers[i] # 0
    BY <1>2, <1>4 DEF Resume
  <2>4. awaiting[c] \in Nat
    BY Bound DEF IInv, TypeOK
  <2>5. rejected' = rejected
    BY <1>4 DEF Resume
  <2> QED BY <1>1, <1>2, <2>1, <2>2, <2>3, <2>4, <2>5 DEF Called
<1>5. ASSUME NEW c \in Calls, ResumeAstray(c)
      PROVE  Called'
  <2>1. CASE CallFails(c) /\ UNCHANGED answers
    BY <1>5, <2>1 DEF ResumeAstray, CallFails, Called
  <2>2. CASE /\ buffer # <<>>
             /\ answers' = [answers EXCEPT ![Last(buffer)] = AwaitedValue(c)]
             /\ GuestRuns(c, PopFrames(buffer), AwaitedValue(c))
    <3>1. imports' \in Nat /\ imports <= imports'
      BY <2>2, RunGoesOn
    <3>2. Last(buffer) \in Imports /\ Last(buffer) <= imports
      <4>1. Len(buffer) \in Nat \ {0} /\ Last(buffer) = buffer[Len(buffer)] /\ Last(buffer) \in Imports
        BY <2>2, Popped DEF IInv, TypeOK
      <4> QED BY <4>1 DEF IInv, Numbered
    <3>3. \A i \in Imports : answers'[i] # 0 => i = Last(buffer) \/ answers[i] # 0
      BY <1>2, <2>2
    <3>4. rejected' = rejected
      BY <1>5 DEF ResumeAstray
    <3> QED BY <1>1, <1>2, <3>1, <3>2, <3>3, <3>4 DEF Called
  <2> QED BY <1>5, <2>1, <2>2 DEF ResumeAstray
<1>6. ASSUME NEW c \in Calls, Reject(c)
      PROVE  Called'
  BY <1>1, <1>6 DEF Reject, CallFails, Waiting, Called
<1>7. CASE UNCHANGED vars
  BY <1>7 DEF vars, callVars, historyVars, Called
<1> QED BY <1>3, <1>4, <1>5, <1>6, <1>7 DEF Next

\* The invariant and Called hold in every state.
LEMMA CalledInvariant == Spec => [](IInv /\ Called)
<1>1. Init => Called
  BY DEF Init, Called, Imports
<1> QED BY <1>1, CalledStep, Invariant, PTL DEF Spec

\* Every step is one of coroutines, or breaks their promise.
LEMMA StepImplements == IInv /\ Called /\ [Next]_vars => [Coroutine!Next]_(Coroutine!vars)
<1> SUFFICES ASSUME IInv, Called, [Next]_vars PROVE [Coroutine!Next]_(Coroutine!vars)
  OBVIOUS
<1> USE DEF Coroutine!Next
<1>1. CASE UNCHANGED vars
  BY <1>1 DEF vars, callVars, historyVars, Coroutine!vars
<1>2. CASE ~orderly'
  <2>1. orderly' \in BOOLEAN
    BY <1>1, <1>2 DEF IInv, TypeOK, Next, vars, historyVars, StartExport, StartRefused, Resume,
       ResumeAstray, ResumeRefused, Reject
  <2> QED BY <1>2, <2>1 DEF Coroutine!Break
<1>3. ASSUME orderly', NEW c \in Calls, StartExport(c)
      PROVE  Coroutine!Next
  <2>1. Coroutine!GoesOn(c)
    BY <1>3, RunGoesOn DEF StartExport
  <2> QED BY <1>3, <2>1 DEF StartExport, historyVars, Coroutine!Start
<1>4. ASSUME orderly', NEW c \in Calls, StartRefused(c)
      PROVE  FALSE
  BY <1>4 DEF StartRefused, historyVars, IInv, OrderlyInv
<1>5. ASSUME orderly', NEW c \in Calls, Resume(c)
      PROVE  Coroutine!Next
  <2>1. Coroutine!GoesOn(c)
    BY <1>5, RunGoesOn DEF Resume
  <2>2. orderly' = orderly
    BY <1>5 DEF Resume, IInv, TypeOK
  <2> QED BY <1>5, <2>1, <2>2 DEF Resume, AwaitedValue, Coroutine!Resume
<1>6. ASSUME orderly', NEW c \in Calls, ResumeAstray(c) \/ ResumeRefused(c)
      PROVE  FALSE
  BY <1>6, AstrayOutOfTurn DEF ResumeAstray, ResumeRefused, Waiting
<1>7. ASSUME orderly', NEW c \in Calls, Reject(c)
      PROVE  Coroutine!Next
  <2>1. orderly' = orderly
    BY <1>7 DEF Reject, IInv, TypeOK
  <2> QED BY <1>7, <2>1 DEF Reject, CallFails, Coroutine!Reject, Coroutine!Ends
<1> QED BY <1>1, <1>2, <1>3, <1>4, <1>5, <1>6, <1>7 DEF Next

(* As long as promises settle in turn, the wrappers make every call of an      *)
(* export a coroutine of its own, though all of them share one buffer, one     *)
(* field and one asyncify state.                                             *)
THEOREM RefinesCoroutines == Spec => ImplementsCoroutines
<1>1. Init => Coroutine!Init
  BY DEF Init, Coroutine!Init
<1> QED BY <1>1, StepImplements, CalledInvariant, PTL DEF Spec, ImplementsCoroutines, Coroutine!Spec

=============================================================================
