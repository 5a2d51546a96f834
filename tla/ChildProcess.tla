---------------------------- MODULE ChildProcess ----------------------------
(***************************************************************************)
(* A parent and the child processes it executes: WasiProcess.start and exec, *)
(* and the pipes between them (BufferedPipe).                                *)
(*                                                                          *)
(* Of a child's four pipes the model has standard output and the control     *)
(* pipe, on which the runtime asks the parent to set the terminal's raw mode *)
(* and says that the child has ended.  Standard error is another output, and  *)
(* standard input the same pipe the other way round.                         *)
(*                                                                          *)
(* Parent and children run on one event loop (or talk to it from workers);   *)
(* all of a read up to its first sleep, and every write, runs in one turn.   *)
(* The parent makes one call at a time.  How it uses the pipes is up to it:   *)
(* it may read a child's output whenever it likes, or poll it and read what   *)
(* the poll announced.                                                       *)
(***************************************************************************)
EXTENDS Integers, Sequences

CONSTANTS
  Children,   \* the processes the parent executes
  Polled,     \* those whose output it reads only after a poll announced some
  Retries,    \* BufferedPipe.retriesOnPeek
  MaxChunk,   \* bound on the length of a chunk
  MaxWrites   \* bound on the chunks and the control messages of all children

ASSUME ChildAssumption ==
  /\ Polled \subseteq Children
  /\ Retries \in Nat /\ MaxChunk \in Nat /\ MaxWrites \in Nat

VARIABLES
  status,    \* how far each child is
  wanted,    \* the raw mode the child has last asked for
  out,       \* standard output: the bytes of the chunks in _chunksQueue
  gaps,      \* its empty chunks: after how many bytes of the whole output each is
  ctl,       \* the control pipe: its messages
  tty,       \* the raw mode of the parent's terminal
  call,      \* the parent's call under way
  promised,  \* bytes the parent's last poll announced, less what it read since
  received,  \* what the parent has read of each child's output
  told,      \* the parent has read PROC_EXIT
  writes,    \* chunks written and raw modes asked for so far
  drained,   \* history: a read came back empty although the parent was told
  blank,     \* history: an empty chunk has been written
  askedFor   \* history: all raw modes a child has asked for

childVars   == <<status, wanted>>
pipeVars    == <<out, gaps, ctl>>
parentVars  == <<tty, call, promised, received, told>>
historyVars == <<drained, blank, askedFor>>
vars == <<childVars, pipeVars, parentVars, writes, historyVars>>

\* Byte i of the w-th chunk ever written.
Bytes == (1 .. MaxWrites) \X (1 .. MaxChunk)

Messages == {"raw", "cooked", "exit"}
Idle == [op |-> "idle"]

-----------------------------------------------------------------------------
Init ==
  /\ status = [c \in Children |-> "none"]
  /\ wanted = [c \in Children |-> "cooked"]
  /\ out = [c \in Children |-> <<>>]
  /\ gaps = [c \in Children |-> <<>>]
  /\ ctl = [c \in Children |-> <<>>]
  /\ tty = "cooked"
  /\ call = Idle
  /\ promised = [c \in Children |-> 0]
  /\ received = [c \in Children |-> <<>>]
  /\ told = [c \in Children |-> FALSE]
  /\ writes = 0
  /\ drained = [c \in Children |-> FALSE]
  /\ blank = [c \in Children |-> FALSE]
  /\ askedFor = [c \in Children |-> {}]

-----------------------------------------------------------------------------
(* BufferedPipe. *)

Chunk(w, n) == [i \in 1 .. n |-> <<w, i>>]

\* Faulty variant: a chunk is put before those that are there.
WriteChunk_First(c, w, n) ==
  /\ out' = [out EXCEPT ![c] = Chunk(w, n) \o @]
  /\ gaps' = [gaps EXCEPT ![c] = IF n = 0 THEN <<Len(received[c])>> \o @ ELSE @]
  /\ blank' = [blank EXCEPT ![c] = @ \/ n = 0]

\* write: the chunk is copied and pushed.
WriteChunk(c, w, n) ==
  /\ out' = [out EXCEPT ![c] = @ \o Chunk(w, n)]
  /\ gaps' = [gaps EXCEPT ![c] =
                IF n = 0 THEN Append(@, Len(received[c]) + Len(out[c])) ELSE @]
  /\ blank' = [blank EXCEPT ![c] = @ \/ n = 0]

\* The bytes before the first empty chunk.
Available(c) ==
  IF gaps[c] = <<>> THEN Len(out[c]) ELSE Head(gaps[c]) - Len(received[c])

\* The first chunk has n bytes.
IsHeadLength(c, n) ==
  /\ n <= Available(c)
  /\ \A i \in 1 .. n : out[c][i][1] = out[c][1][1]
  /\ n < Available(c) => out[c][n + 1][1] # out[c][1][1]

\* readRecurseFunc goes on to the next chunk until it has n bytes, there is no
\* chunk left, or the chunk is empty.
ReadLength(c, n) == IF n < Available(c) THEN n ELSE Available(c)

\* Faulty variant: what is left of the last chunk read is not put back.
Rest_DropsChunk(c, n) ==
  SelectSeq(SubSeq(out[c], n + 1, Len(out[c])),
            LAMBDA byte : n = 0 \/ byte[1] # out[c][n][1])

\* What a read of n bytes leaves: the rest of a chunk is put back.
Rest(c, n) == SubSeq(out[c], n + 1, Len(out[c]))

\* An empty chunk that ends a read is not.
GapsLeft(c, n) ==
  IF ReadLength(c, n) < n /\ gaps[c] # <<>> THEN Tail(gaps[c]) ELSE gaps[c]

-----------------------------------------------------------------------------
(* Starting a child. *)

\* exec: the pipes are opened.  Preview 1 waits for start(), preview 2 does not.
Exec(c) ==
  /\ call = Idle
  /\ status[c] = "none"
  /\ status' = [status EXCEPT ![c] = "loading"]
  /\ \E waits \in BOOLEAN : call' = IF waits THEN [op |-> "exec", of |-> c] ELSE Idle
  /\ UNCHANGED <<wanted, pipeVars, tty, promised, received, told, writes, historyVars>>

\* exec of preview 1 returns, with or without an error.
ExecReturns(c) == call' = IF call = [op |-> "exec", of |-> c] THEN Idle ELSE call

\* start has found the module; run() is on its way.
Started(c) ==
  /\ status[c] = "loading"
  /\ status' = [status EXCEPT ![c] = "running"]
  /\ ExecReturns(c)
  /\ UNCHANGED <<wanted, pipeVars, tty, promised, received, told, writes, historyVars>>

\* start throws: no such program, or no capability to execute one.
Refused(c) ==
  /\ status[c] = "loading"
  /\ status' = [status EXCEPT ![c] = "refused"]
  /\ ExecReturns(c)
  /\ UNCHANGED <<wanted, pipeVars, tty, promised, received, told, writes, historyVars>>

-----------------------------------------------------------------------------
(* What a child does. *)

\* Faulty variant: the write is not awaited and may come after the end.
ChildWrite_Late(c) ==
  /\ status[c] \in {"running", "ended", "exited"}
  /\ writes < MaxWrites
  /\ writes' = writes + 1
  /\ \E n \in 0 .. MaxChunk : WriteChunk(c, writes + 1, n)
  /\ UNCHANGED <<childVars, ctl, parentVars, drained, askedFor>>

ChildWrite(c) ==
  /\ status[c] = "running"
  /\ writes < MaxWrites
  /\ writes' = writes + 1
  /\ \E n \in 0 .. MaxChunk : WriteChunk(c, writes + 1, n)
  /\ UNCHANGED <<childVars, ctl, parentVars, drained, askedFor>>

\* Faulty variant: the child goes on as soon as it has asked.
SetRawMode_NoWait(c) ==
  /\ status[c] = "running"
  /\ writes < MaxWrites
  /\ writes' = writes + 1
  /\ \E mode \in {"raw", "cooked"} :
       /\ ctl' = [ctl EXCEPT ![c] = Append(@, mode)]
       /\ wanted' = [wanted EXCEPT ![c] = mode]
       /\ askedFor' = [askedFor EXCEPT ![c] = @ \cup {mode}]
  /\ UNCHANGED <<status, out, gaps, parentVars, drained, blank>>

\* rawModeListener: tell the parent, and wait until the terminal has the mode.
SetRawMode(c) ==
  /\ status[c] = "running"
  /\ writes < MaxWrites
  /\ writes' = writes + 1
  /\ \E mode \in {"raw", "cooked"} :
       /\ ctl' = [ctl EXCEPT ![c] = Append(@, mode)]
       /\ wanted' = [wanted EXCEPT ![c] = mode]
       /\ askedFor' = [askedFor EXCEPT ![c] = @ \cup {mode}]
       /\ status' = [status EXCEPT ![c] = IF tty = mode THEN "running" ELSE "setting"]
  /\ UNCHANGED <<out, gaps, parentVars, drained, blank>>

\* Faulty variant: the comparison is the wrong way round.
PollMode_Inverted(c) ==
  /\ status[c] = "setting"
  /\ tty # wanted[c]
  /\ status' = [status EXCEPT ![c] = "running"]
  /\ UNCHANGED <<wanted, pipeVars, parentVars, writes, historyVars>>

\* Every millisecond it looks at the parent's terminal; a look that finds
\* another mode changes nothing.
PollMode(c) ==
  /\ status[c] = "setting"
  /\ tty = wanted[c]
  /\ status' = [status EXCEPT ![c] = "running"]
  /\ UNCHANGED <<wanted, pipeVars, parentVars, writes, historyVars>>

\* run() settles, in whatever way.
ChildEnds(c) ==
  /\ status[c] = "running"
  /\ status' = [status EXCEPT ![c] = "ended"]
  /\ UNCHANGED <<wanted, pipeVars, parentVars, writes, historyVars>>

\* Faulty variant: only a run that returns sends PROC_EXIT.
SendExit_MayNot(c) ==
  /\ status[c] = "ended"
  /\ ctl' \in {ctl, [ctl EXCEPT ![c] = Append(@, "exit")]}
  /\ status' = [status EXCEPT ![c] = "exited"]
  /\ UNCHANGED <<wanted, out, gaps, parentVars, writes, historyVars>>

\* The finally block, ten milliseconds later: PROC_EXIT.
SendExit(c) ==
  /\ status[c] = "ended"
  /\ ctl' = [ctl EXCEPT ![c] = Append(@, "exit")]
  /\ status' = [status EXCEPT ![c] = "exited"]
  /\ UNCHANGED <<wanted, out, gaps, parentVars, writes, historyVars>>

-----------------------------------------------------------------------------
(* What the parent does. *)

\* A read of n bytes.  If it finds none it sleeps, and comes back empty
\* whatever has arrived in the meantime.
Read(c, n) ==
  LET k == ReadLength(c, n)
  IN  /\ call = Idle
      /\ status[c] # "none"
      /\ c \in Polled => promised[c] > 0
      /\ received' = [received EXCEPT ![c] = @ \o SubSeq(out[c], 1, k)]
      /\ out' = [out EXCEPT ![c] = Rest(c, k)]
      /\ gaps' = [gaps EXCEPT ![c] = GapsLeft(c, n)]
      /\ promised' = [promised EXCEPT ![c] = IF @ > k THEN @ - k ELSE 0]
      /\ call' = IF k = 0 THEN [op |-> "read", of |-> c] ELSE Idle
      /\ UNCHANGED <<childVars, ctl, tty, told, writes, historyVars>>

\* Faulty variant: the read waits for something to come.
ReadEmpty_Blocks(c) ==
  /\ call = [op |-> "read", of |-> c]
  /\ out[c] # <<>>
  /\ call' = Idle
  /\ drained' = [drained EXCEPT ![c] = @ \/ told[c]]
  /\ UNCHANGED <<childVars, pipeVars, tty, promised, received, told, writes, blank, askedFor>>

\* The read returns nothing.
ReadEmpty(c) ==
  /\ call = [op |-> "read", of |-> c]
  /\ call' = Idle
  /\ drained' = [drained EXCEPT ![c] = @ \/ told[c]]
  /\ UNCHANGED <<childVars, pipeVars, tty, promised, received, told, writes, blank, askedFor>>

\* peekFunc looks `left` more times, and sleeps after each look that finds
\* nothing, the last one too.
Look(c, left) ==
  \E n \in 0 .. Available(c) :
    /\ IsHeadLength(c, n)
    /\ promised' = [promised EXCEPT ![c] = n]
    /\ call' = IF n > 0 \/ Retries = 0 THEN Idle
               ELSE [op |-> "peek", of |-> c, left |-> left]
    /\ UNCHANGED <<childVars, pipeVars, tty, received, told, writes, historyVars>>

Peek(c) ==
  /\ call = Idle
  /\ c \in Polled
  /\ status[c] # "none"
  /\ Look(c, Retries)

\* Faulty variant: one look too many.
PeekAgain_OneMore(c) ==
  /\ call.op = "peek" /\ call.of = c /\ call.left >= 0
  /\ Look(c, call.left - 1)

PeekAgain(c) ==
  /\ call.op = "peek" /\ call.of = c /\ call.left > 0
  /\ Look(c, call.left - 1)

\* peekFunc returns 0.
PeekEnds(c) ==
  /\ call.op = "peek" /\ call.of = c /\ call.left = 0
  /\ call' = Idle
  /\ UNCHANGED <<childVars, pipeVars, tty, promised, received, told, writes, historyVars>>

\* A guest that reads a control message acts on it: it gives its terminal the
\* mode, or knows that the child is over.
HandleControl(c) ==
  /\ call = Idle
  /\ ctl[c] # <<>>
  /\ ctl' = [ctl EXCEPT ![c] = Tail(@)]
  /\ IF Head(ctl[c]) = "exit"
       THEN told' = [told EXCEPT ![c] = TRUE] /\ UNCHANGED tty
       ELSE tty' = Head(ctl[c]) /\ UNCHANGED told
  /\ UNCHANGED <<childVars, out, gaps, call, promised, received, writes, historyVars>>

-----------------------------------------------------------------------------
Lengths == 1 .. MaxChunk + 1

ChildNext(c) ==
  \/ Started(c) \/ Refused(c)
  \/ ChildWrite(c) \/ SetRawMode(c) \/ PollMode(c)
  \/ ChildEnds(c) \/ SendExit(c)

ParentNext(c) ==
  \/ Exec(c) \/ HandleControl(c)
  \/ (\E n \in Lengths : Read(c, n)) \/ ReadEmpty(c)
  \/ Peek(c) \/ PeekAgain(c) \/ PeekEnds(c)

Next == \E c \in Children : ChildNext(c) \/ ParentNext(c)

Spec == Init /\ [][Next]_vars

\* A timer of the child's side fires, or its module is loaded or is not.
ChildGoesOn(c) == Started(c) \/ Refused(c) \/ PollMode(c) \/ SendExit(c)

\* A timer of the parent's call fires.
CallGoesOn == \E c \in Children : ReadEmpty(c) \/ PeekAgain(c) \/ PeekEnds(c)

\* Timers fire.  A parent that is not busy for ever comes back to each control
\* pipe and each output.
Fairness ==
  /\ WF_vars(CallGoesOn)
  /\ \A c \in Children :
       WF_vars(ChildGoesOn(c)) /\ SF_vars(HandleControl(c)) /\ SF_vars(Read(c, MaxChunk))
  /\ \A c \in Polled : SF_vars(Peek(c))

FairSpec == Spec /\ Fairness

-----------------------------------------------------------------------------
(* Properties. *)

CallTypes ==
  {Idle}
    \cup [op : {"exec", "read"}, of : Children]
    \cup [op : {"peek"}, of : Children, left : 0 .. Retries]

\* The state of processes and pipes is what the code keeps.
TypeOK ==
  /\ status \in [Children -> {"none", "loading", "refused", "running", "setting",
                              "ended", "exited"}]
  /\ wanted \in [Children -> {"raw", "cooked"}]
  /\ out \in [Children -> Seq(Bytes)]
  /\ gaps \in [Children -> Seq(Nat)]
  /\ ctl \in [Children -> Seq(Messages)]
  /\ tty \in {"raw", "cooked"}
  /\ call \in CallTypes
  /\ promised \in [Children -> Nat]
  /\ received \in [Children -> Seq(Bytes)]
  /\ told \in [Children -> BOOLEAN]
  /\ writes \in 0 .. MaxWrites
  /\ drained \in [Children -> BOOLEAN]
  /\ blank \in [Children -> BOOLEAN]
  /\ askedFor \in [Children -> SUBSET {"raw", "cooked"}]

\* A parent that has read PROC_EXIT and then found nothing to read has all of
\* the child's output, unless the child wrote an empty chunk: a read stops at
\* one as if the pipe were empty.
NothingLeftBehind ==
  \A c \in Children : drained[c] /\ ~blank[c] => out[c] = <<>>

\* Two children that have asked for different modes of the one terminal.
Contended ==
  \E c, d \in Children : c # d /\ \E m \in askedFor[c], n \in askedFor[d] : m # n

\* A child goes on after it has set the raw mode only when the terminal has the
\* mode, and no request it has made earlier, still in the control pipe, takes
\* it away again, unless another child wants the terminal otherwise.
ModeHolds ==
  \A c \in Children :
    status[c] \in {"running", "ended", "exited"} /\ askedFor[c] # {} =>
      tty = wanted[c] \/ Contended

\* What a poll has announced is there when the parent reads.
PollKeepsItsWord ==
  \A c \in Children : promised[c] <= Available(c)

\* The output of each child is a stream that ends before the parent is told.
Output ==
  INSTANCE ByteStream WITH
    Streams <- Children,
    sent <- [c \in Children |-> received[c] \o out[c]],
    received <- received,
    closed <- [c \in Children |-> status[c] \in {"ended", "exited"}],
    told <- told

\* What children write arrives whole and in order, and a parent is told of a
\* child's end only when it can write no more: no output is overtaken by
\* PROC_EXIT.
ImplementsByteStream == Output!Spec

\* A child that has started and ended is known to have ended.
ExitIsLearned == \A c \in Children : status[c] = "ended" ~> told[c]

\* A child that waits for its raw mode goes on, unless another child wants the
\* terminal otherwise: then every look may come at the wrong moment.
RawModeArrives ==
  \A c \in Children : status[c] = "setting" ~> status[c] # "setting" \/ Contended

\* All output is read in the end, though not by a parent that trusts its polls
\* if the child wrote an empty chunk: the poll sees only the first chunk.
OutputArrives ==
  \A c \in Children :
    out[c] # <<>> ~> out[c] = <<>> \/ (c \in Polled /\ blank[c])
=============================================================================
