-------------------------- MODULE CoreWorkerSafety --------------------------
(***************************************************************************)
(* What CoreWorker guarantees as long as no handler is left over from an    *)
(* earlier run (NoneLeftOver), for every bound on calls, runs and resizes:  *)
(* each answer reaches the call it was computed for, the channel carries    *)
(* one message at a time, the copies of the memory agree, and the whole     *)
(* protocol implements a synchronous call (SyncCall).  A WASI object that   *)
(* is used once, or has no terminal (NoLeftovers), never has a leftover.    *)
(***************************************************************************)
EXTENDS CoreWorkerProofs

-----------------------------------------------------------------------------
(* The inductive invariant. *)

\* The worker waits for an answer.
Blocked == wpc \in {"wait", "sized", "taken"}

\* What the memory of the current run holds when all its calls have returned.
OwnWrites == {w \in Writes : origin[w[1]] = run}

\* Calls are numbered in the order they are made, by one run after the other.
Numbering ==
  /\ \A c \in CallIds : c <= calls => origin[c] \in 1 .. run
  /\ \A c \in CallIds : c > calls => origin[c] = 0
  /\ \A r \in Runs : r > run => flag[r] = 0 /\ guestMem[r] = {} /\ shared[r] = {}

\* A program can only run on the channel of its own run.
OwnChannel ==
  /\ phase \in {"settling", "running"} => channel = run
  /\ jobs # <<>> \/ wpc \notin {"instantiate", "idle"} => channel \in {0, run} /\ run # 0

\* The handler of a call has come to its end.
Over(c) == handler[c] \in {"answered", "unsent"}

\* Only the latest call can be open, and only while the worker is blocked.
Quiet ==
  /\ \A c \in CallIds : c < calls => Over(c)
  /\ ~Blocked =>
       /\ writing = 0
       /\ \A c \in CallIds : c <= calls => Over(c)
       /\ run # 0 => flag[run] = 0
       /\ run # 0 => guestMem[run] = OwnWrites

\* The open call: how far its answer has got, and what is in the slot.
Open ==
  Blocked =>
    /\ calls \in CallIds
    /\ cur = calls
    /\ origin[calls] = run
    /\ handler[calls] \in {"copied", "sized"} <=> writing # 0
    /\ writing \in {0, calls}
    /\ handler[calls] \in {"running", "copied", "sized"} => chan[calls] = run
    /\ handler[calls] \in {"copied", "sized", "answered"} => data[run] = calls
    /\ handler[calls] = "sized" => size[run] = calls
    /\ wpc = "wait" /\ handler[calls] = "answered" => size[run] = calls
    /\ flag[run] = 1 <=> handler[calls] = "answered" /\ wpc # "taken"
    /\ wpc \in {"sized", "taken"} => handler[calls] = "answered" /\ readSize = calls
    /\ wpc = "taken" => readData = calls

\* The shared buffer and the guest's memory while a call is open: they differ
\* from what the program has written only by what the import writes.
OpenMemory ==
  Blocked =>
    /\ handler[calls] = "running" => hostMem = run
    /\ shared[run] = IF handler[calls] \in {"posted", "noChannel", "running"}
                     THEN OwnWrites \ {<<calls, "host">>} ELSE OwnWrites
    /\ guestMem[run] \ {<<calls, "host">>} = OwnWrites \ {<<calls, "host">>}

Safe == Numbering /\ OwnChannel /\ Quiet /\ Open /\ OpenMemory

IInv == TypeInv /\ Safe

-----------------------------------------------------------------------------
(* Every step keeps the invariant. *)

\* A handler is at work only for the latest call, while the worker waits for it.
LEMMA Working ==
  ASSUME IInv, NEW c \in CallIds, handler[c] # "none", ~Over(c)
  PROVE  c = calls /\ wpc = "wait" /\ Blocked
BY DEF IInv, TypeInv, TypeOK, CallTypes, Started, Safe, Quiet, Over, Open, Blocked, CallIds

\* A write names a call and who made it.
LEMMA WritesShape ==
  \A w \in Writes : w[1] \in CallIds /\ w[2] \in {"guest", "host"} /\ w = <<w[1], w[2]>>
BY DEF Writes

\* A new run starts from an idle slot: nothing of an earlier run is under way.
LEMMA RunCoreSafe == ASSUME IInv, RunCore, NoneLeftOver' PROVE Safe'
<1> USE Bounds DEF IInv, Safe
<1>t. HostTypes /\ WorkerTypes /\ CallTypes /\ SlotTypes /\ MemTypes /\ Started
  BY DEF TypeInv, TypeOK
<1>1. Numbering'
  <2>1. run' = run + 1 /\ run \in Nat
    BY <1>t DEF RunCore, HostTypes
  <2>2. \A c \in CallIds : (c <= calls => origin[c] \in 1 .. run + 1) /\ (c > calls => origin[c] = 0)
    BY <2>1 DEF Numbering
  <2>3. \A r \in Runs : r > run + 1 => flag[r] = 0 /\ guestMem[r] = {} /\ shared[r] = {}
    BY <2>1 DEF Numbering, Runs
  <2> QED
    BY <2>2, <2>3 DEF Numbering, RunCore, callVars, slotVars, memVars
<1>2. OwnChannel'
  BY DEF OwnChannel, RunCore
<1>3. Quiet'
  <2>1. run' \in Runs /\ run' > run
    BY <1>t DEF RunCore, HostTypes, Runs
  <2>2. OwnWrites' = {}
    <3> SUFFICES ASSUME NEW w \in Writes PROVE origin[w[1]] # run'
      BY DEF OwnWrites, RunCore, callVars
    <3> QED
      BY <1>t, <2>1, WritesShape DEF Numbering, CallTypes, HostTypes, CallIds
  <2>3. ASSUME NEW c \in CallIds, c <= calls PROVE Over(c)'
    <3>1. origin'[c] # run' /\ handler'[c] # "none"
      BY <1>t, <2>1, <2>3 DEF Numbering, HostTypes, CallTypes, CallIds, Started, RunCore, callVars
    <3> QED
      BY <3>1 DEF NoneLeftOver, Over
  <2> QED
    BY <1>t, <2>1, <2>2, <2>3 DEF Quiet, Over, Numbering, RunCore, HostFree, CallTypes, CallIds, callVars, slotVars, memVars
<1>4. Open'
  BY DEF Open, RunCore, Blocked
<1>5. OpenMemory'
  BY DEF OpenMemory, RunCore, Blocked
<1> QED
  BY <1>1, <1>2, <1>3, <1>4, <1>5

\* Storing the channel puts the first job on the channel of its own run.
LEMMA InstantiatedSafe == ASSUME IInv, Instantiated PROVE Safe'
<1> USE Bounds DEF IInv, Safe
<1>t. HostTypes /\ WorkerTypes /\ CallTypes /\ SlotTypes /\ MemTypes /\ Started
  BY DEF TypeInv, TypeOK
<1>1. OwnChannel'
  BY <1>t DEF OwnChannel, Instantiated, Started
<1> QED
  BY <1>1 DEF Instantiated, Numbering, Quiet, Over, Blocked, OwnWrites, Open, OpenMemory,
     callVars, slotVars, memVars

\* Calling _start changes only what is posted to the worker.
LEMMA SettledSafe == ASSUME IInv, Settled PROVE Safe'
<1> USE Bounds DEF IInv, Safe
<1>t. HostTypes /\ WorkerTypes /\ CallTypes /\ SlotTypes /\ MemTypes /\ Started
  BY DEF TypeInv, TypeOK
<1>1. OwnChannel'
  BY <1>t DEF OwnChannel, Settled, Started
<1> QED
  BY <1>1 DEF Settled, Numbering, Quiet, Over, Blocked, OwnWrites, Open, OpenMemory, callVars,
     slotVars, memVars

\* A failed setup leaves no open call behind.
LEMMA SetupFailedSafe == ASSUME IInv, SetupFailed PROVE Safe'
<1> USE Bounds DEF IInv, Safe
<1>t. HostTypes /\ WorkerTypes /\ CallTypes /\ SlotTypes /\ MemTypes /\ Started
  BY DEF TypeInv, TypeOK
<1> QED
  BY DEF SetupFailed, Numbering, OwnChannel, Quiet, Over, Blocked, OwnWrites, Open, OpenMemory,
     callVars, slotVars, memVars

\* The end of _start comes when no call is open.
LEMMA StartEndedSafe == ASSUME IInv, StartEnded PROVE Safe'
<1> USE Bounds DEF IInv, Safe
<1>t. HostTypes /\ WorkerTypes /\ CallTypes /\ SlotTypes /\ MemTypes /\ Started
  BY DEF TypeInv, TypeOK
<1>1. OwnChannel'
  BY DEF OwnChannel, StartEnded
<1> QED
  BY <1>1 DEF StartEnded, Numbering, Quiet, Over, Blocked, OwnWrites, Open, OpenMemory,
     callVars, slotVars, memVars

\* A resize event posts one more job for the worker.
LEMMA ResizeSafe == ASSUME IInv, Resize PROVE Safe'
<1> USE Bounds DEF IInv, Safe
<1>t. HostTypes /\ WorkerTypes /\ CallTypes /\ SlotTypes /\ MemTypes /\ Started
  BY DEF TypeInv, TypeOK
<1>1. OwnChannel'
  BY <1>t DEF OwnChannel, Resize, Started
<1> QED
  BY <1>1 DEF Resize, Numbering, Quiet, Over, Blocked, OwnWrites, Open, OpenMemory, callVars,
     slotVars, memVars

\* An instantiated module makes no call before it is given a job.
LEMMA InstantiateSafe == ASSUME IInv, NEW o \in {"ok", "error"}, Instantiate(o) PROVE Safe'
<1> USE Bounds DEF IInv, Safe
<1>t. HostTypes /\ WorkerTypes /\ CallTypes /\ SlotTypes /\ MemTypes /\ Started
  BY DEF TypeInv, TypeOK
<1>1. OwnChannel'
  BY DEF OwnChannel, Instantiate, hostVars
<1>2. Quiet'
  BY DEF Quiet, Over, Instantiate, hostVars, callVars, slotVars, memVars, Blocked, OwnWrites
<1>3. Open'
  BY DEF Open, Instantiate, Blocked
<1>4. OpenMemory'
  BY DEF OpenMemory, Instantiate, Blocked
<1> QED
  BY <1>1, <1>2, <1>3, <1>4 DEF Instantiate, Numbering, hostVars, callVars, slotVars,
     memVars

\* The worker takes up a job with the slot empty.
LEMMA StartJobSafe == ASSUME IInv, StartJob PROVE Safe'
<1> USE Bounds DEF IInv, Safe
<1>t. HostTypes /\ WorkerTypes /\ CallTypes /\ SlotTypes /\ MemTypes /\ Started
  BY DEF TypeInv, TypeOK
<1>1. OwnChannel'
  BY DEF OwnChannel, StartJob, hostVars
<1>2. Quiet'
  BY DEF Quiet, Over, StartJob, hostVars, callVars, slotVars, memVars, Blocked, OwnWrites
<1>3. Open'
  BY DEF Open, StartJob, Blocked
<1>4. OpenMemory'
  BY DEF OpenMemory, StartJob, Blocked
<1> QED
  BY <1>1, <1>2, <1>3, <1>4 DEF StartJob, Numbering, hostVars, callVars, slotVars, memVars

\* An export call that returns leaves the slot empty.
LEMMA GuestReturnsSafe == ASSUME IInv, NEW o \in {"ok", "error"}, GuestReturns(o) PROVE Safe'
<1> USE Bounds DEF IInv, Safe
<1>t. HostTypes /\ WorkerTypes /\ CallTypes /\ SlotTypes /\ MemTypes /\ Started
  BY DEF TypeInv, TypeOK
<1>1. OwnChannel'
  BY DEF OwnChannel, GuestReturns, hostVars
<1>2. Quiet'
  BY DEF Quiet, Over, GuestReturns, hostVars, callVars, slotVars, memVars, Blocked, OwnWrites
<1>3. Open'
  BY DEF Open, GuestReturns, EndJob, Blocked
<1>4. OpenMemory'
  BY DEF OpenMemory, GuestReturns, EndJob, Blocked
<1> QED
  BY <1>1, <1>2, <1>3, <1>4 DEF GuestReturns, Numbering, hostVars, callVars, slotVars,
     memVars

\* A call is opened with the slot empty and the shared buffer up to date.
LEMMA CallImportSafe == ASSUME IInv, CallImport PROVE Safe'
<1> USE Bounds DEF IInv, Safe
<1>t. HostTypes /\ WorkerTypes /\ CallTypes /\ SlotTypes /\ MemTypes /\ Started
  BY DEF TypeInv, TypeOK
<1>1. Numbering'
  <2>1. /\ calls' = calls + 1 /\ calls + 1 \in CallIds /\ run' = run /\ flag' = flag
        /\ \A c \in CallIds : origin'[c] = IF c = calls + 1 THEN run ELSE origin[c]
    BY <1>t DEF CallImport, CallTypes, CallIds, hostVars, slotVars
  <2>2. run \in 1 .. run /\ run \in Runs
    BY <1>t DEF CallImport, HostTypes, Runs, Started
  <2>3. \A r \in Runs : r > run => guestMem'[r] = guestMem[r] /\ shared'[r] = shared[r]
    BY <2>2 DEF CallImport
  <2>4. \A c \in CallIds : c <= calls + 1 => c = calls + 1 \/ c <= calls
    BY <1>t DEF CallTypes, CallIds
  <2>5. \A c \in CallIds : c > calls + 1 => c # calls + 1 /\ c > calls
    BY <1>t DEF CallTypes, CallIds
  <2> QED
    BY <2>1, <2>2, <2>3, <2>4, <2>5 DEF Numbering
<1>2. OwnChannel'
  BY DEF OwnChannel, CallImport, hostVars
<1>3. Quiet'
  BY <1>t DEF Quiet, Over, CallImport, CallTypes, CallIds, Blocked
<1>4. Open'
  <2>1. calls' \in CallIds /\ cur' = calls' /\ origin'[calls'] = run' /\ handler'[calls'] = "posted"
    BY <1>t DEF CallImport, CallTypes, CallIds, hostVars
  <2>2. ~Blocked /\ wpc' = "wait" /\ run \in Runs
    BY <1>t DEF CallImport, Blocked, HostTypes, Runs, Started
  <2>3. writing' = 0 /\ flag'[run'] = 0
    BY <1>t, <2>2 DEF CallImport, Quiet, hostVars, slotVars, Started
  <2> QED
    BY <2>1, <2>2, <2>3 DEF Open
<1>5. OpenMemory'
  <2> DEFINE n == calls + 1
  <2>1. n \in CallIds /\ calls' = n /\ handler'[n] = "posted" /\ run' = run /\ run \in Runs
    BY <1>t DEF CallImport, CallTypes, CallIds, hostVars, HostTypes, Runs, Started
  <2>2. guestMem[run] = OwnWrites
    BY <1>t DEF CallImport, Blocked, Quiet, Started
  <2>3. \A c \in CallIds : origin'[c] = run <=> c = n \/ origin[c] = run
    BY <1>t DEF CallImport, CallTypes
  <2>4. origin[n] # run
    BY <1>t, <2>1 DEF Numbering, Runs, CallTypes
  <2>5. OwnWrites' = OwnWrites \cup {<<n, "guest">>, <<n, "host">>}
    BY <2>1, <2>3, WritesShape DEF OwnWrites, Writes
  <2>6. <<n, "host">> \notin OwnWrites
    BY <2>4 DEF OwnWrites
  <2>7. guestMem'[run] = OwnWrites' \ {<<n, "host">>} /\ shared'[run] = guestMem'[run]
    BY <1>t, <2>1, <2>2, <2>5, <2>6 DEF CallImport, MemTypes
  <2> QED
    BY <2>1, <2>7 DEF OpenMemory
<1> QED
  BY <1>1, <1>2, <1>3, <1>4, <1>5

\* The length taken is that of the answer to the open call.
LEMMA TakeLengthSafe == ASSUME IInv, TakeLength PROVE Safe'
<1> USE Bounds DEF IInv, Safe
<1>t. HostTypes /\ WorkerTypes /\ CallTypes /\ SlotTypes /\ MemTypes /\ Started
  BY DEF TypeInv, TypeOK
<1>1. OwnChannel'
  BY DEF OwnChannel, TakeLength, hostVars
<1>2. Quiet'
  BY DEF Quiet, Over, TakeLength, callVars, Blocked
<1>3. Open'
  BY DEF Open, TakeLength, hostVars, callVars, Blocked
<1>4. OpenMemory'
  BY DEF OpenMemory, TakeLength, hostVars, callVars, memVars, Blocked, OwnWrites
<1> QED
  BY <1>1, <1>2, <1>3, <1>4 DEF TakeLength, Numbering, hostVars, callVars, memVars

\* The bytes taken are those of the answer to the open call.
LEMMA TakeDataSafe == ASSUME IInv, TakeData PROVE Safe'
<1> USE Bounds DEF IInv, Safe
<1>t. HostTypes /\ WorkerTypes /\ CallTypes /\ SlotTypes /\ MemTypes /\ Started
  BY DEF TypeInv, TypeOK
<1>1. Numbering'
  BY DEF Numbering, TakeData, hostVars, callVars, memVars
<1>2. OwnChannel'
  BY DEF OwnChannel, TakeData, hostVars
<1>3. Quiet'
  BY DEF Quiet, Over, TakeData, callVars, Blocked
<1>4. Open'
  BY <1>t DEF Open, TakeData, hostVars, callVars, CallTypes, SlotTypes, Runs, Started, Blocked
<1>5. OpenMemory'
  BY DEF OpenMemory, TakeData, hostVars, callVars, memVars, Blocked, OwnWrites
<1> QED
  BY <1>1, <1>2, <1>3, <1>4, <1>5

\* The open call is closed, and the guest has its answer and its writes.
LEMMA ResumeGuestSafe == ASSUME IInv, ResumeGuest PROVE Safe'
<1> USE Bounds DEF IInv, Safe
<1>t. HostTypes /\ WorkerTypes /\ CallTypes /\ SlotTypes /\ MemTypes /\ Started
  BY DEF TypeInv, TypeOK
<1>1. Numbering'
  BY DEF Numbering, ResumeGuest, hostVars, callVars
<1>2. OwnChannel'
  BY DEF OwnChannel, ResumeGuest, hostVars
<1>3. Quiet'
  <2>1. wpc = "taken" /\ wpc' \in {"guest", "idle"} /\ run \in Runs
    <3>1. wpc = "taken"
      BY DEF ResumeGuest
    <3>2. run \in Runs
      BY <1>t, <3>1 DEF HostTypes, Runs, Started
    <3>3. CASE answer[readData] = "value"
      BY <3>2, <3>3 DEF ResumeGuest
    <3>4. CASE answer[readData] # "value"
      BY <3>2 DEF ResumeGuest, EndJob
    <3> QED
      BY <3>3, <3>4
  <2>2. writing = 0 /\ handler[calls] = "answered" /\ flag[run] = 0 /\ shared[run] = OwnWrites
    BY <1>t, <2>1 DEF Blocked, Open, OpenMemory, SlotTypes
  <2>3. guestMem'[run'] = OwnWrites'
    BY <1>t, <2>1, <2>2 DEF ResumeGuest, OwnWrites, MemTypes, hostVars, callVars
  <2>4. \A c \in CallIds : c <= calls => Over(c)
    BY <1>t, <2>2 DEF Quiet, Over, CallTypes, CallIds
  <2> QED
    BY <2>2, <2>3, <2>4 DEF Quiet, Over, ResumeGuest, hostVars, callVars
<1>4. Open'
  BY DEF Open, ResumeGuest, EndJob, Blocked
<1>5. OpenMemory'
  BY DEF OpenMemory, ResumeGuest, hostVars, callVars, Blocked, OwnWrites
<1> QED
  BY <1>1, <1>2, <1>3, <1>4, <1>5

\* A handler is dispatched on the channel of the run that made the call.
LEMMA DispatchSafe == ASSUME IInv, NEW c \in CallIds, Dispatch(c) PROVE Safe'
<1> USE Bounds DEF IInv, Safe
<1>t. HostTypes /\ WorkerTypes /\ CallTypes /\ SlotTypes /\ MemTypes /\ Started
  BY DEF TypeInv, TypeOK
<1>w. c = calls /\ wpc = "wait" /\ Blocked
  BY Working DEF Over, Dispatch
<1>1. Quiet'
  <2>1. wpc' = wpc /\ calls' = calls /\ \A d \in CallIds : d # c => handler'[d] = handler[d]
    BY <1>t DEF Dispatch, BeginImport, CallTypes, workerVars
  <2>2. \A d \in CallIds : d < calls => d # c
    BY <1>w DEF CallIds
  <2> QED
    BY <1>w, <2>1, <2>2 DEF Quiet, Over, Blocked
<1>2. Open'
  <2>1. calls' = calls /\ run' = run /\ wpc' = wpc /\ cur' = cur /\ writing' = writing /\ origin' = origin
    BY DEF Dispatch, hostVars, workerVars
  <2>2. writing = 0 /\ origin[calls] = run /\ flag[run] # 1
    BY <1>w DEF Dispatch, Open
  <2>3. handler'[calls] \in {"running", "noChannel"} /\ (handler'[calls] = "running" => chan'[calls] = run)
    BY <1>t, <1>w DEF Dispatch, BeginImport, OwnChannel, CallTypes
  <2> QED
    BY <1>w, <2>1, <2>3 DEF Open, Dispatch, slotVars
<1>3. OpenMemory'
  <2>1. calls' = calls /\ run' = run /\ wpc' = wpc /\ OwnWrites' = OwnWrites /\ guestMem' = guestMem /\ shared' = shared
    BY DEF Dispatch, OwnWrites, hostVars, workerVars
  <2>2. handler'[calls] \in {"running", "noChannel"} /\ (handler'[calls] = "running" => hostMem' = run)
    BY <1>t, <1>w DEF Dispatch, BeginImport, Open, CallTypes
  <2>3. handler[calls] \in {"posted", "noChannel"}
    BY <1>w DEF Dispatch
  <2> QED
    BY <1>w, <2>1, <2>2, <2>3 DEF OpenMemory
<1> QED
  BY <1>1, <1>2, <1>3 DEF Dispatch, Numbering, OwnChannel, Blocked, hostVars,
     workerVars, slotVars

\* A handler that finds a channel finds that of its own run.
LEMMA FindChannelSafe == ASSUME IInv, NEW c \in CallIds, FindChannel(c) PROVE Safe'
<1> USE Bounds DEF IInv, Safe
<1>t. HostTypes /\ WorkerTypes /\ CallTypes /\ SlotTypes /\ MemTypes /\ Started
  BY DEF TypeInv, TypeOK
<1>w. c = calls /\ wpc = "wait" /\ Blocked
  BY Working DEF Over, FindChannel
<1>1. Quiet'
  <2>1. wpc' = wpc /\ calls' = calls /\ \A d \in CallIds : d # c => handler'[d] = handler[d]
    BY DEF FindChannel, BeginImport, workerVars
  <2>2. \A d \in CallIds : d < calls => d # c
    BY <1>w DEF CallIds
  <2> QED
    BY <1>w, <2>1, <2>2 DEF Quiet, Over, Blocked
<1>2. Open'
  <2>1. calls' = calls /\ run' = run /\ wpc' = wpc /\ cur' = cur /\ writing' = writing /\ origin' = origin
    BY DEF FindChannel, hostVars, workerVars
  <2>2. writing = 0 /\ origin[calls] = run /\ flag[run] # 1
    BY <1>w DEF FindChannel, Open
  <2>3. handler'[calls] \in {"running", "noChannel"} /\ (handler'[calls] = "running" => chan'[calls] = run)
    BY <1>t, <1>w DEF FindChannel, BeginImport, OwnChannel, CallTypes
  <2> QED
    BY <1>w, <2>1, <2>3 DEF Open, FindChannel, slotVars
<1>3. OpenMemory'
  <2>1. calls' = calls /\ run' = run /\ wpc' = wpc /\ OwnWrites' = OwnWrites /\ guestMem' = guestMem /\ shared' = shared
    BY DEF FindChannel, OwnWrites, hostVars, workerVars
  <2>2. handler'[calls] \in {"running", "noChannel"} /\ (handler'[calls] = "running" => hostMem' = run)
    BY <1>w DEF FindChannel, BeginImport, Open
  <2>3. handler[calls] \in {"posted", "noChannel"}
    BY <1>w DEF FindChannel
  <2> QED
    BY <1>w, <2>1, <2>2, <2>3 DEF OpenMemory
<1> QED
  BY <1>1, <1>2, <1>3 DEF FindChannel, Numbering, OwnChannel, Blocked, hostVars,
     workerVars, slotVars

\* The response is copied into the slot that the worker is blocked on.
LEMMA FinishImportSafe == ASSUME IInv, NEW c \in CallIds, NEW k \in Kinds, FinishImport(c, k) PROVE Safe'
<1> USE Bounds DEF IInv, Safe
<1>t. HostTypes /\ WorkerTypes /\ CallTypes /\ SlotTypes /\ MemTypes /\ Started
  BY DEF TypeInv, TypeOK
<1>w. c = calls /\ wpc = "wait" /\ Blocked
  BY Working DEF Over, FinishImport
<1>1. Numbering'
  <2>1. chan[c] = run /\ hostMem = run /\ handler[c] = "running" /\ run \in Runs
    BY <1>t, <1>w DEF FinishImport, Open, OpenMemory, HostTypes, Runs, Started
  <2>2. \A r \in Runs : r > run => guestMem'[r] = guestMem[r] /\ shared'[r] = shared[r]
    BY <2>1 DEF FinishImport, Runs
  <2> QED
    BY <2>2 DEF Numbering, FinishImport, hostVars
<1>2. Quiet'
  <2>1. wpc' = wpc /\ calls' = calls /\ \A d \in CallIds : d # c => handler'[d] = handler[d]
    BY <1>t DEF FinishImport, CallTypes, workerVars
  <2>2. \A d \in CallIds : d < calls => d # c
    BY <1>w DEF CallIds
  <2> QED
    BY <1>w, <2>1, <2>2 DEF Quiet, Over, Blocked
<1>3. Open'
  BY <1>t, <1>w DEF Open, FinishImport, hostVars, workerVars, CallTypes, SlotTypes, CallIds,
     Runs, Started
<1>4. OpenMemory'
  <2>1. chan[c] = run /\ hostMem = run /\ handler[c] = "running" /\ run \in Runs
    BY <1>t, <1>w DEF FinishImport, Open, OpenMemory, HostTypes, Runs, Started
  <2>2. calls' = calls /\ run' = run /\ OwnWrites' = OwnWrites /\ handler'[calls] \in {"unsent", "copied"}
    BY <1>t, <1>w DEF FinishImport, CallTypes, OwnWrites, hostVars
  <2>3. <<calls, "host">> \in OwnWrites
    BY <1>w DEF OwnWrites, Writes, Open
  <2>4. shared'[run] = shared[run] \cup {<<calls, "host">>}
    BY <1>t, <1>w, <2>1 DEF FinishImport, MemTypes
  <2>5. guestMem'[run] \ {<<calls, "host">>} = guestMem[run] \ {<<calls, "host">>}
    BY <1>w DEF FinishImport
  <2>6. shared[run] = OwnWrites \ {<<calls, "host">>}
    BY <1>w, <2>1 DEF OpenMemory
  <2> QED
    BY <1>w, <2>2, <2>3, <2>4, <2>5 DEF OpenMemory
<1> QED
  BY <1>1, <1>2, <1>3, <1>4 DEF FinishImport, OwnChannel, Blocked, hostVars, workerVars

\* The length stored belongs to the bytes in the slot.
LEMMA StoreLengthSafe == ASSUME IInv, StoreLength PROVE Safe'
<1> USE Bounds DEF IInv, Safe
<1>t. HostTypes /\ WorkerTypes /\ CallTypes /\ SlotTypes /\ MemTypes /\ Started
  BY DEF TypeInv, TypeOK
<1>1. Quiet'
  BY DEF Quiet, Over, StoreLength, workerVars, Blocked
<1>2. Open'
  BY <1>t DEF Open, StoreLength, hostVars, workerVars, HostTypes, SlotTypes, Runs, Started,
     Blocked
<1> QED
  BY <1>1, <1>2 DEF StoreLength, Numbering, OwnChannel, Blocked, OpenMemory,
     OwnWrites, hostVars, workerVars, memVars

\* The flag is set when bytes and length are those of the open call.
LEMMA StoreFlagSafe == ASSUME IInv, StoreFlag PROVE Safe'
<1> USE Bounds DEF IInv, Safe
<1>t. HostTypes /\ WorkerTypes /\ CallTypes /\ SlotTypes /\ MemTypes /\ Started
  BY DEF TypeInv, TypeOK
<1>1. Numbering'
  <2>1. writing # 0 /\ chan[writing] = run
    BY DEF StoreFlag, Quiet, Open
  <2>2. \A r \in Runs : r > run => flag'[r] = flag[r]
    BY <1>t, <2>1 DEF StoreFlag, HostTypes
  <2> QED
    BY <2>2 DEF Numbering, StoreFlag, hostVars, memVars
<1>2. Quiet'
  BY DEF Quiet, Over, StoreFlag, workerVars, Blocked
<1>3. Open'
  BY <1>t DEF Open, StoreFlag, hostVars, workerVars, CallTypes, SlotTypes, Runs, Started,
     Blocked
<1>4. OpenMemory'
  BY DEF OpenMemory, StoreFlag, hostVars, workerVars, memVars, Blocked, OwnWrites
<1> QED
  BY <1>1, <1>2, <1>3, <1>4 DEF StoreFlag, OwnChannel, Blocked, hostVars, workerVars

\* The invariant is kept by every step.
LEMMA SafeStep == IInv /\ [Next]_vars /\ (RunCore => NoneLeftOver') => IInv'
<1> SUFFICES ASSUME IInv, RunCore => NoneLeftOver' PROVE [Next]_vars => IInv'
  OBVIOUS
<1>1. ASSUME RunCore PROVE Safe'
  BY <1>1, RunCoreSafe
<1>2. ASSUME Instantiated PROVE Safe'
  BY <1>2, InstantiatedSafe
<1>3. ASSUME Settled PROVE Safe'
  BY <1>3, SettledSafe
<1>4. ASSUME SetupFailed PROVE Safe'
  BY <1>4, SetupFailedSafe
<1>5. ASSUME StartEnded PROVE Safe'
  BY <1>5, StartEndedSafe
<1>6. ASSUME Resize PROVE Safe'
  BY <1>6, ResizeSafe
<1>7. ASSUME NEW o \in {"ok", "error"}, Instantiate(o) PROVE Safe'
  BY <1>7, InstantiateSafe
<1>8. ASSUME StartJob PROVE Safe'
  BY <1>8, StartJobSafe
<1>9. ASSUME NEW o \in {"ok", "error"}, GuestReturns(o) PROVE Safe'
  BY <1>9, GuestReturnsSafe
<1>10. ASSUME CallImport PROVE Safe'
  BY <1>10, CallImportSafe
<1>11. ASSUME TakeLength PROVE Safe'
  BY <1>11, TakeLengthSafe
<1>12. ASSUME TakeData PROVE Safe'
  BY <1>12, TakeDataSafe
<1>13. ASSUME ResumeGuest PROVE Safe'
  BY <1>13, ResumeGuestSafe
<1>14. ASSUME NEW c \in CallIds, Dispatch(c) PROVE Safe'
  BY <1>14, DispatchSafe
<1>15. ASSUME NEW c \in CallIds, FindChannel(c) PROVE Safe'
  BY <1>15, FindChannelSafe
<1>16. ASSUME NEW c \in CallIds, NEW k \in Kinds, FinishImport(c, k) PROVE Safe'
  BY <1>16, FinishImportSafe
<1>17. ASSUME StoreLength PROVE Safe'
  BY <1>17, StoreLengthSafe
<1>18. ASSUME StoreFlag PROVE Safe'
  BY <1>18, StoreFlagSafe
<1>19. ASSUME UNCHANGED vars PROVE Safe'
  BY <1>19 DEF IInv, Safe, Numbering, OwnChannel, Quiet, Over, Open, OpenMemory, Blocked,
     OwnWrites, vars, hostVars, workerVars, callVars, slotVars, memVars
<1>20. [Next]_vars => Safe'
  BY <1>1, <1>2, <1>3, <1>4, <1>5, <1>6, <1>7, <1>8, <1>9, <1>10, <1>11, <1>12, <1>13, <1>14,
     <1>15, <1>16, <1>17, <1>18, <1>19 DEF Next, Worker, Host
<1>21. [Next]_vars => TypeInv'
  BY TypeStep, StartedStep, ContentsStep DEF IInv, TypeInv
<1> QED
  BY <1>20, <1>21 DEF IInv

\* The invariant holds initially.
LEMMA SafeInit == Init => IInv
<1>1. Init => TypeInv
  BY TypeInvInit
<1>2. Init => Safe
  BY DEF Init, Safe, Numbering, OwnChannel, Quiet, Open, OpenMemory, Blocked, Runs
<1> QED
  BY <1>1, <1>2 DEF IInv

\* The invariant holds as long as nothing is left over when a run begins.
LEMMA Invariance == Spec /\ []NoneLeftOver => []IInv
<1>1. Init => IInv
  BY SafeInit
<1>2. IInv /\ NoneLeftOver' /\ [Next]_vars => IInv'
  BY SafeStep
<1> QED
  BY <1>1, <1>2, PTL DEF Spec

-----------------------------------------------------------------------------
(* When nothing can be left over. *)

\* Without a terminal there is one export call per run, and a run that has
\* ended leaves an idle worker behind.
OneJob ==
  ~HasTty =>
    /\ phase # "settling"
    /\ phase = "instantiating" => jobs = <<>> /\ wpc \in {"instantiate", "idle"}
    /\ phase \in {"returned", "exited", "failed"} => jobs = <<>> /\ wpc = "idle"
    /\ jobs \in {<<>>, <<"start">>}
    /\ phase = "running" /\ (reply # "none" \/ Blocked \/ wpc = "guest") => jobs = <<>>
    /\ phase = "running" /\ reply # "none" => wpc = "idle"
    /\ phase = "instantiating" /\ reply # "none" => wpc = "idle"
    /\ phase = "running" => wpc # "instantiate"

\* While the invariant holds, only the open call of the current run is handled.
LEMMA NothingLeft == IInv => NoneLeftOver
<1> SUFFICES ASSUME IInv, NEW c \in CallIds, handler[c] # "none", ~Over(c)
             PROVE  origin[c] = run
  BY DEF NoneLeftOver, Over
<1> QED
  BY Working DEF IInv, Safe, Open

\* Without a terminal the worker stays with its one export call.
LEMMA OneJobStep == IInv /\ OneJob /\ [Next]_vars => OneJob'
<1> SUFFICES ASSUME IInv, OneJob PROVE [Next]_vars => OneJob'
  OBVIOUS
<1>t. HostTypes /\ WorkerTypes /\ CallTypes /\ SlotTypes /\ Started
  BY DEF IInv, TypeInv, TypeOK
<1>1. ASSUME RunCore \/ Instantiated \/ Settled \/ SetupFailed \/ StartEnded \/ Resize PROVE OneJob'
  <2>1. CASE RunCore
    BY <2>1 DEF OneJob, RunCore
  <2>2. CASE Instantiated
    BY <2>2 DEF OneJob, Instantiated, Blocked
  <2>3. CASE Settled
    BY <2>3 DEF OneJob, Settled
  <2>4. CASE SetupFailed
    BY <2>4 DEF OneJob, SetupFailed
  <2>5. CASE StartEnded
    BY <2>5 DEF OneJob, StartEnded
  <2>6. CASE Resize
    BY <2>6 DEF OneJob, Resize
  <2> QED
    BY <1>1, <2>1, <2>2, <2>3, <2>4, <2>5, <2>6
<1>2. ASSUME StoreLength \/ StoreFlag PROVE OneJob'
  BY <1>2 DEF OneJob, Blocked, StoreLength, StoreFlag, hostVars, workerVars
<1>3. ASSUME NEW c \in CallIds,
             Dispatch(c) \/ FindChannel(c) \/ \E k \in Kinds : FinishImport(c, k)
      PROVE  OneJob'
  BY <1>3 DEF OneJob, Blocked, Dispatch, FindChannel, FinishImport, hostVars, workerVars
<1>4. ASSUME NEW o \in {"ok", "error"}, Instantiate(o) \/ GuestReturns(o) PROVE OneJob'
  <2>1. CASE Instantiate(o)
    BY <1>t, <2>1 DEF HostTypes, Started, OneJob, Blocked, Instantiate, hostVars
  <2>2. CASE GuestReturns(o)
    BY <1>t, <2>2 DEF HostTypes, Started, OneJob, Blocked, GuestReturns, EndJob, hostVars
  <2> QED
    BY <1>4, <2>1, <2>2
<1>5. ASSUME StartJob PROVE OneJob'
  <2>1. wpc = "idle" /\ jobs # <<>> /\ jobs' = Tail(jobs) /\ wpc' = "guest"
        /\ phase' = phase /\ reply' = reply
    BY <1>5 DEF StartJob, hostVars
  <2>2. ~HasTty => jobs = <<"start">>
    BY <2>1 DEF OneJob
  <2>3. Tail(<<"start">>) = <<>>
    OBVIOUS
  <2> QED
    BY <2>1, <2>2, <2>3 DEF OneJob, Blocked
<1>6. ASSUME CallImport \/ TakeLength \/ TakeData PROVE OneJob'
  BY <1>6 DEF OneJob, Blocked, CallImport, TakeLength, TakeData, hostVars
<1>7. ASSUME ResumeGuest PROVE OneJob'
  BY <1>t, <1>7 DEF HostTypes, Started, OneJob, Blocked, ResumeGuest, EndJob, hostVars
<1>8. ASSUME UNCHANGED vars PROVE OneJob'
  BY <1>8 DEF OneJob, Blocked, vars, hostVars, workerVars
<1> QED
  BY <1>1, <1>2, <1>3, <1>4, <1>5, <1>6, <1>7, <1>8 DEF Next, Worker, Host

\* A WASI object that is used once, or has no terminal, starts every run with
\* nothing left over: its worker is not waiting for an answer then.
LEMMA CleanStart ==
  ASSUME NoLeftovers, IInv, OneJob, RunCore
  PROVE  NoneLeftOver'
<1> USE Bounds DEF IInv, Safe
<1>t. HostTypes /\ CallTypes /\ Started
  BY DEF TypeInv, TypeOK
<1>1. ~Blocked
  BY <1>t DEF RunCore, OneJob, NoLeftovers, Blocked, HostTypes, Started
<1>2. ASSUME NEW c \in CallIds PROVE handler[c] = "none" \/ Over(c)
  BY <1>t, <1>1 DEF Quiet, Started, CallTypes, CallIds
<1> QED
  BY <1>2 DEF NoneLeftOver, Over, RunCore, callVars

\* A WASI object that is used once, or in an environment without a terminal,
\* never has a handler left over from an earlier run: NoneLeftOver, which the
\* theorems below assume of a behaviour, holds in all of them.
THEOREM NeverLeftOver == NoLeftovers => (Spec => []NoneLeftOver)
<1> SUFFICES ASSUME NoLeftovers PROVE Spec => []NoneLeftOver
  OBVIOUS
<1>1. Init => IInv /\ OneJob
  BY SafeInit DEF Init, OneJob, Blocked
<1>2. IInv /\ OneJob /\ [Next]_vars => (IInv /\ OneJob)'
  BY SafeStep, OneJobStep, CleanStart
<1>3. IInv => NoneLeftOver
  BY NothingLeft
<1> QED
  BY <1>1, <1>2, <1>3, PTL DEF Spec

-----------------------------------------------------------------------------
(* The safety properties. *)

\* What readMessage takes out of the channel is, bytes and length, the answer
\* to the call that the worker waits for: without ids no answer is mixed up.
THEOREM AnswersAreOwn == Spec /\ []NoneLeftOver => []AnswerIsOwn
<1>1. IInv => AnswerIsOwn
  BY DEF IInv, Safe, Open, Blocked, AnswerIsOwn
<1> QED
  BY Invariance, <1>1, PTL

\* writeMessage stores only the message the worker is blocked on.
THEOREM MessagesDoNotOverlap == Spec /\ []NoneLeftOver => []OneMessageAtATime
<1>1. IInv => OneMessageAtATime
  BY DEF IInv, Safe, Quiet, Open, Blocked, OneMessageAtATime
<1> QED
  BY Invariance, <1>1, PTL

\* The copies of the guest's memory to and from the shared buffer lose nothing
\* and mix up nothing.
THEOREM MemoryStaysCoherent == Spec /\ []NoneLeftOver => []MemoryCoherent
<1>1. IInv => MemoryCoherent
  <2> SUFFICES ASSUME IInv PROVE MemoryCoherent
    OBVIOUS
  <2>1. ASSUME NEW c \in CallIds, handler[c] = "running"
        PROVE  <<c, "guest">> \in shared[hostMem]
    <3>1. c = calls /\ Blocked
      BY <2>1, Working DEF Over
    <3>2. <<c, "guest">> \in OwnWrites
      BY <3>1 DEF IInv, Safe, Open, OwnWrites, Writes
    <3> QED
      BY <2>1, <3>1, <3>2 DEF IInv, Safe, OpenMemory
  <2>2. ASSUME wpc = "guest" PROVE guestMem[run] = {w \in Writes : origin[w[1]] = run}
    BY <2>2 DEF IInv, TypeInv, Started, Safe, Quiet, Over, Blocked, OwnWrites
  <2> QED
    BY <2>1, <2>2 DEF MemoryCoherent
<1> QED
  BY Invariance, <1>1, PTL

-----------------------------------------------------------------------------
(* Refinement of SyncCall. *)

\* The initial state is an initial state of a synchronous call.
LEMMA RefinesInit == Init => Sync!Init
BY DEF Init, Sync!Init, Sync!CallIds, CallIds, Stage, GuestSees

\* An import call begins a synchronous call.
LEMMA CallRefines == ASSUME IInv, CallImport PROVE Sync!Call
<1>t. HostTypes /\ CallTypes /\ MemTypes /\ Started
  BY DEF IInv, TypeInv, TypeOK
<1> DEFINE n == calls + 1
<1>1. n \in CallIds /\ calls < MaxCalls /\ calls' = n /\ cur' = n /\ handler'[n] = "posted"
  BY <1>t, Bounds DEF CallImport, CallTypes, CallIds
<1>2. run \in Runs /\ run # 0 /\ run' = run
  BY <1>t DEF CallImport, HostTypes, Started, Runs, hostVars
<1>3. Stage = "guest" /\ Stage' = "called"
  BY <1>1 DEF CallImport, Stage
<1>4. guestMem[run] = OwnWrites
  BY <1>2 DEF CallImport, Blocked, IInv, Safe, Quiet, Over
<1>5. <<n, "host">> \notin OwnWrites
  BY <1>t, <1>1, <1>2 DEF OwnWrites, IInv, Safe, Numbering, CallTypes
<1>6. GuestSees' = GuestSees \cup {<<n, "guest">>}
  <2>1. guestMem'[run] = guestMem[run] \cup {<<n, "guest">>}
    BY <1>t, <1>2 DEF CallImport, MemTypes
  <2> QED
    BY <1>1, <1>2, <1>3, <1>4, <1>5, <2>1 DEF GuestSees
<1> QED
  BY <1>3, <1>6 DEF Sync!Call, CallImport, slotVars, hostVars

\* The completion of an import serves the call, or loses the answer.
LEMMA FinishRefines ==
  ASSUME IInv, NEW c \in CallIds, NEW k \in Kinds, FinishImport(c, k)
  PROVE  Sync!Serve \/ Sync!Lose
<1>t. HostTypes /\ CallTypes /\ MemTypes /\ Started
  BY DEF IInv, TypeInv, TypeOK
<1>1. c = calls /\ wpc = "wait" /\ Blocked
  BY Working DEF Over, FinishImport
<1>2. hostMem = run /\ cur = calls /\ run \in Runs /\ run # 0
  BY <1>t, <1>1 DEF IInv, Safe, Open, OpenMemory, FinishImport, HostTypes, Started, Runs
<1>3. calls' = calls /\ cur' = cur /\ wpc' = wpc /\ run' = run /\ got' = got
  BY DEF FinishImport, hostVars, workerVars
<1>4. Stage = "called"
  BY <1>1, <1>2 DEF Stage, FinishImport
<1>5. answer' = [answer EXCEPT ![calls] = k]
  BY <1>1 DEF FinishImport
<1>6. GuestSees' = GuestSees
  <2>1. guestMem'[run] \ {<<calls, "host">>} = guestMem[run] \ {<<calls, "host">>}
    BY <1>1 DEF FinishImport
  <2>2. Stage' # "guest"
    BY <1>1, <1>3 DEF Stage
  <2> QED
    BY <1>2, <1>3, <1>4, <2>1, <2>2 DEF GuestSees
<1>7. CASE k = "unsendable"
  <2>1. Stage' = "called"
    BY <1>t, <1>1, <1>2, <1>3, <1>7 DEF FinishImport, Stage, CallTypes
  <2> QED
    BY <1>3, <1>4, <1>5, <1>6, <2>1 DEF Sync!Lose
<1>8. CASE k # "unsendable"
  <2>1. Stage' = "served"
    BY <1>t, <1>1, <1>2, <1>3, <1>8 DEF FinishImport, Stage, CallTypes
  <2> QED
    BY <1>3, <1>4, <1>5, <1>6, <2>1 DEF Sync!Serve
<1> QED
  BY <1>7, <1>8

\* The guest goes on with its own answer and with all writes of the import.
LEMMA ReturnRefines == ASSUME IInv, ResumeGuest PROVE Sync!Return
<1>t. HostTypes /\ CallTypes /\ SlotTypes /\ MemTypes /\ Started
  BY DEF IInv, TypeInv, TypeOK
<1>1. wpc = "taken" /\ Blocked
  BY DEF ResumeGuest, Blocked
<1>2. wpc' \in {"guest", "idle"}
  <2>1. CASE answer[readData] = "value"
    BY <2>1 DEF ResumeGuest
  <2>2. CASE answer[readData] # "value"
    BY DEF ResumeGuest, EndJob
  <2> QED
    BY <2>1, <2>2
<1>3. readData = calls /\ cur = calls /\ handler[calls] = "answered" /\ calls \in CallIds
  BY <1>1 DEF IInv, Safe, Open
<1>4. run \in Runs /\ run # 0 /\ run' = run /\ calls' = calls /\ answer' = answer
  BY <1>t DEF ResumeGuest, HostTypes, Started, Runs, hostVars, callVars
<1>5. Stage = "served" /\ Stage' = "guest"
  BY <1>1, <1>2, <1>3 DEF Stage
<1>6. <<calls, "host">> \in OwnWrites
  BY <1>1 DEF IInv, Safe, Open, OwnWrites, Writes
<1>7. GuestSees = OwnWrites \ {<<calls, "host">>}
  BY <1>1, <1>3, <1>4, <1>5 DEF GuestSees, IInv, Safe, OpenMemory
<1>8. GuestSees' = OwnWrites
  <2>1. guestMem'[run] = shared[run]
    BY <1>t, <1>4 DEF ResumeGuest, MemTypes
  <2>2. shared[run] = OwnWrites
    BY <1>1, <1>3 DEF IInv, Safe, OpenMemory
  <2> QED
    BY <1>4, <1>5, <2>1, <2>2 DEF GuestSees
<1>9. got' = [call |-> calls, kind |-> answer[calls]]
  BY <1>3 DEF ResumeGuest
<1> QED
  BY <1>4, <1>5, <1>6, <1>7, <1>8, <1>9 DEF Sync!Return

\* A new run starts with a fresh memory, wherever the program before it was.
LEMMA ResetRefines == ASSUME IInv, RunCore PROVE Sync!Reset
<1>t. HostTypes /\ WorkerTypes /\ Started
  BY DEF IInv, TypeInv, TypeOK
<1>1. Stage' = "guest"
  BY DEF RunCore, Stage
<1>2. run' \in Runs /\ run' > run /\ run' # 0 /\ run' = run + 1
  BY <1>t, Bounds DEF RunCore, HostTypes, Runs
<1>3. GuestSees' = {}
  BY <1>1, <1>2 DEF GuestSees, IInv, Safe, Numbering, RunCore, memVars
<1> QED
  BY <1>1, <1>2, <1>3 DEF Sync!Reset, RunCore, callVars, slotVars

\* All other steps are invisible to the guest.
LEMMA StutterRefines ==
  ASSUME IInv,
         \/ Instantiated \/ Settled \/ SetupFailed \/ StartEnded \/ Resize
         \/ StartJob \/ TakeLength \/ TakeData \/ StoreLength \/ StoreFlag
         \/ \E o \in {"ok", "error"} : Instantiate(o) \/ GuestReturns(o)
         \/ \E c \in CallIds : Dispatch(c) \/ FindChannel(c)
  PROVE  UNCHANGED Sync!absVars
<1>t. HostTypes /\ WorkerTypes /\ CallTypes /\ SlotTypes /\ Started
  BY DEF IInv, TypeInv, TypeOK
<1> SUFFICES /\ run' = run /\ cur' = cur /\ guestMem' = guestMem
             /\ calls' = calls /\ answer' = answer /\ got' = got
             /\ Stage' = Stage
  BY DEF Sync!absVars, GuestSees
<1> USE DEF hostVars, workerVars, callVars, slotVars, memVars
<1>1. CASE Instantiated \/ Settled \/ SetupFailed \/ StartEnded \/ Resize
  BY <1>1 DEF Instantiated, Settled, SetupFailed, StartEnded, Resize, Stage
<1>2. CASE StartJob
  BY <1>2 DEF StartJob, Stage
<1>3. CASE TakeLength \/ TakeData
  <2>1. wpc \in {"wait", "sized"} /\ wpc' \in {"sized", "taken"} /\ handler' = handler /\ cur' = cur
    BY <1>3 DEF TakeLength, TakeData
  <2>2. handler[cur] = "answered"
    BY <1>3 DEF TakeLength, TakeData, IInv, Safe, Open, Blocked
  <2> QED
    BY <1>3 DEF TakeLength, TakeData, Stage
<1>4. CASE StoreLength \/ StoreFlag
  <2>1. writing # 0 /\ handler[writing] \in {"copied", "sized"}
    BY <1>4 DEF StoreLength, StoreFlag
  <2>2. writing = cur /\ Blocked
    BY <2>1 DEF IInv, Safe, Quiet, Open
  <2>3. handler'[cur] \in {"sized", "answered"}
    <3>1. cur \in CallIds /\ DOMAIN handler = CallIds
      <4>1. writing \in CallIds
        BY <1>t, <2>1 DEF CallTypes, CallIds
      <4> QED
        BY <1>t, <2>2, <4>1 DEF CallTypes
    <3>2. \/ handler' = [handler EXCEPT ![cur] = "sized"]
          \/ handler' = [handler EXCEPT ![cur] = "answered"]
      BY <1>4, <2>2 DEF StoreLength, StoreFlag
    <3> QED
      BY <3>1, <3>2
  <2> QED
    BY <1>4, <2>2, <2>3 DEF StoreLength, StoreFlag, Stage
<1>5. ASSUME NEW o \in {"ok", "error"}, Instantiate(o) \/ GuestReturns(o)
      PROVE  /\ run' = run /\ cur' = cur /\ guestMem' = guestMem
             /\ calls' = calls /\ answer' = answer /\ got' = got
             /\ Stage' = Stage
  BY <1>5 DEF Instantiate, GuestReturns, EndJob, Stage
<1>6. ASSUME NEW c \in CallIds, Dispatch(c) \/ FindChannel(c)
      PROVE  /\ run' = run /\ cur' = cur /\ guestMem' = guestMem
             /\ calls' = calls /\ answer' = answer /\ got' = got
             /\ Stage' = Stage
  <2>1. handler[c] \in {"posted", "noChannel"}
    BY <1>6 DEF Dispatch, FindChannel
  <2>2. c = cur
    BY <2>1, Working DEF Over, IInv, Safe, Open
  <2>3. handler'[c] \in {"noChannel", "running"}
    BY <1>t, <1>6 DEF Dispatch, FindChannel, BeginImport, CallTypes
  <2> QED
    BY <1>6, <2>2, <2>3 DEF Dispatch, FindChannel, Stage
<1> QED
  BY <1>1, <1>2, <1>3, <1>4, <1>5, <1>6

\* To a guest, the worker protocol is a synchronous call: every step is a step
\* of SyncCall or changes nothing that the guest can see.
THEOREM RefinesSyncCall == Spec /\ []NoneLeftOver => ImplementsSyncCall
<1>1. Init => Sync!Init
  BY RefinesInit
<1>2. IInv /\ [Next]_vars => [Sync!Next]_(Sync!absVars)
  <2> SUFFICES ASSUME IInv, [Next]_vars PROVE Sync!Next \/ UNCHANGED Sync!absVars
    OBVIOUS
  <2>1. CASE UNCHANGED vars
    BY <2>1 DEF vars, hostVars, workerVars, callVars, slotVars, memVars, Sync!absVars, Stage,
       GuestSees
  <2>2. CASE CallImport
    BY <2>2, CallRefines DEF Sync!Next
  <2>3. CASE ResumeGuest
    BY <2>3, ReturnRefines DEF Sync!Next
  <2>4. CASE RunCore
    BY <2>4, ResetRefines DEF Sync!Next
  <2>5. CASE \E c \in CallIds, k \in Kinds : FinishImport(c, k)
    BY <2>5, FinishRefines DEF Sync!Next
  <2>6. CASE \/ Instantiated \/ Settled \/ SetupFailed \/ StartEnded \/ Resize
             \/ StartJob \/ TakeLength \/ TakeData \/ StoreLength \/ StoreFlag
             \/ \E o \in {"ok", "error"} : Instantiate(o) \/ GuestReturns(o)
             \/ \E c \in CallIds : Dispatch(c) \/ FindChannel(c)
    BY <2>6, StutterRefines
  <2> QED
    BY <2>1, <2>2, <2>3, <2>4, <2>5, <2>6 DEF Next, Worker, Host
<1> QED
  BY <1>1, <1>2, Invariance, PTL DEF Spec, ImplementsSyncCall, Sync!Spec

\* All of it for a WASI object that is used once, or has no terminal: there is
\* no assumption about its behaviour left.
THEOREM OnceIsSound ==
  NoLeftovers => (Spec => ImplementsSyncCall /\ [](AnswerIsOwn /\ OneMessageAtATime /\ MemoryCoherent))
BY NeverLeftOver, RefinesSyncCall, AnswersAreOwn, MessagesDoNotOverlap, MemoryStaysCoherent, PTL

-----------------------------------------------------------------------------
(* Liveness: an answer travels step by step to the guest that waits for it.  *)

\* The answer to c is in the slot, and the worker is at point p.
Underway(c, p) == handler[c] = "answered" /\ calls = c /\ alive /\ wpc = p

\* The guest that made call c has its answer, or will not need it any more.
Delivered(c) == got.call = c \/ ~alive

\* While an answer is being stored, nobody but writeMessage touches it.
LEMMA StoringStep ==
  ASSUME NEW c \in CallIds, IInv, IInv', [Next]_vars, handler[c] \in {"copied", "sized"}
  PROVE  /\ handler'[c] = handler[c] \/ StoreLength \/ StoreFlag
         /\ writing = c /\ calls = c /\ wpc = "wait"
<1>t. CallTypes
  BY DEF IInv, TypeInv, TypeOK
<1>1. c = calls /\ wpc = "wait" /\ Blocked
  BY Working DEF Over
<1>2. writing = c
  BY <1>1 DEF IInv, Safe, Open
<1> SUFFICES handler'[c] = handler[c] \/ StoreLength \/ StoreFlag
  BY <1>1, <1>2
<1>3. CASE Worker
  BY <1>1, <1>3 DEF Worker, Instantiate, GuestReturns, StartJob, CallImport, TakeLength,
     TakeData, ResumeGuest, callVars
<1>4. CASE Host
  <2>1. CASE RunCore \/ Instantiated \/ Settled \/ SetupFailed \/ StartEnded \/ Resize
    BY <2>1 DEF RunCore, Instantiated, Settled, SetupFailed, StartEnded, Resize, callVars
  <2>2. ASSUME NEW d \in CallIds, Dispatch(d) \/ FindChannel(d) PROVE FALSE
    BY <1>2, <2>2 DEF Dispatch, FindChannel, HostFree, CallIds
  <2>3. ASSUME NEW d \in CallIds, NEW k \in Kinds, FinishImport(d, k) PROVE FALSE
    BY <1>2, <2>3 DEF FinishImport, HostFree, CallIds
  <2> QED
    BY <1>4, <2>1, <2>2, <2>3 DEF Host
<1>5. CASE UNCHANGED vars
  BY <1>5 DEF vars, callVars
<1> QED
  BY <1>3, <1>4, <1>5 DEF Next

\* While the worker takes an answer out of the slot, nothing else happens to it
\* but the end of the worker.
LEMMA TakingStep ==
  ASSUME NEW c \in CallIds, NEW p \in {"wait", "sized", "taken"}, IInv, [Next]_vars,
         Underway(c, p)
  PROVE  Underway(c, p)' \/ (~alive)' \/ TakeLength \/ TakeData \/ ResumeGuest
<1> USE DEF Underway
<1>t. CallTypes
  BY DEF IInv, TypeInv, TypeOK
<1>1. \A d \in CallIds : handler[d] = "none" \/ Over(d)
  BY Working DEF Over
<1>2. CASE Worker
  BY <1>2 DEF Worker, Instantiate, GuestReturns, StartJob, CallImport
<1>3. CASE Host
  <2>1. CASE RunCore \/ Instantiated \/ Settled \/ SetupFailed \/ StartEnded \/ Resize
    BY <2>1 DEF RunCore, Instantiated, Settled, SetupFailed, StartEnded, Resize, callVars
  <2>2. ASSUME NEW d \in CallIds,
               Dispatch(d) \/ FindChannel(d) \/ \E k \in Kinds : FinishImport(d, k)
        PROVE  FALSE
    BY <1>1, <2>2 DEF Dispatch, FindChannel, FinishImport, Over
  <2>3. ~StoreLength /\ ~StoreFlag
    BY <1>t, <1>1 DEF StoreLength, StoreFlag, Over, CallTypes, CallIds
  <2> QED
    BY <1>3, <2>1, <2>2, <2>3 DEF Host
<1>4. CASE UNCHANGED vars
  BY <1>4 DEF vars, workerVars, callVars
<1> QED
  BY <1>2, <1>3, <1>4 DEF Next

\* The leads-to steps for one call.
LEMMA AnswerOfCall ==
  ASSUME NEW c \in CallIds
  PROVE  FairSpec /\ []NoneLeftOver /\ []Ready => ((handler[c] = "copied") ~> Delivered(c))
<1> DEFINE Copied == handler[c] = "copied"
           Sized == handler[c] = "sized"
<1>1. IInv /\ IInv' /\ [Next]_vars /\ Copied => Copied' \/ Sized'
  <2> SUFFICES ASSUME IInv, IInv', [Next]_vars, Copied PROVE Copied' \/ Sized'
    OBVIOUS
  <2>1. CASE StoreLength
    BY <2>1, StoringStep DEF StoreLength, IInv, TypeInv, TypeOK, CallTypes
  <2>2. ~StoreFlag
    BY StoringStep DEF StoreFlag
  <2> QED
    BY <2>1, <2>2, StoringStep
<1>2. IInv /\ IInv' /\ <<StoreLength>>_vars /\ Copied => Sized'
  BY StoringStep DEF StoreLength, IInv, TypeInv, TypeOK, CallTypes, Next, Host
<1>3. IInv /\ IInv' /\ [Next]_vars /\ Sized => Sized' \/ Underway(c, "wait")' \/ Delivered(c)'
  <2> SUFFICES ASSUME IInv, IInv', [Next]_vars, Sized
               PROVE  Sized' \/ Underway(c, "wait")' \/ Delivered(c)'
    OBVIOUS
  <2>1. CASE StoreFlag
    BY <2>1, StoringStep DEF StoreFlag, IInv, TypeInv, TypeOK, CallTypes, workerVars, Underway, Delivered
  <2>2. ~StoreLength
    BY StoringStep DEF StoreLength
  <2> QED
    BY <2>1, <2>2, StoringStep
<1>4. IInv /\ IInv' /\ <<StoreFlag>>_vars /\ Sized => Underway(c, "wait")' \/ Delivered(c)'
  BY StoringStep DEF StoreFlag, IInv, TypeInv, TypeOK, CallTypes, workerVars, Underway, Delivered,
     Next, Host
<1>5. IInv /\ [Next]_vars /\ Underway(c, "wait")
        => Underway(c, "wait")' \/ Underway(c, "sized")' \/ Delivered(c)'
  BY TakingStep DEF Underway, Delivered, TakeLength, TakeData, ResumeGuest, callVars
<1>6. IInv /\ <<TakeLength>>_vars /\ Underway(c, "wait") => Underway(c, "sized")'
  BY DEF Underway, TakeLength, callVars
<1>7. IInv /\ [Next]_vars /\ Underway(c, "sized")
        => Underway(c, "sized")' \/ Underway(c, "taken")' \/ Delivered(c)'
  BY TakingStep DEF Underway, Delivered, TakeLength, TakeData, ResumeGuest, callVars
<1>8. IInv /\ <<TakeData>>_vars /\ Underway(c, "sized") => Underway(c, "taken")'
  BY DEF Underway, TakeData, callVars
<1>9. IInv /\ ResumeGuest /\ Underway(c, "taken") => Delivered(c)'
  BY DEF Underway, Delivered, ResumeGuest, IInv, Safe, Open, Blocked
<1>10. IInv /\ [Next]_vars /\ Underway(c, "taken") => Underway(c, "taken")' \/ Delivered(c)'
  BY <1>9, TakingStep DEF Underway, Delivered, TakeLength, TakeData
<1>11. IInv /\ IInv' /\ Ready /\ Copied => ENABLED <<StoreLength>>_vars
  <2>1. IInv /\ Copied => writing = c
    BY Working DEF Over, IInv, Safe, Open
  <2> QED
    BY <2>1 DEF Ready, CallIds
<1>12. IInv /\ IInv' /\ Ready /\ Sized => ENABLED <<StoreFlag>>_vars
  <2>1. IInv /\ Sized => writing = c
    BY Working DEF Over, IInv, Safe, Open
  <2> QED
    BY <2>1 DEF Ready, CallIds
<1>13. IInv /\ Ready /\ Underway(c, "wait") => ENABLED <<TakeLength>>_vars
  <2>1. IInv /\ Underway(c, "wait") => flag[run] = 1
    BY DEF Underway, IInv, Safe, Open, Blocked
  <2> QED
    BY <2>1 DEF Ready, Underway
<1>14. Ready /\ Underway(c, "sized") => ENABLED <<TakeData>>_vars
  BY DEF Ready, Underway
<1>15. Ready /\ Underway(c, "taken") => ENABLED <<ResumeGuest>>_vars
  BY DEF Ready, Underway
<1> HIDE DEF Copied, Sized
<1>16. FairSpec /\ []NoneLeftOver /\ []Ready => (Copied ~> Sized)
  BY <1>1, <1>2, <1>11, Invariance, PTL DEF FairSpec, Spec, Fairness
<1>17. FairSpec /\ []NoneLeftOver /\ []Ready => (Sized ~> Underway(c, "wait") \/ Delivered(c))
  BY <1>3, <1>4, <1>12, Invariance, PTL DEF FairSpec, Spec, Fairness
<1>18. FairSpec /\ []NoneLeftOver /\ []Ready => (Underway(c, "wait") ~> Underway(c, "sized") \/ Delivered(c))
  BY <1>5, <1>6, <1>13, Invariance, PTL DEF FairSpec, Spec, Fairness
<1>19. FairSpec /\ []NoneLeftOver /\ []Ready => (Underway(c, "sized") ~> Underway(c, "taken") \/ Delivered(c))
  BY <1>7, <1>8, <1>14, Invariance, PTL DEF FairSpec, Spec, Fairness
<1>20. FairSpec /\ []NoneLeftOver /\ []Ready => (Underway(c, "taken") ~> Delivered(c))
  BY <1>9, <1>10, <1>15, Invariance, PTL DEF FairSpec, Spec, Fairness
<1>21. FairSpec /\ []NoneLeftOver /\ []Ready => (Copied ~> Delivered(c))
  BY <1>16, <1>17, <1>18, <1>19, <1>20, PTL
<1> QED
  BY <1>21 DEF Copied

\* An answer whose storing has begun reaches the guest that waits for it, step
\* by step of writeMessage and readMessage, unless its worker is terminated.
THEOREM AnswersAreDelivered == FairSpec /\ []NoneLeftOver /\ []Ready => AnswerDelivered
<1>1. ASSUME NEW c \in CallIds
      PROVE  FairSpec /\ []NoneLeftOver /\ []Ready
               => ((handler[c] = "copied") ~> (got.call = c \/ ~alive))
  BY AnswerOfCall DEF Delivered
<1> QED
  BY <1>1 DEF AnswerDelivered

\* While a live guest waits for call c to be handled, the main thread is not
\* writing a message, there is a channel, and nothing else concerns the call.
LEMMA PostedStep ==
  ASSUME NEW c \in CallIds, IInv, StrandInv, handler[c] = "posted", alive
  PROVE  /\ writing = 0 /\ channel # 0
         /\ [Next]_vars => handler'[c] = "posted" \/ Dispatch(c)
<1>t. CallTypes
  BY DEF IInv, TypeInv, TypeOK
<1>1. c = calls /\ wpc = "wait" /\ Blocked
  BY Working DEF Over
<1>2. writing = 0
  BY <1>1 DEF IInv, Safe, Open
<1>3. channel # 0
  BY <1>1 DEF StrandInv, HasChannel
<1> SUFFICES ASSUME [Next]_vars PROVE handler'[c] = "posted" \/ Dispatch(c)
  BY <1>2, <1>3
<1>4. CASE Worker
  BY <1>1, <1>4 DEF Worker, Instantiate, GuestReturns, StartJob, CallImport, TakeLength,
     TakeData, ResumeGuest, callVars
<1>5. CASE Host
  <2>1. CASE RunCore \/ Instantiated \/ Settled \/ SetupFailed \/ StartEnded \/ Resize
    BY <2>1 DEF RunCore, Instantiated, Settled, SetupFailed, StartEnded, Resize, callVars
  <2>2. ASSUME NEW d \in CallIds, Dispatch(d) PROVE handler'[c] = "posted" \/ Dispatch(c)
    BY <1>t, <2>2 DEF Dispatch, BeginImport, CallTypes
  <2>3. ASSUME NEW d \in CallIds, FindChannel(d) \/ \E k \in Kinds : FinishImport(d, k)
        PROVE  handler'[c] = "posted"
    BY <1>t, <2>3 DEF FindChannel, BeginImport, FinishImport, CallTypes
  <2>4. ~StoreLength /\ ~StoreFlag
    BY <1>2 DEF StoreLength, StoreFlag
  <2> QED
    BY <1>5, <2>1, <2>2, <2>3, <2>4 DEF Host
<1>6. CASE UNCHANGED vars
  BY <1>6 DEF vars, callVars
<1> QED
  BY <1>4, <1>5, <1>6 DEF Next

\* The leads-to step for one call: its message is delivered to a handler, and
\* the handler finds the channel.
LEMMA CallIsHandled ==
  ASSUME NEW c \in CallIds
  PROVE  FairSpec /\ []NoneLeftOver /\ []Ready
           => ((handler[c] = "posted") ~> (chan[c] # 0 \/ ~alive \/ origin[c] # run))
<1> DEFINE Posted == handler[c] = "posted"
           Reached == chan[c] # 0 \/ ~alive \/ origin[c] # run
<1>1. IInv /\ StrandInv /\ Dispatch(c) /\ Posted => Posted' \/ Reached'
  <2> SUFFICES ASSUME IInv, StrandInv, Dispatch(c), Posted, alive' PROVE chan'[c] # 0
    OBVIOUS
  <2>1. channel # 0
    BY PostedStep DEF Dispatch, workerVars
  <2>2. chan' = [chan EXCEPT ![c] = channel]
    BY <2>1 DEF Dispatch, BeginImport
  <2> QED
    BY <2>1, <2>2 DEF IInv, TypeInv, TypeOK, CallTypes
<1>2. IInv /\ StrandInv /\ [Next]_vars /\ Posted /\ alive => Posted' \/ Reached'
  BY <1>1, PostedStep
<1>3. IInv /\ StrandInv /\ <<Dispatch(c)>>_vars /\ Posted /\ alive => Reached'
  <2> SUFFICES ASSUME IInv, StrandInv, Dispatch(c), Posted, alive PROVE Reached'
    OBVIOUS
  <2>1. handler'[c] = "running"
    BY PostedStep DEF Dispatch, BeginImport, IInv, TypeInv, TypeOK, CallTypes
  <2> QED
    BY <1>1, <2>1
<1>4. IInv /\ StrandInv /\ Ready /\ Posted /\ alive => ENABLED <<Dispatch(c)>>_vars
  BY PostedStep DEF Ready, HostFree
<1>5. FairToCalls => FairToCall(c)
  BY DEF FairToCalls
<1>6. ~alive => Reached
  OBVIOUS
<1> HIDE DEF Posted, Reached
<1>7. FairSpec /\ []NoneLeftOver /\ []Ready => (Posted ~> Reached)
  BY <1>2, <1>3, <1>4, <1>5, <1>6, Invariance, StrandInvariance, PTL DEF FairSpec, Spec, Fairness, FairToCall
<1> QED
  BY <1>7 DEF Posted, Reached

\* A call that a guest has posted reaches its import: the main thread is free to
\* take up the message, and the handler finds a channel.
THEOREM CallsReachImports == FairSpec /\ []NoneLeftOver /\ []Ready => CallReachesImport
<1>1. ASSUME NEW c \in CallIds
      PROVE  FairSpec /\ []NoneLeftOver /\ []Ready
               => ((handler[c] = "posted") ~> (chan[c] # 0 \/ ~alive \/ origin[c] # run))
  BY CallIsHandled
<1> QED
  BY <1>1 DEF CallReachesImport
=============================================================================
