----------------------------- MODULE CoreWorker -----------------------------
(***************************************************************************)
(* A core WebAssembly instance that runs on a worker thread and calls its   *)
(* imports on the main thread (run modes worker-core-memory-copy and        *)
(* worker-core-memory-shared).                                              *)
(*                                                                          *)
(* Main thread: WASI.runCore, instantiateCore, handleCoreImport,            *)
(* initializeTTYSettings and stopWorker of wasi.ts.  Worker thread:         *)
(* WasmCoreWorkerThreadRunner.  Between them: comlink messages in both      *)
(* directions and one atomics channel per run (sync-message), a single      *)
(* slot in which writeMessage stores the answer the worker blocks on in     *)
(* readMessage.  An atomics channel ignores message ids.                    *)
(*                                                                          *)
(* The main thread is one event loop: a handler runs without interruption   *)
(* from one await to the next, so no other main-thread step happens while   *)
(* writing # 0.  The worker is a thread of its own and interleaves with     *)
(* every store and load on the slot.                                        *)
(***************************************************************************)
EXTENDS Naturals, Sequences

CONSTANTS
  MaxCalls,    \* bound on the import calls of all runs together
  MaxRuns,     \* bound on how often run() is called on one WASI object
  MaxResizes,  \* bound on the terminal resize events
  HasTty       \* whether the environment has a TTY

ASSUME BoundsAreNat ==
  /\ MaxCalls \in Nat
  /\ MaxRuns \in Nat
  /\ MaxResizes \in Nat
  /\ HasTty \in BOOLEAN

VARIABLES
  run,        \* number of the current run; it also names its channel
  phase,      \* how far runCore has come
  channel,    \* WASI._channel: the run it belongs to, 0 when undefined
  mode,       \* run mode of the current instance: "copy" or "shared"
  alive,      \* the worker of the current run has not been terminated
  wpc,        \* control point of the worker thread
  job,        \* export call the worker executes
  jobs,       \* export calls posted to the worker and not yet taken up
  reply,      \* how the export call that runCore awaits has ended
  resizes,    \* resize events so far
  calls,      \* import calls made so far; a call's number stands for its uuid
  cur,        \* import call the worker made last in this run
  handler,    \* progress of handleCoreImport for each call
  origin,     \* run whose instance made the call
  chan,       \* channel the handler captured from WASI._channel
  answer,     \* kind of the response the handler computed
  writing,    \* call whose writeMessage is under way on the main thread
  data,       \* per channel: the call whose answer channel.data holds
  size,       \* per channel: the call whose length is in meta[0]
  flag,       \* per channel: meta[1], 1 when a message is ready
  readSize,   \* the length readMessage has taken
  readData,   \* the bytes readMessage has taken
  got,        \* last answer handed to the guest
  guestMem,   \* per run: the writes in the guest's linear memory
  shared,     \* per run: the writes in WasmCoreWorkerThreadRunner._sharedMemory
  hostMem     \* run whose buffer is WASI._coreModuleMemory

hostVars   == <<run, phase, channel, mode, resizes>>
workerVars == <<alive, wpc, job, jobs, reply, cur>>
callVars   == <<calls, handler, origin, chan, answer, writing>>
slotVars   == <<data, size, flag, readSize, readData, got>>
memVars    == <<guestMem, shared, hostMem>>
vars       == <<hostVars, workerVars, callVars, slotVars, memVars>>

CallIds == 1 .. MaxCalls
Runs    == 1 .. MaxRuns

\* A response carries a value, an error, an ExitStatus, or cannot be sent:
\* serialising it throws or it exceeds the channel's buffer.
Kinds == {"value", "error", "exit", "unsendable"}

\* Linear memory is abstracted to the set of writes it contains: what the guest
\* stores before it makes a call, and what the import stores for that call.
Writes == CallIds \X {"guest", "host"}

-----------------------------------------------------------------------------
Init ==
  /\ run = 0
  /\ phase = "new"
  /\ channel = 0
  /\ mode = "copy"
  /\ resizes = 0
  /\ alive = FALSE
  /\ wpc = "idle"
  /\ job = "none"
  /\ jobs = <<>>
  /\ reply = "none"
  /\ calls = 0
  /\ cur = 0
  /\ handler = [c \in CallIds |-> "none"]
  /\ origin = [c \in CallIds |-> 0]
  /\ chan = [c \in CallIds |-> 0]
  /\ answer = [c \in CallIds |-> "none"]
  /\ writing = 0
  /\ data = [r \in Runs |-> 0]
  /\ size = [r \in Runs |-> 0]
  /\ flag = [r \in Runs |-> 0]
  /\ readSize = 0
  /\ readData = 0
  /\ got = [call |-> 0, kind |-> "none"]
  /\ guestMem = [r \in Runs |-> {}]
  /\ shared = [r \in Runs |-> {}]
  /\ hostMem = 0

-----------------------------------------------------------------------------
(* Main thread: one run of the program. *)

HostFree == writing = 0

\* run() on a WASI object: a new worker and a new channel, and the module is
\* sent to the worker.  WASI._channel keeps its old value until that is done.
\* Another run() over the worker that a failed setup leaks is not modelled.
RunCore ==
  /\ HostFree
  /\ phase \in {"new", "returned", "exited", "failed"}
  /\ ~alive
  /\ run < MaxRuns
  /\ run' = run + 1
  /\ phase' = "instantiating"
  /\ mode' \in {"copy", "shared"}
  /\ alive' = TRUE
  /\ wpc' = "instantiate"
  /\ job' = "none"
  /\ jobs' = <<>>
  /\ reply' = "none"
  /\ cur' = 0
  /\ UNCHANGED <<channel, resizes, callVars, slotVars, memVars>>

\* Faulty variant: the channel of the new instance is not stored.
Instantiated_NoChannel ==
  /\ HostFree
  /\ phase = "instantiating"
  /\ reply = "ok"
  /\ phase' = IF HasTty THEN "settling" ELSE "running"
  /\ jobs' = Append(jobs, IF HasTty THEN "settle" ELSE "start")
  /\ reply' = "none"
  /\ UNCHANGED <<run, channel, mode, resizes, alive, wpc, job, cur, callVars, slotVars, memVars>>

\* The module is instantiated: the channel is set and either the initial
\* terminal size is passed to the guest or _start is called right away.
Instantiated ==
  /\ HostFree
  /\ phase = "instantiating"
  /\ reply = "ok"
  /\ channel' = run
  /\ phase' = IF HasTty THEN "settling" ELSE "running"
  /\ jobs' = Append(jobs, IF HasTty THEN "settle" ELSE "start")
  /\ reply' = "none"
  /\ UNCHANGED <<run, mode, resizes, alive, wpc, job, cur, callVars, slotVars, memVars>>

\* initializeTTYSettings has returned and _start is called.
Settled ==
  /\ HostFree
  /\ phase = "settling"
  /\ reply = "ok"
  /\ phase' = "running"
  /\ jobs' = Append(jobs, "start")
  /\ reply' = "none"
  /\ UNCHANGED <<run, channel, mode, resizes, alive, wpc, job, cur, callVars, slotVars, memVars>>

\* An error before the try block of runCore leaves the worker running.
SetupFailed ==
  /\ HostFree
  /\ \/ phase = "instantiating" /\ reply = "error"
     \/ phase = "settling" /\ reply \in {"error", "exit"}
  /\ phase' = "failed"
  /\ reply' = "none"
  /\ UNCHANGED <<run, channel, mode, resizes, alive, wpc, job, jobs, cur, callVars, slotVars, memVars>>

\* Faulty variant: an ExitStatus is taken for proof that the worker has ended.
StartEnded_KeepsWorker ==
  /\ HostFree
  /\ phase = "running"
  /\ reply # "none"
  /\ phase' = IF reply = "exit" THEN "exited" ELSE "returned"
  /\ channel' = IF reply = "exit" THEN 0 ELSE channel
  /\ alive' = (reply = "exit")
  /\ reply' = "none"
  /\ UNCHANGED <<run, mode, resizes, wpc, job, jobs, cur, callVars, slotVars, memVars>>

\* _start has ended.  An ExitStatus clears the channel; stopWorker runs in
\* every case, wherever the worker happens to be.
StartEnded ==
  /\ HostFree
  /\ phase = "running"
  /\ reply # "none"
  /\ phase' = IF reply = "ok" THEN "returned"
              ELSE IF reply = "exit" THEN "exited" ELSE "failed"
  /\ channel' = IF reply = "exit" THEN 0 ELSE channel
  /\ alive' = FALSE
  /\ reply' = "none"
  /\ UNCHANGED <<run, mode, resizes, wpc, job, jobs, cur, callVars, slotVars, memVars>>

\* The terminal is resized: the listener posts calls of the size exports
\* (term_set_rows, term_set_columns, term_reload; one entry stands for them).
Resize ==
  /\ HostFree
  /\ HasTty
  /\ phase \in {"settling", "running"}
  /\ resizes < MaxResizes
  /\ resizes' = resizes + 1
  /\ jobs' = Append(jobs, "resize")
  /\ UNCHANGED <<run, phase, channel, mode, alive, wpc, job, reply, cur, callVars, slotVars, memVars>>

-----------------------------------------------------------------------------
(* Main thread: handleCoreImport. *)

\* The handler captures the channel that is current now and makes the buffer
\* that came with the call the memory all imports write to.
BeginImport(c) ==
  /\ handler' = [handler EXCEPT ![c] = "running"]
  /\ chan' = [chan EXCEPT ![c] = channel]
  /\ hostMem' = origin[c]

\* The comlink message of call c is delivered.
Dispatch(c) ==
  /\ HostFree
  /\ handler[c] = "posted"
  /\ \/ channel # 0 /\ BeginImport(c)
     \/ /\ channel = 0
        /\ handler' = [handler EXCEPT ![c] = "noChannel"]
        /\ UNCHANGED <<chan, hostMem>>
  /\ UNCHANGED <<hostVars, workerVars, slotVars, calls, origin, answer, writing, guestMem, shared>>

\* The loop that polls for a channel every 100 ms finds one.
FindChannel(c) ==
  /\ HostFree
  /\ handler[c] = "noChannel"
  /\ channel # 0
  /\ BeginImport(c)
  /\ UNCHANGED <<hostVars, workerVars, slotVars, calls, origin, answer, writing, guestMem, shared>>

\* The import has completed with an answer of kind k, its results are in
\* memory, and writeMessageAtomics copies the response or throws.
FinishImport(c, k) ==
  /\ HostFree
  /\ handler[c] = "running"
  /\ answer' = [answer EXCEPT ![c] = k]
  /\ shared' = [shared EXCEPT ![hostMem] = @ \cup {<<c, "host">>}]
  /\ guestMem' = IF mode = "shared" /\ hostMem = run
                 THEN [guestMem EXCEPT ![hostMem] = @ \cup {<<c, "host">>}]
                 ELSE guestMem
  /\ IF k = "unsendable"
     THEN /\ handler' = [handler EXCEPT ![c] = "unsent"]
          /\ UNCHANGED <<writing, data>>
     ELSE /\ handler' = [handler EXCEPT ![c] = "copied"]
          /\ writing' = c
          /\ data' = [data EXCEPT ![chan[c]] = c]
  /\ UNCHANGED <<hostVars, workerVars, calls, origin, chan, size, flag, readSize, readData, got, hostMem>>

\* Atomics.store(meta, 0, bytes.length)
StoreLength ==
  /\ writing # 0
  /\ handler[writing] = "copied"
  /\ size' = [size EXCEPT ![chan[writing]] = writing]
  /\ handler' = [handler EXCEPT ![writing] = "sized"]
  /\ UNCHANGED <<hostVars, workerVars, calls, origin, chan, answer, writing, data, flag, readSize, readData, got, memVars>>

\* Faulty variant: the reader is notified but the flag it waits on stays 0.
StoreFlag_OnlyNotifies ==
  /\ writing # 0
  /\ handler[writing] = "sized"
  /\ handler' = [handler EXCEPT ![writing] = "answered"]
  /\ writing' = 0
  /\ UNCHANGED <<hostVars, workerVars, calls, origin, chan, answer, slotVars, memVars>>

\* Atomics.store(meta, 1, 1) and Atomics.notify
StoreFlag ==
  /\ writing # 0
  /\ handler[writing] = "sized"
  /\ flag' = [flag EXCEPT ![chan[writing]] = 1]
  /\ handler' = [handler EXCEPT ![writing] = "answered"]
  /\ writing' = 0
  /\ UNCHANGED <<hostVars, workerVars, calls, origin, chan, answer, data, size, readSize, readData, got, memVars>>

-----------------------------------------------------------------------------
(* Worker thread. *)

\* WebAssembly.instantiate ends.  It fails, for instance, when the module's
\* start function calls an import: its memory is not known yet.
Instantiate(outcome) ==
  /\ alive
  /\ wpc = "instantiate"
  /\ outcome \in {"ok", "error"}
  /\ wpc' = "idle"
  /\ reply' = outcome
  /\ UNCHANGED <<hostVars, alive, job, jobs, cur, callVars, slotVars, memVars>>

\* The worker's event loop takes up the next posted export call.
StartJob ==
  /\ alive
  /\ wpc = "idle"
  /\ jobs # <<>>
  /\ job' = Head(jobs)
  /\ jobs' = Tail(jobs)
  /\ wpc' = "guest"
  /\ UNCHANGED <<hostVars, alive, reply, cur, callVars, slotVars, memVars>>

\* The export call ends; only the calls runCore awaits are reported to it.
EndJob(outcome) ==
  /\ wpc' = "idle"
  /\ job' = "none"
  /\ reply' = IF job = "resize" THEN reply ELSE outcome
  /\ UNCHANGED <<alive, jobs, cur>>

\* The exported function returns or traps.
GuestReturns(outcome) ==
  /\ alive
  /\ wpc = "guest"
  /\ outcome \in {"ok", "error"}
  /\ EndJob(outcome)
  /\ UNCHANGED <<hostVars, callVars, slotVars, memVars>>

\* Faulty variant: a call whose result is not needed does not wait.
CallImport_Posts ==
  /\ alive
  /\ wpc = "guest"
  /\ calls < MaxCalls
  /\ calls' = calls + 1
  /\ cur' = calls + 1
  /\ handler' = [handler EXCEPT ![calls + 1] = "posted"]
  /\ origin' = [origin EXCEPT ![calls + 1] = run]
  /\ guestMem' = [guestMem EXCEPT ![run] = @ \cup {<<calls + 1, "guest">>}]
  /\ shared' = [shared EXCEPT ![run] = guestMem'[run]]
  /\ wpc' \in {"wait", "guest"}
  /\ UNCHANGED <<hostVars, alive, job, jobs, reply, chan, answer, writing, slotVars, hostMem>>

\* Faulty variant: the shared buffer is created once and never refreshed.
CallImport_StaleBuffer ==
  /\ alive
  /\ wpc = "guest"
  /\ calls < MaxCalls
  /\ calls' = calls + 1
  /\ cur' = calls + 1
  /\ handler' = [handler EXCEPT ![calls + 1] = "posted"]
  /\ origin' = [origin EXCEPT ![calls + 1] = run]
  /\ guestMem' = [guestMem EXCEPT ![run] = @ \cup {<<calls + 1, "guest">>}]
  /\ shared' = IF shared[run] = {} THEN [shared EXCEPT ![run] = guestMem'[run]] ELSE shared
  /\ wpc' = "wait"
  /\ UNCHANGED <<hostVars, alive, job, jobs, reply, chan, answer, writing, slotVars, hostMem>>

\* The guest puts its arguments in memory and calls an import: the memory is
\* copied to the shared buffer unless it is that buffer already, and the call
\* is posted to the main thread.
CallImport ==
  /\ alive
  /\ wpc = "guest"
  /\ calls < MaxCalls
  /\ calls' = calls + 1
  /\ cur' = calls + 1
  /\ handler' = [handler EXCEPT ![calls + 1] = "posted"]
  /\ origin' = [origin EXCEPT ![calls + 1] = run]
  /\ guestMem' = [guestMem EXCEPT ![run] = @ \cup {<<calls + 1, "guest">>}]
  /\ shared' = [shared EXCEPT ![run] = guestMem'[run]]
  /\ wpc' = "wait"
  /\ UNCHANGED <<hostVars, alive, job, jobs, reply, chan, answer, writing, slotVars, hostMem>>

\* Faulty variant: readMessage returns to the guest when the wait times out.
TakeLength_TimesOut ==
  /\ alive
  /\ wpc = "wait"
  /\ IF flag[run] = 1
     THEN /\ readSize' = size[run]
          /\ size' = [size EXCEPT ![run] = 0]
          /\ wpc' = "sized"
     ELSE /\ wpc' = "guest"
          /\ UNCHANGED <<size, readSize>>
  /\ UNCHANGED <<hostVars, alive, job, jobs, reply, cur, callVars, data, flag, readData, got, memVars>>

\* Atomics.wait finds the flag set and the length is exchanged with 0.  A wait
\* that times out after 5 s returns null and readMessage waits again.
TakeLength ==
  /\ alive
  /\ wpc = "wait"
  /\ flag[run] = 1
  /\ readSize' = size[run]
  /\ size' = [size EXCEPT ![run] = 0]
  /\ wpc' = "sized"
  /\ UNCHANGED <<hostVars, alive, job, jobs, reply, cur, callVars, data, flag, readData, got, memVars>>

\* data.slice(0, size) and Atomics.store(meta, 1, 0)
TakeData ==
  /\ alive
  /\ wpc = "sized"
  /\ readData' = data[run]
  /\ flag' = [flag EXCEPT ![run] = 0]
  /\ wpc' = "taken"
  /\ UNCHANGED <<hostVars, alive, job, jobs, reply, cur, callVars, data, size, readSize, got, memVars>>

\* Faulty variant: every answer ends the export call.
ResumeGuest_EndsJob ==
  /\ alive
  /\ wpc = "taken"
  /\ got' = [call |-> readData, kind |-> answer[readData]]
  /\ guestMem' = [guestMem EXCEPT ![run] = shared[run]]
  /\ EndJob(answer[readData])
  /\ UNCHANGED <<hostVars, callVars, data, size, flag, readSize, readData, shared, hostMem>>

\* Faulty variant: the shared buffer is not copied back.
ResumeGuest_NoCopy ==
  /\ alive
  /\ wpc = "taken"
  /\ got' = [call |-> readData, kind |-> answer[readData]]
  /\ IF answer[readData] = "value"
     THEN wpc' = "guest" /\ UNCHANGED <<alive, job, jobs, reply, cur>>
     ELSE EndJob(answer[readData])
  /\ UNCHANGED <<hostVars, callVars, data, size, flag, readSize, readData, memVars>>

\* The message is parsed, the shared buffer is copied back, and the guest goes
\* on with the value; an error unwinds the guest and ends the export call.
ResumeGuest ==
  /\ alive
  /\ wpc = "taken"
  /\ got' = [call |-> readData, kind |-> answer[readData]]
  /\ guestMem' = [guestMem EXCEPT ![run] = shared[run]]
  /\ IF answer[readData] = "value"
     THEN wpc' = "guest" /\ UNCHANGED <<alive, job, jobs, reply, cur>>
     ELSE EndJob(answer[readData])
  /\ UNCHANGED <<hostVars, callVars, data, size, flag, readSize, readData, shared, hostMem>>

-----------------------------------------------------------------------------
Worker ==
  \/ \E o \in {"ok", "error"} : Instantiate(o) \/ GuestReturns(o)
  \/ StartJob \/ CallImport \/ TakeLength \/ TakeData \/ ResumeGuest

Host ==
  \/ RunCore \/ Instantiated \/ Settled \/ SetupFailed \/ StartEnded \/ Resize
  \/ StoreLength \/ StoreFlag
  \/ \E c \in CallIds :
       \/ Dispatch(c) \/ FindChannel(c)
       \/ \E k \in Kinds : FinishImport(c, k)

Next == Worker \/ Host

Spec == Init /\ [][Next]_vars

\* The message of call c is delivered, and the polling for a channel goes on.
FairToCall(c) == WF_vars(Dispatch(c)) /\ WF_vars(FindChannel(c))

FairToCalls == \A c \in CallIds : FairToCall(c)

\* Event loops, timers and threads keep running: messages are handled, a write
\* that has begun is completed and a worker that is woken continues.
\* Nothing is assumed of guests, users, or how long an import takes.
Fairness ==
  /\ WF_vars(StoreLength)
  /\ WF_vars(StoreFlag)
  /\ WF_vars(TakeLength)
  /\ WF_vars(TakeData)
  /\ WF_vars(ResumeGuest)
  /\ FairToCalls

FairSpec == Spec /\ Fairness

-----------------------------------------------------------------------------
HostTypes ==
  /\ run \in 0 .. MaxRuns
  /\ phase \in {"new", "instantiating", "settling", "running", "returned", "exited", "failed"}
  /\ channel \in 0 .. MaxRuns
  /\ mode \in {"copy", "shared"}
  /\ resizes \in 0 .. MaxResizes

WorkerTypes ==
  /\ alive \in BOOLEAN
  /\ wpc \in {"instantiate", "idle", "guest", "wait", "sized", "taken"}
  /\ job \in {"none", "settle", "start", "resize"}
  /\ jobs \in Seq({"settle", "start", "resize"})
  /\ reply \in {"none", "ok", "error", "exit"}
  /\ cur \in 0 .. MaxCalls

CallTypes ==
  /\ calls \in 0 .. MaxCalls
  /\ handler \in [CallIds -> {"none", "posted", "noChannel", "running", "unsent", "copied", "sized", "answered"}]
  /\ origin \in [CallIds -> 0 .. MaxRuns]
  /\ chan \in [CallIds -> 0 .. MaxRuns]
  /\ answer \in [CallIds -> Kinds \cup {"none"}]
  /\ writing \in 0 .. MaxCalls

SlotTypes ==
  /\ data \in [Runs -> 0 .. MaxCalls]
  /\ size \in [Runs -> 0 .. MaxCalls]
  /\ flag \in [Runs -> {0, 1}]
  /\ readSize \in 0 .. MaxCalls
  /\ readData \in 0 .. MaxCalls
  /\ got \in [call : 0 .. MaxCalls, kind : Kinds \cup {"none"}]

MemTypes ==
  /\ guestMem \in [Runs -> SUBSET Writes]
  /\ shared \in [Runs -> SUBSET Writes]
  /\ hostMem \in 0 .. MaxRuns

TypeOK == HostTypes /\ WorkerTypes /\ CallTypes /\ SlotTypes /\ MemTypes

-----------------------------------------------------------------------------
(* Properties. *)

\* The message readMessage takes out of the slot is whole - its bytes and its
\* length belong together - and it is the answer to the call the worker waits
\* for, although an atomics channel carries no message id.
AnswerIsOwn ==
  /\ wpc \in {"sized", "taken"} => readSize = cur
  /\ wpc = "taken" => readData = cur

\* writeMessage is under way on the current channel only while the worker
\* waits for exactly that message: one message is read and written at a time,
\* as the comment on makeChannel demands.
OneMessageAtATime ==
  writing # 0 /\ alive /\ chan[writing] = run => wpc = "wait" /\ cur = writing

\* An import finds the caller's arguments in the buffer it takes for the
\* guest's memory, and a guest that goes on finds everything that was written
\* for its calls: the copies out and back lose and mix up nothing.
MemoryCoherent ==
  /\ \A c \in CallIds : handler[c] = "running" => <<c, "guest">> \in shared[hostMem]
  /\ alive /\ wpc = "guest" => guestMem[run] = {w \in Writes : origin[w[1]] = run}

\* A handler that waits for a channel to appear never keeps a live guest
\* waiting: it can only be left over after the exit of its program.
NoGuestStranded ==
  \A c \in CallIds : handler[c] = "noChannel" => ~(alive /\ wpc = "wait" /\ cur = c)

\* Once writeMessage has begun to store an answer, the guest that made the call
\* gets it, unless its worker is terminated before.
AnswerDelivered ==
  \A c \in CallIds : (handler[c] = "copied") ~> (got.call = c \/ ~alive)

\* A call that a guest has posted reaches its import, unless the run that made
\* it is over before: the handler finds the channel whenever it looks for one.
CallReachesImport ==
  \A c \in CallIds :
    (handler[c] = "posted") ~> (chan[c] # 0 \/ ~alive \/ origin[c] # run)

-----------------------------------------------------------------------------
(* Refinement: without stale handlers this protocol is a synchronous call.  *)

\* No import call of an earlier run is still being handled.
NoneLeftOver ==
  \A c \in CallIds :
    origin[c] = run \/ handler[c] \in {"none", "unsent", "answered"}

\* When no handler can be left over from an earlier run: the WASI object is
\* used once, or there is no terminal whose resize events call exports.
NoLeftovers == MaxRuns = 1 \/ ~HasTty

Stage ==
  IF wpc \in {"instantiate", "idle", "guest"} THEN "guest"
  ELSE IF handler[cur] \in {"copied", "sized", "answered"} THEN "served"
  ELSE "called"

\* Writes of the open call that are in the memory already (it is the same
\* buffer in shared mode) are not seen by the guest before it goes on.
GuestSees ==
  IF run = 0 THEN {}
  ELSE IF Stage = "guest" THEN guestMem[run]
  ELSE guestMem[run] \ {<<cur, "host">>}

Sync == INSTANCE SyncCall WITH
          program <- run, stage <- Stage, n <- calls, served <- answer, got <- got, mem <- GuestSees

ImplementsSyncCall == Sync!Spec
=============================================================================
