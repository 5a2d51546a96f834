# Verification of wasmin

wasmin runs WebAssembly programs on WASI in browsers, node, deno and bun. A
program's imports are asynchronous JavaScript, so the core of the system is the
machinery that makes an asynchronous host look synchronous to a guest, and the
tables of files, pipes, sockets and resources behind its system calls. The code
is in `src/packages`; this directory models it in TLA+, checks the models with
TLC and proves theorems about them with TLAPS.

`PROJECT.json` maps every definition to the lines it models and lists the runs,
the theorems, the findings and the hazards.

## 1. The system

| part | code | state | operations | what makes it hard |
|---|---|---|---|---|
| **Core instance on a worker** | `wasi-js/src/wasi.ts`, `wasmCoreWorkerThreadRunner.ts`, `desyncify.ts`, `vendored/sync-message` | `_channel`, `_coreModuleMemory`, the worker; the runner's `_sharedMemory`; the slot of the atomics channel (length, flag, bytes) | `run`, `instantiateCore`, `handleCoreImport`, `initializeTTYSettings`, resize listener, `stopWorker`; `executeExportedFunction`, `handleImport`; `writeMessage`, `readMessage` | two threads, a slot without message ids, copies of the linear memory, a worker stopped anywhere, handlers that outlive their run |
| **Component instance on a worker** | `wasmComponentWorkerThreadRunner.ts`, `wasmWorker.ts`, `wasiResources.ts` | resources in `OpenFiles._files`, proxies on the worker | `handleComponentImport`, `getObjectToCall`, storing and returning resources, disposal | handles that go stale, errors before the `try`, closes that fail, resources handed out twice |
| **Asyncify** | `vendored/asyncify` | the module's asyncify state, `value`, one unwind buffer in linear memory | `wrapImportFn`, `wrapExportFn` | exports called while another is suspended; promises that settle out of turn |
| **Stack switching** | `wasm-promisify` | none at run time | generates wrappers | — |
| **Open files, preview 1 calls** | `wasiFileSystem.ts`, `wasi_snapshot_preview1/host.ts` | `OpenFiles._files`, `_nextFd`; each `OpenFile`'s position, flags and lazily opened writer | `path_open`, `fd_read`, `fd_write`, `fd_pread`, `fd_pwrite`, `fd_seek`, `fd_close`, `fd_renumber`, `fd_filestat_set_size`, `path_unlink_file`, ... | work nobody awaits, snapshots of a file that go stale, errors in the middle of a call |
| **In-memory file system** | `fs-js/src/adapters/memory.ts`, `implements.ts` | contents, `deleted`, the copy in each writable stream | open a stream, write, truncate, close, remove | commit on close |
| **Pipes and child processes** | `wasiPipes.ts`, `wasiProcess.ts`, `wasi-experimental-process.ts` | queue of chunks per pipe; four descriptors and a control pipe per child; the terminal's raw mode | read, peek, write, exec, setting the raw mode, exit message | last output against exit message, empty chunks, two children on one terminal |
| **Preview 2 streams, files, poll, clocks** | `wasi_snapshot_preview2/async` | buffered chunks, pollables, descriptors and the files opened for streams | read, write, blocking-read, poll, the three streams of a descriptor | a poll that wakes late, streams that close what others work on, calls that fail with a stream open |
| **Sockets** | `wasi_experimental_sockets`, `wasi_snapshot_preview2/async/sockets.ts` | accepted sockets, waiting accepts, each connection's buffer and state, datagrams | listen, accept, poll, connect, read, write, close | an accept that times out while a connection comes; a poll that takes a connection and hands it in again; events of one connection that touch the others |
| **Mounts, handle caches** | `fs-js/src/NFileSystemDirectoryHandle.ts`, `ExtHandles.ts` | cached handles | mount, unmount, lookup | stale entries |
| **IndexedDB adapter** | `fs-js/src/adapters/indexeddb.ts` | an object store of folders, files and mounted handles; a cache of entries in each handle | open, make, look up, list, mount, remove, write | what outlives a reload, several handles of one folder, removals below a folder, lookups that take several transactions |
| **WASI on a worker of its own** | `wasiWorker.ts`, `wasiWorkerThread.ts` | none of the protocol's | forwards objects with comlink | — |
| **HTTP, other adapters, loader, shells, apps** | the other packages | — | — | pure I/O |

How they interact: a guest calls an import; on a worker, the call travels as a
comlink message to `WASI.handleCoreImport` (or `handleComponentImport`), which
runs the WASI function in `host.ts` or the preview 2 classes; these use
`OpenFiles` and, through it, the handles of `fs-js`, pipes and sockets. The answer
goes back through the slot, on which the worker's thread is blocked. Terminal
resize events and `initializeTTYSettings` call exports of the guest, and
children are further `WASI` objects joined to their parent by pipes. The resources of a
component share the table, and its counter, with the files they work on.

What makes each part correct:

- *Worker*: an import call behaves as a synchronous call. Its answer is its own,
  whole, comes once, and the guest then sees the import's writes; the channel
  carries one message at a time; no guest is left waiting by the protocol itself.
- *Open files*: an open file has one owner, a call leaves no descriptor behind,
  what has been written and closed is there, what was unlinked does not return,
  a descriptor the guest was granted stays open until the guest gives it up.
- *Asyncify*: a rewind restores the frames of the call that is resumed, and each import
  gives the guest its own answer.
- *Components*: a handle is good until it is dropped, and what nobody can get at is not kept.
- *Pipes and children*: what is read is what was written, in order; the exit of a child is
  told after all its output, and it is told; a child that sets the raw mode goes on with it.
- *Sockets*: every connection is accepted once, nobody waits while there is one, the end
  of a connection is told last, every call returns; no datagram is dropped.
- *IndexedDB*: the records are one tree at any time and after any reload; removals are
  whole or not at all; a cached handle is the one for the entry.
- *Mounts*: a lookup after a mount or unmount sees it.

## 2. What is modelled

### CoreWorker, SyncCall

`CoreWorker` is the protocol between the main thread and the worker that runs a
core module (run modes `worker-core-memory-copy` and `worker-core-memory-shared`).

- *Main thread.* It is an event loop, so a handler's code between two awaits is one
  action: `RunCore`, `Instantiated`, `Settled`, `SetupFailed`, `StartEnded` are the
  stretches of `runCore` between its awaits, `Dispatch`, `FindChannel` and
  `FinishImport` those of `handleCoreImport`. The only exception is `writeMessage`:
  it too runs without interruption on the main thread, but the worker sees each of
  its stores, so it is `FinishImport` (the bytes), `StoreLength` and `StoreFlag`, and
  every other action of the main thread requires `HostFree`, i.e. `writing = 0`.
- *Worker.* `Instantiate`, `StartJob`, `GuestReturns`, `CallImport`, then the steps of
  `readMessage`: `TakeLength`, `TakeData`, and `ResumeGuest`. A guest is anything:
  it calls, returns or traps at will. An import takes any time and answers with a
  value, an error, an `ExitStatus`, or something that cannot be sent.
- *Memory* is the set of writes it holds, `<<c, "guest">>` for the arguments of call
  `c` and `<<c, "host">>` for its results; `guestMem` and `shared` are the two buffers
  of a run. They are one buffer in shared mode and copies of each other in copy mode.
- *Messages* are call numbers (the code uses uuids). The slot holds a call number for
  the bytes and one for the length, so that a torn message can be told apart.
  `Atomics.wait` returning on its time-out is a stutter: `readMessage` waits again.
- *Resize events* post one entry for the calls the listener makes in a row.

`SyncCall` is what a guest relies on: a call is made, served, and returns with the
answer computed for it and the host's writes visible; calls do not overlap. Programs run one
after another, each in a fresh memory, and what the one before has not come back from is
abandoned (`Reset`). `Lose`
allows that an answer cannot be transmitted (the guest then stays suspended):
`handleCoreImport` does not await `writeMessage`, so its rejection goes unseen. `Sync` in
`CoreWorker` is the refinement mapping. In shared mode the import's writes are in
the guest's memory before it resumes; the mapping hides those of the open call
because a suspended guest cannot look.

### OpenFiles

The descriptor table, the open files, the preview 1 calls on them and the
in-memory file system below. An *object* (an `OpenFile`) is named after the
descriptor it was first added under, so the table is a function from descriptors to
objects. A call is split where it awaits something that lets other work run:
`FdWrite`/`FdWriteDone`, `FdPwrite`/`FdPwriteDone`, `FdPread`/`FdPreadDone`,
`FdFilestatSetSize`/`SetSizeTruncates`/`SetSizeDone`, `FdClose`/`FdCloseDone`; the calls that await
nothing of the kind are one action. The guest makes one call at a time, and what can
run beside it is what the code does not await: the close at the end of `fd_pread` and
`fd_pwrite` (`CloseEnds`) and all of `fd_renumber` after its first statement
(`RenumberEnds`).

Contents are sequences of cells, a cell being the number of the write that filled it,
or 0. A writer's `staged` copy is made when the first write opens it and installed when
it is closed; `PutAt` puts the parts of a write together as `genericWrite` does. `ideal` is a
history variable: the contents if every write took effect at once, each as `Written` says what
a write is to do (the cell is the new one, the others stay, a gap is zeros). `overlap` records the files two writers were open on together, `granted` the
descriptors the guest may believe to be open, `opened` the objects it opened itself.
`Ops` is the repertoire of calls a guest uses, so that a run can leave out what its
property excludes.

### Asyncify, Coroutines

The wrappers around an asyncified module's imports and exports. The wrapper and the
guest run without interruption from one await to the next, so an action is a stretch:
`StartExport` from the call of an export to its first asynchronous import or its end,
`Resume` from a promise that settles to the next. `GuestRuns` is what the guest then
does: it returns, or calls an import and is unwound. The buffer is the sequence of
frames in it, a stretch's frames being named by the import they wait in; `value` and the
promise of an import have the same names. Promises settle in any order. The history
variable `orderly` is true as long as the newest one settles first; when it is
not, the call that is resumed rewinds another's frames (`ResumeAstray`), and what the guest
does from then on is anything its memory allows. `StartRefused` and `ResumeRefused` are the wrapper's
assertions of the module's state; a guest may trap (`CallFails`); `Reject` is a promise that
is rejected, which leaves the frames where they are.

`Coroutines` is what asyncify is to give those who call a module's exports: every call is a
coroutine that stops in an import, goes on with the answer of just that import, and fails
only where its own guest or that import does. The mapping is the identity, with
`sound <- orderly`; when promises settle out of turn, the promise ends (`Break`).

### ChildProcess, ByteStream

A parent and the children it executes: `exec` with its answer (`Exec`, `ExecReturns`), the
child's start (`Started`, `Refused`), its output (`ChildWrite`), `SetRawMode` with the polling of the
terminal that follows (`PollMode`), and its end (`ChildEnds`, then `SendExit` ten milliseconds
later). The parent reads (`Read`, and `ReadEmpty` when its sleep is over) and polls (`Peek`,
`PeekAgain`, `PeekEnds`). A pipe is the sequence of the bytes in its chunks; each byte knows its
chunk, and `gaps` keeps where the empty chunks are, at which reads stop. `HandleControl` is
the guest's side of the control pipe, which is not under `src/`.

`ByteStream` is what a parent relies on: output arrives whole and in order, and nothing is
added once the parent knows that the child is over. The mapping `Output` takes what
was read followed by what is in the pipe for what was sent.

### Sockets, Connections

A listening socket, the connections it accepts and those the guest opens. Events of
Node and calls of the guest take turns on one event loop, and what the promises that a
turn settles set off runs before the next event; so a turn is one step. `component` chooses
between the calls of preview 2 (with polls, and connections whose end closes the
descriptor: `ReadCut`, `where = "cut"`) and those of preview 1. `queue` and `waiting` are
`_acceptedSockets` and `_acceptedSocketPromises`, a promise being named by the caller that
awaits it. Of data only the number of bytes is kept.

`Connections` is what a guest relies on: each connection is a stream of its own, given to it
once, that brings what the peer sent and nothing else, and whose end it learns after all of
it, where the connection was not taken away with bytes in it. No step touches two connections. The
mapping takes `where`, `arrived`, `taken` and `told`, and the end from `life`; queues, waiting
callers and timers are hidden.

### IndexedDb, FileTree

The object store, the handles of its folders and their caches. A transaction is one
step, since read-write transactions of a store run one after the other and each
operation is one, but for two: the lookup of a mounted handle, fetched in a transaction of its own
(`LookUpMount`, then `MountFound` or `MountNotFound`), and writing (`CreateWritable`, `CloseSink`).
`Reload` ends the session at any time: handles, lookups and writers are gone, the store
stays. `phase = "bare"` is the database whose root was never added. `kind` and `entries`
are the records, `of` the keys of the handles. `Subtree` is what the recursion of `rimraf`
reaches, defined as the least set closed under its steps.
Two history variables say what the code does not promise: `disturbed` are the entries
removed behind the back of a handle that has them in its cache, `mistaken` that a
mount that could not be fetched was taken for a folder.

`FileTree` is what users of a file system rely on: entries are added one at a time, in a
folder that is there and under a free name, and removed with exactly what is below
them. The mapping `Tree` takes the entries of folders for its nodes; the promise ends
(`Break`) when `mistaken` becomes true.

### ComponentHandles

The resources of a component: descriptors, streams, pollables, directory iterators, errors
and child processes. `table` and `nextFd` are `OpenFiles._files` and `_nextFd`, which hold the
resources and the files, directories and pipes they work on; `ends` are the four
descriptors a `ProcessResource` keeps; `held` counts the proxies the guest has of each
resource. The code starts at descriptor 3, after three standard streams, which are one
here. The worker is blocked during a call and nothing else touches the table, so a call
is one step, and one that fails half way is an alternative of its action: `StreamLeft`,
`PassingStreamUnstored`, `DropCloserFails`. A guest whose call is never answered is `stranded`:
`UseStale`, since the lookup is outside the `try` of `handleComponentImport`, and `StreamFails`, whose
error cannot be sent.

History variables say where the code does otherwise than the properties promise.
`twice` are resources of which the guest was given two handles: the getters of a process
return the same descriptor each time, and the first drop takes it from the second
handle. `shared` are files, directories and pipes that two resources close: a stream of what is
not a file works on the descriptor's own number and closes it. `lost` is what calls leave in
the table for good: the directory `createDirectoryAt` opens, the stream of a `read` that meets
the end of the file, errors, a resource whose close failed, and the descriptors of a
process that is dropped or started again.

Dropping a handle reaches `asyncDispose` only where `Symbol.asyncDispose` is the registered
symbol `nodejs.asyncDispose`, which `wasi.ts:755` looks for. The model is of such engines; on others
a dummy runs and nothing ever leaves the table.

### Bounds

`MaxCalls`, `MaxRuns`, `MaxResizes`, `MaxFds`, `MaxWrites`, `MaxOffset`, `MaxImports`, `MaxChunk`, `MaxBytes`,
`MaxConns`, `MaxKeys`, `MaxHandles`, `MaxLookups`, `MaxIds` and `MaxHeld` appear in guards, and each is said in its module
to be a bound. Calls of all runs share `MaxCalls`, descriptors and keys are never reused by the
code, so `MaxFds` and `MaxKeys` bound them. `Retries` is the code's `retriesOnPeek`, a constant
of the class, and `NumEnds` the number of descriptors of a child, which is 4 in the code and 1 in
the run.

## 3. What the runs check

| run | states | shows |
|---|---|---|
| `core_run` | 22 223 | One run with a terminal resized twice and four calls. Types; `AnswerIsOwn`; `OneMessageAtATime`; `MemoryCoherent`; `AnswerDelivered` (liveness); `ImplementsSyncCall` (refinement). |
| `core_reuse` | 140 494 | Two runs on one `WASI` object with a terminal: `NoGuestStranded` and, under fairness, `CallReachesImport`. A handler left over from the first run exists here. |
| `core_stale` | violation | `OneMessageAtATime` fails on the second run (finding 1). |
| `files` | 248 850 | Two files, three descriptors, `fd_pread`, `fd_pwrite`, `fd_renumber`, unlinking: types, `OneOwner`, `NothingLeaks`, `WritesLast`. |
| `files_calls` | 253 218 | One file, append mode, positional reads, resizes, seeks, unlinking: `UnlinkedStaysGone` (an action property). |
| `files_append` | violation | `AppendsAtEnd` fails (finding 2). |
| `files_renumber` | violation | `GrantedStaysOpen` fails (finding 3). |
| `asyncify_nested` | 12 053 | Three calls and five imports: types, `NewestOnTop`, `FramesAccountedFor`, `PausedFramesStay` (an action property), `ImplementsCoroutines` (refinement), all as long as promises settle in turn. |
| `child_pipes` | 31 391 | Two children, one polled: types, `NothingLeftBehind`, `ModeHolds`, `PollKeepsItsWord`, `ImplementsByteStream` (refinement), `ExitIsLearned`, `RawModeArrives`, `OutputArrives` (liveness). |
| `sockets` | 314 912 | Two threads, two connections to the guest and one from it, two of them made, the peer of one of those to the guest not reading: types, `NobodyWaitsInVain`, `PromisesAreAwaited`, `QueueKeepsConnections`, `ImplementsConnections` (refinement), `CallsReturn`, `EndIsLearned` (liveness). |
| `component_handles` | 160 974 | Resources made and dropped by calls that may fail, with up to five numbers besides the program's own: types, `HandlesWork`, `NothingElseLeaks`. |
| `idb_tree` | 170 916 | Two names, four records, four handles: types, `TreeIsSound`, `CacheCoherent`, `ImplementsFileTree` (refinement). |

Why the bounds are enough: four calls let a resize export, the terminal setup and
`_start` each call, and one of them call twice, so that the slot is reused after
each kind of predecessor; two runs are what a leftover handler needs. Three descriptors let a renumber meet a positional write's
temporary descriptor or a third file; two writes let one writer overtake another;
offset 1 leaves a gap to be filled. Three overlapping calls let one be resumed with
others above and below it, and two imports more than calls let a call be unwound again
while another waits. Two children contend for the terminal, and two chunks of up to two bytes,
empty ones among them, let a read end in a chunk, between chunks and at a gap. Two threads
let one wait or poll while the other takes, closes or waits behind it; two connections
let the events of one meet the wait for the other, one of them possibly refused. Three
records below the root make a folder in a folder with a file, a second sibling, or an entry
removed and made again, and four handles two of one folder. Five numbers make a file with
its descriptor and a stream of it, or a child that is executed with a stream of its end, and two handles of a
resource let one be dropped before the other. For the safety properties proved below the bounds
do not matter; for the others they are what the scenarios named here need.

`CHECK_DEADLOCK FALSE` is used throughout because the system does stop: a guest may
finish, an import may never answer, and the bounds run out.

*Fairness* (`FairSpec`): weak fairness of `StoreLength`, `StoreFlag`, `TakeLength`, `TakeData`,
`ResumeGuest` and, per call, `Dispatch` and `FindChannel`. The first two are straight-line code that
has begun; the next three are a thread that is runnable once the flag is set (a lost
notification is harmless, `Atomics.wait` returns at once on a set flag, and after 5 s
anyway); `Dispatch` is a message the event loop has received and `FindChannel` a timer of
100 ms. Nothing is assumed of guests, of users, or of how long an import takes.

In `ChildProcess`, timers fire (weak fairness of `ChildGoesOn` per child and of `CallGoesOn`), and
the parent is one that keeps reading: it comes back to each control pipe, each output and,
where it polls, each poll (strong fairness, since another call may be under way whenever
it would). Children are free. In `Sockets`, timers of calls fire and Node answers a connection attempt (weak
fairness). The callback of a write has no time-out and comes when the peer makes room for the
bytes, so it is fair only where Node is bound to call it (`CalledBack`): the connection was reset, or its
peer is one of `Drained`, those assumed to read what they are sent. And the guest comes back to read the connections in `Followed` (strong fairness,
for the same reason). Peers are otherwise free, and so is whether a guest accepts or closes. Asyncify
and IndexedDb state no liveness: whether a promise settles, or a page is left open, is not theirs.

Each property of a passing run has a mutant in `PROJECT.json`: a *faulty variant* of one
action, placed next to it in the module and used nowhere, for which the run fails.

### Findings

1. `core_stale`: a handler left over from a program that has exited takes the next run's
   channel (`wasi.ts:860` polls for *a* channel) and writes its answer there. It needs a
   resize export that calls an import just as `_start` exits, and a second `run()`.
2. `files_append`: in append mode a write goes to the end of the *committed* file
   (`wasiFileSystem.ts:457`), so a second write on the same descriptor overwrites the first.
3. `files_renumber`: `fd_renumber` answers before it has renumbered (`host.ts:625`).

Some properties state an exception because the code behaves otherwise there; the exception
is in the formula and its comment. Calls that overlap under asyncify must be resumed
newest first. An empty chunk looks like the end of a pipe to a read and hides what follows
from a poll. Two children that want different raw modes may wait for ever. A
write on a refused connection never returns (`net.ts:281`), and one to a peer that does not read may
not (`net.ts:302`). Resizing a file fills it with zeros, since `setSize` opens its writer without the
existing data (`wasiFileSystem.ts:421`), which `WritesLast` leaves out with all resizes. A component's connection is taken
away at its end with the bytes still in its buffer (`sockets.ts:243`). A mount that cannot be
fetched is treated as a folder (`indexeddb.ts:341`), and an entry removed through one
handle stays in the cache of others.

## 4. What is proved

TLAPS checks these for every value of the constants that satisfies the modules'
assumptions (`BoundsAreNat`, `FilesAssumption`, `AsyncifyAssumption`, `ChildAssumption`, `SocketsAssumption`,
`IndexedDbAssumption`, `HandlesAssumption`: bounds are natural numbers, `NoFile` is no file, sets that are to be
disjoint or contained are; a peer may send something, `MaxBytes` at least 1).

- `CoreWorkerProofs`: **TypeCorrect**, `Spec => []TypeOK`, with the strengthening
  `TypeInv`: nothing happens before the first run, and what a channel holds, or has been
  read from it, is an answer that was sent. It holds with leftovers too, and so does
  **NobodyIsStranded**, `Spec => []NoGuestStranded`: from `Instantiated` on, and as long as the guest
  lives, the run has its channel (`HasChannel`).
  **CallsAreTakenUp** is liveness with leftovers: where messages have their turn
  (strong fairness of `Dispatch`), `CallReachesImport`. A message can be kept waiting only by answers
  being written to the slot, each of which ends (`WritesAnswer`), and a run that has made a
  call has a channel for its handler to find (`CallersHaveChannel`).
- `CoreWorkerSafety`, as long as no handler is left over. Its theorems have the form
  `Spec /\ []NoneLeftOver => ...`, where `NoneLeftOver` says of the users of a `WASI` object that they
  call `run` again only when no import of an earlier run is still being handled:
  **AnswersAreOwn**, **MessagesDoNotOverlap**, **MemoryStaysCoherent** and
  **RefinesSyncCall**, `... => ImplementsSyncCall`. They share the invariant
  `IInv == TypeInv /\ Numbering /\ OwnChannel /\ Quiet /\ Open /\ OpenMemory`. Its
  heart is `Quiet` and `Open`: only the latest call can be unanswered, only while the
  worker is blocked, and then the handler's progress, the slot and the reader's
  progress determine one another. `AnswerIsOwn` alone is not inductive: it says nothing
  of a slot that has not been read yet. `OwnChannel` carries the argument
  across runs. The condition cannot be dropped: `core_stale` is the counterexample. It always holds
  where an object is used once or has no terminal (**NeverLeftOver**), so that there
  all four hold of `Spec` alone (**OnceIsSound**).
  **AnswersAreDelivered** and **CallsReachImports** are liveness: under `FairSpec` and the same
  condition, `AnswerDelivered` and `CallReachesImport`. An answer that is in hand is
  written, found and read, each stage keeping until the next is reached.
- `OpenFilesProofs`: **TypeCorrect**, from `InUse`: an open descriptor has a file handle, and so
  has the object a call works on. Then:
  - **OneOwnerHolds**, `Spec => []OneOwner`, for every repertoire of calls. The invariant adds
    `Allocated`: every descriptor or object that the table, a call or an unawaited task
    names lies below `_nextFd`. Without it a descriptor about to be allocated could be
    one that a late renumber is still to fill.
  - **NothingIsLeaked**, `Tame => (Spec => []NothingLeaks)`, where `Tame` excludes the guest that
    renumbers from a descriptor it was never given. `Temporary`: an object the guest has not
    opened is behind the descriptor of the positional call under way, and no late
    renumber is going to move it.
  - **WritesAreLasting**, `Plain => (Spec => []WritesLast)`, for guests that neither append nor
    resize. `Committed`: a file whose writers never overlapped has at most one, whose copy
    is what was written; if it has none, the contents are. It rests on `OneOwner`, which
    keeps the writer of a call open until the call ends, and on the lemma `PutAtIsWritten`:
    what `genericWrite` puts together is what a write is to do, the gap included.
  - **DescriptorsStayOpen**, `Fixed => (Spec => []GrantedStaysOpen)`, for guests that do not renumber: it
    is `fd_renumber` alone that takes descriptors from a guest (finding 3). `Holding`: the
    descriptors a guest believes open are not the temporary ones of positional calls.
  - **UnlinkedIsGone**, `Spec => UnlinkedStaysGone`, an action property, from the types alone.
- `AsyncifyProofs`: **TypeCorrect**, **NewestCallIsOnTop**, **AnswersReachTheirImports**, **BufferAccountedFor**,
  **FramesStay**. `OrderlyInv` adds to the types that imports are numbered as they are called
  (`Numbered`), that the buffer is strictly increasing (`Stacked`) and that every waiting
  call's frames are in it (`Kept`); so the newest waiting call has the largest number and is
  on top. **RefinesCoroutines**, `Spec => ImplementsCoroutines`: with its own frames on top, a call that is
  resumed is neither refused nor leads astray, and the import it stops in is one that nobody has
  called (`Numbered`).
- `ChildProcessProofs`: **TypeCorrect** (the types with the positions of the gaps), **PollsHold**,
  **NothingIsLeftBehind** (`Ends`: a parent that was told has a child whose message is the last
  thing it does), **ModesHold** (`Requests`, `ModeInv`: without contention every request still in a
  control pipe and the terminal's mode agree with what the child waits for), and
  **OutputIsAStream**, `Spec => ImplementsByteStream`.
- `SocketsProofs`: **TypeCorrect** and the four safety properties: **NobodyIsLeftWaiting**, **PromisesKept**,
  **NoConnectionIsLost**, **EndIsToldLast**. `Phases` relates what Node has told of a connection to
  where its socket is. **RefinesConnections**, `Spec => ImplementsConnections`, needs that a call only reads
  what the guest has opened, be it closed since (`Reading`), and that a connection that is nowhere has
  not begun (`Placed`). **CallsAllReturn** is liveness: under `FairSpec` every accept,
  poll and read returns, and every write whose peer reads or whose connection is reset.
- `IndexedDbProofs`: **TypeCorrect**, **TreeStaysSound**, **CachesAreCoherent** and **RefinesFileTree**,
  `Spec => ImplementsFileTree`. The invariant is
  `IInv == TypeOK /\ Phases /\ HandleKinds /\ TreeInv /\ CachesInv`. `TreeIsSound` is not inductive:
  a removal keeps it only because records above the entry are not among those below it
  (`Upwards`: an entry is younger than its folder), because nothing but folders has entries
  (`LeavesAreEmpty`), and because a handle is of a folder or of one that is gone (`HandleKinds`,
  which holds as keys are never reused). The lemmas about `Subtree` need no induction: it is
  the least closed set, so a fact about it is shown by giving a closed set. For the
  refinement, `GoneFacts` says that what goes is the entry's record and what hangs on it.

- `ComponentHandlesProofs`: **TypeCorrect**, **HandlesAreGood**, **NothingElseIsLeaked**, for any number of
  descriptors of a child. Neither of the last two is inductive. That a drop does not close what
  another handle works on needs `OneCloser`: what is not in `shared` is closed by one resource
  at most; and `Numbered`: nothing at or above `nextFd` is in the table, held or
  handed out, so that what is added is new to all of it. `WorkOn` says what a
  descriptor or stream works on, and that it closes that unless it is a standard stream; `EndsWork`
  that a descriptor a process has not handed out yet is good; `Counted` that a resource given
  once has one handle at most, so that the drop of a handle takes no other's resource. Two action
  properties follow: a number that has left the table never means anything else
  (**NumbersAreNotReused**), so a stale handle never reaches another's resource; and a call is left without an answer by
  a lookup only where the guest was given the resource twice (**OnlySharedHandlesGoStale**).

The liveness theorems assume `[]Ready`, which each states next to its proof: wherever
the guard of a fair action holds, the action can be taken. That is so by the form of the actions, and TLC
finds no state of the runs where it is not, but the prover does not evaluate `ENABLED`.

Only model-checked: `ExitIsLearned`, `RawModeArrives`, `OutputArrives` and `EndIsLearned`, which need an
induction, under the temporal operators, over the bytes still to be read, and `CallReachesImport`
where there are leftovers and `Dispatch` is only weakly fair, which needs one over the calls still
to be made; the library's induction theorems take operators as parameters, which the provers cannot
instantiate. Everything else the passing runs check is proved, as said above. There
are no recursive operators in the modules.

## 5. What is left out, and why

- `RunCore` over a worker that a failed setup has leaked: the model requires the old
  worker to be gone. Several instances on one worker and
  `executeExportedFunctionSync` are in the plan below.
- The service-worker channel, used only without `SharedArrayBuffer`.
- Preopens, directories, terminals, pipes and sockets behind descriptors, several buffers
  in one call, times, rights: they do not touch what the properties of `OpenFiles` are about.
- What a read returns is not recorded: `FdRead` only moves the position.
- A guest that renumbers *from* a descriptor it was never given (`"wild"` in `Ops`) is in the
  module and in the theorems, but in no run: such a call may capture the temporary
  descriptor of a positional read, so `NothingLeaks` does not hold for it.
- Asyncify: the size of the unwind buffer, which the wrappers do not look at.
- Children: standard input and error, which are pipes of the same class; the adapters between
  streams and pipes; the descriptors `exec` adds, which stay when executing is not allowed.
- Sockets: datagrams, `sock_recv` and `sock_send`, reads into several buffers, queries and
  options, and `ready()` of pollables.
- IndexedDB: contents of files, the metadata of handles, handles made from URLs and the
  security store, permissions, mounts met while listing (a listing works on a
  snapshot of the entries, so it may look a mount up under the id of one that has been removed
  since), and other pages with the same database. Calls on a folder that
  is gone abort their transaction and never answer; they are no actions.
- Component handles: the resources of sockets, terminals, HTTP and mounts; calls that change
  nothing; `poll`, blocking reads, `splice` and what streams carry; full pipes and other answers of
  "try again"; instantiation, several instances on one worker and calls into the
  component. Engines without the symbol of disposal described above.
- Preview 2 streams and polls on anything but connections and children's pipes.
- The parts in the plan below; the rest of the table in section 1 is I/O or generated code.

## 6. Plan

Done: `SyncCall`, `CoreWorker`, `OpenFiles`, `Coroutines`, `Asyncify`, `ByteStream`, `ChildProcess`, `Connections`, `Sockets`, `FileTree`,
`IndexedDb`, `ComponentHandles`, each with its runs and proofs. Next, in this order:

1. Several instances on one worker, core and component, over the channel of `CoreWorker`.
   Theorem: the memory sent with a call is that of its instance.
2. Preview 2 streams and `poll` over several pollables: a poll reports those that are ready;
   a blocking read returns bytes or the end. Over the pipes of `ChildProcess`.
3. Datagrams (a partial read must not drop whole datagrams), reads into several buffers.
4. The cache of mounted handles of `NFileSystemDirectoryHandle`, over `IndexedDb`: a lookup
   after an unmount does not find the mount.

## 7. Running it

In this directory: `tlc -config CoreWorker_run.cfg MCCoreWorker` checks a run (its module and
configuration are in `PROJECT.json`), and `tlapm OpenFilesProofs.tla` the proofs of a module. Every run
takes two minutes or less.
