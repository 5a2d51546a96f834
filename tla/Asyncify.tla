------------------------------ MODULE Asyncify ------------------------------
(***************************************************************************)
(* Run mode "asyncify": an asyncified module on the main thread, with the    *)
(* wrappers Asyncify.wrapImportFn and Asyncify.wrapExportFn around its        *)
(* imports and exports.                                                      *)
(*                                                                          *)
(* A guest that calls an asynchronous import is unwound: its frames go to a  *)
(* buffer in its memory and the export returns, to wait for the import's     *)
(* promise.  When the promise settles the export is called again, to rewind  *)
(* the frames.  While one export waits, others may be called: the listener   *)
(* of terminal resizes calls term_set_rows and its like while _start is       *)
(* suspended.  All of them share the buffer, the field `value` and the        *)
(* module's asyncify state.                                                  *)
(*                                                                          *)
(* From one await to the next the wrapper and the guest run without          *)
(* interruption, so an export's first stretch is one action, and so is each  *)
(* stretch after a promise settles.  Imports that return no promise leave    *)
(* nothing behind and are part of the stretch.                               *)
(***************************************************************************)
EXTENDS Naturals, Sequences, SequencesExt

CONSTANTS
  Calls,      \* calls of the module's exports
  MaxImports  \* bound on the asynchronous imports the guest calls

ASSUME AsyncifyAssumption == MaxImports \in Nat

VARIABLES
  state,     \* asyncify_get_state(), between two turns of the event loop
  value,     \* Asyncify.value, named by the import whose promise or answer it is
  buffer,    \* the frames in the unwind buffer, named by the import they wait in
  status,    \* how far each call is
  awaiting,  \* the import whose promise a call awaits, 0 if none
  imports,   \* the asynchronous imports called so far; also the newest one's name
  answers,   \* history: the answer each import gave the guest, 0 if none yet
  rejected,  \* history: imports whose promise was rejected
  orderly    \* history: no promise has settled out of turn

moduleVars  == <<state, value, buffer>>
callVars    == <<status, awaiting, imports>>
historyVars == <<answers, rejected, orderly>>
vars        == <<moduleVars, callVars, historyVars>>

Imports == 1 .. MaxImports

Waiting == {c \in Calls : status[c] = "suspended"}

\* The imports somebody waits in.
Awaited == {awaiting[c] : c \in Waiting}

-----------------------------------------------------------------------------
(* init: the descriptor of the buffer is set once, to an empty buffer. *)
Init ==
  /\ state = "None"
  /\ value = 0
  /\ buffer = <<>>
  /\ status = [c \in Calls |-> "idle"]
  /\ awaiting = [c \in Calls |-> 0]
  /\ imports = 0
  /\ answers = [i \in Imports |-> 0]
  /\ rejected = {}
  /\ orderly = TRUE

-----------------------------------------------------------------------------
(* The pieces of the wrappers. *)

\* Faulty variant: the descriptor is reset whenever an unwind starts.
PushFrames_Resets(frames, i) == <<i>>

\* asyncify_start_unwind: frames go on top of those that are there.
PushFrames(frames, i) == Append(frames, i)

\* Faulty variant: the frames stay although they have been rewound.
PopFrames_Keeps(frames) == frames

\* The rewind takes the topmost frames off the buffer.
PopFrames(frames) == Front(frames)

\* Faulty variant: the awaited answer is not stored.
AwaitedValue_Stale(c) == value

\* `this.value = await this.value`.
AwaitedValue(c) == awaiting[c]

\* Faulty variant: the wrapped import does not stop the rewind.
StateInImport_StillRewinding == "Rewinding"

\* wrapImportFn in state Rewinding: asyncify_stop_rewind.
StateInImport == "None"

\* The guest runs on with `frames` in the buffer and v in the field `value`,
\* until its next asynchronous import, its return or a throw.
GuestRuns(c, frames, v) ==
  \/ /\ imports < MaxImports
     /\ imports' = imports + 1
     /\ buffer' = PushFrames(frames, imports + 1)
     /\ value' = imports + 1
     /\ status' = [status EXCEPT ![c] = "suspended"]
     /\ awaiting' = [awaiting EXCEPT ![c] = imports + 1]
  \/ /\ \E end \in {"done", "failed"} : status' = [status EXCEPT ![c] = end]
     /\ buffer' = frames
     /\ value' = v
     /\ awaiting' = [awaiting EXCEPT ![c] = 0]
     /\ UNCHANGED imports

\* Faulty variant: the failed call goes on holding the promise it awaited.
CallFails_StillAwaits(c) ==
  /\ status' = [status EXCEPT ![c] = "failed"]
  /\ UNCHANGED <<awaiting, imports>>

\* The call's promise is rejected; nothing takes its frames off the buffer.
CallFails(c) ==
  /\ status' = [status EXCEPT ![c] = "failed"]
  /\ awaiting' = [awaiting EXCEPT ![c] = 0]
  /\ UNCHANGED imports

\* The promise of call c settles while a later one is still pending.
OutOfTurn(c) == \E d \in Waiting : awaiting[d] > awaiting[c]

Buries(c) == \E d \in Waiting : awaiting[d] < awaiting[c]

-----------------------------------------------------------------------------
(* The first stretch of an export: assertNoneState, then the guest. *)
StartExport(c) ==
  /\ status[c] = "idle"
  /\ state = "None"
  /\ GuestRuns(c, buffer, value)
  /\ UNCHANGED <<state, historyVars>>

\* assertNoneState throws before the guest is entered.
StartRefused(c) ==
  /\ status[c] = "idle"
  /\ state # "None"
  /\ CallFails(c)
  /\ UNCHANGED <<moduleVars, historyVars>>

(* The awaited promise is fulfilled and the frames on top of the buffer are *)
(* the call's own: its import returns the answer and the guest runs on.      *)
Resume(c) ==
  /\ status[c] = "suspended"
  /\ state = "None"
  /\ buffer # <<>>
  /\ Last(buffer) = awaiting[c]
  /\ answers' = [answers EXCEPT ![awaiting[c]] = AwaitedValue(c)]
  /\ GuestRuns(c, PopFrames(buffer), AwaitedValue(c))
  /\ state' = StateInImport
  /\ orderly' = (orderly /\ ~OutOfTurn(c))
  /\ UNCHANGED rejected

(* The promise is fulfilled but the frames on top belong to another call, or *)
(* there are none.  What the module does with them is undefined: it gets     *)
(* stuck in the rewind after any number of frames, and the wrapper rejects   *)
(* the call, or it reaches the import of the frames it took for its own,      *)
(* which gets this call's answer.                                            *)
ResumeAstray(c) ==
  /\ status[c] = "suspended"
  /\ state = "None"
  /\ buffer = <<>> \/ Last(buffer) # awaiting[c]
  /\ \/ /\ state' = "Rewinding"
        /\ \E n \in 0 .. Len(buffer) : buffer' = SubSeq(buffer, 1, n)
        /\ value' = AwaitedValue(c)
        /\ CallFails(c)
        /\ UNCHANGED answers
     \/ /\ buffer # <<>>
        /\ answers' = [answers EXCEPT ![Last(buffer)] = AwaitedValue(c)]
        /\ GuestRuns(c, PopFrames(buffer), AwaitedValue(c))
        /\ state' = StateInImport
  /\ orderly' = (orderly /\ ~OutOfTurn(c))
  /\ UNCHANGED rejected

\* The promise is fulfilled, assertNoneState throws.
ResumeRefused(c) ==
  /\ status[c] = "suspended"
  /\ state # "None"
  /\ value' = AwaitedValue(c)
  /\ CallFails(c)
  /\ orderly' = (orderly /\ ~OutOfTurn(c))
  /\ UNCHANGED <<state, buffer, answers, rejected>>

\* `await` throws: the import failed, or it was proc_exit.
Reject(c) ==
  /\ status[c] = "suspended"
  /\ rejected' = rejected \cup {awaiting[c]}
  /\ CallFails(c)
  /\ orderly' = (orderly /\ ~Buries(c))
  /\ UNCHANGED <<moduleVars, answers>>

Next ==
  \E c \in Calls :
    \/ StartExport(c) \/ StartRefused(c)
    \/ Resume(c) \/ ResumeAstray(c) \/ ResumeRefused(c)
    \/ Reject(c)

Spec == Init /\ [][Next]_vars

-----------------------------------------------------------------------------
(* Properties. *)

\* The state of the wrappers and of the calls is what the code keeps.
TypeOK ==
  /\ state \in {"None", "Unwinding", "Rewinding"}
  /\ value \in 0 .. MaxImports
  /\ buffer \in Seq(Imports)
  /\ status \in [Calls -> {"idle", "suspended", "done", "failed"}]
  /\ awaiting \in [Calls -> 0 .. MaxImports]
  /\ imports \in 0 .. MaxImports
  /\ answers \in [Imports -> 0 .. MaxImports]
  /\ rejected \subseteq Imports
  /\ orderly \in BOOLEAN
  /\ \A c \in Calls : status[c] = "suspended" <=> awaiting[c] # 0

\* As long as promises settle in turn (the newest pending one first, and none
\* fails on top of another), the call to be resumed next finds its own frames
\* on top of the buffer, and the module is ready to rewind them.  Nothing in
\* wrapExportFn sees to it: there is one buffer for all calls.
NewestOnTop ==
  orderly =>
    \A c \in Waiting :
      OutOfTurn(c) \/ (state = "None" /\ buffer # <<>> /\ Last(buffer) = awaiting[c])

\* As long as promises settle in turn, each import gives the guest the answer
\* it was itself waiting for, though `value` is shared by all calls.
AnswersAreOwn ==
  orderly => \A i \in Imports : answers[i] \in {0, i}

\* The buffer grows by nothing but the frames of calls that wait and, since a
\* rejected call leaves its frames behind, of imports that were rejected.
FramesAccountedFor ==
  orderly => ToSet(buffer) \subseteq Awaited \cup rejected

\* While a call waits, no other call that runs in turn moves or overwrites its
\* frames.
PausedFramesStay ==
  [][orderly' =>
       \A i \in DOMAIN buffer :
         buffer[i] \in Awaited \cap Awaited' =>
           i \in DOMAIN buffer' /\ buffer'[i] = buffer[i]]_vars

\* As long as promises settle in turn, every call of an export is a coroutine of
\* its own: wrapExportFn resumes it with the answer of the import it waits in,
\* refuses none and lets no other call make it fail.
Coroutine == INSTANCE Coroutines WITH sound <- orderly

ImplementsCoroutines == Coroutine!Spec
=============================================================================
