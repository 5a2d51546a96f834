--------------------------- MODULE ComponentHandles ---------------------------
(***************************************************************************)
(* The resources of a component on a worker: descriptors, streams,          *)
(* pollables, directory iterators, errors and child processes, each an       *)
(* object of the main thread that the guest has handles of.                  *)
(*                                                                          *)
(* OpenFiles._files holds both the resources and the files, directories and  *)
(* pipes they work on, under numbers of one counter; a handle is the number  *)
(* of its resource.  A call names the resource it is made on and those in    *)
(* its arguments by their numbers, the worker blocks until it is answered,   *)
(* and the main thread has no other business in the table meanwhile: a call   *)
(* is one step.  Calls that fail before they have changed anything, and those *)
(* that change nothing, are not shown.                                       *)
(*                                                                          *)
(* Dropping a handle reaches asyncDispose, as it does where Symbol.asyncDispose *)
(* is the registered symbol "nodejs.asyncDispose".  Where it is not,           *)
(* handleComponentImport runs a dummy and nothing ever leaves the table.       *)
(***************************************************************************)
EXTENDS Naturals, Sequences

CONSTANTS
  MaxIds,   \* bound on the numbers ever given out
  MaxHeld,  \* bound on the guest's handles of one resource
  NumEnds   \* descriptors of a child process: 4 in the code

ASSUME HandlesAssumption ==
  /\ MaxIds \in Nat /\ MaxIds > 1
  /\ MaxHeld \in Nat \ {0}
  /\ NumEnds \in Nat \ {0}

VARIABLES
  table,   \* OpenFiles._files
  nextFd,  \* OpenFiles._nextFd
  ends,    \* ProcessResource.stdIn, stdOut, stdErr and processControl
  held,    \* the guest's handles of each resource
  guest,   \* "runs", or "stranded" in a call that is never answered
  given,   \* history: resources of which the guest was given a handle
  twice,   \* history: resources of which it was given another
  shared,  \* history: files, directories and pipes that two resources close
  lost     \* history: what calls have left in the table for good

tableVars == <<table, nextFd, ends>>
guestVars == <<held, guest>>
histVars  == <<given, twice, shared, lost>>
vars      == <<tableVars, guestVars, histVars>>

Ids  == 0 .. MaxIds
Std  == 0  \* a standard stream of the program
Root == 1  \* the preopened directory

-----------------------------------------------------------------------------
(* What is in the table. *)

Things    == {"file", "dir", "pipe"}
Streams   == {"in", "out"}
Workers   == Streams \cup {"descriptor"}
Resources == Workers \cup {"pollable", "iterator", "error", "process"}

\* A stream or descriptor works on fd; closes: it closes fd when it is disposed of.
Entries ==
  [kind : Things \cup Resources \cup {"free"}, fd : Ids, closes : BOOLEAN]

Thing(k)          == [kind |-> k, fd |-> 0, closes |-> FALSE]
Descriptor(fd)    == [kind |-> "descriptor", fd |-> fd, closes |-> TRUE]
Stream(k, fd, c)  == [kind |-> k, fd |-> fd, closes |-> c]
Pollable(fd)      == [kind |-> "pollable", fd |-> fd, closes |-> FALSE]
Iterator          == [kind |-> "iterator", fd |-> 0, closes |-> FALSE]
IoError           == [kind |-> "error", fd |-> 0, closes |-> FALSE]
Process           == [kind |-> "process", fd |-> 0, closes |-> FALSE]
Free              == [kind |-> "free", fd |-> 0, closes |-> FALSE]

IsOpen(fd) == table[fd].kind \in Things

Init ==
  /\ table = [i \in Ids |-> IF i = Std THEN Thing("pipe")
                            ELSE IF i = Root THEN Thing("dir") ELSE Free]
  /\ nextFd = 2
  /\ ends = [i \in Ids |-> {}]
  /\ held = [i \in Ids |-> 0]
  /\ guest = "runs"
  /\ given = {}
  /\ twice = {}
  /\ shared = {}
  /\ lost = {}

-----------------------------------------------------------------------------
(* Parts of the calls. *)

\* The guest calls a method of resource r, which getObjectToCall finds.
Calls(r, kinds) == guest = "runs" /\ held[r] > 0 /\ table[r].kind \in kinds

\* OpenFiles.add, once for each of the n new entries, in this order.
AddAll(n, new) ==
  /\ nextFd + n <= MaxIds + 1
  /\ nextFd' = nextFd + n
  /\ table' = [i \in Ids |-> IF i \in nextFd .. nextFd + n - 1
                             THEN new[i - nextFd + 1] ELSE table[i]]

\* The answer has resource r in it, of which the worker makes a proxy.
Return(r) ==
  /\ held[r] < MaxHeld
  /\ held' = [held EXCEPT ![r] = @ + 1]
  /\ given' = given \cup {r}
  /\ twice' = IF r \in given THEN twice \cup {r} ELSE twice
  /\ UNCHANGED guest

ReturnNothing == UNCHANGED <<guestVars, given, twice>>

\* What the guest can still dispose of: its own, and what processes hand out.
Claimed == {r \in Ids : held[r] > 0} \cup UNION {ends[p] : p \in Ids}

Closers(fd) == {r \in Claimed : table[r].closes /\ table[r].fd = fd}

-----------------------------------------------------------------------------
(* Descriptors. *)

\* getDirectories: a descriptor of the directory, as long as that is open.
GetDirectories ==
  /\ guest = "runs"
  /\ IsOpen(Root)
  /\ AddAll(1, <<Descriptor(Root)>>)
  /\ Return(nextFd)
  /\ shared' = IF Closers(Root) = {} THEN shared ELSE shared \cup {Root}
  /\ UNCHANGED <<ends, lost>>

\* openAt on a directory.
OpenAt(d, k) ==
  /\ Calls(d, {"descriptor"})
  /\ table[table[d].fd].kind = "dir"
  /\ AddAll(2, <<Thing(k), Descriptor(nextFd)>>)
  /\ Return(nextFd + 1)
  /\ UNCHANGED <<ends, shared, lost>>

\* createDirectoryAt opens the directory it makes, and leaves it open.
CreateDirectoryAt(d) ==
  /\ Calls(d, {"descriptor"})
  /\ table[table[d].fd].kind = "dir"
  /\ AddAll(1, <<Thing("dir")>>)
  /\ lost' = lost \cup {nextFd}
  /\ ReturnNothing
  /\ UNCHANGED <<ends, shared>>

\* readDirectory: an iterator that keeps the directory's object.
ReadDirectory(d) ==
  /\ Calls(d, {"descriptor"})
  /\ table[table[d].fd].kind = "dir"
  /\ AddAll(1, <<Iterator>>)
  /\ Return(nextFd)
  /\ UNCHANGED <<ends, shared, lost>>

(* readViaStream, writeViaStream and appendViaStream: openReader and         *)
(* openWriter open the file once more for the stream; of anything but a file *)
(* they return the descriptor's own fd, and the stream closes it all the same. *)
ViaStream(d, k) ==
  /\ Calls(d, {"descriptor"})
  /\ IF table[table[d].fd].kind = "file"
     THEN /\ AddAll(2, <<Thing("file"), Stream(k, nextFd, TRUE)>>)
          /\ Return(nextFd + 1)
          /\ UNCHANGED shared
     ELSE /\ IsOpen(table[d].fd)
          /\ AddAll(1, <<Stream(k, table[d].fd, TRUE)>>)
          /\ Return(nextFd)
          /\ shared' = shared \cup {table[d].fd}
  /\ UNCHANGED <<ends, lost>>

(* The numbers of a stream, and of the file it is opened on, that is disposed *)
(* of before the call ends.                                                  *)
PassingStream ==
  /\ AddAll(2, <<Free, Free>>)
  /\ UNCHANGED <<shared, lost>>

\* The close of that file throws: asyncDispose swallows it and forgets the stream.
PassingStreamUnstored ==
  /\ AddAll(2, <<Free, Stream("out", nextFd, TRUE)>>)
  /\ lost' = lost \cup {nextFd + 1}
  /\ UNCHANGED shared

\* On a pipe or a directory, disposing of the stream closes what d works on.
PassingStreamCloses(fd) ==
  /\ nextFd <= MaxIds
  /\ nextFd' = nextFd + 1
  /\ table' = [table EXCEPT ![fd] = Free]
  /\ shared' = shared \cup {fd}
  /\ UNCHANGED lost

(* The stream's call throws, and neither the stream nor what was opened for *)
(* it is disposed of; neither is the error of a failure, which is translated. *)
StreamLeft(d, k, errors) ==
  LET opened == IF table[table[d].fd].kind = "file"
                THEN <<Thing("file"), Stream(k, nextFd, TRUE)>>
                ELSE <<Stream(k, table[d].fd, TRUE)>>
      left   == opened \o errors
  IN  /\ AddAll(Len(left), left)
      /\ lost' = lost \cup (nextFd .. nextFd + Len(left) - 1)
      /\ UNCHANGED shared

(* FileSystemFileDescriptor.read: bytes, none at the end of a file or in an  *)
(* empty pipe, or a failure; reading no bytes at all always succeeds.        *)
DescriptorRead(d) ==
  /\ Calls(d, {"descriptor"})
  /\ IsOpen(table[d].fd)
  /\ LET kind == table[table[d].fd].kind
     IN  \/ kind = "file" /\ PassingStream
         \/ kind # "file" /\ PassingStreamCloses(table[d].fd)
         \/ kind \in {"file", "pipe"} /\ StreamLeft(d, "in", <<>>)
         \/ kind \in {"file", "dir"} /\ StreamLeft(d, "in", <<IoError>>)
  /\ ReturnNothing
  /\ UNCHANGED ends

(* FileSystemFileDescriptor.write.  The data are stored when the stream is    *)
(* disposed of, which does not tell if that fails.                           *)
DescriptorWrite(d) ==
  /\ Calls(d, {"descriptor"})
  /\ IsOpen(table[d].fd)
  /\ LET kind == table[table[d].fd].kind
     IN  \/ kind = "file" /\ PassingStream
         \/ kind = "file" /\ PassingStreamUnstored
         \/ kind = "pipe" /\ PassingStreamCloses(table[d].fd)
         \/ kind \in {"file", "dir"} /\ StreamLeft(d, "out", <<IoError>>)
  /\ ReturnNothing
  /\ UNCHANGED ends

-----------------------------------------------------------------------------
(* Streams and pollables. *)

\* Faulty variant: the stream closes the standard stream it works on.
GetStd_Closes(k) ==
  /\ guest = "runs"
  /\ AddAll(1, <<Stream(k, Std, TRUE)>>)
  /\ Return(nextFd)
  /\ UNCHANGED <<ends, shared, lost>>

\* getStdin, getStdout and getStderr: a stream that leaves its fd alone.
GetStd(k) ==
  /\ guest = "runs"
  /\ AddAll(1, <<Stream(k, Std, FALSE)>>)
  /\ Return(nextFd)
  /\ UNCHANGED <<ends, shared, lost>>

\* InStream.subscribe and OutStream.subscribe.
Subscribe(s) ==
  /\ Calls(s, Streams)
  /\ AddAll(1, <<Pollable(table[s].fd)>>)
  /\ Return(nextFd)
  /\ UNCHANGED <<ends, shared, lost>>

\* ClocksMonotonicClockAsyncHost.subscribe.
SubscribeClock ==
  /\ guest = "runs"
  /\ AddAll(1, <<Pollable(0)>>)
  /\ Return(nextFd)
  /\ UNCHANGED <<ends, shared, lost>>

(* A read or write fails: last-operation-failed, with an error resource in a  *)
(* field, where containsResourceObjects does not look.  So the object itself, *)
(* which refers to the whole environment, is to be serialised: this fails, or *)
(* the guest gets a copy that has the number but cannot be disposed of.       *)
(* blockingWriteAndFlush throws closed in its place.                          *)
StreamFails(s) ==
  /\ Calls(s, Streams)
  /\ table[table[s].fd].kind \in {"file", "dir"}
  /\ AddAll(1, <<IoError>>)
  /\ \/ Return(nextFd) /\ UNCHANGED lost
     \/ /\ table[s].kind = "out"
        /\ lost' = lost \cup {nextFd}
        /\ ReturnNothing
     \/ /\ guest' = "stranded"
        /\ lost' = lost \cup {nextFd}
        /\ UNCHANGED <<held, given, twice>>
  /\ UNCHANGED <<ends, shared>>

-----------------------------------------------------------------------------
(* Child processes. *)

\* initProcess: the pipes of a child, the first at number b, then a descriptor of each.
EndsAt(b) ==
  [i \in 1 .. 2 * NumEnds |->
     IF i <= NumEnds THEN Thing("pipe") ELSE Descriptor(b + i - NumEnds - 1)]

\* Descriptors that the process forgets, with their pipes, and nobody else has.
Abandoned(p) ==
  LET unheld == {e \in ends[p] : held[e] = 0 /\ table[e].kind = "descriptor"}
  IN  unheld \cup {table[e].fd : e \in unheld}

\* create.
Create ==
  /\ guest = "runs"
  /\ AddAll(1, <<Process>>)
  /\ Return(nextFd)
  /\ UNCHANGED <<ends, shared, lost>>

\* exec, which also starts the child: initProcess has run when it returns.
Exec ==
  /\ guest = "runs"
  /\ AddAll(2 * NumEnds + 1, <<Process>> \o EndsAt(nextFd + 1))
  /\ ends' = [ends EXCEPT ![nextFd] = nextFd + NumEnds + 1 .. nextFd + 2 * NumEnds]
  /\ Return(nextFd)
  /\ UNCHANGED <<shared, lost>>

\* Faulty variant: the descriptors are counted from one too far.
Start_OffByOne(p) ==
  /\ Calls(p, {"process"})
  /\ AddAll(2 * NumEnds, EndsAt(nextFd))
  /\ ends' = [ends EXCEPT ![p] = nextFd + NumEnds + 1 .. nextFd + 2 * NumEnds]
  /\ lost' = lost \cup Abandoned(p)
  /\ ReturnNothing
  /\ UNCHANGED shared

\* ProcessResource.start, also of a child that has been started before.
Start(p) ==
  /\ Calls(p, {"process"})
  /\ AddAll(2 * NumEnds, EndsAt(nextFd))
  /\ ends' = [ends EXCEPT ![p] = nextFd + NumEnds .. nextFd + 2 * NumEnds - 1]
  /\ lost' = lost \cup Abandoned(p)
  /\ ReturnNothing
  /\ UNCHANGED shared

\* ProcessResource.getStdin, getStdout, getStderr and getProcessControl.
GetEnd(p, e) ==
  /\ Calls(p, {"process"})
  /\ e \in ends[p]
  /\ Return(e)
  /\ UNCHANGED <<tableVars, shared, lost>>

-----------------------------------------------------------------------------
(* The end of a handle. *)

\* The guest has one handle of r less.
GivenUp(r) == guest = "runs" /\ held[r] > 0 /\ held' = [held EXCEPT ![r] = @ - 1]

Dropped == UNCHANGED <<nextFd, guest, given, twice, shared>>

\* asyncDispose of a resource with nothing of its own to close.
DropPlain(r) ==
  /\ table[r].kind \in Resources \ {"error", "process"} /\ ~table[r].closes
  /\ GivenUp(r)
  /\ table' = [table EXCEPT ![r] = Free]
  /\ Dropped
  /\ UNCHANGED <<ends, lost>>

\* Its process object keeps the descriptors; nobody can get them any more.
DropProcess(r) ==
  /\ table[r].kind = "process"
  /\ GivenUp(r)
  /\ table' = [table EXCEPT ![r] = Free]
  /\ ends' = [ends EXCEPT ![r] = {}]
  /\ lost' = lost \cup Abandoned(r)
  /\ Dropped

\* The copy of an error has no dispose function.
DropError(r) ==
  /\ table[r].kind = "error"
  /\ GivenUp(r)
  /\ lost' = lost \cup {r}
  /\ Dropped
  /\ UNCHANGED <<table, ends>>

\* Faulty variant: the file the stream was opened on stays open.
DropCloser_KeepsFile(r) ==
  /\ table[r].closes /\ IsOpen(table[r].fd)
  /\ GivenUp(r)
  /\ table' = [table EXCEPT ![r] = Free]
  /\ Dropped
  /\ UNCHANGED <<ends, lost>>

\* asyncDispose of a descriptor or of a stream with a file of its own.
DropCloser(r) ==
  /\ table[r].closes /\ IsOpen(table[r].fd)
  /\ GivenUp(r)
  /\ table' = [table EXCEPT ![table[r].fd] = Free, ![r] = Free]
  /\ Dropped
  /\ UNCHANGED <<ends, lost>>

\* The file's close fails after it was taken out of the table.
DropCloserFails(r) ==
  /\ table[r].closes /\ table[table[r].fd].kind = "file"
  /\ GivenUp(r)
  /\ table' = [table EXCEPT ![table[r].fd] = Free]
  /\ lost' = lost \cup {r}
  /\ Dropped
  /\ UNCHANGED ends

\* close throws as fd is closed, and the resource stays in the table.
DropCloserTooLate(r) ==
  /\ table[r].closes /\ ~IsOpen(table[r].fd)
  /\ GivenUp(r)
  /\ lost' = lost \cup {r}
  /\ Dropped
  /\ UNCHANGED <<table, ends>>

(* A call on, or with, or the disposal of, a resource that is gone: looking it *)
(* up throws outside the try block of handleComponentImport, so no message is  *)
(* ever written.                                                             *)
UseStale(r) ==
  /\ guest = "runs" /\ held[r] > 0 /\ table[r].kind = "free"
  /\ guest' = "stranded"
  /\ UNCHANGED <<tableVars, held, histVars>>

-----------------------------------------------------------------------------
Next ==
  \/ GetDirectories \/ SubscribeClock \/ Create \/ Exec
  \/ \E k \in Streams : GetStd(k)
  \/ \E r \in Ids :
       \/ \E k \in {"file", "dir"} : OpenAt(r, k)
       \/ CreateDirectoryAt(r) \/ ReadDirectory(r)
       \/ \E k \in Streams : ViaStream(r, k)
       \/ DescriptorRead(r) \/ DescriptorWrite(r)
       \/ Subscribe(r) \/ StreamFails(r)
       \/ Start(r)
       \/ \E e \in Ids : GetEnd(r, e)
       \/ DropPlain(r) \/ DropProcess(r) \/ DropError(r)
       \/ DropCloser(r) \/ DropCloserFails(r) \/ DropCloserTooLate(r)
       \/ UseStale(r)

Spec == Init /\ [][Next]_vars

-----------------------------------------------------------------------------
(* Properties. *)

\* The types of the table, the guest's handles and the history variables.
TypeOK ==
  /\ table \in [Ids -> Entries]
  /\ nextFd \in 2 .. MaxIds + 1
  /\ ends \in [Ids -> SUBSET Ids]
  /\ held \in [Ids -> 0 .. MaxHeld]
  /\ guest \in {"runs", "stranded"}
  /\ given \subseteq Ids /\ twice \subseteq Ids
  /\ shared \subseteq Ids /\ lost \subseteq Ids

(* A handle is good until it is dropped: its resource is in the table, where  *)
(* getObjectToCall looks for it, and a descriptor or stream finds what it      *)
(* works on open.  The exceptions are a resource the guest was given two       *)
(* handles of, as the getters of a process do, and a file, directory or pipe   *)
(* that two resources close.                                                 *)
HandlesWork ==
  \A r \in Ids \ twice : held[r] > 0 =>
    /\ table[r].kind \in Resources
    /\ table[r].kind \in Workers => IsOpen(table[r].fd) \/ table[r].fd \in shared

(* What is in the table belongs to the program, is a resource the guest can    *)
(* get at, or is what such a resource will close, unless a call has left it    *)
(* there for good: a read at the end of a file, say (DescriptorRead), or a     *)
(* close that fails (DropCloserFails).  Nothing else piles up.                *)
NothingElseLeaks ==
  \A i \in Ids : table[i].kind # "free" =>
    i \in {Std, Root} \cup Claimed \cup lost \/ Closers(i) # {}

=============================================================================
