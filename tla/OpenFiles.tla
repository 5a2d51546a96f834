------------------------------ MODULE OpenFiles ------------------------------
(***************************************************************************)
(* The descriptor table (OpenFiles), the open files it holds (OpenFile) and *)
(* the preview 1 calls that use them, over the in-memory file system of      *)
(* fs-js.                                                                   *)
(*                                                                          *)
(* The guest is one thread and makes one call at a time.  A handler runs    *)
(* without interruption from one await to the next; between two awaits of   *)
(* one call only work that nobody awaits can run: the close that fd_pread   *)
(* and fd_pwrite start in their finally block, and all of fd_renumber.      *)
(*                                                                          *)
(* A writable stream holds a copy of the whole file, made when the first    *)
(* write opens it; closing it installs the copy as the new contents.        *)
(***************************************************************************)
EXTENDS Naturals, Sequences

CONSTANTS
  Files,      \* file handles; a name that is created again is another handle
  NoFile,     \* not a file handle
  Ops,        \* the calls the guest makes besides opening, writing and closing
  MaxFds,     \* bound on the descriptors ever allocated
  MaxWrites,  \* bound on the writes
  MaxOffset   \* bound on the offsets and sizes the guest names

ASSUME FilesAssumption ==
  /\ NoFile \notin Files
  /\ Ops \subseteq {"append", "pread", "pwrite", "read", "renumber", "resize",
                      "seek", "unlink", "wild"}
  /\ MaxFds \in Nat /\ MaxWrites \in Nat /\ MaxOffset \in Nat

VARIABLES
  files,     \* OpenFiles._files: the object behind a descriptor, 0 if it is closed
  nextFd,    \* OpenFiles._nextFd
  handle,    \* OpenFile._handle of each object
  position,  \* OpenFile.position
  append,    \* APPEND is set in OpenFile.fdFlags
  writer,    \* OpenFile._writer: "none", "open" or "broken" (its close has failed)
  staged,    \* MemorySink.file of the object's writer
  disk,      \* MemoryFileHandle.file: what readers and new writers find
  deleted,   \* handles with MemoryFileHandle.deleted
  call,      \* the host call under way, "idle" while the guest runs
  obj,       \* the object that call works on, 0 if none
  newSize,   \* the size a resize is to give the file
  closing,   \* objects whose close() nobody awaits
  moving,    \* renumber() calls nobody awaits, once `to` has been taken
  writes,    \* number of writes so far; it also tags the data written
  ideal,     \* history: the contents if every write took effect at once
  overlap,   \* history: files that two writers were open on at the same time
  granted,   \* history: descriptors the guest may believe to be open
  opened     \* history: objects that path_open has opened

tableVars  == <<files, nextFd>>
objectVars == <<handle, position, append, writer, staged>>
diskVars   == <<disk, deleted>>
callVars   == <<call, obj, newSize>>
taskVars   == <<closing, moving>>
histVars   == <<writes, ideal, overlap, granted, opened>>
vars       == <<tableVars, objectVars, diskVars, callVars, taskVars, histVars>>

\* An object is named after the descriptor it was first added under.
Fds == 1 .. MaxFds
Offsets == 0 .. MaxOffset

-----------------------------------------------------------------------------
(* File contents: a sequence of cells, each a write's tag or 0 for a zero. *)

\* Faulty variant: the gap in front of the cell is left out.
PutAt_Unpadded(s, p, x) ==
  SubSeq(s, 1, IF p < Len(s) THEN p ELSE Len(s)) \o <<x>> \o SubSeq(s, p + 2, Len(s))

\* genericWrite of one cell at offset p.
PutAt(s, p, x) ==
  LET head    == SubSeq(s, 1, IF p < Len(s) THEN p ELSE Len(s))
      padding == [i \in 1 .. p - Len(head) |-> 0]
      tail    == SubSeq(s, p + 2, Len(s))
  IN  head \o padding \o <<x>> \o tail

\* What a write is to do: the cell at p is x, other cells stay, a gap is zero.
Written(s, p, x) ==
  [i \in 1 .. (IF p < Len(s) THEN Len(s) ELSE p + 1) |->
     IF i = p + 1 THEN x ELSE IF i <= Len(s) THEN s[i] ELSE 0]

\* genericWrite of a truncate: cut or zero-filled to n cells.
Resized(s, n) == [i \in 1 .. n |-> IF i <= Len(s) THEN s[i] ELSE 0]

-----------------------------------------------------------------------------
Init ==
  /\ files = [fd \in Fds |-> 0]
  /\ nextFd = 1
  /\ handle = [o \in Fds |-> NoFile]
  /\ position = [o \in Fds |-> 0]
  /\ append = [o \in Fds |-> FALSE]
  /\ writer = [o \in Fds |-> "none"]
  /\ staged = [o \in Fds |-> <<>>]
  /\ disk = [f \in Files |-> <<>>]
  /\ deleted = {}
  /\ call = "idle"
  /\ obj = 0
  /\ newSize = 0
  /\ closing = {}
  /\ moving = {}
  /\ writes = 0
  /\ ideal = [f \in Files |-> <<>>]
  /\ overlap = {}
  /\ granted = {}
  /\ opened = {}

-----------------------------------------------------------------------------
(* Parts of the handlers. *)

IsOpen(fd) == files[fd] # 0

Enter(c, o) == call = "idle" /\ call' = c /\ obj' = o

Return == call' = "idle" /\ obj' = 0

\* OpenFiles.add and _add: a new object behind the next descriptor.
AddFile(f, p, a) ==
  /\ nextFd \in Fds
  /\ nextFd' = nextFd + 1
  /\ files' = [files EXCEPT ![nextFd] = nextFd]
  /\ handle' = [handle EXCEPT ![nextFd] = f]
  /\ position' = [position EXCEPT ![nextFd] = p]
  /\ append' = [append EXCEPT ![nextFd] = a]

WritersOn(f) == {o \in Fds : writer[o] = "open" /\ handle[o] = f}

\* A writer opened on file f finds the committed contents.
Snapshot(o, f) ==
  /\ writer' = [writer EXCEPT ![o] = "open"]
  /\ staged' = [staged EXCEPT ![o] = disk[f]]
  /\ overlap' = IF WritersOn(f) = {} THEN overlap ELSE overlap \cup {f}

\* Where a write of object o goes.  In append mode that is the end of the
\* committed contents, which do not include what the writer has staged.
WriteOffset(o) == IF append[o] THEN Len(disk[handle[o]]) ELSE position[o]

IdealOffset(o) == IF append[o] THEN Len(ideal[handle[o]]) ELSE position[o]

\* OpenFile.write once the writer is there.
StageWrite(o) ==
  /\ writes' = writes + 1
  /\ staged' = [staged EXCEPT ![o] = PutAt(@, WriteOffset(o), writes + 1)]
  /\ position' = [position EXCEPT ![o] = WriteOffset(o) + 1]
  /\ ideal' = [ideal EXCEPT ![handle[o]] = Written(@, IdealOffset(o), writes + 1)]

\* Faulty variant: closing a writer does not look whether the file was deleted.
CloseWriter_IgnoresDeleted(o) ==
  IF writer[o] # "open" THEN UNCHANGED <<writer, staged, disk>>
  ELSE /\ writer' = [writer EXCEPT ![o] = "none"]
       /\ staged' = [staged EXCEPT ![o] = <<>>]
       /\ disk' = [disk EXCEPT ![handle[o]] = staged[o]]

\* OpenFile.close and MemorySink.close: the copy becomes the contents of the
\* file.  On a deleted file close throws and leaves the stream closed.
CloseWriter(o) ==
  IF writer[o] # "open" THEN UNCHANGED <<writer, staged, disk>>
  ELSE IF handle[o] \in deleted
  THEN /\ writer' = [writer EXCEPT ![o] = "broken"]
       /\ UNCHANGED <<staged, disk>>
  ELSE /\ writer' = [writer EXCEPT ![o] = "none"]
       /\ staged' = [staged EXCEPT ![o] = <<>>]
       /\ disk' = [disk EXCEPT ![handle[o]] = staged[o]]

-----------------------------------------------------------------------------
(* Calls of the guest.  A call that fails without changing anything - the
   descriptor is closed, the file is gone - is not an action. *)

\* path_open.  TRUNC is checked for directories and otherwise ignored.
PathOpen(f, a) ==
  /\ call = "idle"
  /\ f \notin deleted
  /\ a => "append" \in Ops
  /\ AddFile(f, 0, a)
  /\ granted' = granted \cup {nextFd}
  /\ opened' = opened \cup {nextFd}
  /\ UNCHANGED <<writer, staged, diskVars, callVars, taskVars, writes, ideal, overlap>>

\* fd_write up to the first await: the writer is opened on the first write.
FdWrite(fd) ==
  /\ IsOpen(fd)
  /\ writes < MaxWrites
  /\ Enter("write", files[fd])
  /\ \/ writer[files[fd]] = "open" /\ UNCHANGED <<writer, staged, overlap>>
     \/ /\ writer[files[fd]] = "none"
        /\ handle[files[fd]] \notin deleted
        /\ Snapshot(files[fd], handle[files[fd]])
  /\ UNCHANGED <<tableVars, handle, position, append, diskVars, newSize, taskVars, writes, ideal, granted, opened>>

\* fd_write after it.  In append mode the size of a deleted file is an error.
FdWriteDone ==
  /\ call = "write"
  /\ \/ StageWrite(obj)
     \/ /\ append[obj] /\ handle[obj] \in deleted
        /\ UNCHANGED <<writes, staged, position, ideal>>
  /\ Return
  /\ UNCHANGED <<tableVars, handle, append, writer, diskVars, newSize, taskVars, overlap, granted, opened>>

\* Faulty variant: on an error the descriptor of fd_pwrite is not closed.
FdPwrite_Leaks(fd, p) ==
  /\ "pwrite" \in Ops
  /\ IsOpen(fd)
  /\ writes < MaxWrites
  /\ AddFile(handle[files[fd]], p, append[files[fd]])
  /\ IF handle[files[fd]] \notin deleted
     THEN Enter("pwrite", nextFd) /\ Snapshot(nextFd, handle[files[fd]])
     ELSE call = "idle" /\ UNCHANGED <<call, obj, writer, staged, overlap>>
  /\ UNCHANGED <<diskVars, newSize, taskVars, writes, ideal, granted, opened>>

\* fd_pwrite works on a new object under a descriptor of its own.  When the
\* writer cannot be opened the finally block closes that descriptor again.
FdPwrite(fd, p) ==
  /\ "pwrite" \in Ops
  /\ IsOpen(fd)
  /\ writes < MaxWrites
  /\ \/ /\ handle[files[fd]] \notin deleted
        /\ AddFile(handle[files[fd]], p, append[files[fd]])
        /\ Enter("pwrite", nextFd)
        /\ Snapshot(nextFd, handle[files[fd]])
     \/ /\ handle[files[fd]] \in deleted
        /\ call = "idle"
        /\ nextFd \in Fds
        /\ nextFd' = nextFd + 1
        /\ UNCHANGED <<files, objectVars, call, obj, overlap>>
  /\ UNCHANGED <<diskVars, newSize, taskVars, writes, ideal, granted, opened>>

\* Faulty variant: the object is looked up after its descriptor has been removed.
FdPwriteDone_LooksLate ==
  /\ call = "pwrite"
  /\ StageWrite(obj)
  /\ Return
  /\ files' = [files EXCEPT ![obj] = 0]
  /\ closing' = closing \cup {files'[obj]}
  /\ UNCHANGED <<nextFd, handle, append, writer, diskVars, newSize, moving, overlap, granted, opened>>

\* The end of fd_pwrite: its descriptor is taken out of the table at once, but
\* nobody waits for the writer to be closed.
FdPwriteDone ==
  /\ call = "pwrite"
  /\ \/ StageWrite(obj)
     \/ /\ append[obj] /\ handle[obj] \in deleted
        /\ UNCHANGED <<writes, staged, position, ideal>>
  /\ Return
  /\ files' = [files EXCEPT ![obj] = 0]
  /\ closing' = closing \cup ({files[obj]} \ {0})
  /\ UNCHANGED <<nextFd, handle, append, writer, diskVars, newSize, moving, overlap, granted, opened>>

\* fd_pread opens a reader under a descriptor of its own.
FdPread(fd) ==
  /\ "pread" \in Ops
  /\ IsOpen(fd)
  /\ AddFile(handle[files[fd]], 0, append[files[fd]])
  /\ Enter("pread", nextFd)
  /\ UNCHANGED <<writer, staged, diskVars, newSize, taskVars, histVars>>

\* The finally block takes it out again; a reader has no writer to close.
FdPreadDone ==
  /\ call = "pread"
  /\ Return
  /\ files' = [files EXCEPT ![obj] = 0]
  /\ UNCHANGED <<nextFd, objectVars, diskVars, newSize, taskVars, histVars>>

\* fd_read of one cell, from the committed contents.
FdRead(fd) ==
  /\ "read" \in Ops
  /\ call = "idle"
  /\ IsOpen(fd)
  /\ handle[files[fd]] \notin deleted
  /\ position[files[fd]] < Len(disk[handle[files[fd]]])
  /\ position' = [position EXCEPT ![files[fd]] = @ + 1]
  /\ UNCHANGED <<tableVars, handle, append, writer, staged, diskVars, callVars, taskVars, histVars>>

FdSeek(fd, p) ==
  /\ "seek" \in Ops
  /\ call = "idle"
  /\ IsOpen(fd)
  /\ position' = [position EXCEPT ![files[fd]] = p]
  /\ UNCHANGED <<tableVars, handle, append, writer, staged, diskVars, callVars, taskVars, histVars>>

\* fd_filestat_set_size: the writer, if any, is closed first ...
FdFilestatSetSize(fd, n) ==
  /\ "resize" \in Ops
  /\ IsOpen(fd)
  /\ Enter("resize", files[fd])
  /\ newSize' = n
  /\ UNCHANGED <<tableVars, objectVars, diskVars, taskVars, histVars>>

\* ... then one is opened that does not keep the existing data ...
SetSizeTruncates ==
  /\ call = "resize"
  /\ LET f == handle[obj] IN
     IF writer[obj] = "broken" \/ f \in deleted
     THEN CloseWriter(obj) /\ Return /\ UNCHANGED overlap
     ELSE /\ call' = "truncate"
          /\ obj' = obj
          /\ disk' = IF writer[obj] = "open" THEN [disk EXCEPT ![f] = staged[obj]] ELSE disk
          /\ writer' = [writer EXCEPT ![obj] = "open"]
          /\ staged' = [staged EXCEPT ![obj] = Resized(<<>>, newSize)]
          /\ overlap' = IF WritersOn(f) \subseteq {obj} THEN overlap ELSE overlap \cup {f}
  /\ UNCHANGED <<tableVars, handle, position, append, deleted, newSize, taskVars, writes, ideal, granted, opened>>

\* ... and closed.
SetSizeDone ==
  /\ call = "truncate"
  /\ CloseWriter(obj)
  /\ Return
  /\ ideal' = [ideal EXCEPT ![handle[obj]] = Resized(@, newSize)]
  /\ UNCHANGED <<tableVars, handle, position, append, deleted, newSize, taskVars, writes, overlap, granted, opened>>

\* fd_close: the descriptor is taken out of the table, then its writer closed.
FdClose(fd) ==
  /\ IsOpen(fd)
  /\ Enter("close", files[fd])
  /\ files' = [files EXCEPT ![fd] = 0]
  /\ granted' = granted \ {fd}
  /\ UNCHANGED <<nextFd, objectVars, diskVars, newSize, taskVars, writes, ideal, overlap, opened>>

FdCloseDone ==
  /\ call = "close"
  /\ CloseWriter(obj)
  /\ Return
  /\ UNCHANGED <<tableVars, handle, position, append, deleted, newSize, taskVars, histVars>>

\* Faulty variant: `to` stays in the table until it has been closed.
FdRenumber_TakesLate(from, to) ==
  /\ "renumber" \in Ops
  /\ call = "idle"
  /\ IsOpen(to)
  /\ from < nextFd \/ "wild" \in Ops
  /\ moving' = moving \cup {[from |-> from, to |-> to, old |-> files[to]]}
  /\ granted' = granted \ {IF IsOpen(from) /\ from # to THEN from ELSE to}
  /\ UNCHANGED <<tableVars, objectVars, diskVars, callVars, closing, writes, ideal, overlap, opened>>

\* fd_renumber reports success as soon as `to` has been taken out of the table.
\* If `to` is not open it does so too, and nothing is renumbered.  Only a "wild"
\* guest names a `from` that it has never been given.
FdRenumber(from, to) ==
  /\ "renumber" \in Ops
  /\ call = "idle"
  /\ IsOpen(to)
  /\ from < nextFd \/ "wild" \in Ops
  /\ files' = [files EXCEPT ![to] = 0]
  /\ moving' = moving \cup {[from |-> from, to |-> to, old |-> files[to]]}
  /\ granted' = granted \ {IF IsOpen(from) /\ from # to THEN from ELSE to}
  /\ UNCHANGED <<nextFd, objectVars, diskVars, callVars, closing, writes, ideal, overlap, opened>>

\* path_unlink_file
PathUnlinkFile(f) ==
  /\ "unlink" \in Ops
  /\ call = "idle"
  /\ f \in Files \ deleted
  /\ deleted' = deleted \cup {f}
  /\ UNCHANGED <<tableVars, objectVars, disk, callVars, taskVars, histVars>>

-----------------------------------------------------------------------------
(* Work that no call waits for. *)

\* The close that fd_pwrite has started ends.
CloseEnds(o) ==
  /\ o \in closing
  /\ CloseWriter(o)
  /\ closing' = closing \ {o}
  /\ UNCHANGED <<tableVars, handle, position, append, deleted, callVars, moving, histVars>>

\* The rest of renumber: the old object behind `to` is closed and, unless that
\* fails or `from` is not open any more, `from` becomes `to`.
RenumberEnds(m) ==
  /\ m \in moving
  /\ CloseWriter(m.old)
  /\ files' = IF writer'[m.old] # "broken" /\ IsOpen(m.from)
              THEN [files EXCEPT ![m.from] = 0, ![m.to] = files[m.from]]
              ELSE files
  /\ moving' = moving \ {m}
  /\ UNCHANGED <<nextFd, handle, position, append, deleted, callVars, closing, histVars>>

-----------------------------------------------------------------------------
Guest ==
  \/ \E f \in Files : PathUnlinkFile(f) \/ \E a \in BOOLEAN : PathOpen(f, a)
  \/ \E fd \in Fds :
       \/ FdWrite(fd) \/ FdPread(fd) \/ FdRead(fd) \/ FdClose(fd)
       \/ \E p \in Offsets : FdPwrite(fd, p) \/ FdSeek(fd, p) \/ FdFilestatSetSize(fd, p)
       \/ \E to \in Fds : FdRenumber(fd, to)

Host ==
  \/ FdWriteDone \/ FdPwriteDone \/ FdPreadDone \/ FdCloseDone
  \/ SetSizeTruncates \/ SetSizeDone
  \/ \E o \in Fds : CloseEnds(o)
  \/ \E m \in moving : RenumberEnds(m)

Next == Guest \/ Host

Spec == Init /\ [][Next]_vars

-----------------------------------------------------------------------------
Moves == [from : Fds, to : Fds, old : Fds]
Contents == Seq(0 .. MaxWrites)

TableTypes ==
  /\ files \in [Fds -> Fds \cup {0}]
  /\ nextFd \in 1 .. MaxFds + 1

ObjectTypes ==
  /\ handle \in [Fds -> Files \cup {NoFile}]
  /\ position \in [Fds -> Nat]
  /\ append \in [Fds -> BOOLEAN]
  /\ writer \in [Fds -> {"none", "open", "broken"}]
  /\ staged \in [Fds -> Contents]

DiskTypes ==
  /\ disk \in [Files -> Contents]
  /\ deleted \subseteq Files

CallTypes ==
  /\ call \in {"idle", "write", "pwrite", "pread", "resize", "truncate", "close"}
  /\ obj \in Fds \cup {0}
  /\ newSize \in Offsets
  /\ closing \subseteq Fds
  /\ moving \subseteq Moves

HistoryTypes ==
  /\ writes \in 0 .. MaxWrites
  /\ ideal \in [Files -> Contents]
  /\ overlap \subseteq Files
  /\ granted \subseteq Fds
  /\ opened \subseteq Fds

TypeOK == TableTypes /\ ObjectTypes /\ DiskTypes /\ CallTypes /\ HistoryTypes

-----------------------------------------------------------------------------
(* Properties. *)

\* The objects that are being closed.
Doomed == closing \cup {m.old : m \in moving} \cup (IF call = "close" THEN {obj} ELSE {})

\* An open file has one owner: no two descriptors share an object, an object that
\* is being closed is behind no descriptor and is closed only once, and no call
\* works on it: a write never meets a writer that is being closed.  Nor does a
\* late renumber push an open file out of the table.
OneOwner ==
  /\ \A a, b \in Fds : files[a] = files[b] /\ IsOpen(a) => a = b
  /\ \A fd \in Fds : files[fd] \notin Doomed
  /\ call \in {"write", "pwrite", "pread", "resize", "truncate"} => obj \notin Doomed
  /\ \A m \in moving : m.old \notin closing /\ ~(call = "close" /\ obj = m.old)
  /\ call = "close" => obj \notin closing
  /\ \A m, k \in moving : m.old = k.old \/ m.to = k.to => m = k
  /\ \A m \in moving : ~IsOpen(m.to)

\* However a call ends, while the guest runs there are only files it has opened
\* itself behind descriptors: those of positional reads and writes are gone.
NothingLeaks ==
  call = "idle" => \A fd \in Fds : IsOpen(fd) => files[fd] \in opened

\* A file nobody is writing to holds what its writes have put there, provided
\* that no two writers were open on it at the same time, that no descriptor
\* appends and that it was never resized.
WritesLast ==
  \A f \in Files \ (deleted \cup overlap) : WritersOn(f) = {} => disk[f] = ideal[f]

\* A file that has been unlinked while it was open stays as it was: no write,
\* resize or late close brings anything of it back.
UnlinkedStaysGone ==
  [][\A f \in deleted : f \in deleted' /\ disk'[f] = disk[f]]_vars

\* Append mode: what is written is appended to the file's end.  A file nobody is
\* writing to is at least as long as its writes make it, if no two writers were
\* open on it at the same time.
AppendsAtEnd ==
  \A f \in Files \ (deleted \cup overlap) : WritersOn(f) = {} => Len(disk[f]) >= Len(ideal[f])

\* A descriptor the guest has opened, or has renumbered another one to, is open
\* until the guest closes it or renumbers it away.
GrantedStaysOpen ==
  call = "idle" => \A fd \in granted : IsOpen(fd)
=============================================================================
