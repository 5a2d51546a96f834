--------------------------- MODULE OpenFilesProofs ---------------------------
(***************************************************************************)
(* What OpenFiles guarantees for every set of files, every repertoire of    *)
(* calls and every bound.  The types (TypeCorrect) rest on two facts the code *)
(* takes for granted: an open descriptor has a file handle, and so has the   *)
(* object a call works on.  An open file has one owner (OneOwnerHolds),      *)
(* positional reads and writes leave no descriptor behind (NothingIsLeaked), *)
(* a guest that does not renumber keeps its descriptors                      *)
(* (DescriptorsStayOpen), writes last (WritesAreLasting) and an unlinked     *)
(* file stays as it was (UnlinkedIsGone).                                    *)
(*                                                                          *)
(* OneOwner alone is not inductive: a descriptor about to be allocated must  *)
(* not be on its way to become another one, so the invariant adds that all   *)
(* the numbers in use are below OpenFiles._nextFd.                           *)
(***************************************************************************)
EXTENDS OpenFiles, SequenceTheorems, TLAPS

-----------------------------------------------------------------------------
(* The inductive invariant for the types. *)

\* A file that is used has a handle; a write under way is within the bound.
InUse ==
  /\ \A fd \in Fds : IsOpen(fd) => handle[files[fd]] \in Files
  /\ call # "idle" => obj \in Fds /\ handle[obj] \in Files
  /\ call \in {"write", "pwrite"} => writes < MaxWrites

TypeInv == TypeOK /\ InUse

-----------------------------------------------------------------------------
(* Lemmas about the parts of the handlers. *)

\* The bounds are numbers.
LEMMA Bounds == MaxFds \in Nat /\ MaxWrites \in Nat /\ MaxOffset \in Nat
BY FilesAssumption DEF FilesAssumption

\* 0 is no descriptor.
LEMMA FdNotZero == 0 \notin Fds
BY Bounds DEF Fds

\* A write of one cell keeps the contents a sequence of tags.
LEMMA WrittenType ==
  ASSUME NEW s \in Contents, NEW p \in Nat, NEW x \in 0 .. MaxWrites
  PROVE  Written(s, p, x) \in Contents
BY Bounds DEF Written, Contents

\* The parts genericWrite puts together are what a write is to leave: the gap
\* is filled with zeros, and what follows the cell is kept.
LEMMA PutAtIsWritten ==
  ASSUME NEW s \in Contents, NEW p \in Nat, NEW x \in 0 .. MaxWrites
  PROVE  PutAt(s, p, x) = Written(s, p, x)
<1> DEFINE T == 0 .. MaxWrites
           h == IF p < Len(s) THEN p ELSE Len(s)
           head == SubSeq(s, 1, h)
           padding == [i \in 1 .. p - Len(head) |-> 0]
           tail == SubSeq(s, p + 2, Len(s))
           n == IF p < Len(s) THEN Len(s) ELSE p + 1
<1>0. /\ s \in Seq(T) /\ Len(s) \in Nat /\ 0 \in T /\ x \in T
      /\ h \in Nat /\ h <= Len(s) /\ h <= p
  BY Bounds DEF Contents
<1>00. \A i \in 1 .. Len(s) : s[i] \in T
  <2> HIDE DEF T
  <2> QED BY <1>0, ElementOfSeq
<1>1. /\ head \in Seq(T) /\ Len(head) = h
      /\ \A i \in 1 .. h : head[i] = s[i]
  <2> HIDE DEF T, h
  <2>1. \A i \in 1 .. h : s[i] \in T
    BY <1>0, <1>00
  <2>2. /\ head \in Seq(T) /\ Len(head) = IF 1 <= h THEN h - 1 + 1 ELSE 0
        /\ \A i \in 1 .. h - 1 + 1 : head[i] = s[1 + i - 1]
    BY <1>0, <2>1, SubSeqProperties
  <2> QED
    BY <1>0, <2>2
<1>2. /\ padding \in Seq(T) /\ Len(padding) = p - h
      /\ \A i \in 1 .. p - h : padding[i] = 0
  BY <1>0, <1>1
<1>3. /\ tail \in Seq(T) /\ Len(tail) = n - (p + 1)
      /\ \A i \in 1 .. n - (p + 1) : tail[i] = s[p + 1 + i]
  <2> HIDE DEF T, h
  <2>1. \A i \in p + 2 .. Len(s) : s[i] \in T
    BY <1>0, <1>00
  <2>2. /\ tail \in Seq(T) /\ Len(tail) = IF p + 2 <= Len(s) THEN Len(s) - (p + 2) + 1 ELSE 0
        /\ \A i \in 1 .. Len(s) - (p + 2) + 1 : tail[i] = s[p + 2 + i - 1]
    BY <1>0, <2>1, SubSeqProperties
  <2> QED
    BY <1>0, <2>2
<1> HIDE DEF head, padding, tail
<1> DEFINE a == head \o padding
<1>4. /\ a \in Seq(T) /\ Len(a) = p
      /\ \A i \in 1 .. p : a[i] = IF i <= h THEN head[i] ELSE padding[i - h]
  <2> HIDE DEF T, h
  <2>1. /\ a \in Seq(T) /\ Len(a) = Len(head) + Len(padding)
        /\ \A i \in 1 .. Len(head) + Len(padding) :
             a[i] = IF i <= Len(head) THEN head[i] ELSE padding[i - Len(head)]
    BY <1>1, <1>2, ConcatProperties
  <2> HIDE DEF a
  <2> QED
    BY <1>0, <1>1, <1>2, <2>1
<1>5. \A i \in 1 .. p : a[i] = IF i <= Len(s) THEN s[i] ELSE 0
  BY <1>0, <1>1, <1>2, <1>4
<1> HIDE DEF a
<1> DEFINE b == a \o <<x>>
<1>6. /\ b \in Seq(T) /\ Len(b) = p + 1
      /\ \A i \in 1 .. p : b[i] = a[i]
      /\ b[p + 1] = x
  BY <1>0, <1>4
<1> HIDE DEF b
<1> DEFINE c == b \o tail
<1>7. /\ c \in Seq(T) /\ Len(c) = n
      /\ \A i \in 1 .. p + 1 : c[i] = b[i]
      /\ \A i \in p + 2 .. n : c[i] = tail[i - (p + 1)]
  <2> HIDE DEF T, h
  <2>1. n \in Nat /\ p + 1 <= n
    BY <1>0
  <2> HIDE DEF n
  <2>2. /\ c \in Seq(T) /\ Len(c) = Len(b) + Len(tail)
        /\ \A i \in 1 .. Len(b) + Len(tail) :
             c[i] = IF i <= Len(b) THEN b[i] ELSE tail[i - Len(b)]
    BY <1>3, <1>6, ConcatProperties
  <2> HIDE DEF c
  <2>3. Len(b) = p + 1 /\ Len(b) + Len(tail) = n
    BY <1>0, <1>3, <1>6, <2>1
  <2>4. \A i \in 1 .. n : c[i] = IF i <= p + 1 THEN b[i] ELSE tail[i - (p + 1)]
    BY <2>2, <2>3
  <2> QED
    BY SMTT(20), <1>0, <2>1, <2>2, <2>3, <2>4
<1> HIDE DEF c
<1>8. c = [i \in 1 .. n |-> c[i]]
  BY <1>0, <1>7
<1>9. ASSUME NEW i \in 1 .. n
      PROVE  c[i] = IF i = p + 1 THEN x ELSE IF i <= Len(s) THEN s[i] ELSE 0
  <2>1. CASE i <= p
    BY <2>1, <1>0, <1>5, <1>6, <1>7
  <2>2. CASE i = p + 1
    BY <2>2, <1>0, <1>6, <1>7
  <2>3. CASE i > p + 1
    BY <2>3, <1>0, <1>3, <1>7
  <2> QED BY <1>0, <2>1, <2>2, <2>3
<1>10. c = Written(s, p, x)
  BY <1>8, <1>9 DEF Written
<1> QED
  BY <1>10 DEF PutAt, a, b, c, head, padding, tail

\* So does cutting the contents or filling them up with zeros.
LEMMA ResizedType ==
  ASSUME NEW s \in Contents, NEW n \in Nat
  PROVE  Resized(s, n) \in Contents
BY Bounds DEF Resized, Contents

\* The length of the contents is a number, and nothing is contents too.
LEMMA ContentsLength == <<>> \in Contents /\ \A s \in Contents : Len(s) \in Nat
BY DEF Contents

\* Behind an open descriptor there is an object with a handle.
LEMMA Behind ==
  TypeInv =>
    \A fd \in Fds : IsOpen(fd) => files[fd] \in Fds /\ handle[files[fd]] \in Files
BY DEF TypeInv, TypeOK, TableTypes, InUse, IsOpen

\* A call under way works on an object with a handle.
LEMMA AtWork == TypeInv /\ call # "idle" => obj \in Fds /\ handle[obj] \in Files
BY DEF TypeInv, InUse

\* The types of what AddFile changes.
LEMMA AddFileTypes ==
  ASSUME TypeInv, NEW f \in Files, NEW p \in Nat, NEW a \in BOOLEAN, AddFile(f, p, a)
  PROVE  /\ TableTypes'
         /\ handle' \in [Fds -> Files \cup {NoFile}]
         /\ position' \in [Fds -> Nat]
         /\ append' \in [Fds -> BOOLEAN]
<1>1. TableTypes'
  BY Bounds DEF AddFile, TypeInv, TypeOK, TableTypes, Fds
<1> QED
  BY <1>1 DEF AddFile, TypeInv, TypeOK, ObjectTypes

\* The types of what Snapshot changes.
LEMMA SnapshotTypes ==
  ASSUME TypeInv, NEW o \in Fds, NEW f \in Files, Snapshot(o, f)
  PROVE  /\ writer' \in [Fds -> {"none", "open", "broken"}]
         /\ staged' \in [Fds -> Contents]
         /\ overlap' \subseteq Files
BY DEF Snapshot, TypeInv, TypeOK, ObjectTypes, DiskTypes, HistoryTypes

\* The types of what StageWrite changes.
LEMMA StageWriteTypes ==
  ASSUME TypeInv, NEW o \in Fds, handle[o] \in Files, writes < MaxWrites, StageWrite(o)
  PROVE  /\ writes' \in 0 .. MaxWrites
         /\ staged' \in [Fds -> Contents]
         /\ position' \in [Fds -> Nat]
         /\ ideal' \in [Files -> Contents]
<1>1. writes' = writes + 1 /\ writes' \in 0 .. MaxWrites
  BY Bounds DEF StageWrite, TypeInv, TypeOK, HistoryTypes
<1>2. WriteOffset(o) \in Nat /\ IdealOffset(o) \in Nat
  BY ContentsLength DEF WriteOffset, IdealOffset, TypeInv, TypeOK, ObjectTypes
<1>3. staged[o] \in Contents /\ ideal[handle[o]] \in Contents
  BY DEF TypeInv, TypeOK, ObjectTypes, HistoryTypes
<1>4. PutAt(staged[o], WriteOffset(o), writes + 1) \in Contents
  BY <1>1, <1>2, <1>3, WrittenType, PutAtIsWritten
<1>5. Written(ideal[handle[o]], IdealOffset(o), writes + 1) \in Contents
  BY <1>1, <1>2, <1>3, WrittenType
<1> QED
  BY <1>1, <1>2, <1>4, <1>5 DEF StageWrite, TypeInv, TypeOK, ObjectTypes, HistoryTypes

\* The types of what CloseWriter changes.
LEMMA CloseWriterTypes ==
  ASSUME TypeInv, NEW o \in Fds, CloseWriter(o)
  PROVE  /\ writer' \in [Fds -> {"none", "open", "broken"}]
         /\ staged' \in [Fds -> Contents]
         /\ disk' \in [Files -> Contents]
BY ContentsLength, ZenonT(30) DEF CloseWriter, TypeInv, TypeOK, ObjectTypes, DiskTypes

-----------------------------------------------------------------------------
(* Types. *)

\* Every step keeps the types.
LEMMA TypeStep == TypeInv /\ [Next]_vars => TypeOK'
<1> SUFFICES ASSUME TypeInv PROVE [Next]_vars => TypeOK'
  OBVIOUS
<1> USE Bounds DEF Offsets
<1>1. ASSUME NEW f \in Files, NEW a \in BOOLEAN, PathOpen(f, a) PROVE TypeOK'
  <2>1. TableTypes'
    BY <1>1, AddFileTypes DEF PathOpen, TypeInv, TypeOK
  <2>2. ObjectTypes'
    BY <1>1, AddFileTypes DEF ObjectTypes, PathOpen, TypeInv, TypeOK
  <2>3. HistoryTypes'
    BY <1>1 DEF HistoryTypes, PathOpen, AddFile, TypeInv, TypeOK
  <2> QED
    BY <1>1, <2>1, <2>2, <2>3
    DEF PathOpen, DiskTypes, diskVars, CallTypes, callVars, taskVars, TypeInv, TypeOK
<1>2. ASSUME NEW fd \in Fds, FdWrite(fd) PROVE TypeOK'
  <2>1. files[fd] \in Fds /\ handle[files[fd]] \in Files
    BY <1>2, Behind DEF FdWrite
  <2>2. ObjectTypes'
    BY <1>2, <2>1, SnapshotTypes DEF ObjectTypes, FdWrite, TypeInv, TypeOK
  <2>3. CallTypes'
    BY <1>2, <2>1 DEF CallTypes, FdWrite, Enter, taskVars, TypeInv, TypeOK
  <2>4. HistoryTypes'
    BY <1>2, <2>1, SnapshotTypes DEF HistoryTypes, FdWrite, TypeInv, TypeOK
  <2> QED
    BY <1>2, <2>2, <2>3, <2>4
    DEF FdWrite, TableTypes, tableVars, DiskTypes, diskVars, TypeInv, TypeOK
<1>3. ASSUME FdWriteDone PROVE TypeOK'
  <2>1. obj \in Fds /\ handle[obj] \in Files
    BY <1>3, AtWork DEF FdWriteDone
  <2>2. ObjectTypes'
    <3>1. CASE StageWrite(obj)
      BY <3>1, <1>3, StageWriteTypes DEF FdWriteDone, InUse, ObjectTypes, TypeInv, TypeOK
    <3>2. CASE UNCHANGED <<writes, staged, position, ideal>>
      BY <3>2, <1>3 DEF FdWriteDone, ObjectTypes, TypeInv, TypeOK
    <3> QED
      BY <1>3, <3>1, <3>2 DEF FdWriteDone
  <2>3. CallTypes'
    BY <1>3 DEF CallTypes, FdWriteDone, Return, taskVars, TypeInv, TypeOK
  <2>4. HistoryTypes'
    <3>1. CASE StageWrite(obj)
      BY <3>1, <1>3, StageWriteTypes DEF FdWriteDone, InUse, HistoryTypes, TypeInv, TypeOK
    <3>2. CASE UNCHANGED <<writes, staged, position, ideal>>
      BY <3>2, <1>3 DEF FdWriteDone, HistoryTypes, TypeInv, TypeOK
    <3> QED
      BY <1>3, <3>1, <3>2 DEF FdWriteDone
  <2> QED
    BY <1>3, <2>2, <2>3, <2>4
    DEF FdWriteDone, TableTypes, tableVars, DiskTypes, diskVars, TypeInv, TypeOK
<1>4. ASSUME NEW fd \in Fds, NEW p \in Offsets, FdPwrite(fd, p) PROVE TypeOK'
  <2>1. files[fd] \in Fds /\ handle[files[fd]] \in Files
    BY <1>4, Behind DEF FdPwrite
  <2>2. TableTypes'
    <3>1. CASE handle[files[fd]] \notin deleted
      <4>1. append[files[fd]] \in BOOLEAN /\ p \in Nat
        BY <2>1 DEF ObjectTypes, TypeInv, TypeOK
      <4>2. AddFile(handle[files[fd]], p, append[files[fd]])
        BY <3>1, <1>4 DEF FdPwrite
      <4>3. Snapshot(nextFd, handle[files[fd]]) /\ nextFd \in Fds
        BY <3>1, <1>4 DEF FdPwrite, AddFile
      <4> QED
        BY <2>1, <4>1, <4>2, <4>3, AddFileTypes, SnapshotTypes
    <3>2. CASE handle[files[fd]] \in deleted
      BY <3>2, <1>4 DEF FdPwrite, Fds, TableTypes, TypeInv, TypeOK
    <3> QED
      BY <3>1, <3>2
  <2>3. ObjectTypes'
    <3>1. CASE handle[files[fd]] \notin deleted
      <4>1. append[files[fd]] \in BOOLEAN /\ p \in Nat
        BY <2>1 DEF ObjectTypes, TypeInv, TypeOK
      <4>2. AddFile(handle[files[fd]], p, append[files[fd]])
        BY <3>1, <1>4 DEF FdPwrite
      <4>3. Snapshot(nextFd, handle[files[fd]]) /\ nextFd \in Fds
        BY <3>1, <1>4 DEF FdPwrite, AddFile
      <4> QED
        BY <2>1, <4>1, <4>2, <4>3, AddFileTypes, SnapshotTypes DEF ObjectTypes
    <3>2. CASE handle[files[fd]] \in deleted
      BY <3>2, <1>4 DEF FdPwrite, objectVars, ObjectTypes, TypeInv, TypeOK
    <3> QED
      BY <3>1, <3>2
  <2>4. CallTypes'
    BY <1>4 DEF CallTypes, FdPwrite, AddFile, Enter, taskVars, TypeInv, TypeOK
  <2>5. HistoryTypes'
    BY <1>4, <2>1, SnapshotTypes DEF HistoryTypes, FdPwrite, AddFile, TypeInv, TypeOK
  <2> QED
    BY <1>4, <2>2, <2>3, <2>4, <2>5 DEF FdPwrite, DiskTypes, diskVars, TypeInv, TypeOK
<1>5. ASSUME FdPwriteDone PROVE TypeOK'
  <2>1. obj \in Fds /\ handle[obj] \in Files
    BY <1>5, AtWork DEF FdPwriteDone
  <2>2. TableTypes'
    BY <1>5 DEF TableTypes, FdPwriteDone, TypeInv, TypeOK
  <2>3. ObjectTypes'
    <3>1. CASE StageWrite(obj)
      BY <3>1, <1>5, StageWriteTypes DEF FdPwriteDone, InUse, ObjectTypes, TypeInv, TypeOK
    <3>2. CASE UNCHANGED <<writes, staged, position, ideal>>
      BY <3>2, <1>5 DEF FdPwriteDone, ObjectTypes, TypeInv, TypeOK
    <3> QED
      BY <1>5, <3>1, <3>2 DEF FdPwriteDone
  <2>4. CallTypes'
    BY <1>5, <2>1 DEF CallTypes, FdPwriteDone, Return, TableTypes, TypeInv, TypeOK
  <2>5. HistoryTypes'
    <3>1. CASE StageWrite(obj)
      BY <3>1, <1>5, StageWriteTypes
      DEF FdPwriteDone, InUse, HistoryTypes, TypeInv, TypeOK
    <3>2. CASE UNCHANGED <<writes, staged, position, ideal>>
      BY <3>2, <1>5 DEF FdPwriteDone, HistoryTypes, TypeInv, TypeOK
    <3> QED
      BY <1>5, <3>1, <3>2 DEF FdPwriteDone
  <2> QED
    BY <1>5, <2>2, <2>3, <2>4, <2>5 DEF FdPwriteDone, DiskTypes, diskVars, TypeInv, TypeOK
<1>6. ASSUME NEW fd \in Fds, FdPread(fd) PROVE TypeOK'
  <2>1. files[fd] \in Fds /\ handle[files[fd]] \in Files
    BY <1>6, Behind DEF FdPread
  <2>2. TableTypes'
    BY <1>6, <2>1, AddFileTypes DEF FdPread, ObjectTypes, TypeInv, TypeOK
  <2>3. ObjectTypes'
    BY <1>6, <2>1, AddFileTypes DEF ObjectTypes, FdPread, TypeInv, TypeOK
  <2>4. CallTypes'
    BY <1>6 DEF CallTypes, FdPread, AddFile, Enter, taskVars, TypeInv, TypeOK
  <2> QED
    BY <1>6, <2>2, <2>3, <2>4
    DEF FdPread, DiskTypes, diskVars, HistoryTypes, histVars, TypeInv, TypeOK
<1>7. ASSUME FdPreadDone PROVE TypeOK'
  <2>1. obj \in Fds /\ handle[obj] \in Files
    BY <1>7, AtWork DEF FdPreadDone
  <2>2. TableTypes'
    BY <1>7 DEF TableTypes, FdPreadDone, TypeInv, TypeOK
  <2>3. CallTypes'
    BY <1>7 DEF CallTypes, FdPreadDone, Return, taskVars, TypeInv, TypeOK
  <2> QED
    BY <1>7, <2>2, <2>3
    DEF FdPreadDone, ObjectTypes, objectVars, DiskTypes, diskVars, HistoryTypes, histVars,
        TypeInv, TypeOK
<1>8. ASSUME NEW fd \in Fds, FdRead(fd) PROVE TypeOK'
  <2>1. files[fd] \in Fds /\ handle[files[fd]] \in Files
    BY <1>8, Behind DEF FdRead
  <2>2. ObjectTypes'
    BY <1>8, <2>1 DEF ObjectTypes, FdRead, TypeInv, TypeOK
  <2> QED
    BY <1>8, <2>2
    DEF FdRead, TableTypes, tableVars, DiskTypes, diskVars, CallTypes, callVars, taskVars,
        HistoryTypes, histVars, TypeInv, TypeOK
<1>9. ASSUME NEW fd \in Fds, NEW p \in Offsets, FdSeek(fd, p) PROVE TypeOK'
  <2>1. files[fd] \in Fds /\ handle[files[fd]] \in Files
    BY <1>9, Behind DEF FdSeek
  <2>2. ObjectTypes'
    BY <1>9, <2>1 DEF ObjectTypes, FdSeek, TypeInv, TypeOK
  <2> QED
    BY <1>9, <2>2
    DEF FdSeek, TableTypes, tableVars, DiskTypes, diskVars, CallTypes, callVars, taskVars,
        HistoryTypes, histVars, TypeInv, TypeOK
<1>10. ASSUME NEW fd \in Fds, NEW p \in Offsets, FdFilestatSetSize(fd, p) PROVE TypeOK'
  <2>1. files[fd] \in Fds /\ handle[files[fd]] \in Files
    BY <1>10, Behind DEF FdFilestatSetSize
  <2>2. CallTypes'
    BY <1>10, <2>1 DEF CallTypes, FdFilestatSetSize, Enter, taskVars, TypeInv, TypeOK
  <2> QED
    BY <1>10, <2>2
    DEF FdFilestatSetSize, TableTypes, tableVars, ObjectTypes, objectVars, DiskTypes,
        diskVars, HistoryTypes, histVars, TypeInv, TypeOK
<1>11. ASSUME SetSizeTruncates PROVE TypeOK'
  <2>1. obj \in Fds /\ handle[obj] \in Files
    BY <1>11, AtWork DEF SetSizeTruncates
  <2>2. ObjectTypes'
    <3>1. CASE writer[obj] = "broken" \/ handle[obj] \in deleted
      BY <3>1, <1>11, <2>1, CloseWriterTypes
      DEF SetSizeTruncates, ObjectTypes, TypeInv, TypeOK
    <3>2. CASE ~(writer[obj] = "broken" \/ handle[obj] \in deleted)
      <4>1. newSize \in Nat
        BY DEF CallTypes, TypeInv, TypeOK
      <4>2. Resized(<<>>, newSize) \in Contents
        BY <4>1, ContentsLength, ResizedType
      <4> QED
        BY <3>2, <1>11, <4>2 DEF SetSizeTruncates, ObjectTypes, TypeInv, TypeOK
    <3> QED
      BY <3>1, <3>2
  <2>3. DiskTypes'
    BY <1>11, <2>1, CloseWriterTypes
    DEF DiskTypes, SetSizeTruncates, ObjectTypes, TypeInv, TypeOK
  <2>4. CallTypes'
    BY <1>11 DEF CallTypes, SetSizeTruncates, Return, taskVars, TypeInv, TypeOK
  <2>5. HistoryTypes'
    BY <1>11, <2>1 DEF HistoryTypes, SetSizeTruncates, TypeInv, TypeOK
  <2> QED
    BY <1>11, <2>2, <2>3, <2>4, <2>5
    DEF SetSizeTruncates, TableTypes, tableVars, TypeInv, TypeOK
<1>12. ASSUME SetSizeDone PROVE TypeOK'
  <2>1. obj \in Fds /\ handle[obj] \in Files
    BY <1>12, AtWork DEF SetSizeDone
  <2>2. ObjectTypes'
    BY <1>12, <2>1, CloseWriterTypes DEF ObjectTypes, SetSizeDone, TypeInv, TypeOK
  <2>3. DiskTypes'
    BY <1>12, <2>1, CloseWriterTypes DEF DiskTypes, SetSizeDone, TypeInv, TypeOK
  <2>4. CallTypes'
    BY <1>12 DEF CallTypes, SetSizeDone, Return, taskVars, TypeInv, TypeOK
  <2>5. HistoryTypes'
    BY <1>12, <2>1, ResizedType DEF HistoryTypes, SetSizeDone, CallTypes, TypeInv, TypeOK
  <2> QED
    BY <1>12, <2>2, <2>3, <2>4, <2>5
    DEF SetSizeDone, TableTypes, tableVars, TypeInv, TypeOK
<1>13. ASSUME NEW fd \in Fds, FdClose(fd) PROVE TypeOK'
  <2>1. files[fd] \in Fds /\ handle[files[fd]] \in Files
    BY <1>13, Behind DEF FdClose
  <2>2. TableTypes'
    BY <1>13 DEF TableTypes, FdClose, TypeInv, TypeOK
  <2>3. CallTypes'
    BY <1>13, <2>1 DEF CallTypes, FdClose, Enter, taskVars, TypeInv, TypeOK
  <2>4. HistoryTypes'
    BY <1>13 DEF HistoryTypes, FdClose, TypeInv, TypeOK
  <2> QED
    BY <1>13, <2>2, <2>3, <2>4
    DEF FdClose, ObjectTypes, objectVars, DiskTypes, diskVars, TypeInv, TypeOK
<1>14. ASSUME FdCloseDone PROVE TypeOK'
  <2>1. obj \in Fds /\ handle[obj] \in Files
    BY <1>14, AtWork DEF FdCloseDone
  <2>2. ObjectTypes'
    BY <1>14, <2>1, CloseWriterTypes DEF ObjectTypes, FdCloseDone, TypeInv, TypeOK
  <2>3. DiskTypes'
    BY <1>14, <2>1, CloseWriterTypes DEF DiskTypes, FdCloseDone, TypeInv, TypeOK
  <2>4. CallTypes'
    BY <1>14 DEF CallTypes, FdCloseDone, Return, taskVars, TypeInv, TypeOK
  <2> QED
    BY <1>14, <2>2, <2>3, <2>4
    DEF FdCloseDone, TableTypes, tableVars, HistoryTypes, histVars, TypeInv, TypeOK
<1>15. ASSUME NEW fd \in Fds, NEW to \in Fds, FdRenumber(fd, to) PROVE TypeOK'
  <2>1. TableTypes'
    BY <1>15 DEF TableTypes, FdRenumber, TypeInv, TypeOK
  <2>2. CallTypes'
    BY <1>15
    DEF CallTypes, FdRenumber, IsOpen, callVars, TableTypes, Moves, TypeInv, TypeOK
  <2>3. HistoryTypes'
    BY <1>15 DEF HistoryTypes, FdRenumber, TypeInv, TypeOK
  <2> QED
    BY <1>15, <2>1, <2>2, <2>3
    DEF FdRenumber, ObjectTypes, objectVars, DiskTypes, diskVars, TypeInv, TypeOK
<1>16. ASSUME NEW f \in Files, PathUnlinkFile(f) PROVE TypeOK'
  <2>1. DiskTypes'
    BY <1>16 DEF DiskTypes, PathUnlinkFile, TypeInv, TypeOK
  <2> QED
    BY <1>16, <2>1
    DEF PathUnlinkFile, TableTypes, tableVars, ObjectTypes, objectVars, CallTypes,
        callVars, taskVars, HistoryTypes, histVars, TypeInv, TypeOK
<1>17. ASSUME NEW o \in Fds, CloseEnds(o) PROVE TypeOK'
  <2>1. ObjectTypes'
    BY <1>17, CloseWriterTypes DEF ObjectTypes, CloseEnds, TypeInv, TypeOK
  <2>2. DiskTypes'
    BY <1>17, CloseWriterTypes DEF DiskTypes, CloseEnds, TypeInv, TypeOK
  <2>3. CallTypes'
    BY <1>17 DEF CallTypes, CloseEnds, callVars, TypeInv, TypeOK
  <2> QED
    BY <1>17, <2>1, <2>2, <2>3
    DEF CloseEnds, TableTypes, tableVars, HistoryTypes, histVars, TypeInv, TypeOK
<1>18. ASSUME NEW m \in moving, RenumberEnds(m) PROVE TypeOK'
  <2>1. m \in Moves
    BY <1>18 DEF RenumberEnds, TypeInv, TypeOK, CallTypes
  <2>2. TableTypes'
    BY <1>18, <2>1 DEF TableTypes, RenumberEnds, Moves, TypeInv, TypeOK
  <2>3. ObjectTypes'
    BY <1>18, <2>1, CloseWriterTypes DEF ObjectTypes, RenumberEnds, Moves, TypeInv, TypeOK
  <2>4. DiskTypes'
    BY <1>18, <2>1, CloseWriterTypes DEF DiskTypes, RenumberEnds, Moves, TypeInv, TypeOK
  <2>5. CallTypes'
    BY <1>18 DEF CallTypes, RenumberEnds, callVars, TypeInv, TypeOK
  <2> QED
    BY <1>18, <2>2, <2>3, <2>4, <2>5
    DEF RenumberEnds, HistoryTypes, histVars, TypeInv, TypeOK
<1>19. ASSUME UNCHANGED vars PROVE TypeOK'
  BY <1>19
  DEF vars, tableVars, objectVars, diskVars, callVars, taskVars, histVars, TypeInv,
      TypeOK, TableTypes, ObjectTypes, DiskTypes, CallTypes, HistoryTypes
<1> QED
  BY <1>1, <1>2, <1>3, <1>4, <1>5, <1>6, <1>7, <1>8, <1>9, <1>10, <1>11, <1>12, <1>13,
     <1>14, <1>15, <1>16, <1>17, <1>18, <1>19
  DEF Next, Guest, Host

\* Every step keeps what is in use in order.
LEMMA InUseStep == TypeInv /\ [Next]_vars => InUse'
<1> SUFFICES ASSUME TypeInv PROVE [Next]_vars => InUse'
  OBVIOUS
<1> USE Bounds, FdNotZero
<1>1. ASSUME NEW f \in Files, NEW a \in BOOLEAN, PathOpen(f, a) PROVE InUse'
  BY <1>1 DEF PathOpen, AddFile, callVars, InUse, TypeInv, TypeOK, ObjectTypes, IsOpen
<1>2. ASSUME NEW fd \in Fds, FdWrite(fd) PROVE InUse'
  BY <1>2
  DEF FdWrite, Enter, IsOpen, tableVars, InUse, TypeInv, TypeOK, TableTypes, IsOpen
<1>3. ASSUME FdWriteDone PROVE InUse'
  BY <1>3 DEF FdWriteDone, Return, tableVars, InUse, TypeInv, TypeOK, IsOpen
<1>4. ASSUME NEW fd \in Fds, NEW p \in Offsets, FdPwrite(fd, p) PROVE InUse'
  BY <1>4
  DEF FdPwrite, AddFile, Enter, IsOpen, objectVars, InUse, TypeInv, TypeOK, TableTypes,
      ObjectTypes, IsOpen
<1>5. ASSUME FdPwriteDone PROVE InUse'
  BY <1>5 DEF FdPwriteDone, Return, InUse, TypeInv, TypeOK, IsOpen
<1>6. ASSUME NEW fd \in Fds, FdPread(fd) PROVE InUse'
  BY <1>6 DEF FdPread, AddFile, Enter, IsOpen, InUse, TypeInv, TypeOK, ObjectTypes, IsOpen
<1>7. ASSUME FdPreadDone PROVE InUse'
  BY <1>7 DEF FdPreadDone, Return, objectVars, InUse, TypeInv, TypeOK, IsOpen
<1>8. ASSUME NEW fd \in Fds, FdRead(fd) PROVE InUse'
  BY <1>8 DEF FdRead, IsOpen, tableVars, callVars, InUse, TypeInv, TypeOK, IsOpen
<1>9. ASSUME NEW fd \in Fds, NEW p \in Offsets, FdSeek(fd, p) PROVE InUse'
  BY <1>9 DEF FdSeek, IsOpen, tableVars, callVars, InUse, TypeInv, TypeOK, IsOpen
<1>10. ASSUME NEW fd \in Fds, NEW p \in Offsets, FdFilestatSetSize(fd, p) PROVE InUse'
  BY <1>10
  DEF FdFilestatSetSize, Enter, IsOpen, tableVars, objectVars, InUse, TypeInv, TypeOK,
      TableTypes, IsOpen
<1>11. ASSUME SetSizeTruncates PROVE InUse'
  BY <1>11 DEF SetSizeTruncates, Return, tableVars, InUse, TypeInv, TypeOK, IsOpen
<1>12. ASSUME SetSizeDone PROVE InUse'
  BY <1>12 DEF SetSizeDone, Return, tableVars, InUse, TypeInv, TypeOK, IsOpen
<1>13. ASSUME NEW fd \in Fds, FdClose(fd) PROVE InUse'
  BY <1>13
  DEF FdClose, Enter, IsOpen, objectVars, InUse, TypeInv, TypeOK, TableTypes, IsOpen
<1>14. ASSUME FdCloseDone PROVE InUse'
  BY <1>14 DEF FdCloseDone, Return, tableVars, InUse, TypeInv, TypeOK, IsOpen
<1>15. ASSUME NEW fd \in Fds, NEW to \in Fds, FdRenumber(fd, to) PROVE InUse'
  BY <1>15 DEF FdRenumber, IsOpen, objectVars, callVars, InUse, TypeInv, TypeOK, IsOpen
<1>16. ASSUME NEW f \in Files, PathUnlinkFile(f) PROVE InUse'
  BY <1>16
  DEF PathUnlinkFile, tableVars, objectVars, callVars, InUse, TypeInv, TypeOK, IsOpen
<1>17. ASSUME NEW o \in Fds, CloseEnds(o) PROVE InUse'
  BY <1>17 DEF CloseEnds, tableVars, callVars, histVars, InUse, TypeInv, TypeOK, IsOpen
<1>18. ASSUME NEW m \in moving, RenumberEnds(m) PROVE InUse'
  BY <1>18
  DEF RenumberEnds, IsOpen, callVars, histVars, InUse, TypeInv, TypeOK, TableTypes,
      CallTypes, Moves, IsOpen
<1>19. ASSUME UNCHANGED vars PROVE InUse'
  BY <1>19
  DEF vars, tableVars, objectVars, callVars, histVars, InUse, TypeInv, TypeOK, IsOpen
<1> QED
  BY <1>1, <1>2, <1>3, <1>4, <1>5, <1>6, <1>7, <1>8, <1>9, <1>10, <1>11, <1>12, <1>13,
     <1>14, <1>15, <1>16, <1>17, <1>18, <1>19
  DEF Next, Guest, Host

\* The initial state satisfies the inductive invariant.
LEMMA TypeInvInit == Init => TypeInv
BY Bounds, ContentsLength
DEF Init, TypeInv, TypeOK, TableTypes, ObjectTypes, DiskTypes, CallTypes, HistoryTypes,
    Offsets, InUse, IsOpen

\* Every variable keeps its type.
THEOREM TypeCorrect == Spec => []TypeOK
<1>1. TypeInv /\ [Next]_vars => TypeInv'
  BY TypeStep, InUseStep DEF TypeInv
<1>2. TypeInv => TypeOK
  BY DEF TypeInv
<1> QED
  BY TypeInvInit, <1>1, <1>2, PTL DEF Spec

-----------------------------------------------------------------------------
(* The inductive invariant for owners. *)

\* Everything that names a descriptor or an object names one already allocated.
Allocated ==
  /\ \A fd \in Fds : IsOpen(fd) => fd < nextFd /\ files[fd] < nextFd
  /\ \A o \in closing : o < nextFd
  /\ \A m \in moving : m.to < nextFd /\ m.old < nextFd
  /\ call # "idle" => obj < nextFd

\* OneOwner, with what is being closed spelt out.
Owners ==
  /\ \A a, b \in Fds : files[a] = files[b] /\ IsOpen(a) => a = b
  /\ \A fd \in Fds : IsOpen(fd) =>
       /\ files[fd] \notin closing
       /\ \A m \in moving : files[fd] # m.old
       /\ ~(call = "close" /\ files[fd] = obj)
  /\ call # "idle" => obj \notin closing /\ \A m \in moving : obj # m.old
  /\ \A m \in moving : m.old \notin closing /\ ~IsOpen(m.to)
  /\ \A m, k \in moving : m.old = k.old \/ m.to = k.to => m = k

SafeInv == TypeInv /\ Allocated /\ Owners

-----------------------------------------------------------------------------
\* Every step keeps to allocated numbers.
LEMMA AllocatedStep == SafeInv /\ [Next]_vars => Allocated'
<1> SUFFICES ASSUME SafeInv PROVE [Next]_vars => Allocated'
  OBVIOUS
<1> USE Bounds, FdNotZero DEF SafeInv
<1>1. ASSUME NEW f \in Files, NEW a \in BOOLEAN, PathOpen(f, a) PROVE Allocated'
  BY <1>1
  DEF PathOpen, AddFile, callVars, taskVars, TypeInv, TypeOK, TableTypes, CallTypes,
      Moves, IsOpen, Fds, Allocated
<1>2. ASSUME NEW fd \in Fds, FdWrite(fd) PROVE Allocated'
  BY <1>2 DEF FdWrite, Enter, tableVars, taskVars, IsOpen, Allocated
<1>3. ASSUME FdWriteDone PROVE Allocated'
  BY <1>3 DEF FdWriteDone, Return, tableVars, taskVars, IsOpen, Allocated
<1>4. ASSUME NEW fd \in Fds, NEW p \in Offsets, FdPwrite(fd, p) PROVE Allocated'
  <2>1. CASE handle[files[fd]] \notin deleted
    <3>1. /\ nextFd \in Fds /\ nextFd' = nextFd + 1
          /\ files' = [files EXCEPT ![nextFd] = nextFd]
      BY <2>1, <1>4 DEF FdPwrite, AddFile
    <3> QED
      BY <3>1, <1>4
      DEF FdPwrite, Enter, taskVars, TypeInv, TypeOK, TableTypes, CallTypes, Moves,
          IsOpen, Fds, Allocated
  <2>2. CASE handle[files[fd]] \in deleted
    BY <2>2, <1>4
    DEF FdPwrite, taskVars, TypeInv, TypeOK, TableTypes, CallTypes, Moves, IsOpen, Fds,
        Allocated
  <2> QED
    BY <2>1, <2>2
<1>5. ASSUME FdPwriteDone PROVE Allocated'
  BY <1>5 DEF FdPwriteDone, Return, TypeInv, InUse, IsOpen, Allocated
<1>6. ASSUME NEW fd \in Fds, FdPread(fd) PROVE Allocated'
  BY <1>6
  DEF FdPread, Enter, AddFile, taskVars, TypeInv, TypeOK, TableTypes, CallTypes, Moves,
      IsOpen, Fds, Allocated
<1>7. ASSUME FdPreadDone PROVE Allocated'
  BY <1>7 DEF FdPreadDone, Return, taskVars, IsOpen, Allocated
<1>8. ASSUME NEW fd \in Fds, FdRead(fd) PROVE Allocated'
  BY <1>8 DEF FdRead, tableVars, callVars, taskVars, IsOpen, Allocated
<1>9. ASSUME NEW fd \in Fds, NEW p \in Offsets, FdSeek(fd, p) PROVE Allocated'
  BY <1>9 DEF FdSeek, tableVars, callVars, taskVars, IsOpen, Allocated
<1>10. ASSUME NEW fd \in Fds, NEW p \in Offsets, FdFilestatSetSize(fd, p) PROVE Allocated'
  BY <1>10 DEF FdFilestatSetSize, Enter, tableVars, taskVars, IsOpen, Allocated
<1>11. ASSUME SetSizeTruncates PROVE Allocated'
  BY <1>11 DEF SetSizeTruncates, Return, tableVars, taskVars, IsOpen, Allocated
<1>12. ASSUME SetSizeDone PROVE Allocated'
  BY <1>12 DEF SetSizeDone, Return, tableVars, taskVars, IsOpen, Allocated
<1>13. ASSUME NEW fd \in Fds, FdClose(fd) PROVE Allocated'
  BY <1>13 DEF FdClose, Enter, taskVars, IsOpen, Allocated
<1>14. ASSUME FdCloseDone PROVE Allocated'
  BY <1>14 DEF FdCloseDone, Return, tableVars, taskVars, IsOpen, Allocated
<1>15. ASSUME NEW fd \in Fds, NEW to \in Fds, FdRenumber(fd, to) PROVE Allocated'
  BY <1>15 DEF FdRenumber, callVars, IsOpen, Allocated
<1>16. ASSUME NEW f \in Files, PathUnlinkFile(f) PROVE Allocated'
  BY <1>16 DEF PathUnlinkFile, tableVars, callVars, taskVars, IsOpen, Allocated
<1>17. ASSUME NEW o \in Fds, CloseEnds(o) PROVE Allocated'
  BY <1>17 DEF CloseEnds, tableVars, callVars, IsOpen, Allocated
<1>18. ASSUME NEW m \in moving, RenumberEnds(m) PROVE Allocated'
  BY <1>18
  DEF RenumberEnds, callVars, TypeInv, TypeOK, TableTypes, CallTypes, Moves, IsOpen,
      Allocated
<1>19. ASSUME UNCHANGED vars PROVE Allocated'
  BY <1>19 DEF vars, tableVars, callVars, taskVars, IsOpen, Allocated
<1> QED
  BY <1>1, <1>2, <1>3, <1>4, <1>5, <1>6, <1>7, <1>8, <1>9, <1>10, <1>11, <1>12, <1>13,
     <1>14, <1>15, <1>16, <1>17, <1>18, <1>19
  DEF Next, Guest, Host

\* Every step leaves an open file to one owner.
LEMMA OwnersStep == SafeInv /\ [Next]_vars => Owners'
<1> SUFFICES ASSUME SafeInv PROVE [Next]_vars => Owners'
  OBVIOUS
<1> USE Bounds, FdNotZero DEF SafeInv
<1>1. ASSUME NEW f \in Files, NEW a \in BOOLEAN, PathOpen(f, a) PROVE Owners'
  BY <1>1 DEF PathOpen, AddFile, callVars, taskVars, IsOpen, Fds, Allocated, Owners
<1>2. ASSUME NEW fd \in Fds, FdWrite(fd) PROVE Owners'
  BY <1>2 DEF FdWrite, Enter, tableVars, taskVars, IsOpen, Owners
<1>3. ASSUME FdWriteDone PROVE Owners'
  BY <1>3 DEF FdWriteDone, Return, tableVars, taskVars, IsOpen, Owners
<1>4. ASSUME NEW fd \in Fds, NEW p \in Offsets, FdPwrite(fd, p) PROVE Owners'
  <2>1. CASE handle[files[fd]] \notin deleted
    <3>1. /\ nextFd \in Fds /\ nextFd' = nextFd + 1
          /\ files' = [files EXCEPT ![nextFd] = nextFd]
      BY <2>1, <1>4 DEF FdPwrite, AddFile
    <3> QED
      BY <3>1, <1>4 DEF FdPwrite, Enter, taskVars, IsOpen, Fds, Allocated, Owners
  <2>2. CASE handle[files[fd]] \in deleted
    BY <2>2, <1>4 DEF FdPwrite, taskVars, IsOpen, Owners
  <2> QED
    BY <2>1, <2>2
<1>5. ASSUME FdPwriteDone PROVE Owners'
  BY <1>5 DEF FdPwriteDone, Return, TypeInv, TypeOK, TableTypes, InUse, IsOpen, Owners
<1>6. ASSUME NEW fd \in Fds, FdPread(fd) PROVE Owners'
  BY <1>6 DEF FdPread, Enter, AddFile, taskVars, IsOpen, Fds, Allocated, Owners
<1>7. ASSUME FdPreadDone PROVE Owners'
  BY <1>7 DEF FdPreadDone, Return, taskVars, IsOpen, Owners
<1>8. ASSUME NEW fd \in Fds, FdRead(fd) PROVE Owners'
  BY <1>8 DEF FdRead, tableVars, callVars, taskVars, IsOpen, Owners
<1>9. ASSUME NEW fd \in Fds, NEW p \in Offsets, FdSeek(fd, p) PROVE Owners'
  BY <1>9 DEF FdSeek, tableVars, callVars, taskVars, IsOpen, Owners
<1>10. ASSUME NEW fd \in Fds, NEW p \in Offsets, FdFilestatSetSize(fd, p) PROVE Owners'
  BY <1>10 DEF FdFilestatSetSize, Enter, tableVars, taskVars, IsOpen, Owners
<1>11. ASSUME SetSizeTruncates PROVE Owners'
  BY <1>11 DEF SetSizeTruncates, Return, tableVars, taskVars, IsOpen, Owners
<1>12. ASSUME SetSizeDone PROVE Owners'
  BY <1>12 DEF SetSizeDone, Return, tableVars, taskVars, IsOpen, Owners
<1>13. ASSUME NEW fd \in Fds, FdClose(fd) PROVE Owners'
  BY <1>13 DEF FdClose, Enter, taskVars, TypeInv, TypeOK, TableTypes, IsOpen, Owners
<1>14. ASSUME FdCloseDone PROVE Owners'
  BY <1>14 DEF FdCloseDone, Return, tableVars, taskVars, IsOpen, Owners
<1>15. ASSUME NEW fd \in Fds, NEW to \in Fds, FdRenumber(fd, to) PROVE Owners'
  BY <1>15 DEF FdRenumber, callVars, TypeInv, TypeOK, TableTypes, IsOpen, Owners
<1>16. ASSUME NEW f \in Files, PathUnlinkFile(f) PROVE Owners'
  BY <1>16 DEF PathUnlinkFile, tableVars, callVars, taskVars, IsOpen, Owners
<1>17. ASSUME NEW o \in Fds, CloseEnds(o) PROVE Owners'
  BY <1>17 DEF CloseEnds, tableVars, callVars, IsOpen, Owners
<1>18. ASSUME NEW m \in moving, RenumberEnds(m) PROVE Owners'
  BY SMTT(20), <1>18
  DEF RenumberEnds, callVars, histVars, TypeInv, TypeOK, TableTypes, CallTypes, Moves,
      InUse, IsOpen, Fds, Allocated, Owners
<1>19. ASSUME UNCHANGED vars PROVE Owners'
  BY <1>19 DEF vars, tableVars, callVars, taskVars, IsOpen, Owners
<1> QED
  BY <1>1, <1>2, <1>3, <1>4, <1>5, <1>6, <1>7, <1>8, <1>9, <1>10, <1>11, <1>12, <1>13,
     <1>14, <1>15, <1>16, <1>17, <1>18, <1>19
  DEF Next, Guest, Host

-----------------------------------------------------------------------------
\* Owners says what OneOwner says.
LEMMA OwnersIsOneOwner == TypeInv /\ Owners => OneOwner
<1> SUFFICES ASSUME TypeInv, Owners PROVE OneOwner
  OBVIOUS
<1>1. \A fd \in Fds : files[fd] \notin Doomed
  BY FdNotZero DEF Doomed, Owners, IsOpen, TypeInv, TypeOK, CallTypes, Moves, InUse
<1>2. call \in {"write", "pwrite", "pread", "resize", "truncate"} => obj \notin Doomed
  BY DEF Doomed, Owners
<1> QED
  BY <1>1, <1>2 DEF OneOwner, Owners

\* The initial state satisfies the inductive invariant.
LEMMA SafeInvInit == Init => SafeInv
BY TypeInvInit DEF Init, SafeInv, Allocated, Owners, IsOpen

\* Every step keeps it.
LEMMA SafeInvStep == SafeInv /\ [Next]_vars => SafeInv'
BY TypeStep, InUseStep, AllocatedStep, OwnersStep DEF SafeInv, TypeInv

\* No two descriptors share an open file, and nothing works on one that is
\* being closed.
THEOREM OneOwnerHolds == Spec => []OneOwner
<1>1. SafeInv => OneOwner
  BY OwnersIsOneOwner DEF SafeInv
<1> QED
  BY SafeInvInit, SafeInvStep, <1>1, PTL DEF Spec

-----------------------------------------------------------------------------
(* Descriptors of positional reads and writes. *)

\* The guest renumbers only descriptors it has been given.
Tame == "wild" \notin Ops

\* An object the guest has not opened is behind its own descriptor and belongs to
\* the positional call under way; no late renumber is going to move it.
Temporary ==
  /\ \A fd \in Fds : IsOpen(fd) =>
       files[fd] \in opened \/ (call \in {"pwrite", "pread"} /\ fd = obj)
  /\ \A m \in moving : m.from < nextFd
  /\ call \in {"pwrite", "pread"} => \A m \in moving : m.from # obj

TempInv == TypeInv /\ Temporary

\* Every step leaves such an object where it is, or removes it.
LEMMA TemporaryStep == Tame /\ TempInv /\ [Next]_vars => Temporary'
<1> SUFFICES ASSUME Tame, TempInv PROVE [Next]_vars => Temporary'
  OBVIOUS
<1> USE Bounds, FdNotZero DEF TempInv
<1>1. ASSUME NEW f \in Files, NEW a \in BOOLEAN, PathOpen(f, a) PROVE Temporary'
  BY <1>1
  DEF PathOpen, AddFile, callVars, taskVars, TypeInv, TypeOK, CallTypes, Moves, IsOpen,
      Fds, Temporary
<1>2. ASSUME NEW fd \in Fds, FdWrite(fd) PROVE Temporary'
  BY <1>2 DEF FdWrite, Enter, tableVars, taskVars, IsOpen, Temporary
<1>3. ASSUME FdWriteDone PROVE Temporary'
  BY <1>3 DEF FdWriteDone, Return, tableVars, taskVars, IsOpen, Temporary
<1>4. ASSUME NEW fd \in Fds, NEW p \in Offsets, FdPwrite(fd, p) PROVE Temporary'
  <2>1. CASE handle[files[fd]] \notin deleted
    <3>1. /\ nextFd \in Fds /\ nextFd' = nextFd + 1
          /\ files' = [files EXCEPT ![nextFd] = nextFd]
      BY <2>1, <1>4 DEF FdPwrite, AddFile
    <3> QED
      BY <3>1, <1>4
      DEF FdPwrite, Enter, taskVars, TypeInv, TypeOK, CallTypes, Moves, IsOpen, Fds,
          Temporary
  <2>2. CASE handle[files[fd]] \in deleted
    BY <2>2, <1>4
    DEF FdPwrite, taskVars, TypeInv, TypeOK, CallTypes, Moves, IsOpen, Fds, Temporary
  <2> QED
    BY <2>1, <2>2
<1>5. ASSUME FdPwriteDone PROVE Temporary'
  BY <1>5 DEF FdPwriteDone, Return, TypeInv, TypeOK, TableTypes, IsOpen, Temporary
<1>6. ASSUME NEW fd \in Fds, FdPread(fd) PROVE Temporary'
  BY <1>6
  DEF FdPread, Enter, AddFile, taskVars, histVars, TypeInv, TypeOK, CallTypes, Moves,
      IsOpen, Fds, Temporary
<1>7. ASSUME FdPreadDone PROVE Temporary'
  BY <1>7
  DEF FdPreadDone, Return, taskVars, histVars, TypeInv, TypeOK, TableTypes, IsOpen,
      Temporary
<1>8. ASSUME NEW fd \in Fds, FdRead(fd) PROVE Temporary'
  BY <1>8 DEF FdRead, tableVars, callVars, taskVars, histVars, IsOpen, Temporary
<1>9. ASSUME NEW fd \in Fds, NEW p \in Offsets, FdSeek(fd, p) PROVE Temporary'
  BY <1>9 DEF FdSeek, tableVars, callVars, taskVars, histVars, IsOpen, Temporary
<1>10. ASSUME NEW fd \in Fds, NEW p \in Offsets, FdFilestatSetSize(fd, p) PROVE Temporary'
  BY <1>10 DEF FdFilestatSetSize, Enter, tableVars, taskVars, histVars, IsOpen, Temporary
<1>11. ASSUME SetSizeTruncates PROVE Temporary'
  BY <1>11 DEF SetSizeTruncates, Return, tableVars, taskVars, IsOpen, Temporary
<1>12. ASSUME SetSizeDone PROVE Temporary'
  BY <1>12 DEF SetSizeDone, Return, tableVars, taskVars, IsOpen, Temporary
<1>13. ASSUME NEW fd \in Fds, FdClose(fd) PROVE Temporary'
  BY <1>13 DEF FdClose, Enter, taskVars, IsOpen, Temporary
<1>14. ASSUME FdCloseDone PROVE Temporary'
  BY <1>14 DEF FdCloseDone, Return, tableVars, taskVars, histVars, IsOpen, Temporary
<1>15. ASSUME NEW fd \in Fds, NEW to \in Fds, FdRenumber(fd, to) PROVE Temporary'
  BY <1>15 DEF FdRenumber, Tame, callVars, IsOpen, Temporary
<1>16. ASSUME NEW f \in Files, PathUnlinkFile(f) PROVE Temporary'
  BY <1>16 DEF PathUnlinkFile, tableVars, callVars, taskVars, histVars, IsOpen, Temporary
<1>17. ASSUME NEW o \in Fds, CloseEnds(o) PROVE Temporary'
  BY <1>17 DEF CloseEnds, tableVars, callVars, histVars, IsOpen, Temporary
<1>18. ASSUME NEW m \in moving, RenumberEnds(m) PROVE Temporary'
  BY <1>18
  DEF RenumberEnds, callVars, histVars, TypeInv, TypeOK, TableTypes, CallTypes, Moves,
      IsOpen, Temporary
<1>19. ASSUME UNCHANGED vars PROVE Temporary'
  BY <1>19 DEF vars, tableVars, callVars, taskVars, histVars, IsOpen, Temporary
<1> QED
  BY <1>1, <1>2, <1>3, <1>4, <1>5, <1>6, <1>7, <1>8, <1>9, <1>10, <1>11, <1>12, <1>13,
     <1>14, <1>15, <1>16, <1>17, <1>18, <1>19
  DEF Next, Guest, Host

\* If the guest renumbers only descriptors it was given, then however its calls
\* end, there are only files it has opened behind descriptors.
THEOREM NothingIsLeaked == Tame => (Spec => []NothingLeaks)
<1> SUFFICES ASSUME Tame PROVE Spec => []NothingLeaks
  OBVIOUS
<1>1. Init => TempInv
  BY TypeInvInit DEF Init, TempInv, Temporary, IsOpen
<1>2. TempInv /\ [Next]_vars => TempInv'
  BY TypeStep, InUseStep, TemporaryStep DEF TempInv, TypeInv
<1>3. TempInv => NothingLeaks
  BY DEF TempInv, Temporary, NothingLeaks
<1> QED
  BY <1>1, <1>2, <1>3, PTL DEF Spec

-----------------------------------------------------------------------------
(* Descriptors of the guest. *)

\* The guest does not renumber descriptors.
Fixed == "renumber" \notin Ops

\* What the guest was given is open, and no positional call takes it away.
Holding ==
  /\ moving = {}
  /\ \A fd \in granted : IsOpen(fd) /\ ~(call \in {"pwrite", "pread"} /\ fd = obj)

HoldInv == SafeInv /\ Holding

\* Every step keeps it so: a positional call works under a number nobody had.
LEMMA HoldingStep == Fixed /\ HoldInv /\ [Next]_vars => Holding'
<1> SUFFICES ASSUME Fixed, HoldInv PROVE [Next]_vars => Holding'
  OBVIOUS
<1> USE FdNotZero DEF HoldInv
<1>0. /\ files \in [Fds -> Fds \cup {0}] /\ granted \subseteq Fds
      /\ \A fd \in granted : fd # nextFd
  BY Bounds DEF SafeInv, TypeInv, TypeOK, TableTypes, HistoryTypes, Allocated, Holding, Fds
<1>1. ASSUME NEW f \in Files, NEW a \in BOOLEAN, PathOpen(f, a) PROVE Holding'
  BY <1>0, <1>1 DEF PathOpen, AddFile, callVars, taskVars, IsOpen, Holding
<1>2. ASSUME NEW fd \in Fds, NEW p \in Offsets, FdPwrite(fd, p) PROVE Holding'
  <2>1. moving' = {} /\ granted' = granted
    BY <1>2 DEF FdPwrite, taskVars, Holding
  <2>2. CASE files' = files /\ call' = "idle"
    BY <2>1, <2>2 DEF IsOpen, Holding
  <2>3. CASE files' = [files EXCEPT ![nextFd] = nextFd] /\ obj' = nextFd
    BY <1>0, <2>1, <2>3 DEF IsOpen, Holding
  <2> QED
    BY <1>2, <2>2, <2>3 DEF FdPwrite, AddFile, Enter
<1>3. ASSUME NEW fd \in Fds, FdPread(fd) PROVE Holding'
  BY <1>0, <1>3 DEF FdPread, AddFile, Enter, taskVars, histVars, IsOpen, Holding
<1>4. ASSUME FdPwriteDone \/ FdPreadDone PROVE Holding'
  BY <1>0, <1>4 DEF FdPwriteDone, FdPreadDone, Return, taskVars, histVars, IsOpen, Holding
<1>5. ASSUME NEW fd \in Fds, FdClose(fd) PROVE Holding'
  BY <1>0, <1>5 DEF FdClose, Enter, taskVars, IsOpen, Holding
<1>6. ASSUME files' = files, granted' = granted, moving' = moving,
             call' \in {"pwrite", "pread"} => call' = call /\ obj' = obj
      PROVE  Holding'
  BY <1>6 DEF IsOpen, Holding
<1>7. ASSUME NEW fd \in Fds, FdWrite(fd) \/ FdRead(fd) PROVE Holding'
  BY <1>6, <1>7 DEF FdWrite, FdRead, Enter, tableVars, callVars, taskVars, histVars
<1>8. ASSUME NEW fd \in Fds, NEW p \in Offsets, FdSeek(fd, p) \/ FdFilestatSetSize(fd, p)
      PROVE  Holding'
  BY <1>6, <1>8
  DEF FdSeek, FdFilestatSetSize, Enter, tableVars, callVars, taskVars, histVars
<1>9. ASSUME FdWriteDone \/ FdCloseDone \/ SetSizeTruncates \/ SetSizeDone PROVE Holding'
  BY <1>6, <1>9
  DEF FdWriteDone, FdCloseDone, SetSizeTruncates, SetSizeDone, Return, tableVars, taskVars,
      histVars
<1>10. ASSUME NEW f \in Files, PathUnlinkFile(f) PROVE Holding'
  BY <1>6, <1>10 DEF PathUnlinkFile, tableVars, callVars, taskVars, histVars
<1>11. ASSUME NEW o \in Fds, CloseEnds(o) PROVE Holding'
  BY <1>6, <1>11 DEF CloseEnds, tableVars, callVars, histVars
<1>12. ASSUME UNCHANGED vars PROVE Holding'
  BY <1>6, <1>12 DEF vars, tableVars, callVars, taskVars, histVars
<1>13. ASSUME NEW fd \in Fds, NEW to \in Fds, FdRenumber(fd, to) PROVE FALSE
  BY <1>13 DEF FdRenumber, Fixed
<1>14. ASSUME NEW m \in moving PROVE FALSE
  BY <1>14 DEF Holding
<1> QED
  BY <1>1, <1>2, <1>3, <1>4, <1>5, <1>7, <1>8, <1>9, <1>10, <1>11, <1>12, <1>13, <1>14
  DEF Next, Guest, Host

\* It is fd_renumber alone that takes descriptors from a guest: where the guest
\* does not call it, a descriptor is open until the guest closes it, whatever
\* its other calls do and however they end.
THEOREM DescriptorsStayOpen == Fixed => (Spec => []GrantedStaysOpen)
<1> SUFFICES ASSUME Fixed PROVE Spec => []GrantedStaysOpen
  OBVIOUS
<1>1. Init => HoldInv
  BY SafeInvInit DEF Init, HoldInv, Holding
<1>2. HoldInv /\ [Next]_vars => HoldInv'
  BY SafeInvStep, HoldingStep DEF HoldInv
<1>3. HoldInv => GrantedStaysOpen
  BY DEF HoldInv, Holding, GrantedStaysOpen
<1> QED
  BY <1>1, <1>2, <1>3, PTL DEF Spec

-----------------------------------------------------------------------------
(* Unlinked files. *)

\* A step leaves the contents of an unlinked file alone.
GoneStays == \A f \in deleted : f \in deleted' /\ disk'[f] = disk[f]

\* Every step does: a writer of such a file is never committed.
LEMMA GoneStep == TypeInv /\ [Next]_vars => GoneStays
<1> SUFFICES ASSUME TypeInv PROVE [Next]_vars => GoneStays
  OBVIOUS
<1>1. ASSUME NEW f \in Files, NEW a \in BOOLEAN, PathOpen(f, a) PROVE GoneStays
  BY <1>1 DEF PathOpen, diskVars, IsOpen, GoneStays
<1>2. ASSUME NEW fd \in Fds, FdWrite(fd) PROVE GoneStays
  BY <1>2 DEF FdWrite, diskVars, IsOpen, GoneStays
<1>3. ASSUME FdWriteDone PROVE GoneStays
  BY <1>3 DEF FdWriteDone, diskVars, IsOpen, GoneStays
<1>4. ASSUME NEW fd \in Fds, NEW p \in Offsets, FdPwrite(fd, p) PROVE GoneStays
  BY <1>4 DEF FdPwrite, diskVars, IsOpen, GoneStays
<1>5. ASSUME FdPwriteDone PROVE GoneStays
  BY <1>5 DEF FdPwriteDone, diskVars, IsOpen, GoneStays
<1>6. ASSUME NEW fd \in Fds, FdPread(fd) PROVE GoneStays
  BY <1>6 DEF FdPread, diskVars, IsOpen, GoneStays
<1>7. ASSUME FdPreadDone PROVE GoneStays
  BY <1>7 DEF FdPreadDone, diskVars, IsOpen, GoneStays
<1>8. ASSUME NEW fd \in Fds, FdRead(fd) PROVE GoneStays
  BY <1>8 DEF FdRead, diskVars, IsOpen, GoneStays
<1>9. ASSUME NEW fd \in Fds, NEW p \in Offsets, FdSeek(fd, p) PROVE GoneStays
  BY <1>9 DEF FdSeek, diskVars, IsOpen, GoneStays
<1>10. ASSUME NEW fd \in Fds, NEW p \in Offsets, FdFilestatSetSize(fd, p) PROVE GoneStays
  BY <1>10 DEF FdFilestatSetSize, diskVars, IsOpen, GoneStays
<1>11. ASSUME SetSizeTruncates PROVE GoneStays
  BY <1>11
  DEF SetSizeTruncates, CloseWriter, TypeInv, TypeOK, DiskTypes, IsOpen, GoneStays
<1>12. ASSUME SetSizeDone PROVE GoneStays
  BY <1>12 DEF SetSizeDone, CloseWriter, TypeInv, TypeOK, DiskTypes, IsOpen, GoneStays
<1>13. ASSUME NEW fd \in Fds, FdClose(fd) PROVE GoneStays
  BY <1>13 DEF FdClose, diskVars, IsOpen, GoneStays
<1>14. ASSUME FdCloseDone PROVE GoneStays
  BY <1>14 DEF FdCloseDone, CloseWriter, TypeInv, TypeOK, DiskTypes, IsOpen, GoneStays
<1>15. ASSUME NEW fd \in Fds, NEW to \in Fds, FdRenumber(fd, to) PROVE GoneStays
  BY <1>15 DEF FdRenumber, diskVars, IsOpen, GoneStays
<1>16. ASSUME NEW f \in Files, PathUnlinkFile(f) PROVE GoneStays
  BY <1>16 DEF PathUnlinkFile, IsOpen, GoneStays
<1>17. ASSUME NEW o \in Fds, CloseEnds(o) PROVE GoneStays
  BY <1>17 DEF CloseEnds, CloseWriter, TypeInv, TypeOK, DiskTypes, IsOpen, GoneStays
<1>18. ASSUME NEW m \in moving, RenumberEnds(m) PROVE GoneStays
  BY <1>18 DEF RenumberEnds, CloseWriter, TypeInv, TypeOK, DiskTypes, IsOpen, GoneStays
<1>19. ASSUME UNCHANGED vars PROVE GoneStays
  BY <1>19 DEF vars, diskVars, IsOpen, GoneStays
<1> QED
  BY <1>1, <1>2, <1>3, <1>4, <1>5, <1>6, <1>7, <1>8, <1>9, <1>10, <1>11, <1>12, <1>13,
     <1>14, <1>15, <1>16, <1>17, <1>18, <1>19
  DEF Next, Guest, Host

\* A file that has been unlinked while it was open stays as it was.
THEOREM UnlinkedIsGone == Spec => UnlinkedStaysGone
<1>1. TypeInv /\ [Next]_vars => TypeInv'
  BY TypeStep, InUseStep DEF TypeInv
<1>2. TypeInv /\ [Next]_vars => [\A f \in deleted : f \in deleted' /\ disk'[f] = disk[f]]_vars
  BY GoneStep DEF GoneStays
<1> QED
  BY TypeInvInit, <1>1, <1>2, PTL DEF Spec, UnlinkedStaysGone
-----------------------------------------------------------------------------
(* What has been written. *)

\* A guest that neither appends nor resizes.
Plain == "append" \notin Ops /\ "resize" \notin Ops

\* Such a guest writes at the descriptor's position, through a writer that stays
\* open for as long as the call lasts.  An object yet to come has no writer.
Ordinary ==
  /\ \A o \in Fds : ~append[o]
  /\ call \notin {"resize", "truncate"}
  /\ \A o \in Fds : o >= nextFd => writer[o] = "none"
  /\ call \in {"write", "pwrite"} => writer[obj] = "open"

HasWriter(o, f) == writer[o] = "open" /\ handle[o] = f

\* A file whose writers never overlapped has at most one, which has staged all
\* that was written; if it has none, that has been committed.
Committed ==
  \A f \in Files \ (deleted \cup overlap) :
    /\ \A o \in Fds : HasWriter(o, f) => staged[o] = ideal[f]
    /\ \A o, p \in Fds : HasWriter(o, f) /\ HasWriter(p, f) => o = p
    /\ (\A o \in Fds : ~HasWriter(o, f)) => disk[f] = ideal[f]

WriteInv == SafeInv /\ Ordinary /\ Committed

\* Every step keeps writing ordinary.
LEMMA OrdinaryStep == Plain /\ WriteInv /\ [Next]_vars => Ordinary'
<1> SUFFICES ASSUME Plain, WriteInv PROVE [Next]_vars => Ordinary'
  OBVIOUS
<1> USE Bounds, FdNotZero DEF WriteInv, SafeInv
<1>1. ASSUME NEW f \in Files, NEW a \in BOOLEAN, PathOpen(f, a) PROVE Ordinary'
  BY <1>1 DEF PathOpen, AddFile, callVars, IsOpen, Fds, Owners, Ordinary, Plain
<1>2. ASSUME NEW fd \in Fds, FdWrite(fd) PROVE Ordinary'
  BY SMTT(20), <1>2
  DEF FdWrite, Enter, tableVars, diskVars, taskVars, Snapshot, TypeInv, TypeOK,
      TableTypes, ObjectTypes, CallTypes, Moves, InUse, IsOpen, Fds, Allocated, Owners,
      Ordinary, Plain
<1>3. ASSUME FdWriteDone PROVE Ordinary'
  <2>1. CASE StageWrite(obj)
    BY <1>3 DEF FdWriteDone, Return, tableVars, IsOpen, Owners, Ordinary
  <2>2. CASE UNCHANGED <<writes, staged, position, ideal>>
    BY <2>2, <1>3 DEF FdWriteDone, Return, tableVars, IsOpen, Owners, Ordinary
  <2> QED
    BY <1>3, <2>1, <2>2 DEF FdWriteDone
<1>4. ASSUME NEW fd \in Fds, NEW p \in Offsets, FdPwrite(fd, p) PROVE Ordinary'
  <2>1. CASE handle[files[fd]] \notin deleted
    <3>1. /\ AddFile(handle[files[fd]], p, append[files[fd]])
          /\ Snapshot(nextFd, handle[files[fd]])
      BY <2>1, <1>4 DEF FdPwrite
    <3> QED
      BY <3>1, <1>4
      DEF FdPwrite, AddFile, Enter, Snapshot, TypeInv, TypeOK, TableTypes, ObjectTypes,
          IsOpen, Fds, Owners, Ordinary
  <2>2. CASE handle[files[fd]] \in deleted
    BY SMTT(20), <2>2, <1>4
    DEF FdPwrite, objectVars, diskVars, taskVars, TypeInv, TypeOK, TableTypes,
        ObjectTypes, CallTypes, Moves, InUse, IsOpen, Fds, Allocated, Owners, Ordinary,
        Plain
  <2> QED
    BY <2>1, <2>2
<1>5. ASSUME FdPwriteDone PROVE Ordinary'
  <2>1. CASE StageWrite(obj)
    BY <1>5 DEF FdPwriteDone, Return, IsOpen, Owners, Ordinary
  <2>2. CASE UNCHANGED <<writes, staged, position, ideal>>
    BY <2>2, <1>5 DEF FdPwriteDone, Return, IsOpen, Owners, Ordinary
  <2> QED
    BY <1>5, <2>1, <2>2 DEF FdPwriteDone
<1>6. ASSUME NEW fd \in Fds, FdPread(fd) PROVE Ordinary'
  BY <1>6
  DEF FdPread, Enter, AddFile, TypeInv, TypeOK, TableTypes, IsOpen, Fds, Owners, Ordinary
<1>7. ASSUME FdPreadDone PROVE Ordinary'
  BY <1>7 DEF FdPreadDone, Return, objectVars, IsOpen, Owners, Ordinary
<1>8. ASSUME NEW fd \in Fds, FdRead(fd) PROVE Ordinary'
  BY <1>8 DEF FdRead, tableVars, callVars, IsOpen, Owners, Ordinary
<1>9. ASSUME NEW fd \in Fds, NEW p \in Offsets, FdSeek(fd, p) PROVE Ordinary'
  BY <1>9 DEF FdSeek, tableVars, callVars, IsOpen, Owners, Ordinary
<1>10. ASSUME NEW fd \in Fds, NEW p \in Offsets, FdFilestatSetSize(fd, p) PROVE Ordinary'
  BY <1>10 DEF FdFilestatSetSize, IsOpen, Owners, Plain
<1>11. ASSUME SetSizeTruncates PROVE Ordinary'
  BY <1>11 DEF SetSizeTruncates, IsOpen, Owners, Ordinary
<1>12. ASSUME SetSizeDone PROVE Ordinary'
  BY <1>12 DEF SetSizeDone, IsOpen, Owners, Ordinary
<1>13. ASSUME NEW fd \in Fds, FdClose(fd) PROVE Ordinary'
  BY <1>13 DEF FdClose, Enter, objectVars, IsOpen, Owners, Ordinary
<1>14. ASSUME FdCloseDone PROVE Ordinary'
  BY <1>14
  DEF FdCloseDone, Return, tableVars, CloseWriter, TypeInv, TypeOK, ObjectTypes, IsOpen,
      Owners, Ordinary
<1>15. ASSUME NEW fd \in Fds, NEW to \in Fds, FdRenumber(fd, to) PROVE Ordinary'
  BY <1>15 DEF FdRenumber, objectVars, callVars, IsOpen, Owners, Ordinary
<1>16. ASSUME NEW f \in Files, PathUnlinkFile(f) PROVE Ordinary'
  BY <1>16 DEF PathUnlinkFile, tableVars, objectVars, callVars, IsOpen, Owners, Ordinary
<1>17. ASSUME NEW o \in Fds, CloseEnds(o) PROVE Ordinary'
  BY <1>17
  DEF CloseEnds, tableVars, callVars, CloseWriter, TypeInv, TypeOK, ObjectTypes, InUse,
      IsOpen, Owners, Ordinary
<1>18. ASSUME NEW m \in moving, RenumberEnds(m) PROVE Ordinary'
  BY SMTT(60), <1>18
  DEF RenumberEnds, callVars, histVars, CloseWriter, TypeInv, TypeOK, TableTypes,
      ObjectTypes, CallTypes, Moves, InUse, IsOpen, Fds, Allocated, Owners, Ordinary,
      Plain
<1>19. ASSUME UNCHANGED vars PROVE Ordinary'
  BY <1>19 DEF vars, tableVars, objectVars, callVars, IsOpen, Owners, Ordinary
<1> QED
  BY <1>1, <1>2, <1>3, <1>4, <1>5, <1>6, <1>7, <1>8, <1>9, <1>10, <1>11, <1>12, <1>13,
     <1>14, <1>15, <1>16, <1>17, <1>18, <1>19
  DEF Next, Guest, Host

\* Closing a writer keeps what is staged and what is committed in line with what
\* has been written.
LEMMA CloseCommits ==
  ASSUME WriteInv, NEW o \in Fds, CloseWriter(o), UNCHANGED <<handle, deleted, ideal, overlap>>
  PROVE  Committed'
<1> USE DEF WriteInv, SafeInv, TypeInv, TypeOK
<1> SUFFICES ASSUME NEW f \in Files \ (deleted' \cup overlap')
             PROVE  /\ \A a \in Fds : HasWriter(a, f)' => staged'[a] = ideal'[f]
                    /\ \A a, b \in Fds : HasWriter(a, f)' /\ HasWriter(b, f)' => a = b
                    /\ (\A a \in Fds : ~HasWriter(a, f)') => disk'[f] = ideal'[f]
  BY DEF Committed
<1>1. CASE writer[o] # "open"
  BY <1>1 DEF CloseWriter, Committed, HasWriter
<1>2. CASE writer[o] = "open" /\ handle[o] \in deleted
  BY <1>2 DEF CloseWriter, Committed, HasWriter, ObjectTypes
<1>3. CASE writer[o] = "open" /\ handle[o] \notin deleted
  <2>1. /\ writer' = [writer EXCEPT ![o] = "none"]
        /\ staged' = [staged EXCEPT ![o] = <<>>]
        /\ disk' = [disk EXCEPT ![handle[o]] = staged[o]]
    BY <1>3 DEF CloseWriter
  <2>2. CASE handle[o] = f
    BY <1>3, <2>1, <2>2 DEF Committed, HasWriter, ObjectTypes, DiskTypes
  <2>3. CASE handle[o] # f
    BY <1>3, <2>1, <2>3 DEF Committed, HasWriter
  <2> QED
    BY <2>2, <2>3
<1> QED
  BY <1>1, <1>2, <1>3

\* So does opening one.
LEMMA SnapshotCommits ==
  ASSUME WriteInv, NEW o \in Fds, NEW f \in Files, f \notin deleted,
         writer[o] = "none", Snapshot(o, f),
         handle'[o] = f, \A a \in Fds \ {o} : handle'[a] = handle[a],
         UNCHANGED <<disk, deleted, ideal>>
  PROVE  Committed'
<1> USE DEF WriteInv, SafeInv, TypeInv, TypeOK
<1> SUFFICES ASSUME NEW g \in Files \ (deleted' \cup overlap')
             PROVE  /\ \A a \in Fds : HasWriter(a, g)' => staged'[a] = ideal'[g]
                    /\ \A a, b \in Fds : HasWriter(a, g)' /\ HasWriter(b, g)' => a = b
                    /\ (\A a \in Fds : ~HasWriter(a, g)') => disk'[g] = ideal'[g]
  BY DEF Committed
<1>1. g \in Files \ (deleted \cup overlap)
  BY DEF Snapshot
<1>2. CASE g = f
  <2>1. \A a \in Fds : ~HasWriter(a, f)
    BY <1>2 DEF Snapshot, WritersOn, HasWriter
  <2>2. disk[f] = ideal[f]
    BY <1>1, <1>2, <2>1 DEF Committed
  <2> QED
    BY <1>2, <2>1, <2>2 DEF Snapshot, HasWriter, ObjectTypes
<1>3. CASE g # f
  BY <1>1, <1>3 DEF Snapshot, Committed, HasWriter
<1> QED
  BY <1>2, <1>3

\* A write stages what it is to do, where it does not append.
LEMMA StageCommits ==
  ASSUME WriteInv, NEW o \in Fds, writer[o] = "open", handle[o] \in Files, writes < MaxWrites,
         StageWrite(o), UNCHANGED <<handle, writer, disk, deleted, overlap>>
  PROVE  Committed'
<1> DEFINE new(s) == Written(s, position[o], writes + 1)
<1>1. /\ writes + 1 \in 0 .. MaxWrites /\ position[o] \in Nat /\ staged[o] \in Contents
      /\ staged \in [Fds -> Contents] /\ ideal \in [Files -> Contents]
  BY Bounds DEF WriteInv, SafeInv, TypeInv, TypeOK, ObjectTypes, HistoryTypes
<1>2. ~append[o]
  BY DEF WriteInv, Ordinary
<1>3. staged' = [staged EXCEPT ![o] = new(@)]
  BY <1>1, <1>2, PutAtIsWritten DEF StageWrite, WriteOffset
<1>4. ideal' = [ideal EXCEPT ![handle[o]] = new(@)]
  BY <1>2 DEF StageWrite, IdealOffset
<1> HIDE DEF new
<1> SUFFICES ASSUME NEW f \in Files \ (deleted \cup overlap)
             PROVE  /\ \A a \in Fds : HasWriter(a, f)' => staged'[a] = ideal'[f]
                    /\ \A a, b \in Fds : HasWriter(a, f)' /\ HasWriter(b, f)' => a = b
                    /\ (\A a \in Fds : ~HasWriter(a, f)') => disk'[f] = ideal'[f]
  BY DEF Committed
<1>5. /\ \A a \in Fds : HasWriter(a, f) => staged[a] = ideal[f]
      /\ \A a, b \in Fds : HasWriter(a, f) /\ HasWriter(b, f) => a = b
      /\ (\A a \in Fds : ~HasWriter(a, f)) => disk[f] = ideal[f]
  BY DEF WriteInv, Committed
<1>6. \A a \in Fds : HasWriter(a, f)' <=> HasWriter(a, f)
  BY DEF HasWriter
<1>7. CASE handle[o] = f
  BY <1>1, <1>3, <1>4, <1>5, <1>6, <1>7 DEF HasWriter
<1>8. CASE handle[o] # f
  BY <1>1, <1>3, <1>4, <1>5, <1>6, <1>8 DEF HasWriter
<1> QED
  BY <1>7, <1>8

\* Every step keeps what is staged and what is committed in line with what has
\* been written.
LEMMA CommittedStep == WriteInv /\ [Next]_vars => Committed'
<1> SUFFICES ASSUME WriteInv PROVE [Next]_vars => Committed'
  OBVIOUS
<1> USE Bounds, FdNotZero DEF WriteInv, SafeInv
<1>1. ASSUME NEW f \in Files, NEW a \in BOOLEAN, PathOpen(f, a) PROVE Committed'
  BY <1>1
  DEF PathOpen, AddFile, diskVars, IsOpen, Fds, Owners, Ordinary, Committed, HasWriter
<1>2. ASSUME NEW fd \in Fds, FdWrite(fd) PROVE Committed'
  <2>1. CASE writer[files[fd]] = "open"
    BY <1>2, <2>1 DEF FdWrite, diskVars, Committed, HasWriter
  <2>2. CASE writer[files[fd]] # "open"
    <3>1. files[fd] \in Fds /\ handle[files[fd]] \in Files
      BY <1>2, Behind DEF FdWrite
    <3>2. /\ writer[files[fd]] = "none" /\ handle[files[fd]] \notin deleted
          /\ Snapshot(files[fd], handle[files[fd]])
      BY <1>2, <2>2 DEF FdWrite
    <3> QED
      BY <1>2, <3>1, <3>2, SnapshotCommits DEF FdWrite, diskVars
  <2> QED
    BY <2>1, <2>2
<1>3. ASSUME FdWriteDone PROVE Committed'
  <2>1. CASE StageWrite(obj)
    BY <1>3, <2>1, AtWork, StageCommits DEF FdWriteDone, diskVars, TypeInv, InUse, Ordinary
  <2>2. CASE UNCHANGED <<writes, staged, position, ideal>>
    BY <2>2, <1>3 DEF FdWriteDone, diskVars, IsOpen, Owners, Committed, HasWriter
  <2> QED
    BY <1>3, <2>1, <2>2 DEF FdWriteDone
<1>4. ASSUME NEW fd \in Fds, NEW p \in Offsets, FdPwrite(fd, p) PROVE Committed'
  <2>1. CASE handle[files[fd]] \notin deleted
    <3>1. handle[files[fd]] \in Files
      BY <1>4, Behind DEF FdPwrite
    <3>2. /\ AddFile(handle[files[fd]], p, append[files[fd]])
          /\ Snapshot(nextFd, handle[files[fd]])
      BY <1>4, <2>1 DEF FdPwrite
    <3>3. nextFd \in Fds /\ writer[nextFd] = "none"
      BY <3>2 DEF AddFile, Ordinary, Fds
    <3>4. /\ handle'[nextFd] = handle[files[fd]]
          /\ \A a \in Fds \ {nextFd} : handle'[a] = handle[a]
      BY <3>2, <3>3 DEF AddFile, TypeInv, TypeOK, ObjectTypes
    <3> QED
      BY <1>4, <2>1, <3>1, <3>2, <3>3, <3>4, SnapshotCommits DEF FdPwrite, diskVars
  <2>2. CASE handle[files[fd]] \in deleted
    BY <1>4, <2>2 DEF FdPwrite, objectVars, diskVars, Committed, HasWriter
  <2> QED
    BY <2>1, <2>2
<1>5. ASSUME FdPwriteDone PROVE Committed'
  <2>1. CASE StageWrite(obj)
    BY <1>5, <2>1, AtWork, StageCommits DEF FdPwriteDone, diskVars, TypeInv, InUse, Ordinary
  <2>2. CASE UNCHANGED <<writes, staged, position, ideal>>
    BY <2>2, <1>5 DEF FdPwriteDone, diskVars, IsOpen, Owners, Committed, HasWriter
  <2> QED
    BY <1>5, <2>1, <2>2 DEF FdPwriteDone
<1>6. ASSUME NEW fd \in Fds, FdPread(fd) PROVE Committed'
  BY <1>6
  DEF FdPread, Enter, AddFile, diskVars, histVars, IsOpen, Fds, Owners, Ordinary,
      Committed, HasWriter
<1>7. ASSUME FdPreadDone PROVE Committed'
  BY <1>7
  DEF FdPreadDone, objectVars, diskVars, histVars, IsOpen, Owners, Committed, HasWriter
<1>8. ASSUME NEW fd \in Fds, FdRead(fd) PROVE Committed'
  BY <1>8 DEF FdRead, diskVars, histVars, IsOpen, Owners, Committed, HasWriter
<1>9. ASSUME NEW fd \in Fds, NEW p \in Offsets, FdSeek(fd, p) PROVE Committed'
  BY <1>9 DEF FdSeek, diskVars, histVars, IsOpen, Owners, Committed, HasWriter
<1>10. ASSUME NEW fd \in Fds, NEW p \in Offsets, FdFilestatSetSize(fd, p) PROVE Committed'
  BY <1>10
  DEF FdFilestatSetSize, objectVars, diskVars, histVars, IsOpen, Owners, Committed,
      HasWriter
<1>11. ASSUME SetSizeTruncates PROVE Committed'
  BY <1>11 DEF SetSizeTruncates, IsOpen, Owners, Ordinary
<1>12. ASSUME SetSizeDone PROVE Committed'
  BY <1>12 DEF SetSizeDone, IsOpen, Owners, Ordinary
<1>13. ASSUME NEW fd \in Fds, FdClose(fd) PROVE Committed'
  BY <1>13 DEF FdClose, objectVars, diskVars, IsOpen, Owners, Committed, HasWriter
<1>14. ASSUME FdCloseDone PROVE Committed'
  BY <1>14, AtWork, CloseCommits DEF FdCloseDone, histVars
<1>15. ASSUME NEW fd \in Fds, NEW to \in Fds, FdRenumber(fd, to) PROVE Committed'
  BY <1>15 DEF FdRenumber, objectVars, diskVars, IsOpen, Owners, Committed, HasWriter
<1>16. ASSUME NEW f \in Files, PathUnlinkFile(f) PROVE Committed'
  BY <1>16 DEF PathUnlinkFile, objectVars, histVars, IsOpen, Owners, Committed, HasWriter
<1>17. ASSUME NEW o \in Fds, CloseEnds(o) PROVE Committed'
  BY <1>17, CloseCommits DEF CloseEnds, histVars
<1>18. ASSUME NEW m \in moving, RenumberEnds(m) PROVE Committed'
  <2>1. m.old \in Fds
    BY DEF TypeInv, TypeOK, CallTypes, Moves
  <2> QED
    BY <1>18, <2>1, CloseCommits DEF RenumberEnds, histVars
<1>19. ASSUME UNCHANGED vars PROVE Committed'
  BY <1>19 DEF vars, objectVars, diskVars, histVars, IsOpen, Owners, Committed, HasWriter
<1> QED
  BY <1>1, <1>2, <1>3, <1>4, <1>5, <1>6, <1>7, <1>8, <1>9, <1>10, <1>11, <1>12, <1>13,
     <1>14, <1>15, <1>16, <1>17, <1>18, <1>19
  DEF Next, Guest, Host

\* For a guest that neither appends nor resizes, a file nobody is writing to
\* holds what was written to it, unless two writers overlapped.
THEOREM WritesAreLasting == Plain => (Spec => []WritesLast)
<1> SUFFICES ASSUME Plain PROVE Spec => []WritesLast
  OBVIOUS
<1>1. Init => WriteInv
  BY SafeInvInit DEF Init, WriteInv, Ordinary, Committed, HasWriter
<1>2. WriteInv /\ [Next]_vars => WriteInv'
  BY SafeInvStep, OrdinaryStep, CommittedStep DEF WriteInv
<1>3. WriteInv => WritesLast
  BY DEF WriteInv, Committed, HasWriter, WritesLast, WritersOn
<1> QED
  BY <1>1, <1>2, <1>3, PTL DEF Spec
=============================================================================
