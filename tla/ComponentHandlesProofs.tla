----------------------- MODULE ComponentHandlesProofs -----------------------
(***************************************************************************)
(* What the calls of a component keep for every table size, every number of  *)
(* handles and every number of descriptors a child gets.                     *)
(*                                                                          *)
(* The three properties are proved together, since none is inductive alone:   *)
(* that a good handle stays good needs that what a closing resource works on  *)
(* is not closed by another (OneCloser), that the descriptors of a process    *)
(* are still untouched when they are handed out (EndsWork), that numbers      *)
(* are not reused (Numbered) and that a dropped handle was the only one       *)
(* (Counted).  Every call either adds entries (Grown) or frees some (Shrunk):  *)
(* what these two lemmas ask of a call is what is shown of each action.       *)
(***************************************************************************)
EXTENDS ComponentHandles, SequenceTheorems, TLAPS

-----------------------------------------------------------------------------
(* The inductive invariant. *)

\* Numbers are given out in order; what has none yet is free.
Numbered ==
  /\ \A i \in Ids : i >= nextFd => table[i] = Free /\ held[i] = 0 /\ ends[i] = {}
  /\ \A p \in Ids : \A e \in ends[p] : e < nextFd
  /\ \A i \in given : i < nextFd

\* A resource that was given out once has one handle at most.
Counted ==
  /\ \A r \in Ids : held[r] > 0 => r \in given
  /\ \A r \in Ids \ twice : held[r] < 2
  /\ twice \subseteq given

(* What resources work on is a file, directory or pipe, or gone; they close   *)
(* it unless it is a standard stream, and descriptors always do.              *)
WorkOn ==
  \A r \in Ids :
    /\ table[r].kind \in Workers =>
         /\ table[r].fd < nextFd
         /\ table[table[r].fd].kind \in Things \cup {"free"}
         /\ table[r].closes <=> table[r].fd # Std
         /\ table[r].kind = "descriptor" => table[r].closes
    /\ table[r].closes => table[r].kind \in Workers

\* What a process hands out is good until it has been handed out.
EndsWork ==
  \A p \in Ids : \A e \in ends[p] :
    /\ table[e].kind \in {"descriptor", "free"}
    /\ e \notin given =>
         /\ table[e].kind = "descriptor"
         /\ IsOpen(table[e].fd) \/ table[e].fd \in shared

\* What two resources close is in shared.
OneCloser ==
  \A r, s \in Claimed :
    r # s /\ table[r].closes /\ table[s].closes /\ table[r].fd = table[s].fd
      => table[r].fd \in shared

\* Nobody closes the standard streams of the program.
StdOpen == IsOpen(Std)

Inv == Numbered /\ Counted /\ WorkOn /\ EndsWork /\ OneCloser /\ StdOpen

IInv == TypeOK /\ Inv /\ HandlesWork /\ NothingElseLeaks

-----------------------------------------------------------------------------
(* Lemmas about the parts of the calls. *)

\* The bounds are numbers.
LEMMA Bounds ==
  /\ MaxIds \in Nat /\ MaxIds > 1
  /\ MaxHeld \in Nat /\ MaxHeld > 0
  /\ NumEnds \in Nat /\ NumEnds > 0
BY HandlesAssumption DEF HandlesAssumption

\* What each of the entries is.
LEMMA EntryTypes ==
  ASSUME NEW fd \in Ids
  PROVE  /\ \A k \in Things : Thing(k) \in Entries
         /\ Descriptor(fd) \in Entries
         /\ \A k \in Streams, c \in BOOLEAN : Stream(k, fd, c) \in Entries
         /\ Pollable(fd) \in Entries
         /\ Iterator \in Entries /\ IoError \in Entries /\ Process \in Entries
         /\ Free \in Entries
BY Bounds DEF Entries, Thing, Descriptor, Stream, Pollable, Iterator, IoError, Process, Free,
  Things, Streams, Workers, Resources, Ids

\* What the guest can dispose of has a number.
LEMMA ClaimedIds ==
  ASSUME TypeOK
  PROVE  Claimed \subseteq Ids
BY DEF TypeOK, Claimed

\* OpenFiles.add of one entry.
LEMMA AddOne ==
  ASSUME TypeOK, NEW e, AddAll(1, <<e>>)
  PROVE  /\ nextFd \in Ids /\ nextFd' = nextFd + 1
         /\ table' = [table EXCEPT ![nextFd] = e]
<1>1. nextFd \in Nat /\ nextFd + 1 <= MaxIds + 1 /\ nextFd' = nextFd + 1
  BY Bounds DEF TypeOK, AddAll
<1>2. nextFd \in Ids
  BY <1>1, Bounds DEF Ids
<1>3. table' = [i \in Ids |-> IF i \in nextFd .. nextFd + 1 - 1
                              THEN <<e>>[i - nextFd + 1] ELSE table[i]]
  BY DEF AddAll
<1>4. ASSUME NEW i \in Ids
      PROVE  table'[i] = IF i = nextFd THEN e ELSE table[i]
  <2>1. i \in nextFd .. nextFd + 1 - 1 <=> i = nextFd
    BY <1>1, Bounds DEF Ids
  <2>2. i = nextFd => i - nextFd + 1 = 1
    BY <1>1
  <2> QED
    BY <1>3, <2>1, <2>2
<1> QED
  BY <1>1, <1>2, <1>3, <1>4 DEF TypeOK

\* OpenFiles.add of two entries.
LEMMA AddTwo ==
  ASSUME TypeOK, NEW d, NEW e, AddAll(2, <<d, e>>)
  PROVE  /\ nextFd \in Ids /\ nextFd + 1 \in Ids /\ nextFd' = nextFd + 2
         /\ table' = [table EXCEPT ![nextFd] = d, ![nextFd + 1] = e]
<1>1. nextFd \in Nat /\ nextFd + 2 <= MaxIds + 1 /\ nextFd' = nextFd + 2
  BY Bounds DEF TypeOK, AddAll
<1>2. nextFd \in Ids /\ nextFd + 1 \in Ids
  BY <1>1, Bounds DEF Ids
<1>3. table' = [i \in Ids |-> IF i \in nextFd .. nextFd + 2 - 1
                              THEN <<d, e>>[i - nextFd + 1] ELSE table[i]]
  BY DEF AddAll
<1>4. ASSUME NEW i \in Ids
      PROVE  table'[i] = IF i = nextFd + 1 THEN e ELSE IF i = nextFd THEN d ELSE table[i]
  <2>1. i \in nextFd .. nextFd + 2 - 1 <=> i = nextFd \/ i = nextFd + 1
    BY <1>1, Bounds DEF Ids
  <2>2. /\ i = nextFd => i - nextFd + 1 = 1
        /\ i = nextFd + 1 => i - nextFd + 1 = 2
    BY <1>1
  <2> QED
    BY <1>1, <1>3, <2>1, <2>2
<1> QED
  BY <1>1, <1>2, <1>3, <1>4 DEF TypeOK

\* A resource is returned that the guest did not have.
LEMMA ReturnNew ==
  ASSUME IInv, NEW r \in Ids, r \notin given, Return(r)
  PROVE  /\ held[r] = 0 /\ held' = [held EXCEPT ![r] = 1] /\ held' \in [Ids -> 0 .. MaxHeld]
         /\ given' = given \cup {r} /\ twice' = twice /\ guest' = guest
         /\ Counted'
<1>1. held[r] = 0 /\ held \in [Ids -> 0 .. MaxHeld] /\ r \notin twice
  BY Bounds DEF IInv, TypeOK, Inv, Counted
<1>2. held' = [held EXCEPT ![r] = 1] /\ given' = given \cup {r} /\ twice' = twice /\ guest' = guest
  BY <1>1 DEF Return
<1> QED
  BY <1>1, <1>2, Bounds DEF IInv, Inv, Counted

-----------------------------------------------------------------------------
(* Calls that add to the table. *)

\* The numbers from nextFd on have new entries; what is below stays.
GrowsTable ==
  /\ nextFd' \in nextFd + 1 .. MaxIds + 1
  /\ table' \in [Ids -> Entries]
  /\ \A i \in Ids : i < nextFd => table'[i] = table[i]
  /\ \A i \in Ids : i >= nextFd' => table'[i] = Free

\* The new entries are as WorkOn wants them.
NewWorkOn ==
  \A i \in Ids : i >= nextFd =>
    /\ table'[i].kind \in Workers =>
         /\ table'[i].fd < nextFd'
         /\ table'[table'[i].fd].kind \in Things \cup {"free"}
         /\ table'[i].closes <=> table'[i].fd # Std
         /\ table'[i].kind = "descriptor" => table'[i].closes
    /\ table'[i].closes => table'[i].kind \in Workers

\* The guest has at most new handles, which are good.
NewHeld ==
  /\ held' \in [Ids -> 0 .. MaxHeld]
  /\ \A i \in Ids : i < nextFd => held'[i] = held[i]
  /\ \A i \in Ids : i >= nextFd' => held'[i] = 0
  /\ \A i \in Ids : i >= nextFd /\ held'[i] > 0 =>
       /\ table'[i].kind \in Resources
       /\ table'[i].kind \in Workers => table'[table'[i].fd].kind \in Things

\* So have the processes; what they forget is lost, or the guest has it.
NewEnds ==
  /\ ends' \in [Ids -> SUBSET Ids]
  /\ \A p \in Ids : p >= nextFd' => ends'[p] = {}
  /\ \A p \in Ids : \A e \in ends'[p] :
       \/ e < nextFd /\ e \in ends[p]
       \/ /\ e >= nextFd /\ e < nextFd'
          /\ table'[e].kind = "descriptor" /\ table'[table'[e].fd].kind \in Things
  /\ \A p \in Ids : \A e \in ends[p] :
       \/ e \in ends'[p] \/ held[e] > 0
       \/ ~table[e].closes /\ table[e].kind = "free"
       \/ e \in lost' /\ table[e].fd \in lost'

\* The histories only grow.
NewHistory ==
  /\ given \subseteq given' /\ \A i \in given' : i \in Ids /\ i < nextFd' /\ (i < nextFd => i \in given)
  /\ twice' = twice
  /\ shared \subseteq shared' /\ shared' \subseteq Ids
  /\ lost \subseteq lost' /\ lost' \subseteq Ids

\* What is new has no second owner, and it has one.
NewOwners ==
  /\ \A r, s \in Claimed' :
       r >= nextFd /\ r # s /\ table'[r].closes /\ table'[s].closes /\ table'[r].fd = table'[s].fd
         => table'[r].fd \in shared'
  /\ \A i \in Ids : i >= nextFd /\ table'[i].kind # "free" =>
       i \in Claimed' \cup lost' \/ Closers(i)' # {}

\* A call that adds to the table keeps the invariant.
LEMMA Grown ==
  ASSUME IInv, GrowsTable, NewWorkOn, NewHeld, NewEnds, NewHistory, NewOwners, Counted',
         guest' \in {"runs", "stranded"}
  PROVE  IInv'
<1>1. nextFd \in Nat /\ nextFd > 1 /\ nextFd' \in Nat /\ nextFd < nextFd' /\ nextFd' <= MaxIds + 1
  BY Bounds DEF IInv, TypeOK, GrowsTable
<1>2. \A i \in Ids : i \in Nat /\ (i < nextFd \/ i >= nextFd)
  BY <1>1, Bounds DEF Ids
<1>3. TypeOK'
  BY <1>1, Bounds DEF IInv, TypeOK, GrowsTable, NewHeld, NewEnds, NewHistory
<1>4. Numbered'
  BY <1>1, <1>2 DEF IInv, Inv, Numbered, TypeOK, GrowsTable, NewHeld, NewEnds, NewHistory
<1>5. \A r \in Ids : table[r].kind \in Workers => table[r].fd \in Ids /\ table[r].fd < nextFd
  BY DEF IInv, Inv, TypeOK, WorkOn, Entries
<1>6. WorkOn'
  <2> SUFFICES ASSUME NEW r \in Ids
               PROVE  /\ table'[r].kind \in Workers =>
                           /\ table'[r].fd < nextFd'
                           /\ table'[table'[r].fd].kind \in Things \cup {"free"}
                           /\ table'[r].closes <=> table'[r].fd # Std
                           /\ table'[r].kind = "descriptor" => table'[r].closes
                      /\ table'[r].closes => table'[r].kind \in Workers
    BY DEF WorkOn
  <2>1. CASE r < nextFd
    <3>1. table'[r] = table[r]
      BY <2>1 DEF GrowsTable
    <3>2. table[r].kind \in Workers => table[r].fd < nextFd' /\ table'[table[r].fd] = table[table[r].fd]
      BY <1>1, <1>2, <1>5 DEF GrowsTable
    <3> QED
      BY <3>1, <3>2 DEF IInv, Inv, WorkOn
  <2>2. CASE r >= nextFd
    BY <2>2 DEF NewWorkOn
  <2> QED
    BY <2>1, <2>2, <1>2
<1>7. EndsWork'
  <2> SUFFICES ASSUME NEW p \in Ids, NEW e \in ends'[p]
               PROVE  /\ table'[e].kind \in {"descriptor", "free"}
                      /\ e \notin given' =>
                           /\ table'[e].kind = "descriptor"
                           /\ table'[table'[e].fd].kind \in Things \/ table'[e].fd \in shared'
    BY DEF EndsWork, IsOpen
  <2>1. CASE e < nextFd /\ e \in ends[p]
    <3>1. e \in Ids /\ table'[e] = table[e]
      BY <2>1 DEF GrowsTable, IInv, TypeOK
    <3>2. table[e].kind = "descriptor" => table'[table[e].fd] = table[table[e].fd]
      BY <3>1, <1>5 DEF GrowsTable, Workers
    <3> QED
      BY <2>1, <3>1, <3>2 DEF IInv, Inv, EndsWork, IsOpen, NewHistory
  <2>2. CASE ~(e < nextFd /\ e \in ends[p])
    BY <2>2 DEF NewEnds
  <2> QED
    BY <2>1, <2>2
<1>8. \A r \in Claimed' : r < nextFd => r \in Claimed /\ r \in Ids /\ table'[r] = table[r]
  <2> SUFFICES ASSUME NEW r \in Claimed', r < nextFd
               PROVE  r \in Claimed /\ r \in Ids /\ table'[r] = table[r]
    OBVIOUS
  <2>1. r \in Ids /\ table'[r] = table[r]
    BY <1>3 DEF Claimed, TypeOK, GrowsTable
  <2>2. CASE held'[r] > 0
    BY <2>1, <2>2 DEF Claimed, NewHeld
  <2>3. CASE \E p \in Ids : r \in ends'[p]
    <3>1. PICK p \in Ids : r \in ends'[p]
      BY <2>3
    <3>2. r \in ends[p]
      BY <1>1, <1>2, <2>1, <3>1 DEF NewEnds
    <3> QED
      BY <2>1, <3>2 DEF Claimed
  <2> QED
    BY <2>1, <2>2, <2>3 DEF Claimed
<1>9. \A r \in Claimed' : r \in Ids
  BY <1>3 DEF Claimed, TypeOK
<1>10. OneCloser'
  <2> SUFFICES ASSUME NEW r \in Claimed', NEW s \in Claimed', r # s,
                      table'[r].closes, table'[s].closes, table'[r].fd = table'[s].fd
               PROVE  table'[r].fd \in shared'
    BY DEF OneCloser
  <2>1. CASE r < nextFd /\ s < nextFd
    BY <2>1, <1>8 DEF OneCloser, IInv, Inv, NewHistory
  <2>2. CASE r >= nextFd
    BY <2>2 DEF NewOwners
  <2>3. CASE s >= nextFd
    <3>1. table'[s].fd \in shared'
      BY <2>3 DEF NewOwners
    <3> QED
      BY <3>1
  <2> QED
    BY <2>1, <2>2, <2>3, <1>2, <1>9
<1>11. HandlesWork'
  <2> SUFFICES ASSUME NEW r \in Ids \ twice, held'[r] > 0
               PROVE  /\ table'[r].kind \in Resources
                      /\ table'[r].kind \in Workers =>
                           table'[table'[r].fd].kind \in Things \/ table'[r].fd \in shared'
    BY DEF HandlesWork, IsOpen, NewHistory
  <2>1. CASE r < nextFd
    <3>1. table'[r] = table[r] /\ held[r] > 0
      BY <2>1 DEF GrowsTable, NewHeld
    <3>2. table[r].kind \in Workers => table'[table[r].fd] = table[table[r].fd]
      BY <1>5 DEF GrowsTable
    <3> QED
      BY <3>1, <3>2 DEF IInv, HandlesWork, IsOpen, NewHistory
  <2>2. CASE r >= nextFd
    BY <2>2 DEF NewHeld
  <2> QED
    BY <2>1, <2>2, <1>2
<1>12. NothingElseLeaks'
  <2> SUFFICES ASSUME NEW i \in Ids, table'[i].kind # "free"
               PROVE  i \in {Std, Root} \cup Claimed' \cup lost' \/ Closers(i)' # {}
    BY DEF NothingElseLeaks
  <2>1. CASE i >= nextFd
    BY <2>1 DEF NewOwners
  <2>2. CASE i < nextFd
    <3>1. table'[i] = table[i]
      BY <2>2 DEF GrowsTable
    <3>2. \A r \in Claimed : r \in Ids /\ r < nextFd
      BY <1>1, <1>2 DEF Claimed, IInv, Inv, Numbered, TypeOK
    <3>3. \A r \in Claimed :
            \/ r \in Claimed'
            \/ ~table[r].closes /\ table[r].kind = "free"
            \/ r \in lost' /\ table[r].fd \in lost'
      <4> SUFFICES ASSUME NEW r \in Claimed
                   PROVE  \/ r \in Claimed'
                          \/ ~table[r].closes /\ table[r].kind = "free"
                          \/ r \in lost' /\ table[r].fd \in lost'
        OBVIOUS
      <4>1. CASE held[r] > 0
        BY <3>2, <4>1 DEF Claimed, NewHeld
      <4>2. CASE \E p \in Ids : r \in ends[p]
        <5>1. PICK p \in Ids : r \in ends[p]
          BY <4>2
        <5>2. r \in ends'[p] \/ held[r] > 0 => r \in Claimed'
          BY <3>2, <5>1 DEF Claimed, NewHeld
        <5>3. \/ r \in ends'[p] \/ held[r] > 0
              \/ ~table[r].closes /\ table[r].kind = "free"
              \/ r \in lost' /\ table[r].fd \in lost'
          BY <5>1 DEF NewEnds
        <5> QED
          BY <5>2, <5>3
      <4> QED
        BY <4>1, <4>2 DEF Claimed
    <3>4. i \in {Std, Root} \cup Claimed \cup lost \/ Closers(i) # {}
      BY <3>1 DEF IInv, NothingElseLeaks
    <3>5. CASE i \in {Std, Root} \cup Claimed \cup lost
      BY <3>1, <3>3, <3>5 DEF NewHistory
    <3>6. CASE Closers(i) # {}
      <4>1. PICK r \in Claimed : table[r].closes /\ table[r].fd = i
        BY <3>6 DEF Closers
      <4>2. table'[r] = table[r]
        BY <3>2 DEF GrowsTable
      <4> QED
        BY <3>3, <4>1, <4>2 DEF Closers
    <3> QED
      BY <3>4, <3>5, <3>6
  <2> QED
    BY <2>1, <2>2, <1>2
<1>13. StdOpen'
  <2>1. Std \in Ids /\ Std < nextFd
    BY <1>1, Bounds DEF Std, Ids
  <2> QED
    BY <2>1 DEF IInv, Inv, StdOpen, IsOpen, GrowsTable
<1> QED
  BY <1>3, <1>4, <1>6, <1>7, <1>10, <1>11, <1>12, <1>13 DEF IInv, Inv

\* OpenFiles.add of any entries.
LEMMA AddedTable ==
  ASSUME IInv, NEW n \in Nat, n > 0, NEW new, AddAll(n, new),
         \A j \in 1 .. n : new[j] \in Entries
  PROVE  /\ GrowsTable /\ nextFd' = nextFd + n
         /\ \A i \in Ids : i >= nextFd /\ i < nextFd' =>
              i - nextFd + 1 \in 1 .. n /\ table'[i] = new[i - nextFd + 1]
<1>1. nextFd \in Nat /\ nextFd + n <= MaxIds + 1 /\ nextFd' = nextFd + n
  BY Bounds DEF IInv, TypeOK, AddAll
<1>2. table' = [i \in Ids |-> IF i \in nextFd .. nextFd + n - 1
                              THEN new[i - nextFd + 1] ELSE table[i]]
  BY DEF AddAll
<1>3. \A i \in Ids : i \in Nat /\ (i \in nextFd .. nextFd + n - 1 <=> i >= nextFd /\ i < nextFd')
  BY <1>1, Bounds DEF Ids
<1>4. \A i \in Ids : i >= nextFd /\ i < nextFd' =>
        i - nextFd + 1 \in 1 .. n /\ table'[i] = new[i - nextFd + 1]
  BY <1>1, <1>2, <1>3
<1>5. \A i \in Ids : ~(i >= nextFd /\ i < nextFd') => table'[i] = table[i]
  BY <1>2, <1>3
<1>6. \A i \in Ids : table'[i] \in Entries
  BY <1>4, <1>5 DEF IInv, TypeOK
<1>7. table' \in [Ids -> Entries]
  BY <1>2, <1>6
<1>8. \A i \in Ids : (i < nextFd => table'[i] = table[i]) /\ (i >= nextFd' => table'[i] = Free)
  BY <1>1, <1>3, <1>5 DEF IInv, Inv, Numbered
<1> QED
  BY <1>1, <1>4, <1>7, <1>8, Bounds DEF GrowsTable

\* The processes have what they had.
LEMMA SameEnds ==
  ASSUME IInv, GrowsTable, UNCHANGED ends
  PROVE  NewEnds
<1>1. nextFd \in Nat /\ nextFd' \in Nat /\ nextFd < nextFd' /\ \A i \in Ids : i \in Nat
  BY Bounds DEF IInv, TypeOK, GrowsTable, Ids
<1> QED
  BY <1>1 DEF NewEnds, IInv, Inv, Numbered, TypeOK

\* A new resource is handed out.
LEMMA OneHeld ==
  ASSUME IInv, GrowsTable, NEW r \in Ids, r >= nextFd, r < nextFd', Return(r),
         table'[r].kind \in Resources,
         table'[r].kind \in Workers => table'[table'[r].fd].kind \in Things,
         shared \subseteq shared', shared' \subseteq Ids, UNCHANGED lost
  PROVE  NewHeld /\ NewHistory /\ Counted' /\ r \in Claimed'
<1>1. nextFd \in Nat /\ nextFd' \in Nat /\ nextFd < nextFd' /\ \A i \in Ids : i \in Nat
  BY Bounds DEF IInv, TypeOK, GrowsTable, Ids
<1>2. r \notin given
  BY <1>1 DEF IInv, Inv, Numbered
<1>3. /\ held[r] = 0 /\ held' = [held EXCEPT ![r] = 1] /\ held' \in [Ids -> 0 .. MaxHeld]
      /\ given' = given \cup {r} /\ twice' = twice /\ guest' = guest
      /\ Counted'
  BY <1>2, ReturnNew
<1>4. \A i \in Ids : i # r => held'[i] = held[i]
  BY <1>3 DEF IInv, TypeOK
<1>5. held'[r] = 1
  BY <1>3 DEF IInv, TypeOK
<1>6. NewHeld
  BY <1>1, <1>3, <1>4, <1>5 DEF NewHeld, IInv, Inv, Numbered
<1>7. NewHistory
  BY <1>1, <1>3 DEF NewHistory, IInv, Inv, Numbered, TypeOK
<1> QED
  BY <1>3, <1>5, <1>6, <1>7 DEF Claimed

\* Nothing new is handed out.
LEMMA NoneHeld ==
  ASSUME IInv, GrowsTable, UNCHANGED <<held, given, twice>>,
         shared' = shared, lost \subseteq lost', lost' \subseteq Ids
  PROVE  NewHeld /\ NewHistory /\ Counted'
<1>1. nextFd \in Nat /\ nextFd' \in Nat /\ nextFd < nextFd' /\ \A i \in Ids : i \in Nat
  BY Bounds DEF IInv, TypeOK, GrowsTable, Ids
<1> QED
  BY <1>1 DEF NewHeld, NewHistory, Counted, IInv, Inv, Numbered, TypeOK

\* What could be disposed of has a number that is not new, and what it works on too.
LEMMA OldClaims ==
  ASSUME IInv
  PROVE  \A s \in Claimed : s \in Ids /\ s < nextFd
BY Bounds DEF IInv, Inv, Numbered, TypeOK, Claimed, Ids

\* A new resource on something that is there already.
LEMMA OneNew ==
  ASSUME IInv, NEW e \in Entries, AddAll(1, <<e>>), Return(nextFd), guest = "runs",
         UNCHANGED <<ends, lost>>,
         shared' \in SUBSET Ids, shared \subseteq shared',
         e.kind \in Resources, e.closes => e.kind \in Workers,
         e.kind \in Workers => IsOpen(e.fd) /\ (e.closes <=> e.fd # Std),
         e.kind = "descriptor" => e.closes,
         e.closes => Closers(e.fd) = {} \/ e.fd \in shared'
  PROVE  IInv'
<1>1. nextFd \in Ids /\ nextFd \in Nat /\ nextFd' = nextFd + 1 /\ table' = [table EXCEPT ![nextFd] = e]
  BY AddOne, Bounds DEF IInv, TypeOK
<1>2. GrowsTable
  BY AddedTable, <1>1
<1>3. table'[nextFd] = e /\ e.fd \in Ids
  BY <1>1 DEF IInv, TypeOK, Entries
<1>4. \A i \in Ids : i \in Nat /\ (IsOpen(i) => i < nextFd)
  BY <1>1, Bounds DEF IInv, Inv, Numbered, IsOpen, Free, Things, Ids
<1>5. e.kind \in Workers => e.fd < nextFd /\ table'[e.fd].kind \in Things
  BY <1>2, <1>3, <1>4 DEF GrowsTable, IsOpen
<1>6. \A i \in Ids : i >= nextFd => i = nextFd \/ i >= nextFd'
  BY <1>1, <1>4
<1>7. NewWorkOn
  <2>1. \A i \in Ids : i >= nextFd /\ i # nextFd => table'[i].kind \notin Workers /\ ~table'[i].closes
    BY <1>2, <1>6 DEF GrowsTable, Free, Workers, Streams
  <2>2. e.kind \in Workers =>
          e.fd < nextFd' /\ table'[e.fd].kind \in Things \cup {"free"} /\ (e.closes <=> e.fd # Std)
    <3>1. e.fd \in Nat
      BY <1>3, <1>4
    <3>2. e.kind \in Workers => e.fd < nextFd'
      BY <3>1, <1>1, <1>5
    <3> QED
      BY <3>2, <1>5
  <2> QED
    BY <2>1, <2>2, <1>3 DEF NewWorkOn
<1>8. NewEnds
  BY <1>2, SameEnds
<1>9. NewHeld /\ NewHistory /\ Counted' /\ nextFd \in Claimed'
  BY <1>1, <1>2, <1>3, <1>5, OneHeld
<1>10. \A s \in Claimed' : s # nextFd => s \in Claimed /\ s < nextFd /\ table'[s] = table[s]
  <2> SUFFICES ASSUME NEW s \in Claimed', s # nextFd
               PROVE  s \in Claimed /\ s < nextFd /\ table'[s] = table[s]
    OBVIOUS
  <2>1. s \in Claimed
    BY DEF Claimed, Return, IInv, TypeOK
  <2> QED
    BY <2>1, <1>1, OldClaims DEF IInv, TypeOK
<1>11. NewOwners
  <2>1. ASSUME NEW r \in Claimed', NEW s \in Claimed', r >= nextFd, r # s,
               table'[r].closes, table'[s].closes, table'[r].fd = table'[s].fd
        PROVE  table'[r].fd \in shared'
    <3>1. r = nextFd
      <4>1. r # nextFd => r < nextFd /\ r \in Nat
        BY <1>4, <1>10, OldClaims
      <4> QED
        BY <2>1, <4>1, <1>1
    <3>2. s \in Closers(e.fd)
      BY <2>1, <3>1, <1>3, <1>10 DEF Closers
    <3> QED
      BY <2>1, <3>1, <3>2, <1>3
  <2>2. ASSUME NEW i \in Ids, i >= nextFd, table'[i].kind # "free"
        PROVE  i \in Claimed'
    BY <2>2, <1>2, <1>6, <1>9 DEF GrowsTable, Free
  <2> QED
    BY <2>1, <2>2 DEF NewOwners
<1>12. guest' = guest
  BY DEF Return
<1> QED
  BY <1>2, <1>7, <1>8, <1>9, <1>11, <1>12, Grown

\* A new resource on something that is new too.
LEMMA TwoNew ==
  ASSUME IInv, NEW k \in Things, NEW e \in Entries, AddAll(2, <<Thing(k), e>>), Return(nextFd + 1),
         guest = "runs", UNCHANGED <<ends, shared, lost>>,
         e.kind \in Workers, e.fd = nextFd, e.closes
  PROVE  IInv'
<1> DEFINE f == nextFd
           r == nextFd + 1
<1>1. /\ f \in Ids /\ r \in Ids /\ f \in Nat /\ f > 1 /\ r = f + 1 /\ nextFd' = f + 2
      /\ table' = [table EXCEPT ![f] = Thing(k), ![r] = e]
  BY AddTwo, Bounds DEF IInv, TypeOK
<1>2. f # r /\ table'[f] = Thing(k) /\ table'[r] = e
  BY <1>1 DEF IInv, TypeOK
<1>3. Thing(k) \in Entries /\ Thing(k).kind = k /\ ~Thing(k).closes /\ k \notin Resources
  BY <1>1, EntryTypes DEF Thing, Things, Resources, Workers, Streams
<1>4. GrowsTable
  <2>1. \A j \in 1 .. 2 : <<Thing(k), e>>[j] \in Entries
    BY <1>3
  <2> QED
    BY <2>1, AddedTable
<1>5. \A i \in Ids : i \in Nat /\ (i >= f => i = f \/ i = r \/ i >= nextFd')
  BY <1>1, Bounds DEF Ids
<1>6. NewWorkOn
  <2>1. \A i \in Ids : i >= nextFd' => table'[i].kind \notin Workers /\ ~table'[i].closes
    BY <1>4 DEF GrowsTable, Free, Workers, Streams
  <2>2. table'[f].kind \notin Workers /\ ~table'[f].closes
    BY <1>2, <1>3 DEF Resources
  <2>3. table'[r].fd < nextFd' /\ table'[table'[r].fd].kind \in Things /\ table'[r].closes /\ table'[r].fd # Std
    BY <1>1, <1>2, <1>3 DEF Std
  <2> QED
    BY <2>1, <2>2, <2>3, <1>2, <1>5 DEF NewWorkOn
<1>7. NewEnds
  BY <1>4, SameEnds
<1>8. NewHeld /\ NewHistory /\ Counted' /\ r \in Claimed'
  <2>1. r >= nextFd /\ r < nextFd' /\ table'[table'[r].fd].kind \in Things /\ table'[r].kind \in Resources
    BY <1>1, <1>2, <1>3 DEF Resources
  <2>2. shared \subseteq shared' /\ shared' \subseteq Ids
    BY DEF IInv, TypeOK
  <2> QED
    BY <1>1, <1>4, <2>1, <2>2, OneHeld
<1>9. \A s \in Claimed' : s # r => s \in Claimed /\ s \in Nat /\ s < f /\ table'[s] = table[s]
  <2> SUFFICES ASSUME NEW s \in Claimed', s # r
               PROVE  s \in Claimed /\ s \in Nat /\ s < f /\ table'[s] = table[s]
    OBVIOUS
  <2>1. s \in Claimed
    BY DEF Claimed, Return, IInv, TypeOK
  <2>2. s \in Ids /\ s < f
    BY <2>1, OldClaims
  <2> QED
    BY <2>1, <2>2, <1>5, <1>4 DEF GrowsTable
<1>10. \A s \in Claimed : table[s].closes => table[s].fd < f
  BY OldClaims DEF IInv, Inv, WorkOn
<1>11. NewOwners
  <2>1. ASSUME NEW q \in Claimed', NEW s \in Claimed', q >= nextFd, q # s,
               table'[q].closes, table'[s].closes, table'[q].fd = table'[s].fd
        PROVE  FALSE
    <3>1. q = r
      BY <2>1, <1>1, <1>9
    <3>2. s \in Claimed /\ table[s].closes /\ table[s].fd = f
      BY <2>1, <3>1, <1>2, <1>9
    <3> QED
      BY <3>2, <1>1, <1>10
  <2>2. r \in Claimed' /\ table'[r].closes /\ table'[r].fd = f
    BY <1>2, <1>8
  <2>3. ASSUME NEW i \in Ids, i >= nextFd, table'[i].kind # "free"
        PROVE  i \in Claimed' \/ i = f
    BY <2>3, <1>4, <1>5, <1>8 DEF GrowsTable, Free
  <2>4. \A i \in Ids : i = f => Closers(i)' # {}
    BY <2>2 DEF Closers
  <2> QED
    BY <2>1, <2>3, <2>4 DEF NewOwners
<1>12. guest' = guest
  BY DEF Return
<1> QED
  BY <1>4, <1>6, <1>7, <1>8, <1>11, <1>12, Grown

\* Entries that nobody is given, and that stay if they are any.
LEMMA Unclaimed ==
  ASSUME IInv, NEW n \in Nat, n > 0, NEW new, AddAll(n, new),
         UNCHANGED <<ends, held, given, twice, shared>>, guest' \in {"runs", "stranded"},
         lost \subseteq lost', lost' \subseteq Ids,
         \A j \in 1 .. n :
           /\ new[j] \in Entries
           /\ new[j] = Free \/ nextFd + j - 1 \in lost'
           /\ new[j].closes => new[j].kind \in Workers
           /\ new[j].kind \in Workers =>
                /\ new[j].closes <=> new[j].fd # Std
                /\ new[j].kind = "descriptor" => new[j].closes
                /\ \/ IsOpen(new[j].fd)
                   \/ \E i \in 1 .. n : new[j].fd = nextFd + i - 1 /\ new[i].kind \in Things \cup {"free"}
  PROVE  IInv'
<1>1. /\ GrowsTable /\ nextFd' = nextFd + n
      /\ \A i \in Ids : i >= nextFd /\ i < nextFd' =>
           i - nextFd + 1 \in 1 .. n /\ table'[i] = new[i - nextFd + 1]
  BY AddedTable
<1>2. nextFd \in Nat /\ nextFd' \in Nat /\ nextFd < nextFd' /\ nextFd' <= MaxIds + 1 /\ \A i \in Ids : i \in Nat
  <2>1. nextFd \in Nat
    BY Bounds DEF IInv, TypeOK
  <2> QED
    BY <2>1, <1>1, Bounds DEF GrowsTable, Ids
<1>3. \A i \in 1 .. n : nextFd + i - 1 \in Ids /\ table'[nextFd + i - 1] = new[i]
  <2> SUFFICES ASSUME NEW i \in 1 .. n
               PROVE  nextFd + i - 1 \in Ids /\ table'[nextFd + i - 1] = new[i]
    OBVIOUS
  <2> DEFINE m == nextFd + i - 1
  <2>1. m \in Ids /\ m >= nextFd /\ m < nextFd' /\ m - nextFd + 1 = i
    BY <1>1, <1>2, Bounds DEF Ids
  <2> HIDE DEF m
  <2>2. table'[m] = new[i]
    BY <2>1, <1>1
  <2> QED
    BY <2>1, <2>2 DEF m
<1>4. \A i \in Ids : IsOpen(i) => i < nextFd /\ table'[i] = table[i]
  BY <1>1, <1>2 DEF IInv, Inv, Numbered, IsOpen, Free, Things, GrowsTable
<1>5. NewWorkOn
  <2> SUFFICES ASSUME NEW i \in Ids, i >= nextFd
               PROVE  /\ table'[i].kind \in Workers =>
                           /\ table'[i].fd < nextFd'
                           /\ table'[table'[i].fd].kind \in Things \cup {"free"}
                           /\ table'[i].closes <=> table'[i].fd # Std
                           /\ table'[i].kind = "descriptor" => table'[i].closes
                      /\ table'[i].closes => table'[i].kind \in Workers
    BY DEF NewWorkOn
  <2>1. CASE i >= nextFd'
    BY <2>1, <1>1 DEF GrowsTable, Free, Workers, Streams
  <2>2. CASE i < nextFd'
    <3>1. PICK j \in 1 .. n : table'[i] = new[j]
      BY <2>2, <1>1
    <3>2. CASE IsOpen(new[j].fd)
      <4>1. new[j].fd \in Ids
        BY DEF Entries
      <4>2. new[j].fd < nextFd' /\ table'[new[j].fd].kind \in Things
        BY <3>2, <4>1, <1>2, <1>4 DEF IsOpen
      <4> QED
        BY <3>1, <4>2
    <3>3. CASE \E m \in 1 .. n : new[j].fd = nextFd + m - 1 /\ new[m].kind \in Things \cup {"free"}
      <4>1. PICK m \in 1 .. n : new[j].fd = nextFd + m - 1 /\ new[m].kind \in Things \cup {"free"}
        BY <3>3
      <4>2. new[j].fd < nextFd' /\ table'[new[j].fd] = new[m]
        BY <4>1, <1>1, <1>2, <1>3
      <4> QED
        BY <3>1, <4>1, <4>2
    <3>4. CASE new[j].kind \notin Workers
      BY <3>1, <3>4
    <3> QED
      BY <3>2, <3>3, <3>4
  <2> QED
    BY <2>1, <2>2, <1>2
<1>6. NewEnds
  BY <1>1, SameEnds
<1>7. NewHeld /\ NewHistory /\ Counted'
  BY <1>1, NoneHeld
<1>8. NewOwners
  <2>1. \A r \in Claimed' : r \in Ids /\ r < nextFd
    <3>1. Claimed' = Claimed
      BY DEF Claimed
    <3> QED
      BY <3>1, OldClaims
  <2>2. ASSUME NEW i \in Ids, i >= nextFd, table'[i].kind # "free"
        PROVE  i \in lost'
    <3>1. i < nextFd'
      BY <2>2, <1>1, <1>2 DEF GrowsTable, Free
    <3>2. i - nextFd + 1 \in 1 .. n /\ table'[i] = new[i - nextFd + 1]
      BY <2>2, <3>1, <1>1
    <3>3. new[i - nextFd + 1] # Free
      BY <2>2, <3>2 DEF Free
    <3>4. nextFd + (i - nextFd + 1) - 1 = i
      BY <1>2
    <3> QED
      BY <3>2, <3>3, <3>4
  <2> QED
    BY <2>1, <2>2, <1>2 DEF NewOwners
<1> QED
  BY <1>1, <1>5, <1>6, <1>7, <1>8, Grown

-----------------------------------------------------------------------------
(* Calls that take out of the table. *)

\* The guest has no handle of r left, unless it was given two.
Done(r) == r \in given /\ (r \in twice \/ held'[r] = 0)

\* Entries are freed; the guest and the processes have no more than before.
Shrinks ==
  /\ table' \in [Ids -> Entries] /\ \A i \in Ids : table'[i] \in {table[i], Free}
  /\ nextFd' \in nextFd .. MaxIds + 1
  /\ held' \in [Ids -> 0 .. MaxHeld] /\ \A i \in Ids : held'[i] <= held[i]
  /\ ends' \in [Ids -> SUBSET Ids] /\ \A p \in Ids : ends'[p] \subseteq ends[p]
  /\ guest' \in {"runs", "stranded"}
  /\ UNCHANGED <<given, twice>>
  /\ shared \subseteq shared' /\ shared' \subseteq Ids
  /\ lost \subseteq lost' /\ lost' \subseteq Ids

\* Nobody who counts on it loses an entry.
FreesOwn ==
  \A i \in Ids : table'[i] # table[i] =>
    \/ table[i].kind \in Resources /\ Done(i)
    \/ /\ IsOpen(i) /\ i # Std
       /\ \/ i \in shared'
          \/ \A s \in Claimed : table[s].closes /\ table[s].fd = i => Done(s)

\* What nobody owns any more is gone, or lost.
FreesAll ==
  \A r \in Claimed :
    /\ r \in Claimed' \/ table'[r].kind = "free" \/ r \in lost'
    /\ table[r].closes /\ ~(r \in Claimed' /\ table'[r] = table[r]) =>
         table'[table[r].fd].kind = "free" \/ table[r].fd \in lost'

\* A call that frees entries keeps the invariant.
LEMMA Shrunk ==
  ASSUME IInv, Shrinks, FreesOwn, FreesAll
  PROVE  IInv'
<1>1. nextFd \in Nat /\ nextFd > 1 /\ nextFd' \in Nat /\ nextFd <= nextFd' /\ \A i \in Ids : i \in Nat
  BY Bounds DEF IInv, TypeOK, Shrinks, Ids
<1>2. TypeOK'
  BY <1>1, Bounds DEF IInv, TypeOK, Shrinks
<1>3. Free.kind = "free" /\ ~Free.closes /\ "free" \notin Workers /\ "free" \notin Things
  BY DEF Free, Workers, Streams, Things
<1>4. \A i \in Ids : held'[i] \in Nat /\ held[i] \in Nat /\ table[i].fd \in Ids
  BY Bounds DEF IInv, TypeOK, Shrinks, Entries
<1>5. Numbered'
  <2>1. \A i \in Ids : i >= nextFd' => table'[i] = Free /\ held'[i] = 0 /\ ends'[i] = {}
    BY <1>1, <1>4 DEF IInv, Inv, Numbered, Shrinks
  <2>2. \A p \in Ids : \A e \in ends'[p] : e \in Ids /\ e < nextFd
    BY DEF IInv, Inv, Numbered, TypeOK, Shrinks
  <2>3. \A i \in given' : i \in Ids /\ i < nextFd
    BY DEF IInv, Inv, Numbered, TypeOK, Shrinks
  <2> QED
    BY <1>1, <2>1, <2>2, <2>3 DEF Numbered
<1>6. Counted'
  BY <1>4 DEF IInv, Inv, Counted, Shrinks
<1>7. WorkOn'
  <2> SUFFICES ASSUME NEW r \in Ids
               PROVE  /\ table'[r].kind \in Workers =>
                           /\ table'[r].fd < nextFd'
                           /\ table'[table'[r].fd].kind \in Things \cup {"free"}
                           /\ table'[r].closes <=> table'[r].fd # Std
                           /\ table'[r].kind = "descriptor" => table'[r].closes
                      /\ table'[r].closes => table'[r].kind \in Workers
    BY DEF WorkOn
  <2>1. CASE table'[r] = Free
    BY <2>1, <1>3
  <2>2. CASE table'[r] = table[r]
    <3>1. table[r].kind \in Workers =>
            table[r].fd < nextFd' /\ table'[table[r].fd].kind \in Things \cup {"free"}
      <4>1. table'[table[r].fd] \in {table[table[r].fd], Free}
        BY <1>4 DEF Shrinks
      <4> QED
        BY <4>1, <1>1, <1>3, <1>4 DEF IInv, Inv, WorkOn
    <3> QED
      BY <2>2, <3>1 DEF IInv, Inv, WorkOn
  <2> QED
    BY <2>1, <2>2 DEF Shrinks
<1>8. Claimed' \subseteq Claimed
  BY <1>4 DEF Claimed, Shrinks
<1>9. Claimed \subseteq Ids
  BY ClaimedIds DEF IInv
<1>10. \A r \in Ids : table'[r].closes => table'[r] = table[r]
  BY <1>3 DEF Shrinks
<1>11. OneCloser'
  BY <1>8, <1>9, <1>10 DEF OneCloser, IInv, Inv, Shrinks
<1>12. ASSUME NEW r \in Claimed, table[r].kind \in Workers, ~Done(r),
              IsOpen(table[r].fd) \/ table[r].fd \in shared
       PROVE  table'[table[r].fd].kind \in Things \/ table[r].fd \in shared'
  <2> DEFINE fd == table[r].fd
  <2>1. r \in Ids /\ fd \in Ids /\ table[fd].kind \notin Resources
    BY <1>9, <1>4, <1>12 DEF IInv, Inv, WorkOn, Resources, Workers, Streams, Things
  <2>2. CASE table'[fd] = table[fd]
    BY <2>2, <1>12 DEF IsOpen, Shrinks
  <2>3. CASE table'[fd] # table[fd] /\ fd \notin shared'
    <3>1. fd # Std /\ (table[r].closes => Done(r))
      BY <2>1, <2>3 DEF FreesOwn
    <3>2. table[r].closes
      BY <2>1, <3>1, <1>12 DEF IInv, Inv, WorkOn
    <3> QED
      BY <3>1, <3>2, <1>12
  <2> QED
    BY <2>2, <2>3
<1>13. ASSUME NEW r \in Ids, table'[r] # table[r], table[r].kind \in Resources
       PROVE  Done(r)
  BY <1>13 DEF FreesOwn, IsOpen, Things, Resources, Workers, Streams
<1>14. EndsWork'
  <2> SUFFICES ASSUME NEW p \in Ids, NEW e \in ends'[p]
               PROVE  /\ table'[e].kind \in {"descriptor", "free"}
                      /\ e \notin given' =>
                           /\ table'[e].kind = "descriptor"
                           /\ table'[table'[e].fd].kind \in Things \/ table'[e].fd \in shared'
    BY DEF EndsWork, IsOpen
  <2>1. e \in ends[p] /\ e \in Ids /\ e \in Claimed
    BY DEF Shrinks, IInv, TypeOK, Claimed
  <2>2. /\ table[e].kind \in {"descriptor", "free"}
        /\ e \notin given => table[e].kind = "descriptor" /\ (IsOpen(table[e].fd) \/ table[e].fd \in shared)
    BY <2>1 DEF IInv, Inv, EndsWork
  <2>3. table'[e].kind \in {"descriptor", "free"}
    BY <2>1, <2>2, <1>3 DEF Shrinks
  <2>4. CASE e \notin given
    <3>1. ~Done(e) /\ table[e].kind \in Workers /\ table[e].kind \in Resources
      BY <2>2, <2>4 DEF Done, Workers, Resources
    <3>2. table'[e] = table[e]
      BY <2>1, <3>1, <1>13
    <3> QED
      BY <2>1, <2>2, <2>4, <3>1, <3>2, <1>12
  <2> QED
    BY <2>3, <2>4 DEF Shrinks
<1>15. HandlesWork'
  <2> SUFFICES ASSUME NEW r \in Ids \ twice, held'[r] > 0
               PROVE  /\ table'[r].kind \in Resources
                      /\ table'[r].kind \in Workers =>
                           table'[table'[r].fd].kind \in Things \/ table'[r].fd \in shared'
    BY DEF HandlesWork, IsOpen, Shrinks
  <2>1. held[r] > 0 /\ r \in Claimed
    BY <1>4 DEF Shrinks, Claimed
  <2>2. /\ table[r].kind \in Resources
        /\ table[r].kind \in Workers => IsOpen(table[r].fd) \/ table[r].fd \in shared
    BY <2>1 DEF IInv, HandlesWork
  <2>3. ~Done(r)
    BY <1>4 DEF Done
  <2>4. table'[r] = table[r]
    BY <2>2, <2>3, <1>13
  <2> QED
    BY <2>1, <2>2, <2>3, <2>4, <1>12
<1>16. NothingElseLeaks'
  <2> SUFFICES ASSUME NEW i \in Ids, table'[i].kind # "free"
               PROVE  i \in {Std, Root} \cup Claimed' \cup lost' \/ Closers(i)' # {}
    BY DEF NothingElseLeaks
  <2>1. table'[i] = table[i]
    BY <1>3 DEF Shrinks
  <2>2. CASE i \in {Std, Root} \cup Claimed \cup lost
    BY <2>2 DEF FreesAll, Shrinks
  <2>3. CASE Closers(i) # {}
    <3>1. PICK r \in Claimed : table[r].closes /\ table[r].fd = i
      BY <2>3 DEF Closers
    <3>2. (r \in Claimed' /\ table'[r] = table[r]) \/ i \in lost'
      BY <3>1 DEF FreesAll
    <3> QED
      BY <3>1, <3>2 DEF Closers
  <2> QED
    BY <2>1, <2>2, <2>3 DEF IInv, NothingElseLeaks
<1>17. StdOpen'
  <2>1. Std \in Ids /\ table[Std].kind \in Things
    BY Bounds DEF Std, Ids, IInv, Inv, StdOpen, IsOpen
  <2>2. table'[Std] = table[Std]
    BY <2>1 DEF FreesOwn, Resources, Workers, Streams, Things
  <2> QED
    BY <2>1, <2>2 DEF StdOpen, IsOpen
<1> QED
  BY <1>2, <1>5, <1>6, <1>7, <1>11, <1>14, <1>15, <1>16, <1>17 DEF IInv, Inv

\* The guest gives up a handle.
LEMMA GivesUp ==
  ASSUME IInv, NEW r \in Ids, GivenUp(r), UNCHANGED <<given, twice>>
  PROVE  /\ held' \in [Ids -> 0 .. MaxHeld] /\ \A i \in Ids : held'[i] <= held[i]
         /\ \A i \in Ids : i # r => held'[i] = held[i]
         /\ Done(r) /\ r \in Claimed
<1>1. held \in [Ids -> 0 .. MaxHeld] /\ held[r] > 0 /\ held' = [held EXCEPT ![r] = held[r] - 1]
  BY DEF IInv, TypeOK, GivenUp
<1>2. held[r] - 1 \in 0 .. MaxHeld
  BY <1>1, Bounds
<1>3. \A i \in Ids : held[i] \in Nat /\ held'[i] = IF i = r THEN held[r] - 1 ELSE held[i]
  BY <1>1, Bounds
<1>4. Done(r)
  <2>1. r \in given
    BY <1>1 DEF IInv, Inv, Counted
  <2>2. r \notin twice => held[r] < 2
    BY DEF IInv, Inv, Counted
  <2> QED
    BY <2>1, <2>2, <1>1, <1>3 DEF Done
<1> QED
  BY <1>1, <1>2, <1>3, <1>4 DEF Claimed

\* What is freed is of the types of the table.
LEMMA FreeTypes ==
  /\ Free \in Entries /\ Free.kind = "free" /\ ~Free.closes
  /\ "free" \notin Resources /\ "free" \notin Things /\ Things \cap Resources = {}
  /\ Workers \subseteq Resources
BY EntryTypes, Bounds DEF Free, Resources, Workers, Streams, Things, Ids

\* asyncDispose of what has nothing to close.
LEMMA DropPlainStep ==
  ASSUME IInv, NEW r \in Ids, DropPlain(r)
  PROVE  IInv'
<1>1. /\ table' = [table EXCEPT ![r] = Free] /\ ~table[r].closes /\ table[r].kind \in Resources
      /\ UNCHANGED <<ends, lost, nextFd, guest, given, twice, shared>>
  BY DEF DropPlain, Dropped
<1>2. GivenUp(r)
  BY DEF DropPlain
<1>3. /\ held' \in [Ids -> 0 .. MaxHeld] /\ \A i \in Ids : held'[i] <= held[i]
      /\ \A i \in Ids : i # r => held'[i] = held[i]
      /\ Done(r) /\ r \in Claimed
  BY <1>1, <1>2, GivesUp
<1>4. table'[r] = Free /\ \A i \in Ids : i # r => table'[i] = table[i]
  BY <1>1 DEF IInv, TypeOK
<1>5. Shrinks
  <2>1. table' \in [Ids -> Entries] /\ \A i \in Ids : table'[i] \in {table[i], Free}
    BY <1>1, <1>4, FreeTypes DEF IInv, TypeOK
  <2>2. nextFd' \in nextFd .. MaxIds + 1
    BY <1>1, Bounds DEF IInv, TypeOK
  <2>3. /\ ends' \in [Ids -> SUBSET Ids] /\ \A p \in Ids : ends'[p] \subseteq ends[p]
        /\ guest' \in {"runs", "stranded"} /\ shared' \subseteq Ids /\ lost' \subseteq Ids
    BY <1>1 DEF IInv, TypeOK
  <2> QED
    BY <2>1, <2>2, <2>3, <1>1, <1>3 DEF Shrinks
<1>6. FreesOwn
  BY <1>1, <1>3, <1>4 DEF FreesOwn
<1>7. FreesAll
  <2>1. \A s \in Claimed : s # r => s \in Claimed' /\ table'[s] = table[s]
    BY <1>1, <1>3, <1>4 DEF Claimed, IInv, TypeOK
  <2> QED
    BY <2>1, <1>1, <1>4, FreeTypes DEF FreesAll
<1> QED
  BY <1>5, <1>6, <1>7, Shrunk

\* asyncDispose of a process.
LEMMA DropProcessStep ==
  ASSUME IInv, NEW r \in Ids, DropProcess(r)
  PROVE  IInv'
<1>1. /\ table' = [table EXCEPT ![r] = Free] /\ table[r].kind = "process"
      /\ ends' = [ends EXCEPT ![r] = {}] /\ lost' = lost \cup Abandoned(r)
      /\ UNCHANGED <<nextFd, guest, given, twice, shared>>
  BY DEF DropProcess, Dropped
<1>2. GivenUp(r)
  BY DEF DropProcess
<1>3. /\ held' \in [Ids -> 0 .. MaxHeld] /\ \A i \in Ids : held'[i] <= held[i]
      /\ \A i \in Ids : i # r => held'[i] = held[i]
      /\ Done(r) /\ r \in Claimed
  BY <1>1, <1>2, GivesUp
<1>4. table'[r] = Free /\ \A i \in Ids : i # r => table'[i] = table[i]
  BY <1>1 DEF IInv, TypeOK
<1>5. Abandoned(r) \subseteq Ids
  BY DEF Abandoned, IInv, TypeOK, Entries
<1>6. Shrinks
  <2>1. table' \in [Ids -> Entries] /\ \A i \in Ids : table'[i] \in {table[i], Free}
    BY <1>1, <1>4, FreeTypes DEF IInv, TypeOK
  <2>2. /\ ends' \in [Ids -> SUBSET Ids] /\ \A p \in Ids : ends'[p] \subseteq ends[p]
        /\ lost \subseteq lost' /\ lost' \subseteq Ids
    BY <1>1, <1>5 DEF IInv, TypeOK
  <2>3. nextFd' \in nextFd .. MaxIds + 1 /\ guest' \in {"runs", "stranded"} /\ shared' \subseteq Ids
    BY <1>1, Bounds DEF IInv, TypeOK
  <2> QED
    BY <2>1, <2>2, <2>3, <1>1, <1>3 DEF Shrinks
<1>7. ~table[r].closes /\ table[r].kind \in Resources
  BY <1>1 DEF IInv, Inv, WorkOn, Workers, Streams, Resources
<1>8. FreesOwn
  BY <1>3, <1>4, <1>7 DEF FreesOwn
<1>9. ASSUME NEW s \in Claimed, s # r
      PROVE  /\ table'[s] = table[s]
             /\ \/ s \in Claimed'
                \/ s \in lost' /\ table[s].fd \in lost'
                \/ table[s].kind = "free"
  <2>1. s \in Ids /\ table'[s] = table[s]
    BY <1>4, <1>9, ClaimedIds DEF IInv
  <2>2. CASE held[s] > 0
    BY <2>1, <2>2, <1>3, <1>9 DEF Claimed
  <2>3. CASE \E p \in Ids : p # r /\ s \in ends[p]
    BY <2>1, <2>3, <1>1 DEF Claimed, IInv, TypeOK
  <2>4. CASE s \in ends[r] /\ held[s] = 0
    BY <2>1, <2>4, <1>1 DEF Abandoned, IInv, Inv, EndsWork
  <2>5. held[s] > 0 \/ held[s] = 0
    BY <2>1, Bounds DEF IInv, TypeOK
  <2>6. held[s] > 0 \/ \E p \in Ids : s \in ends[p]
    BY DEF Claimed
  <2>7. CASE held[s] = 0
    <3>1. PICK p \in Ids : s \in ends[p]
      BY <2>6, <2>7
    <3> QED
      BY <3>1, <2>3, <2>4, <2>7
  <2> QED
    BY <2>2, <2>5, <2>7
<1>10. FreesAll
  <2>1. \A s \in Claimed : table[s].closes => table[s].kind # "free"
    BY ClaimedIds, FreeTypes DEF IInv, Inv, WorkOn
  <2>2. table'[r].kind = "free"
    BY <1>4, FreeTypes
  <2> SUFFICES ASSUME NEW s \in Claimed
               PROVE  /\ s \in Claimed' \/ table'[s].kind = "free" \/ s \in lost'
                      /\ table[s].closes /\ ~(s \in Claimed' /\ table'[s] = table[s]) =>
                           table'[table[s].fd].kind = "free" \/ table[s].fd \in lost'
    BY DEF FreesAll
  <2>3. CASE s = r
    BY <2>2, <2>3, <1>7
  <2>4. CASE s # r
    BY <2>1, <2>4, <1>9
  <2> QED
    BY <2>3, <2>4
<1> QED
  BY <1>6, <1>8, <1>10, Shrunk

\* A handle is given up and its resource stays for good.
LEMMA LeftStep ==
  ASSUME IInv, NEW r \in Ids, GivenUp(r), lost' = lost \cup {r}, Dropped, UNCHANGED <<table, ends>>,
         table[r].closes => ~IsOpen(table[r].fd)
  PROVE  IInv'
<1>1. UNCHANGED <<table, ends, nextFd, guest, given, twice, shared>>
  BY DEF Dropped
<1>2. /\ held' \in [Ids -> 0 .. MaxHeld] /\ \A i \in Ids : held'[i] <= held[i]
      /\ \A i \in Ids : i # r => held'[i] = held[i]
  BY <1>1, GivesUp
<1>3. Shrinks
  BY <1>1, <1>2, Bounds DEF Shrinks, IInv, TypeOK
<1>4. FreesOwn
  BY <1>1 DEF FreesOwn
<1>5. \A s \in Claimed : s # r => s \in Claimed'
  BY <1>1, <1>2 DEF Claimed, IInv, TypeOK
<1>6. table[r].closes => table[table[r].fd].kind = "free"
  BY DEF IInv, Inv, WorkOn, IsOpen
<1>7. FreesAll
  BY <1>1, <1>5, <1>6 DEF FreesAll
<1> QED
  BY <1>3, <1>4, <1>7, Shrunk

\* A handle is given up and what its resource works on is closed.
LEMMA CloserStep ==
  ASSUME IInv, NEW r \in Ids, table[r].closes, IsOpen(table[r].fd), GivenUp(r), Dropped, UNCHANGED ends,
         \/ table' = [table EXCEPT ![table[r].fd] = Free, ![r] = Free] /\ lost' = lost
         \/ table' = [table EXCEPT ![table[r].fd] = Free] /\ lost' = lost \cup {r}
  PROVE  IInv'
<1> DEFINE fd == table[r].fd
<1>1. UNCHANGED <<ends, nextFd, guest, given, twice, shared>>
  BY DEF Dropped
<1>2. /\ held' \in [Ids -> 0 .. MaxHeld] /\ \A i \in Ids : held'[i] <= held[i]
      /\ \A i \in Ids : i # r => held'[i] = held[i]
      /\ Done(r) /\ r \in Claimed
  BY <1>1, GivesUp
<1>3. fd \in Ids /\ fd # Std /\ table[r].kind \in Workers
  BY DEF IInv, Inv, WorkOn, TypeOK, Entries
<1>4. /\ table'[fd] = Free /\ \A i \in Ids : i # fd /\ i # r => table'[i] = table[i]
      /\ table'[r] = Free \/ (table'[r] = table[r] /\ r \in lost')
  BY <1>3, FreeTypes DEF IInv, TypeOK, IsOpen
<1>5. table' \in [Ids -> Entries] /\ lost \subseteq lost' /\ lost' \subseteq Ids
  BY <1>3, FreeTypes DEF IInv, TypeOK
<1>6. Shrinks
  BY <1>1, <1>2, <1>4, <1>5, Bounds DEF Shrinks, IInv, TypeOK
<1>7. \A s \in Claimed : s # r /\ table[s].closes /\ table[s].fd = fd => fd \in shared
  BY <1>2 DEF IInv, Inv, OneCloser
<1>8. FreesOwn
  <2>1. \/ fd \in shared'
        \/ \A s \in Claimed : table[s].closes /\ table[s].fd = fd => Done(s)
    BY <1>1, <1>2, <1>3, <1>7
  <2>2. table[r].kind \in Resources /\ IsOpen(fd)
    BY <1>3, FreeTypes
  <2> SUFFICES ASSUME NEW i \in Ids, table'[i] # table[i]
               PROVE  \/ table[i].kind \in Resources /\ Done(i)
                      \/ /\ IsOpen(i) /\ i # Std
                         /\ \/ i \in shared'
                            \/ \A s \in Claimed : table[s].closes /\ table[s].fd = i => Done(s)
    BY DEF FreesOwn
  <2>3. i = fd \/ i = r
    BY <1>4
  <2> QED
    BY <2>1, <2>2, <2>3, <1>2, <1>3
<1>9. FreesAll
  <2>1. \A s \in Claimed : s # r => s \in Claimed' /\ (table'[s] = table[s] \/ s = fd)
    BY <1>1, <1>2, <1>4 DEF Claimed, IInv, TypeOK
  <2>2. ~table[fd].closes
    BY <1>3, FreeTypes DEF IInv, Inv, WorkOn, IsOpen
  <2> QED
    BY <2>1, <2>2, <1>4, FreeTypes DEF FreesAll
<1> QED
  BY <1>6, <1>8, <1>9, Shrunk

\* The stream of a call closes what its descriptor works on.
LEMMA PassingStreamStep ==
  ASSUME IInv, NEW fd \in Ids, fd # Std, IsOpen(fd), PassingStreamCloses(fd), ReturnNothing, UNCHANGED ends
  PROVE  IInv'
<1>1. /\ nextFd' = nextFd + 1 /\ nextFd <= MaxIds /\ table' = [table EXCEPT ![fd] = Free]
      /\ shared' = shared \cup {fd}
      /\ UNCHANGED <<ends, lost, held, guest, given, twice>>
  BY DEF PassingStreamCloses, ReturnNothing, guestVars
<1>2. table'[fd] = Free /\ \A i \in Ids : i # fd => table'[i] = table[i]
  BY <1>1 DEF IInv, TypeOK
<1>3. nextFd' \in nextFd .. MaxIds + 1
  BY <1>1, Bounds DEF IInv, TypeOK
<1>4. \A i \in Ids : held[i] <= held[i]
  BY Bounds DEF IInv, TypeOK
<1>5. Shrinks
  <2>1. table' \in [Ids -> Entries] /\ \A i \in Ids : table'[i] \in {table[i], Free}
    BY <1>1, <1>2, FreeTypes DEF IInv, TypeOK
  <2>2. /\ held' \in [Ids -> 0 .. MaxHeld] /\ \A i \in Ids : held'[i] <= held[i]
        /\ ends' \in [Ids -> SUBSET Ids] /\ \A p \in Ids : ends'[p] \subseteq ends[p]
        /\ guest' \in {"runs", "stranded"} /\ shared' \subseteq Ids /\ lost' \subseteq Ids
    BY <1>1, <1>4 DEF IInv, TypeOK
  <2> QED
    BY <2>1, <2>2, <1>1, <1>3 DEF Shrinks
<1>6. FreesOwn
  BY <1>1, <1>2 DEF FreesOwn
<1>7. ~table[fd].closes
  BY FreeTypes DEF IInv, Inv, WorkOn, IsOpen
<1>8. FreesAll
  <2>1. Claimed' = Claimed
    BY <1>1 DEF Claimed
  <2>2. \A s \in Claimed : s # fd => table'[s] = table[s]
    BY <1>2, ClaimedIds DEF IInv
  <2> QED
    BY <2>1, <2>2, <1>7 DEF FreesAll
<1> QED
  BY <1>5, <1>6, <1>8, Shrunk

\* A descriptor of a process is handed out.
LEMMA GetEndStep ==
  ASSUME IInv, NEW p \in Ids, NEW e \in Ids, GetEnd(p, e)
  PROVE  IInv'
<1>1. /\ e \in ends[p] /\ guest = "runs" /\ Return(e) /\ held[e] < MaxHeld
      /\ UNCHANGED <<table, nextFd, ends, shared, lost>>
  BY DEF GetEnd, Return, Calls, tableVars
<1>2. /\ held' = [held EXCEPT ![e] = held[e] + 1] /\ given' = given \cup {e}
      /\ twice' = IF e \in given THEN twice \cup {e} ELSE twice
      /\ guest' = guest
  BY <1>1 DEF Return
<1>3. /\ \A i \in Ids : held[i] \in Nat /\ held'[i] = IF i = e THEN held[e] + 1 ELSE held[i]
      /\ held' \in [Ids -> 0 .. MaxHeld]
  BY <1>1, <1>2, Bounds DEF IInv, TypeOK
<1>4. TypeOK'
  BY <1>1, <1>2, <1>3 DEF IInv, TypeOK
<1>5. e < nextFd /\ nextFd \in Nat /\ e \in Nat
  BY <1>1, Bounds DEF IInv, Inv, Numbered, TypeOK, Ids
<1>6. Numbered'
  BY <1>1, <1>2, <1>3, <1>5 DEF IInv, Inv, Numbered
<1>7. Counted'
  BY <1>2, <1>3 DEF IInv, Inv, Counted
<1>8. WorkOn'
  BY <1>1 DEF IInv, Inv, WorkOn
<1>9. EndsWork'
  BY <1>1, <1>2 DEF IInv, Inv, EndsWork, IsOpen
<1>10. Claimed' = Claimed
  <2>1. e \in Claimed /\ e \in Claimed'
    BY <1>1 DEF Claimed
  <2>2. \A i \in Ids : i # e => (held'[i] > 0 <=> held[i] > 0)
    BY <1>3
  <2> QED
    BY <2>1, <2>2, <1>1 DEF Claimed, IInv, TypeOK
<1>11. OneCloser'
  BY <1>1, <1>10 DEF IInv, Inv, OneCloser
<1>12. HandlesWork'
  <2>1. e \notin given => table[e].kind = "descriptor" /\ (IsOpen(table[e].fd) \/ table[e].fd \in shared)
    BY <1>1 DEF IInv, Inv, EndsWork
  <2>2. twice \subseteq twice' /\ (e \in given => e \in twice')
    BY <1>2
  <2> QED
    BY <2>1, <2>2, <1>1, <1>3, FreeTypes DEF IInv, HandlesWork, IsOpen, Workers
<1>13. NothingElseLeaks'
  BY <1>1, <1>10 DEF IInv, NothingElseLeaks, Closers
<1>14. StdOpen'
  BY <1>1 DEF IInv, Inv, StdOpen, IsOpen
<1> QED
  BY <1>4, <1>6, <1>7, <1>8, <1>9, <1>11, <1>12, <1>13, <1>14 DEF IInv, Inv

-----------------------------------------------------------------------------
(* Child processes. *)

\* initProcess puts the pipes at b and above, and the descriptors above them.
LEMMA EndsAtEntries ==
  ASSUME NEW b \in Nat, NEW i \in 1 .. 2 * NumEnds
  PROVE  /\ i <= NumEnds => EndsAt(b)[i] = Thing("pipe")
         /\ i > NumEnds => EndsAt(b)[i] = Descriptor(b + i - NumEnds - 1)
BY Bounds DEF EndsAt

\* What a child gets: pipes from b on, then a descriptor of each, which p hands out.
StartsAt(b, p) ==
  /\ nextFd' = b + 2 * NumEnds
  /\ \A i \in Ids : i >= b /\ i < b + NumEnds => table'[i] = Thing("pipe")
  /\ \A i \in Ids : i >= b + NumEnds /\ i < nextFd' => table'[i] = Descriptor(i - NumEnds)
  /\ ends' = [ends EXCEPT ![p] = b + NumEnds .. b + 2 * NumEnds - 1]

\* Starting a child keeps the invariant, be its process new or not.
LEMMA Started ==
  ASSUME IInv, GrowsTable, NEW p \in Ids, NEW b \in Nat, StartsAt(b, p),
         NewHeld, NewHistory, Counted', guest' \in {"runs", "stranded"},
         \/ b = nextFd /\ p < nextFd
         \/ b = nextFd + 1 /\ p = nextFd /\ table'[nextFd] = Process /\ held'[nextFd] > 0,
         Abandoned(p) \subseteq lost'
  PROVE  IInv'
<1>1. /\ nextFd \in Nat /\ nextFd > 1 /\ nextFd' = b + 2 * NumEnds /\ nextFd' <= MaxIds + 1
      /\ b >= nextFd /\ b <= nextFd + 1 /\ p <= nextFd /\ p < nextFd'
      /\ \A i \in Ids : i \in Nat
  BY Bounds DEF IInv, TypeOK, GrowsTable, StartsAt, Ids
<1> DEFINE P(i) == i >= b /\ i < b + NumEnds
           D(i) == i >= b + NumEnds /\ i < nextFd'
<1>2. \A i \in Ids : i >= nextFd => (i = nextFd /\ i < b) \/ P(i) \/ D(i) \/ i >= nextFd'
  BY <1>1, Bounds
<1>3. ASSUME NEW i \in Ids, P(i)
      PROVE  table'[i].kind = "pipe" /\ ~table'[i].closes
  BY <1>3 DEF StartsAt, Thing
<1>4. ASSUME NEW i \in Ids, D(i)
      PROVE  /\ table'[i].kind = "descriptor" /\ table'[i].closes
             /\ table'[i].fd = i - NumEnds /\ i - NumEnds \in Ids /\ P(i - NumEnds)
             /\ table'[i - NumEnds].kind = "pipe"
  <2>1. table'[i] = Descriptor(i - NumEnds)
    BY <1>4 DEF StartsAt
  <2>2. i - NumEnds \in Ids /\ P(i - NumEnds)
    BY <1>1, <1>4, Bounds DEF Ids
  <2> QED
    BY <2>1, <2>2, <1>3 DEF Descriptor
<1>5. \A i \in Ids : i >= nextFd' => table'[i].kind = "free" /\ ~table'[i].closes
  BY DEF GrowsTable, Free
<1>6. ASSUME NEW i \in Ids, i = nextFd, i < b
      PROVE  table'[i].kind = "process" /\ ~table'[i].closes /\ held'[i] > 0
  BY <1>1, <1>6 DEF Process
<1> HIDE DEF P, D
<1>7. "pipe" \in Things /\ {"pipe", "free", "process"} \cap Workers = {} /\ "descriptor" \in Workers
  BY DEF Things, Workers, Streams
<1>8. NewWorkOn
  <2> SUFFICES ASSUME NEW i \in Ids, i >= nextFd
               PROVE  /\ table'[i].kind \in Workers =>
                           /\ table'[i].fd < nextFd'
                           /\ table'[table'[i].fd].kind \in Things \cup {"free"}
                           /\ table'[i].closes <=> table'[i].fd # Std
                           /\ table'[i].kind = "descriptor" => table'[i].closes
                      /\ table'[i].closes => table'[i].kind \in Workers
    BY DEF NewWorkOn
  <2>1. CASE D(i)
    <3>1. i - NumEnds < nextFd' /\ i - NumEnds # Std
      BY <2>1, <1>1, <1>4, Bounds DEF P, D, Std
    <3> QED
      BY <2>1, <3>1, <1>4, <1>7
  <2>2. CASE ~D(i)
    BY <2>2, <1>2, <1>3, <1>5, <1>6, <1>7
  <2> QED
    BY <2>1, <2>2
<1>9. /\ ends'[p] = b + NumEnds .. b + 2 * NumEnds - 1
      /\ \A q \in Ids : q # p => ends'[q] = ends[q]
      /\ ends' \in [Ids -> SUBSET Ids]
      /\ \A e \in ends'[p] : e \in Ids /\ D(e)
      /\ \A e \in Ids : D(e) => e \in ends'[p]
  <2>1. \A e : e \in b + NumEnds .. b + 2 * NumEnds - 1 <=> e \in Ids /\ D(e)
    BY <1>1, Bounds DEF Ids, D
  <2>2. b + NumEnds .. b + 2 * NumEnds - 1 \in SUBSET Ids
    BY <2>1
  <2>3. ends' = [ends EXCEPT ![p] = b + NumEnds .. b + 2 * NumEnds - 1]
    BY DEF StartsAt
  <2> QED
    BY <2>1, <2>2, <2>3 DEF IInv, TypeOK
<1>10. NewEnds
  <2>1. \A q \in Ids : q >= nextFd' => q # p /\ q >= nextFd
    BY <1>1, Bounds
  <2>2. ASSUME NEW q \in Ids, NEW e \in ends'[q]
        PROVE  \/ e < nextFd /\ e \in ends[q]
               \/ /\ e >= nextFd /\ e < nextFd'
                  /\ table'[e].kind = "descriptor" /\ table'[table'[e].fd].kind \in Things
    <3>1. CASE q # p
      BY <3>1, <1>9 DEF IInv, Inv, Numbered
    <3>2. CASE q = p
      <4>1. e \in Ids /\ D(e)
        BY <3>2, <1>9
      <4>2. e >= nextFd /\ e < nextFd'
        BY <4>1, <1>1, Bounds DEF D
      <4> QED
        BY <4>1, <4>2, <1>4, <1>7
    <3> QED
      BY <3>1, <3>2
  <2>3. ASSUME NEW q \in Ids, NEW e \in ends[q]
        PROVE  \/ e \in ends'[q] \/ held[e] > 0
               \/ ~table[e].closes /\ table[e].kind = "free"
               \/ e \in lost' /\ table[e].fd \in lost'
    <3>1. CASE q # p
      BY <3>1, <1>9
    <3>2. CASE q = p
      <4>1. e \in Ids /\ table[e].kind \in {"descriptor", "free"}
        BY DEF IInv, Inv, EndsWork, TypeOK
      <4>2. table[e].kind = "free" => ~table[e].closes
        BY <4>1, <1>7 DEF IInv, Inv, WorkOn
      <4>3. held[e] > 0 \/ held[e] = 0
        BY <4>1, Bounds DEF IInv, TypeOK
      <4>4. held[e] = 0 /\ table[e].kind = "descriptor" => e \in Abandoned(p) /\ table[e].fd \in Abandoned(p)
        BY <3>2 DEF Abandoned
      <4> QED
        BY <4>1, <4>2, <4>3, <4>4
    <3> QED
      BY <3>1, <3>2
  <2> QED
    BY <2>1, <2>2, <2>3, <1>9 DEF NewEnds, IInv, Inv, Numbered
<1>11. NewOwners
  <2>1. Claimed' \subseteq Ids
    BY <1>9 DEF Claimed
  <2>2. ASSUME NEW q \in Claimed', NEW s \in Claimed', q >= nextFd, q # s,
               table'[q].closes, table'[s].closes, table'[q].fd = table'[s].fd
        PROVE  FALSE
    <3>1. q \in Ids /\ D(q) /\ table'[q].fd = q - NumEnds
      BY <2>1, <2>2, <1>2, <1>3, <1>4, <1>5, <1>6
    <3>2. CASE s >= nextFd
      <4>1. s \in Ids /\ D(s) /\ table'[s].fd = s - NumEnds
        BY <2>1, <2>2, <3>2, <1>2, <1>3, <1>4, <1>5, <1>6
      <4>2. q - NumEnds = s - NumEnds /\ q \in Nat /\ s \in Nat
        BY <2>2, <3>1, <4>1, <1>1
      <4> QED
        BY <2>2, <4>2, Bounds
    <3>3. CASE s < nextFd
      <4>1. s \in Ids /\ table'[s] = table[s]
        BY <2>1, <3>3 DEF GrowsTable
      <4>2. table[s].fd < nextFd
        BY <2>2, <4>1 DEF IInv, Inv, WorkOn
      <4>3. q - NumEnds >= nextFd
        BY <3>1, <1>1, Bounds DEF D
      <4>4. table[s].fd = q - NumEnds /\ q \in Nat
        BY <2>2, <3>1, <4>1, <1>1
      <4> QED
        BY <4>2, <4>3, <4>4, <1>1, Bounds
    <3> QED
      BY <2>1, <3>2, <3>3, <1>1
  <2>3. ASSUME NEW i \in Ids, i >= nextFd, table'[i].kind # "free"
        PROVE  i \in Claimed' \/ Closers(i)' # {}
    <3>1. CASE P(i)
      <4> DEFINE d == i + NumEnds
      <4>1. d \in Ids /\ D(d) /\ d - NumEnds = i
        BY <3>1, <1>1, Bounds DEF P, D, Ids
      <4> HIDE DEF d
      <4>2. d \in Claimed' /\ table'[d].closes /\ table'[d].fd = i
        BY <4>1, <1>4, <1>9 DEF Claimed
      <4> QED
        BY <4>2 DEF Closers
    <3>2. CASE D(i)
      BY <3>2, <1>9 DEF Claimed
    <3>3. CASE i = nextFd /\ i < b
      BY <3>3, <1>6 DEF Claimed
    <3> QED
      BY <3>1, <3>2, <3>3, <2>3, <1>2, <1>5
  <2> QED
    BY <2>2, <2>3 DEF NewOwners
<1> QED
  BY <1>8, <1>10, <1>11, Grown

\* Descriptors that a process forgets have numbers, and so has what they work on.
LEMMA AbandonedIds ==
  ASSUME TypeOK, NEW p \in Ids
  PROVE  Abandoned(p) \subseteq Ids
BY DEF TypeOK, Abandoned, Entries

\* ProcessResource.start.
LEMMA StartStep ==
  ASSUME IInv, NEW p \in Ids, Start(p)
  PROVE  IInv'
<1>1. /\ AddAll(2 * NumEnds, EndsAt(nextFd)) /\ lost' = lost \cup Abandoned(p)
      /\ ends' = [ends EXCEPT ![p] = nextFd + NumEnds .. nextFd + 2 * NumEnds - 1]
      /\ UNCHANGED <<held, guest, given, twice, shared>>
      /\ table[p].kind = "process"
  BY DEF Start, Calls, ReturnNothing, guestVars
<1>2. nextFd \in Nat /\ 2 * NumEnds \in Nat /\ 2 * NumEnds > 0 /\ \A i \in Ids : i \in Nat
  BY Bounds DEF IInv, TypeOK, Ids
<1>3. nextFd + 2 * NumEnds <= MaxIds + 1
  BY <1>1 DEF AddAll
<1>4. \A j \in 1 .. 2 * NumEnds : EndsAt(nextFd)[j] \in Entries
  <2> SUFFICES ASSUME NEW j \in 1 .. 2 * NumEnds
               PROVE  EndsAt(nextFd)[j] \in Entries
    OBVIOUS
  <2>1. j > NumEnds => nextFd + j - NumEnds - 1 \in Ids
    BY <1>2, <1>3, Bounds DEF Ids
  <2>2. Thing("pipe") \in Entries
    BY EntryTypes, Bounds DEF Things, Ids
  <2>3. j <= NumEnds \/ j > NumEnds
    BY Bounds
  <2> QED
    BY <2>1, <2>2, <2>3, <1>2, EndsAtEntries, EntryTypes
<1>5. /\ GrowsTable /\ nextFd' = nextFd + 2 * NumEnds
      /\ \A i \in Ids : i >= nextFd /\ i < nextFd' =>
           i - nextFd + 1 \in 1 .. 2 * NumEnds /\ table'[i] = EndsAt(nextFd)[i - nextFd + 1]
  <2>1. 2 * NumEnds \in Nat /\ 2 * NumEnds > 0
    BY <1>2
  <2>2. AddAll(2 * NumEnds, EndsAt(nextFd))
    BY <1>1
  <2> QED
    BY <2>1, <2>2, <1>4, AddedTable
<1>6. StartsAt(nextFd, p)
  <2>1. ASSUME NEW i \in Ids, i >= nextFd, i < nextFd + NumEnds
        PROVE  table'[i] = Thing("pipe")
    <3>1. i < nextFd' /\ i - nextFd + 1 <= NumEnds
      BY <2>1, <1>2, <1>5, Bounds
    <3> QED
      BY <2>1, <3>1, <1>2, <1>5, EndsAtEntries
  <2>2. ASSUME NEW i \in Ids, i >= nextFd + NumEnds, i < nextFd'
        PROVE  table'[i] = Descriptor(i - NumEnds)
    <3>1. i >= nextFd /\ i - nextFd + 1 > NumEnds /\ nextFd + (i - nextFd + 1) - NumEnds - 1 = i - NumEnds
      BY <2>2, <1>2, Bounds
    <3> QED
      BY <2>2, <3>1, <1>2, <1>5, EndsAtEntries
  <2> QED
    BY <2>1, <2>2, <1>1, <1>5 DEF StartsAt
<1>7. lost' \subseteq Ids /\ guest' \in {"runs", "stranded"}
  BY <1>1, AbandonedIds DEF IInv, TypeOK
<1>8. NewHeld /\ NewHistory /\ Counted'
  BY <1>1, <1>5, <1>7, NoneHeld
<1>9. p < nextFd
  BY <1>1, <1>2 DEF IInv, Inv, Numbered, Free
<1> QED
  BY <1>1, <1>2, <1>5, <1>6, <1>7, <1>8, <1>9, Started

\* A function on the numbers from 1 to m is a sequence.
LEMMA FunctionIsSequence ==
  ASSUME NEW S, NEW m \in Nat, NEW f \in [1 .. m -> S]
  PROVE  f \in Seq(S) /\ Len(f) = m
<1>1. f \in Seq(S)
  BY SeqDef
<1>2. DOMAIN f = 1 .. Len(f) /\ Len(f) \in Nat /\ DOMAIN f = 1 .. m
  BY <1>1, LenProperties
<1> QED
  BY <1>1, <1>2

\* exec.
LEMMA ExecStep ==
  ASSUME IInv, Exec
  PROVE  IInv'
<1> DEFINE n   == 2 * NumEnds + 1
           new == <<Process>> \o EndsAt(nextFd + 1)
<1>1. /\ AddAll(n, new) /\ guest = "runs" /\ Return(nextFd) /\ UNCHANGED <<shared, lost>>
      /\ ends' = [ends EXCEPT ![nextFd] = nextFd + NumEnds + 1 .. nextFd + 2 * NumEnds]
  BY DEF Exec
<1>2. nextFd \in Nat /\ nextFd > 1 /\ n \in Nat /\ n > 0 /\ \A i \in Ids : i \in Nat
  BY Bounds DEF IInv, TypeOK, Ids
<1>3. nextFd + n <= MaxIds + 1 /\ nextFd \in Ids
  <2>1. nextFd + n <= MaxIds + 1
    BY <1>1 DEF AddAll
  <2> QED
    BY <2>1, <1>2, Bounds DEF Ids
<1>4. \A j \in 1 .. 2 * NumEnds : EndsAt(nextFd + 1)[j] \in Entries
  <2> SUFFICES ASSUME NEW j \in 1 .. 2 * NumEnds
               PROVE  EndsAt(nextFd + 1)[j] \in Entries
    OBVIOUS
  <2>1. j > NumEnds => (nextFd + 1) + j - NumEnds - 1 \in Ids
    BY <1>2, <1>3, Bounds DEF Ids
  <2>2. Thing("pipe") \in Entries
    BY EntryTypes, Bounds DEF Things, Ids
  <2>3. j <= NumEnds \/ j > NumEnds
    BY Bounds
  <2> QED
    BY <2>1, <2>2, <2>3, <1>2, EndsAtEntries, EntryTypes
<1>5. /\ new[1] = Process
      /\ \A j \in 1 .. 2 * NumEnds : new[j + 1] = EndsAt(nextFd + 1)[j]
  <2>1. EndsAt(nextFd + 1) \in Seq(Entries) /\ Len(EndsAt(nextFd + 1)) = 2 * NumEnds
    <3>1. EndsAt(nextFd + 1) = [j \in 1 .. 2 * NumEnds |-> EndsAt(nextFd + 1)[j]]
      BY DEF EndsAt
    <3>2. EndsAt(nextFd + 1) \in [1 .. 2 * NumEnds -> Entries]
      BY <3>1, <1>4
    <3> QED
      BY <3>2, FunctionIsSequence, Bounds
  <2>2. <<Process>> \in Seq(Entries) /\ Len(<<Process>>) = 1 /\ <<Process>>[1] = Process
    BY <1>3, EntryTypes
  <2> DEFINE s == <<Process>>
             t == EndsAt(nextFd + 1)
  <2> HIDE DEF s, t
  <2>3. \A j \in 1 .. Len(s) + Len(t) : (s \o t)[j] = IF j <= Len(s) THEN s[j] ELSE t[j - Len(s)]
    BY <2>1, <2>2, ConcatProperties DEF s, t
  <2>4. Len(s) = 1 /\ Len(t) = 2 * NumEnds /\ s[1] = Process
    BY <2>1, <2>2 DEF s, t
  <2>5. (s \o t)[1] = Process /\ \A j \in 1 .. 2 * NumEnds : (s \o t)[j + 1] = t[j]
    <3>1. 1 \in 1 .. 1 + 2 * NumEnds /\ 1 <= 1
      BY Bounds
    <3>2. (s \o t)[1] = Process
      BY <2>3, <2>4, <3>1
    <3>3. ASSUME NEW j \in 1 .. 2 * NumEnds
          PROVE  (s \o t)[j + 1] = t[j]
      <4>1. j + 1 \in 1 .. 1 + 2 * NumEnds /\ ~(j + 1 <= 1) /\ (j + 1) - 1 = j
        BY Bounds
      <4>2. (s \o t)[j + 1] = t[(j + 1) - 1]
        BY <2>3, <2>4, <4>1
      <4> QED
        BY <4>1, <4>2
    <3> QED
      BY <3>2, <3>3
  <2> QED
    BY <2>5 DEF s, t
<1>6. \A j \in 1 .. n : new[j] \in Entries
  <2> SUFFICES ASSUME NEW j \in 1 .. n
               PROVE  new[j] \in Entries
    OBVIOUS
  <2>1. j = 1 \/ (j - 1 \in 1 .. 2 * NumEnds /\ (j - 1) + 1 = j)
    BY Bounds
  <2> QED
    BY <2>1, <1>3, <1>4, <1>5, EntryTypes
<1> HIDE DEF n, new
<1>7. /\ GrowsTable /\ nextFd' = nextFd + n
      /\ \A i \in Ids : i >= nextFd /\ i < nextFd' =>
           i - nextFd + 1 \in 1 .. n /\ table'[i] = new[i - nextFd + 1]
  BY <1>1, <1>2, <1>6, AddedTable
<1>8. table'[nextFd] = Process
  BY <1>2, <1>3, <1>5, <1>7
<1>9. StartsAt(nextFd + 1, nextFd)
  <2>1. \A i \in Ids : i > nextFd /\ i < nextFd' =>
          i - nextFd \in 1 .. 2 * NumEnds /\ table'[i] = EndsAt(nextFd + 1)[i - nextFd]
    <3> SUFFICES ASSUME NEW i \in Ids, i > nextFd, i < nextFd'
                 PROVE  i - nextFd \in 1 .. 2 * NumEnds /\ table'[i] = EndsAt(nextFd + 1)[i - nextFd]
      OBVIOUS
    <3>1. i - nextFd \in 1 .. 2 * NumEnds
      BY <1>2, <1>7, Bounds DEF n
    <3>2. table'[i] = new[i - nextFd + 1]
      BY <1>2, <1>7
    <3> QED
      BY <3>1, <3>2, <1>5
  <2>2. ASSUME NEW i \in Ids, i >= nextFd + 1, i < nextFd + 1 + NumEnds
        PROVE  table'[i] = Thing("pipe")
    <3>1. i > nextFd /\ i < nextFd' /\ i - nextFd <= NumEnds
      BY <2>2, <1>2, <1>7, Bounds DEF n
    <3> QED
      BY <2>1, <3>1, <1>2, EndsAtEntries
  <2>3. ASSUME NEW i \in Ids, i >= nextFd + 1 + NumEnds, i < nextFd'
        PROVE  table'[i] = Descriptor(i - NumEnds)
    <3>1. i > nextFd /\ i - nextFd > NumEnds /\ (nextFd + 1) + (i - nextFd) - NumEnds - 1 = i - NumEnds
      BY <2>3, <1>2, Bounds
    <3> QED
      BY <2>1, <2>3, <3>1, <1>2, EndsAtEntries
  <2>4. nextFd' = nextFd + 1 + 2 * NumEnds
    BY <1>2, <1>7, Bounds DEF n
  <2>5. nextFd + NumEnds + 1 .. nextFd + 2 * NumEnds = nextFd + 1 + NumEnds .. nextFd + 1 + 2 * NumEnds - 1
    BY <1>2, Bounds
  <2> QED
    BY <2>2, <2>3, <2>4, <2>5, <1>1 DEF StartsAt
<1>10. shared' \subseteq Ids /\ lost' \subseteq Ids /\ nextFd < nextFd'
  BY <1>1, <1>2, <1>7 DEF IInv, TypeOK
<1>11. NewHeld /\ NewHistory /\ Counted' /\ guest' = guest
  <2>1. Process.kind = "process" /\ "process" \in Resources /\ "process" \notin Workers
    BY DEF Process, Resources, Workers, Streams
  <2>2. nextFd >= nextFd
    BY <1>2
  <2>3. guest' = guest
    BY <1>1 DEF Return
  <2> QED
    BY <2>1, <2>2, <2>3, <1>1, <1>3, <1>7, <1>8, <1>10, OneHeld
<1>12. held'[nextFd] > 0
  <2>1. held[nextFd] = 0
    BY <1>2, <1>3 DEF IInv, Inv, Numbered
  <2> QED
    BY <2>1, <1>1, <1>3 DEF Return, IInv, TypeOK
<1>13. Abandoned(nextFd) = {}
  <2>1. ends[nextFd] = {}
    BY <1>2, <1>3 DEF IInv, Inv, Numbered
  <2> QED
    BY <2>1 DEF Abandoned
<1>14. nextFd + 1 \in Nat
  BY <1>2
<1> QED
  BY <1>1, <1>3, <1>7, <1>8, <1>9, <1>11, <1>12, <1>13, <1>14, Started

-----------------------------------------------------------------------------
(* Streams and errors that calls leave. *)

\* The kinds of the entries.
LEMMA KindFacts ==
  /\ "pipe" \in Things /\ "file" \in Things /\ "dir" \in Things /\ "free" \notin Workers
  /\ Things \cap Resources = {} /\ Things \cap Workers = {} /\ "free" \notin Resources \cup Things
  /\ Streams \subseteq Workers /\ "descriptor" \in Workers /\ Workers \subseteq Resources
  /\ "descriptor" \notin Streams
  /\ \A k \in {"pollable", "iterator", "error", "process"} : k \in Resources /\ k \notin Workers
  /\ \A k : /\ Thing(k).kind = k /\ ~Thing(k).closes
            /\ \A fd, c : /\ Stream(k, fd, c).kind = k /\ Stream(k, fd, c).fd = fd
                          /\ Stream(k, fd, c).closes = c
  /\ \A fd : /\ Descriptor(fd).kind = "descriptor" /\ Descriptor(fd).fd = fd
             /\ Descriptor(fd).closes = TRUE
             /\ Pollable(fd).kind = "pollable" /\ ~Pollable(fd).closes
  /\ Iterator.kind = "iterator" /\ ~Iterator.closes
  /\ IoError.kind = "error" /\ ~IoError.closes
  /\ Process.kind = "process" /\ ~Process.closes
  /\ Free.kind = "free" /\ ~Free.closes
BY DEF Things, Streams, Workers, Resources, Thing, Stream, Descriptor, Pollable, Iterator, IoError,
  Process, Free

\* What a descriptor works on has a number, and is no standard stream.
LEMMA WorksOn ==
  ASSUME IInv, NEW r \in Ids, table[r].kind \in Workers
  PROVE  /\ table[r].fd \in Ids /\ table[r].fd \in Nat /\ table[r].fd < nextFd
         /\ table[r].closes <=> table[r].fd # Std
         /\ table[r].kind = "descriptor" => table[r].fd # Std
<1>1. table[r].fd \in Ids
  BY DEF IInv, TypeOK, Entries
<1> QED
  BY <1>1, Bounds DEF IInv, Inv, WorkOn, Ids

\* Short sequences.
LEMMA ShortSequences ==
  ASSUME NEW S, NEW a \in S, NEW b \in S
  PROVE  /\ <<>> \in Seq(S) /\ Len(<<>>) = 0
         /\ <<a>> \in Seq(S) /\ Len(<<a>>) = 1 /\ <<a>>[1] = a
         /\ <<a, b>> \in Seq(S) /\ Len(<<a, b>>) = 2 /\ <<a, b>>[1] = a /\ <<a, b>>[2] = b
OBVIOUS

\* No entry, or one.
LEMMA AtMostOne ==
  ASSUME NEW S, NEW e \in S, NEW m, m = <<>> \/ m = <<e>>
  PROVE  m \in Seq(S) /\ Len(m) \in {0, 1} /\ \A j \in 1 .. Len(m) : m[j] = e
<1>1. CASE m = <<>>
  BY <1>1, ShortSequences
<1>2. CASE m = <<e>>
  BY <1>2, ShortSequences
<1> QED
  BY <1>1, <1>2

\* A sequence that is followed by errors alone.
LEMMA FollowedBy ==
  ASSUME NEW S, NEW s \in Seq(S), NEW m \in Seq(S), \A j \in 1 .. Len(m) : m[j] = IoError
  PROVE  /\ Len(s \o m) \in Nat /\ Len(s \o m) >= Len(s) /\ Len(s) \in Nat
         /\ \A j \in 1 .. Len(s \o m) : (s \o m)[j] = IF j <= Len(s) THEN s[j] ELSE IoError
<1>1. Len(m) \in Nat
  BY LenProperties
<1>2. /\ Len(s \o m) = Len(s) + Len(m)
      /\ \A j \in 1 .. Len(s) + Len(m) : (s \o m)[j] = IF j <= Len(s) THEN s[j] ELSE m[j - Len(s)]
  BY ConcatProperties
<1>3. Len(s) \in Nat
  BY LenProperties
<1>4. ASSUME NEW j \in 1 .. Len(s) + Len(m), ~(j <= Len(s))
      PROVE  m[j - Len(s)] = IoError
  <2>1. j - Len(s) \in 1 .. Len(m)
    BY <1>1, <1>3, <1>4
  <2> QED
    BY <2>1, <1>1
<1> QED
  BY <1>1, <1>2, <1>3, <1>4

\* A call that throws leaves n entries for good, a stream on fd among them.
Leaves(n, left, k, fd) ==
  /\ AddAll(n, left)
  /\ lost' = lost \cup (nextFd .. nextFd + n - 1)
  /\ UNCHANGED <<shared, ends, held, guest, given, twice>>
  /\ \A j \in 1 .. n :
       \/ left[j] \in {Thing("file"), IoError}
       \/ left[j] = Stream(k, fd, TRUE)
  /\ fd # Std
  /\ \/ IsOpen(fd)
     \/ fd = nextFd /\ left[1] = Thing("file")

\* Such a call keeps the invariant.
LEMMA LeftEntries ==
  ASSUME IInv, NEW n \in Nat, n > 0, NEW left, NEW k \in Streams, NEW fd \in Ids,
         Leaves(n, left, k, fd)
  PROVE  IInv'
<1> USE DEF Leaves
<1>1. nextFd \in Nat /\ nextFd > 1
  BY Bounds DEF IInv, TypeOK
<1>2. nextFd + n <= MaxIds + 1
  BY DEF AddAll
<1>3. nextFd .. nextFd + n - 1 \subseteq Ids
  BY <1>1, <1>2, Bounds DEF Ids
<1>4. lost \subseteq lost' /\ lost' \subseteq Ids
  BY <1>3 DEF IInv, TypeOK
<1>5. 1 \in 1 .. n /\ nextFd = nextFd + 1 - 1
  BY <1>1
<1>6. ASSUME NEW j \in 1 .. n
      PROVE  /\ left[j] \in Entries
             /\ left[j] = Free \/ nextFd + j - 1 \in lost'
             /\ left[j].closes => left[j].kind \in Workers
             /\ left[j].kind \in Workers =>
                  /\ left[j].closes <=> left[j].fd # Std
                  /\ left[j].kind = "descriptor" => left[j].closes
                  /\ \/ IsOpen(left[j].fd)
                     \/ \E i \in 1 .. n : left[j].fd = nextFd + i - 1 /\ left[i].kind \in Things \cup {"free"}
  <2>1. nextFd + j - 1 \in lost'
    <3>1. nextFd + j - 1 \in nextFd .. nextFd + n - 1
      BY <1>1
    <3> QED
      BY <3>1
  <2>2. CASE left[j] \in {Thing("file"), IoError}
    <3>1. Thing("file") \in Entries /\ IoError \in Entries
      BY EntryTypes, KindFacts
    <3>2. /\ Thing("file").kind \notin Workers /\ ~Thing("file").closes
          /\ IoError.kind \notin Workers /\ ~IoError.closes
      BY KindFacts
    <3> QED
      BY <2>1, <2>2, <3>1, <3>2
  <2>3. CASE left[j] = Stream(k, fd, TRUE)
    <3>1. left[j] \in Entries
      BY <2>3, EntryTypes
    <3>2. left[j].kind = k /\ left[j].fd = fd /\ left[j].closes = TRUE /\ k \in Workers
      BY <2>3, KindFacts DEF Stream
    <3>3. \/ IsOpen(fd)
          \/ \E i \in 1 .. n : fd = nextFd + i - 1 /\ left[i].kind \in Things \cup {"free"}
      BY <1>5, KindFacts
    <3> QED
      BY <2>1, <3>1, <3>2, <3>3
  <2> QED
    BY <2>2, <2>3
<1>7. guest' \in {"runs", "stranded"} /\ UNCHANGED <<ends, held, given, twice, shared>>
  BY DEF IInv, TypeOK
<1> QED
  BY <1>4, <1>6, <1>7, Unclaimed

\* A call throws and leaves its stream, what it opened for it, and an error.
LEMMA StreamLeftStep ==
  ASSUME IInv, NEW d \in Ids, table[d].kind = "descriptor", IsOpen(table[d].fd),
         NEW k \in Streams, NEW errors \in {<<>>, <<IoError>>}, StreamLeft(d, k, errors),
         ReturnNothing, UNCHANGED ends
  PROVE  IInv'
<1> DEFINE fd == table[d].fd
<1>1. UNCHANGED <<shared, ends, held, guest, given, twice>>
  BY DEF StreamLeft, ReturnNothing, guestVars
<1>2. fd \in Ids /\ fd # Std /\ nextFd \in Nat /\ nextFd > 1
  BY WorksOn, KindFacts, Bounds DEF IInv, TypeOK
<1>3. CASE table[fd].kind = "file"
  <2> DEFINE opened == <<Thing("file"), Stream(k, nextFd, TRUE)>>
             left   == opened \o errors
             n      == Len(left)
             S      == {Thing("file"), Stream(k, nextFd, TRUE), IoError}
  <2>1. AddAll(n, left) /\ lost' = lost \cup (nextFd .. nextFd + n - 1)
    BY <1>3 DEF StreamLeft
  <2>2. Thing("file") \in S /\ Stream(k, nextFd, TRUE) \in S /\ IoError \in S
    OBVIOUS
  <2>3. /\ opened \in Seq(S) /\ Len(opened) = 2
        /\ opened[1] = Thing("file") /\ opened[2] = Stream(k, nextFd, TRUE)
    BY <2>2, ShortSequences
  <2> HIDE DEF opened, S
  <2>4. /\ n \in Nat /\ n >= 2 /\ n > 0
        /\ \A j \in 1 .. n : left[j] = IF j <= 2 THEN opened[j] ELSE IoError
    <3>1. errors \in Seq(S) /\ \A j \in 1 .. Len(errors) : errors[j] = IoError
      BY <2>2, AtMostOne
    <3>2. opened \in Seq(S)
      BY <2>3
    <3>3. Len(opened \o errors) \in Nat /\ Len(opened \o errors) >= Len(opened)
      BY <3>1, <3>2, FollowedBy
    <3>4. \A j \in 1 .. Len(opened \o errors) :
               (opened \o errors)[j] = IF j <= Len(opened) THEN opened[j] ELSE IoError
      BY <3>1, <3>2, FollowedBy
    <3> QED
      BY <3>3, <3>4, <2>3
  <2> HIDE DEF left, n
  <2>5. ASSUME NEW j \in 1 .. n
        PROVE  \/ left[j] \in {Thing("file"), IoError}
               \/ left[j] = Stream(k, nextFd, TRUE)
    <3>1. j = 1 \/ j = 2 \/ ~(j <= 2)
      BY <2>4
    <3>2. left[j] = IF j <= 2 THEN opened[j] ELSE IoError
      BY <2>4
    <3> QED
      BY <3>1, <3>2, <2>3
  <2>7. left[1] = Thing("file")
    <3>1. 1 \in 1 .. n /\ 1 <= 2
      BY <2>4
    <3> QED
      BY <3>1, <2>3, <2>4
  <2>6. nextFd \in Ids /\ nextFd # Std
    <3>1. nextFd + n <= MaxIds + 1
      BY <2>1 DEF AddAll
    <3> QED
      BY <3>1, <2>4, <1>2, Bounds DEF Ids, Std
  <2>8. Leaves(n, left, k, nextFd)
    BY <2>1, <2>5, <2>6, <2>7, <1>1 DEF Leaves
  <2> QED
    BY <2>4, <2>6, <2>8, LeftEntries
<1>4. CASE table[fd].kind # "file"
  <2> DEFINE opened == <<Stream(k, fd, TRUE)>>
             left   == opened \o errors
             n      == Len(left)
             S      == {Stream(k, fd, TRUE), IoError}
  <2>1. AddAll(n, left) /\ lost' = lost \cup (nextFd .. nextFd + n - 1)
    BY <1>4 DEF StreamLeft
  <2>2. Stream(k, fd, TRUE) \in S /\ IoError \in S
    OBVIOUS
  <2>3. opened \in Seq(S) /\ Len(opened) = 1 /\ opened[1] = Stream(k, fd, TRUE)
    BY <2>2, ShortSequences
  <2> HIDE DEF opened, S
  <2>4. /\ n \in Nat /\ n >= 1 /\ n > 0
        /\ \A j \in 1 .. n : left[j] = IF j <= 1 THEN opened[j] ELSE IoError
    <3>1. errors \in Seq(S) /\ \A j \in 1 .. Len(errors) : errors[j] = IoError
      BY <2>2, AtMostOne
    <3>2. opened \in Seq(S)
      BY <2>3
    <3>3. Len(opened \o errors) \in Nat /\ Len(opened \o errors) >= Len(opened)
      BY <3>1, <3>2, FollowedBy
    <3>4. \A j \in 1 .. Len(opened \o errors) :
               (opened \o errors)[j] = IF j <= Len(opened) THEN opened[j] ELSE IoError
      BY <3>1, <3>2, FollowedBy
    <3> QED
      BY <3>3, <3>4, <2>3
  <2> HIDE DEF left, n
  <2>5. \A j \in 1 .. n : left[j] \in {Thing("file"), IoError} \/ left[j] = Stream(k, fd, TRUE)
    <3>1. \A j \in 1 .. n : j = 1 \/ ~(j <= 1)
      BY <2>4
    <3> QED
      BY <3>1, <2>3, <2>4
  <2>6. Leaves(n, left, k, fd)
    BY <2>1, <2>5, <1>1, <1>2 DEF Leaves
  <2> QED
    BY <2>4, <2>6, <1>2, LeftEntries
<1> QED
  BY <1>3, <1>4

-----------------------------------------------------------------------------
(* The calls, one by one. *)

\* getDirectories.
LEMMA GetDirectoriesStep ==
  ASSUME IInv, GetDirectories
  PROVE  IInv'
<1>1. /\ guest = "runs" /\ IsOpen(Root) /\ AddAll(1, <<Descriptor(Root)>>) /\ Return(nextFd)
      /\ shared' = (IF Closers(Root) = {} THEN shared ELSE shared \cup {Root})
      /\ UNCHANGED <<ends, lost>>
  BY DEF GetDirectories
<1>2. Root \in Ids /\ Root # Std
  BY Bounds DEF Root, Std, Ids
<1>3. shared' \in SUBSET Ids /\ shared \subseteq shared' /\ (Closers(Root) = {} \/ Root \in shared')
  BY <1>1, <1>2 DEF IInv, TypeOK
<1>4. Descriptor(Root) \in Entries
  BY <1>2, EntryTypes
<1> QED
  BY <1>1, <1>2, <1>3, <1>4, KindFacts, OneNew

\* openAt.
LEMMA OpenAtStep ==
  ASSUME IInv, NEW d \in Ids, NEW k \in {"file", "dir"}, OpenAt(d, k)
  PROVE  IInv'
<1>1. /\ guest = "runs" /\ AddAll(2, <<Thing(k), Descriptor(nextFd)>>) /\ Return(nextFd + 1)
      /\ UNCHANGED <<ends, shared, lost>>
  BY DEF OpenAt, Calls
<1>2. nextFd \in Ids
  BY <1>1, AddTwo DEF IInv
<1>3. Descriptor(nextFd) \in Entries /\ k \in Things
  BY <1>2, EntryTypes, KindFacts
<1> QED
  BY <1>1, <1>3, KindFacts, TwoNew

\* createDirectoryAt.
LEMMA CreateDirectoryAtStep ==
  ASSUME IInv, NEW d \in Ids, CreateDirectoryAt(d)
  PROVE  IInv'
<1> DEFINE new == <<Thing("dir")>>
<1>1. /\ AddAll(1, new) /\ lost' = lost \cup {nextFd}
      /\ UNCHANGED <<ends, held, guest, given, twice, shared>>
  BY DEF CreateDirectoryAt, ReturnNothing, guestVars
<1>2. nextFd \in Ids /\ nextFd \in Nat
  BY <1>1, AddOne, Bounds DEF IInv, TypeOK
<1>3. ASSUME NEW j \in 1 .. 1
      PROVE  /\ new[j] \in Entries
             /\ new[j] = Free \/ nextFd + j - 1 \in lost'
             /\ ~new[j].closes /\ new[j].kind \notin Workers
  <2>1. j = 1 /\ nextFd + j - 1 = nextFd
    BY <1>2
  <2>2. new[j] = Thing("dir")
    BY <2>1
  <2>3. Thing("dir") \in Entries
    BY <1>2, EntryTypes, KindFacts
  <2> QED
    BY <2>1, <2>2, <2>3, <1>1, KindFacts
<1>4. guest' \in {"runs", "stranded"} /\ lost' \subseteq Ids
  BY <1>1, <1>2 DEF IInv, TypeOK
<1> HIDE DEF new
<1> QED
  BY <1>1, <1>3, <1>4, Unclaimed

\* readDirectory.
LEMMA ReadDirectoryStep ==
  ASSUME IInv, NEW d \in Ids, ReadDirectory(d)
  PROVE  IInv'
<1>1. /\ guest = "runs" /\ AddAll(1, <<Iterator>>) /\ Return(nextFd) /\ UNCHANGED <<ends, shared, lost>>
  BY DEF ReadDirectory, Calls
<1>2. Iterator \in Entries /\ shared' \in SUBSET Ids
  BY <1>1, EntryTypes, Bounds DEF IInv, TypeOK, Ids
<1> QED
  BY <1>1, <1>2, KindFacts, OneNew

\* readViaStream, writeViaStream and appendViaStream.
LEMMA ViaStreamStep ==
  ASSUME IInv, NEW d \in Ids, NEW k \in Streams, ViaStream(d, k)
  PROVE  IInv'
<1>1. guest = "runs" /\ table[d].kind = "descriptor" /\ UNCHANGED <<ends, lost>>
  BY DEF ViaStream, Calls
<1>2. table[d].fd \in Ids /\ table[d].fd # Std
  BY <1>1, WorksOn, KindFacts
<1>3. k \in Workers /\ k \in Resources /\ k # "descriptor"
  BY KindFacts
<1>4. CASE table[table[d].fd].kind = "file"
  <2>1. /\ AddAll(2, <<Thing("file"), Stream(k, nextFd, TRUE)>>) /\ Return(nextFd + 1)
        /\ UNCHANGED shared
    BY <1>4 DEF ViaStream
  <2>2. nextFd \in Ids
    BY <2>1, AddTwo DEF IInv
  <2>3. Stream(k, nextFd, TRUE) \in Entries
    BY <2>2, EntryTypes
  <2>4. /\ Stream(k, nextFd, TRUE).kind = k /\ Stream(k, nextFd, TRUE).fd = nextFd
        /\ Stream(k, nextFd, TRUE).closes
    BY DEF Stream
  <2>5. "file" \in Things /\ Stream(k, nextFd, TRUE).kind \in Workers
    BY <2>4, <1>3 DEF Things
  <2>6. guest = "runs" /\ UNCHANGED <<ends, shared, lost>>
    BY <2>1, <1>1
  <2> QED
    BY <2>1, <2>3, <2>4, <2>5, <2>6, TwoNew
<1>5. CASE table[table[d].fd].kind # "file"
  <2> DEFINE fd == table[d].fd
             e  == Stream(k, fd, TRUE)
  <2>1. /\ IsOpen(fd) /\ AddAll(1, <<e>>) /\ Return(nextFd) /\ shared' = shared \cup {fd}
    BY <1>5 DEF ViaStream
  <2>2. e \in Entries /\ e.kind = k /\ e.fd = fd /\ e.closes
    BY <1>2, EntryTypes DEF Stream
  <2>3. shared' \in SUBSET Ids /\ shared \subseteq shared' /\ fd \in shared'
    BY <2>1, <1>2 DEF IInv, TypeOK
  <2> HIDE DEF e
  <2> QED
    BY <2>1, <2>2, <2>3, <1>1, <1>2, <1>3, OneNew
<1> QED
  BY <1>4, <1>5

\* getStdin, getStdout and getStderr.
LEMMA GetStdStep ==
  ASSUME IInv, NEW k \in Streams, GetStd(k)
  PROVE  IInv'
<1> DEFINE e == Stream(k, Std, FALSE)
<1>1. /\ guest = "runs" /\ AddAll(1, <<e>>) /\ Return(nextFd) /\ UNCHANGED <<ends, shared, lost>>
  BY DEF GetStd
<1>2. Std \in Ids
  BY Bounds DEF Std, Ids
<1>3. e \in Entries /\ e.kind = k /\ e.fd = Std /\ e.closes = FALSE
  BY <1>2, EntryTypes DEF Stream
<1>4. IsOpen(Std) /\ shared' \in SUBSET Ids
  BY <1>1 DEF IInv, Inv, StdOpen, TypeOK
<1>5. k \in Workers /\ k \in Resources /\ k # "descriptor"
  BY KindFacts
<1> HIDE DEF e
<1> QED
  BY <1>1, <1>3, <1>4, <1>5, OneNew

\* Numbers of a stream and its file that are gone when the call ends.
LEMMA PassingStep ==
  ASSUME IInv, PassingStream, ReturnNothing, UNCHANGED ends
  PROVE  IInv'
<1> DEFINE new == <<Free, Free>>
<1>1. /\ AddAll(2, new)
      /\ UNCHANGED <<ends, held, guest, given, twice, shared, lost>>
  BY DEF PassingStream, ReturnNothing, guestVars
<1>2. Free \in Entries
  BY EntryTypes, Bounds DEF Ids
<1>3. ASSUME NEW j \in 1 .. 2
      PROVE  /\ new[j] \in Entries /\ new[j] = Free
             /\ ~new[j].closes /\ new[j].kind \notin Workers
  <2>1. new[j] = Free
    OBVIOUS
  <2> QED
    BY <2>1, <1>2, KindFacts
<1>4. guest' \in {"runs", "stranded"} /\ lost' \subseteq Ids
  BY <1>1 DEF IInv, TypeOK
<1> HIDE DEF new
<1> QED
  BY <1>1, <1>3, <1>4, Unclaimed

\* A stream whose file cannot be closed.
LEMMA PassingUnstoredStep ==
  ASSUME IInv, PassingStreamUnstored, ReturnNothing, UNCHANGED ends
  PROVE  IInv'
<1> DEFINE s   == Stream("out", nextFd, TRUE)
           new == <<Free, s>>
<1>1. /\ AddAll(2, new) /\ lost' = lost \cup {nextFd + 1}
      /\ UNCHANGED <<ends, held, guest, given, twice, shared>>
  BY DEF PassingStreamUnstored, ReturnNothing, guestVars
<1>2. nextFd \in Ids /\ nextFd + 1 \in Ids /\ nextFd \in Nat /\ nextFd > 1
  BY <1>1, AddTwo, Bounds DEF IInv, TypeOK
<1>3. /\ Free \in Entries /\ s \in Entries /\ s.kind = "out" /\ s.fd = nextFd /\ s.closes
      /\ "out" \in Workers
  BY <1>2, EntryTypes DEF Stream, Streams, Workers
<1>4. nextFd # Std
  BY <1>2 DEF Std
<1> HIDE DEF s
<1>5. new[1] = Free /\ new[2] = s
  OBVIOUS
<1> HIDE DEF new
<1>6. \E i \in 1 .. 2 : s.fd = nextFd + i - 1 /\ new[i].kind \in Things \cup {"free"}
  <2>1. 1 \in 1 .. 2 /\ s.fd = nextFd + 1 - 1 /\ new[1].kind \in Things \cup {"free"}
    BY <1>2, <1>3, <1>5, KindFacts
  <2> QED
    BY <2>1
<1>7. ASSUME NEW j \in 1 .. 2
      PROVE  /\ new[j] \in Entries
             /\ new[j] = Free \/ nextFd + j - 1 \in lost'
             /\ new[j].closes => new[j].kind \in Workers
             /\ new[j].kind \in Workers =>
                  /\ new[j].closes <=> new[j].fd # Std
                  /\ new[j].kind = "descriptor" => new[j].closes
                  /\ \/ IsOpen(new[j].fd)
                     \/ \E i \in 1 .. 2 : new[j].fd = nextFd + i - 1 /\ new[i].kind \in Things \cup {"free"}
  <2>1. CASE j = 1
    <3>1. new[j] = Free
      BY <2>1, <1>5
    <3> QED
      BY <3>1, <1>3, KindFacts
  <2>2. CASE j = 2
    <3>1. new[j] = s /\ nextFd + j - 1 \in lost'
      BY <2>2, <1>1, <1>2, <1>5
    <3> QED
      BY <3>1, <1>3, <1>4, <1>6
  <2> QED
    BY <2>1, <2>2
<1>8. guest' \in {"runs", "stranded"} /\ lost' \subseteq Ids
  BY <1>1, <1>2 DEF IInv, TypeOK
<1> QED
  BY <1>1, <1>7, <1>8, Unclaimed

\* FileSystemFileDescriptor.read and write.
LEMMA DescriptorReadWriteStep ==
  ASSUME IInv, NEW d \in Ids, DescriptorRead(d) \/ DescriptorWrite(d)
  PROVE  IInv'
<1> DEFINE fd == table[d].fd
<1>1. /\ table[d].kind = "descriptor" /\ IsOpen(fd) /\ ReturnNothing /\ UNCHANGED ends
      /\ \/ PassingStream \/ PassingStreamUnstored \/ PassingStreamCloses(fd)
         \/ \E k \in Streams, errors \in {<<>>, <<IoError>>} : StreamLeft(d, k, errors)
  BY DEF DescriptorRead, DescriptorWrite, Calls, Streams
<1>2. fd \in Ids /\ fd # Std
  BY <1>1, WorksOn, KindFacts
<1>3. CASE PassingStream
  BY <1>1, <1>3, PassingStep
<1>4. CASE PassingStreamUnstored
  BY <1>1, <1>4, PassingUnstoredStep
<1>5. CASE PassingStreamCloses(fd)
  BY <1>1, <1>2, <1>5, PassingStreamStep
<1>6. CASE \E k \in Streams, errors \in {<<>>, <<IoError>>} : StreamLeft(d, k, errors)
  BY <1>1, <1>6, StreamLeftStep
<1> QED
  BY <1>1, <1>3, <1>4, <1>5, <1>6

\* Pollables.
LEMMA SubscribeStep ==
  ASSUME IInv, SubscribeClock \/ \E s \in Ids : Subscribe(s)
  PROVE  IInv'
<1>1. PICK fd \in Ids :
        /\ guest = "runs" /\ AddAll(1, <<Pollable(fd)>>) /\ Return(nextFd)
        /\ UNCHANGED <<ends, shared, lost>>
  <2>1. 0 \in Ids /\ \A s \in Ids : table[s].fd \in Ids
    BY Bounds DEF IInv, TypeOK, Entries, Ids
  <2> QED
    BY <2>1 DEF SubscribeClock, Subscribe, Calls
<1>2. Pollable(fd) \in Entries /\ shared' \in SUBSET Ids
  BY <1>1, EntryTypes DEF IInv, TypeOK
<1> QED
  BY <1>1, <1>2, KindFacts, OneNew

\* ProcessResource's create.
LEMMA CreateStep ==
  ASSUME IInv, Create
  PROVE  IInv'
<1>1. guest = "runs" /\ AddAll(1, <<Process>>) /\ Return(nextFd) /\ UNCHANGED <<ends, shared, lost>>
  BY DEF Create
<1>2. Process \in Entries /\ shared' \in SUBSET Ids
  BY <1>1, EntryTypes, Bounds DEF IInv, TypeOK, Ids
<1> QED
  BY <1>1, <1>2, KindFacts, OneNew

\* A stream's read or write fails.
LEMMA StreamFailsStep ==
  ASSUME IInv, NEW s \in Ids, StreamFails(s)
  PROVE  IInv'
<1>1. guest = "runs" /\ AddAll(1, <<IoError>>) /\ UNCHANGED <<ends, shared>>
  BY DEF StreamFails, Calls
<1>2. nextFd \in Ids /\ nextFd \in Nat
  BY <1>1, AddOne, Bounds DEF IInv, TypeOK
<1>3. IoError \in Entries /\ shared' \in SUBSET Ids
  BY <1>1, <1>2, EntryTypes DEF IInv, TypeOK
<1>4. CASE Return(nextFd) /\ UNCHANGED lost
  BY <1>1, <1>3, <1>4, KindFacts, OneNew
<1>5. CASE ~(Return(nextFd) /\ UNCHANGED lost)
  <2> DEFINE new == <<IoError>>
  <2>1. /\ lost' = lost \cup {nextFd} /\ UNCHANGED <<held, given, twice>>
        /\ guest' = guest \/ guest' = "stranded"
    BY <1>5 DEF StreamFails, ReturnNothing, guestVars
  <2>2. ASSUME NEW j \in 1 .. 1
        PROVE  /\ new[j] \in Entries
               /\ new[j] = Free \/ nextFd + j - 1 \in lost'
               /\ ~new[j].closes /\ new[j].kind \notin Workers
    <3>1. j = 1 /\ nextFd + j - 1 = nextFd
      BY <1>2
    <3>2. new[j] = IoError
      BY <3>1
    <3> QED
      BY <3>1, <3>2, <2>1, <1>3, KindFacts
  <2>3. guest' \in {"runs", "stranded"} /\ lost \subseteq lost' /\ lost' \subseteq Ids
    BY <2>1, <1>1, <1>2 DEF IInv, TypeOK
  <2> HIDE DEF new
  <2>4. AddAll(1, new)
    BY <1>1 DEF new
  <2> QED
    BY <1>1, <2>1, <2>2, <2>3, <2>4, Unclaimed
<1> QED
  BY <1>4, <1>5

\* The other ends of a handle.
LEMMA OtherDropsStep ==
  ASSUME IInv, NEW r \in Ids,
         DropError(r) \/ DropCloser(r) \/ DropCloserFails(r) \/ DropCloserTooLate(r)
  PROVE  IInv'
<1>1. CASE DropError(r)
  <2>1. ~table[r].closes
    BY <1>1, KindFacts DEF DropError, IInv, Inv, WorkOn
  <2> QED
    BY <1>1, <2>1, LeftStep DEF DropError
<1>2. CASE DropCloserTooLate(r)
  BY <1>2, LeftStep DEF DropCloserTooLate
<1>3. CASE DropCloser(r)
  BY <1>3, CloserStep DEF DropCloser
<1>4. CASE DropCloserFails(r)
  BY <1>4, CloserStep, KindFacts DEF DropCloserFails, IsOpen
<1> QED
  BY <1>1, <1>2, <1>3, <1>4

-----------------------------------------------------------------------------
(* The invariant holds. *)

\* It holds at first.
LEMMA InitInv ==
  ASSUME Init
  PROVE  IInv
<1>1. Std \in Ids /\ Root \in Ids /\ Std = 0 /\ Root = 1 /\ \A i \in Ids : i \in Nat
  BY Bounds DEF Std, Root, Ids
<1>2. table[Std] = Thing("pipe") /\ table[Root] = Thing("dir") /\ nextFd = 2
  BY <1>1 DEF Init
<1>3. \A i \in Ids : i # Std /\ i # Root => table[i] = Free
  BY DEF Init
<1>4. \A i \in Ids : table[i].kind \notin Workers /\ ~table[i].closes
  BY <1>2, <1>3, KindFacts
<1>5. TypeOK
  <2>1. Thing("pipe") \in Entries /\ Thing("dir") \in Entries /\ Free \in Entries
    BY <1>1, EntryTypes, KindFacts
  <2>2. table \in [Ids -> Entries]
    BY <2>1 DEF Init
  <2>3. nextFd \in 2 .. MaxIds + 1 /\ 0 \in 0 .. MaxHeld
    BY <1>2, Bounds
  <2> QED
    BY <2>2, <2>3 DEF Init, TypeOK
<1>6. Claimed = {}
  BY <1>1 DEF Init, Claimed
<1>7. \A i \in Ids : held[i] = 0 /\ ends[i] = {}
  BY DEF Init
<1>8. Numbered
  <2>1. \A i \in Ids : i >= nextFd => i # Std /\ i # Root
    BY <1>1, <1>2
  <2> QED
    BY <2>1, <1>3, <1>7 DEF Numbered, Init
<1>9. Counted /\ EndsWork /\ HandlesWork
  BY <1>7 DEF Counted, EndsWork, HandlesWork, Init
<1>10. WorkOn /\ OneCloser
  BY <1>4, <1>6 DEF WorkOn, OneCloser
<1>11. StdOpen /\ NothingElseLeaks
  BY <1>2, <1>3, KindFacts DEF StdOpen, IsOpen, NothingElseLeaks
<1> QED
  BY <1>5, <1>8, <1>9, <1>10, <1>11 DEF IInv, Inv

\* Every call keeps it.
LEMMA NextInv ==
  ASSUME IInv, [Next]_vars
  PROVE  IInv'
<1>1. CASE GetDirectories
  BY <1>1, GetDirectoriesStep
<1>2. CASE SubscribeClock \/ \E s \in Ids : Subscribe(s)
  BY <1>2, SubscribeStep
<1>3. CASE Create
  BY <1>3, CreateStep
<1>4. CASE Exec
  BY <1>4, ExecStep
<1>5. CASE \E k \in Streams : GetStd(k)
  BY <1>5, GetStdStep
<1>6. ASSUME NEW r \in Ids,
             \/ \E k \in {"file", "dir"} : OpenAt(r, k)
             \/ CreateDirectoryAt(r) \/ ReadDirectory(r)
             \/ \E k \in Streams : ViaStream(r, k)
      PROVE  IInv'
  BY <1>6, OpenAtStep, CreateDirectoryAtStep, ReadDirectoryStep, ViaStreamStep
<1>7. ASSUME NEW r \in Ids,
             \/ DescriptorRead(r) \/ DescriptorWrite(r) \/ StreamFails(r) \/ Start(r)
             \/ \E e \in Ids : GetEnd(r, e)
      PROVE  IInv'
  BY <1>7, DescriptorReadWriteStep, StreamFailsStep, StartStep, GetEndStep
<1>8. ASSUME NEW r \in Ids,
             \/ DropPlain(r) \/ DropProcess(r) \/ DropError(r)
             \/ DropCloser(r) \/ DropCloserFails(r) \/ DropCloserTooLate(r)
      PROVE  IInv'
  BY <1>8, DropPlainStep, DropProcessStep, OtherDropsStep
<1>9. ASSUME NEW r \in Ids, UseStale(r)
      PROVE  IInv'
  <2>1. guest' \in {"runs", "stranded"} /\ UNCHANGED <<table, nextFd, ends, held, given, twice, shared, lost>>
    BY <1>9 DEF UseStale, tableVars, histVars
  <2> QED
    BY <2>1 DEF IInv, TypeOK, Inv, Numbered, Counted, WorkOn, EndsWork, OneCloser, StdOpen,
      HandlesWork, NothingElseLeaks, IsOpen, Claimed, Closers
<1>10. CASE UNCHANGED vars
  BY <1>10 DEF vars, tableVars, guestVars, histVars, IInv, TypeOK, Inv, Numbered, Counted, WorkOn,
    EndsWork, OneCloser, StdOpen, HandlesWork, NothingElseLeaks, IsOpen, Claimed, Closers
<1> QED
  BY <1>1, <1>2, <1>3, <1>4, <1>5, <1>6, <1>7, <1>8, <1>9, <1>10 DEF Next

\* The inductive invariant.
LEMMA Invariance == Spec => []IInv
<1>1. Init => IInv
  BY InitInv
<1>2. IInv /\ [Next]_vars => IInv'
  BY NextInv
<1> QED
  BY <1>1, <1>2, PTL DEF Spec

(* The table, the handles and the histories have the types the code gives     *)
(* them: no call hands out or stores a number that was not given out.         *)
THEOREM TypeCorrect == Spec => []TypeOK
<1>1. IInv => TypeOK
  BY DEF IInv
<1> QED
  BY <1>1, Invariance, PTL

(* A handle the guest was given once is good until it is dropped: openAt, the  *)
(* streams, the processes and every disposal leave its resource in the table   *)
(* and what it works on open, unless two resources close that.                *)
THEOREM HandlesAreGood == Spec => []HandlesWork
<1>1. IInv => HandlesWork
  BY DEF IInv
<1> QED
  BY <1>1, Invariance, PTL

(* Nothing stays in the table that is neither the program's, nor the guest's   *)
(* to dispose of, nor closed by what it can dispose of, but for what calls     *)
(* leave there for good.                                                     *)
THEOREM NothingElseIsLeaked == Spec => []NothingElseLeaks
<1>1. IInv => NothingElseLeaks
  BY DEF IInv
<1> QED
  BY <1>1, Invariance, PTL

-----------------------------------------------------------------------------
(* Numbers are not reused.                                                   *)

\* Behind a number that was given out there is what was put there, or nothing.
Meaning == nextFd <= nextFd' /\ \A i \in Ids : i < nextFd => table'[i] \in {table[i], Free}

\* New entries get new numbers.
LEMMA AddKeepsMeaning ==
  ASSUME TypeOK, NEW n \in Nat, NEW new, AddAll(n, new)
  PROVE  Meaning
<1>1. nextFd \in Nat /\ nextFd' = nextFd + n
  BY Bounds DEF TypeOK, AddAll
<1>2. ASSUME NEW i \in Ids, i < nextFd
      PROVE  table'[i] = table[i]
  <2>1. i \notin nextFd .. nextFd + n - 1
    BY <1>1, <1>2, Bounds DEF Ids
  <2> QED
    BY <2>1 DEF AddAll
<1> QED
  BY <1>1, <1>2 DEF Meaning

\* Entries that are freed have old ones.
LEMMA FreeKeepsMeaning ==
  ASSUME TypeOK, NEW r \in Ids, NEW fd \in Ids, nextFd' \in {nextFd, nextFd + 1},
         \/ table' = table \/ table' = [table EXCEPT ![r] = Free]
         \/ table' = [table EXCEPT ![fd] = Free] \/ table' = [table EXCEPT ![fd] = Free, ![r] = Free]
  PROVE  Meaning
BY Bounds DEF TypeOK, Meaning

\* Every call either adds entries or frees some.
LEMMA MeaningStep == IInv /\ [Next]_vars => Meaning
<1> SUFFICES ASSUME IInv, [Next]_vars PROVE Meaning
  OBVIOUS
<1>1. TypeOK /\ NumEnds \in Nat
  BY Bounds DEF IInv
<1>2. \A r \in Ids : table[r].fd \in Ids
  BY <1>1 DEF TypeOK, Entries
<1>3. 2 * NumEnds \in Nat /\ 2 * NumEnds + 1 \in Nat
  BY <1>1
<1>4. CASE GetDirectories \/ SubscribeClock \/ Create \/ Exec \/ \E k \in Streams : GetStd(k)
  BY <1>1, <1>3, <1>4, AddKeepsMeaning DEF GetDirectories, SubscribeClock, Create, Exec, GetStd
<1>5. ASSUME NEW r \in Ids,
             \/ \E k \in {"file", "dir"} : OpenAt(r, k)
             \/ CreateDirectoryAt(r) \/ ReadDirectory(r)
             \/ \E k \in Streams : ViaStream(r, k)
             \/ Subscribe(r) \/ StreamFails(r) \/ Start(r)
      PROVE  Meaning
  BY <1>1, <1>3, <1>5, AddKeepsMeaning
  DEF OpenAt, CreateDirectoryAt, ReadDirectory, ViaStream, Subscribe, StreamFails, Start
<1>6. ASSUME NEW r \in Ids, NEW k \in Streams, NEW errors \in {<<>>, <<IoError>>},
             StreamLeft(r, k, errors)
      PROVE  Meaning
  <2> DEFINE opened == IF table[table[r].fd].kind = "file"
                       THEN <<Thing("file"), Stream(k, nextFd, TRUE)>>
                       ELSE <<Stream(k, table[r].fd, TRUE)>>
             S == {Thing("file"), Stream(k, nextFd, TRUE), Stream(k, table[r].fd, TRUE), IoError}
  <2>1. opened \in Seq(S) /\ errors \in Seq(S)
    BY ShortSequences
  <2>2. Len(opened \o errors) \in Nat
    BY <2>1, ConcatProperties, LenProperties
  <2>3. AddAll(Len(opened \o errors), opened \o errors)
    BY <1>6 DEF StreamLeft
  <2> QED
    BY <1>1, <2>2, <2>3, AddKeepsMeaning
<1>7. ASSUME NEW r \in Ids, DescriptorRead(r) \/ DescriptorWrite(r)
      PROVE  Meaning
  <2>1. CASE PassingStream \/ PassingStreamUnstored
    BY <1>1, <2>1, AddKeepsMeaning DEF PassingStream, PassingStreamUnstored
  <2>2. CASE PassingStreamCloses(table[r].fd)
    BY <1>1, <1>2, <2>2, FreeKeepsMeaning DEF PassingStreamCloses
  <2>3. ASSUME NEW k \in Streams, NEW errors \in {<<>>, <<IoError>>}, StreamLeft(r, k, errors)
        PROVE  Meaning
    BY <1>6, <2>3
  <2>4. "in" \in Streams /\ "out" \in Streams
    BY DEF Streams
  <2> QED
    BY <1>7, <2>1, <2>2, <2>3, <2>4 DEF DescriptorRead, DescriptorWrite
<1>8. ASSUME NEW r \in Ids,
             \/ DropPlain(r) \/ DropProcess(r) \/ DropError(r)
             \/ DropCloser(r) \/ DropCloserFails(r) \/ DropCloserTooLate(r)
      PROVE  Meaning
  <2>1. nextFd' = nextFd
    BY <1>8 DEF DropPlain, DropProcess, DropError, DropCloser, DropCloserFails, DropCloserTooLate,
       Dropped
  <2>2. \/ table' = table \/ table' = [table EXCEPT ![r] = Free]
        \/ table' = [table EXCEPT ![table[r].fd] = Free]
        \/ table' = [table EXCEPT ![table[r].fd] = Free, ![r] = Free]
    BY <1>8 DEF DropPlain, DropProcess, DropError, DropCloser, DropCloserFails, DropCloserTooLate
  <2> QED
    BY <1>1, <1>2, <2>1, <2>2, FreeKeepsMeaning
<1>9. ASSUME NEW r \in Ids, NEW e \in Ids, GetEnd(r, e) \/ UseStale(r)
      PROVE  Meaning
  BY <1>1, <1>9, FreeKeepsMeaning DEF GetEnd, UseStale, tableVars
<1>10. CASE UNCHANGED vars
  <2>1. Std \in Ids
    BY Bounds DEF Std, Ids
  <2> QED
    BY <1>1, <1>10, <2>1, FreeKeepsMeaning DEF vars, tableVars
<1>11. ASSUME NEW r \in Ids, UseStale(r)
       PROVE  Meaning
  BY <1>9, <1>11
<1> QED
  BY <1>4, <1>5, <1>7, <1>8, <1>9, <1>10, <1>11 DEF Next

(* A number is never used again: a handle that the guest goes on using after   *)
(* its resource is gone (UseStale) never reaches another, and a stream never   *)
(* works on a file that took the number of its own.                          *)
THEOREM NumbersAreNotReused == Spec => [][Meaning]_vars
BY Invariance, MeaningStep, PTL DEF Spec

-----------------------------------------------------------------------------
(* Calls that are never answered.                                            *)

\* A lookup that finds nothing is of a resource that the guest was given twice.
StaleOnlyIfTwice == \A r \in Ids : UseStale(r) => r \in twice

(* A guest that keeps to the rule of the component model, to use a handle only *)
(* until it drops it, is left without an answer (UseStale) for one reason only: *)
(* the getters of a process gave it the same resource twice, and it dropped one. *)
THEOREM OnlySharedHandlesGoStale == Spec => [][StaleOnlyIfTwice]_vars
<1>1. IInv => StaleOnlyIfTwice
  <2> SUFFICES ASSUME IInv, NEW r \in Ids, UseStale(r), r \notin twice
               PROVE  FALSE
    BY DEF StaleOnlyIfTwice
  <2>1. table[r].kind \in Resources
    BY DEF IInv, HandlesWork, UseStale
  <2> QED
    BY <2>1 DEF UseStale, Resources, Workers, Streams
<1> QED
  BY <1>1, Invariance, PTL
=============================================================================
