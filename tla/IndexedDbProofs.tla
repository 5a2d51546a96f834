--------------------------- MODULE IndexedDbProofs --------------------------
(***************************************************************************)
(* Theorems about IndexedDb: the types, the tree that the records form, the  *)
(* caches of the handles, and the refinement of FileTree.                    *)
(***************************************************************************)
EXTENDS IndexedDb, TLAPS

(* The strengthening. *)

\* Only folders hold entries, and mounts that were taken for folders.
LeavesAreEmpty ==
  \A k \in Keys :
    kind[k] \in {"absent", "file"} \/ (kind[k] = "mount" /\ ~mistaken) => entries[k] = Empty

\* An entry is younger than the folder it is in.
Upwards ==
  \A f \in Keys, n \in Names : entries[f][n] # NoEntry => entries[f][n].id > f

\* There are records only once the root has been added, and handles only in an
\* open session.
Phases ==
  /\ phase # "ready" => nextKey = Root
  /\ phase = "ready" => kind[Root] = "folder"
  /\ session = "opening" => phase = "bare"
  /\ session # "open" => handles = 0 /\ lookups = {}

\* A handle is of a folder, or of one that is gone.
HandleKinds ==
  /\ \A h \in 1 .. handles :
       /\ of[h] < nextKey \/ nextKey = Root
       /\ h \notin foreign =>
            kind[of[h]] \in {"absent", "folder"} \/ (kind[of[h]] = "mount" /\ mistaken)
  /\ \A l \in lookups : l.key < nextKey /\ kind[l.key] \in {"absent", "mount"}

\* What is in a cache, or on its way there, is a handle for the entry.
CachesInv ==
  /\ \A h \in Handles, n \in Names : cache[h][n] <= handles
  /\ CacheCoherent
  /\ \A l \in lookups :
       kind[of[l.by]] # "absent" =>
         entries[of[l.by]][l.name].id = l.key \/ <<of[l.by], l.name>> \in disturbed

TreeInv == LeavesAreEmpty /\ Upwards /\ TreeIsSound

IInv == TypeOK /\ Phases /\ HandleKinds /\ TreeInv /\ CachesInv

-----------------------------------------------------------------------------
(* The records below a folder. *)

LEMMA EntryFacts ==
  ASSUME TypeOK, NEW f \in Keys, NEW n \in Names
  PROVE  /\ entries[f][n] \in Entries
         /\ entries[f][n] # NoEntry =>
              /\ entries[f][n].id \in Keys
              /\ entries[f][n].is \in {"folder", "file", "mount"}
         /\ entries[f][n].is # "none" => entries[f][n] # NoEntry
         /\ entries[f][n] = NoEntry => entries[f][n].id = 0
  BY DEF TypeOK, Entries, NoEntry

\* The records below a folder include it and all that is below them.
LEMMA SubtreeClosed ==
  ASSUME TypeOK, NEW k \in Keys
  PROVE  k \in Subtree(k) /\ Closed(Subtree(k)) /\ Subtree(k) \in SUBSET Keys
<1>1. k \in Subtree(k) /\ Subtree(k) \in SUBSET Keys
  BY DEF Subtree
<1>2. ASSUME NEW f \in Subtree(k), NEW n \in Names,
             kind[f] = "folder", entries[f][n].is \in {"folder", "file"}
      PROVE  entries[f][n].id \in Subtree(k)
  <2>1. f \in Keys
    BY DEF Subtree
  <2>2. entries[f][n].id \in Keys
    BY <1>2, <2>1, EntryFacts
  <2>3. ASSUME NEW S \in SUBSET Keys, k \in S, Closed(S)
        PROVE  entries[f][n].id \in S
    <3>1. f \in S
      BY <2>3 DEF Subtree
    <3> QED BY <1>2, <2>3, <3>1 DEF Closed
  <2> QED BY <2>2, <2>3 DEF Subtree
<1>3. Closed(Subtree(k))
  BY <1>2 DEF Closed
<1> QED BY <1>1, <1>3

LEMMA SubtreeLeast ==
  ASSUME NEW k \in Keys, NEW S \in SUBSET Keys, k \in S, Closed(S)
  PROVE  Subtree(k) \subseteq S
  BY DEF Subtree

\* Nothing below a folder is older.
LEMMA SubtreeUpwards ==
  ASSUME TypeOK, Upwards, NEW k \in Keys
  PROVE  \A j \in Subtree(k) : j >= k
<1> DEFINE S == {j \in Keys : j >= k}
<1>1. k \in S /\ S \in SUBSET Keys
  BY DEF Keys
<1>2. ASSUME NEW f \in S, NEW n \in Names,
             kind[f] = "folder", entries[f][n].is \in {"folder", "file"}
      PROVE  entries[f][n].id \in S
  <2>1. f \in Keys /\ f >= k
    OBVIOUS
  <2>2. entries[f][n].id \in Keys /\ entries[f][n] # NoEntry
    BY <1>2, <2>1, EntryFacts
  <2>3. entries[f][n].id > f
    BY <2>1, <2>2 DEF Upwards
  <2> QED BY <2>1, <2>2, <2>3 DEF Keys
<1>3. Closed(S)
  BY <1>2 DEF Closed
<1> QED BY <1>1, <1>3, SubtreeLeast

\* What is below k is in a folder that is, and in no other.
LEMMA SubtreeParents ==
  ASSUME TypeOK, OneParent, NEW k \in Keys, NEW j \in Subtree(k), j # k
  PROVE  /\ \E f \in Subtree(k), n \in Names :
              /\ kind[f] = "folder"
              /\ entries[f][n].is \in {"folder", "file"}
              /\ entries[f][n].id = j
         /\ \A f \in Keys, n \in Names :
              entries[f][n] # NoEntry /\ entries[f][n].id = j => f \in Subtree(k)
<1>1. \E f \in Subtree(k), n \in Names :
        /\ kind[f] = "folder"
        /\ entries[f][n].is \in {"folder", "file"}
        /\ entries[f][n].id = j
  <2> SUFFICES ASSUME \A f \in Subtree(k), n \in Names :
                        ~(/\ kind[f] = "folder"
                          /\ entries[f][n].is \in {"folder", "file"}
                          /\ entries[f][n].id = j)
               PROVE  FALSE
    OBVIOUS
  <2> DEFINE S == Subtree(k) \ {j}
  <2>1. k \in S /\ S \in SUBSET Keys
    BY SubtreeClosed
  <2>2. Closed(S)
    BY SubtreeClosed DEF Closed
  <2> QED BY <2>1, <2>2, SubtreeLeast
<1>2. PICK f \in Subtree(k), n \in Names :
        /\ kind[f] = "folder"
        /\ entries[f][n].is \in {"folder", "file"}
        /\ entries[f][n].id = j
  BY <1>1
<1>3. f \in Keys
  BY DEF Subtree
<1>4. entries[f][n] # NoEntry
  BY <1>2, <1>3, EntryFacts DEF NoEntry
<1>5. ASSUME NEW g \in Keys, NEW m \in Names, entries[g][m] # NoEntry, entries[g][m].id = j
      PROVE  g \in Subtree(k)
  BY <1>2, <1>3, <1>4, <1>5 DEF OneParent
<1> QED BY <1>1, <1>5

\* What is removed with an entry of folder f: the entry's own record, if any, and
\* what is below it, but nothing above.
LEMMA GoneFacts ==
  ASSUME TypeOK, TreeInv, NEW f \in Keys, NEW n \in Names,
         NEW recursive \in BOOLEAN, NEW onlyExternal \in BOOLEAN,
         entries[f][n] # NoEntry, MayRemove(entries[f][n], recursive),
         NEW gone, gone = Gone(entries[f][n], recursive, onlyExternal)
  PROVE  /\ gone \subseteq Keys
         /\ \A j \in gone : j > f
         /\ gone # {} \/ entries[f][n].is \in {"folder", "file"} => entries[f][n].id \in gone
         /\ \A j \in gone \ {entries[f][n].id} :
              \E g \in gone, m \in Names :
                /\ kind[g] = "folder"
                /\ entries[g][m].is \in {"folder", "file"}
                /\ entries[g][m].id = j
         /\ \A g \in Keys, m \in Names :
              entries[g][m] # NoEntry /\ entries[g][m].id \in gone =>
                (g = f /\ m = n) \/ g \in gone
         /\ \A g \in gone, m \in Names :
              kind[g] = "folder" /\ entries[g][m] # NoEntry =>
                entries[g][m].is = "mount" \/ entries[g][m].id \in gone
<1> DEFINE e == entries[f][n]
<1>1. e.id \in Keys /\ e.is \in {"folder", "file", "mount"} /\ e.id > f /\ kind[e.id] = e.is
  BY EntryFacts DEF TreeInv, TreeIsSound, NothingDangles, Upwards
<1>2. CASE gone = {}
  <2>1. e.is \notin {"folder", "file"}
    BY <1>1, <1>2, SubtreeClosed DEF Gone
  <2> QED BY <1>2, <2>1
<1>3. CASE gone = {e.id} /\ entries[e.id] = Empty
  <2>1. \A m \in Names : entries[e.id][m] = NoEntry
    BY <1>3 DEF Empty
  <2>2. \A g \in Keys, m \in Names :
          entries[g][m] # NoEntry /\ entries[g][m].id = e.id => g = f /\ m = n
    BY DEF TreeInv, TreeIsSound, OneParent
  <2> QED BY <1>1, <1>3, <2>1, <2>2 DEF Keys
<1>4. CASE gone = {e.id} /\ kind[e.id] # "folder"
  <2>1. \A g \in Keys, m \in Names :
          entries[g][m] # NoEntry /\ entries[g][m].id = e.id => g = f /\ m = n
    BY DEF TreeInv, TreeIsSound, OneParent
  <2> QED BY <1>1, <1>4, <2>1 DEF Keys
<1>5. CASE gone = Subtree(e.id)
  <2>1. gone \subseteq Keys /\ e.id \in gone
    BY <1>1, <1>5, SubtreeClosed
  <2>2. \A j \in gone : j > f
    BY <1>1, <1>5, <2>1, SubtreeUpwards DEF TreeInv, Keys
  <2>3. \A j \in gone \ {e.id} :
          \E g \in gone, m \in Names :
            /\ kind[g] = "folder"
            /\ entries[g][m].is \in {"folder", "file"}
            /\ entries[g][m].id = j
    BY <1>1, <1>5, SubtreeParents DEF TreeInv, TreeIsSound
  <2>4. ASSUME NEW g \in Keys, NEW m \in Names,
               entries[g][m] # NoEntry, entries[g][m].id \in gone
        PROVE  (g = f /\ m = n) \/ g \in gone
    <3>1. CASE entries[g][m].id = e.id
      BY <2>4, <3>1 DEF TreeInv, TreeIsSound, OneParent
    <3>2. CASE entries[g][m].id # e.id
      BY <1>1, <1>5, <2>4, <3>2, SubtreeParents DEF TreeInv, TreeIsSound
    <3> QED BY <3>1, <3>2
  <2>5. ASSUME NEW g \in gone, NEW m \in Names, kind[g] = "folder", entries[g][m] # NoEntry
        PROVE  entries[g][m].is = "mount" \/ entries[g][m].id \in gone
    <3>1. Closed(gone)
      BY <1>1, <1>5, SubtreeClosed
    <3>2. entries[g][m].is \in {"folder", "file", "mount"}
      BY <2>1, <2>5, EntryFacts
    <3> QED BY <2>5, <3>1, <3>2 DEF Closed
  <2> QED BY <2>1, <2>2, <2>3, <2>4, <2>5
<1> QED
  <2>1. CASE e.is = "mount"
    BY <1>1, <1>2, <1>4, <2>1 DEF Gone
  <2>2. CASE e.is = "file"
    BY <1>1, <1>4, <2>2 DEF Gone
  <2>3. CASE e.is = "folder" /\ recursive
    BY <1>5, <2>3 DEF Gone
  <2>4. CASE e.is = "folder" /\ ~recursive
    BY <1>3, <2>4 DEF Gone, MayRemove
  <2> QED BY <1>1, <2>1, <2>2, <2>3, <2>4

-----------------------------------------------------------------------------
(* A call on a handle. *)

LEMMA WorksFacts ==
  ASSUME IInv, NEW h \in Handles, Works(h)
  PROVE  /\ h \in 1 .. handles /\ of[h] \in Keys
         /\ of[h] < nextKey /\ nextKey > Root /\ phase = "ready"
         /\ kind[of[h]] = "folder" \/ (kind[of[h]] = "mount" /\ mistaken)
<1>1. h \in 1 .. handles /\ of[h] \in Keys
  BY DEF IInv, TypeOK, Works, Handles, Keys
<1>2. kind[of[h]] # "absent" /\ of[h] < nextKey
  BY <1>1 DEF IInv, TypeOK, Works
<1>3. nextKey > Root /\ phase = "ready"
  BY <1>1, <1>2 DEF IInv, TypeOK, Phases, Keys, Root
<1>4. kind[of[h]] = "folder" \/ (kind[of[h]] = "mount" /\ mistaken)
  BY <1>1, <1>2 DEF IInv, HandleKinds, Works
<1> QED BY <1>1, <1>2, <1>3, <1>4

\* Actions that leave the store alone, and mistakes where they are.
StoreStays == UNCHANGED <<kind, entries, nextKey>> /\ (mistaken => mistaken')

LEMMA TreeStays ==
  ASSUME IInv, StoreStays
  PROVE  TreeInv'
<1>1. UNCHANGED <<kind, entries, nextKey>>
  BY DEF StoreStays
<1>2. LeavesAreEmpty'
  BY <1>1 DEF StoreStays, IInv, TreeInv, LeavesAreEmpty, Empty, NoEntry
<1>3. Upwards'
  BY <1>1 DEF IInv, TreeInv, Upwards
<1>4. NothingDangles' /\ OneParent'
  BY <1>1 DEF IInv, TreeInv, TreeIsSound, NothingDangles, OneParent
<1>5. NothingIsOrphaned'
  BY <1>1 DEF StoreStays, IInv, TreeInv, TreeIsSound, NothingIsOrphaned
<1> QED BY <1>2, <1>3, <1>4, <1>5 DEF TreeInv, TreeIsSound

\* Adding a record keeps the tree.
LEMMA TreeAdd ==
  ASSUME IInv, NEW h \in Handles, NEW n \in Names, NEW is \in {"folder", "file", "mount"},
         AddRecord(h, n, is), UNCHANGED mistaken
  PROVE  TreeInv'
<1> DEFINE f == of[h]
           new == [id |-> nextKey, is |-> is]
<1>1. Works(h)
  BY DEF AddRecord
<1>2. /\ f \in Keys /\ f < nextKey /\ f # nextKey
      /\ kind[f] = "folder" \/ (kind[f] = "mount" /\ mistaken)
  BY <1>1, WorksFacts DEF Keys, IInv, TypeOK
<1>3. nextKey \in Keys /\ kind[nextKey] = "absent" /\ entries[nextKey] = Empty
  BY DEF AddRecord, IInv, TypeOK, Keys, TreeInv, LeavesAreEmpty
<1>4. \A k \in Keys : kind'[k] = IF k = nextKey THEN is ELSE kind[k]
  BY DEF AddRecord, IInv, TypeOK
<1>5. \A k \in Keys, m \in Names :
        entries'[k][m] = IF k = f /\ m = n THEN new ELSE entries[k][m]
  BY <1>2 DEF AddRecord, IInv, TypeOK
<1>6. \A k \in Keys : k # f => entries'[k] = entries[k]
  BY <1>2 DEF AddRecord, IInv, TypeOK
<1>7. new # NoEntry /\ new.id = nextKey /\ new.is = is
  BY <1>3 DEF NoEntry, Keys
<1>8. \A k \in Keys, m \in Names :
        entries[k][m] # NoEntry =>
          /\ entries[k][m].id \in Keys /\ entries[k][m].id # nextKey
          /\ kind[entries[k][m].id] = entries[k][m].is
          /\ entries[k][m].id > k
  <2> TAKE k \in Keys, m \in Names
  <2> HAVE entries[k][m] # NoEntry
  <2>1. /\ entries[k][m].id \in Keys
        /\ entries[k][m].is \in {"folder", "file", "mount"}
    BY EntryFacts DEF IInv
  <2>2. kind[entries[k][m].id] = entries[k][m].is /\ entries[k][m].id > k
    BY DEF IInv, TreeInv, TreeIsSound, NothingDangles, Upwards
  <2> QED BY <1>3, <2>1, <2>2
<1>9. entries[f][n] = NoEntry
  BY DEF AddRecord, EntryAt
<1>10. LeavesAreEmpty'
  <2> SUFFICES ASSUME NEW k \in Keys,
                      kind'[k] \in {"absent", "file"} \/ (kind'[k] = "mount" /\ ~mistaken)
               PROVE  entries'[k] = Empty
    BY DEF LeavesAreEmpty, Empty, NoEntry
  <2>1. k # f
    BY <1>2, <1>4
  <2>2. entries[k] = Empty
    BY <1>3, <1>4 DEF IInv, TreeInv, LeavesAreEmpty
  <2> QED BY <1>6, <2>1, <2>2
<1>11. Upwards'
  BY <1>2, <1>5, <1>7, <1>8 DEF Upwards
<1>12. NothingDangles'
  BY <1>2, <1>3, <1>4, <1>5, <1>7, <1>8 DEF NothingDangles
<1>13. OneParent'
  <2> SUFFICES ASSUME NEW g \in Keys, NEW k \in Keys, NEW m \in Names, NEW o \in Names,
                      entries'[g][m] # NoEntry, entries'[g][m].id = entries'[k][o].id
               PROVE  g = k /\ m = o
    BY DEF OneParent
  <2>1. entries[k][o] = NoEntry => entries[k][o].id \notin Keys
    BY DEF NoEntry, Keys
  <2>2. CASE g = f /\ m = n
    BY <1>3, <1>5, <1>7, <1>8, <2>1, <2>2
  <2>3. CASE ~(g = f /\ m = n)
    <3>1. entries[g][m] # NoEntry /\ entries'[g][m] = entries[g][m]
      BY <1>5, <2>3
    <3>2. ~(k = f /\ o = n)
      BY <1>5, <1>7, <1>8, <3>1
    <3>3. entries'[k][o] = entries[k][o]
      BY <1>5, <3>2
    <3> QED BY <3>1, <3>3 DEF IInv, TreeInv, TreeIsSound, OneParent
  <2> QED BY <2>2, <2>3
<1>14. NothingIsOrphaned'
  <2> SUFFICES ASSUME ~mistaken, NEW k \in Keys \ {Root}, kind'[k] \in {"folder", "file"}
               PROVE  \E g \in Keys, m \in Names :
                        kind'[g] = "folder" /\ entries'[g][m].id = k
    BY DEF NothingIsOrphaned
  <2>1. CASE k = nextKey
    BY <1>2, <1>3, <1>4, <1>5, <1>7, <2>1
  <2>2. CASE k # nextKey
    <3>1. PICK g \in Keys, m \in Names : kind[g] = "folder" /\ entries[g][m].id = k
      BY <1>4, <2>2 DEF IInv, TreeInv, TreeIsSound, NothingIsOrphaned
    <3>2. g # nextKey
      BY <1>3, <3>1
    <3>3. ~(g = f /\ m = n)
      BY <1>9, <3>1 DEF NoEntry, Keys
    <3> QED BY <1>4, <1>5, <3>1, <3>2, <3>3
  <2> QED BY <2>1, <2>2
<1> QED BY <1>10, <1>11, <1>12, <1>13, <1>14 DEF TreeInv, TreeIsSound

\* The root is the first record.
LEMMA TreeRoot ==
  ASSUME IInv, AddRoot
  PROVE  TreeInv'
<1>1. nextKey = Root /\ UNCHANGED <<entries, mistaken>>
  BY DEF AddRoot, IInv, Phases
<1>2. Root \in Keys /\ \A k \in Keys : kind[k] = "absent" /\ entries[k] = Empty
  BY <1>1, IndexedDbAssumption DEF IInv, TypeOK, Keys, Root, TreeInv, LeavesAreEmpty
<1>3. \A k \in Keys, m \in Names : entries'[k][m] = NoEntry
  BY <1>1, <1>2 DEF Empty
<1>4. \A k \in Keys : kind'[k] = IF k = Root THEN "folder" ELSE "absent"
  BY <1>2 DEF AddRoot, IInv, TypeOK
<1>5. LeavesAreEmpty'
  BY <1>1, <1>2 DEF LeavesAreEmpty, Empty, NoEntry
<1>6. Upwards' /\ NothingDangles' /\ OneParent' /\ NothingIsOrphaned'
  BY <1>3, <1>4 DEF Upwards, NothingDangles, OneParent, NothingIsOrphaned
<1> QED BY <1>5, <1>6 DEF TreeInv, TreeIsSound

\* Removing an entry keeps the tree.
LEMMA TreeRemove ==
  ASSUME IInv, NEW h \in Handles, NEW n \in Names,
         NEW recursive \in BOOLEAN, NEW onlyExternal \in BOOLEAN,
         RemoveEntry(h, n, recursive, onlyExternal)
  PROVE  TreeInv'
<1> DEFINE f == of[h]
           e == entries[f][n]
           gone == Gone(e, recursive, onlyExternal)
<1>1. Works(h) /\ e # NoEntry /\ MayRemove(e, recursive) /\ UNCHANGED mistaken
  BY DEF RemoveEntry, EntryAt
<1>2. f \in Keys /\ (kind[f] = "folder" \/ (kind[f] = "mount" /\ mistaken))
  BY <1>1, WorksFacts
<1>3. /\ gone \subseteq Keys
      /\ \A j \in gone : j > f
      /\ gone # {} \/ e.is \in {"folder", "file"} => e.id \in gone
      /\ \A g \in Keys, m \in Names :
           entries[g][m] # NoEntry /\ entries[g][m].id \in gone =>
             (g = f /\ m = n) \/ g \in gone
      /\ \A g \in gone, m \in Names :
           kind[g] = "folder" /\ entries[g][m] # NoEntry =>
             entries[g][m].is = "mount" \/ entries[g][m].id \in gone
  BY SMTT(20), <1>1, <1>2, GoneFacts DEF IInv
<1>4. f \notin gone
  BY <1>2, <1>3 DEF Keys
<1>5. \A k \in Keys : kind'[k] = IF k \in gone THEN "absent" ELSE kind[k]
  BY DEF RemoveEntry, EntryAt
<1>6. \A k \in Keys : entries'[k] = IF k \in gone THEN Empty
                                    ELSE IF k = f THEN [entries[f] EXCEPT ![n] = NoEntry]
                                    ELSE entries[k]
  BY DEF RemoveEntry, EntryAt
<1>7. \A k \in Keys, m \in Names :
        entries'[k][m] = IF k \in gone \/ (k = f /\ m = n) THEN NoEntry ELSE entries[k][m]
  BY <1>6 DEF IInv, TypeOK, Empty
<1>8. LeavesAreEmpty'
  <2> SUFFICES ASSUME NEW k \in Keys,
                      kind'[k] \in {"absent", "file"} \/ (kind'[k] = "mount" /\ ~mistaken)
               PROVE  entries'[k] = Empty
    BY <1>1 DEF LeavesAreEmpty, Empty, NoEntry
  <2>1. CASE k \in gone
    BY <1>6, <2>1
  <2>2. CASE k \notin gone
    <3>1. k # f /\ entries[k] = Empty
      BY <1>2, <1>5, <2>2 DEF IInv, TreeInv, LeavesAreEmpty
    <3> QED BY <1>6, <2>2, <3>1
  <2> QED BY <2>1, <2>2
<1>9. Upwards'
  BY <1>7 DEF IInv, TreeInv, Upwards
<1>10. NothingDangles'
  <2> SUFFICES ASSUME NEW g \in Keys, NEW m \in Names, entries'[g][m] # NoEntry
               PROVE  kind'[entries'[g][m].id] = entries'[g][m].is
    BY DEF NothingDangles
  <2>1. entries'[g][m] = entries[g][m] /\ g \notin gone /\ ~(g = f /\ m = n)
    BY <1>7
  <2>2. entries[g][m].id \in Keys /\ entries[g][m].id \notin gone
    BY <1>3, <2>1, EntryFacts DEF IInv
  <2> QED BY <1>5, <2>1, <2>2 DEF IInv, TreeInv, TreeIsSound, NothingDangles
<1>11. OneParent'
  <2> SUFFICES ASSUME NEW g \in Keys, NEW k \in Keys, NEW m \in Names, NEW o \in Names,
                      entries'[g][m] # NoEntry, entries'[g][m].id = entries'[k][o].id
               PROVE  g = k /\ m = o
    BY DEF OneParent
  <2>1. entries'[g][m] = entries[g][m] /\ entries[g][m].id \in Keys
    BY <1>7, EntryFacts DEF IInv
  <2>2. entries'[k][o] # NoEntry
    BY <2>1 DEF NoEntry, Keys
  <2>3. entries'[k][o] = entries[k][o]
    BY <1>7, <2>2
  <2> QED BY <2>1, <2>3 DEF IInv, TreeInv, TreeIsSound, OneParent
<1>12. NothingIsOrphaned'
  <2> SUFFICES ASSUME ~mistaken, NEW k \in Keys \ {Root}, kind'[k] \in {"folder", "file"}
               PROVE  \E g \in Keys, m \in Names :
                        kind'[g] = "folder" /\ entries'[g][m].id = k
    BY <1>1 DEF NothingIsOrphaned
  <2>1. k \notin gone /\ kind[k] \in {"folder", "file"}
    BY <1>5
  <2>2. PICK g \in Keys, m \in Names : kind[g] = "folder" /\ entries[g][m].id = k
    BY <2>1 DEF IInv, TreeInv, TreeIsSound, NothingIsOrphaned
  <2>3. entries[g][m] # NoEntry
    BY <2>2 DEF NoEntry, Keys
  <2>4. entries[g][m].is \in {"folder", "file"}
    BY <2>1, <2>2, <2>3 DEF IInv, TreeInv, TreeIsSound, NothingDangles
  <2>5. g \notin gone
    BY <1>3, <2>1, <2>2, <2>3, <2>4
  <2>6. ~(g = f /\ m = n)
    BY <1>3, <2>1, <2>2, <2>4
  <2> QED BY <1>5, <1>7, <2>2, <2>5, <2>6
<1> QED BY <1>8, <1>9, <1>10, <1>11, <1>12 DEF TreeInv, TreeIsSound

-----------------------------------------------------------------------------
(* What actions have in common. *)

\* An entry that is there leads to a record of its kind.
LEMMA EntryOf ==
  ASSUME IInv, NEW h \in Handles, NEW n \in Names, Works(h), EntryAt(h, n).is # "none"
  PROVE  /\ EntryAt(h, n).id \in Keys /\ EntryAt(h, n).id < nextKey
         /\ kind[EntryAt(h, n).id] = EntryAt(h, n).is
<1>1. of[h] \in Keys
  BY WorksFacts
<1>2. /\ EntryAt(h, n) # NoEntry /\ EntryAt(h, n).id \in Keys
      /\ EntryAt(h, n).is \in {"folder", "file", "mount"}
  BY <1>1, EntryFacts DEF IInv, EntryAt
<1>3. kind[EntryAt(h, n).id] = EntryAt(h, n).is
  BY <1>1, <1>2 DEF IInv, TreeInv, TreeIsSound, NothingDangles, EntryAt
<1> QED BY <1>2, <1>3 DEF IInv, TypeOK

\* A new handle is the next one, and nothing else changes.
LEMMA NewHandleFacts ==
  ASSUME TypeOK, NEW k \in Keys, NewHandle(k)
  PROVE  /\ handles \in Nat /\ handles + 1 \in Handles /\ handles' = handles + 1
         /\ of' \in [Handles -> 0 .. MaxKeys]
         /\ \A g \in Handles : of'[g] = IF g = handles + 1 THEN k ELSE of[g]
         /\ k # 0
<1>1. handles \in Nat /\ handles + 1 \in Handles /\ handles' = handles + 1
  BY IndexedDbAssumption DEF TypeOK, NewHandle, Handles
<1>2. k \in 0 .. MaxKeys /\ k # 0
  BY IndexedDbAssumption DEF Keys
<1>3. of \in [Handles -> 0 .. MaxKeys] /\ of' = [of EXCEPT ![handles + 1] = k]
  BY DEF TypeOK, NewHandle
<1> QED BY <1>1, <1>2, <1>3

\* Adding a record changes its kind and one entry.
LEMMA AddFacts ==
  ASSUME IInv, NEW h \in Handles, NEW n \in Names, NEW is \in {"folder", "file", "mount"},
         AddRecord(h, n, is)
  PROVE  /\ h \in 1 .. handles
         /\ of[h] \in Keys /\ nextKey \in Keys /\ of[h] < nextKey /\ nextKey > Root
         /\ phase = "ready" /\ nextKey' = nextKey + 1
         /\ kind[nextKey] = "absent" /\ entries[nextKey] = Empty
         /\ entries[of[h]][n] = NoEntry
         /\ kind' \in [Keys -> {"absent", "folder", "file", "mount"}]
         /\ entries' \in [Keys -> [Names -> Entries]]
         /\ \A k \in Keys : kind'[k] = IF k = nextKey THEN is ELSE kind[k]
         /\ \A k \in Keys, m \in Names :
              entries'[k][m] = IF k = of[h] /\ m = n THEN [id |-> nextKey, is |-> is]
                               ELSE entries[k][m]
<1>1. Works(h) /\ entries[of[h]][n] = NoEntry
  BY DEF AddRecord, EntryAt
<1>2. /\ h \in 1 .. handles /\ of[h] \in Keys /\ of[h] < nextKey /\ nextKey > Root
      /\ phase = "ready"
  BY <1>1, WorksFacts
<1>3. /\ nextKey \in Keys /\ kind[nextKey] = "absent" /\ entries[nextKey] = Empty
      /\ nextKey' = nextKey + 1
  BY DEF AddRecord, IInv, TypeOK, Keys, TreeInv, LeavesAreEmpty
<1>4. /\ kind' \in [Keys -> {"absent", "folder", "file", "mount"}]
      /\ \A k \in Keys : kind'[k] = IF k = nextKey THEN is ELSE kind[k]
  BY DEF AddRecord, IInv, TypeOK
<1>5. [id |-> nextKey, is |-> is] \in Entries
  BY <1>3 DEF Entries
<1>6. /\ entries' \in [Keys -> [Names -> Entries]]
      /\ \A k \in Keys, m \in Names :
           entries'[k][m] = IF k = of[h] /\ m = n THEN [id |-> nextKey, is |-> is]
                            ELSE entries[k][m]
  BY <1>2, <1>5 DEF AddRecord, IInv, TypeOK
<1> QED BY <1>1, <1>2, <1>3, <1>4, <1>6

\* Removing an entry changes it, and the records that go.
LEMMA RemoveFacts ==
  ASSUME IInv, NEW h \in Handles, NEW n \in Names,
         NEW recursive \in BOOLEAN, NEW onlyExternal \in BOOLEAN,
         RemoveEntry(h, n, recursive, onlyExternal),
         NEW gone, gone = Gone(EntryAt(h, n), recursive, onlyExternal)
  PROVE  /\ h \in 1 .. handles /\ of[h] \in Keys /\ phase = "ready"
         /\ gone \subseteq Keys /\ of[h] \notin gone /\ Root \notin gone
         /\ kind' \in [Keys -> {"absent", "folder", "file", "mount"}]
         /\ entries' \in [Keys -> [Names -> Entries]]
         /\ \A k \in Keys : kind'[k] = IF k \in gone THEN "absent" ELSE kind[k]
         /\ \A k \in Keys, m \in Names :
              entries'[k][m] = IF k \in gone \/ (k = of[h] /\ m = n) THEN NoEntry
                               ELSE entries[k][m]
<1>1. Works(h) /\ EntryAt(h, n) # NoEntry /\ MayRemove(EntryAt(h, n), recursive)
  BY DEF RemoveEntry
<1>2. h \in 1 .. handles /\ of[h] \in Keys /\ phase = "ready"
  BY <1>1, WorksFacts
<1>3. gone \subseteq Keys /\ \A j \in gone : j > of[h]
  BY <1>1, <1>2, GoneFacts DEF IInv, EntryAt
<1>4. of[h] \notin gone /\ Root \notin gone
  BY <1>2, <1>3 DEF Keys, Root
<1>5. kind' = [k \in Keys |-> IF k \in gone THEN "absent" ELSE kind[k]]
  BY DEF RemoveEntry
<1>6. entries' = [k \in Keys |-> IF k \in gone THEN Empty
                                 ELSE IF k = of[h] THEN [entries[of[h]] EXCEPT ![n] = NoEntry]
                                 ELSE entries[k]]
  BY DEF RemoveEntry
<1>7. kind' \in [Keys -> {"absent", "folder", "file", "mount"}]
  BY <1>5 DEF IInv, TypeOK
<1>8. NoEntry \in Entries /\ Empty \in [Names -> Entries]
  BY DEF Entries, Empty
<1>9. /\ entries' \in [Keys -> [Names -> Entries]]
      /\ \A k \in Keys, m \in Names :
           entries'[k][m] = IF k \in gone \/ (k = of[h] /\ m = n) THEN NoEntry
                            ELSE entries[k][m]
  BY <1>2, <1>6, <1>8 DEF IInv, TypeOK, Empty
<1> QED BY <1>2, <1>3, <1>4, <1>5, <1>7, <1>9

-----------------------------------------------------------------------------
(* The steps. *)

\* The part of the types that is about handles.
HandleTypes ==
  /\ handles \in 0 .. MaxHandles
  /\ of \in [Handles -> 0 .. MaxKeys]
  /\ foreign \subseteq 1 .. handles
  /\ cache \in [Handles -> [Names -> 0 .. MaxHandles]]
  /\ lookups \subseteq [by : 1 .. handles, name : Names, key : Keys]
  /\ \A h \in Handles : IF h <= handles THEN of[h] # 0
                        ELSE of[h] = 0 /\ cache[h] = NothingCached

\* What an operation changes in a cache.
OneCached(h, n, v) ==
  /\ h \in 1 .. handles /\ n \in Names /\ v \in 0 .. MaxHandles
  /\ cache' = [cache EXCEPT ![h][n] = v]

LEMMA CachedTypes ==
  ASSUME TypeOK, NEW h, NEW n, NEW v, OneCached(h, n, v)
  PROVE  /\ cache' \in [Handles -> [Names -> 0 .. MaxHandles]]
         /\ \A g \in Handles, m \in Names :
              cache'[g][m] = IF g = h /\ m = n THEN v ELSE cache[g][m]
         /\ \A g \in Handles : g > handles => cache'[g] = cache[g]
<1>1. /\ cache' \in [Handles -> [Names -> 0 .. MaxHandles]]
      /\ \A g \in Handles, m \in Names :
           cache'[g][m] = IF g = h /\ m = n THEN v ELSE cache[g][m]
      /\ \A g \in Handles : g # h => cache'[g] = cache[g]
  BY DEF TypeOK, OneCached
<1>2. \A g \in Handles : g > handles => g # h
  BY IndexedDbAssumption DEF TypeOK, OneCached, Handles
<1> QED BY <1>1, <1>2

LEMMA NewHandleTypes ==
  ASSUME TypeOK, NEW k \in Keys, NewHandle(k),
         UNCHANGED cache \/ \E h, n : OneCached(h, n, handles + 1),
         foreign' \subseteq foreign \cup {handles + 1},
         lookups' \subseteq lookups
  PROVE  HandleTypes'
<1>1. /\ handles \in Nat /\ handles' = handles + 1 /\ handles' \in 0 .. MaxHandles
      /\ of' \in [Handles -> 0 .. MaxKeys] /\ k # 0
      /\ \A g \in Handles : of'[g] = IF g = handles + 1 THEN k ELSE of[g]
  BY NewHandleFacts, IndexedDbAssumption DEF Handles
<1>2. 1 .. handles \subseteq 1 .. handles' /\ handles + 1 \in 1 .. handles'
  BY <1>1
<1>3. foreign' \subseteq 1 .. handles'
  BY <1>2 DEF TypeOK
<1>4. lookups' \subseteq [by : 1 .. handles', name : Names, key : Keys]
  <2>1. lookups' \subseteq [by : 1 .. handles, name : Names, key : Keys]
    BY DEF TypeOK
  <2> QED BY <1>2, <2>1
<1>5. /\ cache' \in [Handles -> [Names -> 0 .. MaxHandles]]
      /\ \A g \in Handles : g > handles => cache'[g] = cache[g]
  <2>1. CASE UNCHANGED cache
    BY <2>1 DEF TypeOK
  <2>2. ASSUME NEW h, NEW n, OneCached(h, n, handles + 1)
        PROVE  /\ cache' \in [Handles -> [Names -> 0 .. MaxHandles]]
               /\ \A g \in Handles : g > handles => cache'[g] = cache[g]
    BY <2>2, CachedTypes
  <2> QED BY <2>1, <2>2
<1>6. ASSUME NEW g \in Handles
      PROVE  IF g <= handles' THEN of'[g] # 0 ELSE of'[g] = 0 /\ cache'[g] = NothingCached
  <2>1. g \in Nat /\ IF g <= handles THEN of[g] # 0 ELSE of[g] = 0 /\ cache[g] = NothingCached
    BY DEF TypeOK, Handles
  <2> QED BY <1>1, <1>5, <2>1
<1>7. \A g \in Handles : (IF g <= handles THEN of[g] # 0
                          ELSE of[g] = 0 /\ cache[g] = NothingCached)'
  BY <1>6 DEF NothingCached
<1> QED BY <1>1, <1>3, <1>4, <1>5, <1>7 DEF HandleTypes

LEMMA ClearedTypes ==
  ASSUME TypeOK, UNCHANGED <<handles, of, foreign, lookups>>,
         NEW h, NEW n, OneCached(h, n, 0)
  PROVE  HandleTypes'
<1>1. /\ cache' \in [Handles -> [Names -> 0 .. MaxHandles]]
      /\ \A g \in Handles : g > handles => cache'[g] = cache[g]
  BY CachedTypes
<1>2. ASSUME NEW g \in Handles
      PROVE  IF g <= handles' THEN of'[g] # 0 ELSE of'[g] = 0 /\ cache'[g] = NothingCached
  <2>1. /\ g \in Nat /\ handles \in Nat
        /\ IF g <= handles THEN of[g] # 0 ELSE of[g] = 0 /\ cache[g] = NothingCached
    BY IndexedDbAssumption DEF TypeOK, Handles
  <2> QED BY <1>1, <2>1
<1>3. \A g \in Handles : (IF g <= handles THEN of[g] # 0
                          ELSE of[g] = 0 /\ cache[g] = NothingCached)'
  BY <1>2 DEF NothingCached
<1> QED BY <1>1, <1>3 DEF HandleTypes, TypeOK

LEMMA TypesStep ==
  ASSUME IInv, [Next]_vars
  PROVE  TypeOK'
<1> USE DEF storeVars, sessionVars
<1>1. CASE CreateStore
  BY <1>1 DEF CreateStore, IInv, TypeOK, NothingCached
<1>2. CASE AddRoot
  <2>1. Root \in Keys /\ NewHandle(Root) /\ nextKey = Root
    BY <1>2, IndexedDbAssumption DEF AddRoot, IInv, Phases, Keys, Root
  <2>2. nextKey' \in 1 .. MaxKeys + 1 /\ \A k \in Keys : kind'[k] # "absent" => k < nextKey'
    BY <1>2, <2>1, IndexedDbAssumption DEF AddRoot, IInv, TypeOK, Keys, Root
  <2>3. kind' \in [Keys -> {"absent", "folder", "file", "mount"}]
    BY <1>2, <2>1 DEF AddRoot, IInv, TypeOK
  <2>4. HandleTypes'
    BY <1>2, <2>1, NewHandleTypes DEF AddRoot, IInv
  <2> QED BY <1>2, <2>2, <2>3, <2>4 DEF AddRoot, IInv, TypeOK, HandleTypes, NothingCached
<1>3. CASE OpenStore
  <2>1. Root \in Keys /\ NewHandle(Root)
    BY <1>3, IndexedDbAssumption DEF OpenStore, Keys, Root
  <2>2. HandleTypes'
    BY <1>3, <2>1, NewHandleTypes DEF OpenStore, IInv
  <2> QED BY <1>3, <2>2 DEF OpenStore, IInv, TypeOK, HandleTypes, NothingCached
<1>4. CASE Reload
  <2>1. HandleTypes'
    BY <1>4, IndexedDbAssumption DEF Reload, HandleTypes, NothingCached, Handles
  <2> QED BY <1>4, <2>1 DEF Reload, IInv, TypeOK, HandleTypes, NothingCached
<1>5. ASSUME NEW h \in Handles, NEW n \in Names, EntryNext(h, n)
      PROVE  TypeOK'
  <2>1. ASSUME NEW is \in {"folder", "file", "mount"}, AddRecord(h, n, is)
        PROVE  /\ kind' \in [Keys -> {"absent", "folder", "file", "mount"}]
               /\ entries' \in [Keys -> [Names -> Entries]]
               /\ nextKey' \in 1 .. MaxKeys + 1
               /\ \A k \in Keys : kind'[k] # "absent" => k < nextKey'
               /\ nextKey \in Keys
    <3>1. nextKey' = nextKey + 1 /\ nextKey \in Keys
      BY <2>1, AddFacts
    <3>2. ASSUME NEW k \in Keys, kind'[k] # "absent"
          PROVE  k < nextKey'
      BY <2>1, <3>1, <3>2, AddFacts DEF IInv, TypeOK, Keys
    <3> QED BY <2>1, <3>1, <3>2, AddFacts, IndexedDbAssumption DEF Keys
  <2>2. CASE MakeFolder(h, n)
    <3>1. AddRecord(h, n, "folder") /\ NewHandle(nextKey)
      BY <2>2 DEF MakeFolder
    <3>2. HandleTypes'
      BY <2>1, <2>2, <3>1, NewHandleTypes DEF MakeFolder, IInv
    <3> QED BY <2>1, <2>2, <3>1, <3>2 DEF MakeFolder, IInv, TypeOK, HandleTypes, NothingCached
  <2>3. CASE MakeFile(h, n)
    BY <2>1, <2>3 DEF MakeFile, IInv, TypeOK, NothingCached
  <2>4. CASE MountHandle(h, n)
    BY <2>1, <2>4 DEF MountHandle, IInv, TypeOK, NothingCached
  <2>5. CASE GetFolder(h, n)
    <3>1. EntryAt(h, n).id \in Keys /\ NewHandle(EntryAt(h, n).id) /\ h \in 1 .. handles
      BY <2>5, EntryOf, WorksFacts DEF GetFolder
    <3>2. OneCached(h, n, handles + 1)
      BY <2>5, <3>1, NewHandleFacts DEF GetFolder, OneCached, IInv, Handles
    <3>3. HandleTypes'
      BY <2>5, <3>1, <3>2, NewHandleTypes DEF GetFolder, IInv
    <3> QED BY <2>5, <3>3 DEF GetFolder, IInv, TypeOK, HandleTypes, NothingCached
  <2>6. CASE ListFolder(h, n)
    <3>1. EntryAt(h, n).id \in Keys /\ NewHandle(EntryAt(h, n).id)
      BY <2>6, EntryOf DEF ListFolder
    <3>2. HandleTypes'
      BY <2>6, <3>1, NewHandleTypes DEF ListFolder, IInv
    <3> QED BY <2>6, <3>2 DEF ListFolder, IInv, TypeOK, HandleTypes, NothingCached
  <2>7. CASE LookUpMount(h, n)
    <3>1. EntryAt(h, n).id \in Keys /\ h \in 1 .. handles
      BY <2>7, EntryOf, WorksFacts DEF LookUpMount
    <3> QED BY <2>7, <3>1 DEF LookUpMount, IInv, TypeOK, NothingCached
  <2>8. CASE RemoveMissing(h, n)
    <3>1. OneCached(h, n, 0)
      BY <2>8, WorksFacts, IndexedDbAssumption DEF RemoveMissing, CacheWithout, OneCached
    <3>2. HandleTypes'
      BY <2>8, <3>1, ClearedTypes DEF RemoveMissing, IInv
    <3> QED BY <2>8, <3>2 DEF RemoveMissing, IInv, TypeOK, HandleTypes, NothingCached
  <2>9. ASSUME NEW recursive \in BOOLEAN, NEW onlyExternal \in BOOLEAN,
               RemoveEntry(h, n, recursive, onlyExternal)
        PROVE  TypeOK'
    <3>1. OneCached(h, n, 0) /\ of[h] \in Keys
      <4>1. h \in 1 .. handles /\ of[h] \in Keys
        BY <2>9, RemoveFacts
      <4>2. cache' = [cache EXCEPT ![h][n] = 0]
        BY <2>9 DEF RemoveEntry, CacheWithout
      <4> QED BY <4>1, <4>2, IndexedDbAssumption DEF OneCached
    <3>2. HandleTypes'
      BY <2>9, <3>1, ClearedTypes DEF RemoveEntry, IInv
    <3>3. /\ kind' \in [Keys -> {"absent", "folder", "file", "mount"}]
          /\ entries' \in [Keys -> [Names -> Entries]]
          /\ \A k \in Keys : kind'[k] # "absent" => kind[k] # "absent"
      BY <2>9, RemoveFacts
    <3>4. disturbed' \subseteq Keys \X Names
      BY <2>9, <3>1 DEF RemoveEntry, IInv, TypeOK
    <3>5. UNCHANGED <<phase, nextKey, session, sinks, mistaken>>
      BY <2>9 DEF RemoveEntry
    <3> QED BY <3>2, <3>3, <3>4, <3>5 DEF IInv, TypeOK, HandleTypes, NothingCached
  <2> QED BY <1>5, <2>2, <2>3, <2>4, <2>5, <2>6, <2>7, <2>8, <2>9 DEF EntryNext
<1>6. ASSUME NEW l \in lookups, MountFound(l) \/ MountNotFound(l)
      PROVE  TypeOK'
  <2>1. /\ EndLookUp(l) /\ foreign' \subseteq foreign \cup {handles + 1}
        /\ UNCHANGED <<storeVars, session, sinks, disturbed>>
    BY <1>6 DEF MountFound, MountNotFound
  <2>2. mistaken' \in BOOLEAN
    BY <1>6 DEF MountFound, MountNotFound, IInv, TypeOK
  <2>3. l.key \in Keys /\ NewHandle(l.key) /\ l.by \in 1 .. handles /\ l.name \in Names
    BY <2>1 DEF EndLookUp, IInv, TypeOK
  <2>4. OneCached(l.by, l.name, handles + 1)
    BY <2>1, <2>3, NewHandleFacts DEF EndLookUp, OneCached, IInv, Handles
  <2>5. HandleTypes'
    BY <2>1, <2>3, <2>4, NewHandleTypes DEF EndLookUp, IInv
  <2> QED BY <2>1, <2>2, <2>5 DEF IInv, TypeOK, HandleTypes, NothingCached
<1>7. ASSUME NEW k \in Keys, CreateWritable(k) \/ CloseSink(k)
      PROVE  TypeOK'
  BY <1>7 DEF CreateWritable, CloseSink, IInv, TypeOK, NothingCached
<1>8. CASE UNCHANGED vars
  BY <1>8 DEF vars, IInv, TypeOK, NothingCached
<1> QED BY <1>1, <1>2, <1>3, <1>4, <1>5, <1>6, <1>7, <1>8 DEF Next, DatabaseNext

LEMMA PhasesStep ==
  ASSUME IInv, [Next]_vars
  PROVE  Phases'
<1> USE DEF storeVars, sessionVars
<1>1. CASE CreateStore
  BY <1>1 DEF CreateStore, IInv, Phases
<1>2. CASE AddRoot
  <2>1. Root \in Keys
    BY IndexedDbAssumption DEF Keys, Root
  <2> QED BY <1>2, <2>1 DEF AddRoot, IInv, Phases, TypeOK
<1>3. CASE OpenStore
  BY <1>3 DEF OpenStore, IInv, Phases
<1>4. CASE Reload
  BY <1>4 DEF Reload, IInv, Phases
<1>5. ASSUME NEW h \in Handles, NEW n \in Names, EntryNext(h, n)
      PROVE  Phases'
  <2>1. ASSUME NEW is \in {"folder", "file", "mount"}, AddRecord(h, n, is),
               UNCHANGED <<phase, session, lookups>>
        PROVE  Phases'
    <3>1. phase = "ready" /\ session = "open"
      BY <2>1, AddFacts DEF AddRecord, Works
    <3>2. Root \in Keys /\ nextKey # Root
      BY <2>1, AddFacts, IndexedDbAssumption DEF Keys, Root
    <3>3. kind'[Root] = "folder"
      BY <2>1, <3>1, <3>2, AddFacts DEF IInv, Phases
    <3> QED BY <2>1, <3>1, <3>3 DEF Phases
  <2>2. CASE MakeFolder(h, n)
    BY <2>1, <2>2 DEF MakeFolder
  <2>3. CASE MakeFile(h, n)
    BY <2>1, <2>3 DEF MakeFile
  <2>4. CASE MountHandle(h, n)
    BY <2>1, <2>4 DEF MountHandle
  <2>5. CASE GetFolder(h, n) \/ ListFolder(h, n) \/ LookUpMount(h, n) \/ RemoveMissing(h, n)
    BY <2>5 DEF GetFolder, ListFolder, LookUpMount, RemoveMissing, Works, IInv, Phases
  <2>6. ASSUME NEW recursive \in BOOLEAN, NEW onlyExternal \in BOOLEAN,
               RemoveEntry(h, n, recursive, onlyExternal)
        PROVE  Phases'
    <3>1. phase = "ready" /\ session = "open" /\ UNCHANGED <<phase, session>>
      BY <2>6, RemoveFacts DEF RemoveEntry, Works
    <3>2. Root \in Keys
      BY IndexedDbAssumption DEF Keys, Root
    <3>3. kind'[Root] = kind[Root]
      BY <2>6, <3>2, RemoveFacts
    <3> QED BY <3>1, <3>3 DEF IInv, Phases
  <2> QED BY <1>5, <2>2, <2>3, <2>4, <2>5, <2>6 DEF EntryNext
<1>6. ASSUME NEW l \in lookups, MountFound(l) \/ MountNotFound(l)
      PROVE  Phases'
  <2>1. session = "open"
    BY <1>6 DEF IInv, Phases
  <2> QED BY <1>6, <2>1 DEF MountFound, MountNotFound, EndLookUp, IInv, Phases
<1>7. ASSUME NEW k \in Keys, CreateWritable(k) \/ CloseSink(k)
      PROVE  Phases'
  BY <1>7 DEF CreateWritable, CloseSink, IInv, Phases
<1>8. CASE UNCHANGED vars
  BY <1>8 DEF vars, IInv, Phases
<1> QED BY <1>1, <1>2, <1>3, <1>4, <1>5, <1>6, <1>7, <1>8 DEF Next, DatabaseNext

LEMMA TreeStep ==
  ASSUME IInv, [Next]_vars
  PROVE  TreeInv'
<1> USE DEF storeVars, sessionVars
<1>1. CASE CreateStore \/ OpenStore \/ Reload
  BY <1>1, TreeStays DEF CreateStore, OpenStore, Reload, StoreStays
<1>2. CASE AddRoot
  BY <1>2, TreeRoot
<1>3. ASSUME NEW h \in Handles, NEW n \in Names, EntryNext(h, n)
      PROVE  TreeInv'
  <2>1. CASE MakeFolder(h, n) \/ MakeFile(h, n) \/ MountHandle(h, n)
    BY <2>1, TreeAdd DEF MakeFolder, MakeFile, MountHandle
  <2>2. CASE GetFolder(h, n) \/ ListFolder(h, n) \/ LookUpMount(h, n) \/ RemoveMissing(h, n)
    BY <2>2, TreeStays DEF GetFolder, ListFolder, LookUpMount, RemoveMissing, StoreStays
  <2>3. ASSUME NEW recursive \in BOOLEAN, NEW onlyExternal \in BOOLEAN,
               RemoveEntry(h, n, recursive, onlyExternal)
        PROVE  TreeInv'
    BY <2>3, TreeRemove
  <2> QED BY <1>3, <2>1, <2>2, <2>3 DEF EntryNext
<1>4. ASSUME NEW l \in lookups, MountFound(l) \/ MountNotFound(l)
      PROVE  TreeInv'
  <2>1. UNCHANGED <<kind, entries, nextKey>>
    BY <1>4 DEF MountFound, MountNotFound
  <2>2. mistaken => mistaken'
    BY <1>4, Zenon DEF MountFound, MountNotFound
  <2> QED BY <2>1, <2>2, TreeStays DEF StoreStays
<1>5. ASSUME NEW k \in Keys, CreateWritable(k) \/ CloseSink(k)
      PROVE  TreeInv'
  BY <1>5, TreeStays DEF CreateWritable, CloseSink, StoreStays
<1>6. CASE UNCHANGED vars
  BY <1>6, TreeStays DEF vars, StoreStays
<1> QED BY <1>1, <1>2, <1>3, <1>4, <1>5, <1>6 DEF Next, DatabaseNext

\* No kind changes but to "absent", old handles and lookups stay what they are,
\* and a new handle is of a folder, or foreign, or a mistake.
KindsStay ==
  /\ nextKey' \in Nat /\ nextKey' >= nextKey /\ nextKey > Root
  /\ \A k \in Keys : k < nextKey => kind'[k] \in {"absent", kind[k]}
  /\ mistaken => mistaken'
  /\ foreign \subseteq foreign'
  /\ \A g \in 1 .. handles' :
       IF g \in 1 .. handles THEN of'[g] = of[g]
       ELSE /\ of'[g] < nextKey' /\ of'[g] \in Keys
            /\ g \in foreign' \/ kind'[of'[g]] \in {"absent", "folder"}
               \/ (kind'[of'[g]] = "mount" /\ mistaken')
  /\ \A l \in lookups' :
       l \in lookups \/ (l.key < nextKey' /\ kind'[l.key] \in {"absent", "mount"})

LEMMA KindsKept ==
  ASSUME IInv, KindsStay
  PROVE  HandleKinds'
<1>1. nextKey \in Nat /\ nextKey' \in Nat /\ nextKey' >= nextKey /\ nextKey > Root
  BY IndexedDbAssumption DEF KindsStay, IInv, TypeOK
<1>2. ASSUME NEW g \in 1 .. handles'
      PROVE  /\ of'[g] < nextKey'
             /\ g \notin foreign' =>
                  kind'[of'[g]] \in {"absent", "folder"} \/ (kind'[of'[g]] = "mount" /\ mistaken')
  <2>1. CASE g \in 1 .. handles
    <3>1. of'[g] = of[g] /\ of[g] \in Keys /\ of[g] < nextKey
      BY <1>1, <2>1, IndexedDbAssumption DEF KindsStay, IInv, TypeOK, HandleKinds, Handles, Keys
    <3>2. of[g] < nextKey'
      BY <1>1, <3>1 DEF Keys
    <3>3. kind'[of[g]] \in {"absent", kind[of[g]]}
      BY <3>1 DEF KindsStay
    <3>4. g \notin foreign' =>
            kind[of[g]] \in {"absent", "folder"} \/ (kind[of[g]] = "mount" /\ mistaken)
      BY <2>1 DEF KindsStay, IInv, HandleKinds
    <3> QED BY <3>1, <3>2, <3>3, <3>4 DEF KindsStay
  <2>2. CASE g \notin 1 .. handles
    BY <2>2 DEF KindsStay
  <2> QED BY <2>1, <2>2
<1>3. ASSUME NEW l \in lookups'
      PROVE  l.key < nextKey' /\ kind'[l.key] \in {"absent", "mount"}
  <2>1. CASE l \in lookups
    <3>1. l.key \in Keys /\ l.key < nextKey /\ kind[l.key] \in {"absent", "mount"}
      BY <2>1 DEF IInv, TypeOK, HandleKinds
    <3>2. l.key < nextKey'
      BY <1>1, <3>1 DEF Keys
    <3> QED BY <3>1, <3>2 DEF KindsStay
  <2>2. CASE l \notin lookups
    BY <2>2 DEF KindsStay
  <2> QED BY <2>1, <2>2
<1> QED BY <1>2, <1>3 DEF HandleKinds

LEMMA KindsStep ==
  ASSUME IInv, [Next]_vars
  PROVE  HandleKinds'
<1> USE DEF storeVars, sessionVars
<1>1. CASE CreateStore \/ Reload
  BY <1>1 DEF CreateStore, Reload, IInv, Phases, HandleKinds
<1>2. CASE AddRoot \/ OpenStore
  <2>1. /\ Root \in Keys /\ NewHandle(Root) /\ handles = 0 /\ lookups' = {}
        /\ kind'[Root] \in {"absent", "folder"}
        /\ Root < nextKey' \/ nextKey' = Root
    <3>1. Root \in Keys
      BY IndexedDbAssumption DEF Keys, Root
    <3>2. CASE AddRoot
      BY <3>1, <3>2 DEF AddRoot, IInv, Phases, TypeOK, Root
    <3>3. CASE OpenStore
      BY <3>1, <3>3 DEF OpenStore, IInv, Phases, TypeOK
    <3> QED BY <1>2, <3>2, <3>3
  <2>2. handles' = 1 /\ of'[1] = Root
    BY <2>1, NewHandleFacts DEF IInv
  <2>3. \A g \in 1 .. handles' : g = 1
    BY <2>2
  <2> QED BY <2>1, <2>2, <2>3 DEF HandleKinds
<1>3. ASSUME NEW k \in Keys, NewHandle(k)
      PROVE  /\ 1 .. handles' = (1 .. handles) \cup {handles + 1}
             /\ \A g \in 1 .. handles : of'[g] = of[g]
             /\ of'[handles + 1] = k
  <2>1. /\ handles \in Nat /\ handles + 1 \in Handles /\ handles' = handles + 1
        /\ \A g \in Handles : of'[g] = IF g = handles + 1 THEN k ELSE of[g]
    BY <1>3, NewHandleFacts DEF IInv
  <2>2. 1 .. handles' = (1 .. handles) \cup {handles + 1}
    BY <2>1
  <2>3. \A g \in 1 .. handles : g \in Handles /\ g # handles + 1
    BY <2>1, IndexedDbAssumption DEF Handles
  <2> QED BY <2>1, <2>2, <2>3
<1>4. ASSUME NEW h \in Handles, NEW n \in Names, EntryNext(h, n)
      PROVE  HandleKinds'
  <2> USE DEF KindsStay
  <2>1. nextKey \in Nat /\ nextKey > Root
    BY <1>4, WorksFacts DEF EntryNext, MakeFolder, MakeFile, MountHandle, AddRecord, GetFolder,
         ListFolder, LookUpMount, RemoveMissing, RemoveEntry, IInv, TypeOK
  <2>2. ASSUME NEW is \in {"folder", "file", "mount"}, AddRecord(h, n, is)
        PROVE  /\ nextKey' \in Nat /\ nextKey < nextKey' /\ nextKey \in Keys
               /\ \A k \in Keys : k < nextKey => kind'[k] = kind[k]
               /\ kind'[nextKey] = is
    BY <2>1, <2>2, AddFacts DEF Keys
  <2>3. CASE MakeFolder(h, n)
    <3>1. AddRecord(h, n, "folder") /\ NewHandle(nextKey) /\ UNCHANGED <<foreign, lookups, mistaken>>
      BY <2>3 DEF MakeFolder
    <3> QED BY <1>3, <2>1, <2>2, <3>1, KindsKept
  <2>4. CASE MakeFile(h, n) \/ MountHandle(h, n)
    <3>1. /\ AddRecord(h, n, "file") \/ AddRecord(h, n, "mount")
          /\ UNCHANGED <<handles, of, foreign, lookups, mistaken>>
      BY <2>4 DEF MakeFile, MountHandle
    <3> QED BY <2>1, <2>2, <3>1, KindsKept
  <2>5. CASE GetFolder(h, n) \/ ListFolder(h, n)
    <3>1. /\ Works(h) /\ EntryAt(h, n).is = "folder" /\ NewHandle(EntryAt(h, n).id)
          /\ UNCHANGED <<kind, nextKey, foreign, lookups, mistaken>>
      BY <2>5 DEF GetFolder, ListFolder
    <3>2. /\ EntryAt(h, n).id \in Keys /\ EntryAt(h, n).id < nextKey
          /\ kind[EntryAt(h, n).id] = "folder"
      BY <3>1, EntryOf
    <3> QED BY <1>3, <2>1, <3>1, <3>2, KindsKept
  <2>6. CASE LookUpMount(h, n)
    <3>1. /\ Works(h) /\ EntryAt(h, n).is = "mount"
          /\ lookups' = lookups \cup {[by |-> h, name |-> n, key |-> EntryAt(h, n).id]}
          /\ UNCHANGED <<kind, nextKey, handles, of, foreign, mistaken>>
      BY <2>6 DEF LookUpMount
    <3>2. EntryAt(h, n).id < nextKey /\ kind[EntryAt(h, n).id] = "mount"
      BY <3>1, EntryOf
    <3> QED BY <2>1, <3>1, <3>2, KindsKept
  <2>7. CASE RemoveMissing(h, n)
    BY <2>1, <2>7, KindsKept DEF RemoveMissing
  <2>8. ASSUME NEW recursive \in BOOLEAN, NEW onlyExternal \in BOOLEAN,
               RemoveEntry(h, n, recursive, onlyExternal)
        PROVE  HandleKinds'
    <3>1. \A k \in Keys : kind'[k] \in {"absent", kind[k]}
      BY <2>8, RemoveFacts
    <3>2. UNCHANGED <<nextKey, handles, of, foreign, lookups, mistaken>>
      BY <2>8 DEF RemoveEntry
    <3> QED BY <2>1, <3>1, <3>2, KindsKept
  <2> QED BY <1>4, <2>3, <2>4, <2>5, <2>6, <2>7, <2>8 DEF EntryNext
<1>5. ASSUME NEW l \in lookups, MountFound(l) \/ MountNotFound(l)
      PROVE  HandleKinds'
  <2>1. /\ NewHandle(l.key) /\ lookups' \subseteq lookups /\ foreign \subseteq foreign'
        /\ UNCHANGED <<kind, nextKey>>
    BY <1>5 DEF MountFound, MountNotFound, EndLookUp
  <2>2. /\ l.key \in Keys /\ l.key < nextKey /\ kind[l.key] \in {"absent", "mount"}
    BY DEF IInv, TypeOK, HandleKinds
  <2>3. mistaken => mistaken'
    BY <1>5, Zenon DEF MountFound, MountNotFound
  <2>4. handles + 1 \in foreign' \/ kind[l.key] = "absent" \/ mistaken'
    BY <1>5, Zenon DEF MountFound, MountNotFound
  <2>5. nextKey \in Nat /\ nextKey > Root
    BY <2>2, IndexedDbAssumption DEF IInv, TypeOK, Keys, Root
  <2> QED BY <1>3, <2>1, <2>2, <2>3, <2>4, <2>5, KindsKept DEF KindsStay
<1>6. ASSUME UNCHANGED <<kind, nextKey, handles, of, foreign, lookups, mistaken>>
      PROVE  HandleKinds'
  BY <1>6 DEF IInv, HandleKinds
<1>7. ASSUME NEW k \in Keys, CreateWritable(k) \/ CloseSink(k)
      PROVE  HandleKinds'
  BY <1>6, <1>7 DEF CreateWritable, CloseSink
<1>8. CASE UNCHANGED vars
  BY <1>6, <1>8 DEF vars
<1> QED BY <1>1, <1>2, <1>4, <1>5, <1>7, <1>8 DEF Next, DatabaseNext

\* An entry of a folder that stays there is the same, or its change is recorded.
SlotKept(f, m) ==
  kind'[f] # "absent" =>
    kind[f] # "absent" /\ (entries'[f][m].id = entries[f][m].id \/ <<f, m>> \in disturbed')

\* What is in a cache was there before, or is the new handle, of the entry.
CachesStay ==
  /\ handles' \in {handles, handles + 1}
  /\ \A g \in 1 .. handles : of'[g] = of[g]
  /\ disturbed \subseteq disturbed'
  /\ \A g \in Handles, m \in Names :
       \/ cache'[g][m] = 0
       \/ cache'[g][m] = cache[g][m] /\ (g \in 1 .. handles => SlotKept(of[g], m))
       \/ /\ handles' = handles + 1 /\ cache'[g][m] = handles + 1 /\ g \in 1 .. handles
          /\ \/ entries'[of[g]][m].id = of'[handles + 1]
             \/ <<of[g], m>> \in disturbed'
             \/ kind'[of[g]] = "absent"
  /\ \A l \in lookups' :
       \/ l \in lookups /\ SlotKept(of[l.by], l.name)
       \/ l.by \in 1 .. handles /\ entries'[of[l.by]][l.name].id = l.key

LEMMA CachesKept ==
  ASSUME IInv, CachesStay, handles' <= MaxHandles
  PROVE  CachesInv'
<1>1. /\ handles \in Nat /\ handles' \in Nat
      /\ \A g \in Handles : g \in Nat
      /\ \A g \in Handles, m \in Names :
           cache[g][m] \in 0 .. handles /\ (g \notin 1 .. handles => cache[g][m] = 0)
      /\ \A l \in lookups : l.by \in 1 .. handles /\ l.name \in Names
      /\ 1 .. handles \subseteq Handles
  <2>1. handles \in Nat /\ handles' \in Nat /\ \A g \in Handles : g \in Nat
    BY IndexedDbAssumption DEF CachesStay, IInv, TypeOK, Handles
  <2>2. \A g \in Handles, m \in Names : cache[g][m] \in Nat /\ cache[g][m] <= handles
    BY IndexedDbAssumption DEF IInv, TypeOK, CachesInv
  <2>3. \A g \in Handles, m \in Names : g \notin 1 .. handles => cache[g][m] = 0
    BY <2>1 DEF IInv, TypeOK, NothingCached, Handles
  <2>4. \A l \in lookups : l.by \in 1 .. handles /\ l.name \in Names
    BY DEF IInv, TypeOK
  <2>5. 1 .. handles \subseteq Handles
    BY IndexedDbAssumption DEF IInv, TypeOK, Handles
  <2> QED BY <2>1, <2>2, <2>3, <2>4, <2>5
<1>2. ASSUME NEW g \in Handles, NEW m \in Names
      PROVE  cache'[g][m] <= handles'
  <2>1. cache'[g][m] \in {0, cache[g][m]} \/ cache'[g][m] = handles'
    BY DEF CachesStay
  <2>2. cache[g][m] \in 0 .. handles /\ handles <= handles'
    BY <1>1 DEF CachesStay
  <2> QED BY <1>1, <2>1, <2>2
<1>3. ASSUME NEW g \in 1 .. handles', NEW m \in Names,
             cache'[g][m] # 0, kind'[of'[g]] # "absent"
      PROVE  entries'[of'[g]][m].id = of'[cache'[g][m]] \/ <<of'[g], m>> \in disturbed'
  <2>1. g \in Handles
    BY <1>1, IndexedDbAssumption DEF Handles
  <2>2. CASE cache'[g][m] = cache[g][m] /\ (g \in 1 .. handles => SlotKept(of[g], m))
    <3>1. g \in 1 .. handles /\ cache[g][m] \in 1 .. handles
      BY <1>1, <1>3, <2>1, <2>2
    <3>2. of'[g] = of[g] /\ of'[cache[g][m]] = of[cache[g][m]]
      BY <3>1 DEF CachesStay
    <3>3. entries[of[g]][m].id = of[cache[g][m]] \/ <<of[g], m>> \in disturbed
      BY <1>3, <2>2, <3>1, <3>2 DEF SlotKept, IInv, CachesInv, CacheCoherent
    <3> QED BY <1>3, <2>2, <3>1, <3>2, <3>3 DEF SlotKept, CachesStay
  <2>3. CASE cache'[g][m] = handles + 1
    BY <1>1, <1>3, <2>1, <2>2, <2>3 DEF CachesStay
  <2> QED BY <1>3, <2>1, <2>2, <2>3 DEF CachesStay
<1>4. ASSUME NEW l \in lookups', kind'[of'[l.by]] # "absent"
      PROVE  entries'[of'[l.by]][l.name].id = l.key \/ <<of'[l.by], l.name>> \in disturbed'
  BY <1>1, <1>4 DEF CachesStay, SlotKept, IInv, CachesInv
<1> QED BY <1>2, <1>3, <1>4 DEF CachesInv, CacheCoherent

LEMMA CachesStep ==
  ASSUME IInv, [Next]_vars
  PROVE  CachesInv'
<1> USE DEF storeVars, sessionVars
<1>1. handles \in Nat /\ handles' <= MaxHandles /\ 1 .. handles \subseteq Handles
  BY TypesStep, IndexedDbAssumption DEF IInv, TypeOK, Handles
<1>2. CASE CreateStore
  BY <1>1, <1>2, CachesKept DEF CreateStore, CachesStay, SlotKept
<1>3. CASE AddRoot \/ OpenStore
  <2>1. handles = 0 /\ lookups = {} /\ UNCHANGED <<cache, lookups, disturbed>> /\ handles' = 1
    BY <1>3 DEF AddRoot, OpenStore, NewHandle, IInv, Phases
  <2>2. \A g \in Handles, m \in Names : cache[g][m] = 0
    BY <2>1 DEF IInv, TypeOK, NothingCached, Handles
  <2> QED BY <1>1, <2>1, <2>2, CachesKept DEF CachesStay
<1>4. CASE Reload
  <2>1. handles' = 0 /\ lookups' = {} /\ cache' = [h \in Handles |-> NothingCached]
    BY <1>4 DEF Reload
  <2>2. \A g \in Handles, m \in Names : cache'[g][m] = 0
    BY <2>1 DEF NothingCached
  <2> QED BY <2>1, <2>2 DEF CachesInv, CacheCoherent
\* Where entries stay and nothing new is in a cache.
<1>5. ASSUME UNCHANGED <<kind, entries, cache, lookups, disturbed>>,
             UNCHANGED <<handles, of>> \/ \E k \in Keys : NewHandle(k)
      PROVE  CachesInv'
  <2>1. /\ handles' \in {handles, handles + 1}
        /\ \A g \in 1 .. handles : of'[g] = of[g]
    <3>1. CASE UNCHANGED <<handles, of>>
      BY <3>1
    <3>2. ASSUME NEW k \in Keys, NewHandle(k)
          PROVE  <2>1
      <4>1. handles' = handles + 1 /\ \A g \in Handles : g # handles + 1 => of'[g] = of[g]
        BY <3>2, NewHandleFacts DEF IInv
      <4> QED BY <1>1, <4>1
    <3> QED BY <1>5, <3>1, <3>2
  <2> QED BY <1>1, <1>5, <2>1, CachesKept DEF CachesStay, SlotKept
\* Where entries stay and the new handle, of k, is in the cache of h.
<1>6. ASSUME NEW h \in 1 .. handles, NEW n \in Names, NEW k \in Keys, NewHandle(k),
             UNCHANGED <<kind, entries, disturbed>>, lookups' \subseteq lookups,
             cache' = [cache EXCEPT ![h][n] = handles + 1],
             \/ entries[of[h]][n].id = k
             \/ <<of[h], n>> \in disturbed
             \/ kind[of[h]] = "absent"
      PROVE  CachesInv'
  <2>1. /\ handles' = handles + 1 /\ of'[handles + 1] = k
        /\ \A g \in 1 .. handles : of'[g] = of[g]
    <3>1. /\ handles' = handles + 1 /\ handles + 1 \in Handles
          /\ \A g \in Handles : of'[g] = IF g = handles + 1 THEN k ELSE of[g]
      BY <1>6, NewHandleFacts DEF IInv
    <3>2. \A g \in 1 .. handles : g # handles + 1
      BY <1>1
    <3> QED BY <1>1, <3>1, <3>2
  <2>2. \A g \in Handles, m \in Names :
          cache'[g][m] = IF g = h /\ m = n THEN handles + 1 ELSE cache[g][m]
    <3>1. OneCached(h, n, handles + 1)
      BY <1>1, <1>6, <2>1 DEF OneCached
    <3> QED BY <3>1, CachedTypes DEF IInv
  <2> QED BY <1>1, <1>6, <2>1, <2>2, CachesKept DEF CachesStay, SlotKept
<1>7. ASSUME NEW h \in Handles, NEW n \in Names, EntryNext(h, n)
      PROVE  CachesInv'
  <2>1. ASSUME NEW is \in {"folder", "file", "mount"}, AddRecord(h, n, is),
               UNCHANGED <<cache, lookups, disturbed>>,
               UNCHANGED <<handles, of>> \/ NewHandle(nextKey)
        PROVE  CachesInv'
    <3>1. ASSUME NEW g \in 1 .. handles, NEW m \in Names,
                 cache[g][m] # 0 \/ \E l \in lookups : l.by = g /\ l.name = m
          PROVE  SlotKept(of[g], m)
      <4> SUFFICES ASSUME kind'[of[g]] # "absent"
                   PROVE  /\ kind[of[g]] # "absent"
                          /\ \/ entries'[of[g]][m].id = entries[of[g]][m].id
                             \/ <<of[g], m>> \in disturbed
        BY <2>1 DEF SlotKept
      <4>1. of[g] \in Keys /\ of[g] # nextKey
        <5>1. of[g] \in Keys
          BY <1>1, IndexedDbAssumption DEF IInv, TypeOK, Handles, Keys
        <5>2. nextKey > Root /\ nextKey \in Keys
          BY <2>1, AddFacts
        <5> QED BY <5>1, <5>2 DEF IInv, HandleKinds, Keys, Root
      <4>2. kind[of[g]] # "absent"
        BY <2>1, <4>1, AddFacts
      <4>3. CASE of[g] = of[h] /\ m = n
        <5>1. entries[of[g]][m].id = 0
          BY <2>1, <4>3, AddFacts DEF NoEntry
        <5>2. CASE cache[g][m] # 0
          <6>1. cache[g][m] \in 1 .. handles
            BY <1>1, <5>2, IndexedDbAssumption DEF IInv, TypeOK, CachesInv
          <6>2. of[cache[g][m]] # 0
            BY <1>1, <6>1 DEF IInv, TypeOK, Handles
          <6> QED BY <4>2, <5>1, <5>2, <6>2 DEF IInv, CachesInv, CacheCoherent
        <5>3. ASSUME NEW l \in lookups, l.by = g, l.name = m
              PROVE  <<of[g], m>> \in disturbed
          <6>1. l.key # 0
            BY DEF IInv, TypeOK, Keys
          <6> QED BY <4>2, <5>1, <5>3, <6>1 DEF IInv, CachesInv
        <5> QED BY <3>1, <4>2, <5>2, <5>3
      <4>4. CASE ~(of[g] = of[h] /\ m = n)
        BY <2>1, <4>1, <4>2, <4>4, AddFacts
      <4> QED BY <4>3, <4>4
    <3>2. /\ handles' \in {handles, handles + 1}
          /\ \A g \in 1 .. handles : of'[g] = of[g]
      <4>1. CASE UNCHANGED <<handles, of>>
        BY <4>1
      <4>2. CASE NewHandle(nextKey)
        <5>1. nextKey \in Keys
          BY <2>1, AddFacts
        <5>2. handles' = handles + 1 /\ \A g \in Handles : g # handles + 1 => of'[g] = of[g]
          BY <4>2, <5>1, NewHandleFacts DEF IInv
        <5> QED BY <1>1, <5>2
      <4> QED BY <2>1, <4>1, <4>2
    <3>3. \A g \in Handles, m \in Names :
            cache[g][m] = 0 \/ (g \in 1 .. handles => SlotKept(of[g], m))
      BY <3>1
    <3>4. \A l \in lookups : SlotKept(of[l.by], l.name)
      <4>1. \A l \in lookups : l.by \in 1 .. handles /\ l.name \in Names
        BY DEF IInv, TypeOK
      <4> QED BY <3>1, <4>1
    <3> QED BY <1>1, <2>1, <3>2, <3>3, <3>4, CachesKept DEF CachesStay
  <2>2. CASE MakeFolder(h, n) \/ MakeFile(h, n) \/ MountHandle(h, n)
    BY <2>1, <2>2 DEF MakeFolder, MakeFile, MountHandle
  <2>3. CASE GetFolder(h, n)
    <3>1. /\ Works(h) /\ EntryAt(h, n).is = "folder" /\ NewHandle(EntryAt(h, n).id)
          /\ cache' = [cache EXCEPT ![h][n] = handles + 1]
          /\ UNCHANGED <<kind, entries, disturbed, lookups>>
      BY <2>3 DEF GetFolder
    <3>2. EntryAt(h, n).id \in Keys /\ h \in 1 .. handles
      BY <3>1, EntryOf, WorksFacts
    <3> QED BY <1>6, <3>1, <3>2 DEF EntryAt
  <2>4. CASE ListFolder(h, n)
    <3>1. Works(h) /\ EntryAt(h, n).is = "folder" /\ NewHandle(EntryAt(h, n).id)
      BY <2>4 DEF ListFolder
    <3>2. EntryAt(h, n).id \in Keys
      BY <3>1, EntryOf
    <3> QED BY <1>5, <2>4, <3>1, <3>2 DEF ListFolder
  <2>5. CASE LookUpMount(h, n)
    <3>1. h \in 1 .. handles
      BY <2>5, WorksFacts DEF LookUpMount
    <3>2. /\ lookups' = lookups \cup {[by |-> h, name |-> n, key |-> entries[of[h]][n].id]}
          /\ UNCHANGED <<kind, entries, handles, of, cache, disturbed>>
      BY <2>5 DEF LookUpMount, EntryAt
    <3> QED BY <1>1, <3>1, <3>2, CachesKept DEF CachesStay, SlotKept
  <2>6. CASE RemoveMissing(h, n)
    <3>1. \A g \in Handles, m \in Names : cache'[g][m] \in {0, cache[g][m]}
      BY <2>6 DEF RemoveMissing, CacheWithout, IInv, TypeOK
    <3> QED BY <1>1, <2>6, <3>1, CachesKept DEF RemoveMissing, CachesStay, SlotKept
  <2>7. ASSUME NEW recursive \in BOOLEAN, NEW onlyExternal \in BOOLEAN,
               RemoveEntry(h, n, recursive, onlyExternal)
        PROVE  CachesInv'
    <3> DEFINE gone == Gone(EntryAt(h, n), recursive, onlyExternal)
    <3>1. /\ h \in 1 .. handles /\ of[h] \in Keys
          /\ \A k \in Keys : kind'[k] = IF k \in gone THEN "absent" ELSE kind[k]
          /\ \A k \in Keys, m \in Names :
               entries'[k][m] = IF k \in gone \/ (k = of[h] /\ m = n) THEN NoEntry
                                ELSE entries[k][m]
      BY <2>7, RemoveFacts
    <3>2. /\ cache' = [cache EXCEPT ![h][n] = 0]
          /\ disturbed \subseteq disturbed'
          /\ BehindTheBack(h, n) => <<of[h], n>> \in disturbed'
          /\ UNCHANGED <<handles, of, lookups>>
      BY <2>7 DEF RemoveEntry, CacheWithout
    <3>3. \A g \in Handles, m \in Names :
            cache'[g][m] = IF g = h /\ m = n THEN 0 ELSE cache[g][m]
      BY <3>2 DEF IInv, TypeOK
    <3>4. ASSUME NEW g \in 1 .. handles, NEW m \in Names,
                 of[g] = of[h] /\ m = n => BehindTheBack(h, n)
          PROVE  SlotKept(of[g], m)
      <4>1. of[g] \in Keys
        BY <1>1, IndexedDbAssumption DEF IInv, TypeOK, Handles, Keys
      <4> QED BY <3>1, <3>2, <3>4, <4>1 DEF SlotKept
    <3>5. \A g \in Handles, m \in Names :
            \/ cache'[g][m] = 0
            \/ cache'[g][m] = cache[g][m] /\ (g \in 1 .. handles => SlotKept(of[g], m))
      <4> SUFFICES ASSUME NEW g \in 1 .. handles, NEW m \in Names, cache[g][m] # 0,
                          ~(g = h /\ m = n)
                   PROVE  SlotKept(of[g], m)
        BY <3>3
      <4>1. of[g] = of[h] /\ m = n => BehindTheBack(h, n)
        BY DEF BehindTheBack
      <4> QED BY <3>4, <4>1
    <3>6. \A l \in lookups : SlotKept(of[l.by], l.name)
      <4> TAKE l \in lookups
      <4>1. l.by \in 1 .. handles /\ l.name \in Names
        BY DEF IInv, TypeOK
      <4>2. of[l.by] = of[h] /\ l.name = n => BehindTheBack(h, n)
        BY DEF BehindTheBack
      <4> QED BY <3>4, <4>1, <4>2
    <3> QED BY <1>1, <3>2, <3>5, <3>6, CachesKept DEF CachesStay
  <2> QED BY <1>7, <2>2, <2>3, <2>4, <2>5, <2>6, <2>7 DEF EntryNext
<1>8. ASSUME NEW l \in lookups, MountFound(l) \/ MountNotFound(l)
      PROVE  CachesInv'
  <2>1. /\ NewHandle(l.key) /\ lookups' \subseteq lookups
        /\ cache' = [cache EXCEPT ![l.by][l.name] = handles + 1]
        /\ UNCHANGED <<kind, entries, disturbed>>
    BY <1>8 DEF MountFound, MountNotFound, EndLookUp
  <2>2. l.by \in 1 .. handles /\ l.name \in Names /\ l.key \in Keys
    BY DEF IInv, TypeOK
  <2>3. \/ entries[of[l.by]][l.name].id = l.key
        \/ <<of[l.by], l.name>> \in disturbed
        \/ kind[of[l.by]] = "absent"
    BY DEF IInv, CachesInv
  <2> QED BY <1>6, <2>1, <2>2, <2>3
<1>9. ASSUME NEW k \in Keys, CreateWritable(k) \/ CloseSink(k)
      PROVE  CachesInv'
  BY <1>5, <1>9 DEF CreateWritable, CloseSink
<1>10. CASE UNCHANGED vars
  BY <1>5, <1>10 DEF vars
<1> QED BY <1>2, <1>3, <1>4, <1>7, <1>8, <1>9, <1>10 DEF Next, DatabaseNext

LEMMA InitInv ==
  ASSUME Init
  PROVE  IInv
<1> USE IndexedDbAssumption
<1>1. TypeOK
  <2>1. kind \in [Keys -> {"absent", "folder", "file", "mount"}]
    BY DEF Init
  <2>2. entries \in [Keys -> [Names -> Entries]]
    BY DEF Init, Empty, Entries
  <2>3. of \in [Handles -> 0 .. MaxKeys] /\ cache \in [Handles -> [Names -> 0 .. MaxHandles]]
    BY DEF Init, NothingCached
  <2>4. nextKey \in 1 .. MaxKeys + 1 /\ handles \in 0 .. MaxHandles
    BY DEF Init, Root
  <2>5. \A h \in Handles : h \in Nat /\ ~(h <= handles) /\ of[h] = 0 /\ cache[h] = NothingCached
    BY DEF Init, Handles
  <2> QED BY <2>1, <2>2, <2>3, <2>4, <2>5 DEF Init, TypeOK
<1>2. Phases /\ HandleKinds
  BY DEF Init, Phases, HandleKinds
<1>3. TreeInv
  BY DEF Init, TreeInv, LeavesAreEmpty, Upwards, TreeIsSound, NothingDangles, OneParent,
         NothingIsOrphaned, Empty
<1>4. CachesInv
  BY DEF Init, CachesInv, CacheCoherent, NothingCached
<1> QED BY <1>1, <1>2, <1>3, <1>4 DEF IInv

LEMMA StepInv ==
  ASSUME IInv, [Next]_vars
  PROVE  IInv'
  BY TypesStep, PhasesStep, KindsStep, TreeStep, CachesStep DEF IInv

LEMMA Invariance == Spec => []IInv
  BY InitInv, StepInv, PTL DEF Spec

-----------------------------------------------------------------------------
(* The theorems. *)

\* The store and the session stay what the code keeps, however many records
\* and handles there are and whenever the page is reloaded.
THEOREM TypeCorrect == Spec => []TypeOK
<1>1. IInv => TypeOK
  BY DEF IInv
<1> QED BY <1>1, Invariance, PTL

\* The records always form one tree below the root: no entry dangles, none is
\* shared, and no record is orphaned by a removal, a writer that is closed late
\* or a reload, unless a mount was taken for a folder.
THEOREM TreeStaysSound == Spec => []TreeIsSound
<1>1. IInv => TreeIsSound
  BY DEF IInv, TreeInv
<1> QED BY <1>1, Invariance, PTL

\* What a handle has in its cache is the handle for the entry of that name,
\* unless the entry was removed behind its back.
THEOREM CachesAreCoherent == Spec => []CacheCoherent
<1>1. IInv => CacheCoherent
  BY DEF IInv, CachesInv
<1> QED BY <1>1, Invariance, PTL

-----------------------------------------------------------------------------
(* The refinement. *)

\* The node that the entry e makes that folder f has under the name n.
NodeOf(f, n, e) == [in |-> f, name |-> n, id |-> e.id, is |-> e.is]

LEMMA NodesAre ==
  /\ \A x : x \in Nodes <=>
        \E f \in Keys, n \in Names :
          x = NodeOf(f, n, entries[f][n]) /\ kind[f] = "folder" /\ entries[f][n].is # "none"
  /\ \A x : x \in Nodes' <=>
        \E f \in Keys, n \in Names :
          x = NodeOf(f, n, entries'[f][n]) /\ kind'[f] = "folder" /\ entries'[f][n].is # "none"
  BY DEF Nodes, NodeOf

\* A step that changes no record and makes no mistake changes no node.
LEMMA NodesStay ==
  ASSUME UNCHANGED <<kind, entries>>
  PROVE  UNCHANGED Nodes
  BY DEF Nodes

LEMMA RefinesAdd ==
  ASSUME IInv, NEW h \in Handles, NEW n \in Names, NEW is \in {"folder", "file", "mount"},
         AddRecord(h, n, is), ~mistaken
  PROVE  Tree!Add
<1> DEFINE f == of[h]
           d == [in |-> f, name |-> n, id |-> nextKey, is |-> is]
<1>1. /\ f \in Keys /\ nextKey \in Keys /\ f < nextKey /\ f # nextKey
      /\ kind[nextKey] = "absent" /\ entries[nextKey] = Empty /\ entries[f][n] = NoEntry
      /\ \A k \in Keys : kind'[k] = IF k = nextKey THEN is ELSE kind[k]
      /\ \A k \in Keys, m \in Names :
           entries'[k][m] = IF k = f /\ m = n THEN [id |-> nextKey, is |-> is]
                            ELSE entries[k][m]
  BY AddFacts DEF Keys
<1>2. kind[f] = "folder"
  BY WorksFacts DEF AddRecord
<1>3. \A m \in Names : entries[nextKey][m].is = "none"
  BY <1>1 DEF Empty, NoEntry
<1>4. Nodes' = Nodes \cup {d}
  <2>1. d = NodeOf(f, n, entries'[f][n]) /\ kind'[f] = "folder" /\ entries'[f][n].is # "none"
    BY <1>1, <1>2 DEF NodeOf
  <2>2. ASSUME NEW k \in Keys, NEW m \in Names, ~(k = f /\ m = n)
        PROVE  /\ NodeOf(k, m, entries'[k][m]) = NodeOf(k, m, entries[k][m]) /\ entries'[k][m].is = entries[k][m].is
               /\ entries[k][m].is # "none" => kind'[k] = kind[k]
    BY <1>1, <1>3, <2>2 DEF NodeOf
  <2>3. entries[f][n].is = "none"
    BY <1>1 DEF NoEntry
  <2>4. \A x \in Nodes' : x \in Nodes \/ x = d
    BY <2>1, <2>2, NodesAre
  <2>5. \A x \in Nodes : x \in Nodes'
    BY <2>2, <2>3, NodesAre
  <2>6. d \in Nodes'
    BY <1>1, <2>1, NodesAre
  <2> QED BY <2>4, <2>5, <2>6
<1>5. d.in \in Tree!Folders
  <2>1. CASE f = Root
    BY <2>1 DEF Tree!Folders
  <2>2. CASE f # Root
    <3>1. PICK g \in Keys, m \in Names : kind[g] = "folder" /\ entries[g][m].id = f
      BY <1>1, <1>2, <2>2 DEF IInv, TreeInv, TreeIsSound, NothingIsOrphaned
    <3>2. entries[g][m] # NoEntry
      BY <1>1, <3>1 DEF NoEntry, Keys
    <3>3. entries[g][m].is = "folder"
      BY <1>2, <3>1, <3>2 DEF IInv, TreeInv, TreeIsSound, NothingDangles
    <3>4. NodeOf(g, m, entries[g][m]) \in Nodes /\ NodeOf(g, m, entries[g][m]).id = f /\ NodeOf(g, m, entries[g][m]).is = "folder"
      BY <3>1, <3>3, NodesAre DEF NodeOf
    <3> QED BY <3>4 DEF Tree!Folders
  <2> QED BY <2>1, <2>2
<1>6. ASSUME NEW x \in Nodes
      PROVE  x.id # d.id /\ (x.in = d.in => x.name # d.name)
  <2>1. PICK k \in Keys, m \in Names : x = NodeOf(k, m, entries[k][m]) /\ entries[k][m].is # "none"
    BY NodesAre
  <2>2. entries[k][m] # NoEntry
    BY <2>1 DEF NoEntry
  <2>3. kind[entries[k][m].id] = entries[k][m].is /\ entries[k][m].is # "absent"
    BY <2>2, EntryFacts DEF IInv, TreeInv, TreeIsSound, NothingDangles
  <2> QED BY <1>1, <2>1, <2>2, <2>3 DEF NodeOf
<1>7. d \in Nodes'
  BY <1>4
<1> QED BY <1>4, <1>5, <1>6, <1>7 DEF Tree!Add

LEMMA RefinesRemove ==
  ASSUME IInv, NEW h \in Handles, NEW n \in Names,
         NEW recursive \in BOOLEAN, NEW onlyExternal \in BOOLEAN,
         RemoveEntry(h, n, recursive, onlyExternal), ~mistaken
  PROVE  Tree!Remove
<1> DEFINE f == of[h]
           e == entries[f][n]
           d == NodeOf(f, n, e)
           gone == Gone(e, recursive, onlyExternal)
           removed == Nodes \ Nodes'
<1>1. Works(h) /\ e # NoEntry /\ MayRemove(e, recursive)
  BY DEF RemoveEntry, EntryAt
<1>2. f \in Keys /\ kind[f] = "folder"
  BY <1>1, WorksFacts
<1>3. /\ gone \subseteq Keys
      /\ \A j \in gone : j > f
      /\ gone # {} \/ e.is \in {"folder", "file"} => e.id \in gone
      /\ \A j \in gone \ {e.id} :
           \E g \in gone, m \in Names :
             /\ kind[g] = "folder"
             /\ entries[g][m].is \in {"folder", "file"}
             /\ entries[g][m].id = j
      /\ \A g \in gone, m \in Names :
           kind[g] = "folder" /\ entries[g][m] # NoEntry =>
             entries[g][m].is = "mount" \/ entries[g][m].id \in gone
  BY SMTT(20), <1>1, <1>2, GoneFacts DEF IInv
<1>4. f \notin gone
  BY <1>2, <1>3 DEF Keys
<1>5. /\ \A k \in Keys : kind'[k] = IF k \in gone THEN "absent" ELSE kind[k]
      /\ \A k \in Keys, m \in Names :
           entries'[k][m] = IF k \in gone \/ (k = f /\ m = n) THEN NoEntry
                            ELSE entries[k][m]
  BY RemoveFacts DEF EntryAt
\* What an entry of a folder makes is a node, and of the kind of its record.
<1>6. \A x \in Nodes :
        \E k \in Keys, m \in Names :
          /\ x = NodeOf(k, m, entries[k][m]) /\ kind[k] = "folder"
          /\ entries[k][m] # NoEntry /\ entries[k][m].is # "none"
          /\ kind[x.id] = x.is /\ x.in = k /\ x.id = entries[k][m].id
  <2> TAKE x \in Nodes
  <2>1. PICK k \in Keys, m \in Names :
          x = NodeOf(k, m, entries[k][m]) /\ kind[k] = "folder" /\ entries[k][m].is # "none"
    BY NodesAre
  <2>2. entries[k][m] # NoEntry
    BY <2>1 DEF NoEntry
  <2>3. kind[entries[k][m].id] = entries[k][m].is
    BY <2>2 DEF IInv, TreeInv, TreeIsSound, NothingDangles
  <2> QED BY <2>1, <2>2, <2>3 DEF NodeOf
<1>7. \A k \in Keys, m \in Names :
        kind[k] = "folder" /\ entries[k][m] # NoEntry => NodeOf(k, m, entries[k][m]) \in Nodes
  <2>1. \A k \in Keys, m \in Names : entries[k][m] # NoEntry => entries[k][m].is # "none"
    BY EntryFacts DEF IInv
  <2> QED BY <2>1, NodesAre
\* The entry's node goes, and those in the folders that go.
<1>8. Nodes' = {x \in Nodes : x # d /\ x.in \notin gone}
  <2>1. ASSUME NEW x \in Nodes'
        PROVE  x \in Nodes /\ x # d /\ x.in \notin gone
    <3>1. PICK k \in Keys, m \in Names :
            x = NodeOf(k, m, entries'[k][m]) /\ kind'[k] = "folder" /\ entries'[k][m].is # "none"
      BY NodesAre
    <3>2. k \notin gone /\ ~(k = f /\ m = n) /\ entries'[k][m] = entries[k][m] /\ kind[k] = "folder"
      BY <1>5, <3>1 DEF NoEntry
    <3>3. x.in = k /\ x.name = m
      BY <3>1 DEF NodeOf
    <3> QED BY <3>1, <3>2, <3>3, NodesAre DEF NodeOf
  <2>2. ASSUME NEW x \in Nodes, x # d, x.in \notin gone
        PROVE  x \in Nodes'
    <3>1. PICK k \in Keys, m \in Names :
            x = NodeOf(k, m, entries[k][m]) /\ kind[k] = "folder" /\ entries[k][m].is # "none"
      BY NodesAre
    <3>2. k \notin gone /\ ~(k = f /\ m = n)
      BY <2>2, <3>1 DEF NodeOf
    <3>3. entries'[k][m] = entries[k][m] /\ kind'[k] = kind[k]
      BY <1>5, <3>2
    <3> QED BY <3>1, <3>3, NodesAre
  <2> QED BY <2>1, <2>2
<1>9. d \in Nodes /\ d.in = f /\ d.id = e.id /\ d.is = e.is
  BY <1>1, <1>2, <1>7 DEF NodeOf
<1>10. removed = {x \in Nodes : x = d \/ x.in \in gone}
  BY <1>8
<1>11. ASSUME NEW x \in Nodes, x \in removed \ {d}
       PROVE  \E g \in removed : x.in = g.id
  <2>1. x.in \in gone
    BY <1>10, <1>11
  <2>2. CASE x.in = e.id
    BY <1>9, <1>10, <2>2
  <2>3. CASE x.in # e.id
    <3>1. PICK g \in gone, m \in Names :
            /\ kind[g] = "folder"
            /\ entries[g][m].is \in {"folder", "file"}
            /\ entries[g][m].id = x.in
      BY <1>3, <2>1, <2>3
    <3>2. g \in Keys /\ entries[g][m] # NoEntry
      BY <1>3, <3>1 DEF NoEntry
    <3>3. /\ NodeOf(g, m, entries[g][m]) \in Nodes
          /\ NodeOf(g, m, entries[g][m]).in = g
          /\ NodeOf(g, m, entries[g][m]).id = x.in
      BY <1>7, <3>1, <3>2 DEF NodeOf
    <3> QED BY <1>10, <3>3
  <2> QED BY <2>2, <2>3
<1>12. ASSUME NEW x \in Nodes, NEW g \in removed, x.in = g.id
       PROVE  x \in removed \ {d}
  <2>1. kind[x.in] = "folder" /\ kind[g.id] = g.is
    BY <1>6, <1>10
  <2>2. x.in \in gone
    <3>1. CASE g = d
      BY <1>3, <1>9, <1>12, <2>1, <3>1
    <3>2. CASE g # d
      <4>1. PICK k \in Keys, m \in Names :
              /\ kind[k] = "folder" /\ entries[k][m] # NoEntry
              /\ g = NodeOf(k, m, entries[k][m]) /\ g.in = k /\ g.id = entries[k][m].id
        BY <1>6, <1>10
      <4>2. k \in gone /\ entries[k][m].is = "folder"
        BY <1>10, <1>12, <2>1, <3>2, <4>1 DEF NodeOf
      <4> QED BY <1>3, <1>12, <4>1, <4>2
    <3> QED BY <3>1, <3>2
  <2> QED BY <1>4, <1>9, <1>10, <2>2
<1>13. d \in removed /\ Nodes' \subseteq Nodes
  BY <1>8, <1>9
<1> QED BY <1>11, <1>12, <1>13 DEF Tree!Remove

LEMMA RefinesInit ==
  ASSUME Init
  PROVE  Tree!Init
<1>1. \A f \in Keys, n \in Names : entries[f][n].is = "none"
  BY DEF Init, Empty, NoEntry
<1> QED BY <1>1, NodesAre DEF Init, Tree!Init

\* A mistake is not undone.
LEMMA MistakesStay ==
  ASSUME [Next]_vars, mistaken
  PROVE  mistaken'
<1> USE DEF storeVars, sessionVars
<1>1. CASE DatabaseNext
  BY <1>1, Zenon DEF DatabaseNext, CreateStore, AddRoot, OpenStore, Reload
<1>2. ASSUME NEW h \in Handles, NEW n \in Names, EntryNext(h, n)
      PROVE  mistaken'
  <2>1. CASE MakeFolder(h, n) \/ MakeFile(h, n) \/ MountHandle(h, n)
    BY <2>1, Zenon DEF MakeFolder, MakeFile, MountHandle
  <2>2. CASE GetFolder(h, n) \/ ListFolder(h, n) \/ LookUpMount(h, n) \/ RemoveMissing(h, n)
    BY <2>2, Zenon DEF GetFolder, ListFolder, LookUpMount, RemoveMissing
  <2>3. ASSUME NEW recursive \in BOOLEAN, NEW onlyExternal \in BOOLEAN,
               RemoveEntry(h, n, recursive, onlyExternal)
        PROVE  mistaken'
    BY <2>3, Zenon DEF RemoveEntry
  <2> QED BY <1>2, <2>1, <2>2, <2>3 DEF EntryNext
<1>3. ASSUME NEW l \in lookups, MountFound(l) \/ MountNotFound(l)
      PROVE  mistaken'
  BY <1>3, Zenon DEF MountFound, MountNotFound
<1>4. ASSUME NEW k \in Keys, CreateWritable(k) \/ CloseSink(k)
      PROVE  mistaken'
  BY <1>4, Zenon DEF CreateWritable, CloseSink
<1>5. CASE UNCHANGED vars
  BY <1>5, Zenon DEF vars
<1> QED BY <1>1, <1>2, <1>3, <1>4, <1>5 DEF Next

LEMMA RefinesStep ==
  ASSUME IInv, [Next]_vars
  PROVE  [Tree!Next]_Tree!vars
<1> USE DEF storeVars, sessionVars
<1>1. CASE mistaken' \/ mistaken
  <2>1. mistaken'
    BY <1>1, MistakesStay
  <2> QED BY <2>1 DEF Tree!Next, Tree!Break
<1>2. CASE ~mistaken' /\ ~mistaken
  <2>1. UNCHANGED ~mistaken
    BY <1>2
  <2>2. ASSUME UNCHANGED <<kind, entries>>
        PROVE  [Tree!Next]_Tree!vars
    BY <2>1, <2>2, NodesStay DEF Tree!vars
  <2>3. CASE CreateStore \/ OpenStore \/ Reload
    BY <2>2, <2>3 DEF CreateStore, OpenStore, Reload
  <2>4. CASE AddRoot
    <3>1. UNCHANGED entries /\ nextKey = Root
      BY <2>4 DEF AddRoot, IInv, Phases
    <3>2. \A k \in Keys : entries[k] = Empty
      BY <3>1 DEF IInv, TypeOK, Keys, Root, TreeInv, LeavesAreEmpty
    <3>3. \A k \in Keys, m \in Names : entries[k][m].is = "none" /\ entries'[k][m].is = "none"
      BY <3>1, <3>2 DEF Empty, NoEntry
    <3>4. Nodes = {} /\ Nodes' = {}
      BY <3>3, NodesAre
    <3> QED BY <2>1, <3>4 DEF Tree!vars
  <2>5. ASSUME NEW h \in Handles, NEW n \in Names, EntryNext(h, n)
        PROVE  [Tree!Next]_Tree!vars
    <3>1. CASE MakeFolder(h, n) \/ MakeFile(h, n) \/ MountHandle(h, n)
      <4>1. AddRecord(h, n, "folder") \/ AddRecord(h, n, "file") \/ AddRecord(h, n, "mount")
        BY <3>1 DEF MakeFolder, MakeFile, MountHandle
      <4>2. Tree!Add
        BY <1>2, <4>1, RefinesAdd
      <4> QED BY <2>1, <4>2 DEF Tree!Next
    <3>2. CASE GetFolder(h, n) \/ ListFolder(h, n) \/ LookUpMount(h, n) \/ RemoveMissing(h, n)
      BY <2>2, <3>2 DEF GetFolder, ListFolder, LookUpMount, RemoveMissing
    <3>3. ASSUME NEW recursive \in BOOLEAN, NEW onlyExternal \in BOOLEAN,
                 RemoveEntry(h, n, recursive, onlyExternal)
          PROVE  [Tree!Next]_Tree!vars
      <4>1. Tree!Remove
        BY <1>2, <3>3, RefinesRemove
      <4> QED BY <2>1, <4>1 DEF Tree!Next
    <3> QED BY <2>5, <3>1, <3>2, <3>3 DEF EntryNext
  <2>6. ASSUME NEW l \in lookups, MountFound(l) \/ MountNotFound(l)
        PROVE  [Tree!Next]_Tree!vars
    BY <2>2, <2>6 DEF MountFound, MountNotFound
  <2>7. ASSUME NEW k \in Keys, CreateWritable(k) \/ CloseSink(k)
        PROVE  [Tree!Next]_Tree!vars
    BY <2>2, <2>7 DEF CreateWritable, CloseSink
  <2>8. CASE UNCHANGED vars
    BY <2>2, <2>8 DEF vars
  <2> QED BY <2>3, <2>4, <2>5, <2>6, <2>7, <2>8 DEF Next, DatabaseNext
<1> QED BY <1>1, <1>2

\* The store is a tree to which entries are added one at a time and from which
\* they go with all that is below them, whole or not at all, at any depth and
\* with reloads anywhere, unless a mount was taken for a folder.
THEOREM RefinesFileTree == Spec => ImplementsFileTree
<1>1. Init => Tree!Init
  BY RefinesInit
<1>2. IInv /\ [Next]_vars => [Tree!Next]_Tree!vars
  BY RefinesStep
<1> QED BY <1>1, <1>2, Invariance, PTL DEF Spec, ImplementsFileTree, Tree!Spec
=============================================================================
