----------------------------- MODULE IndexedDb ------------------------------
(***************************************************************************)
(* The file system in the browser's IndexedDB.  Each folder and file is a    *)
(* record of one object store; a folder's record maps names to the keys of   *)
(* others, and handles of foreign file systems can be mounted in it.         *)
(*                                                                          *)
(* Every operation is one read-write transaction, and these run one after    *)
(* the other, so an operation is one step.  Two take more than one: looking   *)
(* up a mounted handle, which is fetched in a transaction of its own, and     *)
(* writing, from createWritable to close.  In between anything may happen,    *)
(* and at any time the page may be reloaded: what was under way is lost with  *)
(* all handles, and the store is what the transactions so far have made it.  *)
(*                                                                          *)
(* Contents of files are left out.  Calls on a folder whose record is gone    *)
(* change nothing (their transaction is aborted), so they are no actions.     *)
(***************************************************************************)
EXTENDS Naturals, FiniteSets

CONSTANTS
  Names,       \* names of entries
  MaxKeys,     \* bound on the records ever made
  MaxHandles,  \* bound on the handles of folders in one session
  MaxLookups   \* bound on the lookups of mounted handles under way

ASSUME IndexedDbAssumption ==
  MaxKeys \in Nat \ {0} /\ MaxHandles \in Nat \ {0} /\ MaxLookups \in Nat

VARIABLES
  phase,      \* "absent", "bare": the store has no root yet, or "ready"
  session,    \* "none", "opening" or "open"
  kind,       \* of each key: what its record is
  entries,    \* of each key: the entries in its record
  nextKey,    \* the store's key generator
  handles,    \* IndexeddbFolderHandles, and handles of mounted folders, so far
  of,         \* _id of each of them
  foreign,    \* those that are handles of mounted folders
  cache,      \* their _cachedEntries
  lookups,    \* lookups of mounted handles that wait for the record
  sinks,      \* files that are open for writing
  disturbed,  \* history: entries removed behind the back of a handle or a lookup
  mistaken    \* history: a handle was made that takes a mount for a folder

storeVars   == <<phase, kind, entries, nextKey>>
sessionVars == <<session, handles, of, foreign, cache, lookups, sinks>>
vars == <<storeVars, sessionVars, disturbed, mistaken>>

Keys == 1 .. MaxKeys
Handles == 1 .. MaxHandles
Root == 1

NoEntry == [id |-> 0, is |-> "none"]
Empty == [n \in Names |-> NoEntry]
NothingCached == [n \in Names |-> 0]

-----------------------------------------------------------------------------
Init ==
  /\ phase = "absent"
  /\ session = "none"
  /\ kind = [k \in Keys |-> "absent"]
  /\ entries = [k \in Keys |-> Empty]
  /\ nextKey = Root
  /\ handles = 0
  /\ of = [h \in Handles |-> 0]
  /\ foreign = {}
  /\ cache = [h \in Handles |-> NothingCached]
  /\ lookups = {}
  /\ sinks = {}
  /\ disturbed = {}
  /\ mistaken = FALSE

-----------------------------------------------------------------------------
(* Opening the database. *)

\* A new handle of the folder with key k.
NewHandle(k) ==
  /\ handles < MaxHandles
  /\ handles' = handles + 1
  /\ of' = [of EXCEPT ![handles + 1] = k]

\* onupgradeneeded: the upgrade's transaction creates the object store.
CreateStore ==
  /\ session = "none" /\ phase = "absent"
  /\ session' = "opening"
  /\ phase' = "bare"
  /\ UNCHANGED <<kind, entries, nextKey, handles, of, foreign, cache, lookups, sinks,
                 disturbed, mistaken>>

\* Another transaction adds the root folder; the handle works from then on.
AddRoot ==
  /\ session = "opening"
  /\ session' = "open"
  /\ phase' = "ready"
  /\ kind' = [kind EXCEPT ![Root] = "folder"]
  /\ nextKey' = Root + 1
  /\ NewHandle(Root)
  /\ UNCHANGED <<entries, foreign, cache, lookups, sinks, disturbed, mistaken>>

\* The database exists, with its root folder or without.
OpenStore ==
  /\ session = "none" /\ phase # "absent"
  /\ session' = "open"
  /\ NewHandle(Root)
  /\ UNCHANGED <<storeVars, foreign, cache, lookups, sinks, disturbed, mistaken>>

\* Faulty variant: the cache of the root's handle outlives the page.
Reload_KeepsCache ==
  /\ session # "none"
  /\ session' = "none"
  /\ handles' = 0
  /\ of' = [h \in Handles |-> 0]
  /\ foreign' = {} /\ lookups' = {} /\ sinks' = {} /\ disturbed' = {}
  /\ UNCHANGED <<storeVars, cache, mistaken>>

\* The page is reloaded or closed.
Reload ==
  /\ session # "none"
  /\ session' = "none"
  /\ handles' = 0
  /\ of' = [h \in Handles |-> 0]
  /\ cache' = [h \in Handles |-> NothingCached]
  /\ foreign' = {} /\ lookups' = {} /\ sinks' = {} /\ disturbed' = {}
  /\ UNCHANGED <<storeVars, mistaken>>

-----------------------------------------------------------------------------
(* Looking up and making entries.  A call on handle h can do something when   *)
(* the record of its folder is there.                                        *)

Works(h) ==
  /\ session = "open"
  /\ h <= handles /\ h \notin foreign
  /\ kind[of[h]] # "absent"

EntryAt(h, n) == entries[of[h]][n]

\* The transaction adds a record and puts it under the name n into h's folder.
AddRecord(h, n, is) ==
  /\ Works(h)
  /\ EntryAt(h, n) = NoEntry
  /\ nextKey <= MaxKeys
  /\ nextKey' = nextKey + 1
  /\ kind' = [kind EXCEPT ![nextKey] = is]
  /\ entries' = [entries EXCEPT ![of[h]][n] = [id |-> nextKey, is |-> is]]

\* getDirectoryHandle with create: the new handle does not go to the cache.
MakeFolder(h, n) ==
  /\ AddRecord(h, n, "folder")
  /\ NewHandle(nextKey)
  /\ UNCHANGED <<phase, session, foreign, cache, lookups, sinks, disturbed, mistaken>>

\* getFileHandle with create.
MakeFile(h, n) ==
  /\ AddRecord(h, n, "file")
  /\ UNCHANGED <<phase, sessionVars, disturbed, mistaken>>

\* mountHandle.  Where something is already it does nothing.
MountHandle(h, n) ==
  /\ AddRecord(h, n, "mount")
  /\ UNCHANGED <<phase, sessionVars, disturbed, mistaken>>

\* getDirectoryHandle finds a folder and nothing in the cache.  (If something
\* is there, that is returned, whatever the entry says.)
GetFolder(h, n) ==
  /\ Works(h)
  /\ EntryAt(h, n).is = "folder"
  /\ cache[h][n] = 0
  /\ NewHandle(EntryAt(h, n).id)
  /\ cache' = [cache EXCEPT ![h][n] = handles + 1]
  /\ UNCHANGED <<storeVars, session, foreign, lookups, sinks, disturbed, mistaken>>

\* entries() and values() make handles of folders and do not look at the cache.
ListFolder(h, n) ==
  /\ Works(h)
  /\ EntryAt(h, n).is = "folder"
  /\ NewHandle(EntryAt(h, n).id)
  /\ UNCHANGED <<storeVars, session, foreign, cache, lookups, sinks, disturbed, mistaken>>

\* The same for a mount: another transaction is to fetch it.
LookUpMount(h, n) ==
  /\ Works(h)
  /\ EntryAt(h, n).is = "mount"
  /\ cache[h][n] = 0
  /\ Cardinality(lookups) < MaxLookups
  /\ lookups' = lookups \cup {[by |-> h, name |-> n, key |-> EntryAt(h, n).id]}
  /\ UNCHANGED <<storeVars, session, handles, of, foreign, cache, sinks, disturbed, mistaken>>

\* The lookup l has its handle.
EndLookUp(l) ==
  /\ l \in lookups
  /\ lookups' = lookups \ {l}
  /\ NewHandle(l.key)
  /\ cache' = [cache EXCEPT ![l.by][l.name] = handles + 1]

\* The mounted handle, or one that was made again from its URL.
MountFound(l) ==
  /\ EndLookUp(l)
  /\ kind[l.key] = "mount"
  /\ foreign' = foreign \cup {handles + 1}
  /\ UNCHANGED <<storeVars, session, sinks, disturbed, mistaken>>

\* The record is gone, or there is no getting a handle from its URL: the error
\* is logged, and the result is a handle that takes the record for a folder.
MountNotFound(l) ==
  /\ EndLookUp(l)
  /\ mistaken' = (mistaken \/ kind[l.key] # "absent")
  /\ UNCHANGED <<storeVars, session, foreign, sinks, disturbed>>

-----------------------------------------------------------------------------
(* Removing entries. *)

\* S holds all that is below the folders in it; mounts are not entered.
Closed(S) ==
  \A f \in S, n \in Names :
    kind[f] = "folder" /\ entries[f][n].is \in {"folder", "file"} => entries[f][n].id \in S

\* rimraf: k and all that is below it.
Subtree(k) == {j \in Keys : \A S \in SUBSET Keys : k \in S /\ Closed(S) => j \in S}

\* The records removed with the entry e.  A mount's record goes only where
\* removeMounted asks for it.
Gone(e, recursive, onlyExternal) ==
  CASE e.is = "mount" -> IF onlyExternal THEN {e.id} ELSE {}
    [] e.is = "folder" /\ recursive -> Subtree(e.id)
    [] OTHER -> {e.id}

\* Faulty variant: a folder need not be empty.
MayRemove_Any(e, recursive) == TRUE

\* A folder that is not empty aborts the transaction of a removal that is not
\* recursive.
MayRemove(e, recursive) == e.is = "folder" /\ ~recursive => entries[e.id] = Empty

\* Another handle of h's folder has the entry n in its cache, or a lookup is on
\* its way there.
BehindTheBack(h, n) ==
  \/ \E g \in 1 .. handles : g # h /\ of[g] = of[h] /\ cache[g][n] # 0
  \/ \E l \in lookups : of[l.by] = of[h] /\ l.name = n

\* Faulty variant: the handle's cache is left alone.
CacheWithout_Same(h, n) == cache

\* When the transaction is complete, the name is taken out of the handle's cache.
CacheWithout(h, n) == [cache EXCEPT ![h][n] = 0]

\* removeEntry (recursively or not), and removeMounted, which is a removal that
\* is not recursive and asks for the mount's record to go.
RemoveEntry(h, n, recursive, onlyExternal) ==
  LET f == of[h]
      e == EntryAt(h, n)
      gone == Gone(e, recursive, onlyExternal)
  IN  /\ Works(h)
      /\ e # NoEntry
      /\ MayRemove(e, recursive)
      /\ kind' = [k \in Keys |-> IF k \in gone THEN "absent" ELSE kind[k]]
      /\ entries' = [k \in Keys |-> IF k \in gone THEN Empty
                                    ELSE IF k = f THEN [entries[f] EXCEPT ![n] = NoEntry]
                                    ELSE entries[k]]
      /\ cache' = CacheWithout(h, n)
      /\ disturbed' = IF BehindTheBack(h, n) THEN disturbed \cup {<<f, n>>} ELSE disturbed
      /\ UNCHANGED <<phase, nextKey, session, handles, of, foreign, lookups, sinks, mistaken>>

\* There is no such entry.  The removal is rejected, yet its transaction completes.
RemoveMissing(h, n) ==
  /\ Works(h)
  /\ EntryAt(h, n) = NoEntry
  /\ cache' = CacheWithout(h, n)
  /\ UNCHANGED <<storeVars, session, handles, of, foreign, lookups, sinks, disturbed, mistaken>>

-----------------------------------------------------------------------------
(* Writing files. *)

\* createWritable: the file is read, and so must be there.
CreateWritable(k) ==
  /\ session = "open"
  /\ kind[k] = "file"
  /\ sinks' = sinks \cup {k}
  /\ UNCHANGED <<storeVars, session, handles, of, foreign, cache, lookups, disturbed, mistaken>>

\* Faulty variant: the copy is put without a look at what is there.
CloseSink_Blindly(k) ==
  /\ k \in sinks
  /\ sinks' = sinks \ {k}
  /\ kind' = [kind EXCEPT ![k] = "file"]
  /\ UNCHANGED <<phase, entries, nextKey, session, handles, of, foreign, cache, lookups,
                 disturbed, mistaken>>

\* close: the copy is put where there is still a file, and rejected otherwise.
CloseSink(k) ==
  /\ k \in sinks
  /\ sinks' = sinks \ {k}
  /\ UNCHANGED <<storeVars, session, handles, of, foreign, cache, lookups, disturbed, mistaken>>

-----------------------------------------------------------------------------
DatabaseNext == CreateStore \/ AddRoot \/ OpenStore \/ Reload

EntryNext(h, n) ==
  \/ MakeFolder(h, n) \/ MakeFile(h, n) \/ MountHandle(h, n)
  \/ GetFolder(h, n) \/ ListFolder(h, n) \/ LookUpMount(h, n)
  \/ RemoveMissing(h, n)
  \/ \E recursive, onlyExternal \in BOOLEAN :
       ~(recursive /\ onlyExternal) /\ RemoveEntry(h, n, recursive, onlyExternal)

Next ==
  \/ DatabaseNext
  \/ \E h \in Handles, n \in Names : EntryNext(h, n)
  \/ \E l \in lookups : MountFound(l) \/ MountNotFound(l)
  \/ \E k \in Keys : CreateWritable(k) \/ CloseSink(k)

Spec == Init /\ [][Next]_vars

-----------------------------------------------------------------------------
(* Properties. *)

Entries == {NoEntry} \cup [id : Keys, is : {"folder", "file", "mount"}]

\* The state of the store and of the session is what the code keeps; keys and
\* handles are made one after the other.
TypeOK ==
  /\ phase \in {"absent", "bare", "ready"}
  /\ session \in {"none", "opening", "open"}
  /\ kind \in [Keys -> {"absent", "folder", "file", "mount"}]
  /\ entries \in [Keys -> [Names -> Entries]]
  /\ nextKey \in 1 .. MaxKeys + 1
  /\ handles \in 0 .. MaxHandles
  /\ of \in [Handles -> 0 .. MaxKeys]
  /\ foreign \subseteq 1 .. handles
  /\ cache \in [Handles -> [Names -> 0 .. MaxHandles]]
  /\ lookups \subseteq [by : 1 .. handles, name : Names, key : Keys]
  /\ sinks \subseteq Keys
  /\ disturbed \subseteq Keys \X Names
  /\ mistaken \in BOOLEAN
  /\ \A k \in Keys : kind[k] # "absent" => k < nextKey
  /\ \A h \in Handles : IF h <= handles THEN of[h] # 0
                        ELSE of[h] = 0 /\ cache[h] = NothingCached

\* Each entry leads to a record of the kind the entry says.
NothingDangles ==
  \A f \in Keys, n \in Names :
    entries[f][n] # NoEntry => kind[entries[f][n].id] = entries[f][n].is

\* No record is under two names or in two folders.
OneParent ==
  \A f, g \in Keys, n, m \in Names :
    entries[f][n] # NoEntry /\ entries[f][n].id = entries[g][m].id => f = g /\ n = m

\* Every folder and file but the root is in some folder, unless a mount was
\* taken for a folder.
NothingIsOrphaned ==
  ~mistaken =>
    \A k \in Keys \ {Root} :
      kind[k] \in {"folder", "file"} =>
        \E f \in Keys, n \in Names : kind[f] = "folder" /\ entries[f][n].id = k

\* Whatever handles are used, and whenever a writer is closed or the page
\* reloaded, the records form one tree below the root.
TreeIsSound == NothingDangles /\ OneParent /\ NothingIsOrphaned

\* A handle that a folder has in its cache is the one for its entry of that
\* name, unless the entry was removed through another handle of the folder or
\* while the lookup of a mount was under way.
CacheCoherent ==
  \A h \in 1 .. handles, n \in Names :
    cache[h][n] # 0 /\ kind[of[h]] # "absent" =>
      entries[of[h]][n].id = of[cache[h][n]] \/ <<of[h], n>> \in disturbed

\* The entries of folders.
Nodes ==
  {e \in {[in |-> f, name |-> n, id |-> entries[f][n].id, is |-> entries[f][n].is] :
            f \in Keys, n \in Names} :
     kind[e.in] = "folder" /\ e.is # "none"}

Tree == INSTANCE FileTree WITH nodes <- Nodes, sound <- ~mistaken

\* The store keeps a tree, to which entries are added one at a time, and from
\* which they are removed with all that is below them, whole or not at all,
\* unless a mount was taken for a folder.
ImplementsFileTree == Tree!Spec
=============================================================================
