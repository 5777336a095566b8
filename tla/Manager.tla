------------------------------ MODULE Manager ------------------------------
(***************************************************************************)
(* The collection manager, pkg/collection/manager.go and recovery.go, with *)
(* the snapshots of pkg/storage/snapshot/snapshot.go.  A collection is its *)
(* entry in m.collections, its directory with a meta.json that holds its   *)
(* configuration (here: the name in it), and its records in the            *)
(* write-ahead log.  A process may die between any two effects on disk.    *)
(*                                                                         *)
(* m.mu is a readers-writer lock: Create, Delete, Rename, UpdateConfig and *)
(* RestoreSnapshot hold it alone (busy), CreateSnapshot shares it with     *)
(* requests (writer).  Points are only added: deletion is in Store.        *)
(***************************************************************************)
EXTENDS Integers, FiniteSets

CONSTANTS Names, Points,
          Snaps,            \* snapshot ids, a set of numbers, in creation order
          retainCount,
          MaxCollections,
          MaxCrashes,
          None, Bare,       \* no entry; a directory without a readable meta.json
          Torn              \* the body of a snapshot that was lost

ConstantsOK ==
  /\ {None, Bare} \cap Names = {} /\ None # Bare
  /\ \A P \in SUBSET Points : P # None
  /\ Snaps \subseteq Int
  /\ \A S \in SUBSET Names : \A c \in [S -> SUBSET Points] : c # None /\ c # Torn

VARIABLES
  up,
  collections,   \* collections[n]: the points of the collection under n, or None
  configName,    \* its config.Name
  logging,       \* the collections that have the write-ahead log set
  dirs,          \* dirs[n]: the name in n's meta.json, or Bare, or None
  walled,        \* walled[n]: the points recorded under the name n
  busy,          \* the operation that holds m.mu alone
  writer,        \* the SnapshotWriter of a running CreateSnapshot
  snap,          \* snap[s]: contents of the .snap, or None
  unsynced,      \* bodies renamed before they were synced
  meta,          \* the snapshots with a .meta file
  disturbed,     \* history: names that a failed or interrupted operation was about
  moved,         \* history: names that were deleted, renamed or restored
  dropped,       \* history: snapshots whose deletion has begun
  crashes

vars == <<up, collections, configName, logging, dirs, walled, busy, writer, snap,
          unsynced, meta, disturbed, moved, dropped, crashes>>

files == <<snap, unsynced, meta, dropped>>

Idle == [op |-> "none"]

Exists(n) == collections[n] # None
Loaded == {n \in Names : Exists(n)}

\* A request can have the lock exclusively, or shared.
Exclusive == up /\ busy = Idle /\ writer = Idle
Shared == up /\ busy = Idle

Init ==
  /\ up = TRUE
  /\ collections = [n \in Names |-> None]
  /\ configName = [n \in Names |-> n]
  /\ logging = {}
  /\ dirs = [n \in Names |-> None]
  /\ walled = [n \in Names |-> {}]
  /\ busy = Idle /\ writer = Idle
  /\ snap = [s \in Snaps |-> None] /\ unsynced = {} /\ meta = {}
  /\ disturbed = {} /\ moved = {} /\ dropped = {}
  /\ crashes = 0

-----------------------------------------------------------------------------
(* Collections. *)

\* MkdirAll, before the metadata is written and the map has the collection.
Create(n) ==
  /\ Exclusive
  /\ ~Exists(n) /\ Cardinality(Loaded) < MaxCollections
  /\ dirs' = [dirs EXCEPT ![n] = IF @ = None THEN Bare ELSE @]
  /\ busy' = [op |-> "create", name |-> n]
  /\ UNCHANGED <<up, collections, configName, logging, walled, writer, files,
                 disturbed, moved, crashes>>

\* saveMetadata and SetWAL.
CreateEndsWith(log) ==
  /\ up /\ busy.op = "create"
  /\ dirs' = [dirs EXCEPT ![busy.name] = busy.name]
  /\ collections' = [collections EXCEPT ![busy.name] = {}]
  /\ configName' = [configName EXCEPT ![busy.name] = busy.name]
  /\ logging' = logging \cup log
  /\ busy' = Idle
  /\ UNCHANGED <<up, walled, writer, files, disturbed, moved, crashes>>

CreateEndsUnlogged == CreateEndsWith({})
CreateEnds == CreateEndsWith({busy.name})

\* The map entry goes first, then the directory of that name.
Delete(n) ==
  /\ Exclusive /\ Exists(n)
  /\ collections' = [collections EXCEPT ![n] = None]
  /\ busy' = [op |-> "delete", name |-> n]
  /\ moved' = moved \cup {n}
  /\ UNCHANGED <<up, configName, logging, dirs, walled, writer, files, disturbed, crashes>>

DeleteEnds ==
  /\ up /\ busy.op = "delete"
  /\ dirs' = [dirs EXCEPT ![busy.name] = None]
  /\ busy' = Idle
  /\ UNCHANGED <<up, collections, configName, logging, walled, writer, files,
                 disturbed, moved, crashes>>

\* config.Name changes first and keeps the new name when the directory cannot be
\* moved: it is missing, or there is one of the new name that is not empty.
Rename(old, new) ==
  /\ Exclusive /\ Exists(old) /\ ~Exists(new) /\ old # new
  /\ configName' = [configName EXCEPT ![old] = new]
  /\ moved' = moved \cup {old, new}
  /\ IF dirs[old] = None \/ dirs[new] # None
     THEN /\ disturbed' = disturbed \cup {old, new}
          /\ UNCHANGED <<dirs, busy>>
     ELSE /\ dirs' = [dirs EXCEPT ![old] = None, ![new] = dirs[old]]
          /\ busy' = [op |-> "rename", name |-> new, old |-> old]
          /\ UNCHANGED disturbed
  /\ UNCHANGED <<up, collections, logging, walled, writer, files, crashes>>

RenameEnds ==
  /\ up /\ busy.op = "rename"
  /\ LET old == busy.old new == busy.name IN
       /\ collections' = [collections EXCEPT ![old] = None, ![new] = collections[old]]
       /\ configName' = [configName EXCEPT ![old] = old, ![new] = new]
       /\ logging' = IF old \in logging THEN (logging \ {old}) \cup {new}
                     ELSE logging \ {old, new}
       /\ dirs' = [dirs EXCEPT ![new] = new]
  /\ busy' = Idle
  /\ UNCHANGED <<up, walled, writer, files, disturbed, moved, crashes>>

\* UpdateConfig, and Flush of one collection: meta.json is written in place, in
\* the directory that config.Name says, if there is one.
UpdateConfig(n) ==
  /\ Exclusive /\ Exists(n)
  /\ dirs[configName[n]] # None
  /\ busy' = [op |-> "update", name |-> configName[n]]
  /\ UNCHANGED <<up, collections, configName, logging, dirs, walled, writer, files,
                 disturbed, moved, crashes>>

UpdateEnds ==
  /\ up /\ busy.op = "update"
  /\ dirs' = [dirs EXCEPT ![busy.name] = busy.name]
  /\ busy' = Idle
  /\ UNCHANGED <<up, collections, configName, logging, walled, writer, files,
                 disturbed, moved, crashes>>

\* The record carries config.Name.
Insert(n, p) ==
  /\ Shared /\ Exists(n) /\ p \notin collections[n]
  /\ collections' = [collections EXCEPT ![n] = @ \cup {p}]
  /\ walled' = IF n \in logging THEN [walled EXCEPT ![configName[n]] = @ \cup {p}] ELSE walled
  /\ UNCHANGED <<up, configName, logging, dirs, busy, writer, files, disturbed, moved, crashes>>

-----------------------------------------------------------------------------
(* Snapshots. *)

Rest == <<up, collections, configName, logging, dirs, walled, disturbed, moved, crashes>>

\* The SnapshotWriter of the next id, with an empty .snap.tmp.
NewWriter(s, names) ==
  /\ \A t \in Snaps : t >= s => snap[t] = None /\ t \notin meta \cup dropped
  /\ \A t \in Snaps : t < s => snap[t] # None \/ t \in dropped
  /\ writer' = [op |-> "collections", id |-> s, left |-> names,
                tmp |-> [n \in {} |-> {}], synced |-> FALSE]

CreateSnapshot(s) ==
  /\ Shared /\ writer = Idle
  /\ NewWriter(s, Loaded)
  /\ UNCHANGED <<busy, files, Rest>>

\* Iterate holds the collection's lock: one collection is written as it is at one
\* moment, the next one later.
WriteCollection ==
  /\ up /\ writer.op = "collections" /\ writer.left # {}
  /\ \E n \in writer.left :
       writer' = [writer EXCEPT !.left = @ \ {n},
                    !.tmp = [m \in DOMAIN writer.tmp \cup {n} |->
                               IF m = n THEN collections[n] ELSE writer.tmp[m]]]
  /\ UNCHANGED <<busy, files, Rest>>

\* A write that fails: Cancel removes the .snap.tmp.
Cancel ==
  /\ up /\ writer.op = "collections"
  /\ writer' = Idle
  /\ dropped' = dropped \cup {writer.id}
  /\ UNCHANGED <<snap, unsynced, meta, busy, Rest>>

\* Finish that leaves the fsync out.
NoSync ==
  /\ up /\ writer.op = "collections" /\ writer.left = {}
  /\ writer' = [writer EXCEPT !.op = "publish"]
  /\ UNCHANGED <<busy, files, Rest>>

\* Finish, one effect on disk after the other.
Sync ==
  /\ up /\ writer.op = "collections" /\ writer.left = {}
  /\ writer' = [writer EXCEPT !.op = "publish", !.synced = TRUE]
  /\ UNCHANGED <<busy, files, Rest>>

RenameBody ==
  /\ up /\ writer.op = "publish"
  /\ snap' = [snap EXCEPT ![writer.id] = writer.tmp]
  /\ unsynced' = IF writer.synced THEN unsynced ELSE unsynced \cup {writer.id}
  /\ writer' = [writer EXCEPT !.op = "meta"]
  /\ UNCHANGED <<meta, dropped, busy, Rest>>

RenameMeta ==
  /\ up /\ writer.op = "meta"
  /\ meta' = meta \cup {writer.id}
  /\ writer' = [op |-> "none"]
  /\ UNCHANGED <<snap, unsynced, dropped, busy, Rest>>

\* Delete of a snapshot: the body first, then the .meta.
DeleteSnapshot(s) ==
  /\ up /\ s \in meta /\ s \notin dropped
  /\ snap' = [snap EXCEPT ![s] = None]
  /\ dropped' = dropped \cup {s}
  /\ UNCHANGED <<unsynced, meta, busy, writer, Rest>>

DeleteMeta(s) ==
  /\ up /\ s \in meta \cap dropped
  /\ meta' = meta \ {s}
  /\ UNCHANGED <<snap, unsynced, dropped, busy, writer, Rest>>

\* List is newest first; all but the first retainCount are deleted.
Prune(s) ==
  /\ Cardinality({t \in meta : t > s}) >= retainCount
  /\ DeleteSnapshot(s)

\* RestoreSnapshot replaces or adds the collections of the snapshot, one after the
\* other, as new objects without a log.  Others stay.  A collection without a
\* directory cannot save its metadata: it stays in the map, and the rest is not
\* restored.
RestoreSnapshot(s) ==
  /\ Exclusive
  /\ snap[s] \notin {None, Torn}
  /\ busy' = [op |-> "restore", id |-> s, left |-> DOMAIN snap[s], contents |-> snap[s]]
  /\ UNCHANGED <<writer, files, Rest>>

RestoreCollection ==
  /\ up /\ busy.op = "restore" /\ busy.left # {}
  /\ \E n \in busy.left :
       /\ collections' = [collections EXCEPT ![n] = busy.contents[n]]
       /\ configName' = [configName EXCEPT ![n] = n]
       /\ logging' = logging \ {n}
       /\ moved' = moved \cup {n}
       /\ IF dirs[n] = None
          THEN /\ busy' = Idle /\ UNCHANGED dirs
               /\ disturbed' = disturbed \cup {n}
          ELSE /\ busy' = [busy EXCEPT !.left = @ \ {n}]
               /\ dirs' = [dirs EXCEPT ![n] = n]
               /\ UNCHANGED disturbed
  /\ UNCHANGED <<up, walled, writer, files, crashes>>

RestoreEnds ==
  /\ up /\ busy.op = "restore" /\ busy.left = {}
  /\ busy' = Idle
  /\ UNCHANGED <<writer, files, Rest>>

-----------------------------------------------------------------------------
(* Crash and restart. *)

\* The names that the operation in progress is about.
Touched ==
  CASE busy = Idle -> {}
    [] busy.op = "rename" -> {busy.old, busy.name}
    [] busy.op = "restore" -> busy.left
    [] OTHER -> {busy.name}

\* A meta.json that is being written may be left empty; a body that was not
\* synced may be lost.  The .snap.tmp stays on disk and is never looked at again.
Crash ==
  /\ up /\ crashes < MaxCrashes
  /\ up' = FALSE
  /\ crashes' = crashes + 1
  /\ disturbed' = disturbed \cup Touched
  /\ \E d \in SUBSET (Touched \ {n \in Names : dirs[n] = None}) :
       dirs' = [n \in Names |-> IF n \in d THEN Bare ELSE dirs[n]]
  /\ dropped' = IF writer = Idle \/ snap[writer.id] # None THEN dropped
                ELSE dropped \cup {writer.id}
  /\ snap' = [s \in Snaps |-> IF s \in unsynced /\ snap[s] # None THEN Torn ELSE snap[s]]
  /\ busy' = Idle /\ writer' = Idle
  /\ UNCHANGED <<collections, configName, logging, walled, unsynced, meta, moved>>

\* NewManager and Recover: loadCollections takes the name from the metadata, the
\* log is replayed into the collections there are, and then given to them.
Recover ==
  /\ ~up
  /\ up' = TRUE
  /\ LET names == {dirs[d] : d \in {n \in Names : dirs[n] \in Names}} IN
       /\ collections' = [n \in Names |-> IF n \in names THEN walled[n] ELSE None]
       /\ logging' = names
  /\ configName' = [n \in Names |-> n]
  /\ UNCHANGED <<dirs, walled, busy, writer, files, disturbed, moved, crashes>>

Next ==
  \/ \E n \in Names : Create(n) \/ Delete(n) \/ UpdateConfig(n)
  \/ CreateEnds \/ DeleteEnds \/ RenameEnds \/ UpdateEnds
  \/ \E n, m \in Names : Rename(n, m)
  \/ \E n \in Names, p \in Points : Insert(n, p)
  \/ \E s \in Snaps : \/ CreateSnapshot(s) \/ RestoreSnapshot(s)
                      \/ DeleteSnapshot(s) \/ DeleteMeta(s) \/ Prune(s)
  \/ WriteCollection \/ Cancel \/ Sync \/ RenameBody \/ RenameMeta
  \/ RestoreCollection \/ RestoreEnds
  \/ Crash \/ Recover

Spec == Init /\ [][Next]_vars

-----------------------------------------------------------------------------
TypeOK ==
  /\ collections \in [Names -> {None} \cup SUBSET Points]
  /\ configName \in [Names -> Names]
  /\ dirs \in [Names -> {None, Bare} \cup Names]
  /\ logging \subseteq Names /\ walled \in [Names -> SUBSET Points]

\* What a restart would bring back is what is there: a collection is in the map
\* exactly if its directory has its metadata, and its points are the ones recorded
\* under its name.  The first is not so for a name that a failed or interrupted
\* operation was about (an interrupted rename leaves a directory that says the old
\* name, and a later delete of that name does not find it), the second in addition
\* not for a name that was deleted, renamed or restored before.
RestartKeepsCollections ==
  up /\ busy = Idle =>
    \A n \in Names \ disturbed :
      /\ Exists(n) <=> dirs[n] = n
      /\ Exists(n) /\ n \notin moved => collections[n] = walled[n]

\* A snapshot with a .meta file that nobody began to delete has its body, and not a
\* torn one, also after a crash in the middle of Finish.
ListedIsWhole == \A s \in meta \ dropped : snap[s] \notin {None, Torn}
=============================================================================
