------------------------------- MODULE Store -------------------------------
(***************************************************************************)
(* One collection from the request to the disk and back: the write path of *)
(* pkg/collection/collection.go (log first, then the index under c.mu),    *)
(* the directory of pkg/collection/manager.go, the saved index.meta, and   *)
(* the startup recovery of pkg/collection/recovery.go that loads the one   *)
(* and replays the log over it.                                            *)
(*                                                                         *)
(* The index is its id map: an id is absent, live with a value (vector and *)
(* payload), or deleted, since hnsw.Delete only marks a node and its id    *)
(* stays taken.  A log entry is one Write or one WriteBatch; module Wal    *)
(* shows a batch to be applied as a whole.  The points of a batch share    *)
(* one value: values of different ids never meet.                          *)
(*                                                                         *)
(* The entry is written before c.mu is taken, so writers interleave        *)
(* between the log and the index.  at, shadow, metaAt, disordered,         *)
(* unlogged and acked are history variables: no action reads them to       *)
(* decide what it does.                                                    *)
(***************************************************************************)
EXTENDS Naturals, Sequences, FiniteSets

CONSTANTS
  Clients,      \* goroutines that serve requests
  Ids,          \* point ids
  Values,       \* contents of a point
  Absent,       \* the index has no node for the id
  Deleted,      \* the node of the id is marked deleted
  NoMeta,       \* there is no index.meta
  MaxLog,       \* bound: entries in the log
  MaxRestarts,  \* bound: starts of the process after the first
  MaxAsides     \* bound: InsertV2 calls and dropped collections, together

ASSUME StatesAssumption ==
  Absent \notin Values /\ Deleted \notin Values /\ Absent # Deleted
ASSUME NoMetaAssumption == NoMeta \notin [Ids -> Values \cup {Absent, Deleted}]
ASSUME BoundsAssumption ==
  MaxLog \in Nat /\ MaxRestarts \in Nat /\ MaxAsides \in Nat

VARIABLES
  wal,         \* the entries on disk, oldest first
  phase,       \* the process: "down", "replaying", "serving" or "stopping"
  pos,         \* entries replayed so far by replayWAL
  exists,      \* the name is in m.collections
  index,       \* the collection's index: the state of every id
  dir,         \* the directory with its meta.json is on disk
  meta,        \* the index.meta in that directory
  pc,          \* per client: "idle", "begun" or "logged"
  entry,       \* per client: the record of its request
  todo,        \* per client: ids it has still to apply
  orphans,     \* clients whose *Collection was dropped under them
  at,          \* history, per client: the place of its entry in the log, or 0
  shadow,      \* history: shadow[k + 1] is the index that k entries rebuild
  metaAt,      \* history, per id: entries of the log that index.meta reflects
  disordered,  \* history: ids whose index may differ from what the log says
  unlogged,    \* history: ids written by InsertV2, which does not log
  acked,       \* history: per id, the last state a caller was told of
  restarts,    \* history: starts so far
  asides       \* history: InsertV2 calls and dropped collections so far

server == <<phase, pos, exists, index, dir, meta>>
requests == <<pc, entry, todo, orphans, at>>
history == <<shadow, metaAt, disordered, unlogged, acked, restarts, asides>>
vars == <<wal, server, requests, history>>

States == Values \cup {Absent, Deleted}

Kinds == {"insert", "update", "delete"}

\* wal.Record, or the records of one WriteBatch; a delete has no content.
Entry ==
  {e \in [kind: Kinds, ids: SUBSET Ids, val: Values \cup {Absent}] :
     e.kind # "delete" => e.val \in Values}

NoEntry == [kind |-> "delete", ids |-> {}, val |-> Absent]

Empty == [id \in Ids |-> Absent]

\* insertInternal: hnsw.Insert refuses an id it knows, a deleted one included.
Inserted(s, v) == IF s = Absent THEN v ELSE s

\* deleteInternal: a live node is marked; otherwise nothing changes.
Removed(s) == IF s \in Values THEN Deleted ELSE s

\* upsertInternal: hnsw.Delete, its error ignored, and then hnsw.Insert.
Upserted(s, v) == Inserted(Removed(s), v)

\* The effect of a record of some kind on the state of an id.
Step(kind, s, v) ==
  CASE kind = "insert" -> Inserted(s, v)
    [] kind = "update" -> Upserted(s, v)
    [] OTHER -> Removed(s)

\* Mutant: an insert replaces what the index holds.
ApplyEntryReplacing(e, x) ==
  [id \in Ids |-> IF id \notin e.ids THEN x[id]
                  ELSE IF e.kind = "insert" THEN e.val ELSE Step(e.kind, x[id], e.val)]

\* The effect of a whole entry on an index.
ApplyEntry(e, x) ==
  [id \in Ids |-> IF id \in e.ids THEN Step(e.kind, x[id], e.val) ELSE x[id]]

---------------------------------------------------------------------------
\* A server that has created the collection.
Init ==
  /\ wal = <<>>
  /\ phase = "serving" /\ pos = 0
  /\ exists = TRUE /\ index = Empty /\ dir = TRUE /\ meta = NoMeta
  /\ pc = [c \in Clients |-> "idle"]
  /\ entry = [c \in Clients |-> NoEntry]
  /\ todo = [c \in Clients |-> {}]
  /\ orphans = {}
  /\ at = [c \in Clients |-> 0]
  /\ shadow = <<Empty>> /\ metaAt = [id \in Ids |-> 0]
  /\ disordered = {} /\ unlogged = {}
  /\ acked = Empty /\ restarts = 0 /\ asides = 0
---------------------------------------------------------------------------
\* Requests run; from the shutdown on no new ones come in.
Running == phase \in {"serving", "stopping"}

\* A request reaches the collection through m.Get and passes the validation.
Begin(c, e) ==
  /\ phase = "serving" /\ exists
  /\ pc[c] = "idle"
  /\ pc' = [pc EXCEPT ![c] = "begun"]
  /\ entry' = [entry EXCEPT ![c] = e]
  /\ UNCHANGED <<wal, server, todo, orphans, at, history>>

Insert(c, ids, v) == Begin(c, [kind |-> "insert", ids |-> ids, val |-> v])

Upsert(c, id, v) == Begin(c, [kind |-> "update", ids |-> {id}, val |-> v])

Delete(c, id) == Begin(c, [kind |-> "delete", ids |-> {id}, val |-> Absent])

\* InsertV2 takes c.mu at once and writes no log record.
InsertV2(id, v) ==
  /\ Running /\ exists
  /\ asides < MaxAsides /\ asides' = asides + 1
  /\ index' = [index EXCEPT ![id] = Inserted(@, v)]
  /\ acked' = [acked EXCEPT ![id] = IF index[id] = Absent THEN v ELSE @]
  /\ unlogged' = unlogged \cup {id}
  /\ UNCHANGED <<wal, phase, pos, exists, dir, meta, requests,
                 shadow, metaAt, disordered, restarts>>

\* Ids that some other client has logged and not yet applied.
InFlight(c) == UNION {todo[d] : d \in {d \in Clients \ {c} : pc[d] = "logged"}}

\* The request of c ends: its caller gets an answer.
Finish(c) ==
  /\ pc' = [pc EXCEPT ![c] = "idle"]
  /\ entry' = [entry EXCEPT ![c] = NoEntry]
  /\ orphans' = orphans \ {c}
  /\ at' = [at EXCEPT ![c] = 0]

\* Mutant: Upsert does not log.
AppendEntryNoUpdate(c) ==
  IF entry[c].kind = "update" THEN UNCHANGED <<wal, shadow>>
  ELSE /\ Len(wal) < MaxLog
       /\ wal' = Append(wal, entry[c])
       /\ shadow' = Append(shadow, ApplyEntry(entry[c], shadow[Len(shadow)]))

\* The entry of c reaches the log.
AppendEntry(c) ==
  /\ Len(wal) < MaxLog
  /\ wal' = Append(wal, entry[c])
  /\ shadow' = Append(shadow, ApplyEntry(entry[c], shadow[Len(shadow)]))

\* c.wal.Write or c.wal.WriteBatch returns nil.  A second writer of an id that
\* logs before the first one has applied may apply before it too.
LogWrite(c) ==
  /\ Running /\ pc[c] = "begun"
  /\ AppendEntry(c)
  /\ pc' = [pc EXCEPT ![c] = "logged"]
  /\ todo' = [todo EXCEPT ![c] = entry[c].ids]
  /\ at' = [at EXCEPT ![c] = Len(wal) + 1]
  /\ disordered' = disordered \cup (entry[c].ids \cap InFlight(c))
  /\ UNCHANGED <<server, entry, orphans, metaAt, unlogged, acked, restarts, asides>>

\* c.wal.Write returns an error and the request fails.  The record may be in
\* the log all the same: the error can be that of the fsync behind it.
LogFails(c) ==
  /\ Running /\ pc[c] = "begun"
  /\ \/ UNCHANGED <<wal, shadow, disordered>>
     \/ AppendEntry(c) /\ disordered' = disordered \cup entry[c].ids
  /\ Finish(c)
  /\ UNCHANGED <<server, todo, metaAt, unlogged, acked, restarts, asides>>

\* Mutant: deleteInternal frees the id.
AppliedFreeing(c, id) ==
  IF entry[c].kind = "delete" /\ index[id] \in Values THEN Absent
  ELSE Step(entry[c].kind, index[id], entry[c].val)

\* What insertInternal, upsertInternal or deleteInternal makes of the id.
Applied(c, id) == Step(entry[c].kind, index[id], entry[c].val)

\* The caller hears of success: of an insert or an upsert when the id was new,
\* of a delete when the id was live or marked already.
Reported(c, id) ==
  IF entry[c].kind = "delete"
    THEN IF index[id] = Absent THEN acked[id] ELSE Deleted
    ELSE IF index[id] = Absent THEN entry[c].val ELSE acked[id]

\* One point of the request is applied under c.mu.  An orphan changes a
\* collection that nobody can reach any more.
ApplyPoint(c, id) ==
  /\ Running /\ pc[c] = "logged" /\ id \in todo[c]
  /\ todo' = [todo EXCEPT ![c] = @ \ {id}]
  /\ \/ c \in orphans /\ UNCHANGED <<index, acked>>
     \/ /\ c \notin orphans
        /\ index' = [index EXCEPT ![id] = Applied(c, id)]
        /\ acked' = [acked EXCEPT ![id] = Reported(c, id)]
  /\ \/ todo[c] = {id} /\ Finish(c)
     \/ todo[c] # {id} /\ UNCHANGED <<pc, entry, orphans, at>>
  /\ UNCHANGED <<wal, phase, pos, exists, dir, meta,
                 shadow, metaAt, disordered, unlogged, restarts, asides>>

---------------------------------------------------------------------------
\* Manager.Delete: the name leaves the map, then the directory is removed.
\* os.RemoveAll may stop at an error and leave either file.  The log keeps
\* every entry of the collection.
DropCollection ==
  /\ Running /\ exists
  /\ asides < MaxAsides /\ asides' = asides + 1
  /\ exists' = FALSE
  /\ index' = Empty
  /\ dir' \in {dir, FALSE}
  /\ meta' \in {meta, NoMeta}
  /\ orphans' = {c \in Clients : pc[c] # "idle"}
  /\ disordered' = Ids /\ acked' = Empty
  /\ UNCHANGED <<wal, phase, pos, pc, entry, todo, at, shadow, metaAt, unlogged, restarts>>

\* Mutant: Create does not save meta.json.
CreateCollectionUnsaved ==
  /\ Running /\ ~exists
  /\ exists' = TRUE /\ index' = Empty
  /\ UNCHANGED <<wal, phase, pos, dir, meta, requests, history>>

\* Manager.Create makes a new collection under the name; a directory that a
\* failed removal left is taken over with what is in it.
CreateCollection ==
  /\ Running /\ ~exists
  /\ exists' = TRUE /\ index' = Empty /\ dir' = TRUE
  /\ UNCHANGED <<wal, phase, pos, meta, requests, history>>

\* saveMetadata fails in Create, which then removes the directory.
CreateFails ==
  /\ Running /\ ~exists
  /\ dir' = FALSE /\ meta' = NoMeta
  /\ UNCHANGED <<wal, phase, pos, exists, index, requests, history>>

---------------------------------------------------------------------------
\* c stands between the log and the index with the id.
PendingOn(c, id) == pc[c] = "logged" /\ id \in todo[c]

Settled(id) == \A c \in Clients : ~PendingOn(c, id)

\* The index has, of the id, what k entries of the log say.
Reflects(k, id) ==
  IF Settled(id) THEN k = Len(wal)
  ELSE \E c \in Clients : PendingOn(c, id) /\ k = at[c] - 1

\* main, on SIGTERM: restServer.Stop waits for the requests but gives up after
\* the write timeout, so that some may still run; then SaveAllIndexMetadata
\* writes index.meta, whose failure is only logged.
Shutdown ==
  /\ phase = "serving" /\ phase' = "stopping"
  /\ \/ /\ exists /\ meta' = index
        /\ metaAt' \in [Ids -> 0..Len(wal)]
        /\ \A id \in Ids : Reflects(metaAt'[id], id)
     \/ UNCHANGED <<meta, metaAt>>
  /\ UNCHANGED <<wal, pos, exists, index, dir, requests,
                 shadow, disordered, unlogged, acked, restarts, asides>>

\* The process is gone, with its memory: main has returned, or at any moment
\* the process was killed.
Exit ==
  /\ phase # "down"
  /\ phase' = "down" /\ pos' = 0
  /\ exists' = FALSE /\ index' = Empty
  /\ pc' = [c \in Clients |-> "idle"]
  /\ entry' = [c \in Clients |-> NoEntry]
  /\ todo' = [c \in Clients |-> {}]
  /\ orphans' = {}
  /\ at' = [c \in Clients |-> 0]
  /\ UNCHANGED <<wal, dir, meta, history>>

\* NewManager and loadIndexState.  An index.meta that cannot be read is passed
\* over: the index then starts empty.
Start ==
  /\ phase = "down" /\ restarts < MaxRestarts
  /\ phase' = "replaying" /\ pos' = 0
  /\ exists' = dir
  /\ index' \in {Empty} \cup (IF dir /\ meta # NoMeta THEN {meta} ELSE {})
  /\ restarts' = restarts + 1
  /\ UNCHANGED <<wal, dir, meta, requests, shadow, metaAt, disordered, unlogged, acked, asides>>

\* Mutant: with an index.meta the log is not replayed.
ReplayedWithoutMeta(e) == IF exists /\ meta = NoMeta THEN ApplyEntry(e, index) ELSE index

\* The callback of replayWAL.  Records of an unknown collection are skipped.
Replayed(e) == IF exists THEN ApplyEntry(e, index) ELSE index

\* One record of the log is replayed.
ReplayEntry ==
  /\ phase = "replaying" /\ pos < Len(wal)
  /\ index' = Replayed(wal[pos + 1])
  /\ pos' = pos + 1
  /\ UNCHANGED <<wal, phase, exists, dir, meta, requests, history>>

\* The replay is over; SetWALForCollections, and the servers start.
Serve ==
  /\ phase = "replaying" /\ pos = Len(wal)
  /\ phase' = "serving"
  /\ UNCHANGED <<wal, pos, exists, index, dir, meta, requests, history>>

Next ==
  \/ \E c \in Clients :
       \/ \E ids \in (SUBSET Ids) \ {{}}, v \in Values : Insert(c, ids, v)
       \/ \E id \in Ids, v \in Values : Upsert(c, id, v)
       \/ \E id \in Ids : Delete(c, id) \/ ApplyPoint(c, id)
       \/ LogWrite(c)
       \/ LogFails(c)
  \/ \E id \in Ids, v \in Values : InsertV2(id, v)
  \/ DropCollection
  \/ CreateCollection
  \/ CreateFails
  \/ Shutdown
  \/ Exit
  \/ Start
  \/ ReplayEntry
  \/ Serve

Spec == Init /\ [][Next]_vars

---------------------------------------------------------------------------
\* Every variable keeps its type, and a collection that is served has its
\* directory with meta.json on disk, so that a restart finds it.
TypeOK ==
  /\ wal \in Seq(Entry)
  /\ phase \in {"down", "replaying", "serving", "stopping"}
  /\ pos \in 0..Len(wal)
  /\ exists \in BOOLEAN /\ dir \in BOOLEAN /\ (exists => dir)
  /\ index \in [Ids -> States]
  /\ meta \in [Ids -> States] \cup {NoMeta}
  /\ pc \in [Clients -> {"idle", "begun", "logged"}]
  /\ entry \in [Clients -> Entry]
  /\ todo \in [Clients -> SUBSET Ids]
  /\ orphans \subseteq Clients
  /\ at \in [Clients -> 0..Len(wal)]
  /\ shadow \in Seq([Ids -> States]) /\ Len(shadow) = Len(wal) + 1
  /\ metaAt \in [Ids -> 0..Len(wal)]
  /\ disordered \subseteq Ids /\ unlogged \subseteq Ids
  /\ acked \in [Ids -> States]
  /\ restarts \in Nat /\ asides \in Nat

\* Ids whose every write went through the log and was applied in log order.
Clean(id) == id \notin disordered \cup unlogged

Serving == Running /\ exists

Rebuilt == shadow[Len(shadow)]

\* The log has a record of the kind for the id.
Logged(kind, id) == \E i \in 1..Len(wal) : wal[i].kind = kind /\ id \in wal[i].ids

\* The write-ahead rule, over requests, crashes, restarts and re-created
\* collections: no value is in the index or in a readable index.meta that no
\* record of the log holds, unless InsertV2 put it there.
WriteAhead ==
  \A id \in Ids \ unlogged, v \in Values :
    (index[id] = v \/ (meta # NoMeta /\ meta[id] = v)) =>
      \E i \in 1..Len(wal) : id \in wal[i].ids /\ wal[i].val = v

\* While the server serves, the state of an id is the one a replay of the whole
\* log over an empty index gives; once an index.meta has been written, replay
\* over it may have deleted the point instead.
ReplayAgrees ==
  Serving => \A id \in Ids : (Clean(id) /\ Settled(id)) =>
    \/ index[id] = Rebuilt[id]
    \/ meta # NoMeta /\ index[id] = Deleted

\* An insert that returned nil is in the index with its value after any number
\* of crashes, restarts and shutdowns, with or without a readable index.meta,
\* as long as nobody asks to delete or to upsert the id.
InsertDurable ==
  Serving => \A id \in Ids :
    (Clean(id) /\ acked[id] \in Values /\ ~Logged("delete", id) /\ ~Logged("update", id))
      => index[id] = acked[id]

\* A point whose delete returned nil never comes back.
DeletedStayDeleted ==
  Serving => \A id \in Ids : (Clean(id) /\ acked[id] = Deleted) => index[id] = Deleted

\* A graceful shutdown keeps the data: a point that was live in the index.meta
\* it saved is live after the next start, as long as nothing was logged since
\* (points that were upserted are left to UpsertReplaces).
ShutdownPreserves ==
  (phase = "serving" /\ exists /\ meta # NoMeta) =>
    \A id \in Ids :
      (Clean(id) /\ metaAt[id] = Len(wal) /\ meta[id] \in Values /\ ~Logged("update", id))
        => index[id] = meta[id]

\* Upsert inserts or updates: an applied upsert leaves its value in the index.
UpsertReplaces ==
  [][\A c \in Clients, id \in Ids :
       (ApplyPoint(c, id) /\ entry[c].kind = "update" /\ c \notin orphans)
         => index'[id] = entry[c].val]_vars
=============================================================================
