---------------------------- MODULE SearchCache ----------------------------
(***************************************************************************)
(* Searches and writes of one collection that meet in its result cache:    *)
(* SearchWithParams, Insert, InsertBatch, Delete, Upsert and InsertV2 of   *)
(* pkg/collection/collection.go over the LRU cache of pkg/cache/cache.go.  *)
(*                                                                         *)
(* A search looks in the cache without the collection's lock, then takes   *)
(* c.mu for reading, searches, and stores the result before it gives the   *)
(* lock back.  A write applies each of its points under c.mu and clears    *)
(* the cache afterwards, outside the lock.  A search result is the set of  *)
(* the ids it names; the index is taken to find every live point.  The log *)
(* record that precedes a write is the business of module Store.           *)
(***************************************************************************)
EXTENDS Naturals, FiniteSets

CONSTANTS
  Clients,    \* goroutines that serve requests
  Ids,        \* point ids
  Keys,       \* cache keys: a query vector with its k
  Capacity,   \* cache.capacity
  MaxWrites   \* bound: write requests

ASSUME CapacityAssumption == Capacity \in Nat \ {0}
ASSUME WritesAssumption == MaxWrites \in Nat

VARIABLES
  index,     \* the state of every id in the index
  items,     \* the keys of cache.items
  cached,    \* per key, the result stored under it
  older,     \* cache.order: pairs of keys, the first used less recently
  pc,        \* per client: what it is doing
  kind,      \* per client: the write it makes
  todo,      \* per client: the ids it has still to apply
  changed,   \* per client: the ids its write has changed
  key,       \* per client: the key of its search
  found,     \* per client: what its search read from the index
  answered,  \* clients whose last request was a search that has returned
  answer,    \* per client: what that search returned
  acked,     \* history: per id, the last state a caller was told of
  leaving,   \* history: ids some request has asked to delete or upsert
  aside,     \* history: ids given to Upsert or InsertV2, which do not clear
  since,     \* history, per client: acked when its search began
  writes     \* history: write requests so far

store == <<index, items, cached, older>>
request == <<pc, kind, todo, changed, key, found, answered, answer>>
history == <<acked, leaving, aside, since, writes>>
vars == <<store, request, history>>

States == {"absent", "live", "deleted"}

\* Insert, InsertBatch and Delete clear the cache; Upsert and InsertV2 do not.
Kinds == {"insert", "batch", "delete", "upsert", "insertV2"}

Live == {id \in Ids : index[id] = "live"}

Init ==
  /\ index = [id \in Ids |-> "absent"]
  /\ items = {} /\ cached = [k \in Keys |-> {}] /\ older = {}
  /\ pc = [c \in Clients |-> "idle"]
  /\ kind = [c \in Clients |-> "insert"]
  /\ todo = [c \in Clients |-> {}]
  /\ changed = [c \in Clients |-> {}]
  /\ key \in [Clients -> Keys]
  /\ found = [c \in Clients |-> {}]
  /\ answered = {} /\ answer = [c \in Clients |-> {}]
  /\ acked = [id \in Ids |-> "absent"] /\ leaving = {} /\ aside = {}
  /\ since = [c \in Clients |-> acked]
  /\ writes = 0
---------------------------------------------------------------------------
\* container/list: k becomes the front element.
MoveToFront(k, keys) ==
  {p \in older : p[1] \in keys \ {k} /\ p[2] \in keys \ {k}}
    \cup ((keys \ {k}) \X {k})

\* Cache.removeElement.
Remove(k) ==
  /\ items' = items \ {k}
  /\ older' = {p \in older : k \notin {p[1], p[2]}}
  /\ UNCHANGED cached

\* order.Back().
IsOldest(k) == k \in items /\ \A p \in older : p[2] # k

\* The result is stored under k, at the front of those of keys.
Put(k, result, keys) ==
  /\ items' = keys \cup {k}
  /\ cached' = [cached EXCEPT ![k] = result]
  /\ older' = MoveToFront(k, keys)

\* Mutant: the eviction loop runs while the cache is over its capacity.
SetLateEviction(k, result) ==
  \/ (k \in items \/ Cardinality(items) <= Capacity) /\ Put(k, result, items)
  \/ /\ k \notin items /\ Cardinality(items) > Capacity
     /\ \E old \in items : IsOldest(old) /\ Put(k, result, items \ {old})

\* Cache.Set: a new key first evicts the oldest one at capacity.
Set(k, result) ==
  \/ k \in items /\ Put(k, result, items)
  \/ k \notin items /\ Cardinality(items) < Capacity /\ Put(k, result, items)
  \/ /\ k \notin items /\ Cardinality(items) >= Capacity
     /\ \E old \in items : IsOldest(old) /\ Put(k, result, items \ {old})

\* Cache.Clear, which InvalidateCollection calls.
Clear == items' = {} /\ older' = {} /\ UNCHANGED cached
---------------------------------------------------------------------------
\* Searches that hold c.mu for reading.
Readers == {c \in Clients : pc[c] = "reading"}

\* A search starts: SearchKey and Cache.Get.  A stored result that has not
\* expired is the answer.
SearchHit(c, k) ==
  /\ pc[c] = "idle" /\ k \in items
  /\ answer' = [answer EXCEPT ![c] = cached[k]] /\ answered' = answered \cup {c}
  /\ older' = MoveToFront(k, items)
  /\ key' = [key EXCEPT ![c] = k]
  /\ since' = [since EXCEPT ![c] = acked]
  /\ UNCHANGED <<index, items, cached, pc, kind, todo, changed, found, acked, leaving, aside, writes>>

\* The key is not there, or its entry has outlived the ttl and is removed.
SearchMiss(c, k) ==
  /\ pc[c] = "idle"
  /\ \/ k \notin items /\ UNCHANGED <<items, cached, older>>
     \/ k \in items /\ Remove(k)
  /\ pc' = [pc EXCEPT ![c] = "missed"]
  /\ key' = [key EXCEPT ![c] = k]
  /\ answered' = answered \ {c} /\ answer' = [answer EXCEPT ![c] = {}]
  /\ since' = [since EXCEPT ![c] = acked]
  /\ UNCHANGED <<index, kind, todo, changed, found, acked, leaving, aside, writes>>

\* The search takes c.mu.RLock and searches the index.
SearchRead(c) ==
  /\ pc[c] = "missed"
  /\ pc' = [pc EXCEPT ![c] = "reading"]
  /\ found' = [found EXCEPT ![c] = Live]
  /\ UNCHANGED <<store, kind, todo, changed, key, answered, answer, history>>

\* The search stores its result, gives the lock back and returns.
SearchReturn(c) ==
  /\ pc[c] = "reading"
  /\ Set(key[c], found[c])
  /\ answer' = [answer EXCEPT ![c] = found[c]] /\ answered' = answered \cup {c}
  /\ found' = [found EXCEPT ![c] = {}]
  /\ pc' = [pc EXCEPT ![c] = "idle"]
  /\ UNCHANGED <<index, kind, todo, changed, key, history>>
---------------------------------------------------------------------------
\* A write request that has passed validation and written its log record.
Begin(c, op, ids) ==
  /\ pc[c] = "idle"
  /\ writes < MaxWrites /\ writes' = writes + 1
  /\ pc' = [pc EXCEPT ![c] = "applying"]
  /\ kind' = [kind EXCEPT ![c] = op]
  /\ todo' = [todo EXCEPT ![c] = ids]
  /\ changed' = [changed EXCEPT ![c] = {}]
  /\ answered' = answered \ {c} /\ answer' = [answer EXCEPT ![c] = {}]
  /\ since' = [since EXCEPT ![c] = [id \in Ids |-> "absent"]]
  /\ leaving' = IF op \in {"delete", "upsert"} THEN leaving \cup ids ELSE leaving
  /\ aside' = IF op \in {"upsert", "insertV2"} THEN aside \cup ids ELSE aside
  /\ UNCHANGED <<store, key, found, acked>>

\* What the write makes of an id: hnsw.Insert refuses a known id, hnsw.Delete
\* an unknown one; an upsert deletes and then inserts.
Applied(op, s) ==
  CASE op = "delete" -> IF s = "absent" THEN s ELSE "deleted"
    [] op = "upsert" -> IF s = "absent" THEN "live" ELSE "deleted"
    [] OTHER -> IF s = "absent" THEN "live" ELSE s

\* insertInternal, deleteInternal or upsertInternal returns nil.
Succeeds(op, s) == IF op = "delete" THEN s # "absent" ELSE s = "absent"

\* Mutant: the search has given c.mu back before it stores its result.
LockFreeUnheld(c) == TRUE

\* c.mu can be taken for writing: no search holds it.
LockFree(c) == Readers \subseteq {c}

\* Mutant: a batch returns early, too, when its last point fails.
ClearsAtLast(c, ok) == kind[c] \in {"insert", "delete", "batch"} /\ ok

\* Insert and Delete return early with an error; InsertBatch goes on.
Clears(c, ok) == kind[c] = "batch" \/ (kind[c] \in {"insert", "delete"} /\ ok)

\* One point is applied under c.mu.  After the last one the cache is cleared,
\* or the request is over.
Apply(c, id) ==
  LET ok == Succeeds(kind[c], index[id])
  IN  /\ pc[c] = "applying" /\ id \in todo[c] /\ LockFree(c)
      /\ index' = [index EXCEPT ![id] = Applied(kind[c], @)]
      /\ todo' = [todo EXCEPT ![c] = @ \ {id}]
      /\ changed' = [changed EXCEPT ![c] = IF ok THEN @ \cup {id} ELSE @]
      /\ \/ todo[c] # {id} /\ UNCHANGED pc
         \/ /\ todo[c] = {id}
            /\ pc' = [pc EXCEPT ![c] = IF Clears(c, ok) THEN "clearing" ELSE "done"]
      /\ UNCHANGED <<items, cached, older, kind, key, found, answered, answer, history>>

\* InvalidateCollection, after the lock.
Invalidate(c) ==
  /\ pc[c] = "clearing"
  /\ Clear
  /\ pc' = [pc EXCEPT ![c] = "done"]
  /\ UNCHANGED <<index, kind, todo, changed, key, found, answered, answer, history>>

\* The write returns: its caller knows of the ids that were changed.
Return(c) ==
  /\ pc[c] = "done"
  /\ pc' = [pc EXCEPT ![c] = "idle"]
  /\ acked' = [id \in Ids |-> IF id \in changed[c]
                              THEN IF kind[c] = "delete" THEN "deleted" ELSE "live"
                              ELSE acked[id]]
  /\ changed' = [changed EXCEPT ![c] = {}]
  /\ kind' = [kind EXCEPT ![c] = "insert"]
  /\ UNCHANGED <<store, todo, key, found, answered, answer, leaving, aside, since, writes>>

Next ==
  \E c \in Clients :
    \/ \E k \in Keys : SearchHit(c, k) \/ SearchMiss(c, k)
    \/ SearchRead(c)
    \/ SearchReturn(c)
    \/ \E op \in Kinds \ {"batch"}, id \in Ids : Begin(c, op, {id})
    \/ \E ids \in (SUBSET Ids) \ {{}} : Begin(c, "batch", ids)
    \/ \E id \in Ids : Apply(c, id)
    \/ Invalidate(c)
    \/ Return(c)

Spec == Init /\ [][Next]_vars

---------------------------------------------------------------------------
\* The cache holds no more than its capacity, and its list orders exactly the
\* keys of its map.
CacheOK ==
  /\ items \subseteq Keys /\ IsFiniteSet(items) /\ Cardinality(items) <= Capacity
  /\ cached \in [Keys -> SUBSET Ids]
  /\ older \subseteq items \X items
  /\ \A j, k \in items : j # k => (<<j, k>> \in older <=> <<k, j>> \notin older)

RequestsOK ==
  /\ pc \in [Clients -> {"idle", "missed", "reading", "applying", "clearing", "done"}]
  /\ kind \in [Clients -> Kinds]
  /\ todo \in [Clients -> SUBSET Ids] /\ changed \in [Clients -> SUBSET Ids]
  /\ key \in [Clients -> Keys] /\ found \in [Clients -> SUBSET Ids]
  /\ answered \subseteq Clients /\ answer \in [Clients -> SUBSET Ids]
  /\ acked \in [Ids -> States] /\ since \in [Clients -> [Ids -> States]]
  /\ leaving \subseteq Ids /\ aside \subseteq Ids
  /\ writes \in 0..MaxWrites

\* Every variable keeps its type, whatever searches and writes do to the map
\* and the list of the cache between them.
TypeOK == index \in [Ids -> States] /\ CacheOK /\ RequestsOK

\* A write has changed the id and has not cleared the cache yet.
PendingOn(c, id) == pc[c] \in {"applying", "clearing"} /\ id \in changed[c]

\* A stored result differs from the index only in points of writes that are
\* still on their way to InvalidateCollection: no search that read the index
\* before a write can store what it read after the write has cleared the cache.
CacheCurrent ==
  \A k \in items, id \in Ids \ aside :
    (id \in cached[k] <=> id \in Live) \/ \E c \in Clients : PendingOn(c, id)

\* A search answers with every point whose Insert or InsertBatch had returned
\* when the search began, if nobody asked to delete the point, and with no point
\* whose Delete had returned, whether it answers from the cache or the index.
SearchSeesWrites ==
  \A c \in answered, id \in Ids \ aside :
    /\ (since[c][id] = "live" /\ id \notin leaving) => id \in answer[c]
    /\ since[c][id] = "deleted" => id \notin answer[c]

\* The cache is invalidated on writes: the same of every write that inserts.
SearchSeesAllWrites ==
  \A c \in answered, id \in Ids :
    (since[c][id] = "live" /\ id \notin leaving) => id \in answer[c]
=============================================================================
