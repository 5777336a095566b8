------------------------- MODULE SearchCacheProofs -------------------------
(***************************************************************************)
(* Proofs about SearchCache, for any number of clients, ids, cache keys    *)
(* and any capacity.  The heart of the argument: a search that holds c.mu  *)
(* has read what the index still is, so that what it stores is current;    *)
(* and a write returns only after a Clear that followed its last Apply.    *)
(***************************************************************************)
EXTENDS SearchCache, FiniteSetTheorems, TLAPS

\* A search that holds the lock has read the index as it is.
ReadersOK == \A c \in Clients : pc[c] = "reading" => found[c] = Live

\* The ids of a request are registered, and a request for one point has
\* changed nothing before it applies the point.
WritersOK ==
  \A c \in Clients :
    /\ kind[c] \in {"delete", "upsert"} => todo[c] \subseteq leaving
    /\ kind[c] \in {"upsert", "insertV2"} => todo[c] \cup changed[c] \subseteq aside
    /\ (pc[c] = "applying" /\ kind[c] # "batch") =>
         changed[c] = {} /\ \E id \in Ids : todo[c] = {id}

\* The point is live, and no stored result lacks it.
LiveTold(id) == index[id] = "live" /\ \A k \in items : id \in cached[k]

\* The point is deleted, and no stored result has it.
GoneTold(id) == index[id] = "deleted" /\ \A k \in items : id \notin cached[k]

\* What c has changed of the id stays so, and searches know it before c returns.
ChangedAt(c, id) ==
  /\ kind[c] = "delete" => index[id] = "deleted"
  /\ kind[c] # "delete" => (id \in leaving \/ index[id] = "live")
  /\ (pc[c] = "done" /\ kind[c] = "delete") => GoneTold(id)
  /\ (pc[c] = "done" /\ kind[c] # "delete") => (id \in leaving \/ LiveTold(id))

ChangedOK == \A c \in Clients : \A id \in changed[c] \ aside : ChangedAt(c, id)

\* A view of the ids, acked or since[c], is one that every search shares.
ViewOK(view) ==
  \A id \in Ids \ aside :
    /\ (view[id] = "live" /\ id \notin leaving) => LiveTold(id)
    /\ view[id] = "deleted" => GoneTold(id)

IndInv ==
  /\ TypeOK /\ ReadersOK /\ WritersOK /\ ChangedOK
  /\ CacheCurrent /\ SearchSeesWrites
  /\ ViewOK(acked) /\ \A c \in Clients : ViewOK(since[c])

---------------------------------------------------------------------------
\* The cache.

LEMMA PutOK ==
  ASSUME CacheOK, NEW k \in Keys, NEW result \in SUBSET Ids, NEW keys \in SUBSET items,
         IsFiniteSet(keys), Cardinality(keys \cup {k}) <= Capacity, Put(k, result, keys)
  PROVE  CacheOK'
<1>1. items' \subseteq Keys /\ IsFiniteSet(items') /\ Cardinality(items') <= Capacity
  BY Zenon, FS_AddElement DEF Put, CacheOK
<1>2. cached' \in [Keys -> SUBSET Ids]
  BY Zenon DEF Put, CacheOK
<1>3. older' \subseteq items' \X items'
  BY Zenon DEF Put, MoveToFront, CacheOK
<1>4. ASSUME NEW i \in items', NEW j \in items', i # j
      PROVE  <<i, j>> \in older' <=> <<j, i>> \notin older'
  BY Zenon, <1>4 DEF Put, MoveToFront, CacheOK
<1> QED BY Zenon, <1>1, <1>2, <1>3, <1>4 DEF CacheOK

LEMMA SetOK ==
  ASSUME CacheOK, NEW k \in Keys, NEW result \in SUBSET Ids, Set(k, result)
  PROVE  CacheOK'
<1>0. Cardinality(items) \in Nat
  BY Zenon, FS_CardinalityType DEF CacheOK
<1>1. CASE k \in items /\ Put(k, result, items)
  <2>1. items \cup {k} = items
    BY Zenon, <1>1
  <2> QED BY Zenon, <1>1, <2>1, PutOK DEF CacheOK
<1>2. CASE k \notin items /\ Cardinality(items) < Capacity /\ Put(k, result, items)
  <2>1. Cardinality(items \cup {k}) = Cardinality(items) + 1
    BY Zenon, <1>2, FS_AddElement DEF CacheOK
  <2>2. Cardinality(items \cup {k}) <= Capacity
    BY <1>0, <1>2, <2>1, CapacityAssumption
  <2> QED BY <1>2, <2>2, PutOK DEF CacheOK
<1>3. ASSUME NEW old \in items, k \notin items, Put(k, result, items \ {old})
      PROVE  CacheOK'
  <2>1. IsFiniteSet(items \ {old}) /\ Cardinality(items \ {old}) = Cardinality(items) - 1
    BY FS_RemoveElement, SMTT(20) DEF CacheOK
  <2>2. Cardinality((items \ {old}) \cup {k}) = Cardinality(items \ {old}) + 1
    BY <1>3, <2>1, FS_AddElement, SMTT(60)
  <2>3. Cardinality((items \ {old}) \cup {k}) <= Capacity
    BY <1>0, <2>1, <2>2 DEF CacheOK
  <2> QED BY Zenon, <1>3, <2>1, <2>3, PutOK
<1> QED BY Zenon, <1>1, <1>2, <1>3 DEF Set

LEMMA RemoveOK ==
  ASSUME CacheOK, NEW k \in items, Remove(k)
  PROVE  CacheOK'
<1>1. Cardinality(items) \in Nat
  BY Zenon, FS_CardinalityType DEF CacheOK
<1>2. IsFiniteSet(items \ {k}) /\ Cardinality(items \ {k}) = Cardinality(items) - 1
  BY FS_RemoveElement, SMTT(20) DEF CacheOK
<1>3. items' \subseteq Keys /\ IsFiniteSet(items') /\ Cardinality(items') <= Capacity
  BY <1>1, <1>2, CapacityAssumption DEF Remove, CacheOK
<1> QED BY Zenon, <1>3 DEF Remove, CacheOK

LEMMA ClearOK ==
  ASSUME CacheOK, Clear
  PROVE  CacheOK'
  BY FS_EmptySet, CapacityAssumption DEF Clear, CacheOK

LEMMA MoveOK ==
  ASSUME CacheOK, NEW k \in items, older' = MoveToFront(k, items), UNCHANGED <<items, cached>>
  PROVE  CacheOK'
<1>1. older' \subseteq items \X items
  BY DEF MoveToFront, CacheOK
<1>2. ASSUME NEW i \in items, NEW j \in items, i # j
      PROVE  <<i, j>> \in older' <=> <<j, i>> \notin older'
  BY Zenon, <1>2 DEF MoveToFront, CacheOK
<1> QED BY Zenon, <1>1, <1>2 DEF CacheOK
---------------------------------------------------------------------------
LEMMA InitTypeOK == Init => TypeOK
  BY FS_EmptySet, CapacityAssumption, WritesAssumption
     DEF Init, TypeOK, CacheOK, RequestsOK, States, Kinds

LEMMA NextTypeOK == TypeOK /\ [Next]_vars => TypeOK'
<1> SUFFICES ASSUME TypeOK, [Next]_vars PROVE TypeOK'
  BY Zenon
<1> USE DEF TypeOK
<1>1. ASSUME NEW c \in Clients, NEW k \in Keys, SearchHit(c, k)
      PROVE  TypeOK'
  <2>1. CacheOK'
    BY Zenon, <1>1, MoveOK DEF SearchHit
  <2> QED BY <1>1, <2>1 DEF SearchHit, RequestsOK, CacheOK
<1>2. ASSUME NEW c \in Clients, NEW k \in Keys, SearchMiss(c, k)
      PROVE  TypeOK'
  <2>1. CacheOK'
    BY Zenon, <1>2, RemoveOK DEF SearchMiss, CacheOK
  <2> QED BY Zenon, <1>2, <2>1 DEF SearchMiss, RequestsOK
<1>3. ASSUME NEW c \in Clients, SearchRead(c)
      PROVE  TypeOK'
  BY Zenon, <1>3 DEF SearchRead, RequestsOK, CacheOK, Live, store, history
<1>4. ASSUME NEW c \in Clients, SearchReturn(c)
      PROVE  TypeOK'
  <2>1. CacheOK'
    BY <1>4, SetOK DEF SearchReturn, RequestsOK
  <2> QED BY Zenon, <1>4, <2>1 DEF SearchReturn, RequestsOK, history
<1>5. ASSUME NEW c \in Clients, NEW op \in Kinds, NEW ids \in SUBSET Ids, Begin(c, op, ids)
      PROVE  TypeOK'
  <2>1. CacheOK' /\ index' \in [Ids -> States]
    BY Zenon, <1>5 DEF Begin, CacheOK, store
  <2>2. writes' \in 0..MaxWrites
    BY <1>5, WritesAssumption DEF Begin, RequestsOK
  <2>3. leaving' \subseteq Ids /\ aside' \subseteq Ids
    BY Zenon, <1>5 DEF Begin, RequestsOK
  <2> QED BY Zenon, <1>5, <2>1, <2>2, <2>3 DEF Begin, RequestsOK, States
<1>6. ASSUME NEW c \in Clients, NEW id \in Ids, Apply(c, id)
      PROVE  TypeOK'
  <2>1. index' \in [Ids -> States]
    BY Zenon, <1>6 DEF Apply, Applied, States
  <2>2. CacheOK'
    BY Zenon, <1>6 DEF Apply, CacheOK
  <2>3. RequestsOK'
    BY ZenonT(30), <1>6 DEF Apply, RequestsOK, history
  <2> QED BY Zenon, <2>1, <2>2, <2>3
<1>7. ASSUME NEW c \in Clients, Invalidate(c)
      PROVE  TypeOK'
  <2>1. CacheOK'
    BY Zenon, <1>7, ClearOK DEF Invalidate
  <2> QED BY Zenon, <1>7, <2>1 DEF Invalidate, RequestsOK, history
<1>8. ASSUME NEW c \in Clients, Return(c)
      PROVE  TypeOK'
  BY Zenon, <1>8 DEF Return, RequestsOK, CacheOK, States, Kinds, store
<1>9. CASE UNCHANGED vars
  BY Zenon, <1>9 DEF vars, store, request, history, RequestsOK, CacheOK
<1>10. "batch" \in Kinds /\ \A id \in Ids : {id} \in SUBSET Ids
  BY Zenon DEF Kinds
<1> QED BY Zenon, <1>1, <1>2, <1>3, <1>4, <1>5, <1>6, <1>7, <1>8, <1>9, <1>10 DEF Next

\* Every variable of the search path keeps its type in every behaviour; the
\* cache never outgrows its capacity.
THEOREM TypeCorrect == Spec => []TypeOK
  BY InitTypeOK, NextTypeOK, PTL DEF Spec

---------------------------------------------------------------------------
\* Steps that leave the index alone.

LEMMA CacheKept ==
  ASSUME TypeOK, UNCHANGED index, NEW id \in Ids,
         \A k \in items' : cached'[k] = Live \/ (k \in items /\ cached'[k] = cached[k])
  PROVE  /\ LiveTold(id) => LiveTold(id)'
         /\ GoneTold(id) => GoneTold(id)'
  BY Zenon DEF LiveTold, GoneTold, Live

\* A search step: it changes the cache, what it found and what it answers.
LEMMA SearchStep ==
  ASSUME IndInv, TypeOK', ReadersOK',
         UNCHANGED <<index, kind, todo, changed, acked, leaving, aside>>,
         \A k \in items' : cached'[k] = Live \/ (k \in items /\ cached'[k] = cached[k]),
         \A c \in Clients : since'[c] \in {since[c], acked},
         \A c \in Clients : pc'[c] = pc[c] \/ (pc[c] \in {"idle", "missed", "reading"} /\
                                               pc'[c] \in {"idle", "missed", "reading"}),
         SearchSeesWrites'
  PROVE  IndInv'
<1>1. \A id \in Ids : (LiveTold(id) => LiveTold(id)') /\ (GoneTold(id) => GoneTold(id)')
  BY Zenon, CacheKept DEF IndInv
<1>2. WritersOK'
  BY DEF IndInv, WritersOK
<1>3. ChangedOK'
  <2> SUFFICES ASSUME NEW c \in Clients, NEW id \in changed[c] \ aside
               PROVE  ChangedAt(c, id)'
    BY Zenon DEF ChangedOK
  <2>1. id \in Ids /\ ChangedAt(c, id)
    BY Zenon DEF IndInv, ChangedOK, TypeOK, RequestsOK
  <2> QED BY Zenon, <1>1, <2>1 DEF ChangedAt
<1>4. CacheCurrent'
  <2> SUFFICES ASSUME NEW k \in items', NEW id \in Ids \ aside'
               PROVE  \/ id \in cached'[k] <=> id \in Live'
                      \/ \E c \in Clients : PendingOn(c, id)'
    BY Zenon DEF CacheCurrent
  <2>1. Live' = Live
    BY Zenon DEF Live
  <2>2. \A c \in Clients : PendingOn(c, id) => PendingOn(c, id)'
    BY Zenon DEF PendingOn
  <2> QED BY Zenon, <2>1, <2>2 DEF IndInv, CacheCurrent
<1>5. ViewOK(acked)'
  BY Zenon, <1>1 DEF IndInv, ViewOK
<1>6. ASSUME NEW c \in Clients
      PROVE  ViewOK(since[c])'
  <2>1. CASE since'[c] = since[c]
    BY <1>1, <2>1 DEF IndInv, ViewOK
  <2>2. CASE since'[c] = acked
    BY Zenon, <1>1, <2>2 DEF IndInv, ViewOK
  <2> QED BY Zenon, <2>1, <2>2
<1> QED BY Zenon, <1>2, <1>3, <1>4, <1>5, <1>6 DEF IndInv

LEMMA SearchHitInv ==
  ASSUME IndInv, TypeOK', NEW c \in Clients, NEW k \in Keys, SearchHit(c, k)
  PROVE  IndInv'
<1>1. ReadersOK'
  BY Zenon DEF IndInv, ReadersOK, SearchHit, Live
<1>2. SearchSeesWrites'
  <2> SUFFICES ASSUME NEW d \in answered', NEW id \in Ids \ aside
               PROVE  /\ (since'[d][id] = "live" /\ id \notin leaving) => id \in answer'[d]
                      /\ since'[d][id] = "deleted" => id \notin answer'[d]
    BY Zenon DEF SearchSeesWrites, SearchHit
  <2>1. CASE d = c
    <3>1. since'[d] = acked /\ answer'[d] = cached[k] /\ k \in items
      BY Zenon, <2>1 DEF IndInv, TypeOK, RequestsOK, SearchHit
    <3> QED BY Zenon, <3>1 DEF IndInv, ViewOK, LiveTold, GoneTold
  <2>2. CASE d # c
    BY Zenon, <2>2 DEF IndInv, TypeOK, RequestsOK, SearchSeesWrites, SearchHit
  <2> QED BY Zenon, <2>1, <2>2
<1>3. \A d \in Clients : since'[d] \in {since[d], acked}
  BY Zenon DEF IndInv, TypeOK, RequestsOK, SearchHit
<1> QED BY Zenon, <1>1, <1>2, <1>3, SearchStep DEF SearchHit

LEMMA SearchMissInv ==
  ASSUME IndInv, TypeOK', NEW c \in Clients, NEW k \in Keys, SearchMiss(c, k)
  PROVE  IndInv'
<1>1. ReadersOK'
  BY Zenon DEF IndInv, TypeOK, RequestsOK, ReadersOK, SearchMiss, Live
<1>2. SearchSeesWrites'
  BY DEF IndInv, TypeOK, RequestsOK, SearchSeesWrites, SearchMiss
<1>3. \A d \in Clients : since'[d] \in {since[d], acked}
  BY Zenon DEF IndInv, TypeOK, RequestsOK, SearchMiss
<1>4. \A j \in items' : j \in items /\ cached'[j] = cached[j]
  BY Zenon DEF SearchMiss, Remove
<1>5. \A d \in Clients : pc'[d] = pc[d] \/ (pc[d] = "idle" /\ pc'[d] = "missed")
  BY Zenon DEF IndInv, TypeOK, RequestsOK, SearchMiss
<1> QED BY Zenon, <1>1, <1>2, <1>3, <1>4, <1>5, SearchStep DEF SearchMiss

LEMMA SearchReadInv ==
  ASSUME IndInv, TypeOK', NEW c \in Clients, SearchRead(c)
  PROVE  IndInv'
<1>1. ReadersOK'
  BY DEF IndInv, TypeOK, RequestsOK, ReadersOK, SearchRead, Live, store
<1>2. SearchSeesWrites'
  BY Zenon DEF IndInv, SearchSeesWrites, SearchRead, history
<1>3. \A d \in Clients : pc'[d] = pc[d] \/ (pc[d] = "missed" /\ pc'[d] = "reading")
  BY Zenon DEF IndInv, TypeOK, RequestsOK, SearchRead
<1> QED BY Zenon, <1>1, <1>2, <1>3, SearchStep DEF SearchRead, store, history

LEMMA SearchReturnInv ==
  ASSUME IndInv, TypeOK', NEW c \in Clients, SearchReturn(c)
  PROVE  IndInv'
<1>1. found[c] = Live
  BY Zenon DEF IndInv, ReadersOK, SearchReturn
<1>2. ReadersOK'
  BY Zenon DEF IndInv, TypeOK, RequestsOK, ReadersOK, SearchReturn, Live
<1>3. SearchSeesWrites'
  <2> SUFFICES ASSUME NEW d \in answered', NEW id \in Ids \ aside
               PROVE  /\ (since[d][id] = "live" /\ id \notin leaving) => id \in answer'[d]
                      /\ since[d][id] = "deleted" => id \notin answer'[d]
    BY Zenon DEF SearchSeesWrites, SearchReturn, history
  <2>1. CASE d = c
    <3>1. answer'[d] = Live
      BY Zenon, <1>1, <2>1 DEF IndInv, TypeOK, RequestsOK, SearchReturn
    <3> QED BY Zenon, <2>1, <3>1 DEF IndInv, ViewOK, LiveTold, GoneTold, Live
  <2>2. CASE d # c
    BY SMTT(30), <2>2 DEF IndInv, TypeOK, RequestsOK, SearchSeesWrites, SearchReturn
  <2> QED BY Zenon, <2>1, <2>2
<1>4. \A j \in items' : cached'[j] = Live \/ (j \in items /\ cached'[j] = cached[j])
  <2>1. PICK keys \in SUBSET items : Put(key[c], Live, keys)
    BY Zenon, <1>1 DEF SearchReturn, Set
  <2>2. cached' = [cached EXCEPT ![key[c]] = Live] /\ items' = keys \cup {key[c]}
    BY Zenon, <2>1 DEF Put
  <2> QED BY <2>2 DEF IndInv, TypeOK, CacheOK, RequestsOK
<1>5. \A d \in Clients : pc'[d] = pc[d] \/ (pc[d] = "reading" /\ pc'[d] = "idle")
  BY Zenon DEF IndInv, TypeOK, RequestsOK, SearchReturn
<1> QED BY Zenon, <1>2, <1>3, <1>4, <1>5, SearchStep DEF SearchReturn, history
---------------------------------------------------------------------------
\* Steps of a write.

LEMMA BeginInv ==
  ASSUME IndInv, TypeOK', NEW c \in Clients, NEW op \in Kinds, NEW ids \in SUBSET Ids,
         Begin(c, op, ids), op # "batch" => \E id \in Ids : ids = {id}
  PROVE  IndInv'
<1>1. /\ UNCHANGED <<index, items, cached, found, acked>>
      /\ leaving \subseteq leaving' /\ aside \subseteq aside'
      /\ op \in {"delete", "upsert"} => ids \subseteq leaving'
      /\ op \in {"upsert", "insertV2"} => ids \subseteq aside'
  BY Zenon DEF Begin, store
<1>2. /\ pc[c] = "idle" /\ pc'[c] = "applying" /\ kind'[c] = op
      /\ todo'[c] = ids /\ changed'[c] = {} /\ answered' = answered \ {c}
      /\ \A d \in Clients \ {c} :
           /\ pc'[d] = pc[d] /\ kind'[d] = kind[d] /\ todo'[d] = todo[d]
           /\ changed'[d] = changed[d] /\ answer'[d] = answer[d] /\ since'[d] = since[d]
      /\ \A id \in Ids : since'[c][id] = "absent"
  BY DEF Begin, IndInv, TypeOK, RequestsOK
<1>3. \A id \in Ids : (LiveTold(id)' <=> LiveTold(id)) /\ (GoneTold(id)' <=> GoneTold(id))
  BY ZenonT(30), <1>1 DEF LiveTold, GoneTold
<1>4. ReadersOK'
  BY <1>1, <1>2 DEF IndInv, ReadersOK, Live
<1>5. WritersOK'
  <2> SUFFICES ASSUME NEW d \in Clients
               PROVE  /\ kind'[d] \in {"delete", "upsert"} => todo'[d] \subseteq leaving'
                      /\ kind'[d] \in {"upsert", "insertV2"} =>
                           todo'[d] \cup changed'[d] \subseteq aside'
                      /\ (pc'[d] = "applying" /\ kind'[d] # "batch") =>
                           changed'[d] = {} /\ \E id \in Ids : todo'[d] = {id}
    BY Zenon DEF WritersOK
  <2>1. CASE d = c
    BY Zenon, <1>1, <1>2, <2>1
  <2>2. CASE d # c
    BY <1>1, <1>2, <2>2 DEF IndInv, WritersOK
  <2> QED BY Zenon, <2>1, <2>2
<1>6. ChangedOK'
  <2> SUFFICES ASSUME NEW d \in Clients, NEW id \in changed'[d] \ aside'
               PROVE  ChangedAt(d, id)'
    BY Zenon DEF ChangedOK
  <2>1. d # c /\ id \in changed[d] \ aside /\ id \in Ids
    BY Zenon, <1>1, <1>2 DEF IndInv, TypeOK, RequestsOK
  <2>2. ChangedAt(d, id)
    BY Zenon, <2>1 DEF IndInv, ChangedOK
  <2> QED BY Zenon, <1>1, <1>2, <1>3, <2>1, <2>2 DEF ChangedAt
<1>7. CacheCurrent'
  <2>1. Live' = Live
    BY Zenon, <1>1 DEF Live
  <2>2. \A d \in Clients, id \in Ids : PendingOn(d, id) => PendingOn(d, id)'
    BY Zenon, <1>2 DEF PendingOn
  <2> QED BY Zenon, <1>1, <2>1, <2>2 DEF IndInv, CacheCurrent
<1>8. SearchSeesWrites'
  <2> SUFFICES ASSUME NEW d \in answered', NEW id \in Ids \ aside'
               PROVE  /\ (since'[d][id] = "live" /\ id \notin leaving') => id \in answer'[d]
                      /\ since'[d][id] = "deleted" => id \notin answer'[d]
    BY Zenon DEF SearchSeesWrites
  <2>1. d \in Clients
    BY Zenon DEF TypeOK, RequestsOK
  <2>2. d # c /\ d \in answered /\ id \in Ids \ aside
    BY Zenon, <1>1, <1>2
  <2>3. since'[d] = since[d] /\ answer'[d] = answer[d]
    BY Zenon, <1>2, <2>1, <2>2
  <2> QED BY Zenon, <1>1, <2>2, <2>3 DEF IndInv, SearchSeesWrites
<1>9. ViewOK(acked)'
  BY Zenon, <1>1, <1>3 DEF IndInv, ViewOK
<1>10. ASSUME NEW d \in Clients
       PROVE  ViewOK(since[d])'
  BY <1>1, <1>2, <1>3 DEF IndInv, ViewOK
<1> QED BY <1>4, <1>5, <1>6, <1>7, <1>8, <1>9, <1>10 DEF IndInv

LEMMA InvalidateInv ==
  ASSUME IndInv, TypeOK', NEW c \in Clients, Invalidate(c)
  PROVE  IndInv'
<1>1. /\ UNCHANGED <<index, kind, todo, changed, found, answered, answer,
                     acked, leaving, aside, since>>
      /\ items' = {}
  BY Zenon DEF Invalidate, Clear, history
<1>2. /\ pc[c] = "clearing" /\ pc'[c] = "done"
      /\ \A d \in Clients \ {c} : pc'[d] = pc[d]
  BY Zenon DEF Invalidate, IndInv, TypeOK, RequestsOK
<1>3. \A id \in Ids : /\ index[id] = "live" => LiveTold(id)'
                      /\ index[id] = "deleted" => GoneTold(id)'
  BY Zenon, <1>1 DEF LiveTold, GoneTold
<1>4. ReadersOK' /\ WritersOK' /\ SearchSeesWrites'
  BY SMTT(30), <1>1, <1>2 DEF IndInv, ReadersOK, WritersOK, SearchSeesWrites, Live
<1>5. ChangedOK'
  BY <1>1, <1>2, <1>3 DEF IndInv, ChangedOK, ChangedAt, TypeOK, RequestsOK
<1>6. CacheCurrent'
  BY Zenon, <1>1 DEF CacheCurrent
<1>7. ViewOK(acked)' /\ \A d \in Clients : ViewOK(since[d])'
  BY Zenon, <1>1, <1>3 DEF IndInv, ViewOK, LiveTold, GoneTold
<1> QED BY Zenon, <1>4, <1>5, <1>6, <1>7 DEF IndInv

LEMMA ReturnInv ==
  ASSUME IndInv, TypeOK', NEW c \in Clients, Return(c)
  PROVE  IndInv'
<1>1. UNCHANGED <<index, items, cached, todo, found, answered, answer, leaving, aside, since>>
  BY Zenon DEF Return, store
<1>2. /\ pc[c] = "done" /\ pc'[c] = "idle" /\ changed'[c] = {} /\ kind'[c] = "insert"
      /\ \A d \in Clients \ {c} :
           pc'[d] = pc[d] /\ kind'[d] = kind[d] /\ changed'[d] = changed[d]
  BY DEF Return, IndInv, TypeOK, RequestsOK
<1>3. \A id \in Ids : (LiveTold(id)' <=> LiveTold(id)) /\ (GoneTold(id)' <=> GoneTold(id))
  BY Zenon, <1>1 DEF LiveTold, GoneTold
<1>4. ReadersOK' /\ SearchSeesWrites'
  BY <1>1, <1>2 DEF IndInv, ReadersOK, SearchSeesWrites, Live
<1>5. WritersOK'
  BY Zenon, <1>1, <1>2 DEF IndInv, WritersOK
<1>6. ChangedOK'
  <2> SUFFICES ASSUME NEW d \in Clients, NEW id \in changed'[d] \ aside'
               PROVE  ChangedAt(d, id)'
    BY Zenon DEF ChangedOK
  <2>1. d # c /\ id \in changed[d] \ aside /\ id \in Ids
    BY Zenon, <1>1, <1>2 DEF IndInv, TypeOK, RequestsOK
  <2>2. ChangedAt(d, id)
    BY <2>1 DEF IndInv, ChangedOK
  <2> QED BY Zenon, <1>1, <1>2, <1>3, <2>1, <2>2 DEF ChangedAt
<1>7. CacheCurrent'
  <2>1. Live' = Live
    BY Zenon, <1>1 DEF Live
  <2>2. \A d \in Clients, id \in Ids : PendingOn(d, id) => PendingOn(d, id)'
    BY Zenon, <1>2 DEF PendingOn
  <2> QED BY Zenon, <1>1, <2>1, <2>2 DEF IndInv, CacheCurrent
<1>8. ViewOK(acked)'
  <2> SUFFICES ASSUME NEW id \in Ids \ aside
               PROVE  /\ (acked'[id] = "live" /\ id \notin leaving) => LiveTold(id)
                      /\ acked'[id] = "deleted" => GoneTold(id)
    BY Zenon, <1>1, <1>3 DEF ViewOK
  <2>1. CASE id \notin changed[c]
    BY <2>1 DEF IndInv, ViewOK, Return
  <2>2. CASE id \in changed[c]
    <3>1. acked'[id] = IF kind[c] = "delete" THEN "deleted" ELSE "live"
      BY Zenon, <2>2 DEF Return
    <3> QED BY Zenon, <1>2, <2>2, <3>1 DEF IndInv, ChangedOK, ChangedAt
  <2> QED BY Zenon, <2>1, <2>2
<1>9. \A d \in Clients : ViewOK(since[d])'
  BY Zenon, <1>1, <1>3 DEF IndInv, ViewOK
<1> QED BY Zenon, <1>4, <1>5, <1>6, <1>7, <1>8, <1>9 DEF IndInv
\* One point is applied.  Nobody holds the lock, so no search is left with an
\* older index; and a change that searches must hear of leaves the write pending.
LEMMA ApplyInv ==
  ASSUME IndInv, TypeOK', NEW c \in Clients, NEW p \in Ids, Apply(c, p)
  PROVE  IndInv'
<1> DEFINE ok == Succeeds(kind[c], index[p])
<1>1. /\ UNCHANGED <<items, cached, kind, found, answered, answer, acked, leaving, aside, since>>
      /\ pc[c] = "applying" /\ p \in todo[c]
      /\ \A d \in Clients : pc[d] # "reading"
  BY Zenon DEF Apply, LockFree, Readers, history
<1>2. /\ todo'[c] = todo[c] \ {p}
      /\ changed'[c] = IF ok THEN changed[c] \cup {p} ELSE changed[c]
      /\ pc'[c] = IF todo[c] # {p} THEN "applying" ELSE
                  IF Clears(c, ok) THEN "clearing" ELSE "done"
      /\ \A d \in Clients \ {c} :
           pc'[d] = pc[d] /\ todo'[d] = todo[d] /\ changed'[d] = changed[d]
  <2>1. DOMAIN pc = Clients /\ DOMAIN todo = Clients /\ DOMAIN changed = Clients
    BY Zenon DEF IndInv, TypeOK, RequestsOK
  <2> QED BY Zenon, <2>1 DEF Apply
<1>3. /\ index'[p] = Applied(kind[c], index[p])
      /\ \A id \in Ids \ {p} : index'[id] = index[id]
  BY DEF Apply, IndInv, TypeOK
<1>4. /\ index[p] \in States /\ kind[c] \in Kinds
      /\ kind[c] \in {"delete", "upsert"} => p \in leaving
      /\ kind[c] \in {"upsert", "insertV2"} => p \in aside
      /\ kind[c] # "batch" => changed[c] = {} /\ todo[c] = {p}
  BY Zenon, <1>1 DEF IndInv, WritersOK, TypeOK, RequestsOK
<1>5. /\ index[p] = "deleted" => index'[p] = "deleted"
      /\ (index[p] = "live" /\ p \notin leaving) => index'[p] = "live"
      /\ p \notin aside => (ok \/ index'[p] = index[p])
      /\ (p \notin aside /\ ok) => index'[p] = IF kind[c] = "delete" THEN "deleted" ELSE "live"
  BY <1>3, <1>4 DEF Applied, Succeeds, States, Kinds
<1>6. \A id \in Ids : /\ GoneTold(id) => GoneTold(id)'
                      /\ (LiveTold(id) /\ id \notin leaving) => LiveTold(id)'
  BY Zenon, <1>1, <1>3, <1>5 DEF LiveTold, GoneTold
<1>7. ReadersOK' /\ SearchSeesWrites'
  BY <1>1, <1>2 DEF IndInv, ReadersOK, SearchSeesWrites
<1>8. WritersOK'
  <2> SUFFICES ASSUME NEW d \in Clients
               PROVE  /\ kind[d] \in {"delete", "upsert"} => todo'[d] \subseteq leaving
                      /\ kind[d] \in {"upsert", "insertV2"} =>
                           todo'[d] \cup changed'[d] \subseteq aside
                      /\ (pc'[d] = "applying" /\ kind[d] # "batch") =>
                           changed'[d] = {} /\ \E id \in Ids : todo'[d] = {id}
    BY Zenon, <1>1 DEF WritersOK
  <2>1. CASE d = c
    BY Zenon, <1>2, <1>4, <2>1 DEF IndInv, WritersOK
  <2>2. CASE d # c
    BY <1>2, <2>2 DEF IndInv, WritersOK
  <2> QED BY Zenon, <2>1, <2>2
<1>9. ChangedOK'
  <2> SUFFICES ASSUME NEW d \in Clients, NEW id \in changed'[d] \ aside
               PROVE  ChangedAt(d, id)'
    BY Zenon, <1>1 DEF ChangedOK
  <2>1. id \in Ids
    BY ZenonT(30) DEF TypeOK, RequestsOK
  <2>2. CASE id \in changed[d]
    <3>1. ChangedAt(d, id)
      BY Zenon, <2>2 DEF IndInv, ChangedOK
    <3>2. pc'[d] = "done" => pc[d] = "done"
      BY <1>1, <1>2, <1>4, <2>2 DEF Clears
    <3> QED BY SMTT(30), <1>1, <1>3, <1>5, <1>6, <2>1, <3>1, <3>2 DEF ChangedAt
  <2>3. CASE id \notin changed[d]
    <3>1. d = c /\ id = p /\ ok
      BY <1>2, <2>3
    <3>2. pc'[c] # "done"
      BY Zenon, <1>2, <1>4, <3>1 DEF Clears, Kinds
    <3> QED BY Zenon, <1>1, <1>5, <3>1, <3>2 DEF ChangedAt
  <2> QED BY Zenon, <2>2, <2>3
<1>10. CacheCurrent'
  <2> SUFFICES ASSUME NEW k \in items, NEW id \in Ids \ aside
               PROVE  \/ id \in cached[k] <=> id \in Live'
                      \/ \E d \in Clients : PendingOn(d, id)'
    BY Zenon, <1>1 DEF CacheCurrent
  <2>1. CASE id = p /\ ok
    <3>1. p \in changed'[c] /\ pc'[c] \in {"applying", "clearing"}
      BY Zenon, <1>2, <1>4, <2>1 DEF Clears, Kinds
    <3> QED BY <2>1, <3>1 DEF PendingOn
  <2>2. CASE ~(id = p /\ ok)
    <3>1. id \in Live' <=> id \in Live
      BY Zenon, <1>3, <1>5, <2>2 DEF Live
    <3>2. ASSUME NEW d \in Clients, PendingOn(d, id)
          PROVE  PendingOn(d, id)'
      BY Zenon, <1>2, <1>4, <3>2 DEF PendingOn, Clears
    <3> QED BY Zenon, <3>1, <3>2 DEF IndInv, CacheCurrent
  <2> QED BY <2>1, <2>2
<1>11. ViewOK(acked)' /\ \A d \in Clients : ViewOK(since[d])'
  BY Zenon, <1>1, <1>6 DEF IndInv, ViewOK
<1> QED BY Zenon, <1>7, <1>8, <1>9, <1>10, <1>11 DEF IndInv

---------------------------------------------------------------------------
LEMMA InitIndInv == Init => IndInv
<1> SUFFICES ASSUME Init PROVE IndInv
  BY Zenon
<1>1. TypeOK
  BY Zenon, InitTypeOK
<1>2. ViewOK(acked) /\ \A c \in Clients : ViewOK(since[c])
  BY Zenon DEF Init, ViewOK
<1> QED BY Zenon, <1>1, <1>2 DEF Init, IndInv, ReadersOK, WritersOK, ChangedOK,
                          CacheCurrent, SearchSeesWrites

LEMMA NextIndInv == IndInv /\ [Next]_vars => IndInv'
<1> SUFFICES ASSUME IndInv, [Next]_vars PROVE IndInv'
  BY Zenon
<1>1. TypeOK'
  BY Zenon, NextTypeOK DEF IndInv
<1>2. ASSUME NEW c \in Clients, NEW k \in Keys, SearchHit(c, k) \/ SearchMiss(c, k)
      PROVE  IndInv'
  BY Zenon, <1>1, <1>2, SearchHitInv, SearchMissInv
<1>3. ASSUME NEW c \in Clients, SearchRead(c) \/ SearchReturn(c)
      PROVE  IndInv'
  BY Zenon, <1>1, <1>3, SearchReadInv, SearchReturnInv
<1>4. ASSUME NEW c \in Clients, NEW op \in Kinds \ {"batch"}, NEW id \in Ids, Begin(c, op, {id})
      PROVE  IndInv'
  BY <1>1, <1>4, BeginInv
<1>5. ASSUME NEW c \in Clients, NEW ids \in SUBSET Ids, Begin(c, "batch", ids)
      PROVE  IndInv'
  BY Zenon, <1>1, <1>5, BeginInv DEF Kinds
<1>6. ASSUME NEW c \in Clients, NEW id \in Ids, Apply(c, id)
      PROVE  IndInv'
  BY <1>1, <1>6, ApplyInv
<1>7. ASSUME NEW c \in Clients, Invalidate(c) \/ Return(c)
      PROVE  IndInv'
  BY Zenon, <1>1, <1>7, InvalidateInv, ReturnInv
<1>8. CASE UNCHANGED vars
  <2>1. ReadersOK' /\ SearchSeesWrites'
    BY Zenon, <1>8 DEF IndInv, ReadersOK, SearchSeesWrites, Live, vars, store, request, history
  <2> QED BY Zenon, <1>1, <1>8, <2>1, SearchStep DEF vars, store, request, history
<1> QED BY <1>2, <1>3, <1>4, <1>5, <1>6, <1>7, <1>8 DEF Next

\* The inductive invariant holds in every behaviour of searches and writes.
THEOREM Invariance == Spec => []IndInv
  BY InitIndInv, NextIndInv, PTL DEF Spec

\* No stored result is out of date but for writes that have yet to clear the
\* cache, for any number of clients, points and queries and any capacity.
THEOREM CacheAlwaysCurrent == Spec => []CacheCurrent
<1>1. IndInv => CacheCurrent
  BY Zenon DEF IndInv
<1> QED BY <1>1, Invariance, PTL

\* Every search reflects the inserts and deletes that returned before it began.
THEOREM SearchesSeeWrites == Spec => []SearchSeesWrites
<1>1. IndInv => SearchSeesWrites
  BY Zenon DEF IndInv
<1> QED BY <1>1, Invariance, PTL
=============================================================================
