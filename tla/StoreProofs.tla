-------------------------- MODULE StoreProofs --------------------------
(***************************************************************************)
(* Proofs about the collection of module Store, for every set of clients,  *)
(* ids and values and every bound.                                         *)
(*                                                                         *)
(* The argument.  Under replay the state of an id only moves from absent   *)
(* to a value to deleted (Later).  shadow records every state that a       *)
(* replay from nothing passes through, so that replay from an index.meta   *)
(* can be compared with it record by record: up to the record where the    *)
(* file was saved, an id that the file knows keeps its saved state or is   *)
(* deleted; from there on it agrees with shadow or is deleted where shadow *)
(* has it live (Agrees).                                                   *)
(*                                                                         *)
(* First come what the operators of Store do and the types of its          *)
(* variables, then the invariant IndInv and the steps of clients, then     *)
(* stopping, starting and replay, and last the theorems.                   *)
(***************************************************************************)
EXTENDS Store, TLAPS

USE StatesAssumption

\* The state t may follow the state s of one id.
Later(s, t) == s = Absent \/ t = s \/ t = Deleted

\* The state x of an id in an index or an index.meta, beside what the log says.
Agrees(x, s) == x = s \/ (x = Deleted /\ s \in Values)

RemovalLogged(id) == Logged("delete", id) \/ Logged("update", id)

\* shadow starts from nothing, follows the log, and moves forward only; what
\* it has as deleted, a record deletes.
ShadowOK ==
  /\ shadow[1] = Empty
  /\ \A k \in 1..Len(wal) : shadow[k + 1] = ApplyEntry(wal[k], shadow[k])
  /\ \A j, k \in 1..Len(shadow), id \in Ids :
       j <= k => Later(shadow[j][id], shadow[k][id])
  /\ \A k \in 1..Len(shadow), id \in Ids : shadow[k][id] = Deleted => RemovalLogged(id)

\* Clients work only while requests run; the entry of a logged one is in the
\* log, at the place at.
ClientsOK ==
  /\ ~Running => \A c \in Clients : pc[c] = "idle"
  /\ \A c \in Clients, id \in Ids : PendingOn(c, id) =>
       id \in entry[c].ids /\ at[c] \in 1..Len(wal) /\ wal[at[c]] = entry[c]

\* Without a dropped collection the directory is there and nobody is orphaned.
NeverDropped ==
  disordered # Ids => dir /\ orphans = {} /\ (phase # "down" => exists)

MetaOK ==
  meta # NoMeta => \A id \in Ids : Clean(id) =>
    /\ Agrees(meta[id], shadow[metaAt[id] + 1][id])
    /\ meta[id] = Deleted => RemovalLogged(id)

ReplayOK ==
  phase = "replaying" => \A id \in Ids : Clean(id) =>
    /\ \/ index[id] = shadow[pos + 1][id]
       \/ meta # NoMeta /\ Agrees(index[id], shadow[pos + 1][id])
       \/ /\ meta # NoMeta /\ pos < metaAt[id]
          /\ meta[id] # Absent /\ index[id] \in {meta[id], Deleted}
    /\ index[id] = Deleted => RemovalLogged(id)

\* Of a clean id while requests run: at most one client is between the log and
\* the index with it, its entry is the last to change the id, and the index
\* stands right before that entry.
ServingAt(id) ==
  /\ Settled(id) =>
       index[id] = Rebuilt[id] \/ (meta # NoMeta /\ Agrees(index[id], Rebuilt[id]))
  /\ \A c \in Clients : PendingOn(c, id) =>
       /\ \A d \in Clients : PendingOn(d, id) => d = c
       /\ \/ index[id] = shadow[at[c]][id]
          \/ meta # NoMeta /\ Agrees(index[id], shadow[at[c]][id])
       /\ shadow[at[c] + 1][id] = Rebuilt[id]
  /\ index[id] = Deleted => RemovalLogged(id)
  /\ Later(acked[id], index[id])

ServingOK == Running => \A id \in Ids : Clean(id) => ServingAt(id)

AckedOK == \A id \in Ids : Clean(id) => Later(acked[id], Rebuilt[id])

IndInv ==
  /\ TypeOK /\ ShadowOK /\ ClientsOK /\ NeverDropped
  /\ MetaOK /\ ReplayOK /\ ServingOK /\ AckedOK /\ WriteAhead

---------------------------------------------------------------------------
\* What a record does to the state of one id.
LEMMA StepFacts ==
  ASSUME NEW kind \in Kinds, NEW s \in States, NEW v \in Values \cup {Absent},
         kind # "delete" => v \in Values
  PROVE  /\ Step(kind, s, v) \in States
         /\ Later(s, Step(kind, s, v))
         /\ s = Absent => Step(kind, s, v) # Deleted
         /\ s # Absent => Step(kind, s, v) \in {s, Deleted}
         /\ (s # Deleted /\ Step(kind, s, v) = Deleted) => kind \in {"delete", "update"}
         /\ Step(kind, s, v) \in Values => Step(kind, s, v) \in {s, v}
  BY Zenon DEF Kinds, States, Step, Later, Inserted, Removed, Upserted

LEMMA LaterTransitive ==
  ASSUME NEW s, NEW t, NEW u, Later(s, t), Later(t, u)
  PROVE  Later(s, u)
  BY Zenon DEF Later

\* A record applied on both sides keeps the agreement.
LEMMA StepAgrees ==
  ASSUME NEW kind \in Kinds, NEW x \in States, NEW s \in States,
         NEW v \in Values \cup {Absent}, kind # "delete" => v \in Values,
         Agrees(x, s)
  PROVE  Agrees(Step(kind, x, v), Step(kind, s, v))
  BY DEF Kinds, States, Step, Agrees, Inserted, Removed, Upserted

LEMMA EntryFields ==
  ASSUME NEW e \in Entry
  PROVE  /\ e.kind \in Kinds /\ e.ids \subseteq Ids /\ e.val \in Values \cup {Absent}
         /\ e.kind # "delete" => e.val \in Values
  BY Zenon DEF Entry

LEMMA ApplyEntryFacts ==
  ASSUME NEW e \in Entry, NEW x \in [Ids -> States]
  PROVE  /\ ApplyEntry(e, x) \in [Ids -> States]
         /\ \A id \in Ids : ApplyEntry(e, x)[id] =
              IF id \in e.ids THEN Step(e.kind, x[id], e.val) ELSE x[id]
  BY Zenon, EntryFields, StepFacts DEF ApplyEntry

LEMMA NoEntryIsEntry == NoEntry \in Entry
  BY Zenon DEF NoEntry, Entry, Kinds

LEMMA EmptyIsIndex == Empty \in [Ids -> States]
  BY Zenon DEF Empty, States

\* What AppendEntry does to the log and to shadow, position by position.
LEMMA AppendFacts ==
  ASSUME TypeOK, NEW c \in Clients, AppendEntry(c)
  PROVE  /\ wal' \in Seq(Entry) /\ Len(wal') = Len(wal) + 1
         /\ \A i \in 1..Len(wal) : wal'[i] = wal[i]
         /\ wal'[Len(wal) + 1] = entry[c]
         /\ shadow' \in Seq([Ids -> States]) /\ Len(shadow') = Len(wal') + 1
         /\ \A k \in 1..Len(shadow) : shadow'[k] = shadow[k]
         /\ shadow'[Len(shadow) + 1] = ApplyEntry(entry[c], Rebuilt)
<1>1. entry[c] \in Entry
  BY Zenon DEF TypeOK
<1>2. Rebuilt \in [Ids -> States]
  BY DEF TypeOK, Rebuilt
<1>3. ApplyEntry(entry[c], Rebuilt) \in [Ids -> States]
  BY Zenon, <1>1, <1>2, ApplyEntryFacts
<1>4. wal' = Append(wal, entry[c]) /\ shadow' = Append(shadow, ApplyEntry(entry[c], Rebuilt))
  BY Zenon DEF AppendEntry, Rebuilt
<1>5. wal \in Seq(Entry) /\ shadow \in Seq([Ids -> States]) /\ Len(shadow) = Len(wal) + 1
  BY Zenon DEF TypeOK
<1> HIDE DEF Rebuilt
<1> QED BY <1>1, <1>3, <1>4, <1>5

\* Records are never removed, so what was logged stays logged.
LEMMA LoggedStays ==
  ASSUME TypeOK, NEW c \in Clients, AppendEntry(c), NEW id \in Ids, RemovalLogged(id)
  PROVE  RemovalLogged(id)'
<1>1. Len(wal) \in Nat /\ Len(wal') = Len(wal) + 1
  BY SMTT(30), AppendFacts DEF TypeOK
<1>2. \A i \in 1..Len(wal) : wal'[i] = wal[i]
  BY Zenon, AppendFacts
<1> QED BY <1>1, <1>2 DEF RemovalLogged, Logged

LEMMA AppendShadowOK ==
  ASSUME TypeOK, ShadowOK, NEW c \in Clients, AppendEntry(c)
  PROVE  /\ ShadowOK'
         /\ Rebuilt' = ApplyEntry(entry[c], Rebuilt)
         /\ \A id \in Ids : Rebuilt'[id] =
              IF id \in entry[c].ids THEN Step(entry[c].kind, Rebuilt[id], entry[c].val)
                                     ELSE Rebuilt[id]
         /\ \A id \in Ids : Later(Rebuilt[id], Rebuilt'[id])
<1> DEFINE n == Len(wal)
<1>0. n \in Nat /\ Len(shadow) = n + 1
  BY DEF TypeOK
<1>1. /\ n \in Nat /\ Len(wal') = n + 1
      /\ Len(shadow) = n + 1 /\ Len(shadow') = n + 2
      /\ \A i \in 1..n : wal'[i] = wal[i]
      /\ wal'[n + 1] = entry[c]
      /\ \A k \in 1..(n + 1) : shadow'[k] = shadow[k]
      /\ shadow'[n + 2] = ApplyEntry(entry[c], Rebuilt)
  BY <1>0, AppendFacts
<1>2. Rebuilt = shadow[n + 1] /\ Rebuilt' = shadow'[n + 2]
  BY Zenon, <1>1 DEF Rebuilt
<1>3. entry[c] \in Entry /\ Rebuilt \in [Ids -> States]
  BY <1>1, <1>2 DEF TypeOK
<1>4. \A id \in Ids : Rebuilt'[id] =
        IF id \in entry[c].ids THEN Step(entry[c].kind, Rebuilt[id], entry[c].val)
                               ELSE Rebuilt[id]
  BY <1>1, <1>2, <1>3, ApplyEntryFacts
<1>5. ASSUME NEW id \in Ids
      PROVE  /\ Later(Rebuilt[id], Rebuilt'[id])
             /\ Rebuilt'[id] = Deleted => Rebuilt[id] = Deleted
                                          \/ (id \in entry[c].ids
                                              /\ entry[c].kind \in {"delete", "update"})
  <2>1. Rebuilt[id] \in States
    BY Zenon, <1>3
  <2>2. CASE id \in entry[c].ids
    BY <1>3, <1>4, <2>1, <2>2, StepFacts, EntryFields
  <2>3. CASE id \notin entry[c].ids
    BY Zenon, <1>4, <2>3 DEF Later
  <2> QED BY Zenon, <2>2, <2>3
<1> HIDE DEF n
<1>6. shadow'[1] = Empty
  BY <1>1 DEF ShadowOK
<1>7. \A k \in 1..(n + 1) : shadow'[k + 1] = ApplyEntry(wal'[k], shadow'[k])
  <2> TAKE k \in 1..(n + 1)
  <2>1. CASE k = n + 1
    BY <1>1, <1>2, <2>1
  <2>2. CASE k # n + 1
    <3>1. k \in 1..n /\ k \in 1..(n + 1) /\ k + 1 \in 1..(n + 1)
      BY <1>1, <2>2
    <3>2. shadow[k + 1] = ApplyEntry(wal[k], shadow[k])
      BY Zenon, <3>1 DEF ShadowOK, n
    <3> QED BY Zenon, <1>1, <3>1, <3>2
  <2> QED BY Zenon, <2>1, <2>2
<1>8. \A j, k \in 1..(n + 2), id \in Ids :
        j <= k => Later(shadow'[j][id], shadow'[k][id])
  <2> SUFFICES ASSUME NEW j \in 1..(n + 2), NEW k \in 1..(n + 2), NEW id \in Ids, j <= k
               PROVE  Later(shadow'[j][id], shadow'[k][id])
    BY Zenon
  <2>1. CASE k \in 1..(n + 1)
    BY <1>1, <2>1 DEF ShadowOK
  <2>2. CASE k = n + 2 /\ j \in 1..(n + 1)
    <3>1. Later(shadow[j][id], Rebuilt[id])
      BY <1>1, <1>2, <2>2 DEF ShadowOK
    <3>2. Later(Rebuilt[id], Rebuilt'[id])
      BY Zenon, <1>5
    <3>3. Later(shadow[j][id], Rebuilt'[id])
      BY Zenon, <3>1, <3>2, LaterTransitive
    <3> QED BY Zenon, <1>1, <1>2, <2>2, <3>3
  <2>3. CASE k = n + 2 /\ j = n + 2
    BY Zenon, <2>3 DEF Later
  <2> QED BY <1>1, <2>1, <2>2, <2>3
<1>9. \A k \in 1..(n + 2), id \in Ids : shadow'[k][id] = Deleted => RemovalLogged(id)'
  <2> SUFFICES ASSUME NEW k \in 1..(n + 2), NEW id \in Ids, shadow'[k][id] = Deleted
               PROVE  RemovalLogged(id)'
    BY Zenon
  <2>1. CASE k \in 1..(n + 1)
    BY Zenon, <1>1, <2>1, LoggedStays DEF ShadowOK
  <2>2. CASE k = n + 2 /\ Rebuilt[id] = Deleted
    <3>1. n + 1 \in 1..Len(shadow)
      BY <1>1
    <3> QED BY Zenon, <1>2, <2>2, <3>1, LoggedStays DEF ShadowOK
  <2>3. CASE k = n + 2 /\ id \in entry[c].ids /\ entry[c].kind \in {"delete", "update"}
    <3>1. n + 1 \in 1..Len(wal') /\ wal'[n + 1] = entry[c]
      BY <1>1
    <3> QED BY Zenon, <2>3, <3>1 DEF RemovalLogged, Logged
  <2> QED BY <1>1, <1>2, <1>5, <2>1, <2>2, <2>3
<1> QED BY Zenon, <1>1, <1>2, <1>4, <1>5, <1>6, <1>7, <1>8, <1>9 DEF ShadowOK

\* A step that leaves the log alone leaves what is said of it alone.
LEMMA SameLog ==
  ASSUME UNCHANGED <<wal, shadow>>
  PROVE  /\ ShadowOK => ShadowOK'
         /\ Rebuilt' = Rebuilt
         /\ \A id \in Ids : RemovalLogged(id)' = RemovalLogged(id)
  BY Zenon DEF ShadowOK, Rebuilt, RemovalLogged, Logged

---------------------------------------------------------------------------
LEMMA InitTypeOK == Init => TypeOK
<1> SUFFICES ASSUME Init PROVE TypeOK
  BY Zenon
<1>1. wal \in Seq(Entry) /\ Len(wal) = 0 /\ pos \in 0..Len(wal)
      /\ metaAt \in [Ids -> 0..Len(wal)] /\ at \in [Clients -> 0..Len(wal)]
  BY DEF Init
<1>2. shadow \in Seq([Ids -> States]) /\ Len(shadow) = Len(wal) + 1
  BY EmptyIsIndex DEF Init
<1> QED BY Zenon, <1>1, <1>2, EmptyIsIndex, NoEntryIsEntry DEF Init, TypeOK

LEMMA FinishTypeOK ==
  ASSUME TypeOK, NEW c \in Clients, Finish(c)
  PROVE  /\ pc' \in [Clients -> {"idle", "begun", "logged"}]
         /\ entry' \in [Clients -> Entry]
         /\ orphans' \subseteq Clients
         /\ at' \in [Clients -> 0..Len(wal)]
<1>1. Len(wal) \in Nat
  BY DEF TypeOK
<1> QED BY <1>1, NoEntryIsEntry DEF TypeOK, Finish

LEMMA ExitTypeOK ==
  ASSUME TypeOK, Exit
  PROVE  TypeOK'
<1>1. index' \in [Ids -> States] /\ entry' \in [Clients -> Entry]
  BY Zenon, EmptyIsIndex, NoEntryIsEntry DEF Exit
<1>2. /\ pos' \in 0..Len(wal') /\ at' \in [Clients -> 0..Len(wal')]
      /\ Len(shadow') = Len(wal') + 1
  BY DEF TypeOK, Exit, history
<1> QED BY Zenon, <1>1, <1>2 DEF TypeOK, Exit, history

LEMMA AppliedType ==
  ASSUME TypeOK, NEW c \in Clients, NEW id \in Ids
  PROVE  Applied(c, id) \in States
<1>1. entry[c] \in Entry /\ index[id] \in States
  BY Zenon DEF TypeOK
<1> QED BY Zenon, <1>1, EntryFields, StepFacts DEF Applied

LEMMA ReportedType ==
  ASSUME TypeOK, NEW c \in Clients, NEW id \in Ids
  PROVE  Reported(c, id) \in States
<1>1. entry[c] \in Entry /\ acked[id] \in States
  BY Zenon DEF TypeOK
<1> QED BY Zenon, <1>1, EntryFields DEF Reported, States

\* Every step keeps the types.
LEMMA NextTypeOK == TypeOK /\ [Next]_vars => TypeOK'
<1> SUFFICES ASSUME TypeOK, [Next]_vars PROVE TypeOK'
  BY Zenon
<1>1. ASSUME NEW c \in Clients, NEW e \in Entry, Begin(c, e)
      PROVE  TypeOK'
  BY Zenon, <1>1 DEF TypeOK, Begin, server, history
<1>2. ASSUME NEW c \in Clients, NEW ids \in SUBSET Ids, NEW v \in Values, Insert(c, ids, v)
      PROVE  TypeOK'
  <2>1. [kind |-> "insert", ids |-> ids, val |-> v] \in Entry
    BY Zenon DEF Entry, Kinds
  <2> QED BY Zenon, <1>1, <1>2, <2>1 DEF Insert
<1>3. ASSUME NEW c \in Clients, NEW id \in Ids, NEW v \in Values, Upsert(c, id, v)
      PROVE  TypeOK'
  <2>1. [kind |-> "update", ids |-> {id}, val |-> v] \in Entry
    BY Zenon DEF Entry, Kinds
  <2> QED BY Zenon, <1>1, <1>3, <2>1 DEF Upsert
<1>4. ASSUME NEW c \in Clients, NEW id \in Ids, Delete(c, id)
      PROVE  TypeOK'
  <2>1. [kind |-> "delete", ids |-> {id}, val |-> Absent] \in Entry
    BY Zenon DEF Entry, Kinds
  <2> QED BY Zenon, <1>1, <1>4, <2>1 DEF Delete
<1>5. ASSUME NEW id \in Ids, NEW v \in Values, InsertV2(id, v)
      PROVE  TypeOK'
  <2>1. index' \in [Ids -> States] /\ acked' \in [Ids -> States]
    BY Zenon, <1>5 DEF TypeOK, InsertV2, Inserted, States
  <2> QED BY <1>5, <2>1 DEF TypeOK, InsertV2, requests
<1>6. ASSUME NEW c \in Clients, LogWrite(c)
      PROVE  TypeOK'
  <2>1. AppendEntry(c)
    BY Zenon, <1>6 DEF LogWrite
  <2>2. /\ wal' \in Seq(Entry) /\ Len(wal') = Len(wal) + 1
        /\ shadow' \in Seq([Ids -> States]) /\ Len(shadow') = Len(wal') + 1
    BY Zenon, <2>1, AppendFacts
  <2>3. pos' \in 0..Len(wal') /\ metaAt' \in [Ids -> 0..Len(wal')]
    BY <1>6, <2>2 DEF TypeOK, LogWrite, server
  <2>4. entry[c] \in Entry
    BY Zenon DEF TypeOK
  <2>5. entry[c].ids \subseteq Ids
    BY Zenon, <2>4, EntryFields
  <2>6. /\ pc' \in [Clients -> {"idle", "begun", "logged"}]
        /\ todo' \in [Clients -> SUBSET Ids]
        /\ disordered' \subseteq Ids
    BY Zenon, <1>6, <2>5 DEF TypeOK, LogWrite
  <2>7. at' \in [Clients -> 0..Len(wal')]
    BY <1>6, <2>2 DEF TypeOK, LogWrite
  <2> QED BY Zenon, <1>6, <2>2, <2>3, <2>6, <2>7 DEF TypeOK, LogWrite, server
<1>7. ASSUME NEW c \in Clients, LogFails(c)
      PROVE  TypeOK'
  <2>1. Finish(c)
    BY Zenon, <1>7 DEF LogFails
  <2>2. CASE UNCHANGED <<wal, shadow, disordered>>
    BY Zenon, <1>7, <2>1, <2>2, FinishTypeOK DEF TypeOK, LogFails, server
  <2>3. CASE AppendEntry(c) /\ disordered' = disordered \cup entry[c].ids
    <3>1. /\ wal' \in Seq(Entry) /\ Len(wal') = Len(wal) + 1
          /\ shadow' \in Seq([Ids -> States]) /\ Len(shadow') = Len(wal') + 1
      BY Zenon, <2>3, AppendFacts
    <3>2. /\ pos' \in 0..Len(wal') /\ metaAt' \in [Ids -> 0..Len(wal')]
          /\ at' \in [Clients -> 0..Len(wal')]
      BY SMTT(30), <1>7, <2>1, <3>1, FinishTypeOK DEF TypeOK, LogFails, server
    <3>3. entry[c] \in Entry
      BY Zenon DEF TypeOK
    <3>4. disordered' \subseteq Ids
      BY Zenon, <2>3, <3>3, EntryFields DEF TypeOK
    <3> QED BY <1>7, <2>1, <3>1, <3>2, <3>4, FinishTypeOK, SMTT(20) DEF TypeOK, LogFails, server
  <2> QED BY Zenon, <1>7, <2>2, <2>3 DEF LogFails
<1>8. ASSUME NEW c \in Clients, NEW id \in Ids, ApplyPoint(c, id)
      PROVE  TypeOK'
  <2>1. index' \in [Ids -> States] /\ acked' \in [Ids -> States]
    <3>1. Applied(c, id) \in States /\ Reported(c, id) \in States
      BY Zenon, AppliedType, ReportedType
    <3>2. index \in [Ids -> States] /\ acked \in [Ids -> States]
      BY Zenon DEF TypeOK
    <3> QED BY Zenon, <1>8, <3>1, <3>2 DEF ApplyPoint
  <2>2. todo' \in [Clients -> SUBSET Ids]
    BY Zenon, <1>8 DEF TypeOK, ApplyPoint
  <2>3. /\ pc' \in [Clients -> {"idle", "begun", "logged"}]
        /\ entry' \in [Clients -> Entry] /\ orphans' \subseteq Clients
        /\ at' \in [Clients -> 0..Len(wal)]
    <3>1. CASE Finish(c)
      BY Zenon, <3>1, FinishTypeOK
    <3>2. CASE UNCHANGED <<pc, entry, orphans, at>>
      BY Zenon, <3>2 DEF TypeOK
    <3> QED BY Zenon, <1>8, <3>1, <3>2 DEF ApplyPoint
  <2> QED BY <1>8, <2>1, <2>2, <2>3, SMTT(20) DEF TypeOK, ApplyPoint
<1>9. CASE DropCollection
  <2>1. exists' \in BOOLEAN /\ dir' \in BOOLEAN /\ (exists' => dir')
    BY Zenon, <1>9 DEF TypeOK, DropCollection
  <2> QED BY <1>9, <2>1, EmptyIsIndex DEF TypeOK, DropCollection
<1>10. CASE CreateCollection
  BY Zenon, <1>10, EmptyIsIndex DEF TypeOK, CreateCollection, requests, history
<1>11. CASE CreateFails
  BY Zenon, <1>11 DEF TypeOK, CreateFails, requests, history
<1>12. CASE Shutdown
  <2>1. meta' \in [Ids -> States] \cup {NoMeta} /\ metaAt' \in [Ids -> 0..Len(wal)]
    BY Zenon, <1>12 DEF TypeOK, Shutdown
  <2> QED BY Zenon, <1>12, <2>1 DEF TypeOK, Shutdown, requests
<1>13. CASE Exit
  BY Zenon, <1>13, ExitTypeOK
<1>14. CASE Start
  <2>1. index' \in [Ids -> States]
    BY Zenon, <1>14, EmptyIsIndex DEF TypeOK, Start
  <2>2. pos' \in 0..Len(wal') /\ restarts' \in Nat
    BY <1>14 DEF TypeOK, Start
  <2>3. exists' \in BOOLEAN /\ dir' \in BOOLEAN /\ (exists' => dir')
    BY Zenon, <1>14 DEF TypeOK, Start
  <2> QED BY Zenon, <1>14, <2>1, <2>2, <2>3 DEF TypeOK, Start, requests
<1>15. CASE ReplayEntry
  <2>1. pos + 1 \in 1..Len(wal) /\ wal[pos + 1] \in Entry
    BY <1>15 DEF TypeOK, ReplayEntry
  <2>2. index' \in [Ids -> States]
    BY Zenon, <1>15, <2>1, ApplyEntryFacts DEF TypeOK, ReplayEntry, Replayed
  <2>3. pos' \in 0..Len(wal')
    BY <1>15, <2>1 DEF TypeOK, ReplayEntry
  <2> QED BY Zenon, <1>15, <2>2, <2>3 DEF TypeOK, ReplayEntry, requests, history
<1>16. CASE Serve
  BY Zenon, <1>16 DEF TypeOK, Serve, requests, history
<1>17. CASE UNCHANGED vars
  BY Zenon, <1>17 DEF TypeOK, vars, server, requests, history
<1> QED BY Zenon, <1>2, <1>3, <1>4, <1>5, <1>6, <1>7, <1>8, <1>9, <1>10, <1>11, <1>12,
           <1>13, <1>14, <1>15, <1>16, <1>17 DEF Next

\* Every variable keeps its type and a served collection has its directory.
THEOREM TypeCorrect == Spec => []TypeOK
  BY InitTypeOK, NextTypeOK, PTL DEF Spec

-----------------------------------------------------------------------------
(* The steps of clients - requests, their records in the log, the points     *)
(* they apply - and of collections dropped and created preserve IndInv.      *)

\* A step that touches neither an id nor a client between the log and the index
\* with it keeps what is said of the id.
LEMMA ServingKept ==
  ASSUME NEW id \in Ids, ServingAt(id),
         index'[id] = index[id], acked'[id] = acked[id], meta' = meta,
         Rebuilt'[id] = Rebuilt[id], RemovalLogged(id) => RemovalLogged(id)',
         \A c \in Clients : PendingOn(c, id)' <=> PendingOn(c, id),
         \A c \in Clients : PendingOn(c, id) =>
           /\ at'[c] = at[c]
           /\ shadow'[at[c]][id] = shadow[at[c]][id]
           /\ shadow'[at[c] + 1][id] = shadow[at[c] + 1][id]
  PROVE  ServingAt(id)'
<1>1. Settled(id)' <=> Settled(id)
  BY Zenon DEF Settled
<1>2. ASSUME NEW c \in Clients, PendingOn(c, id)'
      PROVE  /\ \A d \in Clients : PendingOn(d, id)' => d = c
             /\ \/ index'[id] = shadow'[at'[c]][id]
                \/ meta' # NoMeta /\ Agrees(index'[id], shadow'[at'[c]][id])
             /\ shadow'[at'[c] + 1][id] = Rebuilt'[id]
  <2>1. /\ PendingOn(c, id) /\ at'[c] = at[c]
        /\ shadow'[at'[c]][id] = shadow[at[c]][id]
        /\ shadow'[at'[c] + 1][id] = shadow[at[c] + 1][id]
    BY Zenon, <1>2
  <2>2. /\ \A d \in Clients : PendingOn(d, id) => d = c
        /\ \/ index[id] = shadow[at[c]][id]
           \/ meta # NoMeta /\ Agrees(index[id], shadow[at[c]][id])
        /\ shadow[at[c] + 1][id] = Rebuilt[id]
    BY Zenon, <2>1 DEF ServingAt
  <2> QED BY Zenon, <2>1, <2>2
<1>3. /\ Settled(id) =>
           index[id] = Rebuilt[id] \/ (meta # NoMeta /\ Agrees(index[id], Rebuilt[id]))
      /\ index[id] = Deleted => RemovalLogged(id)
      /\ Later(acked[id], index[id])
  BY Zenon DEF ServingAt
<1>4. Settled(id)' =>
        index'[id] = Rebuilt'[id] \/ (meta' # NoMeta /\ Agrees(index'[id], Rebuilt'[id]))
  BY Zenon, <1>1, <1>3
<1>5. (index'[id] = Deleted => RemovalLogged(id)') /\ Later(acked'[id], index'[id])
  BY Zenon, <1>3
<1> QED BY Zenon, <1>2, <1>4, <1>5 DEF ServingAt

LEMMA InitIndInv == Init => IndInv
<1> SUFFICES ASSUME Init PROVE IndInv
  BY Zenon
<1>1. TypeOK
  BY Zenon, InitTypeOK
<1>2. Len(wal) = 0 /\ Len(shadow) = 1 /\ shadow[1] = Empty /\ Rebuilt = Empty
  BY Zenon DEF Init, Rebuilt
<1>3. \A id \in Ids : Empty[id] = Absent
  BY Zenon DEF Empty
<1>4. ShadowOK
  <2>1. \A j \in 1..Len(shadow) : j = 1
    BY <1>2
  <2> QED BY <1>2, <1>3, <2>1 DEF ShadowOK, Later
<1>5. ClientsOK /\ NeverDropped /\ MetaOK /\ ReplayOK
  BY Zenon DEF Init, Running, ClientsOK, PendingOn, NeverDropped, MetaOK, ReplayOK
<1>6. ServingOK
  BY Zenon, <1>2, <1>3 DEF Init, ServingOK, ServingAt, Settled, PendingOn, Later
<1>7. AckedOK /\ WriteAhead
  BY Zenon, <1>3 DEF Init, AckedOK, Later, WriteAhead
<1> QED BY Zenon, <1>1, <1>4, <1>5, <1>6, <1>7 DEF IndInv

\* A step of clients that are not between the log and the index.
LEMMA QuietStep ==
  ASSUME IndInv, TypeOK', Running,
         UNCHANGED <<wal, server, shadow, metaAt, disordered, unlogged, acked>>,
         orphans' \subseteq orphans,
         \A c \in Clients, id \in Ids : PendingOn(c, id)' <=> PendingOn(c, id),
         \A c \in Clients, id \in Ids :
           PendingOn(c, id) => entry'[c] = entry[c] /\ at'[c] = at[c]
  PROVE  IndInv'
<1>1. /\ ShadowOK' /\ Rebuilt' = Rebuilt
      /\ \A id \in Ids : RemovalLogged(id)' = RemovalLogged(id)
  BY Zenon, SameLog DEF IndInv
<1>2. \A id \in Ids : Clean(id)' = Clean(id)
  BY Zenon DEF Clean
<1>3. ClientsOK'
  BY Zenon DEF IndInv, ClientsOK, Running, server
<1>4. NeverDropped'
  BY Zenon DEF IndInv, NeverDropped, server
<1>5. MetaOK' /\ ReplayOK'
  BY Zenon, <1>1, <1>2 DEF IndInv, MetaOK, ReplayOK, server
<1>6. ServingOK'
  <2> SUFFICES ASSUME NEW id \in Ids, Clean(id)
        PROVE  ServingAt(id)'
    BY Zenon, <1>2 DEF ServingOK
  <2>1. ServingAt(id)
    BY Zenon DEF IndInv, ServingOK
  <2> QED BY Zenon, <1>1, <2>1, ServingKept DEF server
<1>7. AckedOK'
  BY Zenon, <1>1, <1>2 DEF IndInv, AckedOK
<1>8. WriteAhead'
  BY DEF IndInv, WriteAhead, server
<1> QED BY Zenon, <1>1, <1>3, <1>4, <1>5, <1>6, <1>7, <1>8 DEF IndInv

LEMMA BeginInv ==
  ASSUME IndInv, TypeOK', NEW c \in Clients, NEW e, Begin(c, e)
  PROVE  IndInv'
<1>1. /\ pc \in [Clients -> {"idle", "begun", "logged"}]
      /\ entry \in [Clients -> Entry] /\ at \in [Clients -> 0..Len(wal)]
  BY SMTT(20) DEF IndInv, TypeOK
<1>2. \A d \in Clients, id \in Ids : PendingOn(d, id)' <=> PendingOn(d, id)
  BY Zenon, <1>1 DEF Begin, PendingOn
<1>3. \A d \in Clients, id \in Ids :
        PendingOn(d, id) => entry'[d] = entry[d] /\ at'[d] = at[d]
  BY Zenon, <1>1 DEF Begin, PendingOn
<1> QED BY Zenon, <1>2, <1>3, QuietStep DEF Begin, Running, history

\* LogFails, when nothing has reached the log.
LEMMA LogFailsInv ==
  ASSUME IndInv, TypeOK', NEW c \in Clients, LogFails(c),
         UNCHANGED <<wal, shadow, disordered>>
  PROVE  IndInv'
<1>1. /\ pc \in [Clients -> {"idle", "begun", "logged"}]
      /\ entry \in [Clients -> Entry] /\ at \in [Clients -> 0..Len(wal)]
  BY SMTT(20) DEF IndInv, TypeOK
<1>2. \A d \in Clients, id \in Ids : PendingOn(d, id)' <=> PendingOn(d, id)
  BY Zenon, <1>1 DEF LogFails, Finish, PendingOn
<1>3. \A d \in Clients, id \in Ids :
        PendingOn(d, id) => entry'[d] = entry[d] /\ at'[d] = at[d]
  BY Zenon, <1>1 DEF LogFails, Finish, PendingOn
<1>4. Running /\ orphans' \subseteq orphans
      /\ UNCHANGED <<wal, server, shadow, metaAt, disordered, unlogged, acked>>
  BY Zenon DEF LogFails, Finish
<1> QED BY Zenon, <1>2, <1>3, <1>4, QuietStep

\* What an append keeps, whether the caller hears of it or not.
LEMMA AppendInv ==
  ASSUME IndInv, NEW c \in Clients, AppendEntry(c), Running,
         UNCHANGED <<server, metaAt, unlogged, acked>>, disordered \subseteq disordered'
  PROVE  MetaOK' /\ ReplayOK' /\ AckedOK' /\ WriteAhead'
<1>1. TypeOK /\ ShadowOK
  BY Zenon DEF IndInv
<1>2. \A id \in Ids : Clean(id)' => Clean(id)
  BY Zenon DEF Clean
<1>3. MetaOK'
  <2> SUFFICES ASSUME meta # NoMeta, NEW id \in Ids, Clean(id)
               PROVE  /\ Agrees(meta[id], shadow'[metaAt[id] + 1][id])
                      /\ meta[id] = Deleted => RemovalLogged(id)'
    BY Zenon, <1>2 DEF MetaOK, server
  <2>1. metaAt[id] + 1 \in 1..Len(shadow)
    BY <1>1 DEF TypeOK
  <2>2. shadow'[metaAt[id] + 1] = shadow[metaAt[id] + 1]
    BY Zenon, <1>1, <2>1, AppendFacts
  <2> QED BY Zenon, <1>1, <2>2, LoggedStays DEF IndInv, MetaOK
<1>4. ReplayOK'
  BY Zenon DEF ReplayOK, Running, server
<1>5. AckedOK'
  <2> SUFFICES ASSUME NEW id \in Ids, Clean(id)
               PROVE  Later(acked[id], Rebuilt'[id])
    BY Zenon, <1>2 DEF AckedOK
  <2>1. Later(acked[id], Rebuilt[id])
    BY Zenon DEF IndInv, AckedOK
  <2>2. Later(Rebuilt[id], Rebuilt'[id])
    BY Zenon, <1>1, AppendShadowOK
  <2> QED BY Zenon, <2>1, <2>2, LaterTransitive
<1>6. WriteAhead'
  <2>1. Len(wal) \in Nat /\ Len(wal') = Len(wal) + 1
    BY SMTT(30), <1>1, AppendFacts DEF TypeOK
  <2>2. \A i \in 1..Len(wal) : wal'[i] = wal[i]
    BY Zenon, <1>1, AppendFacts
  <2> QED BY SMTT(30), <2>1, <2>2 DEF IndInv, WriteAhead, server
<1> QED BY Zenon, <1>3, <1>4, <1>5, <1>6

\* A client whose entry is in the log finds it there after an append.
LEMMA AppendClientsOK ==
  ASSUME IndInv, NEW c \in Clients, AppendEntry(c), NEW d \in Clients, NEW id \in Ids,
         PendingOn(d, id)
  PROVE  /\ id \in entry[d].ids /\ at[d] \in 1..Len(wal') /\ wal'[at[d]] = entry[d]
         /\ shadow'[at[d]] = shadow[at[d]] /\ shadow'[at[d] + 1] = shadow[at[d] + 1]
<1>1. TypeOK
  BY Zenon DEF IndInv
<1>2. Len(wal) \in Nat /\ Len(wal') = Len(wal) + 1 /\ Len(shadow) = Len(wal) + 1
  BY <1>1, AppendFacts DEF TypeOK
<1>3. \A i \in 1..Len(wal) : wal'[i] = wal[i]
  BY Zenon, <1>1, AppendFacts
<1>4. \A k \in 1..Len(shadow) : shadow'[k] = shadow[k]
  BY Zenon, <1>1, AppendFacts
<1>5. id \in entry[d].ids /\ at[d] \in 1..Len(wal) /\ wal[at[d]] = entry[d]
  BY Zenon DEF IndInv, ClientsOK
<1> QED BY SMTT(30), <1>2, <1>3, <1>4, <1>5

LEMMA LogWriteInv ==
  ASSUME IndInv, TypeOK', NEW c \in Clients, LogWrite(c)
  PROVE  IndInv'
<1>1. TypeOK /\ ShadowOK /\ AppendEntry(c) /\ Running /\ pc[c] = "begun"
  BY Zenon DEF IndInv, LogWrite
<1>2. UNCHANGED <<server, metaAt, unlogged, acked, entry, orphans>>
      /\ disordered \subseteq disordered'
  BY Zenon DEF LogWrite
<1>3. MetaOK' /\ ReplayOK' /\ AckedOK' /\ WriteAhead'
  BY Zenon, <1>1, <1>2, AppendInv
<1>4. ShadowOK'
  BY Zenon, <1>1, AppendShadowOK
<1>5. /\ pc' = [pc EXCEPT ![c] = "logged"] /\ todo' = [todo EXCEPT ![c] = entry[c].ids]
      /\ pc \in [Clients -> {"idle", "begun", "logged"}] /\ todo \in [Clients -> SUBSET Ids]
  BY Zenon, <1>1 DEF TypeOK, LogWrite
<1>6. \A d \in Clients, id \in Ids :
        /\ d # c => (PendingOn(d, id)' <=> PendingOn(d, id))
        /\ ~PendingOn(c, id)
        /\ PendingOn(c, id)' <=> id \in entry[c].ids
  BY Zenon, <1>1, <1>5 DEF PendingOn
<1>7. at'[c] = Len(wal) + 1 /\ \A d \in Clients : d # c => at'[d] = at[d]
  BY Zenon, <1>1 DEF TypeOK, LogWrite
<1>8. /\ Len(wal) \in Nat /\ Len(wal') = Len(wal) + 1 /\ Len(shadow) = Len(wal) + 1
      /\ wal'[Len(wal) + 1] = entry[c] /\ Len(shadow') = Len(wal) + 2
      /\ shadow'[Len(wal) + 1] = shadow[Len(wal) + 1]
  <2>1. Len(wal) \in Nat /\ Len(shadow) = Len(wal) + 1
    BY <1>1 DEF TypeOK
  <2> QED BY SMTT(30), <1>1, <2>1, AppendFacts
<1>9. ClientsOK'
  <2>1. Running'
    BY Zenon, <1>1, <1>2 DEF Running, server
  <2>2. ASSUME NEW d \in Clients, NEW id \in Ids, PendingOn(d, id)'
        PROVE  id \in entry[d].ids /\ at'[d] \in 1..Len(wal') /\ wal'[at'[d]] = entry[d]
    <3>1. CASE d = c
      BY <1>6, <1>7, <1>8, <2>2, <3>1
    <3>2. CASE d # c
      BY Zenon, <1>1, <1>6, <1>7, <2>2, <3>2, AppendClientsOK
    <3> QED BY Zenon, <3>1, <3>2
  <2> QED BY Zenon, <1>2, <2>1, <2>2 DEF ClientsOK
<1>10. NeverDropped'
  BY Zenon, <1>2 DEF IndInv, NeverDropped, server, TypeOK
<1>11. ServingOK'
  <2> SUFFICES ASSUME NEW id \in Ids, Clean(id)'
        PROVE  ServingAt(id)'
    BY Zenon DEF ServingOK
  <2>1. Clean(id)
    BY Zenon, <1>2 DEF Clean
  <2>2. ServingAt(id)
    BY Zenon, <1>1, <2>1 DEF IndInv, ServingOK
  <2>3. RemovalLogged(id) => RemovalLogged(id)'
    BY Zenon, <1>1, LoggedStays
  <2>4. CASE id \in entry[c].ids
    <3>1. \A d \in Clients : ~PendingOn(d, id)
      <4>1. id \notin InFlight(c)
        BY Zenon, <2>4 DEF LogWrite, Clean
      <4>2. \A d \in Clients \ {c} : ~PendingOn(d, id)
        BY Zenon, <4>1 DEF InFlight, PendingOn
      <4> QED BY Zenon, <1>6, <4>2
    <3>2. /\ index[id] = Rebuilt[id] \/ (meta # NoMeta /\ Agrees(index[id], Rebuilt[id]))
          /\ index[id] = Deleted => RemovalLogged(id)
          /\ Later(acked[id], index[id])
      BY Zenon, <2>2, <3>1 DEF ServingAt, Settled
    <3>3. PendingOn(c, id)' /\ \A d \in Clients : PendingOn(d, id)' => d = c
      BY Zenon, <1>6, <2>4, <3>1
    <3>4. ~Settled(id)'
      BY Zenon, <3>3 DEF Settled
    <3>5. shadow'[at'[c]] = Rebuilt /\ shadow'[at'[c] + 1] = Rebuilt'
      BY <1>7, <1>8 DEF Rebuilt
    <3>6. index' = index /\ acked' = acked /\ meta' = meta
      BY Zenon, <1>2 DEF server
    <3> QED BY Zenon, <2>3, <3>2, <3>3, <3>4, <3>5, <3>6 DEF ServingAt
  <2>5. CASE id \notin entry[c].ids
    <3>1. \A d \in Clients : PendingOn(d, id)' <=> PendingOn(d, id)
      BY Zenon, <1>6, <2>5
    <3>2. \A d \in Clients : PendingOn(d, id) =>
            /\ at'[d] = at[d] /\ shadow'[at[d]][id] = shadow[at[d]][id]
            /\ shadow'[at[d] + 1][id] = shadow[at[d] + 1][id]
      BY Zenon, <1>1, <1>6, <1>7, AppendClientsOK
    <3>3. Rebuilt'[id] = Rebuilt[id]
      BY Zenon, <1>1, <2>5, AppendShadowOK
    <3> QED BY Zenon, <1>2, <2>2, <2>3, <3>1, <3>2, <3>3, ServingKept DEF server
  <2> QED BY Zenon, <2>4, <2>5
<1> QED BY Zenon, <1>3, <1>4, <1>9, <1>10, <1>11 DEF IndInv

\* LogFails, when the record is in the log all the same.
LEMMA LogFailsLateInv ==
  ASSUME IndInv, TypeOK', NEW c \in Clients, LogFails(c),
         AppendEntry(c), disordered' = disordered \cup entry[c].ids
  PROVE  IndInv'
<1>1. TypeOK /\ ShadowOK /\ Running /\ pc[c] = "begun"
  BY Zenon DEF IndInv, LogFails
<1>2. UNCHANGED <<server, metaAt, unlogged, acked, todo>>
      /\ disordered \subseteq disordered' /\ Finish(c)
  BY Zenon DEF LogFails
<1>3. MetaOK' /\ ReplayOK' /\ AckedOK' /\ WriteAhead'
  BY Zenon, <1>1, <1>2, AppendInv
<1>4. ShadowOK'
  BY ZenonT(30), <1>1, AppendShadowOK
<1>5. \A d \in Clients, id \in Ids :
        /\ PendingOn(d, id)' <=> PendingOn(d, id)
        /\ PendingOn(d, id) => entry'[d] = entry[d] /\ at'[d] = at[d]
  BY <1>1, <1>2, SMTT(20) DEF TypeOK, Finish, PendingOn
<1>6. ClientsOK'
  BY Zenon, <1>1, <1>2, <1>5, AppendClientsOK DEF ClientsOK, Running, server
<1>7. NeverDropped'
  BY Zenon, <1>2 DEF IndInv, NeverDropped, server, TypeOK, Finish
<1>8. ServingOK'
  <2> SUFFICES ASSUME NEW id \in Ids, Clean(id)'
        PROVE  ServingAt(id)'
    BY Zenon DEF ServingOK
  <2>1. Clean(id) /\ id \notin entry[c].ids
    BY Zenon, <1>2 DEF Clean
  <2>2. Rebuilt'[id] = Rebuilt[id]
    BY Zenon, <1>1, <2>1, AppendShadowOK
  <2>3. ServingAt(id)
    BY Zenon, <1>1, <2>1 DEF IndInv, ServingOK
  <2>4. RemovalLogged(id) => RemovalLogged(id)'
    BY Zenon, <1>1, LoggedStays
  <2>5. \A d \in Clients : PendingOn(d, id) =>
          /\ at'[d] = at[d] /\ shadow'[at[d]][id] = shadow[at[d]][id]
          /\ shadow'[at[d] + 1][id] = shadow[at[d] + 1][id]
    BY Zenon, <1>5, AppendClientsOK
  <2> QED BY Zenon, <1>2, <1>5, <2>2, <2>3, <2>4, <2>5, ServingKept DEF server
<1> QED BY Zenon, <1>3, <1>4, <1>6, <1>7, <1>8 DEF IndInv

\* Of one id: what applying the record of the only client between the log and
\* the index leaves.
LEMMA ApplyAgrees ==
  ASSUME NEW e \in Entry, NEW x \in States, NEW s \in States, NEW r, NEW a \in States,
         x = s \/ (meta # NoMeta /\ Agrees(x, s)), Step(e.kind, s, e.val) = r,
         Later(a, x), Later(a, r),
         NEW y, y = Step(e.kind, x, e.val),
         NEW b, b = IF e.kind = "delete" THEN IF x = Absent THEN a ELSE Deleted
                                         ELSE IF x = Absent THEN e.val ELSE a
  PROVE  /\ y = r \/ (meta # NoMeta /\ Agrees(y, r))
         /\ Later(b, y) /\ Later(b, r)
<1> DEFINE k == e.kind
           v == e.val
<1>1. k \in Kinds /\ v \in Values \cup {Absent} /\ (k # "delete" => v \in Values)
  BY Zenon, EntryFields
<1> HIDE DEF k, v
<1>2. Step(k, x, v) = r \/ (meta # NoMeta /\ Agrees(Step(k, x, v), r))
  BY Zenon, <1>1, StepAgrees DEF k, v
<1>3. Later(b, Step(k, x, v)) /\ Later(b, Step(k, s, v))
  <2>1. Agrees(x, s) /\ Later(a, Step(k, s, v))
    BY Zenon DEF Agrees, k, v
  <2>5. b = IF k = "delete" THEN IF x = Absent THEN a ELSE Deleted
                            ELSE IF x = Absent THEN v ELSE a
    BY Zenon DEF k, v
  <2>2. CASE k = "delete"
    BY Zenon, <1>1, <2>1, <2>5, <2>2 DEF States, Step, Later, Agrees, Removed
  <2>3. CASE k = "insert"
    BY Zenon, <1>1, <2>1, <2>5, <2>3 DEF States, Step, Later, Agrees, Inserted
  <2>4. CASE k = "update"
    BY Zenon, <1>1, <2>1, <2>5, <2>4 DEF States, Step, Later, Agrees, Inserted, Removed, Upserted
  <2> QED BY Zenon, <1>1, <2>2, <2>3, <2>4 DEF Kinds
<1> QED BY Zenon, <1>2, <1>3 DEF k, v

LEMMA ApplyPointInv ==
  ASSUME IndInv, TypeOK', NEW c \in Clients, NEW p \in Ids, ApplyPoint(c, p)
  PROVE  IndInv'
<1>1. TypeOK /\ Running /\ PendingOn(c, p)
  BY Zenon DEF IndInv, ApplyPoint, PendingOn
<1>2. UNCHANGED <<wal, phase, pos, exists, dir, meta, shadow, metaAt, disordered, unlogged>>
  BY Zenon DEF ApplyPoint
<1>3. /\ ShadowOK' /\ Rebuilt' = Rebuilt
      /\ \A id \in Ids : RemovalLogged(id)' = RemovalLogged(id)
  BY Zenon, <1>2, SameLog DEF IndInv
<1>4. \A id \in Ids : Clean(id)' = Clean(id)
  BY Zenon, <1>2 DEF Clean
<1>5. \A d \in Clients, id \in Ids :
        /\ PendingOn(d, id)' <=> (PendingOn(d, id) /\ ~(d = c /\ id = p))
        /\ PendingOn(d, id)' => entry'[d] = entry[d] /\ at'[d] = at[d]
  BY <1>1, SMTT(40) DEF TypeOK, ApplyPoint, Finish, PendingOn
<1>6. \A id \in Ids : id # p => index'[id] = index[id] /\ acked'[id] = acked[id]
  BY ZenonT(30), <1>1 DEF TypeOK, ApplyPoint
<1>7. \/ index'[p] = index[p] /\ acked'[p] = acked[p] /\ c \in orphans
      \/ index'[p] = Applied(c, p) /\ acked'[p] = Reported(c, p) /\ c \notin orphans
  BY <1>1, SMTT(20) DEF TypeOK, ApplyPoint
<1>8. entry[c] \in Entry /\ index[p] \in States /\ acked[p] \in States
  BY Zenon, <1>1 DEF TypeOK
<1>9. p \in entry[c].ids /\ at[c] \in 1..Len(wal) /\ wal[at[c]] = entry[c]
  BY Zenon, <1>1 DEF IndInv, ClientsOK
<1>10. ClientsOK'
  BY Zenon, <1>1, <1>2, <1>5 DEF IndInv, ClientsOK, Running
<1>11. NeverDropped'
  BY <1>2 DEF IndInv, NeverDropped, ApplyPoint, Finish
<1>12. MetaOK' /\ ReplayOK'
  BY Zenon, <1>1, <1>2, <1>3, <1>4 DEF IndInv, MetaOK, ReplayOK, Running
<1>13. ASSUME Clean(p)
       PROVE  /\ index'[p] = Rebuilt[p] \/ (meta # NoMeta /\ Agrees(index'[p], Rebuilt[p]))
              /\ Later(acked'[p], index'[p]) /\ Later(acked'[p], Rebuilt[p])
              /\ index'[p] = Deleted => RemovalLogged(p)
              /\ \A d \in Clients : ~PendingOn(d, p)'
  <2>1. c \notin orphans
    BY Zenon, <1>13 DEF IndInv, NeverDropped, Clean
  <2>2. index'[p] = Applied(c, p) /\ acked'[p] = Reported(c, p)
    BY Zenon, <1>7, <2>1
  <2>3. /\ index[p] = shadow[at[c]][p]
           \/ (meta # NoMeta /\ Agrees(index[p], shadow[at[c]][p]))
        /\ Step(entry[c].kind, shadow[at[c]][p], entry[c].val) = Rebuilt[p]
        /\ shadow[at[c]][p] \in States
    <3>1. ServingAt(p)
      BY Zenon, <1>1, <1>13 DEF IndInv, ServingOK
    <3>2. shadow[at[c]] \in [Ids -> States]
      <4>1. /\ shadow \in Seq([Ids -> States])
            /\ Len(wal) \in Nat /\ Len(shadow) = Len(wal) + 1
        BY <1>1 DEF TypeOK
      <4>2. at[c] \in 1..Len(shadow)
        BY <1>9, <4>1
      <4> QED BY <4>1, <4>2, SMTT(40)
    <3>3. shadow[at[c] + 1] = ApplyEntry(entry[c], shadow[at[c]])
      BY Zenon, <1>9 DEF IndInv, ShadowOK
    <3>4. shadow[at[c] + 1][p] = Step(entry[c].kind, shadow[at[c]][p], entry[c].val)
      BY <1>8, <1>9, <3>2, <3>3, ApplyEntryFacts
    <3> QED BY Zenon, <1>1, <3>1, <3>2, <3>4 DEF ServingAt
  <2>4. Later(acked[p], index[p]) /\ Later(acked[p], Rebuilt[p])
    BY Zenon, <1>1, <1>13 DEF IndInv, ServingOK, ServingAt, AckedOK
  <2>5. /\ index'[p] = Rebuilt[p] \/ (meta # NoMeta /\ Agrees(index'[p], Rebuilt[p]))
        /\ Later(acked'[p], index'[p]) /\ Later(acked'[p], Rebuilt[p])
    <3>1. index'[p] = Step(entry[c].kind, index[p], entry[c].val)
      BY Zenon, <2>2 DEF Applied
    <3>2. acked'[p] = IF entry[c].kind = "delete"
                        THEN IF index[p] = Absent THEN acked[p] ELSE Deleted
                        ELSE IF index[p] = Absent THEN entry[c].val ELSE acked[p]
      BY Zenon, <2>2 DEF Reported
    <3> QED BY <1>8, <2>3, <2>4, <3>1, <3>2, ApplyAgrees, ZenonT(60)
  <2>6. index'[p] = Deleted => RemovalLogged(p)
    <3>1. CASE index[p] = Deleted
      BY Zenon, <1>1, <1>13, <3>1 DEF IndInv, ServingOK, ServingAt
    <3>2. CASE index[p] # Deleted /\ index'[p] = Deleted
      <4>0. /\ entry[c].kind \in Kinds /\ entry[c].val \in Values \cup {Absent}
            /\ entry[c].kind # "delete" => entry[c].val \in Values
        BY Zenon, <1>8, EntryFields
      <4>1. Step(entry[c].kind, index[p], entry[c].val) = Deleted
        BY Zenon, <2>2, <3>2 DEF Applied
      <4>2. entry[c].kind \in {"delete", "update"}
        BY Zenon, <1>8, <3>2, <4>0, <4>1, StepFacts
      <4> QED BY Zenon, <1>9, <4>2 DEF RemovalLogged, Logged
    <3> QED BY Zenon, <3>1, <3>2
  <2>7. \A d \in Clients : ~PendingOn(d, p)'
    BY Zenon, <1>1, <1>5, <1>13 DEF IndInv, ServingOK, ServingAt
  <2> QED BY Zenon, <2>5, <2>6, <2>7
<1>14. ServingOK'
  <2> SUFFICES ASSUME NEW id \in Ids, Clean(id)
        PROVE  ServingAt(id)'
    BY Zenon, <1>4 DEF ServingOK
  <2>1. CASE id = p
    BY Zenon, <1>2, <1>3, <1>13, <2>1 DEF ServingAt
  <2>2. CASE id # p
    <3>1. ServingAt(id)
      BY Zenon, <1>1 DEF IndInv, ServingOK
    <3>2. \A d \in Clients :
            (PendingOn(d, id)' <=> PendingOn(d, id)) /\ (PendingOn(d, id) => at'[d] = at[d])
      BY Zenon, <1>5, <2>2
    <3>3. index'[id] = index[id] /\ acked'[id] = acked[id] /\ meta' = meta
      BY Zenon, <1>2, <1>6, <2>2
    <3>4. shadow' = shadow
      BY Zenon, <1>2
    <3> QED BY Zenon, <1>3, <3>1, <3>2, <3>3, <3>4, ServingKept
  <2> QED BY Zenon, <2>1, <2>2
<1>15. AckedOK'
  BY Zenon, <1>3, <1>4, <1>6, <1>13 DEF IndInv, AckedOK
<1>16. WriteAhead'
  <2>0. wal' = wal /\ meta' = meta /\ unlogged' = unlogged
    BY Zenon, <1>2
  <2>1. index'[p] \in Values =>
          index'[p] = index[p] \/ \E i \in 1..Len(wal) : p \in wal[i].ids /\ wal[i].val = index'[p]
    <3>1. CASE index'[p] = Applied(c, p)
      <4>1. Applied(c, p) \in Values => Applied(c, p) \in {index[p], entry[c].val}
        BY Zenon, <1>8, StepFacts, EntryFields DEF Applied
      <4> QED BY Zenon, <1>9, <3>1, <4>1
    <3> QED BY Zenon, <1>7, <3>1
  <2> SUFFICES ASSUME NEW id \in Ids \ unlogged, NEW v \in Values,
                      index'[id] = v \/ (meta # NoMeta /\ meta[id] = v)
               PROVE  \E i \in 1..Len(wal) : id \in wal[i].ids /\ wal[i].val = v
    BY <2>0, SMTT(40) DEF WriteAhead
  <2>2. (index[id] = v \/ (meta # NoMeta /\ meta[id] = v)) =>
          \E i \in 1..Len(wal) : id \in wal[i].ids /\ wal[i].val = v
    BY Zenon DEF IndInv, WriteAhead
  <2>3. CASE id = p
    BY Zenon, <2>1, <2>2, <2>3
  <2>4. CASE id # p
    BY Zenon, <1>6, <2>2, <2>4
  <2> QED BY Zenon, <2>3, <2>4
<1> QED BY Zenon, <1>3, <1>10, <1>11, <1>12, <1>14, <1>15, <1>16 DEF IndInv

\* InsertV2 touches an id that is not clean from then on.
LEMMA InsertV2Inv ==
  ASSUME IndInv, TypeOK', NEW p \in Ids, NEW v \in Values, InsertV2(p, v)
  PROVE  IndInv'
<1>1. TypeOK /\ Running
  BY Zenon DEF IndInv, InsertV2
<1>2. UNCHANGED <<wal, phase, pos, exists, dir, meta, requests, shadow, metaAt, disordered>>
      /\ unlogged' = unlogged \cup {p}
  BY Zenon DEF InsertV2
<1>3. /\ ShadowOK' /\ Rebuilt' = Rebuilt
      /\ \A id \in Ids : RemovalLogged(id)' = RemovalLogged(id)
  BY Zenon, <1>2, SameLog DEF IndInv
<1>4. \A id \in Ids : Clean(id)' => Clean(id) /\ index'[id] = index[id] /\ acked'[id] = acked[id]
  BY Zenon, <1>1, <1>2 DEF Clean, TypeOK, InsertV2
<1>5. ClientsOK' /\ NeverDropped'
  BY Zenon, <1>2 DEF IndInv, ClientsOK, PendingOn, Running, NeverDropped, requests
<1>6. MetaOK' /\ ReplayOK'
  BY Zenon, <1>1, <1>2, <1>3, <1>4 DEF IndInv, MetaOK, ReplayOK, Running
<1>7. ServingOK'
  <2> SUFFICES ASSUME NEW id \in Ids, Clean(id)'
        PROVE  ServingAt(id)'
    BY Zenon DEF ServingOK
  <2>1. ServingAt(id)
    BY Zenon, <1>1, <1>4 DEF IndInv, ServingOK
  <2>2. \A d \in Clients : (PendingOn(d, id)' <=> PendingOn(d, id)) /\ at'[d] = at[d]
    BY Zenon, <1>2 DEF PendingOn, requests
  <2> QED BY Zenon, <1>2, <1>3, <1>4, <2>1, <2>2, ServingKept
<1>8. AckedOK'
  BY Zenon, <1>3, <1>4 DEF IndInv, AckedOK
<1>9. WriteAhead'
  <2>1. \A id \in Ids : id \notin unlogged' => id \notin unlogged /\ index'[id] = index[id]
    BY Zenon, <1>1 DEF TypeOK, InsertV2
  <2> QED BY <1>2, <2>1 DEF IndInv, WriteAhead
<1> QED BY Zenon, <1>3, <1>5, <1>6, <1>7, <1>8, <1>9 DEF IndInv

\* Once a collection was dropped no id is clean; the write-ahead rule is left.
LEMMA DroppedInv ==
  ASSUME IndInv, TypeOK', Running, UNCHANGED <<phase, wal, shadow, pc, entry, todo, at>>,
         disordered' = Ids, unlogged' = unlogged,
         index' \in {index, Empty}, meta' \in {meta, NoMeta}
  PROVE  IndInv'
<1>1. ShadowOK'
  BY Zenon, SameLog DEF IndInv
<1>2. \A id \in Ids : ~Clean(id)'
  BY Zenon DEF Clean
<1>3. ClientsOK' /\ NeverDropped'
  BY Zenon DEF IndInv, ClientsOK, Running, PendingOn, NeverDropped
<1>4. MetaOK' /\ ReplayOK' /\ ServingOK' /\ AckedOK'
  BY Zenon, <1>2 DEF MetaOK, ReplayOK, ServingOK, AckedOK
<1>5. WriteAhead'
  <2>1. \A id \in Ids : index'[id] \in {index[id], Absent}
    BY Zenon DEF Empty
  <2> QED BY <2>1, SMTT(40) DEF IndInv, WriteAhead
<1> QED BY Zenon, <1>1, <1>3, <1>4, <1>5 DEF IndInv

LEMMA DirectoryInv ==
  ASSUME IndInv, TypeOK', DropCollection \/ CreateCollection \/ CreateFails
  PROVE  IndInv'
<1>1. CASE DropCollection
  BY Zenon, <1>1, DroppedInv DEF DropCollection
<1>2. CASE CreateCollection
  <2>1. disordered = Ids
    BY Zenon, <1>2 DEF IndInv, NeverDropped, Running, CreateCollection
  <2> QED BY Zenon, <1>2, <2>1, DroppedInv DEF CreateCollection, requests, history
<1>3. CASE CreateFails
  <2>1. disordered = Ids
    BY Zenon, <1>3 DEF IndInv, NeverDropped, Running, CreateFails
  <2> QED BY Zenon, <1>3, <2>1, DroppedInv DEF CreateFails, requests, history
<1> QED BY Zenon, <1>1, <1>2, <1>3

-----------------------------------------------------------------------------
(* Crashes, shutdowns, starts and replay preserve IndInv as well.            *)

\* The end of the process: only the disk and the history are left.
LEMMA ExitInv ==
  ASSUME IndInv, TypeOK', Exit
  PROVE  IndInv'
<1>1. UNCHANGED <<wal, dir, meta, history>> /\ phase' = "down" /\ index' = Empty
  BY Zenon DEF Exit
<1>2. /\ ShadowOK' /\ Rebuilt' = Rebuilt
      /\ \A id \in Ids : RemovalLogged(id)' = RemovalLogged(id) /\ Clean(id)' = Clean(id)
  BY Zenon, <1>1, SameLog DEF IndInv, Clean, history
<1>3. ClientsOK'
  BY Zenon DEF Exit, ClientsOK, PendingOn
<1>4. NeverDropped'
  BY Zenon DEF IndInv, NeverDropped, Exit, history
<1>5. MetaOK' /\ AckedOK'
  BY Zenon, <1>1, <1>2 DEF IndInv, MetaOK, AckedOK, history
<1>6. ReplayOK' /\ ServingOK'
  BY Zenon, <1>1 DEF ReplayOK, ServingOK, Running
<1>7. WriteAhead'
  BY <1>1 DEF IndInv, WriteAhead, Empty, history
<1> QED BY Zenon, <1>2, <1>3, <1>4, <1>5, <1>6, <1>7 DEF IndInv

\* index.meta is saved while requests may still run: it has, of every clean id,
\* what the log says up to the entry of the client that is late with the id.
LEMMA ShutdownInv ==
  ASSUME IndInv, TypeOK', Shutdown
  PROVE  IndInv'
<1>1. /\ TypeOK /\ Running /\ Running' /\ phase' = "stopping"
      /\ UNCHANGED <<wal, index, exists, dir, pc, entry, todo, orphans, at>>
      /\ UNCHANGED <<shadow, disordered, unlogged, acked>>
  BY Zenon DEF IndInv, Shutdown, Running, requests
<1>2. /\ ShadowOK' /\ Rebuilt' = Rebuilt
      /\ \A id \in Ids : RemovalLogged(id)' = RemovalLogged(id) /\ Clean(id)' = Clean(id)
  BY ZenonT(30), <1>1, SameLog DEF IndInv, Clean
<1>3. ClientsOK' /\ NeverDropped' /\ ReplayOK' /\ AckedOK'
  BY <1>1, <1>2 DEF IndInv, ClientsOK, PendingOn, NeverDropped, ReplayOK, AckedOK, Shutdown
<1>4. \A d \in Clients, id \in Ids : PendingOn(d, id)' <=> PendingOn(d, id)
  BY Zenon, <1>1 DEF PendingOn
<1>5. CASE UNCHANGED <<meta, metaAt>>
  <2>1. MetaOK' /\ WriteAhead'
    BY <1>1, <1>2, <1>5 DEF IndInv, MetaOK, WriteAhead
  <2>2. ASSUME NEW id \in Ids, Clean(id)
        PROVE  ServingAt(id)'
    <3>1. ServingAt(id)
      BY Zenon, <1>1, <2>2 DEF IndInv, ServingOK
    <3> QED BY Zenon, <1>1, <1>2, <1>4, <1>5, <3>1, ServingKept
  <2> QED BY ZenonT(30), <1>2, <1>3, <2>1, <2>2 DEF IndInv, ServingOK
<1>6. CASE /\ meta' = index
           /\ metaAt' \in [Ids -> 0..Len(wal)]
           /\ \A id \in Ids : Reflects(metaAt'[id], id)
  <2>1. meta' # NoMeta
    BY Zenon, <1>1, <1>6, NoMetaAssumption DEF TypeOK, States
  <2>2. ASSUME NEW id \in Ids, Clean(id)
        PROVE  /\ Agrees(index[id], shadow[metaAt'[id] + 1][id])
               /\ index[id] = Deleted => RemovalLogged(id)
               /\ ServingAt(id)'
    <3>1. ServingAt(id)
      BY Zenon, <1>1, <2>2 DEF IndInv, ServingOK
    <3>2. CASE Settled(id)
      <4>1. metaAt'[id] = Len(wal)
        BY Zenon, <1>6, <3>2 DEF Reflects
      <4>2. shadow[metaAt'[id] + 1] = Rebuilt
        BY Zenon, <1>1, <4>1 DEF TypeOK, Rebuilt
      <4>3. Agrees(index[id], Rebuilt[id])
        BY Zenon, <3>1, <3>2 DEF ServingAt, Agrees
      <4>4. \A d \in Clients : ~PendingOn(d, id)'
        BY Zenon, <1>4, <3>2 DEF Settled
      <4> QED BY Zenon, <1>1, <1>2, <2>1, <3>1, <4>2, <4>3, <4>4 DEF ServingAt
    <3>3. CASE ~Settled(id)
      <4>1. PICK c \in Clients : PendingOn(c, id) /\ metaAt'[id] = at[c] - 1
        BY SMTT(30), <1>6, <3>3 DEF Reflects
      <4>2. at[c] \in 1..Len(wal) /\ metaAt'[id] + 1 = at[c]
        BY SMTT(30), <1>1, <4>1 DEF IndInv, ClientsOK, TypeOK
      <4>3. Agrees(index[id], shadow[at[c]][id])
        BY Zenon, <3>1, <4>1 DEF ServingAt, Agrees
      <4>4. ~Settled(id)' /\ \A d \in Clients : PendingOn(d, id)' => d = c
        BY Zenon, <1>4, <3>1, <4>1 DEF ServingAt, Settled
      <4>5. shadow[at[c] + 1][id] = Rebuilt[id]
        BY Zenon, <3>1, <4>1 DEF ServingAt
      <4>6. (index[id] = Deleted => RemovalLogged(id)) /\ Later(acked[id], index[id])
        BY Zenon, <3>1 DEF ServingAt
      <4>7. ServingAt(id)'
        BY Zenon, <1>1, <1>2, <2>1, <4>3, <4>4, <4>5, <4>6 DEF ServingAt
      <4> QED BY Zenon, <4>2, <4>3, <4>6, <4>7
    <3> QED BY Zenon, <3>2, <3>3
  <2>3. MetaOK'
    BY ZenonT(30), <1>1, <1>2, <1>6, <2>2 DEF MetaOK
  <2>4. WriteAhead'
    BY <1>1, <1>6 DEF IndInv, WriteAhead
  <2> QED BY Zenon, <1>2, <1>3, <2>2, <2>3, <2>4 DEF IndInv, ServingOK
<1> QED BY Zenon, <1>5, <1>6 DEF Shutdown

LEMMA StartInv ==
  ASSUME IndInv, TypeOK', Start
  PROVE  IndInv'
<1>1. TypeOK /\ ShadowOK /\ phase' = "replaying" /\ pos' = 0
  BY Zenon DEF IndInv, Start
<1>2. UNCHANGED <<wal, dir, meta, requests, shadow, metaAt, disordered, unlogged, acked>>
  BY Zenon DEF Start
<1>3. /\ ShadowOK' /\ Rebuilt' = Rebuilt
      /\ \A id \in Ids : RemovalLogged(id)' = RemovalLogged(id) /\ Clean(id)' = Clean(id)
  BY Zenon, <1>1, <1>2, SameLog DEF Clean
<1>4. index' = Empty \/ (meta # NoMeta /\ index' = meta)
  BY Zenon DEF Start
<1>5. ClientsOK'
  BY Zenon, <1>2 DEF IndInv, ClientsOK, PendingOn, Running, requests, Start
<1>6. NeverDropped'
  BY <1>2 DEF IndInv, NeverDropped, Start, requests
<1>7. MetaOK' /\ AckedOK'
  BY Zenon, <1>2, <1>3 DEF IndInv, MetaOK, AckedOK
<1>8. ServingOK'
  BY Zenon, <1>1 DEF ServingOK, Running
<1>9. ReplayOK'
  <2> SUFFICES ASSUME NEW id \in Ids, Clean(id)
        PROVE  /\ \/ index'[id] = shadow[1][id]
                  \/ /\ meta # NoMeta /\ 0 < metaAt[id]
                     /\ meta[id] # Absent /\ index'[id] \in {meta[id], Deleted}
               /\ index'[id] = Deleted => RemovalLogged(id)
    BY <1>1, <1>2, <1>3 DEF ReplayOK
  <2>1. shadow[1][id] = Absent
    BY Zenon, <1>1 DEF ShadowOK, Empty
  <2>2. CASE index' = Empty
    BY Zenon, <2>1, <2>2 DEF Empty
  <2>3. CASE meta # NoMeta /\ index' = meta
    <3>1. /\ Agrees(meta[id], shadow[metaAt[id] + 1][id])
          /\ meta[id] = Deleted => RemovalLogged(id)
      BY Zenon, <2>3 DEF IndInv, MetaOK
    <3>2. CASE metaAt[id] = 0
      BY <2>1, <2>3, <3>1, <3>2 DEF Agrees
    <3>3. CASE metaAt[id] > 0
      BY Zenon, <2>1, <2>3, <3>1, <3>3
    <3> QED BY SMTT(30), <1>1, <3>2, <3>3 DEF TypeOK
  <2> QED BY Zenon, <1>4, <2>2, <2>3
<1>10. WriteAhead'
  <2>1. \A id \in Ids : index'[id] \in Values => meta # NoMeta /\ index'[id] = meta[id]
    BY Zenon, <1>4 DEF Empty
  <2> QED BY <1>2, <2>1 DEF IndInv, WriteAhead
<1> QED BY Zenon, <1>3, <1>5, <1>6, <1>7, <1>8, <1>9, <1>10 DEF IndInv

\* One replayed record, for an index that was loaded or started empty.
LEMMA ReplayEntryInv ==
  ASSUME IndInv, TypeOK', ReplayEntry
  PROVE  IndInv'
<1> DEFINE e == wal[pos + 1]
<1>1. TypeOK /\ ShadowOK /\ phase = "replaying" /\ pos' = pos + 1
      /\ pos + 1 \in 1..Len(wal) /\ e \in Entry /\ index' = Replayed(e)
  BY SMTT(30) DEF IndInv, ReplayEntry, TypeOK
<1>2. UNCHANGED <<wal, phase, exists, dir, meta, requests, history>>
  BY Zenon DEF ReplayEntry
<1>3. /\ ShadowOK' /\ Rebuilt' = Rebuilt
      /\ \A id \in Ids : RemovalLogged(id)' = RemovalLogged(id) /\ Clean(id)' = Clean(id)
  BY Zenon, <1>1, <1>2, SameLog DEF Clean, history
<1>4. /\ e.kind \in Kinds /\ e.val \in Values \cup {Absent}
      /\ e.kind # "delete" => e.val \in Values
  BY Zenon, <1>1, EntryFields
<1>5. \A id \in Ids :
        /\ id \in e.ids /\ exists => index'[id] = Step(e.kind, index[id], e.val)
        /\ ~(id \in e.ids /\ exists) => index'[id] = index[id]
  <2>1. index \in [Ids -> States]
    BY Zenon, <1>1 DEF TypeOK
  <2> QED BY <1>1, <2>1, ApplyEntryFacts DEF Replayed
<1>6. ClientsOK' /\ NeverDropped' /\ MetaOK' /\ AckedOK'
  BY Zenon, <1>2, <1>3 DEF IndInv, ClientsOK, PendingOn, Running, NeverDropped, MetaOK, AckedOK,
                    requests, history
<1>7. ServingOK'
  BY Zenon, <1>1, <1>2 DEF ServingOK, Running
<1>8. ReplayOK'
  <2> SUFFICES ASSUME NEW id \in Ids, Clean(id)
        PROVE  /\ \/ index'[id] = shadow[pos + 2][id]
                  \/ meta # NoMeta /\ Agrees(index'[id], shadow[pos + 2][id])
                  \/ /\ meta # NoMeta /\ pos + 1 < metaAt[id]
                     /\ meta[id] # Absent /\ index'[id] \in {meta[id], Deleted}
               /\ index'[id] = Deleted => RemovalLogged(id)
    <3>1. pos' + 1 = pos + 2 /\ pos' = pos + 1
      BY <1>1 DEF TypeOK
    <3> QED BY SMTT(30), <1>1, <1>2, <1>3, <3>1 DEF ReplayOK, history
  <2>1. exists
    BY Zenon, <1>1 DEF IndInv, NeverDropped, Clean
  <2> DEFINE x == index[id]
             s == shadow[pos + 1][id]
             t == shadow[pos + 2][id]
             y == index'[id]
  <2>2. x \in States /\ s \in States /\ t \in States
    BY <1>1, SMTT(20) DEF TypeOK
  <2>3. pos + 1 \in 1..Len(wal) /\ (pos + 1) + 1 = pos + 2
    BY <1>1 DEF TypeOK
  <2>4. shadow[pos + 2] = ApplyEntry(e, shadow[pos + 1])
    BY Zenon, <1>1, <2>3 DEF ShadowOK
  <2>5. shadow[pos + 1] \in [Ids -> States]
    BY <1>1, SMTT(60) DEF TypeOK
  <2>6. t = IF id \in e.ids THEN Step(e.kind, s, e.val) ELSE s
    BY <1>1, <2>4, <2>5, ApplyEntryFacts, SMTT(40)
  <2>7. y = IF id \in e.ids THEN Step(e.kind, x, e.val) ELSE x
    BY Zenon, <1>5, <2>1
  <2>8. /\ x = s \/ (meta # NoMeta /\ Agrees(x, s))
           \/ (meta # NoMeta /\ pos < metaAt[id] /\ meta[id] # Absent /\ x \in {meta[id], Deleted})
        /\ x = Deleted => RemovalLogged(id)
    BY Zenon, <1>1 DEF IndInv, ReplayOK
  <2>9. y = Deleted => RemovalLogged(id)
    <3>1. CASE x = Deleted
      BY Zenon, <2>8, <3>1
    <3>2. CASE x # Deleted /\ y = Deleted
      <4>1. id \in e.ids /\ e.kind \in {"delete", "update"}
        BY <1>4, <2>2, <2>7, <3>2, StepFacts
      <4> QED BY Zenon, <2>3, <4>1 DEF RemovalLogged, Logged
    <3> QED BY Zenon, <3>1, <3>2
  <2> HIDE DEF x, s, t, y, e
  <2>10. CASE x = s
    BY Zenon, <2>6, <2>7, <2>9, <2>10 DEF y, t
  <2>11. CASE meta # NoMeta /\ Agrees(x, s)
    <3>1. Agrees(y, t)
      BY Zenon, <1>4, <2>2, <2>6, <2>7, <2>11, StepAgrees
    <3> QED BY Zenon, <2>9, <2>11, <3>1 DEF y, t
  <2>12. CASE meta # NoMeta /\ pos < metaAt[id] /\ meta[id] # Absent /\ x \in {meta[id], Deleted}
    <3>1. y \in {meta[id], Deleted}
      BY <1>4, <2>2, <2>7, <2>12, StepFacts
    <3>2. CASE pos + 1 < metaAt[id]
      BY Zenon, <2>9, <2>12, <3>1, <3>2 DEF y
    <3>3. CASE pos + 1 = metaAt[id]
      <4>1. Agrees(meta[id], t)
        <5>1. metaAt[id] + 1 = pos + 2
          BY Zenon, <2>3, <3>3
        <5> QED BY Zenon, <2>12, <5>1 DEF IndInv, MetaOK, t
      <4>2. meta[id] \in States
        BY Zenon, <1>1, <2>12 DEF TypeOK
      <4>3. Agrees(y, t)
        BY Zenon, <2>12, <3>1, <4>1, <4>2 DEF Agrees, States
      <4> QED BY Zenon, <2>9, <2>12, <4>3 DEF y, t
    <3>4. pos + 1 < metaAt[id] \/ pos + 1 = metaAt[id]
      BY <1>1, <2>12, SMTT(60) DEF TypeOK
    <3> QED BY ZenonT(30), <3>2, <3>3, <3>4
  <2> QED BY ZenonT(30), <2>8, <2>10, <2>11, <2>12
<1>9. WriteAhead'
  <2>1. ASSUME NEW id \in Ids, index'[id] \in Values
        PROVE  index'[id] = index[id] \/ (id \in e.ids /\ e.val = index'[id])
    <3>1. index[id] \in States
      BY Zenon, <1>1 DEF TypeOK
    <3> QED BY <1>4, <1>5, <2>1, <3>1, StepFacts, SMTT(40)
  <2> QED BY <1>1, <1>2, <2>1, SMTT(40) DEF IndInv, WriteAhead, history
<1> QED BY ZenonT(30), <1>3, <1>6, <1>7, <1>8, <1>9 DEF IndInv

LEMMA ServeInv ==
  ASSUME IndInv, TypeOK', Serve
  PROVE  IndInv'
<1>1. TypeOK /\ phase = "replaying" /\ pos = Len(wal) /\ phase' = "serving"
  BY Zenon DEF IndInv, Serve
<1>2. UNCHANGED <<wal, pos, exists, index, dir, meta, requests, history>>
  BY DEF Serve
<1>3. /\ ShadowOK' /\ Rebuilt' = Rebuilt
      /\ \A id \in Ids : RemovalLogged(id)' = RemovalLogged(id) /\ Clean(id)' = Clean(id)
  BY <1>2, SameLog DEF Clean, IndInv, history
<1>4. ClientsOK' /\ NeverDropped' /\ MetaOK' /\ AckedOK' /\ WriteAhead'
  <2>1. ClientsOK
    BY Zenon DEF IndInv
  <2>2. ~Running
    BY Zenon, <1>1 DEF Running
  <2>3. \A c \in Clients : pc'[c] = "idle"
    BY Zenon, <1>2, <2>1, <2>2 DEF ClientsOK, requests
  <2>4. ClientsOK'
    BY Zenon, <2>3 DEF ClientsOK, PendingOn
  <2>5. NeverDropped'
    BY Zenon, <1>1, <1>2 DEF IndInv, NeverDropped, requests, history
  <2>6. MetaOK'
    BY Zenon, <1>2, <1>3 DEF IndInv, MetaOK, history
  <2>7. AckedOK'
    BY ZenonT(30), <1>2, <1>3 DEF IndInv, AckedOK, history
  <2>8. WriteAhead'
    <3>1. /\ WriteAhead
          /\ wal' = wal /\ index' = index /\ meta' = meta /\ unlogged' = unlogged
      BY Zenon, <1>2 DEF IndInv, history
    <3> QED BY <3>1 DEF WriteAhead
  <2> QED BY Zenon, <2>4, <2>5, <2>6, <2>7, <2>8
<1>5. ReplayOK'
  BY Zenon, <1>1 DEF ReplayOK
<1>6. ServingOK'
  <2>1. Rebuilt = shadow[pos + 1]
    BY Zenon, <1>1 DEF TypeOK, Rebuilt
  <2>2. \A d \in Clients, id \in Ids : ~PendingOn(d, id)'
    BY Zenon, <1>1, <1>2 DEF IndInv, ClientsOK, PendingOn, Running, requests
  <2>3. ASSUME NEW id \in Ids, Clean(id)
        PROVE  /\ index[id] = Rebuilt[id] \/ (meta # NoMeta /\ Agrees(index[id], Rebuilt[id]))
               /\ index[id] = Deleted => RemovalLogged(id)
               /\ Later(acked[id], index[id])
    <3>1. ~(pos < metaAt[id])
      BY <1>1, SMTT(20) DEF TypeOK
    <3>2. /\ index[id] = Rebuilt[id] \/ (meta # NoMeta /\ Agrees(index[id], Rebuilt[id]))
          /\ index[id] = Deleted => RemovalLogged(id)
      BY Zenon, <1>1, <2>1, <2>3, <3>1 DEF IndInv, ReplayOK
    <3>3. Later(acked[id], Rebuilt[id])
      BY Zenon, <2>3 DEF IndInv, AckedOK
    <3>4. Later(acked[id], index[id])
      BY Zenon, <3>2, <3>3, StatesAssumption DEF Agrees, Later
    <3> QED BY Zenon, <3>2, <3>4
  <2>4. ASSUME NEW id \in Ids, Clean(id)
        PROVE  ServingAt(id)'
    <3>1. \A d \in Clients : ~PendingOn(d, id)'
      BY Zenon, <2>2
    <3> QED BY Zenon, <1>2, <1>3, <2>3, <2>4, <3>1 DEF ServingAt, history
  <2> QED BY Zenon, <1>3, <2>4 DEF ServingOK
<1> QED BY Zenon, <1>3, <1>4, <1>5, <1>6 DEF IndInv

---------------------------------------------------------------------------
LEMMA NextIndInv == IndInv /\ [Next]_vars => IndInv'
<1> SUFFICES ASSUME IndInv, [Next]_vars PROVE IndInv'
  BY Zenon
<1>1. TypeOK'
  BY Zenon, NextTypeOK DEF IndInv
<1>2. ASSUME NEW c \in Clients,
             \/ \E ids \in (SUBSET Ids) \ {{}}, v \in Values : Insert(c, ids, v)
             \/ \E id \in Ids, v \in Values : Upsert(c, id, v)
             \/ \E id \in Ids : Delete(c, id)
      PROVE  IndInv'
  BY Zenon, <1>1, <1>2, BeginInv DEF Insert, Upsert, Delete
<1>3. ASSUME NEW c \in Clients, NEW id \in Ids, ApplyPoint(c, id)
      PROVE  IndInv'
  BY Zenon, <1>1, <1>3, ApplyPointInv
<1>4. ASSUME NEW c \in Clients, LogWrite(c)
      PROVE  IndInv'
  BY Zenon, <1>1, <1>4, LogWriteInv
<1>5. ASSUME NEW c \in Clients, LogFails(c)
      PROVE  IndInv'
  BY Zenon, <1>1, <1>5, LogFailsInv, LogFailsLateInv DEF LogFails
<1>6. ASSUME NEW id \in Ids, NEW v \in Values, InsertV2(id, v)
      PROVE  IndInv'
  BY Zenon, <1>1, <1>6, InsertV2Inv
<1>7. CASE DropCollection \/ CreateCollection \/ CreateFails
  BY Zenon, <1>1, <1>7, DirectoryInv
<1>8. CASE Exit
  BY Zenon, <1>1, <1>8, ExitInv
<1>9. CASE Shutdown
  BY Zenon, <1>1, <1>9, ShutdownInv
<1>10. CASE Start
  BY <1>1, <1>10, StartInv
<1>11. CASE ReplayEntry
  BY Zenon, <1>1, <1>11, ReplayEntryInv
<1>12. CASE Serve
  BY Zenon, <1>1, <1>12, ServeInv
<1>13. CASE UNCHANGED vars
  <2>1. ShadowOK' /\ ClientsOK' /\ NeverDropped'
    BY <1>13, SameLog DEF IndInv, ClientsOK, PendingOn, Running, NeverDropped,
                          vars, server, requests, history
  <2>2. /\ Rebuilt' = Rebuilt
        /\ \A id \in Ids : RemovalLogged(id)' = RemovalLogged(id) /\ Clean(id)' = Clean(id)
    BY ZenonT(30), <1>13, SameLog DEF IndInv, Clean, vars, server, requests, history
  <2>3. MetaOK' /\ AckedOK'
    BY SMTT(30), <1>13, <2>2 DEF IndInv, MetaOK, AckedOK, vars, server, history
  <2>4. ReplayOK' /\ WriteAhead'
    BY <1>13, <2>2, SMTT(40) DEF IndInv, ReplayOK, WriteAhead, vars, server, history
  <2>5. ServingOK'
    BY <1>13, <2>2, ZenonT(60) DEF IndInv, ServingOK, ServingAt, Running,
                       PendingOn, Settled, vars, server, requests, history
  <2> QED BY Zenon, <1>1, <2>1, <2>3, <2>4, <2>5 DEF IndInv
<1> QED BY Zenon, <1>2, <1>3, <1>4, <1>5, <1>6, <1>7, <1>8, <1>9, <1>10, <1>11, <1>12, <1>13 DEF Next

\* The inductive invariant holds in every behaviour of the collection.
THEOREM Invariance == Spec => []IndInv
  BY InitIndInv, NextIndInv, PTL DEF Spec

\* The write-ahead rule holds for every set of clients, ids and values.
THEOREM WriteAheadAlways == Spec => []WriteAhead
<1>1. IndInv => WriteAhead
  BY Zenon DEF IndInv
<1> QED BY <1>1, Invariance, PTL

\* What is served is what the log rebuilds, up to points that replay over an
\* index.meta has deleted.
THEOREM ReplayAlwaysAgrees == Spec => []ReplayAgrees
<1>1. IndInv => ReplayAgrees
  BY Zenon DEF IndInv, ServingOK, ServingAt, Agrees, ReplayAgrees, Serving
<1> QED BY <1>1, Invariance, PTL

\* An acknowledged insert survives every sequence of crashes, shutdowns and
\* restarts while the id has no other kind of record.
THEOREM InsertsDurable == Spec => []InsertDurable
<1>1. IndInv => InsertDurable
  BY Zenon DEF IndInv, ServingOK, ServingAt, Later, InsertDurable, Serving, RemovalLogged
<1> QED BY <1>1, Invariance, PTL

\* An acknowledged delete is never undone by a restart.
THEOREM DeletesDurable == Spec => []DeletedStayDeleted
<1>1. IndInv => DeletedStayDeleted
  BY Zenon DEF IndInv, ServingOK, ServingAt, Later, DeletedStayDeleted, Serving
<1> QED BY <1>1, Invariance, PTL

=============================================================================
