----------------------------- MODULE EngineProofs -----------------------------
(***************************************************************************)
(* Theorems about the parts of the server that keep data in files: the     *)
(* collection manager with its snapshots, the aliases and the graph file.  *)
(* They hold for every value of the constants; each part's specification   *)
(* is instantiated with its own names.                                     *)
(***************************************************************************)
EXTENDS Integers, Sequences, FiniteSets, TLAPS

CONSTANTS Names, Points, Snaps, retainCount, MaxCollections, MaxCrashes, None, Bare, Torn

VARIABLES up, collections, configName, logging, dirs, walled, busy, writer, snap, unsynced,
          meta, disturbed, moved, dropped, crashes

Mgr == INSTANCE Manager

-----------------------------------------------------------------------------
(* The inductive invariant of the manager.                                   *)

\* The contents of a snapshot: the points of some collections.
Body(c) == DOMAIN c \subseteq Names /\ c \in [DOMAIN c -> SUBSET Points]

BusyTyped ==
  /\ busy.op \in {"none", "create", "delete", "rename", "update", "restore"}
  /\ busy.op = "none" => busy = Mgr!Idle
  /\ busy.op \in {"create", "delete", "rename", "update"} => busy.name \in Names
  /\ busy.op = "rename" => busy.old \in Names /\ busy.old # busy.name
  /\ busy.op = "restore" =>
       /\ busy = [op |-> "restore", id |-> busy.id, left |-> busy.left, contents |-> busy.contents]
       /\ busy.left \subseteq Names /\ \A n \in busy.left : busy.contents[n] \in SUBSET Points

WriterTyped ==
  /\ writer.op \in {"none", "collections", "publish", "meta"}
  /\ writer.op = "none" => writer = Mgr!Idle
  /\ writer.op # "none" =>
       /\ writer = [op |-> writer.op, id |-> writer.id, left |-> writer.left,
                    tmp |-> writer.tmp, synced |-> writer.synced]
       /\ writer.id \in Snaps /\ writer.left \subseteq Names /\ Body(writer.tmp)

ManagerTypes == /\ Mgr!TypeOK /\ up \in BOOLEAN
                /\ BusyTyped /\ WriterTyped
                /\ snap = [s \in Snaps |-> snap[s]]

\* m.mu: nobody holds it while the process is down, and the collections that a
\* snapshot has yet to write stay in the map.
Locked ==
  /\ busy = Mgr!Idle \/ writer = Mgr!Idle
  /\ ~up => busy = Mgr!Idle /\ writer = Mgr!Idle
  /\ writer.op = "collections" => \A n \in writer.left : collections[n] # None

\* A body is synced before it gets its name, and named before it is listed.
SnapshotsWhole ==
  /\ unsynced = {}
  /\ writer.op \in {"publish", "meta"} => writer.synced = TRUE
  /\ writer.op = "meta" => Body(snap[writer.id])
  /\ writer.op # "none" => writer.id \notin meta
  /\ meta \subseteq Snaps
  /\ \A s \in Snaps : snap[s] \in {None, Torn} \/ Body(snap[s])
  /\ Mgr!ListedIsWhole

\* The names of which the map and the directories may disagree just now.
InDoubt ==
  {n \in Names : \/ busy.op \in {"create", "delete"} /\ n = busy.name
                 \/ busy.op = "rename" /\ n \in {busy.old, busy.name}}

\* A directory says another name only after an interrupted rename, or during one.
DirsNamed ==
  \A d \in Names : dirs[d] \in Names \ {d} =>
    \/ {d, dirs[d]} \subseteq disturbed
    \/ /\ busy.op = "rename" /\ d = busy.name
       /\ dirs[d] \in disturbed \cup {busy.old}

\* config.Name differs from the key only after a rename that failed, or during one.
ConfigNamed ==
  \A n \in Names :
    \/ configName[n] = n
    \/ {n, configName[n]} \subseteq disturbed \cap moved
    \/ busy.op = "rename" /\ n = busy.old /\ configName[n] = busy.name

\* What each operation has done so far.
InProgress ==
  /\ busy.op = "create" => /\ collections[busy.name] = None
                           /\ busy.name \notin disturbed => dirs[busy.name] = Bare
  /\ busy.op = "delete" => collections[busy.name] = None /\ busy.name \in moved
  /\ busy.op = "rename" =>
       /\ collections[busy.old] # None /\ collections[busy.name] = None
       /\ dirs[busy.old] = None
       /\ {busy.old, busy.name} \subseteq moved
  /\ busy.op = "update" => busy.name \in disturbed \/ collections[busy.name] # None

DirsMatch ==
  \A n \in Names \ (disturbed \cup InDoubt) :
    /\ dirs[n] \in {None, n}
    /\ up => (collections[n] # None <=> dirs[n] = n)

LogMatches ==
  \A n \in Names \ (disturbed \cup moved) :
    /\ dirs[n] # n => walled[n] = {}
    /\ up /\ collections[n] # None => n \in logging /\ collections[n] = walled[n]

ManagerInv == /\ ManagerTypes /\ Locked /\ SnapshotsWhole
              /\ DirsNamed /\ ConfigNamed /\ InProgress /\ DirsMatch /\ LogMatches


-----------------------------------------------------------------------------
(* Steps of requests that change collections leave the snapshots alone.      *)

LEMMA SnapshotsKept ==
  ASSUME ManagerInv, UNCHANGED <<writer, snap, unsynced, meta, dropped>>
  PROVE  WriterTyped' /\ SnapshotsWhole' /\ (snap = [s \in Snaps |-> snap[s]])'
  BY Zenon DEF ManagerInv, ManagerTypes, WriterTyped, SnapshotsWhole, Mgr!ListedIsWhole, Body, Mgr!Idle

\* An operation that has the lock alone, and leaves it with nobody.
LEMMA NoneInDoubt == busy.op \in {"none", "update", "restore"} => InDoubt = {}
  BY Zenon DEF InDoubt

LEMMA IdleOp == Mgr!Idle.op = "none"
  BY Zenon DEF Mgr!Idle

LEMMA CreateStep ==
  ASSUME Mgr!ConstantsOK, ManagerInv, NEW n \in Names, Mgr!Create(n)
  PROVE  ManagerInv'
<1>0. /\ Mgr!TypeOK /\ up = TRUE /\ busy = Mgr!Idle /\ writer = Mgr!Idle /\ busy.op = "none"
      /\ collections[n] = None
  BY Zenon, IdleOp DEF ManagerInv, ManagerTypes, Mgr!Create, Mgr!Exclusive, Mgr!Exists
<1>1. /\ dirs' = [dirs EXCEPT ![n] = IF @ = None THEN Bare ELSE @]
      /\ busy' = [op |-> "create", name |-> n]
      /\ UNCHANGED <<up, collections, configName, logging, walled, writer, snap, unsynced,
                     meta, dropped, disturbed, moved, crashes>>
  BY Zenon DEF Mgr!Create, Mgr!files
<1>2. ManagerTypes'
  BY Zenon, <1>0, <1>1, SnapshotsKept DEF ManagerTypes, Mgr!TypeOK, BusyTyped, Mgr!ConstantsOK
<1>3. Locked'
  BY Zenon, <1>0, <1>1, IdleOp DEF Locked
<1>4. InDoubt = {} /\ InDoubt' = {n}
  BY Zenon, <1>0, <1>1 DEF InDoubt
<1>5. /\ dirs'[n] = (IF dirs[n] = None THEN Bare ELSE dirs[n])
      /\ \A m \in Names : m # n => dirs'[m] = dirs[m]
  BY Zenon, <1>0, <1>1 DEF Mgr!TypeOK
<1>6. DirsNamed' /\ ConfigNamed'
  BY <1>0, <1>1, <1>5 DEF ManagerInv, DirsNamed, ConfigNamed, Mgr!ConstantsOK
<1>7. n \notin disturbed => dirs[n] = None
  BY Zenon, <1>0, <1>4 DEF ManagerInv, DirsMatch
<1>8. InProgress'
  BY Zenon, <1>0, <1>1, <1>5, <1>7 DEF InProgress
<1>9. DirsMatch'
  BY Zenon, <1>1, <1>4, <1>5 DEF ManagerInv, DirsMatch
<1>10. LogMatches'
  BY <1>0, <1>1, <1>5, <1>7 DEF ManagerInv, LogMatches, Mgr!ConstantsOK
<1> QED
  BY Zenon, <1>1, <1>2, <1>3, <1>6, <1>8, <1>9, <1>10, SnapshotsKept DEF ManagerInv

LEMMA CreateEndsStep ==
  ASSUME Mgr!ConstantsOK, ManagerInv, Mgr!CreateEnds
  PROVE  ManagerInv'
<1> DEFINE n == busy.name
<1>0. /\ Mgr!TypeOK /\ up = TRUE /\ busy.op = "create" /\ n \in Names
      /\ writer = Mgr!Idle /\ writer.op = "none"
  BY Zenon, IdleOp DEF ManagerInv, ManagerTypes, BusyTyped, Locked, Mgr!CreateEnds, Mgr!CreateEndsWith
<1>1. /\ dirs' = [dirs EXCEPT ![n] = n]
      /\ collections' = [collections EXCEPT ![n] = {}]
      /\ configName' = [configName EXCEPT ![n] = n]
      /\ logging' = logging \cup {n}
      /\ busy' = Mgr!Idle /\ busy'.op = "none"
      /\ UNCHANGED <<up, walled, writer, snap, unsynced, meta, dropped, disturbed, moved, crashes>>
  BY Zenon, IdleOp DEF Mgr!CreateEnds, Mgr!CreateEndsWith, Mgr!files
<1> HIDE DEF n
<1>2. /\ dirs'[n] = n /\ collections'[n] = {} /\ configName'[n] = n
      /\ \A m \in Names : m # n => /\ dirs'[m] = dirs[m] /\ collections'[m] = collections[m]
                                   /\ configName'[m] = configName[m]
      /\ {} # None
  BY Zenon, <1>0, <1>1 DEF Mgr!TypeOK, Mgr!ConstantsOK
<1>3. ManagerTypes'
  BY Zenon, <1>0, <1>1, SnapshotsKept DEF ManagerTypes, Mgr!TypeOK, BusyTyped
<1>4. Locked'
  BY Zenon, <1>0, <1>1 DEF Locked
<1>5. InDoubt = {n} /\ InDoubt' = {}
  BY Zenon, <1>0, <1>1 DEF InDoubt, n
<1>6. DirsNamed'
  BY <1>0, <1>1, <1>2 DEF ManagerInv, DirsNamed
<1>7. ConfigNamed'
  BY <1>0, <1>1, <1>2 DEF ManagerInv, ConfigNamed
<1>8. InProgress'
  BY Zenon, <1>1 DEF InProgress
<1>9. DirsMatch'
  BY <1>0, <1>1, <1>2, <1>5 DEF ManagerInv, DirsMatch
<1>10. n \notin disturbed \cup moved => walled[n] = {}
  BY Zenon, <1>0 DEF ManagerInv, InProgress, LogMatches, Mgr!ConstantsOK, n
<1>11. LogMatches'
  BY ZenonT(30), <1>0, <1>1, <1>2, <1>10 DEF ManagerInv, LogMatches
<1> QED
  BY Zenon, <1>1, <1>3, <1>4, <1>6, <1>7, <1>8, <1>9, <1>11, SnapshotsKept DEF ManagerInv


LEMMA DeleteStep ==
  ASSUME Mgr!ConstantsOK, ManagerInv, NEW n \in Names, Mgr!Delete(n)
  PROVE  ManagerInv'
<1>0. /\ Mgr!TypeOK /\ up = TRUE /\ busy = Mgr!Idle /\ writer = Mgr!Idle /\ busy.op = "none"
  BY Zenon, IdleOp DEF ManagerInv, ManagerTypes, Mgr!Delete, Mgr!Exclusive
<1>1. /\ collections' = [collections EXCEPT ![n] = None]
      /\ busy' = [op |-> "delete", name |-> n] /\ moved' = moved \cup {n}
      /\ UNCHANGED <<up, configName, logging, dirs, walled, writer, snap, unsynced,
                     meta, dropped, disturbed, crashes>>
  BY Zenon DEF Mgr!Delete, Mgr!files
<1>2. ManagerTypes'
  BY Zenon, <1>0, <1>1, SnapshotsKept DEF ManagerTypes, Mgr!TypeOK, BusyTyped
<1>3. Locked'
  BY Zenon, <1>0, <1>1, IdleOp DEF Locked
<1>4. InDoubt = {} /\ InDoubt' = {n}
  BY Zenon, <1>0, <1>1 DEF InDoubt
<1>5. /\ collections'[n] = None
      /\ \A m \in Names : m # n => collections'[m] = collections[m]
  BY Zenon, <1>0, <1>1 DEF Mgr!TypeOK
<1>6. DirsNamed' /\ ConfigNamed'
  BY <1>0, <1>1 DEF ManagerInv, DirsNamed, ConfigNamed
<1>7. InProgress'
  BY Zenon, <1>0, <1>1, <1>5 DEF InProgress
<1>8. DirsMatch'
  BY Zenon, <1>1, <1>4, <1>5 DEF ManagerInv, DirsMatch
<1>9. LogMatches'
  BY Zenon, <1>0, <1>1, <1>5 DEF ManagerInv, LogMatches
<1> QED
  BY Zenon, <1>1, <1>2, <1>3, <1>6, <1>7, <1>8, <1>9, SnapshotsKept DEF ManagerInv

LEMMA DeleteEndsStep ==
  ASSUME Mgr!ConstantsOK, ManagerInv, Mgr!DeleteEnds
  PROVE  ManagerInv'
<1> DEFINE n == busy.name
<1>0. /\ Mgr!TypeOK /\ up = TRUE /\ busy.op = "delete" /\ n \in Names
      /\ writer = Mgr!Idle /\ writer.op = "none"
  BY Zenon, IdleOp DEF ManagerInv, ManagerTypes, BusyTyped, Locked, Mgr!DeleteEnds
<1>1. /\ dirs' = [dirs EXCEPT ![n] = None]
      /\ busy' = Mgr!Idle /\ busy'.op = "none"
      /\ UNCHANGED <<up, collections, configName, logging, walled, writer, snap, unsynced, meta,
                     dropped, disturbed, moved, crashes>>
  BY Zenon, IdleOp DEF Mgr!DeleteEnds, Mgr!files
<1> HIDE DEF n
<1>2. dirs'[n] = None /\ \A m \in Names : m # n => dirs'[m] = dirs[m]
  BY Zenon, <1>0, <1>1 DEF Mgr!TypeOK
<1>3. ManagerTypes'
  BY Zenon, <1>0, <1>1, SnapshotsKept DEF ManagerTypes, Mgr!TypeOK, BusyTyped
<1>4. Locked'
  BY Zenon, <1>0, <1>1 DEF Locked
<1>5. InDoubt = {n} /\ InDoubt' = {}
  BY Zenon, <1>0, <1>1 DEF InDoubt, n
<1>6. DirsNamed' /\ ConfigNamed'
  BY <1>0, <1>1, <1>2 DEF ManagerInv, DirsNamed, ConfigNamed, Mgr!ConstantsOK
<1>7. InProgress'
  BY Zenon, <1>1 DEF InProgress
<1>8. collections[n] = None /\ n \in moved /\ None # n
  BY Zenon, <1>0 DEF ManagerInv, InProgress, n, Mgr!ConstantsOK
<1>9. DirsMatch'
  BY <1>0, <1>1, <1>2, <1>5, <1>8 DEF ManagerInv, DirsMatch
<1>10. LogMatches'
  BY Zenon, <1>0, <1>1, <1>2, <1>8 DEF ManagerInv, LogMatches
<1> QED
  BY Zenon, <1>1, <1>3, <1>4, <1>6, <1>7, <1>9, <1>10, SnapshotsKept DEF ManagerInv

LEMMA RenameStep ==
  ASSUME Mgr!ConstantsOK, ManagerInv, NEW old \in Names, NEW new \in Names, Mgr!Rename(old, new)
  PROVE  ManagerInv'
<1>0. /\ Mgr!TypeOK /\ up = TRUE /\ busy = Mgr!Idle /\ writer = Mgr!Idle /\ busy.op = "none"
      /\ collections[old] # None /\ collections[new] = None /\ old # new
  BY Zenon, IdleOp DEF ManagerInv, ManagerTypes, Mgr!Rename, Mgr!Exclusive, Mgr!Exists
<1>1. /\ configName' = [configName EXCEPT ![old] = new]
      /\ moved' = moved \cup {old, new}
      /\ UNCHANGED <<up, collections, logging, walled, writer, snap, unsynced,
                     meta, dropped, crashes>>
  BY Zenon DEF Mgr!Rename, Mgr!files
<1>2. /\ configName'[old] = new
      /\ \A m \in Names : m # old => configName'[m] = configName[m]
      /\ configName' \in [Names -> Names]
  BY Zenon, <1>0, <1>1 DEF Mgr!TypeOK
<1>3. InDoubt = {}
  BY Zenon, <1>0, NoneInDoubt
<1>4. CASE disturbed' = disturbed \cup {old, new} /\ UNCHANGED <<dirs, busy>>
  <2>1. ManagerTypes'
    BY Zenon, <1>0, <1>1, <1>2, <1>4, SnapshotsKept DEF ManagerInv, ManagerTypes, Mgr!TypeOK, BusyTyped
  <2>2. Locked'
    BY Zenon, <1>0, <1>1, <1>4, IdleOp DEF Locked
  <2>3. InDoubt' = {}
    BY Zenon, <1>0, <1>4 DEF InDoubt
  <2>4. DirsNamed' /\ ConfigNamed'
    BY <1>0, <1>1, <1>2, <1>4 DEF ManagerInv, DirsNamed, ConfigNamed
  <2>5. InProgress'
    BY Zenon, <1>0, <1>4 DEF InProgress
  <2>6. DirsMatch' /\ LogMatches'
    BY Zenon, <1>1, <1>3, <1>4, <2>3 DEF ManagerInv, DirsMatch, LogMatches
  <2> QED
    BY Zenon, <1>1, <2>1, <2>2, <2>4, <2>5, <2>6, SnapshotsKept DEF ManagerInv
<1>5. CASE /\ dirs' = [dirs EXCEPT ![old] = None, ![new] = dirs[old]]
           /\ busy' = [op |-> "rename", name |-> new, old |-> old]
           /\ UNCHANGED disturbed
  <2>1. /\ dirs'[old] = None /\ dirs'[new] = dirs[old]
        /\ \A m \in Names : m \notin {old, new} => dirs'[m] = dirs[m]
        /\ dirs' \in [Names -> {None, Bare} \cup Names]
    BY Zenon, <1>0, <1>5 DEF Mgr!TypeOK
  <2>2. ManagerTypes'
    BY Zenon, <1>0, <1>1, <1>2, <1>5, <2>1, SnapshotsKept DEF ManagerTypes, Mgr!TypeOK, BusyTyped
  <2>3. Locked'
    BY Zenon, <1>0, <1>1, <1>5, IdleOp DEF Locked
  <2>4. InDoubt' = {old, new}
    BY Zenon, <1>5 DEF InDoubt
  <2>5. DirsNamed'
    BY <1>0, <1>5, <2>1 DEF ManagerInv, DirsNamed, Mgr!ConstantsOK
  <2>6. ConfigNamed'
    BY <1>0, <1>1, <1>2, <1>5 DEF ManagerInv, ConfigNamed
  <2>7. InProgress'
    BY Zenon, <1>0, <1>1, <1>5, <2>1 DEF InProgress
  <2>8. DirsMatch' /\ LogMatches'
    BY <1>1, <1>3, <1>5, <2>1, <2>4 DEF ManagerInv, DirsMatch, LogMatches
  <2> QED
    BY Zenon, <1>1, <2>2, <2>3, <2>5, <2>6, <2>7, <2>8, SnapshotsKept DEF ManagerInv
<1> QED
  BY Zenon, <1>4, <1>5 DEF Mgr!Rename

LEMMA RenameEndsStep ==
  ASSUME Mgr!ConstantsOK, ManagerInv, Mgr!RenameEnds
  PROVE  ManagerInv'
<1> DEFINE old == busy.old
           new == busy.name
<1>0. /\ Mgr!TypeOK /\ up = TRUE /\ busy.op = "rename" /\ old \in Names /\ new \in Names
      /\ old # new /\ writer = Mgr!Idle /\ writer.op = "none"
      /\ collections[old] # None /\ dirs[old] = None /\ {old, new} \subseteq moved
  BY Zenon, IdleOp DEF ManagerInv, ManagerTypes, BusyTyped, Locked, InProgress, Mgr!RenameEnds
<1>1. /\ collections' = [collections EXCEPT ![old] = None, ![new] = collections[old]]
      /\ configName' = [configName EXCEPT ![old] = old, ![new] = new]
      /\ logging' \subseteq logging \cup {new} /\ logging \ {old, new} \subseteq logging'
      /\ dirs' = [dirs EXCEPT ![new] = new]
      /\ busy' = Mgr!Idle /\ busy'.op = "none"
      /\ UNCHANGED <<up, walled, writer, snap, unsynced, meta, dropped, disturbed, moved, crashes>>
  BY Zenon, IdleOp DEF Mgr!RenameEnds, Mgr!files
<1>2. InDoubt = {old, new} /\ InDoubt' = {}
  BY Zenon, <1>0, <1>1 DEF InDoubt
<1>3. DirsNamed /\ ConfigNamed /\ DirsMatch /\ LogMatches
  BY Zenon DEF ManagerInv
<1>4. \A d \in Names : dirs[d] \in Names \ {d} => d = new \/ {d, dirs[d]} \subseteq disturbed
  BY Zenon, <1>3 DEF DirsNamed
<1>5. \A n \in Names : \/ n = old \/ configName[n] = n
                       \/ {n, configName[n]} \subseteq disturbed \cap moved
  BY Zenon, <1>3 DEF ConfigNamed
<1> HIDE DEF old, new
<1>6. /\ dirs'[new] = new /\ dirs'[old] = None
      /\ collections'[old] = None /\ collections'[new] # None
      /\ configName'[old] = old /\ configName'[new] = new
      /\ \A m \in Names : m \notin {old, new} =>
           /\ dirs'[m] = dirs[m] /\ collections'[m] = collections[m]
           /\ configName'[m] = configName[m]
  BY Zenon, <1>0, <1>1 DEF Mgr!TypeOK
<1>7. ManagerTypes'
  <2>1. Mgr!TypeOK'
    BY Zenon, <1>0, <1>1 DEF Mgr!TypeOK
  <2> QED
    BY Zenon, <1>1, <2>1, SnapshotsKept DEF ManagerInv, ManagerTypes, BusyTyped
<1>8. Locked'
  BY Zenon, <1>0, <1>1 DEF Locked
<1>9. DirsNamed'
  BY <1>0, <1>1, <1>4, <1>6 DEF DirsNamed, Mgr!ConstantsOK
<1>10. ConfigNamed'
  <2>1. \A m \in Names : configName'[m] = m \/ {m, configName'[m]} \subseteq disturbed \cap moved
    BY <1>5, <1>6
  <2> QED
    BY Zenon, <1>1, <2>1 DEF ConfigNamed
<1>11. InProgress'
  BY Zenon, <1>1 DEF InProgress
<1>12. DirsMatch'
  <2>1. ASSUME NEW m \in Names \ disturbed
        PROVE  dirs'[m] \in {None, m} /\ (collections'[m] # None <=> dirs'[m] = m)
    <3>1. CASE m \in {old, new}
      BY Zenon, <1>0, <1>6, <3>1 DEF Mgr!ConstantsOK
    <3>2. CASE m \notin {old, new}
      BY <1>0, <1>2, <1>3, <1>6, <3>2 DEF DirsMatch
    <3> QED
      BY Zenon, <3>1, <3>2
  <2> QED
    BY Zenon, <1>1, <1>2, <2>1 DEF DirsMatch
<1>13. LogMatches'
  <2> SUFFICES ASSUME NEW m \in Names \ (disturbed \cup moved')
               PROVE  /\ dirs'[m] # m => walled[m] = {}
                      /\ up /\ collections'[m] # None =>
                           m \in logging' /\ collections'[m] = walled[m]
    BY Zenon, <1>1 DEF LogMatches
  <2>1. m \notin {old, new} /\ m \notin moved
    BY Zenon, <1>0, <1>1
  <2>2. dirs'[m] = dirs[m] /\ collections'[m] = collections[m]
    BY Zenon, <1>6, <2>1
  <2>3. /\ dirs[m] # m => walled[m] = {}
        /\ up /\ collections[m] # None => m \in logging /\ collections[m] = walled[m]
    BY Zenon, <1>3, <2>1 DEF LogMatches
  <2> QED BY Zenon, <1>1, <2>1, <2>2, <2>3
<1> QED
  BY Zenon, <1>1, <1>7, <1>8, <1>9, <1>10, <1>11, <1>12, <1>13, SnapshotsKept DEF ManagerInv


LEMMA UpdateConfigStep ==
  ASSUME Mgr!ConstantsOK, ManagerInv, NEW n \in Names, Mgr!UpdateConfig(n)
  PROVE  ManagerInv'
<1> DEFINE k == configName[n]
<1>0. /\ Mgr!TypeOK /\ up = TRUE /\ busy = Mgr!Idle /\ writer = Mgr!Idle /\ busy.op = "none"
      /\ collections[n] # None /\ k \in Names
  BY Zenon, IdleOp DEF ManagerInv, ManagerTypes, Mgr!TypeOK, Mgr!UpdateConfig, Mgr!Exclusive, Mgr!Exists
<1>1. /\ busy' = [op |-> "update", name |-> k]
      /\ UNCHANGED <<up, collections, configName, logging, dirs, walled, writer, snap, unsynced,
                     meta, dropped, disturbed, moved, crashes>>
  BY Zenon DEF Mgr!UpdateConfig, Mgr!files
<1>2. k = n \/ k \in disturbed
  BY Zenon, <1>0 DEF ManagerInv, ConfigNamed
<1> HIDE DEF k
<1>3. ManagerTypes'
  BY Zenon, <1>0, <1>1, SnapshotsKept DEF ManagerInv, ManagerTypes, Mgr!TypeOK, BusyTyped
<1>4. Locked'
  BY Zenon, <1>0, <1>1, IdleOp DEF Locked
<1>5. InDoubt = {} /\ InDoubt' = {}
  BY Zenon, <1>0, <1>1 DEF InDoubt
<1>6. DirsNamed' /\ ConfigNamed'
  BY Zenon, <1>0, <1>1 DEF ManagerInv, DirsNamed, ConfigNamed
<1>7. InProgress'
  BY Zenon, <1>0, <1>1, <1>2 DEF InProgress
<1>8. DirsMatch' /\ LogMatches'
  BY Zenon, <1>1, <1>5 DEF ManagerInv, DirsMatch, LogMatches
<1> QED
  BY Zenon, <1>1, <1>3, <1>4, <1>6, <1>7, <1>8, SnapshotsKept DEF ManagerInv

LEMMA UpdateEndsStep ==
  ASSUME Mgr!ConstantsOK, ManagerInv, Mgr!UpdateEnds
  PROVE  ManagerInv'
<1> DEFINE k == busy.name
<1>0. /\ Mgr!TypeOK /\ up = TRUE /\ busy.op = "update" /\ k \in Names
      /\ writer = Mgr!Idle /\ writer.op = "none"
      /\ k \in disturbed \/ collections[k] # None
  BY Zenon, IdleOp DEF ManagerInv, ManagerTypes, BusyTyped, Locked, InProgress, Mgr!UpdateEnds
<1>1. /\ dirs' = [dirs EXCEPT ![k] = k]
      /\ busy' = Mgr!Idle /\ busy'.op = "none"
      /\ UNCHANGED <<up, collections, configName, logging, walled, writer, snap, unsynced, meta,
                     dropped, disturbed, moved, crashes>>
  BY Zenon, IdleOp DEF Mgr!UpdateEnds, Mgr!files
<1> HIDE DEF k
<1>2. dirs'[k] = k /\ \A m \in Names : m # k => dirs'[m] = dirs[m]
  BY Zenon, <1>0, <1>1 DEF Mgr!TypeOK
<1>3. ManagerTypes'
  BY Zenon, <1>0, <1>1, SnapshotsKept DEF ManagerTypes, Mgr!TypeOK, BusyTyped
<1>4. Locked'
  BY Zenon, <1>0, <1>1 DEF Locked
<1>5. InDoubt = {} /\ InDoubt' = {}
  BY Zenon, <1>0, <1>1 DEF InDoubt
<1>6. DirsNamed' /\ ConfigNamed'
  BY <1>0, <1>1, <1>2 DEF ManagerInv, DirsNamed, ConfigNamed
<1>7. InProgress'
  BY Zenon, <1>1 DEF InProgress
<1>8. DirsMatch'
  BY ZenonT(30), <1>0, <1>1, <1>2, <1>5 DEF ManagerInv, DirsMatch
<1>9. LogMatches'
  BY Zenon, <1>0, <1>1, <1>2 DEF ManagerInv, LogMatches
<1> QED
  BY Zenon, <1>1, <1>3, <1>4, <1>6, <1>7, <1>8, <1>9, SnapshotsKept DEF ManagerInv

LEMMA InsertStep ==
  ASSUME Mgr!ConstantsOK, ManagerInv, NEW n \in Names, NEW p \in Points, Mgr!Insert(n, p)
  PROVE  ManagerInv'
<1> DEFINE k == configName[n]
<1>0. /\ Mgr!TypeOK /\ up = TRUE /\ busy = Mgr!Idle /\ busy.op = "none"
      /\ collections[n] # None /\ collections[n] \in SUBSET Points /\ k \in Names
  BY Zenon, IdleOp DEF ManagerInv, ManagerTypes, Mgr!TypeOK, Mgr!Insert, Mgr!Shared, Mgr!Exists
<1>1. /\ collections' = [collections EXCEPT ![n] = @ \cup {p}]
      /\ walled' = IF n \in logging THEN [walled EXCEPT ![k] = @ \cup {p}] ELSE walled
      /\ UNCHANGED <<up, configName, logging, dirs, busy, writer, snap, unsynced,
                     meta, dropped, disturbed, moved, crashes>>
  BY Zenon DEF Mgr!Insert, Mgr!files
<1>2. k = n \/ {n, k} \subseteq disturbed \cap moved
  BY Zenon, <1>0 DEF ManagerInv, ConfigNamed
<1> HIDE DEF k
<1>3. /\ collections'[n] = collections[n] \cup {p}
      /\ collections'[n] # None /\ collections'[n] \in SUBSET Points
      /\ \A m \in Names : m # n => collections'[m] = collections[m]
  BY Zenon, <1>0, <1>1 DEF Mgr!TypeOK, Mgr!ConstantsOK
<1>4. /\ n \in logging => walled'[k] = walled[k] \cup {p}
      /\ \A m \in Names : m # k \/ n \notin logging => walled'[m] = walled[m]
      /\ walled' \in [Names -> SUBSET Points]
  BY Zenon, <1>0, <1>1 DEF Mgr!TypeOK
<1>5. ManagerTypes'
  <2>1. collections' \in [Names -> {None} \cup SUBSET Points]
    BY Zenon, <1>0, <1>1 DEF Mgr!TypeOK
  <2> QED
    BY Zenon, <1>0, <1>1, <1>4, <2>1, SnapshotsKept DEF ManagerInv, ManagerTypes, Mgr!TypeOK, BusyTyped
<1>6. Locked'
  BY Zenon, <1>0, <1>1, <1>3 DEF ManagerInv, Locked, ManagerTypes, WriterTyped
<1>7. InDoubt = {} /\ InDoubt' = {}
  BY Zenon, <1>0, <1>1 DEF InDoubt
<1>8. DirsNamed' /\ ConfigNamed'
  BY Zenon, <1>0, <1>1 DEF ManagerInv, DirsNamed, ConfigNamed
<1>9. InProgress'
  BY Zenon, <1>0, <1>1 DEF InProgress
<1>10. DirsMatch'
  BY Zenon, <1>0, <1>1, <1>3, <1>7 DEF ManagerInv, DirsMatch
<1>11. ASSUME NEW m \in Names \ (disturbed \cup moved)
       PROVE  /\ dirs[m] # m => walled'[m] = {}
              /\ collections'[m] # None => m \in logging /\ collections'[m] = walled'[m]
  <2>0. DirsMatch /\ LogMatches
    BY Zenon DEF ManagerInv
  <2>1. CASE m = n
    <3>1. k = n /\ dirs[m] = m /\ m \in logging /\ collections[m] = walled[m]
      BY Zenon, <1>0, <1>2, <1>7, <2>0, <2>1 DEF DirsMatch, LogMatches
    <3> QED
      BY Zenon, <1>3, <1>4, <2>1, <3>1
  <2>2. CASE m # n
    <3>1. m # k
      BY Zenon, <1>2, <2>2
    <3> QED
      BY Zenon, <1>0, <1>3, <1>4, <2>0, <2>2, <3>1 DEF LogMatches
  <2> QED
    BY Zenon, <2>1, <2>2
<1>12. LogMatches'
  BY Zenon, <1>1, <1>11 DEF LogMatches
<1> QED
  BY Zenon, <1>1, <1>5, <1>6, <1>8, <1>9, <1>10, <1>12, SnapshotsKept DEF ManagerInv


LEMMA RestoreSnapshotStep ==
  ASSUME Mgr!ConstantsOK, ManagerInv, NEW s \in Snaps, Mgr!RestoreSnapshot(s)
  PROVE  ManagerInv'
<1>0. /\ Mgr!TypeOK /\ up = TRUE /\ busy = Mgr!Idle /\ writer = Mgr!Idle /\ busy.op = "none"
      /\ Body(snap[s])
  BY Zenon, IdleOp DEF ManagerInv, ManagerTypes, SnapshotsWhole, Mgr!RestoreSnapshot, Mgr!Exclusive
<1>1. /\ busy' = [op |-> "restore", id |-> s, left |-> DOMAIN snap[s], contents |-> snap[s]]
      /\ UNCHANGED <<up, collections, configName, logging, dirs, walled, writer, snap, unsynced,
                     meta, dropped, disturbed, moved, crashes>>
  BY Zenon DEF Mgr!RestoreSnapshot, Mgr!files, Mgr!Rest
<1>2. BusyTyped'
  <2>1. /\ busy'.op = "restore" /\ busy'.id = s /\ busy'.left = DOMAIN snap[s]
        /\ busy'.contents = snap[s]
    BY Zenon, <1>1
  <2>2. \A n \in DOMAIN snap[s] : n \in Names /\ snap[s][n] \in SUBSET Points
    BY Zenon, <1>0 DEF Body
  <2> QED
    BY Zenon, <1>1, <2>1, <2>2 DEF BusyTyped
<1>3. ManagerTypes'
  BY Zenon, <1>0, <1>1, <1>2, SnapshotsKept DEF ManagerInv, ManagerTypes, Mgr!TypeOK
<1>4. Locked'
  BY Zenon, <1>0, <1>1, IdleOp DEF Locked
<1>5. InDoubt = {} /\ InDoubt' = {}
  BY Zenon, <1>0, <1>1 DEF InDoubt
<1>6. DirsNamed' /\ ConfigNamed'
  BY Zenon, <1>0, <1>1 DEF ManagerInv, DirsNamed, ConfigNamed
<1>7. InProgress'
  BY Zenon, <1>1 DEF InProgress
<1>8. DirsMatch' /\ LogMatches'
  BY Zenon, <1>1, <1>5 DEF ManagerInv, DirsMatch, LogMatches
<1> QED
  BY Zenon, <1>1, <1>3, <1>4, <1>6, <1>7, <1>8, SnapshotsKept DEF ManagerInv

LEMMA RestoreCollectionStep ==
  ASSUME Mgr!ConstantsOK, ManagerInv, Mgr!RestoreCollection
  PROVE  ManagerInv'
<1>0. /\ Mgr!TypeOK /\ up = TRUE /\ busy.op = "restore" /\ busy.left \subseteq Names
      /\ writer = Mgr!Idle /\ writer.op = "none" /\ BusyTyped
  BY Zenon, IdleOp DEF ManagerInv, ManagerTypes, BusyTyped, Locked, Mgr!RestoreCollection
<1>1. PICK n \in busy.left :
        /\ collections' = [collections EXCEPT ![n] = busy.contents[n]]
        /\ configName' = [configName EXCEPT ![n] = n]
        /\ logging' = logging \ {n}
        /\ moved' = moved \cup {n}
        /\ \/ /\ dirs[n] = None
              /\ busy' = Mgr!Idle /\ UNCHANGED dirs
              /\ disturbed' = disturbed \cup {n}
           \/ /\ dirs[n] # None
              /\ busy' = [busy EXCEPT !.left = @ \ {n}]
              /\ dirs' = [dirs EXCEPT ![n] = n]
              /\ UNCHANGED disturbed
  BY Zenon DEF Mgr!RestoreCollection
<1>2. UNCHANGED <<up, walled, writer, snap, unsynced, meta, dropped, crashes>>
  BY Zenon DEF Mgr!RestoreCollection, Mgr!files
<1>3. /\ n \in Names /\ busy.contents[n] \in SUBSET Points /\ busy.contents[n] # None
  BY Zenon, <1>0 DEF BusyTyped, Mgr!ConstantsOK
<1>4. /\ collections'[n] # None
      /\ \A m \in Names : m # n => collections'[m] = collections[m]
      /\ configName'[n] = n
      /\ \A m \in Names : m # n => configName'[m] = configName[m]
  BY Zenon, <1>0, <1>1, <1>3 DEF Mgr!TypeOK
<1>5. BusyTyped' /\ busy'.op \in {"none", "restore"}
  <2>1. CASE busy' = Mgr!Idle
    BY Zenon, <2>1, IdleOp DEF BusyTyped
  <2>2. CASE busy' = [busy EXCEPT !.left = @ \ {n}]
    <3>1. busy = [op |-> "restore", id |-> busy.id, left |-> busy.left, contents |-> busy.contents]
      BY Zenon, <1>0 DEF BusyTyped
    <3>2. busy' = [op |-> "restore", id |-> busy.id, left |-> busy.left \ {n},
                   contents |-> busy.contents]
      BY <2>2, <3>1
    <3>3. /\ busy'.op = "restore" /\ busy'.id = busy.id /\ busy'.left = busy.left \ {n}
          /\ busy'.contents = busy.contents
      BY Zenon, <3>2
    <3>4. busy' = [op |-> "restore", id |-> busy'.id, left |-> busy'.left,
                   contents |-> busy'.contents]
      BY Zenon, <3>2, <3>3
    <3>5. busy'.left \subseteq Names /\ \A m \in busy'.left : busy'.contents[m] \in SUBSET Points
      BY Zenon, <1>0, <3>3 DEF BusyTyped
    <3> QED
      BY Zenon, <3>3, <3>4, <3>5 DEF BusyTyped
  <2> QED
    BY Zenon, <1>1, <2>1, <2>2
<1>6. ManagerTypes'
  <2>1. Mgr!TypeOK'
    BY <1>0, <1>1, <1>2, <1>3 DEF Mgr!TypeOK
  <2> QED
    BY Zenon, <1>0, <1>2, <1>5, <2>1, SnapshotsKept DEF ManagerTypes
<1>7. Locked'
  BY Zenon, <1>0, <1>2 DEF Locked
<1>8. InDoubt = {} /\ InDoubt' = {}
  BY Zenon, <1>0, <1>5 DEF InDoubt
<1>9. /\ \A m \in Names : m # n => dirs'[m] = dirs[m]
      /\ dirs'[n] = n \/ (dirs'[n] = None /\ n \in disturbed')
      /\ disturbed \subseteq disturbed' /\ moved' = moved \cup {n}
  BY <1>0, <1>1, <1>3 DEF Mgr!TypeOK
<1>10. DirsNamed'
  BY Zenon, <1>0, <1>3, <1>9 DEF ManagerInv, DirsNamed, Mgr!ConstantsOK
<1>11. ConfigNamed'
  BY <1>0, <1>3, <1>4, <1>9 DEF ManagerInv, ConfigNamed
<1>12. InProgress'
  BY Zenon, <1>5 DEF InProgress
<1>13. DirsMatch'
  BY <1>0, <1>2, <1>3, <1>4, <1>8, <1>9 DEF ManagerInv, DirsMatch
<1>14. LogMatches'
  BY <1>0, <1>1, <1>2, <1>3, <1>4, <1>9 DEF ManagerInv, LogMatches
<1> QED
  BY Zenon, <1>2, <1>6, <1>7, <1>10, <1>11, <1>12, <1>13, <1>14, SnapshotsKept DEF ManagerInv

LEMMA RestoreEndsStep ==
  ASSUME Mgr!ConstantsOK, ManagerInv, Mgr!RestoreEnds
  PROVE  ManagerInv'
<1>0. busy.op = "restore" /\ writer = Mgr!Idle /\ writer.op = "none" /\ up = TRUE
  BY Zenon, IdleOp DEF ManagerInv, ManagerTypes, Locked, Mgr!RestoreEnds
<1>1. /\ busy' = Mgr!Idle /\ busy'.op = "none"
      /\ UNCHANGED <<up, collections, configName, logging, dirs, walled, writer, snap, unsynced,
                     meta, dropped, disturbed, moved, crashes>>
  BY Zenon, IdleOp DEF Mgr!RestoreEnds, Mgr!files, Mgr!Rest
<1>2. ManagerTypes'
  BY Zenon, <1>0, <1>1, SnapshotsKept DEF ManagerInv, ManagerTypes, Mgr!TypeOK, BusyTyped
<1>3. Locked'
  BY Zenon, <1>0, <1>1 DEF Locked
<1>4. InDoubt = {} /\ InDoubt' = {}
  BY Zenon, <1>0, <1>1 DEF InDoubt
<1>5. DirsNamed' /\ ConfigNamed'
  BY Zenon, <1>0, <1>1 DEF ManagerInv, DirsNamed, ConfigNamed
<1>6. InProgress'
  BY Zenon, <1>1 DEF InProgress
<1>7. DirsMatch' /\ LogMatches'
  BY Zenon, <1>1, <1>4 DEF ManagerInv, DirsMatch, LogMatches
<1> QED
  BY Zenon, <1>1, <1>2, <1>3, <1>5, <1>6, <1>7, SnapshotsKept DEF ManagerInv
-----------------------------------------------------------------------------
(* Snapshots leave the collections alone.                                    *)

LEMMA MapKept ==
  ASSUME ManagerInv, UNCHANGED <<busy, Mgr!Rest>>
  PROVE  /\ Mgr!TypeOK' /\ (up \in BOOLEAN)' /\ BusyTyped'
         /\ DirsNamed' /\ ConfigNamed' /\ InProgress' /\ DirsMatch' /\ LogMatches'
<1>0. UNCHANGED <<busy, up, collections, configName, logging, dirs, walled, disturbed, moved,
                  crashes>>
  BY Zenon DEF Mgr!Rest
<1>1. Mgr!TypeOK' /\ (up \in BOOLEAN)' /\ BusyTyped'
  BY Zenon, <1>0 DEF ManagerInv, ManagerTypes, Mgr!TypeOK, BusyTyped, Mgr!Idle
<1>2. InDoubt' = InDoubt
  BY Zenon, <1>0 DEF InDoubt
<1>3. DirsNamed' /\ ConfigNamed' /\ InProgress'
  BY Zenon, <1>0 DEF ManagerInv, DirsNamed, ConfigNamed, InProgress
<1>4. DirsMatch' /\ LogMatches'
  BY Zenon, <1>0, <1>2 DEF ManagerInv, DirsMatch, LogMatches
<1> QED
  BY Zenon, <1>1, <1>3, <1>4


LEMMA CreateSnapshotStep ==
  ASSUME Mgr!ConstantsOK, ManagerInv, NEW s \in Snaps, Mgr!CreateSnapshot(s)
  PROVE  ManagerInv'
<1>0. /\ up = TRUE /\ busy = Mgr!Idle /\ writer = Mgr!Idle
  BY Zenon DEF ManagerInv, ManagerTypes, Mgr!CreateSnapshot, Mgr!Shared
<1>1. /\ writer' = [op |-> "collections", id |-> s, left |-> Mgr!Loaded,
                    tmp |-> [n \in {} |-> {}], synced |-> FALSE]
      /\ \A t \in Snaps : t >= s => t \notin meta
      /\ UNCHANGED <<busy, Mgr!Rest>> /\ UNCHANGED <<snap, unsynced, meta, dropped>>
  BY Zenon DEF Mgr!CreateSnapshot, Mgr!NewWriter, Mgr!files
<1>2. s \notin meta
  BY <1>1 DEF Mgr!ConstantsOK
<1>3. /\ writer'.op = "collections" /\ writer'.id = s /\ writer'.left = Mgr!Loaded
      /\ writer'.tmp = [n \in {} |-> {}] /\ writer'.synced = FALSE
  BY Zenon, <1>1
<1>4. WriterTyped'
  <2>1. Body([n \in {} |-> {}])
    BY Zenon DEF Body
  <2> QED
    BY Zenon, <1>1, <1>3, <2>1 DEF WriterTyped, Mgr!Loaded
<1>5. ManagerTypes'
  BY Zenon, <1>1, <1>4, MapKept DEF ManagerInv, ManagerTypes
<1>6. Locked'
  BY Zenon, <1>0, <1>1, <1>3 DEF Locked, Mgr!Loaded, Mgr!Exists, Mgr!Rest
<1>7. SnapshotsWhole'
  BY Zenon, <1>1, <1>2, <1>3 DEF ManagerInv, SnapshotsWhole, Mgr!ListedIsWhole, Body
<1> QED
  BY Zenon, <1>1, <1>5, <1>6, <1>7, MapKept DEF ManagerInv

LEMMA WriteCollectionStep ==
  ASSUME Mgr!ConstantsOK, ManagerInv, Mgr!WriteCollection
  PROVE  ManagerInv'
<1>0. /\ writer.op = "collections" /\ WriterTyped /\ writer # Mgr!Idle
      /\ Mgr!TypeOK /\ \A n \in writer.left : n \in Names /\ collections[n] # None
  BY Zenon, IdleOp DEF ManagerInv, ManagerTypes, WriterTyped, Locked, Mgr!WriteCollection
<1>1. PICK n \in writer.left :
        writer' = [writer EXCEPT !.left = @ \ {n},
                     !.tmp = [m \in DOMAIN writer.tmp \cup {n} |->
                                IF m = n THEN collections[n] ELSE writer.tmp[m]]]
  BY Zenon DEF Mgr!WriteCollection
<1>2. UNCHANGED <<busy, Mgr!Rest>> /\ UNCHANGED <<snap, unsynced, meta, dropped>>
  BY Zenon DEF Mgr!WriteCollection, Mgr!files
<1> DEFINE tmp == [m \in DOMAIN writer.tmp \cup {n} |->
                     IF m = n THEN collections[n] ELSE writer.tmp[m]]
<1>3. /\ n \in Names /\ collections[n] \in SUBSET Points
      /\ Body(writer.tmp)
  BY Zenon, <1>0 DEF Mgr!TypeOK, WriterTyped
<1>4. Body(tmp)
  BY Zenon, <1>3 DEF Body
<1>5. writer = [op |-> writer.op, id |-> writer.id, left |-> writer.left,
                tmp |-> writer.tmp, synced |-> writer.synced]
  BY Zenon, <1>0 DEF WriterTyped
<1> HIDE DEF tmp
<1>6. writer' = [op |-> "collections", id |-> writer.id, left |-> writer.left \ {n},
                 tmp |-> tmp, synced |-> writer.synced]
  BY Zenon, <1>0, <1>1, <1>5 DEF tmp
<1>7. /\ writer'.op = "collections" /\ writer'.id = writer.id
      /\ writer'.left = writer.left \ {n} /\ writer'.tmp = tmp
      /\ writer'.synced = writer.synced
  BY Zenon, <1>6
<1>8. WriterTyped'
  <2>1. writer.id \in Snaps /\ writer.left \ {n} \subseteq Names
    BY Zenon, <1>0 DEF WriterTyped
  <2> QED
    BY Zenon, <1>4, <1>6, <1>7, <2>1 DEF WriterTyped
<1>9. ManagerTypes'
  BY Zenon, <1>2, <1>8, MapKept DEF ManagerInv, ManagerTypes
<1>10. Locked'
  BY Zenon, <1>0, <1>2, <1>7 DEF ManagerInv, Locked, Mgr!Rest
<1>11. SnapshotsWhole'
  BY Zenon, <1>0, <1>2, <1>7 DEF ManagerInv, SnapshotsWhole, Mgr!ListedIsWhole, Body
<1> QED
  BY Zenon, <1>2, <1>9, <1>10, <1>11, MapKept DEF ManagerInv

LEMMA CancelStep ==
  ASSUME Mgr!ConstantsOK, ManagerInv, Mgr!Cancel
  PROVE  ManagerInv'
<1>1. /\ writer' = Mgr!Idle /\ writer'.op = "none" /\ dropped \subseteq dropped'
      /\ UNCHANGED <<busy, Mgr!Rest>> /\ UNCHANGED <<snap, unsynced, meta>>
  BY Zenon, IdleOp DEF Mgr!Cancel
<1>2. ManagerTypes'
  BY Zenon, <1>1, MapKept DEF ManagerInv, ManagerTypes, WriterTyped
<1>3. Locked'
  BY Zenon, <1>1 DEF ManagerInv, Locked, Mgr!Rest
<1>4. SnapshotsWhole'
  BY Zenon, <1>1 DEF ManagerInv, SnapshotsWhole, Mgr!ListedIsWhole, Body
<1> QED
  BY Zenon, <1>1, <1>2, <1>3, <1>4, MapKept DEF ManagerInv

LEMMA SyncStep ==
  ASSUME Mgr!ConstantsOK, ManagerInv, Mgr!Sync
  PROVE  ManagerInv'
<1>0. writer.op = "collections" /\ WriterTyped /\ writer # Mgr!Idle
  BY Zenon, IdleOp DEF ManagerInv, ManagerTypes, Mgr!Sync
<1>1. /\ writer' = [writer EXCEPT !.op = "publish", !.synced = TRUE]
      /\ UNCHANGED <<busy, Mgr!Rest>> /\ UNCHANGED <<snap, unsynced, meta, dropped>>
  BY Zenon DEF Mgr!Sync, Mgr!files
<1>2. writer = [op |-> writer.op, id |-> writer.id, left |-> writer.left,
                tmp |-> writer.tmp, synced |-> writer.synced]
  BY Zenon, <1>0 DEF WriterTyped
<1>3. writer' = [op |-> "publish", id |-> writer.id, left |-> writer.left,
                 tmp |-> writer.tmp, synced |-> TRUE]
  BY Zenon, <1>1, <1>2
<1>4. /\ writer'.op = "publish" /\ writer'.id = writer.id /\ writer'.left = writer.left
      /\ writer'.tmp = writer.tmp /\ writer'.synced = TRUE
  BY Zenon, <1>3
<1>5. WriterTyped'
  BY Zenon, <1>0, <1>3, <1>4 DEF WriterTyped, Body
<1>6. ManagerTypes'
  BY Zenon, <1>1, <1>5, MapKept DEF ManagerInv, ManagerTypes
<1>7. Locked'
  BY Zenon, <1>0, <1>1, <1>4 DEF ManagerInv, Locked, Mgr!Rest
<1>8. SnapshotsWhole'
  BY <1>0, <1>1, <1>4 DEF ManagerInv, SnapshotsWhole, Mgr!ListedIsWhole, Body
<1> QED
  BY Zenon, <1>1, <1>6, <1>7, <1>8, MapKept DEF ManagerInv

LEMMA RenameBodyStep ==
  ASSUME Mgr!ConstantsOK, ManagerInv, Mgr!RenameBody
  PROVE  ManagerInv'
<1>0. /\ writer.op = "publish" /\ WriterTyped /\ writer # Mgr!Idle
      /\ writer.synced = TRUE /\ snap = [s \in Snaps |-> snap[s]]
      /\ writer.id \in Snaps /\ Body(writer.tmp) /\ SnapshotsWhole
  BY Zenon, IdleOp DEF ManagerInv, ManagerTypes, WriterTyped, SnapshotsWhole, Mgr!RenameBody
<1>1. /\ snap' = [snap EXCEPT ![writer.id] = writer.tmp]
      /\ unsynced' = unsynced
      /\ writer' = [writer EXCEPT !.op = "meta"]
      /\ UNCHANGED <<busy, Mgr!Rest>> /\ UNCHANGED <<meta, dropped>>
  BY Zenon, <1>0 DEF Mgr!RenameBody
<1>2. /\ snap' = [s \in Snaps |-> snap'[s]]
      /\ snap'[writer.id] = writer.tmp
      /\ \A s \in Snaps : s # writer.id => snap'[s] = snap[s]
  BY Zenon, <1>0, <1>1
<1>3. writer = [op |-> writer.op, id |-> writer.id, left |-> writer.left,
                tmp |-> writer.tmp, synced |-> writer.synced]
  BY Zenon, <1>0 DEF WriterTyped
<1>4. writer' = [op |-> "meta", id |-> writer.id, left |-> writer.left,
                 tmp |-> writer.tmp, synced |-> writer.synced]
  BY Zenon, <1>1, <1>3
<1>5. /\ writer'.op = "meta" /\ writer'.id = writer.id /\ writer'.left = writer.left
      /\ writer'.tmp = writer.tmp /\ writer'.synced = writer.synced
  BY Zenon, <1>4
<1>6. WriterTyped'
  BY Zenon, <1>0, <1>4, <1>5 DEF WriterTyped, Body
<1>7. ManagerTypes'
  BY Zenon, <1>1, <1>2, <1>6, MapKept DEF ManagerInv, ManagerTypes
<1>8. Locked'
  BY Zenon, <1>0, <1>1, <1>5 DEF ManagerInv, Locked, Mgr!Rest
<1>9. Mgr!ListedIsWhole'
  <2>1. \A s \in meta \ dropped : s # writer.id /\ s \in Snaps /\ snap[s] \notin {None, Torn}
    BY Zenon, <1>0 DEF SnapshotsWhole, Mgr!ListedIsWhole
  <2> QED
    BY Zenon, <1>1, <1>2, <2>1 DEF Mgr!ListedIsWhole
<1>10. \A s \in Snaps : snap'[s] \in {None, Torn} \/ Body(snap'[s])
  BY Zenon, <1>0, <1>2 DEF SnapshotsWhole
<1>11. SnapshotsWhole'
  <2>1. Body(snap'[writer'.id])
    BY Zenon, <1>0, <1>2, <1>5
  <2> QED
    BY <1>0, <1>1, <1>5, <1>9, <1>10, <2>1 DEF SnapshotsWhole, Body
<1> QED
  BY Zenon, <1>1, <1>7, <1>8, <1>11, MapKept DEF ManagerInv

LEMMA RenameMetaStep ==
  ASSUME Mgr!ConstantsOK, ManagerInv, Mgr!RenameMeta
  PROVE  ManagerInv'
<1>0. /\ writer.op = "meta" /\ writer # Mgr!Idle /\ writer.id \in Snaps
      /\ Body(snap[writer.id]) /\ SnapshotsWhole
  BY Zenon, IdleOp DEF ManagerInv, ManagerTypes, WriterTyped, SnapshotsWhole, Mgr!RenameMeta
<1>1. /\ meta' = meta \cup {writer.id}
      /\ writer' = Mgr!Idle /\ writer'.op = "none"
      /\ UNCHANGED <<busy, Mgr!Rest>> /\ UNCHANGED <<snap, unsynced, dropped>>
  BY Zenon, IdleOp DEF Mgr!RenameMeta, Mgr!Idle
<1>2. ManagerTypes'
  BY Zenon, <1>1, MapKept DEF ManagerInv, ManagerTypes, WriterTyped
<1>3. Locked'
  BY Zenon, <1>1 DEF ManagerInv, Locked, Mgr!Rest
<1>4. snap[writer.id] \notin {None, Torn}
  BY Zenon, <1>0 DEF Body, Mgr!ConstantsOK
<1>5. SnapshotsWhole'
  BY Zenon, <1>0, <1>1, <1>4 DEF SnapshotsWhole, Mgr!ListedIsWhole, Body
<1> QED
  BY Zenon, <1>1, <1>2, <1>3, <1>5, MapKept DEF ManagerInv

LEMMA DeleteSnapshotStep ==
  ASSUME Mgr!ConstantsOK, ManagerInv, NEW s \in Snaps, Mgr!DeleteSnapshot(s)
  PROVE  ManagerInv'
<1>0. snap = [t \in Snaps |-> snap[t]] /\ SnapshotsWhole /\ s \in meta
  BY Zenon DEF ManagerInv, ManagerTypes, Mgr!DeleteSnapshot
<1>1. /\ snap' = [snap EXCEPT ![s] = None] /\ dropped' = dropped \cup {s}
      /\ UNCHANGED <<busy, Mgr!Rest>> /\ UNCHANGED <<unsynced, meta, writer>>
  BY Zenon DEF Mgr!DeleteSnapshot
<1>2. /\ snap' = [t \in Snaps |-> snap'[t]]
      /\ snap'[s] = None /\ \A t \in Snaps : t # s => snap'[t] = snap[t]
  BY Zenon, <1>0, <1>1
<1>3. ManagerTypes'
  BY Zenon, <1>1, <1>2, MapKept DEF ManagerInv, ManagerTypes, WriterTyped, Body, Mgr!Idle
<1>4. Locked'
  BY Zenon, <1>1 DEF ManagerInv, Locked, Mgr!Rest, Mgr!Idle
<1>5. writer.op = "meta" => writer.id \in Snaps /\ writer.id # s
  BY Zenon, <1>0 DEF ManagerInv, ManagerTypes, WriterTyped, SnapshotsWhole
<1>6. writer.op = "meta" => Body(snap'[writer.id])
  BY Zenon, <1>0, <1>2, <1>5 DEF SnapshotsWhole
<1>7. /\ \A t \in Snaps : snap'[t] \in {None, Torn} \/ Body(snap'[t])
      /\ Mgr!ListedIsWhole'
  BY Zenon, <1>0, <1>1, <1>2 DEF SnapshotsWhole, Mgr!ListedIsWhole
<1>8. SnapshotsWhole'
  BY Zenon, <1>0, <1>1, <1>6, <1>7 DEF SnapshotsWhole, Body
<1> QED
  BY Zenon, <1>1, <1>3, <1>4, <1>8, MapKept DEF ManagerInv

LEMMA DeleteMetaStep ==
  ASSUME Mgr!ConstantsOK, ManagerInv, NEW s \in Snaps, Mgr!DeleteMeta(s)
  PROVE  ManagerInv'
<1>1. /\ meta' = meta \ {s}
      /\ UNCHANGED <<busy, Mgr!Rest>> /\ UNCHANGED <<snap, unsynced, dropped, writer>>
  BY Zenon DEF Mgr!DeleteMeta
<1>2. ManagerTypes'
  BY Zenon, <1>1, MapKept DEF ManagerInv, ManagerTypes, WriterTyped, Body, Mgr!Idle
<1>3. Locked'
  BY Zenon, <1>1 DEF ManagerInv, Locked, Mgr!Rest, Mgr!Idle
<1>4. SnapshotsWhole'
  BY Zenon, <1>1 DEF ManagerInv, SnapshotsWhole, Mgr!ListedIsWhole, Body
<1> QED
  BY Zenon, <1>1, <1>2, <1>3, <1>4, MapKept DEF ManagerInv

-----------------------------------------------------------------------------
(* Crash and restart.                                                        *)

\* What is in doubt when the process dies counts as disturbed from then on.
LEMMA DoubtTouched ==
  ASSUME BusyTyped
  PROVE  /\ InDoubt \subseteq Mgr!Touched
         /\ busy.op = "rename" => {busy.old, busy.name} \subseteq Mgr!Touched
<1>1. busy.op # "none" => busy # Mgr!Idle
  BY Zenon, IdleOp
<1>2. CASE busy.op = "none"
  BY Zenon, <1>2 DEF InDoubt
<1>3. CASE busy.op = "rename"
  BY Zenon, <1>1, <1>3 DEF InDoubt, Mgr!Touched
<1>4. CASE busy.op \in {"create", "delete"}
  BY Zenon, <1>1, <1>4 DEF InDoubt, Mgr!Touched
<1>5. CASE busy.op \in {"update", "restore"}
  BY Zenon, <1>5 DEF InDoubt
<1> QED
  BY Zenon, <1>2, <1>3, <1>4, <1>5 DEF BusyTyped

LEMMA CrashStep ==
  ASSUME Mgr!ConstantsOK, ManagerInv, Mgr!Crash
  PROVE  ManagerInv'
<1>0. /\ Mgr!TypeOK /\ BusyTyped /\ SnapshotsWhole /\ snap = [s \in Snaps |-> snap[s]]
  BY Zenon DEF ManagerInv, ManagerTypes
<1>1. PICK torn \in SUBSET Mgr!Touched :
        dirs' = [n \in Names |-> IF n \in torn THEN Bare ELSE dirs[n]]
  BY Zenon DEF Mgr!Crash
<1>2. /\ up' = FALSE /\ disturbed' = disturbed \cup Mgr!Touched
      /\ dropped \subseteq dropped'
      /\ busy' = Mgr!Idle /\ writer' = Mgr!Idle /\ busy'.op = "none" /\ writer'.op = "none"
      /\ UNCHANGED <<collections, configName, logging, walled, unsynced, meta, moved>>
  BY Zenon, IdleOp DEF Mgr!Crash
<1>3. snap' = snap
  <2>1. snap' = [s \in Snaps |-> IF s \in unsynced /\ snap[s] # None THEN Torn ELSE snap[s]]
    BY Zenon DEF Mgr!Crash
  <2>2. unsynced = {}
    BY Zenon, <1>0 DEF SnapshotsWhole
  <2> QED
    BY Zenon, <1>0, <2>1, <2>2
<1>4. ManagerTypes'
  <2>1. Mgr!TypeOK'
    BY Zenon, <1>0, <1>1, <1>2 DEF Mgr!TypeOK
  <2>2. BusyTyped' /\ WriterTyped'
    BY Zenon, <1>2 DEF BusyTyped, WriterTyped
  <2> QED
    BY Zenon, <1>0, <1>2, <1>3, <2>1, <2>2 DEF ManagerTypes
<1>5. Locked'
  BY Zenon, <1>2 DEF Locked
<1>6. SnapshotsWhole'
  BY Zenon, <1>0, <1>2, <1>3 DEF SnapshotsWhole, Mgr!ListedIsWhole, Body
<1>7. /\ InDoubt' = {} /\ InDoubt \subseteq Mgr!Touched
      /\ busy.op = "rename" => {busy.old, busy.name} \subseteq Mgr!Touched
      /\ disturbed \subseteq disturbed' /\ Mgr!Touched \subseteq disturbed'
  BY Zenon, <1>0, <1>2, DoubtTouched DEF InDoubt
<1>8. \A n \in Names : dirs'[n] = dirs[n] \/ (dirs'[n] = Bare /\ n \in disturbed')
  BY Zenon, <1>1, <1>7
<1>9. DirsNamed'
  <2>1. ASSUME NEW n \in Names, dirs'[n] \in Names \ {n}
        PROVE  {n, dirs'[n]} \subseteq disturbed'
    <3>1. dirs'[n] = dirs[n]
      BY Zenon, <1>8, <2>1 DEF Mgr!ConstantsOK
    <3> QED
      BY Zenon, <1>7, <2>1, <3>1 DEF ManagerInv, DirsNamed
  <2> QED
    BY Zenon, <2>1 DEF DirsNamed
<1>10. ConfigNamed'
  <2>1. busy.op = "rename" => {busy.old, busy.name} \subseteq moved
    BY Zenon DEF ManagerInv, InProgress
  <2>2. \A n \in Names : configName[n] = n \/ {n, configName[n]} \subseteq disturbed' \cap moved
    BY Zenon, <1>7, <2>1 DEF ManagerInv, ConfigNamed
  <2> QED
    BY Zenon, <1>2, <2>2 DEF ConfigNamed
<1>11. InProgress'
  BY Zenon, <1>2 DEF InProgress
<1>12. DirsMatch'
  BY Zenon, <1>2, <1>7, <1>8 DEF ManagerInv, DirsMatch
<1>13. LogMatches'
  BY Zenon, <1>2, <1>7, <1>8 DEF ManagerInv, LogMatches
<1> QED
  BY Zenon, <1>4, <1>5, <1>6, <1>9, <1>10, <1>11, <1>12, <1>13 DEF ManagerInv

LEMMA RecoverStep ==
  ASSUME Mgr!ConstantsOK, ManagerInv, Mgr!Recover
  PROVE  ManagerInv'
<1> DEFINE names == {dirs[d] : d \in {n \in Names : dirs[n] \in Names}}
<1>0. /\ Mgr!TypeOK /\ busy = Mgr!Idle /\ writer = Mgr!Idle
      /\ busy.op = "none" /\ writer.op = "none"
  BY Zenon, IdleOp DEF ManagerInv, ManagerTypes, Locked, Mgr!Recover
<1>1. /\ up' = TRUE
      /\ collections' = [n \in Names |-> IF n \in names THEN walled[n] ELSE None]
      /\ logging' = names
      /\ configName' = [n \in Names |-> n]
      /\ UNCHANGED <<dirs, walled, busy, writer, snap, unsynced, meta, dropped, disturbed, moved,
                     crashes>>
  BY Zenon DEF Mgr!Recover, Mgr!files
<1>2. names \subseteq Names /\ \A n : n \in names <=> \E d \in Names : dirs[d] = n /\ n \in Names
  BY Zenon
<1>3. InDoubt = {} /\ InDoubt' = {}
  BY Zenon, <1>0, <1>1 DEF InDoubt
<1> HIDE DEF names
<1>4. \A n \in Names \ disturbed : n \in names <=> dirs[n] = n
  BY Zenon, <1>0, <1>2 DEF ManagerInv, DirsNamed
<1>5. ManagerTypes'
  <2>1. Mgr!TypeOK'
    BY Zenon, <1>0, <1>1, <1>2 DEF Mgr!TypeOK
  <2> QED
    BY Zenon, <1>0, <1>1, <2>1, SnapshotsKept DEF ManagerInv, ManagerTypes, BusyTyped
<1>6. Locked'
  BY Zenon, <1>0, <1>1 DEF Locked
<1>7. DirsNamed'
  BY Zenon, <1>0, <1>1 DEF ManagerInv, DirsNamed
<1>8. ConfigNamed' /\ InProgress'
  BY Zenon, <1>0, <1>1 DEF ConfigNamed, InProgress
<1>9. \A n \in Names : collections'[n] # None <=> n \in names
  BY Zenon, <1>0, <1>1 DEF Mgr!TypeOK, Mgr!ConstantsOK
<1>10. DirsMatch'
  BY Zenon, <1>1, <1>3, <1>4, <1>9 DEF ManagerInv, DirsMatch
<1>11. LogMatches'
  BY Zenon, <1>1, <1>9 DEF ManagerInv, LogMatches
<1> QED
  BY Zenon, <1>1, <1>5, <1>6, <1>7, <1>8, <1>10, <1>11, SnapshotsKept DEF ManagerInv

LEMMA ManagerInitial == ASSUME Mgr!ConstantsOK, Mgr!Init PROVE ManagerInv
<1>0. /\ busy = Mgr!Idle /\ writer = Mgr!Idle /\ busy.op = "none" /\ writer.op = "none"
  BY Zenon, IdleOp DEF Mgr!Init
<1>1. ManagerTypes
  BY Zenon, <1>0 DEF Mgr!Init, ManagerTypes, Mgr!TypeOK, BusyTyped, WriterTyped
<1>2. Locked /\ SnapshotsWhole
  BY Zenon, <1>0 DEF Mgr!Init, Locked, SnapshotsWhole, Mgr!ListedIsWhole
<1>3. DirsNamed /\ ConfigNamed /\ InProgress
  BY Zenon, <1>0 DEF Mgr!Init, DirsNamed, ConfigNamed, InProgress, Mgr!ConstantsOK
<1>4. DirsMatch /\ LogMatches
  BY Zenon, <1>0 DEF Mgr!Init, DirsMatch, LogMatches, Mgr!ConstantsOK
<1> QED
  BY Zenon, <1>1, <1>2, <1>3, <1>4 DEF ManagerInv

LEMMA ManagerStep == ASSUME Mgr!ConstantsOK, ManagerInv, [Mgr!Next]_Mgr!vars PROVE ManagerInv'
<1>1. CASE UNCHANGED Mgr!vars
  <2>1. UNCHANGED <<writer, snap, unsynced, meta, dropped>> /\ UNCHANGED <<busy, Mgr!Rest>>
    BY Zenon, <1>1 DEF Mgr!vars, Mgr!Rest
  <2>2. Locked'
    BY Zenon, <2>1 DEF ManagerInv, Locked, Mgr!Rest, Mgr!Idle
  <2> QED
    BY Zenon, <2>1, <2>2, SnapshotsKept, MapKept DEF ManagerInv, ManagerTypes
<1>2. ASSUME NEW s \in Snaps, Mgr!Prune(s)
      PROVE ManagerInv'
  BY Zenon, <1>2, DeleteSnapshotStep DEF Mgr!Prune
<1> QED
  BY ZenonT(30), <1>1, <1>2, CreateStep, DeleteStep, UpdateConfigStep, CreateEndsStep, DeleteEndsStep,
     RenameEndsStep, UpdateEndsStep, RenameStep, InsertStep, CreateSnapshotStep,
     RestoreSnapshotStep, DeleteSnapshotStep, DeleteMetaStep, WriteCollectionStep, CancelStep,
     SyncStep, RenameBodyStep, RenameMetaStep, RestoreCollectionStep, RestoreEndsStep,
     CrashStep, RecoverStep DEF Mgr!Next

\* Create, Delete, Rename, UpdateConfig, RestoreSnapshot, Recover: whatever was
\* interrupted before, a restart brings back the collections that are there, under
\* their names, and those that nobody deleted, renamed or restored with their points.
THEOREM RestartBringsBack ==
  ASSUME Mgr!ConstantsOK PROVE Mgr!Spec => [](Mgr!TypeOK /\ Mgr!RestartKeepsCollections)
<1>1. Mgr!ConstantsOK
  BY Zenon
<1>2. Mgr!Init => ManagerInv
  BY Zenon, <1>1, ManagerInitial
<1>3. ManagerInv /\ [Mgr!Next]_Mgr!vars => ManagerInv'
  BY Zenon, <1>1, ManagerStep
<1>4. ManagerInv => Mgr!TypeOK /\ Mgr!RestartKeepsCollections
  <2> SUFFICES ASSUME ManagerInv PROVE Mgr!TypeOK /\ Mgr!RestartKeepsCollections
    BY Zenon
  <2>1. Mgr!TypeOK
    BY Zenon DEF ManagerInv, ManagerTypes
  <2>2. busy = Mgr!Idle => InDoubt = {}
    BY Zenon, IdleOp, NoneInDoubt
  <2> QED
    BY Zenon, <2>1, <2>2 DEF ManagerInv, DirsMatch, LogMatches, Mgr!RestartKeepsCollections, Mgr!Exists
<1> QED
  BY <1>2, <1>3, <1>4, PTL DEF Mgr!Spec

\* SnapshotWriter.Finish, DeleteSnapshot, Prune: a snapshot with a .meta file that
\* nobody began to delete has its body, whatever crash came in between.
THEOREM ListedSnapshotsWhole == ASSUME Mgr!ConstantsOK PROVE Mgr!Spec => []Mgr!ListedIsWhole
<1>1. Mgr!ConstantsOK
  BY Zenon
<1>2. Mgr!Init => ManagerInv
  BY Zenon, <1>1, ManagerInitial
<1>3. ManagerInv /\ [Mgr!Next]_Mgr!vars => ManagerInv'
  BY Zenon, <1>1, ManagerStep
<1>4. ManagerInv => Mgr!ListedIsWhole
  BY Zenon DEF ManagerInv, SnapshotsWhole
<1> QED
  BY <1>2, <1>3, <1>4, PTL DEF Mgr!Spec

-----------------------------------------------------------------------------
(* Aliases.                                                                  *)

CONSTANTS Aliases, Collections, MaxChanges

VARIABLES aliases, file, saving, promised, failed, changes

Als == INSTANCE Aliases

Naming == [Aliases -> Collections \cup {None}]

\* Between two changes of which the last was saved, the map in memory and the
\* file say what was promised.
AliasInv ==
  /\ Als!TypeOK /\ promised \in Naming
  /\ up \in BOOLEAN /\ saving \in BOOLEAN /\ failed \in BOOLEAN
  /\ ~saving /\ ~failed =>
       /\ file # Torn
       /\ promised = IF file = None THEN Als!Unnamed ELSE file
       /\ up => aliases = promised

LEMMA ChangeKeeps ==
  ASSUME AliasInv, NEW to \in Naming, Als!Change(to)
  PROVE  AliasInv'
  BY Zenon DEF AliasInv, Als!Change, Als!TypeOK, Naming

LEMMA AliasStep == ASSUME Als!ConstantsOK, AliasInv, [Als!Next]_Als!vars PROVE AliasInv'
<1>0. aliases \in Naming
  BY Zenon DEF AliasInv, Als!TypeOK, Naming
<1>1. CASE UNCHANGED Als!vars
  BY Zenon, <1>1 DEF AliasInv, Als!vars, Als!TypeOK, Naming, Als!Unnamed
<1>2. ASSUME NEW a \in Aliases, NEW c \in Collections, Als!Create(a, c) \/ Als!Switch(a, c)
      PROVE AliasInv'
  <2>1. [aliases EXCEPT ![a] = c] \in Naming
    BY Zenon, <1>0 DEF Naming
  <2> QED
    BY Zenon, <1>2, <2>1, ChangeKeeps DEF Als!Create, Als!Switch
<1>3. ASSUME NEW a \in Aliases, Als!Delete(a)
      PROVE AliasInv'
  <2>1. [aliases EXCEPT ![a] = None] \in Naming
    BY Zenon, <1>0 DEF Naming
  <2> QED
    BY Zenon, <1>3, <2>1, ChangeKeeps DEF Als!Delete
<1>4. ASSUME NEW c \in Collections, NEW d \in Collections, Als!Rename(c, d)
      PROVE AliasInv'
  <2>1. [a \in Aliases |-> IF aliases[a] = c THEN d ELSE aliases[a]] \in Naming
    BY Zenon, <1>0 DEF Naming
  <2> QED
    BY Zenon, <1>4, <2>1, ChangeKeeps DEF Als!Rename
<1>5. ASSUME NEW c \in Collections, Als!DeleteForCollection(c)
      PROVE AliasInv'
  <2>1. [a \in Aliases |-> IF aliases[a] = c THEN None ELSE aliases[a]] \in Naming
    BY Zenon, <1>0 DEF Naming
  <2> QED
    BY Zenon, <1>5, <2>1, ChangeKeeps DEF Als!DeleteForCollection
<1>6. ASSUME NEW written \in BOOLEAN, Als!Save(written)
      PROVE AliasInv'
  BY Zenon, <1>0, <1>6 DEF AliasInv, Als!Save, Als!TypeOK, Naming, Als!ConstantsOK
<1>7. CASE Als!Crash
  BY Zenon, <1>7 DEF AliasInv, Als!Crash, Als!TypeOK, Als!Unnamed
<1>8. CASE Als!Load
  BY Zenon, <1>8 DEF AliasInv, Als!Load, Als!TypeOK, Naming, Als!Unnamed
<1> QED
  BY Zenon, <1>1, <1>2, <1>3, <1>4, <1>5, <1>6, <1>7, <1>8 DEF Als!Next

\* AliasManager: between two changes an alias resolves to what the last call that
\* returned without an error gave it, also after a restart, unless a save failed or
\* was cut short since.
THEOREM AliasesSurvive ==
  ASSUME Als!ConstantsOK PROVE Als!Spec => [](Als!TypeOK /\ Als!AliasesPersist)
<1>1. Als!ConstantsOK
  BY Zenon
<1>2. Als!NewAliasManager => AliasInv
  BY Zenon, <1>1 DEF Als!NewAliasManager, AliasInv, Als!TypeOK, Als!Unnamed, Naming, Als!ConstantsOK
<1>3. AliasInv /\ [Als!Next]_Als!vars => AliasInv'
  BY Zenon, <1>1, AliasStep
<1>4. AliasInv => Als!TypeOK /\ Als!AliasesPersist
  BY Zenon, <1>1 DEF AliasInv, Als!AliasesPersist, Als!Resolve, Als!ConstantsOK
<1> QED
  BY <1>2, <1>3, <1>4, PTL DEF Als!Spec

-----------------------------------------------------------------------------
(* The graph file.  Where blocks and lists lie.                              *)

CONSTANTS M, MaxLevel, GraphHeaderSize, InitialNodes, MaxNodes, MaxSets

VARIABLES words, mapped, NumNodes, added, lists, sets

Gph == INSTANCE GraphFile

LEMMA Times ==
  ASSUME NEW a \in Nat, NEW b \in Nat, NEW k \in Nat, a < b
  PROVE  a * k \in Nat /\ b * k \in Nat /\ a * k + k <= b * k
<1>1. PICK d \in Nat : b = a + 1 + d
  <2>1. b - a - 1 \in Nat /\ b = a + 1 + (b - a - 1)
    OBVIOUS
  <2> QED
    BY Zenon, <2>1
<1>2. (a + 1 + d) * k = a * k + k + d * k
  BY SMT
<1>3. a * k \in Nat /\ b * k \in Nat /\ d * k \in Nat
  BY SMT
<1> QED
  BY <1>1, <1>2, <1>3

Stride == Gph!NodeStride

LEMMA Blocks ==
  ASSUME Gph!ConstantsOK
  PROVE  /\ Stride \in Nat \ {0}
         /\ \A n \in Nat : Gph!At(n) \in Nat /\ Gph!At(n) >= GraphHeaderSize
         /\ \A n \in Nat : Gph!At(n + 1) = Gph!At(n) + Stride
         /\ \A m, n \in Nat : m < n => Gph!At(m) + Stride <= Gph!At(n)
<1>0. M \in Nat /\ MaxLevel \in Nat /\ GraphHeaderSize \in Nat
  BY Zenon DEF Gph!ConstantsOK
<1>1. 2 * M \in Nat /\ MaxLevel * M \in Nat
  BY <1>0, SMT
<1>2. Stride \in Nat \ {0}
  BY <1>0, <1>1 DEF Stride, Gph!NodeStride
<1>3. \A n \in Nat : n * Stride \in Nat
  BY SMTT(30), <1>2, SMT
<1>4. \A n \in Nat : Gph!At(n) = GraphHeaderSize + n * Stride
  BY Zenon DEF Gph!At, Stride
<1>5. \A n \in Nat : Gph!At(n) \in Nat /\ Gph!At(n) >= GraphHeaderSize
  BY <1>0, <1>3, <1>4
<1>6. \A n \in Nat : (n + 1) * Stride = n * Stride + Stride
  BY SMTT(30), <1>2, SMT
<1>7. \A n \in Nat : Gph!At(n + 1) = Gph!At(n) + Stride
  BY SMTT(30), <1>0, <1>2, <1>3, <1>4, <1>6
<1>8. \A m, n \in Nat : m < n => m * Stride + Stride <= n * Stride
  BY Zenon, <1>2, Times
<1>9. \A m, n \in Nat : m < n => Gph!At(m) + Stride <= Gph!At(n)
  BY SMTT(30), <1>0, <1>2, <1>3, <1>4, <1>8
<1> QED
  BY Zenon, <1>2, <1>5, <1>7, <1>9

\* Within a block: the level, the counts, the lists, each in its place.
LEMMA Lists ==
  ASSUME Gph!ConstantsOK, NEW n \in Nat, NEW layer \in 0..MaxLevel
  PROVE  /\ Gph!CountAt(n, layer) \in Gph!At(n) + 1 .. Gph!At(n) + 1 + MaxLevel
         /\ Gph!Room(layer) \in Nat
         /\ Gph!ListAt(n, layer) \in Nat
         /\ Gph!ListAt(n, layer) >= Gph!At(n) + 2 + MaxLevel
         /\ Gph!ListAt(n, layer) + Gph!Room(layer) <= Gph!At(n) + Stride
         /\ \A above \in layer + 1 .. MaxLevel :
              Gph!ListAt(n, layer) + Gph!Room(layer) <= Gph!ListAt(n, above)
<1>0. /\ M \in Nat /\ MaxLevel \in Nat /\ Gph!At(n) \in Nat /\ layer \in Nat
      /\ layer <= MaxLevel
  <2>1. M \in Nat /\ MaxLevel \in Nat
    BY Zenon DEF Gph!ConstantsOK
  <2>2. Gph!At(n) \in Nat
    BY Zenon, Blocks
  <2> QED
    BY SMTT(30), <2>1, <2>2
<1> DEFINE Before(l) == IF l > 0 THEN 2 * M + (l - 1) * M ELSE 0
<1>1. \A l \in 0..MaxLevel : Gph!ListAt(n, l) = Gph!At(n) + 2 + MaxLevel + Before(l)
  <2> SUFFICES ASSUME NEW l \in 0..MaxLevel
               PROVE Gph!ListAt(n, l) = Gph!At(n) + 2 + MaxLevel + Before(l)
    BY Zenon
  <2>1. 2 * M \in Nat /\ (l > 0 => (l - 1) * M \in Nat)
    BY <1>0, SMT
  <2> QED
    BY <1>0, <2>1 DEF Gph!ListAt
<1>2. \A l \in 0..MaxLevel : Before(l) \in Nat
  BY <1>0, SMT
<1>3. Stride = 2 + MaxLevel + 2 * M + MaxLevel * M
  BY <1>0 DEF Stride, Gph!NodeStride
<1>4. \A l \in 0..MaxLevel : Gph!Room(l) = IF l = 0 THEN 2 * M ELSE M
  BY Zenon DEF Gph!Room
<1>5. Gph!Room(layer) \in Nat
  BY SMTT(30), <1>0, <1>4
<1>6. \A l \in 0..MaxLevel : l > layer => Before(layer) + Gph!Room(layer) <= Before(l)
  <2> SUFFICES ASSUME NEW l \in 0..MaxLevel, l > layer
               PROVE Before(layer) + Gph!Room(layer) <= Before(l)
    BY Zenon
  <2>1. CASE layer = 0
    <3>1. (l - 1) * M \in Nat /\ 2 * M \in Nat
      BY <1>0, SMT
    <3> QED
      BY SMTT(30), <1>0, <1>4, <2>1, <3>1
  <2>2. CASE layer > 0
    <3>1. (layer - 1) * M \in Nat /\ (l - 1) * M \in Nat /\ (layer - 1) * M + M <= (l - 1) * M
      BY <1>0, <2>2, Times
    <3>2. 2 * M \in Nat
      BY <1>0
    <3> QED
      BY SMTT(30), <1>0, <1>4, <2>2, <3>1, <3>2
  <2> QED
    BY <1>0, <2>1, <2>2
<1>7. Before(layer) + Gph!Room(layer) <= 2 * M + MaxLevel * M
  <2>1. 2 * M \in Nat /\ MaxLevel * M \in Nat
    BY SMTT(30), <1>0, SMT
  <2>2. CASE layer = 0
    BY SMTT(30), <1>0, <1>4, <2>1, <2>2
  <2>3. CASE layer > 0
    <3>1. (layer - 1) * M \in Nat /\ (layer - 1) * M + M <= MaxLevel * M
      BY SMTT(30), <1>0, <2>3, Times
    <3> QED
      BY SMTT(30), <1>0, <1>4, <2>1, <2>3, <3>1
  <2> QED
    BY <1>0, <2>2, <2>3
<1> HIDE DEF Before
<1>8. Gph!ListAt(n, layer) + Gph!Room(layer) <= Gph!At(n) + Stride
  <2>1. 2 * M \in Nat /\ MaxLevel * M \in Nat
    BY SMTT(30), <1>0
  <2> QED
    BY SMTT(30), <1>0, <1>1, <1>2, <1>3, <1>5, <1>7, <2>1
<1>9. \A above \in layer + 1 .. MaxLevel :
        Gph!ListAt(n, layer) + Gph!Room(layer) <= Gph!ListAt(n, above)
  BY SMTT(30), <1>0, <1>1, <1>2, <1>5, <1>6
<1> QED
  BY SMTT(30), <1>0, <1>1, <1>2, <1>5, <1>8, <1>9 DEF Gph!CountAt


-----------------------------------------------------------------------------
(* The inductive invariant of the graph file.                                *)

\* The words w hold the list l for the node and the layer.
ReadsAs(w, node, layer, l) ==
  /\ layer \in 0 .. w[Gph!At(node) + 1]
  /\ w[Gph!CountAt(node, layer) + 1] \in 0 .. Gph!Room(layer)
  /\ l = [i \in 1 .. w[Gph!CountAt(node, layer) + 1] |-> w[Gph!ListAt(node, layer) + i]]

\* A block of a node that was added lies in the file and begins with a level.
BlockIn(w, node) ==
  /\ Gph!At(node) + Stride <= Len(w)
  /\ w[Gph!At(node) + 1] \in 0 .. MaxLevel

Pair(x) == x = <<x[1], x[2]>>

GraphInv ==
  /\ Gph!TypeOK
  /\ words[1] = NumNodes
  /\ \A node \in 0 .. added - 1 : BlockIn(words, node)
  /\ \A x \in DOMAIN lists : Pair(x)
  /\ \A x \in DOMAIN lists : x[1] \in 0 .. added - 1 /\ ReadsAs(words, x[1], x[2], lists[x])

\* A list stays when its node's level, its count and its room do.
LEMMA ListStays ==
  ASSUME Gph!ConstantsOK, NEW node \in Nat, NEW layer, NEW l, NEW w, NEW v,
         ReadsAs(w, node, layer, l), w[Gph!At(node) + 1] \in 0 .. MaxLevel,
         v[Gph!At(node) + 1] = w[Gph!At(node) + 1],
         v[Gph!CountAt(node, layer) + 1] = w[Gph!CountAt(node, layer) + 1],
         \A i \in 1 .. Gph!Room(layer) :
           v[Gph!ListAt(node, layer) + i] = w[Gph!ListAt(node, layer) + i]
  PROVE  ReadsAs(v, node, layer, l)
<1>1. layer \in 0 .. MaxLevel
  BY SMTT(30) DEF ReadsAs, Gph!ConstantsOK
<1>2. Gph!Room(layer) \in Nat
  BY Zenon, <1>1, Lists
<1>3. w[Gph!CountAt(node, layer) + 1] \in 0 .. Gph!Room(layer)
  BY Zenon DEF ReadsAs
<1>4. 1 .. w[Gph!CountAt(node, layer) + 1] \subseteq 1 .. Gph!Room(layer)
  BY <1>2, <1>3
<1> QED
  BY ZenonT(30), <1>3, <1>4 DEF ReadsAs


LEMMA WithinBlock ==
  ASSUME Gph!ConstantsOK, NEW n \in Nat, NEW layer \in 0..MaxLevel
  PROVE  /\ Gph!At(n) + 1 \in Gph!At(n) + 1 .. Gph!At(n) + Stride
         /\ Gph!CountAt(n, layer) + 1 \in Gph!At(n) + 1 .. Gph!At(n) + Stride
         /\ \A i \in 1 .. Gph!Room(layer) :
              Gph!ListAt(n, layer) + i \in Gph!At(n) + 1 .. Gph!At(n) + Stride
<1>1. MaxLevel \in Nat /\ Gph!At(n) \in Nat /\ Stride \in Nat \ {0}
  BY Zenon, Blocks DEF Gph!ConstantsOK
<1>2. /\ Gph!CountAt(n, layer) \in Gph!At(n) + 1 .. Gph!At(n) + 1 + MaxLevel
      /\ Gph!Room(layer) \in Nat /\ Gph!ListAt(n, layer) \in Nat
      /\ Gph!ListAt(n, layer) >= Gph!At(n) + 2 + MaxLevel
      /\ Gph!ListAt(n, layer) + Gph!Room(layer) <= Gph!At(n) + Stride
  BY Zenon, Lists
<1>3. Gph!At(n) + 1 \in Gph!At(n) + 1 .. Gph!At(n) + Stride
  BY <1>1
<1>4. Gph!CountAt(n, layer) + 1 \in Gph!At(n) + 1 .. Gph!At(n) + Stride
  BY SMTT(30), <1>1, <1>2
<1>5. ASSUME NEW i \in 1 .. Gph!Room(layer)
      PROVE  Gph!ListAt(n, layer) + i \in Gph!At(n) + 1 .. Gph!At(n) + Stride
  <2>1. i \in Nat /\ 1 <= i /\ i <= Gph!Room(layer)
    BY <1>2
  <2> QED
    BY SMTT(30), <1>1, <1>2, <2>1
<1> QED
  BY Zenon, <1>3, <1>4, <1>5

\* AddNode keeps what is in the file and writes the level of a new block.
LEMMA GrownKeeps ==
  ASSUME Gph!ConstantsOK, GraphInv
  PROVE  /\ Gph!Grown(added) \in Seq(Nat)
         /\ Len(Gph!Grown(added)) >= Len(words)
         /\ Len(Gph!Grown(added)) >= Gph!At(added) + Stride
         /\ \A i \in 1 .. Len(words) : Gph!Grown(added)[i] = words[i]
<1> DEFINE required == GraphHeaderSize + (added + 1) * Stride
           more == (IF 2 * Len(words) < required THEN required ELSE 2 * Len(words)) - Len(words)
<1>1. words \in Seq(Nat) /\ added \in Nat /\ Len(words) \in Nat
  BY DEF GraphInv, Gph!TypeOK, Gph!ConstantsOK
<1>2. required \in Nat /\ required = Gph!At(added) + Stride
  <2>1. Gph!At(added + 1) = required
    BY Zenon DEF Gph!At, Stride
  <2>2. added + 1 \in Nat
    BY <1>1
  <2> QED
    BY Zenon, <1>1, <2>1, <2>2, Blocks
<1>3. Gph!Grown(added) = IF required <= Len(words) THEN words ELSE words \o Gph!Zeros(more)
  BY Zenon DEF Gph!Grown, Gph!Size, Stride
<1> HIDE DEF required
<1>4. CASE required <= Len(words)
  BY SMTT(30), <1>1, <1>2, <1>3, <1>4
<1>5. CASE ~(required <= Len(words))
  <2>1. more \in Nat /\ Len(words) + more >= required
    BY SMTT(30), <1>1, <1>2, <1>5
  <2> HIDE DEF more
  <2>2. Gph!Zeros(more) \in Seq(Nat) /\ Len(Gph!Zeros(more)) = more
    BY SMTT(30), <2>1 DEF Gph!Zeros
  <2> QED
    BY SMTT(30), <1>1, <1>2, <1>3, <1>5, <2>1, <2>2
<1> QED
  BY Zenon, <1>4, <1>5

LEMMA AddNodeKeeps == ASSUME Gph!ConstantsOK, GraphInv, Gph!AddNode PROVE GraphInv'
<1> DEFINE g == Gph!Grown(added)
           at == Gph!At(added) + 1
           count == IF added >= NumNodes THEN added + 1 ELSE NumNodes
<1>0. words \in Seq(Nat) /\ words[1] = NumNodes
  BY Zenon DEF GraphInv, Gph!TypeOK
<1>1. /\ Len(words) \in Nat /\ Len(words) >= GraphHeaderSize
      /\ GraphHeaderSize \in Nat /\ GraphHeaderSize >= 1 /\ MaxLevel \in Nat /\ MaxNodes \in Nat
      /\ NumNodes \in Nat /\ NumNodes <= MaxNodes /\ added \in Nat /\ added < MaxNodes
  BY <1>0, SMTT(40) DEF GraphInv, Gph!TypeOK, Gph!ConstantsOK, Gph!AddNode
<1>2. /\ g \in Seq(Nat) /\ Len(g) >= Len(words) /\ Len(g) >= Gph!At(added) + Stride
      /\ \A i \in 1 .. Len(words) : g[i] = words[i]
  BY Zenon, GrownKeeps
<1>2a. Len(g) \in Nat
  BY <1>2
<1> HIDE DEF g
<1>3. PICK level \in 0 .. MaxLevel :
        words' = [g EXCEPT ![at] = level, ![1] = IF added >= NumNodes THEN added + 1 ELSE @]
  BY Zenon DEF Gph!AddNode, g
<1>4. /\ Stride \in Nat /\ Stride >= 1
      /\ Gph!At(added) \in Nat /\ Gph!At(added) >= GraphHeaderSize
  <2>1. Stride \in Nat \ {0} /\ Gph!At(added) \in Nat /\ Gph!At(added) >= GraphHeaderSize
    BY Zenon, <1>1, Blocks
  <2> QED
    BY <2>1
<1>5. at \in 2 .. Len(g) /\ 1 \in 1 .. Len(g)
  <2>1. Len(g) >= Len(words) /\ Len(g) >= Gph!At(added) + Stride
    BY Zenon, <1>2
  <2>2. at \in Nat /\ at >= 2 /\ at <= Len(g) /\ 1 <= Len(g)
    BY SMTT(30), <1>1, <1>2a, <1>4, <2>1
  <2> HIDE DEF at
  <2> QED
    BY <1>2a, <2>2
<1>6. g[1] = NumNodes
  <2>1. 1 \in 1 .. Len(words)
    BY <1>1
  <2> QED
    BY Zenon, <1>0, <1>2, <2>1
<1> HIDE DEF at
<1>7. /\ words' \in Seq(Nat) /\ Len(words') = Len(g)
      /\ words'[at] = level /\ words'[1] = count
      /\ \A i \in 2 .. Len(g) : i # at => words'[i] = g[i]
  <2>1. /\ words' = [i \in 1 .. Len(g) |-> IF i = 1 THEN count ELSE IF i = at THEN level ELSE g[i]]
    <3>1. DOMAIN g = 1 .. Len(g) /\ g = [i \in 1 .. Len(g) |-> g[i]]
      BY <1>2
    <3>2. [g EXCEPT ![at] = level][1] = NumNodes
      BY SMTT(30), <1>5, <1>6, <3>1
    <3>3. words' = [[g EXCEPT ![at] = level] EXCEPT ![1] = count]
      BY ZenonT(30), <1>3, <1>5, <1>6, <3>1, <3>2
    <3>4. [g EXCEPT ![at] = level] = [i \in 1 .. Len(g) |-> IF i = at THEN level ELSE g[i]]
      BY Zenon, <3>1
    <3> HIDE DEF count
    <3> QED
      BY Zenon, <3>3, <3>4
  <2>2. count \in Nat /\ level \in Nat /\ \A i \in 1 .. Len(g) : g[i] \in Nat
    BY SMTT(30), <1>1, <1>2
  <2>3. \A i \in 1 .. Len(g) : (IF i = 1 THEN count ELSE IF i = at THEN level ELSE g[i]) \in Nat
    BY Zenon, <2>2
  <2> HIDE DEF count
  <2>4. words' \in Seq(Nat) /\ Len(words') = Len(g)
    BY SMTT(30), <1>2a, <2>1, <2>3
  <2>5. /\ 1 \in 1 .. Len(g) /\ at \in 1 .. Len(g) /\ at # 1
        /\ \A i \in 2 .. Len(g) : i \in 1 .. Len(g) /\ i # 1
    BY <1>2a, <1>5
  <2> QED
    BY Zenon, <2>1, <2>4, <2>5
<1>8. NumNodes' = count /\ added' = added + 1 /\ UNCHANGED <<mapped, lists, sets>>
  BY Zenon DEF Gph!AddNode
<1>9. ASSUME NEW node \in 0 .. added - 1, NEW i \in Gph!At(node) + 1 .. Gph!At(node) + Stride
      PROVE words'[i] = words[i] /\ i \in 1 .. Len(words)
  <2>1. node \in Nat /\ added \in Nat /\ node < added
    BY <1>1
  <2>2. /\ Gph!At(node) \in Nat /\ Gph!At(node) >= GraphHeaderSize
        /\ Gph!At(node) + Stride <= Gph!At(added)
    BY Zenon, <2>1, Blocks
  <2>3. Gph!At(node) + Stride <= Len(words)
    BY Zenon DEF GraphInv, BlockIn
  <2>4. i \in 2 .. Len(words) /\ i # at
    BY SMTT(30), <1>1, <1>4, <2>1, <2>2, <2>3 DEF at
  <2>5. i \in 2 .. Len(g) /\ i \in 1 .. Len(words)
    BY SMTT(30), <1>1, <1>2, <1>2a, <2>4
  <2> QED
    BY ZenonT(30), <1>2, <1>7, <2>4, <2>5
<1>10. Gph!TypeOK'
  <2>1. count \in 0 .. MaxNodes /\ added + 1 \in 0 .. MaxNodes
    BY SMTT(30), <1>1
  <2>2. Len(words') >= GraphHeaderSize
    BY SMTT(30), <1>1, <1>2, <1>7
  <2>3. mapped' \in BOOLEAN
    BY Zenon, <1>8 DEF GraphInv, Gph!TypeOK
  <2> QED
    BY Zenon, <1>7, <1>8, <2>1, <2>2, <2>3 DEF Gph!TypeOK
<1>11. \A node \in 0 .. added' - 1 : BlockIn(words', node)
  <2> SUFFICES ASSUME NEW node \in 0 .. added' - 1 PROVE BlockIn(words', node)
    BY Zenon
  <2>1. CASE node = added
    BY Zenon, <1>2, <1>7, <2>1 DEF BlockIn, at
  <2>2. CASE node # added
    <3>1. node \in 0 .. added - 1 /\ node \in Nat
      BY SMTT(30), <1>1, <1>8, <2>2
    <3>2. Gph!At(node) \in Nat
      BY Zenon, <3>1, Blocks
    <3>3. Gph!At(node) + 1 \in Gph!At(node) + 1 .. Gph!At(node) + Stride
      BY SMTT(30), <1>4, <3>2
    <3>4. BlockIn(words, node)
      BY Zenon, <3>1 DEF GraphInv
    <3>5. words'[Gph!At(node) + 1] = words[Gph!At(node) + 1]
      BY Zenon, <1>9, <3>1, <3>3
    <3>6. Gph!At(node) + Stride <= Len(words) /\ Len(words') = Len(g)
      BY ZenonT(30), <1>7, <3>4 DEF BlockIn
    <3>7. Gph!At(node) + Stride <= Len(words')
      BY SMTT(30), <1>1, <1>2, <1>2a, <1>4, <3>2, <3>6
    <3> QED
      BY ZenonT(30), <3>4, <3>5, <3>7 DEF BlockIn
  <2> QED
    BY Zenon, <2>1, <2>2
<1>12. ASSUME NEW x \in DOMAIN lists
       PROVE  x[1] \in 0 .. added /\ ReadsAs(words', x[1], x[2], lists[x])
  <2>1. x[1] \in 0 .. added - 1 /\ ReadsAs(words, x[1], x[2], lists[x])
    BY Zenon DEF GraphInv
  <2>2. x[1] \in Nat /\ x[1] \in 0 .. added
    BY <1>1, <2>1, SMTT(40)
  <2>3. words[Gph!At(x[1]) + 1] \in 0 .. MaxLevel
    BY ZenonT(30), <2>1 DEF GraphInv, BlockIn
  <2>4. x[2] \in 0 .. MaxLevel
    BY <1>1, <2>1, <2>3, SMTT(40) DEF ReadsAs
  <2>5. /\ Gph!At(x[1]) + 1 \in Gph!At(x[1]) + 1 .. Gph!At(x[1]) + Stride
        /\ Gph!CountAt(x[1], x[2]) + 1 \in Gph!At(x[1]) + 1 .. Gph!At(x[1]) + Stride
        /\ \A i \in 1 .. Gph!Room(x[2]) :
             Gph!ListAt(x[1], x[2]) + i \in Gph!At(x[1]) + 1 .. Gph!At(x[1]) + Stride
    BY ZenonT(30), <2>2, <2>4, WithinBlock
  <2> QED
    BY ZenonT(30), <1>9, <2>1, <2>2, <2>3, <2>5, ListStays
<1>13. \A x \in (DOMAIN lists)' :
         x[1] \in 0 .. added' - 1 /\ ReadsAs(words', x[1], x[2], lists'[x])
  BY <1>1, <1>8, <1>12, SMTT(40)
<1> QED
  BY Zenon, <1>7, <1>8, <1>10, <1>11, <1>13 DEF GraphInv


\* What SetConnections writes for a list is neither in the block of another node
\* nor the level, the count or the list of another layer of the same node.
Written(node, layer) ==
  {Gph!CountAt(node, layer) + 1} \cup {Gph!ListAt(node, layer) + i : i \in 1 .. Gph!Room(layer)}

LEMMA OtherBlock ==
  ASSUME Gph!ConstantsOK, NEW node \in Nat, NEW layer \in 0 .. MaxLevel,
         NEW m \in Nat, m # node, NEW i \in Gph!At(m) + 1 .. Gph!At(m) + Stride
  PROVE  i \notin Written(node, layer)
<1>1. Stride \in Nat /\ Gph!At(m) \in Nat /\ Gph!At(node) \in Nat
  BY Zenon, Blocks
<1>2. Gph!At(m) + Stride <= Gph!At(node) \/ Gph!At(node) + Stride <= Gph!At(m)
  BY Blocks
<1>3. i \notin Gph!At(node) + 1 .. Gph!At(node) + Stride
  BY <1>1, <1>2
<1> QED
  BY Zenon, <1>3, WithinBlock DEF Written

LEMMA OtherLayer ==
  ASSUME Gph!ConstantsOK, NEW node \in Nat, NEW layer \in 0 .. MaxLevel,
         NEW l \in 0 .. MaxLevel
  PROVE  /\ Gph!At(node) + 1 \notin Written(node, layer)
         /\ l # layer => /\ Gph!CountAt(node, l) + 1 \notin Written(node, layer)
                         /\ \A i \in 1 .. Gph!Room(l) :
                              Gph!ListAt(node, l) + i \notin Written(node, layer)
<1>1. MaxLevel \in Nat /\ Gph!At(node) \in Nat /\ layer \in Nat /\ l \in Nat
  <2>1. MaxLevel \in Nat
    BY Zenon DEF Gph!ConstantsOK
  <2> QED
    BY <2>1, Blocks, SMTT(40)
<1> DEFINE In(k) == /\ Gph!CountAt(node, k) = Gph!At(node) + 1 + k
                    /\ Gph!Room(k) \in Nat /\ Gph!ListAt(node, k) \in Nat
                    /\ Gph!ListAt(node, k) >= Gph!At(node) + 2 + MaxLevel
<1>2. In(layer) /\ In(l)
  BY Zenon, Lists DEF Gph!CountAt
<1>3. /\ l < layer => Gph!ListAt(node, l) + Gph!Room(l) <= Gph!ListAt(node, layer)
      /\ layer < l => Gph!ListAt(node, layer) + Gph!Room(layer) <= Gph!ListAt(node, l)
  <2>1. /\ l < layer => layer \in l + 1 .. MaxLevel
        /\ layer < l => l \in layer + 1 .. MaxLevel
    BY <1>1
  <2> QED
    BY Zenon, <2>1, Lists
<1>4. ASSUME NEW i \in 1 .. Gph!Room(layer)
      PROVE  /\ Gph!At(node) + 1 # Gph!ListAt(node, layer) + i
             /\ Gph!CountAt(node, l) + 1 # Gph!ListAt(node, layer) + i
  BY SMTT(30), <1>1, <1>2
<1>5. Gph!At(node) + 1 \notin Written(node, layer)
  BY SMTT(30), <1>1, <1>2, <1>4 DEF Written
<1>6. ASSUME l # layer
      PROVE Gph!CountAt(node, l) + 1 \notin Written(node, layer)
  BY SMTT(30), <1>1, <1>2, <1>4, <1>6 DEF Written
<1>7. ASSUME l # layer, NEW i \in 1 .. Gph!Room(l)
      PROVE Gph!ListAt(node, l) + i \notin Written(node, layer)
  <2>1. Gph!ListAt(node, l) + i # Gph!CountAt(node, layer) + 1
    BY SMTT(30), <1>1, <1>2
  <2>2. ASSUME NEW j \in 1 .. Gph!Room(layer)
        PROVE  Gph!ListAt(node, l) + i # Gph!ListAt(node, layer) + j
    <3>1. l < layer \/ layer < l
      BY SMTT(30), <1>1, <1>7
    <3> QED
      BY SMTT(30), <1>1, <1>2, <1>3, <3>1
  <2> QED
    BY Zenon, <2>1, <2>2 DEF Written
<1> QED
  BY Zenon, <1>5, <1>6, <1>7


LEMMA Positions ==
  ASSUME Gph!ConstantsOK, NEW node \in Nat, NEW layer \in 0 .. MaxLevel,
         NEW size \in Nat, Gph!At(node) + Stride <= size
  PROVE  /\ Gph!At(node) + 1 .. Gph!At(node) + Stride \subseteq 2 .. size
         /\ Gph!Room(layer) \in Nat /\ Gph!ListAt(node, layer) \in Nat
         /\ \A n \in 0 .. Gph!Room(layer) : \A i \in 1 .. n :
              /\ i \in 1 .. Gph!Room(layer)
              /\ Gph!ListAt(node, layer) + i # Gph!CountAt(node, layer) + 1
              /\ Gph!ListAt(node, layer) + i - 1 \in
                   Gph!ListAt(node, layer) .. Gph!ListAt(node, layer) + n - 1
         /\ \A n \in 0 .. Gph!Room(layer), i \in Int :
              i - 1 \in Gph!ListAt(node, layer) .. Gph!ListAt(node, layer) + n - 1 =>
                \E j \in 1 .. Gph!Room(layer) : i = Gph!ListAt(node, layer) + j
<1>1. /\ MaxLevel \in Nat /\ Gph!At(node) \in Nat /\ Gph!At(node) >= 1 /\ Stride \in Nat
      /\ layer \in Nat /\ layer <= MaxLevel
  <2>1. MaxLevel \in Nat /\ GraphHeaderSize \in Nat /\ GraphHeaderSize >= 1
    BY DEF Gph!ConstantsOK
  <2>2. Stride \in Nat /\ Gph!At(node) \in Nat /\ Gph!At(node) >= GraphHeaderSize
    BY Zenon, Blocks
  <2> QED
    BY SMTT(30), <2>1, <2>2
<1>2. /\ Gph!CountAt(node, layer) = Gph!At(node) + 1 + layer
      /\ Gph!Room(layer) \in Nat /\ Gph!ListAt(node, layer) \in Nat
      /\ Gph!ListAt(node, layer) >= Gph!At(node) + 2 + MaxLevel
  BY Zenon, Lists DEF Gph!CountAt
<1>3. Gph!At(node) + 1 .. Gph!At(node) + Stride \subseteq 2 .. size
  BY <1>1
<1>4. ASSUME NEW n \in 0 .. Gph!Room(layer), NEW i \in 1 .. n
      PROVE /\ i \in 1 .. Gph!Room(layer)
            /\ Gph!ListAt(node, layer) + i # Gph!CountAt(node, layer) + 1
            /\ Gph!ListAt(node, layer) + i - 1 \in
                 Gph!ListAt(node, layer) .. Gph!ListAt(node, layer) + n - 1
  <2>1. n \in Nat /\ n <= Gph!Room(layer)
    BY <1>2
  <2>2. i \in Nat /\ 1 <= i /\ i <= n
    BY <2>1
  <2> QED
    BY SMTT(30), <1>1, <1>2, <2>1, <2>2
<1>5. ASSUME NEW n \in 0 .. Gph!Room(layer), NEW i \in Int,
             i - 1 \in Gph!ListAt(node, layer) .. Gph!ListAt(node, layer) + n - 1
      PROVE \E j \in 1 .. Gph!Room(layer) : i = Gph!ListAt(node, layer) + j
  <2>1. n \in Nat /\ n <= Gph!Room(layer)
    BY SMTT(30), <1>2
  <2>2. i - Gph!ListAt(node, layer) \in 1 .. Gph!Room(layer)
    BY SMTT(30), <1>2, <1>5, <2>1
  <2>3. i = Gph!ListAt(node, layer) + (i - Gph!ListAt(node, layer))
    BY <1>2
  <2> QED
    BY ZenonT(30), <2>2, <2>3
<1> QED
  BY ZenonT(30), <1>2, <1>3, <1>4, <1>5

LEMMA SetConnectionsKeeps == ASSUME Gph!ConstantsOK, GraphInv, Gph!SetConnections PROVE GraphInv'
<1>1. /\ words \in Seq(Nat) /\ words[1] = NumNodes
      /\ UNCHANGED <<mapped, NumNodes, added>>
  BY Zenon DEF GraphInv, Gph!TypeOK, Gph!SetConnections
<1>2. /\ Len(words) \in Nat /\ Len(words) >= GraphHeaderSize
      /\ GraphHeaderSize \in Nat /\ GraphHeaderSize >= 1 /\ MaxLevel \in Nat /\ added \in Nat
      /\ Stride \in Nat
  <2>1. Len(words) \in Nat /\ Len(words) >= GraphHeaderSize
    <3>1. Len(words) >= GraphHeaderSize
      BY Zenon DEF GraphInv, Gph!TypeOK
    <3> QED
      BY SMTT(30), <1>1, <3>1
  <2>2. GraphHeaderSize \in Nat /\ GraphHeaderSize >= 1 /\ MaxLevel \in Nat /\ MaxNodes \in Nat
    BY SMTT(30) DEF Gph!ConstantsOK
  <2>3. added \in Nat
    BY SMTT(30), <2>2 DEF GraphInv, Gph!TypeOK
  <2> QED
    BY ZenonT(30), <2>1, <2>2, <2>3, Blocks
<1>3. PICK node \in 0 .. added - 1 :
        \E layer \in 0 .. Gph!Word(Gph!At(node)), to \in 0 .. added - 1 :
        \E n \in 0 .. Gph!Room(layer) :
          /\ words' = [i \in 1 .. Gph!Size |->
                         IF i = Gph!CountAt(node, layer) + 1 THEN n
                         ELSE IF i - 1 \in Gph!ListAt(node, layer) .. Gph!ListAt(node, layer) + n - 1
                         THEN to ELSE words[i]]
          /\ lists' = [x \in DOMAIN lists \cup {<<node, layer>>} |->
                         IF x = <<node, layer>> THEN [i \in 1 .. n |-> to] ELSE lists[x]]
  BY Zenon DEF Gph!SetConnections
<1>3a. PICK layer \in 0 .. words[Gph!At(node) + 1], to \in 0 .. added - 1 :
        \E n \in 0 .. Gph!Room(layer) :
          /\ words' = [i \in 1 .. Len(words) |->
                         IF i = Gph!CountAt(node, layer) + 1 THEN n
                         ELSE IF i - 1 \in Gph!ListAt(node, layer) .. Gph!ListAt(node, layer) + n - 1
                         THEN to ELSE words[i]]
          /\ lists' = [x \in DOMAIN lists \cup {<<node, layer>>} |->
                         IF x = <<node, layer>> THEN [i \in 1 .. n |-> to] ELSE lists[x]]
  BY Zenon, <1>3 DEF Gph!Word, Gph!Size
<1>4. PICK n \in 0 .. Gph!Room(layer) :
        /\ words' = [i \in 1 .. Len(words) |->
                       IF i = Gph!CountAt(node, layer) + 1 THEN n
                       ELSE IF i - 1 \in Gph!ListAt(node, layer) .. Gph!ListAt(node, layer) + n - 1
                       THEN to ELSE words[i]]
        /\ lists' = [x \in DOMAIN lists \cup {<<node, layer>>} |->
                       IF x = <<node, layer>> THEN [i \in 1 .. n |-> to] ELSE lists[x]]
  BY Zenon, <1>3a
<1>5. /\ node \in Nat /\ BlockIn(words, node)
      /\ layer \in 0 .. MaxLevel /\ layer \in Nat /\ to \in Nat /\ n \in Nat
  <2>1. node \in Nat /\ BlockIn(words, node)
    BY <1>2, SMTT(40) DEF GraphInv
  <2>2. words[Gph!At(node) + 1] \in Nat /\ words[Gph!At(node) + 1] <= MaxLevel
    BY SMTT(30), <1>2, <2>1 DEF BlockIn
  <2>3. layer \in 0 .. MaxLevel /\ layer \in Nat
    BY SMTT(30), <1>2, <2>2
  <2>4. Gph!Room(layer) \in Nat
    BY SMTT(30), <2>1, <2>3, Lists
  <2> QED
    BY SMTT(30), <1>2, <2>1, <2>3, <2>4
<1>6. /\ Gph!At(node) + Stride <= Len(words)
      /\ Gph!At(node) + 1 .. Gph!At(node) + Stride \subseteq 2 .. Len(words)
      /\ 2 .. Len(words) \subseteq 1 .. Len(words)
  <2>1. Gph!At(node) + Stride <= Len(words)
    BY Zenon, <1>5 DEF BlockIn
  <2> QED
    BY <1>2, <1>5, <2>1, Positions, SMTT(40)
<1>7. words' \in Seq(Nat) /\ Len(words') = Len(words)
  <2>1. \A i \in 1 .. Len(words) : words[i] \in Nat
    BY SMTT(30), <1>1
  <2> QED
    BY <1>2, <1>4, <1>5, <2>1, SMTT(60)
<1>8. ASSUME NEW i \in 1 .. Len(words), i \notin Written(node, layer)
      PROVE  words'[i] = words[i]
  <2>1. i # Gph!CountAt(node, layer) + 1
    BY Zenon, <1>8 DEF Written
  <2>2. ASSUME i - 1 \in Gph!ListAt(node, layer) .. Gph!ListAt(node, layer) + n - 1
        PROVE  FALSE
    <3>1. \E j \in 1 .. Gph!Room(layer) : i = Gph!ListAt(node, layer) + j
      BY <1>2, <1>5, <1>6, <2>2, Positions, SMTT(40)
    <3> QED
      BY Zenon, <1>8, <3>1 DEF Written
  <2> QED
    BY Zenon, <1>4, <2>1, <2>2
<1>9. words'[1] = words[1]
  <2>1. 1 \in 1 .. Len(words)
    BY <1>2
  <2>2. 1 \notin 2 .. Len(words)
    BY <1>2
  <2> QED
    BY ZenonT(30), <1>5, <1>6, <1>8, <2>1, <2>2, WithinBlock DEF Written
<1>10. ASSUME NEW m \in 0 .. added - 1, m # node, NEW i \in Gph!At(m) + 1 .. Gph!At(m) + Stride
       PROVE  words'[i] = words[i]
  <2>1. m \in Nat /\ BlockIn(words, m)
    BY <1>2, SMTT(40) DEF GraphInv
  <2>2. Gph!At(m) \in Nat
    BY ZenonT(30), <2>1, Blocks
  <2>3. i \in 1 .. Len(words)
    <3>1. Gph!At(m) + Stride <= Len(words)
      BY Zenon, <2>1 DEF BlockIn
    <3> QED
      BY SMTT(30), <1>2, <2>2, <3>1
  <2> QED
    BY Zenon, <1>5, <1>8, <1>10, <2>1, <2>3, OtherBlock
<1>11. \A m \in 0 .. added - 1 : BlockIn(words', m) /\ words'[Gph!At(m) + 1] = words[Gph!At(m) + 1]
  <2> SUFFICES ASSUME NEW m \in 0 .. added - 1
               PROVE words'[Gph!At(m) + 1] = words[Gph!At(m) + 1]
    BY Zenon, <1>7 DEF GraphInv, BlockIn
  <2>1. CASE m = node
    <3>1. Gph!At(node) + 1 \in 1 .. Len(words)
      BY ZenonT(30), <1>5, <1>6, WithinBlock
    <3> QED
      BY ZenonT(30), <1>5, <1>8, <2>1, <3>1, OtherLayer
  <2>2. CASE m # node
    <3>1. m \in Nat /\ 0 \in 0 .. MaxLevel
      BY <1>2
    <3> QED
      BY ZenonT(30), <1>10, <2>2, <3>1, WithinBlock
  <2> QED
    BY Zenon, <2>1, <2>2

<1>12. ASSUME NEW x \in DOMAIN lists, ~(x[1] = node /\ x[2] = layer)
       PROVE  ReadsAs(words', x[1], x[2], lists[x])
  <2>1. x[1] \in 0 .. added - 1 /\ ReadsAs(words, x[1], x[2], lists[x])
    BY Zenon DEF GraphInv
  <2>2. x[1] \in Nat
    BY SMTT(30), <1>2, <2>1
  <2>3. words[Gph!At(x[1]) + 1] \in 0 .. MaxLevel
    BY ZenonT(30), <2>1 DEF GraphInv, BlockIn
  <2>4. x[2] \in 0 .. MaxLevel
    BY <1>2, <2>1, <2>3, SMTT(40) DEF ReadsAs
  <2>5. words'[Gph!At(x[1]) + 1] = words[Gph!At(x[1]) + 1]
    BY Zenon, <1>11, <2>1
  <2>6. /\ words'[Gph!CountAt(x[1], x[2]) + 1] = words[Gph!CountAt(x[1], x[2]) + 1]
        /\ \A i \in 1 .. Gph!Room(x[2]) :
             words'[Gph!ListAt(x[1], x[2]) + i] = words[Gph!ListAt(x[1], x[2]) + i]
    <3>1. CASE x[1] # node
      BY ZenonT(30), <1>10, <2>1, <2>2, <2>4, <3>1, WithinBlock
    <3>2. CASE x[1] = node
      <4>1. Gph!At(node) + 1 .. Gph!At(node) + Stride \subseteq 1 .. Len(words)
        BY Zenon, <1>6
      <4>2. x[2] # layer
        BY SMTT(30), <1>12, <3>2
      <4>3. /\ Gph!CountAt(node, x[2]) + 1 \in 1 .. Len(words)
            /\ \A i \in 1 .. Gph!Room(x[2]) : Gph!ListAt(node, x[2]) + i \in 1 .. Len(words)
        BY ZenonT(30), <1>5, <2>4, <4>1, WithinBlock
      <4> QED
        BY ZenonT(30), <1>5, <1>8, <2>4, <3>2, <4>2, <4>3, OtherLayer
    <3> QED
      BY ZenonT(30), <3>1, <3>2
  <2> QED
    BY ZenonT(30), <2>1, <2>2, <2>3, <2>5, <2>6, ListStays
<1>13. ReadsAs(words', node, layer, [i \in 1 .. n |-> to])
  <2>1. words'[Gph!At(node) + 1] = words[Gph!At(node) + 1]
    BY Zenon, <1>11
  <2>2. words'[Gph!CountAt(node, layer) + 1] = n
    <3>1. Gph!CountAt(node, layer) + 1 \in 1 .. Len(words)
      BY ZenonT(30), <1>5, <1>6, WithinBlock
    <3> QED
      BY ZenonT(30), <1>4, <3>1
  <2>3. ASSUME NEW i \in 1 .. n PROVE words'[Gph!ListAt(node, layer) + i] = to
    <3> DEFINE j == Gph!ListAt(node, layer) + i
    <3>1. i \in 1 .. Gph!Room(layer) /\ j # Gph!CountAt(node, layer) + 1
      BY <1>2, <1>5, <1>6, Positions, SMTT(40)
    <3>2. j \in 1 .. Len(words)
      BY ZenonT(30), <1>5, <1>6, <3>1, WithinBlock
    <3>3. j - 1 \in Gph!ListAt(node, layer) .. Gph!ListAt(node, layer) + n - 1
      BY <1>2, <1>5, <1>6, Positions, SMTT(40)
    <3> HIDE DEF j
    <3>4. words'[j] = to
      BY ZenonT(30), <1>4, <3>1, <3>2, <3>3
    <3> QED
      BY ZenonT(30), <3>4 DEF j
  <2> QED
    BY ZenonT(30), <2>1, <2>2, <2>3 DEF ReadsAs
<1>14. ASSUME NEW x \in (DOMAIN lists)'
       PROVE  x[1] \in 0 .. added' - 1 /\ ReadsAs(words', x[1], x[2], lists'[x])
  <2>1. CASE x = <<node, layer>>
    <3>1. x[1] = node /\ x[2] = layer /\ lists'[x] = [i \in 1 .. n |-> to]
      BY ZenonT(30), <1>4, <2>1
    <3> QED
      BY Zenon, <1>1, <1>13, <3>1
  <2>2. CASE x # <<node, layer>>
    <3>1. x \in DOMAIN lists /\ lists'[x] = lists[x]
      BY Zenon, <1>4, <2>2
    <3>2. Pair(x)
      BY Zenon, <3>1 DEF GraphInv
    <3>3. ~(x[1] = node /\ x[2] = layer)
      BY Zenon, <2>2, <3>2 DEF Pair
    <3>4. x[1] \in 0 .. added - 1
      BY ZenonT(30), <3>1 DEF GraphInv
    <3> QED
      BY SMTT(30), <1>1, <1>12, <3>1, <3>3, <3>4
  <2> QED
    BY Zenon, <2>1, <2>2
<1>15. \A x \in (DOMAIN lists)' : Pair(x)
  BY <1>4, SMTT(40) DEF GraphInv, Pair
<1>16. Gph!TypeOK'
  BY ZenonT(30), <1>1, <1>2, <1>7 DEF GraphInv, Gph!TypeOK
<1> QED
  BY ZenonT(30), <1>1, <1>9, <1>11, <1>14, <1>15, <1>16 DEF GraphInv

LEMMA GraphStep == ASSUME Gph!ConstantsOK, GraphInv, [Gph!Next]_Gph!vars PROVE GraphInv'
<1>1. CASE UNCHANGED Gph!vars
  BY Zenon, <1>1 DEF GraphInv, Gph!vars, Gph!TypeOK
<1>2. CASE Gph!GrowthFails
  BY Zenon, <1>2 DEF GraphInv, Gph!GrowthFails, Gph!TypeOK
<1>3. CASE Gph!Reopen
  <2>1. UNCHANGED words /\ mapped' = TRUE /\ NumNodes' = words[1] /\ added' = 0
    BY Zenon, <1>3 DEF Gph!Reopen
  <2>2. \A x \in (DOMAIN lists)' : FALSE
    BY Zenon, <1>3 DEF Gph!Reopen
  <2>3. Gph!TypeOK'
    <3>1. words[1] \in 0 .. MaxNodes /\ 0 \in 0 .. MaxNodes
      BY SMTT(40) DEF GraphInv, Gph!TypeOK, Gph!ConstantsOK
    <3> QED
      BY ZenonT(30), <2>1, <3>1 DEF GraphInv, Gph!TypeOK
  <2>4. words'[1] = NumNodes'
    BY Zenon, <2>1
  <2>5. \A node \in 0 .. added' - 1 : FALSE
    BY SMTT(30), <2>1
  <2> QED
    BY ZenonT(30), <2>2, <2>3, <2>4, <2>5 DEF GraphInv
<1> QED
  BY ZenonT(30), <1>1, <1>2, <1>3, AddNodeKeeps, SetConnectionsKeeps DEF Gph!Next

\* GraphMmap: for graphs of any degree and height, however long a list and however
\* often the file grew, GetConnections returns the list that SetConnections last
\* set.
THEOREM GraphListsReadBack ==
  ASSUME Gph!ConstantsOK PROVE Gph!Spec => [](Gph!TypeOK /\ Gph!ListsReadBack)
<1>1. Gph!ConstantsOK
  BY Zenon
<1>2. Gph!NewGraphMmap => GraphInv
  <2> SUFFICES ASSUME Gph!NewGraphMmap PROVE GraphInv
    BY Zenon
  <2> DEFINE size == GraphHeaderSize + Stride * InitialNodes
  <2>1. size \in Nat /\ size >= GraphHeaderSize /\ GraphHeaderSize \in Nat /\ GraphHeaderSize >= 1
    <3>1. Stride \in Nat /\ InitialNodes \in Nat /\ GraphHeaderSize \in Nat \ {0}
      BY Zenon, <1>1, Blocks DEF Gph!ConstantsOK
    <3>2. Stride * InitialNodes \in Nat
      BY <3>1, SMT
    <3> QED
      BY SMTT(30), <3>1, <3>2
  <2>2. /\ words = [i \in 1 .. size |-> 0] /\ mapped = TRUE /\ NumNodes = 0 /\ added = 0
        /\ \A x \in DOMAIN lists : FALSE
    BY Zenon DEF Gph!NewGraphMmap, Gph!Zeros, Stride
  <2> HIDE DEF size
  <2>3. words \in Seq(Nat) /\ Len(words) = size /\ words[1] = 0
    BY SMTT(30), <2>1, <2>2
  <2> QED
    BY <1>1, <2>1, <2>2, <2>3, SMTT(40) DEF GraphInv, Gph!TypeOK, Gph!ConstantsOK
<1>3. GraphInv /\ [Gph!Next]_Gph!vars => GraphInv'
  BY Zenon, <1>1, GraphStep
<1>4. GraphInv => Gph!TypeOK /\ Gph!ListsReadBack
  <2> SUFFICES ASSUME GraphInv, NEW x \in DOMAIN lists
               PROVE  Gph!GetConnections(x[1], x[2]) = lists[x]
    BY Zenon DEF GraphInv, Gph!ListsReadBack
  <2>1. x[1] \in 0 .. added - 1 /\ BlockIn(words, x[1]) /\ ReadsAs(words, x[1], x[2], lists[x])
    BY Zenon DEF GraphInv
  <2>2. x[1] \in Nat /\ x[2] \in 0 .. MaxLevel /\ words[Gph!At(x[1]) + 1] \in Nat
    <3>1. MaxLevel \in Nat /\ MaxNodes \in Nat /\ added \in 0 .. MaxNodes
      BY Zenon, <1>1 DEF GraphInv, Gph!TypeOK, Gph!ConstantsOK
    <3>2. words[Gph!At(x[1]) + 1] \in 0 .. MaxLevel /\ x[2] \in 0 .. words[Gph!At(x[1]) + 1]
      BY Zenon, <2>1 DEF BlockIn, ReadsAs
    <3> QED
      BY <2>1, <3>1, <3>2, SMTT(40)
  <2>3. Gph!ListAt(x[1], x[2]) \in Nat
    BY ZenonT(30), <1>1, <2>2, Lists
  <2>4. ~(x[2] > words[Gph!At(x[1]) + 1])
    BY <2>1, <2>2, SMTT(40) DEF ReadsAs
  <2>5. \A i \in Int : Gph!Word(Gph!ListAt(x[1], x[2]) + i - 1) = words[Gph!ListAt(x[1], x[2]) + i]
    <3>1. \A i \in Int : Gph!ListAt(x[1], x[2]) + i - 1 + 1 = Gph!ListAt(x[1], x[2]) + i
      BY <2>3
    <3> QED
      BY Zenon, <3>1 DEF Gph!Word
  <2> QED
    <3> DEFINE n == words[Gph!CountAt(x[1], x[2]) + 1]
    <3>1. Gph!GetConnections(x[1], x[2])
            = [i \in 1 .. n |-> Gph!Word(Gph!ListAt(x[1], x[2]) + i - 1)]
      BY Zenon, <2>4 DEF Gph!GetConnections, Gph!Word
    <3>2. lists[x] = [i \in 1 .. n |-> words[Gph!ListAt(x[1], x[2]) + i]]
      BY Zenon, <2>1 DEF ReadsAs
    <3>3. 1 .. n \subseteq Int
      OBVIOUS
    <3> HIDE DEF n
    <3> QED
      BY ZenonT(30), <2>5, <3>1, <3>2, <3>3
<1> QED
  BY <1>2, <1>3, <1>4, PTL DEF Gph!Spec
=============================================================================
