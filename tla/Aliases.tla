------------------------------- MODULE Aliases -------------------------------
(* Names for collections, pkg/collection/aliases.go: a map in memory and the  *)
(* file aliases.json, which every change overwrites in place.                 *)
EXTENDS Naturals

CONSTANTS Aliases, Collections,
          None, Torn,     \* no alias; a file that a crash left half written
          MaxChanges, MaxCrashes

ConstantsOK ==
  /\ None \notin Collections
  /\ \A f \in [Aliases -> Collections \cup {None}] : f # None /\ f # Torn
  /\ None # Torn

VARIABLES up,             \* NewAliasManager succeeded and the process runs
          aliases,        \* AliasManager.aliases
          file,           \* aliases.json: the map in it, Torn, or None
          saving,         \* am.mu is held by a call that is in save
          promised,       \* history: what the calls that returned no error left
          failed,         \* history: a save failed, or was cut, since the last that was not
          changes, crashes

vars == <<up, aliases, file, saving, promised, failed, changes, crashes>>

Unnamed == [a \in Aliases |-> None]

NewAliasManager ==
  /\ up = TRUE /\ aliases = Unnamed /\ file = None /\ saving = FALSE
  /\ promised = Unnamed /\ failed = FALSE /\ changes = 0 /\ crashes = 0

\* os.WriteFile empties the file before it writes it; what comes before it in
\* save may fail and leave the file alone.
Change(to) ==
  /\ up /\ ~saving /\ changes < MaxChanges
  /\ aliases' = to /\ saving' = TRUE /\ changes' = changes + 1
  /\ file' \in {file, Torn}
  /\ UNCHANGED <<up, promised, failed, crashes>>

Create(a, c) == aliases[a] \in {None, c} /\ Change([aliases EXCEPT ![a] = c])
Delete(a) == aliases[a] # None /\ Change([aliases EXCEPT ![a] = None])
Switch(a, c) == Change([aliases EXCEPT ![a] = c])

\* Without an alias of the collection there is nothing to save.
Rename(old, new) ==
  /\ \E a \in Aliases : aliases[a] = old
  /\ Change([a \in Aliases |-> IF aliases[a] = old THEN new ELSE aliases[a]])

DeleteForCollection(c) ==
  /\ \E a \in Aliases : aliases[a] = c
  /\ Change([a \in Aliases |-> IF aliases[a] = c THEN None ELSE aliases[a]])

\* Mutant: save reports success for a file that it could not write.
SaveUnchecked(written) ==
  /\ saving /\ saving' = FALSE
  /\ file' = IF written THEN aliases ELSE file
  /\ promised' = aliases /\ failed' = FALSE
  /\ UNCHANGED <<up, aliases, changes, crashes>>

\* The write may fail; the map in memory stays changed.
Save(written) ==
  /\ saving /\ saving' = FALSE
  /\ file' = IF written THEN aliases ELSE file
  /\ promised' = IF written THEN aliases ELSE promised
  /\ failed' = ~written
  /\ UNCHANGED <<up, aliases, changes, crashes>>

Crash ==
  /\ up /\ crashes < MaxCrashes
  /\ up' = FALSE /\ saving' = FALSE /\ crashes' = crashes + 1
  /\ failed' = (failed \/ saving)
  /\ UNCHANGED <<aliases, file, promised, changes>>

\* Without a file there are no aliases; with a torn one the manager is not made.
Load ==
  /\ ~up /\ file # Torn
  /\ up' = TRUE
  /\ aliases' = IF file = None THEN Unnamed ELSE file
  /\ UNCHANGED <<file, saving, promised, failed, changes, crashes>>

Resolve(name) == IF name \in Aliases /\ aliases[name] # None THEN aliases[name] ELSE name

Next == \/ \E a \in Aliases, c \in Collections : Create(a, c) \/ Switch(a, c)
        \/ \E a \in Aliases : Delete(a)
        \/ \E c, d \in Collections : Rename(c, d)
        \/ \E c \in Collections : DeleteForCollection(c)
        \/ \E written \in BOOLEAN : Save(written)
        \/ Crash \/ Load

Spec == NewAliasManager /\ [][Next]_vars
------------------------------------------------------------------------------
TypeOK == /\ aliases \in [Aliases -> Collections \cup {None}]
          /\ file \in {None, Torn} \cup [Aliases -> Collections \cup {None}]
          /\ saving => up

\* Over changes, failed writes, crashes and restarts: between two changes an alias
\* resolves to the collection that the last call to return without an error gave
\* it, unless a save failed or was cut short since; and then a restart finds it.
AliasesPersist ==
  ~saving /\ ~failed =>
    /\ file # Torn
    /\ up => \A a \in Aliases : Resolve(a) = IF promised[a] = None THEN a ELSE promised[a]
==============================================================================
