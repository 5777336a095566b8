------------------------------ MODULE GraphFile ------------------------------
(* The memory-mapped file of pkg/storage/mmap/graph.go that holds the HNSW    *)
(* connections: a header, then for every node a block with its level, one     *)
(* count per layer and the room for the lists of all layers.                  *)
(*                                                                            *)
(* The file is an array of 32-bit words.  The HNSW index is its only user: it *)
(* adds nodes in order and sets no list that is longer than GraphSound of     *)
(* Hnsw.tla allows.                                                           *)
EXTENDS Integers, Sequences

CONSTANTS M, MaxLevel, GraphHeaderSize,  \* in words
          InitialNodes,                  \* nodes a new file has room for
          MaxNodes, MaxSets              \* bounds: nodes added, lists set

\* The header holds the number of nodes, among other things.
ConstantsOK == /\ {M, MaxLevel, InitialNodes, MaxNodes} \subseteq Nat
               /\ GraphHeaderSize \in Nat \ {0}

VARIABLES words,     \* the file, which is also what is mapped
          mapped,    \* FALSE once ensureCapacity failed after it unmapped
          NumNodes,
          added,     \* nodes the index has added since it was started
          lists,     \* what the index last set, by node and layer
          sets       \* lists set so far

vars == <<words, mapped, NumNodes, added, lists, sets>>

NodeStride == 1 + (MaxLevel + 1) + 2 * M + MaxLevel * M
Room(layer) == IF layer = 0 THEN 2 * M ELSE M

At(node) == GraphHeaderSize + node * NodeStride
CountAt(node, layer) == At(node) + 1 + layer

\* Mutant: the room of layer 0 is taken to be that of the other layers.
ListTooLow(node, layer) ==
  At(node) + 1 + (MaxLevel + 1) + (IF layer > 0 THEN M + (layer - 1) * M ELSE 0)

ListAt(node, layer) ==
  At(node) + 1 + (MaxLevel + 1) + (IF layer > 0 THEN 2 * M + (layer - 1) * M ELSE 0)

Size == Len(words)
Word(i) == words[i + 1]
Zeros(n) == [i \in 1 .. n |-> 0]

NewGraphMmap == /\ words = Zeros(GraphHeaderSize + NodeStride * InitialNodes)
                /\ mapped = TRUE /\ NumNodes = 0 /\ added = 0 /\ lists = [x \in {} |-> <<>>]
                /\ sets = 0

\* Mutant: a longer file starts out empty.
GrownAnew(node) ==
  LET required == GraphHeaderSize + (node + 1) * NodeStride
  IN IF required <= Size THEN words
     ELSE Zeros(IF 2 * Size < required THEN required ELSE 2 * Size)

\* The file once ensureCapacity has made room for a node.
Grown(node) ==
  LET required == GraphHeaderSize + (node + 1) * NodeStride
  IN IF required <= Size THEN words
     ELSE words \o Zeros((IF 2 * Size < required THEN required ELSE 2 * Size) - Size)

AddNode ==
  /\ mapped /\ added < MaxNodes
  /\ \E level \in 0 .. MaxLevel :
       /\ words' = [Grown(added) EXCEPT ![At(added) + 1] = level,
                                        ![1] = IF added >= NumNodes THEN added + 1 ELSE @]
       /\ NumNodes' = IF added >= NumNodes THEN added + 1 ELSE NumNodes
  /\ added' = added + 1
  /\ UNCHANGED <<mapped, lists, sets>>

\* The file cannot be lengthened or mapped again, and is no longer mapped.
GrowthFails ==
  /\ mapped /\ added < MaxNodes /\ Grown(added) # words
  /\ mapped' = FALSE
  /\ UNCHANGED <<words, NumNodes, added, lists, sets>>

GetConnections(node, layer) ==
  IF layer > Word(At(node)) THEN <<>>
  ELSE [i \in 1 .. Word(CountAt(node, layer)) |-> Word(ListAt(node, layer) + i - 1)]

SetConnections ==
  /\ mapped /\ sets < MaxSets
  /\ sets' = sets + 1
  /\ \E node \in 0 .. added - 1 :
     \E layer \in 0 .. Word(At(node)), to \in 0 .. added - 1 :
     \E n \in 0 .. Room(layer) :
       /\ words' = [i \in 1 .. Size |->
                      IF i = CountAt(node, layer) + 1 THEN n
                      ELSE IF i - 1 \in ListAt(node, layer) .. ListAt(node, layer) + n - 1
                      THEN to ELSE words[i]]
       /\ lists' = [x \in DOMAIN lists \cup {<<node, layer>>} |->
                      IF x = <<node, layer>> THEN [i \in 1 .. n |-> to] ELSE lists[x]]
  /\ UNCHANGED <<mapped, NumNodes, added>>

\* Close, or the death of the process, and NewGraphMmap on the file that is left.
Reopen ==
  /\ added > 0
  /\ mapped' = TRUE
  /\ NumNodes' = words[1]
  /\ added' = 0 /\ lists' = [x \in {} |-> <<>>]
  /\ UNCHANGED <<words, sets>>

Next == AddNode \/ GrowthFails \/ SetConnections \/ Reopen

Spec == NewGraphMmap /\ [][Next]_vars
------------------------------------------------------------------------------
TypeOK == /\ words \in Seq(Nat) /\ Len(words) >= GraphHeaderSize
          /\ mapped \in BOOLEAN
          /\ NumNodes \in 0 .. MaxNodes /\ added \in 0 .. MaxNodes

\* GetConnections returns the list that SetConnections last set for the node
\* and the layer: the blocks and lists do not overlap, and neither lists of
\* other layers and nodes, nor nodes added later, nor growth disturb it.
ListsReadBack ==
  \A x \in DOMAIN lists : GetConnections(x[1], x[2]) = lists[x]
==============================================================================
