-------------------------------- MODULE Mmap --------------------------------
(* The memory-mapped vector file of pkg/storage/mmap/mmap.go and its          *)
(* allocator: first fit over a list of free blocks, growth by doubling, and   *)
(* an allocator state that is saved when the file is closed.                  *)
(*                                                                            *)
(* Offsets count bytes; every block holds whole vectors, since one Storage    *)
(* has one dimension.  The mapping is shared, so what was written to it       *)
(* survives the process.  The nodes of the index are the only clients: a node *)
(* writes to the slot it got and frees it once.                               *)
EXTENDS Integers, Sequences, SequencesExt

CONSTANTS VectorSize,   \* bytes of a vector
          InitialSize,  \* bytes of a new file
          DiskSize,     \* bound: the disk has no room for a longer file
          Holders,      \* the nodes of the index
          Values,       \* what a vector may be; None is what a new file reads as
          None

VARIABLES mapping,      \* "mapped", "lost" (unmapped by a failed grow), "closed"
          fileSize,     \* length of the file
          capacity,     \* Storage.capacity
          nextOffset, freeList, maxSize,  \* the Allocator
          metaFile,     \* the saved allocatorState, or None
          vectors,      \* the vector at each offset of the file
          slot          \* VectorOffset of the nodes that have one

vars == <<mapping, fileSize, capacity, nextOffset, freeList, maxSize, metaFile,
          vectors, slot>>

Offsets == {i * VectorSize : i \in 0 .. (DiskSize \div VectorSize) - 1}

Init == /\ mapping = "mapped"
        /\ fileSize = InitialSize /\ capacity = InitialSize
        /\ nextOffset = 0 /\ freeList = <<>> /\ maxSize = InitialSize
        /\ metaFile = None
        /\ vectors = [o \in Offsets |-> None]
        /\ slot = [n \in {} |-> 0]
------------------------------------------------------------------------------
(* The allocator.                                                             *)

\* The outcome of Allocator.Allocate when the end of the space is at limit.
AllocateIn(limit) ==
  LET fits == {i \in DOMAIN freeList : freeList[i].size >= VectorSize}
      i == CHOOSE j \in fits : \A k \in fits : j <= k
      b == freeList[i]
  IN CASE fits # {} ->
            [offset |-> b.offset, next |-> nextOffset,
             list |-> IF b.size = VectorSize
                      THEN RemoveAt(freeList, i)
                      ELSE [freeList EXCEPT ![i] = [offset |-> b.offset + VectorSize,
                                                    size |-> b.size - VectorSize]]]
       [] fits = {} /\ nextOffset + VectorSize <= limit ->
            [offset |-> nextOffset, next |-> nextOffset + VectorSize, list |-> freeList]
       [] OTHER -> [offset |-> -1, next |-> nextOffset, list |-> freeList]

\* The blocks of a list, each joined to the ones that begin where it ends.
Joined(blocks, Touch(_, _)) ==
  LET sorted == SortSeq(blocks, LAMBDA a, b : a.offset < b.offset)
      Join[n \in 1 .. Len(sorted)] ==
        IF n = 1 THEN <<sorted[1]>>
        ELSE LET done == Join[n - 1]
                 current == Last(done)
             IN IF Touch(current, sorted[n])
                THEN Front(done) \o <<[current EXCEPT !.size = @ + sorted[n].size]>>
                ELSE Append(done, sorted[n])
  IN IF Len(blocks) < 2 THEN blocks ELSE Join[Len(sorted)]

\* Mutant: blocks are joined although a vector lies between them.
coalesceAcross(blocks) == Joined(blocks, LAMBDA a, b : a.offset + a.size <= b.offset)

coalesce(blocks) == Joined(blocks, LAMBDA a, b : a.offset + a.size = b.offset)
------------------------------------------------------------------------------
(* The storage.                                                               *)

\* grow unmaps the file before it lengthens and maps it again: when that fails,
\* with the file lengthened or not, nothing is mapped any more.
GrowthFails(newSize) ==
  /\ mapping' = "lost"
  /\ fileSize' \in {fileSize, newSize}
  /\ fileSize' <= DiskSize
  /\ UNCHANGED <<capacity, nextOffset, freeList, maxSize, metaFile, vectors, slot>>

Taken(r) ==
  /\ nextOffset' = r.next /\ freeList' = r.list
  /\ \E n \in Holders \ DOMAIN slot :
       slot' = IF r.offset = -1 THEN slot
               ELSE [m \in DOMAIN slot \cup {n} |-> IF m = n THEN r.offset ELSE slot[m]]

\* The space ends twice as far off as the file reaches.
AllocateBeyond ==
  LET newSize == capacity * 2
  IN /\ newSize <= DiskSize
     /\ capacity' = newSize /\ fileSize' = newSize /\ maxSize' = newSize * 2
     /\ Taken(AllocateIn(newSize * 2))
     /\ UNCHANGED <<mapping, metaFile, vectors>>

AllocateGrown ==
  LET newSize == capacity * 2
  IN /\ newSize <= DiskSize
     /\ capacity' = newSize /\ fileSize' = newSize /\ maxSize' = newSize
     /\ Taken(AllocateIn(newSize))
     /\ UNCHANGED <<mapping, metaFile, vectors>>

Allocate ==
  /\ mapping # "closed"
  /\ LET r == AllocateIn(maxSize)
     IN \/ /\ r.offset # -1
           /\ Taken(r)
           /\ UNCHANGED <<mapping, fileSize, capacity, maxSize, metaFile, vectors>>
        \/ /\ r.offset = -1 /\ mapping = "mapped"
           /\ AllocateGrown \/ GrowthFails(capacity * 2)

WriteVector ==
  /\ mapping = "mapped"
  /\ \E n \in DOMAIN slot, v \in Values :
       LET o == slot[n]
           end == o + VectorSize
           newSize == IF capacity * 2 < end THEN end ELSE capacity * 2
       IN IF end > capacity
          THEN \/ /\ newSize <= DiskSize
                  /\ capacity' = newSize /\ fileSize' = newSize
                  /\ vectors' = [vectors EXCEPT ![o] = v]
                  /\ UNCHANGED <<mapping, nextOffset, freeList, maxSize, metaFile, slot>>
               \/ GrowthFails(newSize)
          ELSE /\ vectors' = [vectors EXCEPT ![o] = v]
               /\ UNCHANGED <<mapping, fileSize, capacity, nextOffset, freeList, maxSize,
                              metaFile, slot>>

Free ==
  /\ mapping # "closed"
  /\ \E n \in DOMAIN slot :
       /\ slot' = [m \in DOMAIN slot \ {n} |-> slot[m]]
       /\ freeList' = coalesce(Append(freeList, [offset |-> slot[n], size |-> VectorSize]))
  /\ UNCHANGED <<mapping, fileSize, capacity, nextOffset, maxSize, metaFile, vectors>>

\* saveAllocatorState writes a temporary file and renames it, so a crash
\* leaves the old state or the new one.  Close goes on when it fails, and the
\* slots that were taken since the last save can no longer be told from free
\* ones.
Close ==
  /\ mapping # "closed"
  /\ mapping' = "closed"
  /\ \/ metaFile' = [next |-> nextOffset, list |-> freeList] /\ UNCHANGED slot
     \/ slot' = [n \in {} |-> 0] /\ UNCHANGED metaFile
  /\ UNCHANGED <<fileSize, capacity, nextOffset, freeList, maxSize, vectors>>

\* A touch of the lost mapping kills the process; so may anything else.
Crash ==
  /\ mapping # "closed"
  /\ mapping' = "closed"
  /\ slot' = [n \in {} |-> 0]
  /\ UNCHANGED <<fileSize, capacity, nextOffset, freeList, maxSize, metaFile, vectors>>

OpenWith(state) ==
  /\ mapping = "closed"
  /\ mapping' = "mapped"
  /\ capacity' = fileSize /\ maxSize' = fileSize
  /\ nextOffset' = IF state = None THEN 0 ELSE state.next
  /\ freeList' = IF state = None THEN <<>> ELSE state.list
  /\ UNCHANGED <<fileSize, metaFile, vectors, slot>>

\* Mutant: the saved allocator state is not read.
OpenFresh == OpenWith(None)

Open == OpenWith(metaFile)

Next == Allocate \/ WriteVector \/ Free \/ Close \/ Crash \/ Open

Spec == Init /\ [][Next]_vars
------------------------------------------------------------------------------
\* A slot that is held also lies within the mapping: WriteVector never grows the
\* file behind the allocator's back, ReadVector never reports an offset out of
\* bounds.
TypeOK == /\ mapping \in {"mapped", "lost", "closed"}
          /\ {fileSize, capacity, maxSize} \subseteq InitialSize .. DiskSize
          /\ nextOffset \in 0 .. DiskSize
          /\ \A i \in DOMAIN freeList : /\ freeList[i].offset \in Offsets
                                        /\ freeList[i].size > 0
          /\ vectors \in [Offsets -> Values \cup {None}]
          /\ DOMAIN slot \subseteq Holders /\ \A n \in DOMAIN slot : slot[n] \in Offsets
          /\ mapping = "mapped" => \A n \in DOMAIN slot : slot[n] + VectorSize <= capacity

Promise == INSTANCE VectorSlots
             WITH Values <- Values \cup {None},
                  held <- [n \in DOMAIN slot |-> vectors[slot[n]]]

\* The vector file keeps its promise: whatever was freed, coalesced, split,
\* grown or reopened before, Allocate hands no node a slot that another one
\* has, so nothing but a node's own write changes its vector.
KeepsPromise == Promise!Spec
==============================================================================
