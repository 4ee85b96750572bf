----------------------------- MODULE MemoryPool ------------------------------
(***************************************************************************)
(* HALMemoryPool: the pool the vertices take their write buffers from.     *)
(* MemoryAllocator keeps one allocator for each threadid and no lock.  An  *)
(* allocator has a bucket for one block size, 32 * 64 bytes, the only size *)
(* that VertexEdges::build asks for; space is counted in such blocks.      *)
(* Nothing is ever given back.                                             *)
(***************************************************************************)
EXTENDS Integers, Sequences

CONSTANTS
  ThreadIds,            \* indices of perThreadArr
  MEMORY_VECTOR_SIZE,   \* arenas in one FixedSizeVector (16 in the code)
  FirstSpace,           \* blocks in the arena made at start (4 MB)
  MoreSpace             \* blocks in every later one (512 MB)

VARIABLES
  perThreadArr,   \* per threadid: its TwoLevelVector of arenas
  arenas          \* per threadid: its GlobalAllocators, in order of creation

\* A TwoLevelVector refers to its arenas by their number.  fixedSize is 1.
FirstVector == [IndrArray |-> <<<<1>>>>, curIndex |-> 0, curSize |-> 1, blockSize |-> 1]
Arena(space) == [totalSpace |-> space, offset |-> 0]

\* PerThreadMemoryAllocator::init, for every threadid.
PoolInit ==
  /\ perThreadArr = [i \in ThreadIds |-> FirstVector]
  /\ arenas = [i \in ThreadIds |-> <<Arena(FirstSpace)>>]

Row(vec) == vec.IndrArray[vec.curIndex + 1]

IscurIndexFull(vec) == Len(Row(vec)) = MEMORY_VECTOR_SIZE

\* The array of rows doubles; what it held is copied.
setIndrArray(vec) ==
  [vec EXCEPT !.curIndex = vec.curSize - 1, !.curSize = 2 * @, !.blockSize = 2 * vec.curSize]

addBlock(vec) ==
  [vec EXCEPT !.curIndex = @ + 1,
              !.IndrArray = SubSeq(@, 1, vec.curIndex + 1) \o <<<<>>>>]

insert(vec, ga) ==
  LET room == IF ~IscurIndexFull(vec) THEN vec
              ELSE addBlock(IF vec.curIndex = vec.blockSize - 1 THEN setIndrArray(vec) ELSE vec)
  IN  [room EXCEPT !.IndrArray[room.curIndex + 1] = Append(@, ga)]

\* The last arena of the last row is the one in use.
Current(i) == Row(perThreadArr[i])[Len(Row(perThreadArr[i]))]

\* The arena in use has room for another block.
isFreeSpace(i) == arenas[i][Current(i)].offset + 1 <= arenas[i][Current(i)].totalSpace

\* getBlock, first part: the current arena has room, or a new one becomes current.
EnsureSpace(i) ==
  IF isFreeSpace(i) THEN UNCHANGED <<perThreadArr, arenas>>
  ELSE /\ arenas' = [arenas EXCEPT ![i] = Append(@, Arena(MoreSpace))]
       /\ perThreadArr' = [perThreadArr EXCEPT ![i] = insert(@, Len(arenas[i]) + 1)]

\* GlobalAllocator::allocate: the block at offset, and what is left.
NextBlock(i) == [thread |-> i, arena |-> Current(i), at |-> arenas[i][Current(i)].offset]
Bump(i) ==
  /\ arenas' = [arenas EXCEPT ![i][Current(i)].offset = @ + 1]
  /\ UNCHANGED perThreadArr

\* A block lies inside the arena it was cut from.
InsideArena(b) == b.at < arenas[b.thread][b.arena].totalSpace
=============================================================================
