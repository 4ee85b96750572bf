----------------------------- MODULE GraphStore ------------------------------
(***************************************************************************)
(* The vertex table: data-structure/EdgeBlock/GraphStore.{h,cpp}, with the *)
(* two ways in which vertices are made, GraphStore::new_vertex and         *)
(* GetVertexID of the test driver, the memory pool both draw a write       *)
(* buffer from, and readers that visit the vertices below node_num.        *)
(* Writers find the id of an external vertex in VertexDictionary, a        *)
(* tbb::concurrent_hash_map that keeps an entry locked while it is filled. *)
(***************************************************************************)
EXTENDS MemoryPool, FiniteSets

CONSTANTS
  Creators,       \* writer threads
  Locked,         \* the ones that call new_vertex; the others, GetVertexID
  Readers,
  External,       \* external vertex ids
  block_count,    \* entries at construction (200 in the driver)
  threadid,       \* thread_local int threadid, per creator
  capacity(_),    \* tbb::concurrent_vector::capacity, by its size()
  Absent, Filling, Null, Nobody

VARIABLES
  node_num,
  blocks,               \* the constructed entries: Null or [src, tmp_item]
  p_mHashMap,           \* the constructed entries: external ids
  stray,                \* ids written to p_mHashMap at or past its size()
  vertex_creation_mutex,
  VertexDictionary,     \* Absent, Filling or the internal id
  cr,                   \* per creator: where it is
  rd                    \* per reader: where it is

poolVars == <<perThreadArr, arenas>>
tableVars == <<poolVars, node_num, blocks, p_mHashMap, stray, vertex_creation_mutex,
               VertexDictionary, cr, rd>>

Idle == [pc |-> "idle", x |-> Null, v |-> Null, eb |-> Null]
Away == [pc |-> "away", v |-> 0, max_vid |-> 0]

TableInit ==
  /\ PoolInit
  /\ node_num = 0
  /\ blocks = [v \in 0 .. block_count - 1 |-> Null]
  /\ p_mHashMap = [v \in 0 .. block_count - 1 |-> Null]
  /\ stray = {}
  /\ vertex_creation_mutex = Nobody
  /\ VertexDictionary = [x \in External |-> Absent]
  /\ cr = [c \in Creators |-> Idle]
  /\ rd = [r \in Readers |-> Away]

Size(vec) == Cardinality(DOMAIN vec)

Capacity(vec) == capacity(Size(vec))

\* grow_to_at_least and resize: new entries are Null, old ones stay.
Grown(vec, n) == [v \in 0 .. (IF n > Size(vec) THEN n ELSE Size(vec)) - 1 |->
                   IF v \in DOMAIN vec THEN vec[v] ELSE Null]

\* std::max of new_vertex
Larger(a, b) == IF a > b THEN a ELSE b

Stands(c, from) == cr[c].pc = from
Go(c, to) == cr' = [cr EXCEPT ![c].pc = to]

-----------------------------------------------------------------------------
(* Creators.                                                               *)

\* An edge update names an external vertex: it is known, or this thread makes it.
Lookup(c) ==
  /\ Stands(c, "idle")
  /\ \E x \in External :
       \/ /\ VertexDictionary[x] = Absent
          /\ VertexDictionary' = [VertexDictionary EXCEPT ![x] = Filling]
          /\ cr' = [cr EXCEPT ![c] = [Idle EXCEPT !.x = x, !.pc =
                                        IF c \in Locked THEN "lock" ELSE "build"]]
       \/ /\ VertexDictionary[x] \notin {Absent, Filling}
          /\ cr' = [cr EXCEPT ![c] = [Idle EXCEPT !.x = x, !.pc = "write",
                                                  !.v = VertexDictionary[x]]]
          /\ UNCHANGED VertexDictionary
  /\ UNCHANGED <<poolVars, node_num, blocks, p_mHashMap, stray, vertex_creation_mutex, rd>>

\* Mutant: vertices are made without the creation lock.
LockCreationNever(c) ==
  /\ Stands(c, "lock")
  /\ vertex_creation_mutex' = c
  /\ Go(c, "build")
  /\ UNCHANGED <<poolVars, node_num, blocks, p_mHashMap, stray, VertexDictionary, rd>>

LockCreation(c) ==
  /\ Stands(c, "lock")
  /\ vertex_creation_mutex = Nobody
  /\ vertex_creation_mutex' = c
  /\ Go(c, "build")
  /\ UNCHANGED <<poolVars, node_num, blocks, p_mHashMap, stray, VertexDictionary, rd>>

\* VertexEdges::build asks the pool for tmp_item: first for room in an arena ...
BuildReserve(c) ==
  /\ Stands(c, "build")
  /\ EnsureSpace(threadid[c])
  /\ Go(c, "bump")
  /\ UNCHANGED <<node_num, blocks, p_mHashMap, stray, vertex_creation_mutex,
                 VertexDictionary, rd>>

\* ... then for the block.
Build(c) ==
  /\ Stands(c, "bump")
  /\ Bump(threadid[c])
  /\ cr' = [cr EXCEPT ![c].pc = "draw",
                      ![c].eb = [src |-> Null, tmp_item |-> NextBlock(threadid[c])]]
  /\ UNCHANGED <<node_num, blocks, p_mHashMap, stray, vertex_creation_mutex,
                 VertexDictionary, rd>>

\* node_num.fetch_add(1); new_vertex sets src at once.
DrawId(c) ==
  /\ Stands(c, "draw")
  /\ node_num' = node_num + 1
  /\ cr' = [cr EXCEPT ![c].pc = "size", ![c].v = node_num,
                      ![c].eb.src = IF c \in Locked THEN node_num ELSE @]
  /\ UNCHANGED <<poolVars, blocks, p_mHashMap, stray, vertex_creation_mutex,
                 VertexDictionary, rd>>

\* Mutant: the room that is reserved is taken for room that can be used.
HasRoomByCapacity(v) == v < Capacity(blocks)

HasRoom(v) == v < Size(blocks)

\* The size is read without a lock first.
CheckSize(c) ==
  /\ Stands(c, "size")
  /\ Go(c, IF HasRoom(cr[c].v) THEN "publish" ELSE "grow")
  /\ UNCHANGED <<poolVars, node_num, blocks, p_mHashMap, stray, vertex_creation_mutex,
                 VertexDictionary, rd>>

\* Under growing_vector_mutex the size is read again.
Grow(c) ==
  LET v == cr[c].v IN
  /\ Stands(c, "grow")
  /\ Go(c, "publish")
  /\ \/ HasRoom(v) /\ UNCHANGED <<blocks, p_mHashMap>>
     \/ /\ ~HasRoom(v) /\ c \in Locked
        /\ blocks' = Grown(blocks, Larger(v + 1, 2 * Size(blocks)))
        /\ UNCHANGED p_mHashMap
     \/ /\ ~HasRoom(v) /\ c \notin Locked
        /\ p_mHashMap' = Grown(p_mHashMap, Capacity(blocks))
        /\ blocks' = Grown(blocks, 2 * Capacity(blocks))
  /\ UNCHANGED <<poolVars, node_num, stray, vertex_creation_mutex, VertexDictionary, rd>>

\* blocks[v].eb = eb, defined when entry v has been constructed; the driver writes
\* p_mHashMap first and src afterwards.
Publish(c) ==
  LET v == cr[c].v IN
  /\ Stands(c, "publish")
  /\ Go(c, "return")
  /\ blocks' = IF v \in DOMAIN blocks THEN [blocks EXCEPT ![v] = cr[c].eb] ELSE blocks
  /\ \/ c \in Locked /\ UNCHANGED <<p_mHashMap, stray>>
     \/ /\ c \notin Locked
        /\ IF v \in DOMAIN p_mHashMap
           THEN p_mHashMap' = [p_mHashMap EXCEPT ![v] = cr[c].x] /\ UNCHANGED stray
           ELSE stray' = stray \cup {v} /\ UNCHANGED p_mHashMap
  /\ UNCHANGED <<poolVars, node_num, vertex_creation_mutex, VertexDictionary, rd>>

\* The creation lock is dropped and the dictionary entry filled and released.
Return(c) ==
  LET v == cr[c].v IN
  /\ Stands(c, "return")
  /\ Go(c, "write")
  /\ vertex_creation_mutex' = IF c \in Locked THEN Nobody ELSE vertex_creation_mutex
  /\ VertexDictionary' = [VertexDictionary EXCEPT ![cr[c].x] = v]
  /\ blocks' = IF c \notin Locked /\ v \in DOMAIN blocks
               THEN [blocks EXCEPT ![v].src = v] ELSE blocks
  /\ UNCHANGED <<poolVars, node_num, p_mHashMap, stray, rd>>

\* blocks[v].eb->insert_edge_block
WriteEdge(c) ==
  /\ Stands(c, "write")
  /\ cr' = [cr EXCEPT ![c] = Idle]
  /\ UNCHANGED <<poolVars, node_num, blocks, p_mHashMap, stray, vertex_creation_mutex,
                 VertexDictionary, rd>>

-----------------------------------------------------------------------------
(* Readers: max_vid = get_node_num(), then every vertex below it.          *)

StartScan(r) ==
  /\ rd[r].pc = "away"
  /\ rd' = [rd EXCEPT ![r] = [pc |-> "visit", v |-> 0, max_vid |-> node_num]]
  /\ node_num > 0
  /\ UNCHANGED <<poolVars, node_num, blocks, p_mHashMap, stray, vertex_creation_mutex,
                 VertexDictionary, cr>>

\* GetBlockByIndex(v)->getReadLock(): a reader that finds Null goes no further.
Visit(r) ==
  /\ rd[r].pc = "visit"
  /\ rd[r].v \in DOMAIN blocks /\ blocks[rd[r].v] # Null
  /\ rd' = [rd EXCEPT ![r] = IF @.v + 1 = @.max_vid THEN Away ELSE [@ EXCEPT !.v = @ + 1]]
  /\ UNCHANGED <<poolVars, node_num, blocks, p_mHashMap, stray, vertex_creation_mutex,
                 VertexDictionary, cr>>

-----------------------------------------------------------------------------
TableNext ==
  \/ \E c \in Creators :
       \/ Lookup(c) \/ LockCreation(c) \/ BuildReserve(c) \/ Build(c) \/ DrawId(c)
       \/ CheckSize(c) \/ Grow(c) \/ Publish(c) \/ Return(c) \/ WriteEdge(c)
  \/ \E r \in Readers : StartScan(r) \/ Visit(r)

TableSpec == TableInit /\ [][TableNext]_tableVars

-----------------------------------------------------------------------------
\* The vertices that exist: published ones and those a creator is about to publish.
Made == {blocks[v] : v \in {u \in DOMAIN blocks : blocks[u] # Null}}
        \cup {cr[c].eb : c \in {d \in Creators : cr[d].pc \in {"draw", "size", "grow", "publish"}}}

\* No two vertices share a write buffer, and every buffer lies inside its arena,
\* although the pool has no lock: threads that share a threadid are kept apart by the
\* creation lock, the driver's threads by their threadids.
BuffersDisjoint ==
  /\ \A e \in Made : InsideArena(e.tmp_item)
  /\ Cardinality({e.tmp_item : e \in Made}) =
       Cardinality({v \in DOMAIN blocks : blocks[v] # Null})
       + Cardinality({c \in Creators : cr[c].pc \in {"draw", "size", "grow", "publish"}})

\* A writer that has got an id, from new_vertex or from the dictionary, finds the
\* vertex: its entry has been constructed, filled, and knows its own id.
WritersFindBlocks ==
  \A c \in Creators : cr[c].pc = "write" =>
    cr[c].v \in DOMAIN blocks /\ blocks[cr[c].v] # Null /\ blocks[cr[c].v].src = cr[c].v

\* Drawing an id, constructing its entry and publishing its block are one operation:
\* a reader that visits the ids below node_num finds a block at each of them.
ReadersFindBlocks ==
  \A r \in Readers : rd[r].pc = "visit" => rd[r].v \in DOMAIN blocks /\ blocks[rd[r].v] # Null

\* operator[] of p_mHashMap is used only below size().
MapBelowSize == stray = {}
=============================================================================
