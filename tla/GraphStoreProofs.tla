------------------------- MODULE GraphStoreProofs ----------------------------
(***************************************************************************)
(* Proofs about the vertex table and the memory pool, for any number of    *)
(* threads, vertices and arenas.                                           *)
(***************************************************************************)
EXTENDS GraphStore, FiniteSetTheorems, SequenceTheorems, TLAPS

(* What the theorems assume of the constants.                              *)

\* No more threads than entries at construction, and a capacity that is never below
\* the size.
TableAssumption ==
  /\ IsFiniteSet(Creators) /\ block_count \in Nat
  /\ Cardinality(Creators) <= block_count
  /\ \A n \in Nat : capacity(n) \in Nat /\ capacity(n) >= n
  /\ Nobody \notin Creators
  /\ \A s, i : Null # [src |-> s, tmp_item |-> i]

\* Every thread has an allocator, and every arena has room for a block.
PoolAssumption ==
  /\ threadid \in [Creators -> ThreadIds]
  /\ FirstSpace \in Nat \ {0} /\ MoreSpace \in Nat \ {0}

\* Threads with the same threadid make vertices under the creation lock.
SharersLock ==
  \A c, d \in Creators : c # d /\ threadid[c] = threadid[d] => c \in Locked /\ d \in Locked

-----------------------------------------------------------------------------
(* The vertex table.                                                       *)

\* The creators that have an id and whose vertex is not known to others yet.
Holds(c) == cr[c].pc \in {"size", "grow", "publish", "return"}

\* The creators that have built a vertex and not published it.
Bears(c) == cr[c].pc \in {"draw", "size", "grow", "publish"}

Item == [thread : ThreadIds, arena : Nat, at : Nat]
Vertex == [src : Nat \cup {Null}, tmp_item : Item]
Pcs == {"idle", "lock", "build", "bump", "draw", "size", "grow", "publish", "return", "write"}
Creator == [pc : Pcs, x : External \cup {Null}, v : Nat \cup {Null}, eb : Vertex \cup {Null}]

TableType ==
  /\ node_num \in Nat
  /\ Size(blocks) \in Nat /\ Size(blocks) >= block_count
  /\ blocks \in [0 .. Size(blocks) - 1 -> Vertex \cup {Null}]
  /\ VertexDictionary \in [External -> Nat \cup {Absent, Filling}]
  /\ cr \in [Creators -> Creator]

CreatorType ==
  \A c \in Creators :
    /\ cr[c].pc # "idle" => cr[c].x \in External
    /\ Holds(c) \/ cr[c].pc = "write" => cr[c].v \in Nat
    /\ Bears(c) => cr[c].eb \in Vertex

\* An id that leads to a complete vertex.
Ready(v) == v \in DOMAIN blocks /\ blocks[v] # Null /\ blocks[v].src = v

IdsHeldOnce ==
  /\ \A c \in Creators : Holds(c) => cr[c].v < node_num
  /\ \A c, d \in Creators : c # d /\ Holds(c) /\ Holds(d) => cr[c].v # cr[d].v

\* An id without an entry is held by a creator that has yet to look.
EntriesFollow ==
  \A v \in Size(blocks) .. node_num - 1 :
    \E c \in Creators : cr[c].pc \in {"size", "grow"} /\ cr[c].v = v

EntryMade ==
  \A c \in Creators : cr[c].pc \in {"publish", "return"} => cr[c].v < Size(blocks)

PublishedOnce ==
  \A v \in DOMAIN blocks : blocks[v] # Null =>
    v < node_num /\ \A c \in Creators : Holds(c) /\ Bears(c) => cr[c].v # v

OwnId ==
  \A c \in Creators : c \in Locked /\ Holds(c) /\ Bears(c) => cr[c].eb.src = cr[c].v

BlockSet ==
  \A c \in Creators : cr[c].pc = "return" =>
    /\ blocks[cr[c].v] # Null
    /\ c \in Locked => blocks[cr[c].v].src = cr[c].v

KnownReady ==
  \A x \in External : VertexDictionary[x] \notin {Absent, Filling} => Ready(VertexDictionary[x])

WritersReady == \A c \in Creators : cr[c].pc = "write" => Ready(cr[c].v)

TableInv ==
  /\ TableType /\ CreatorType /\ IdsHeldOnce /\ EntriesFollow /\ EntryMade
  /\ PublishedOnce /\ OwnId /\ BlockSet /\ KnownReady /\ WritersReady

-----------------------------------------------------------------------------
(* The memory pool.                                                        *)

\* A two-level vector whose last row is the current one ...
VectorType(vec) ==
  /\ vec \in [IndrArray : Seq(Seq(Nat)), curIndex : Nat, curSize : Nat, blockSize : Nat]
  /\ Len(vec.IndrArray) = vec.curIndex + 1
  /\ vec.curSize = vec.blockSize

\* ... and ends in n.
VectorEnds(vec, n) ==
  /\ VectorType(vec)
  /\ Row(vec) # << >> /\ Row(vec)[Len(Row(vec))] = n

PoolType ==
  /\ arenas \in [ThreadIds -> Seq([totalSpace : Nat, offset : Nat])]
  /\ \A i \in ThreadIds : Len(arenas[i]) >= 1
  /\ \A i \in ThreadIds : VectorEnds(perThreadArr[i], Len(arenas[i]))
  /\ DOMAIN perThreadArr = ThreadIds

\* A block that has been handed out lies below the offset of its arena.
CutOff(b) == b.arena \in DOMAIN arenas[b.thread] /\ b.at < arenas[b.thread][b.arena].offset

ArenasHold ==
  \A i \in ThreadIds : \A a \in DOMAIN arenas[i] : arenas[i][a].offset <= arenas[i][a].totalSpace

InsideLock(c) == cr[c].pc \in {"build", "bump", "draw", "size", "grow", "publish", "return"}

Exclusive == \A c \in Creators : c \in Locked /\ InsideLock(c) => vertex_creation_mutex = c

SpaceKept == \A c \in Creators : cr[c].pc = "bump" => isFreeSpace(threadid[c])

Published == {v \in DOMAIN blocks : blocks[v] # Null}
Bearers == {c \in Creators : Bears(c)}

\* The write buffers of the vertices that exist.
Items == {blocks[v].tmp_item : v \in Published} \cup {cr[c].eb.tmp_item : c \in Bearers}

ItemsCutOff == \A b \in Items : b \in Item /\ CutOff(b)

ItemsCounted ==
  /\ IsFiniteSet(Items)
  /\ Cardinality(Items) = Cardinality(Published) + Cardinality(Bearers)

PoolInv == PoolType /\ ArenasHold /\ ItemsCutOff /\ Exclusive /\ SpaceKept /\ ItemsCounted

-----------------------------------------------------------------------------
(* The entries of a vector.                                                *)

LEMMA SizeOf ==
  ASSUME NEW n \in Nat, NEW f, DOMAIN f = 0 .. n - 1
  PROVE  Size(f) = n
<1>1. n - 1 \in Int /\ 0 \in Int
  OBVIOUS
<1>2. Cardinality(0 .. n - 1) = IF 0 > n - 1 THEN 0 ELSE n - 1 - 0 + 1
  BY <1>1, FS_Interval
<1> QED
  BY <1>2 DEF Size

\* A vector that grows keeps its entries; the new ones are Null.
LEMMA GrownFacts ==
  ASSUME NEW f, Size(f) \in Nat, f \in [0 .. Size(f) - 1 -> Vertex \cup {Null}], NEW n \in Nat
  PROVE  /\ Size(Grown(f, n)) \in Nat /\ Size(Grown(f, n)) >= Size(f)
         /\ Size(Grown(f, n)) >= n
         /\ Grown(f, n) \in [0 .. Size(Grown(f, n)) - 1 -> Vertex \cup {Null}]
         /\ \A v \in DOMAIN f : v \in DOMAIN Grown(f, n) /\ Grown(f, n)[v] = f[v]
         /\ \A v \in DOMAIN Grown(f, n) : v \notin DOMAIN f => Grown(f, n)[v] = Null
<1> DEFINE m == IF n > Size(f) THEN n ELSE Size(f)
           g == [v \in 0 .. m - 1 |-> IF v \in DOMAIN f THEN f[v] ELSE Null]
<1>1. m \in Nat /\ m >= Size(f) /\ m >= n
  OBVIOUS
<1>2. Grown(f, n) = g
  BY DEF Grown
<1>3. DOMAIN g = 0 .. m - 1
  OBVIOUS
<1>4. DOMAIN f = 0 .. Size(f) - 1
  OBVIOUS
<1> HIDE DEF m
<1>5. /\ \A v \in DOMAIN f : v \in 0 .. m - 1 /\ g[v] = f[v]
      /\ \A v \in 0 .. m - 1 : v \notin DOMAIN f => g[v] = Null
  BY <1>1, <1>4
<1>6. g \in [0 .. m - 1 -> Vertex \cup {Null}]
  BY <1>4
<1> HIDE DEF g
<1>7. Size(g) = m
  BY <1>1, <1>3, SizeOf
<1> QED
  BY <1>1, <1>2, <1>3, <1>5, <1>6, <1>7

\* A vector of which one entry is set has the same entries.
LEMMA SizeOfSet ==
  ASSUME NEW S, NEW f, Size(f) \in Nat, f \in [0 .. Size(f) - 1 -> S], NEW v, NEW w,
         NEW g, g = [f EXCEPT ![v] = w]
  PROVE  Size(g) = Size(f) /\ DOMAIN g = DOMAIN f
<1>1. DOMAIN g = 0 .. Size(f) - 1
  OBVIOUS
<1> QED
  BY <1>1, SizeOf

-----------------------------------------------------------------------------
(* The ids that have no entry yet are fewer than the entries there are.    *)

LEMMA IdsWithinTwice ==
  ASSUME TableAssumption, TableType, EntriesFollow, NEW v \in Nat, v < node_num
  PROVE  v < 2 * Size(blocks)
<1> DEFINE n == Size(blocks)
           Ids == {cr[c].v : c \in Creators}
<1>1. n \in Nat /\ n >= block_count /\ node_num \in Nat /\ block_count \in Nat
  BY DEF TableType, TableAssumption
<1>2. CASE v < n
  BY <1>1, <1>2
<1>3. CASE v >= n
  <2>1. (n .. node_num - 1) \subseteq Ids
    BY DEF EntriesFollow
  <2>2. IsFiniteSet(Ids) /\ Cardinality(Ids) <= Cardinality(Creators)
    <3>1. [c \in Creators |-> cr[c].v] \in Surjection(Creators, Ids)
      BY DEF Surjection
    <3> QED
      BY <3>1, FS_Surjection DEF TableAssumption
  <2> HIDE DEF Ids, n
  <2>3. Cardinality(n .. node_num - 1) <= Cardinality(Ids)
    BY <2>1, <2>2, FS_Subset
  <2>4. n \in Int /\ node_num - 1 \in Int /\ ~(n > node_num - 1)
    BY <1>1, <1>3
  <2>5. Cardinality(n .. node_num - 1) = node_num - 1 - n + 1
    BY <2>4, FS_Interval
  <2>6. Cardinality(Ids) \in Nat /\ Cardinality(Creators) \in Nat
    BY <2>2, FS_CardinalityType DEF TableAssumption
  <2>7. Cardinality(Creators) <= block_count
    BY DEF TableAssumption
  <2> QED
    BY <1>1, <2>2, <2>3, <2>5, <2>6, <2>7 DEF n
<1> QED
  BY <1>1, <1>2, <1>3

-----------------------------------------------------------------------------
(* What a step does to the creators.                                       *)

\* The step of c leaves the other creators and, of c, all but its pc.
Moves(c, p) ==
  /\ cr' \in [Creators -> Creator]
  /\ \A d \in Creators : d # c => cr'[d] = cr[d]
  /\ cr'[c].pc = p /\ cr'[c].x = cr[c].x /\ cr'[c].v = cr[c].v /\ cr'[c].eb = cr[c].eb

LEMMA GoMoves ==
  ASSUME TableType, NEW c \in Creators, NEW p \in Pcs, Go(c, p)
  PROVE  Moves(c, p)
BY DEF TableType, Go, Moves, Creator

\* A step that only moves c, out of the way of the others.
LEMMA TableMove ==
  ASSUME TableInv, NEW c \in Creators, NEW p \in Pcs, Moves(c, p),
         UNCHANGED <<node_num, blocks, VertexDictionary>>,
         \/ cr[c].pc = "lock" /\ p = "build"
         \/ cr[c].pc = "build" /\ p = "bump"
         \/ cr[c].pc = "size" /\ p \in {"publish", "grow"} /\ (p = "publish" => HasRoom(cr[c].v))
  PROVE  TableInv'
<1>1. TableType' /\ CreatorType'
  BY DEF TableInv, TableType, CreatorType, Moves, Holds, Bears, Size
<1>2. IdsHeldOnce'
  BY DEF TableInv, IdsHeldOnce, Moves, Holds
<1>3. EntriesFollow'
  <2>1. CASE p = "publish"
    <3>1. cr[c].v < Size(blocks)
      BY <2>1 DEF HasRoom
    <3>2. ASSUME NEW v \in Size(blocks) .. node_num - 1
          PROVE  \E d \in Creators : cr'[d].pc \in {"size", "grow"} /\ cr'[d].v = v
      <4>1. PICK d \in Creators : cr[d].pc \in {"size", "grow"} /\ cr[d].v = v
        BY DEF TableInv, EntriesFollow
      <4>2. d # c
        BY <3>1, <4>1 DEF TableInv, TableType
      <4> QED
        BY <4>1, <4>2 DEF Moves
    <3> QED
      BY <3>2 DEF EntriesFollow
  <2>2. CASE p # "publish"
    BY <2>2 DEF TableInv, EntriesFollow, Moves
  <2> QED
    BY <2>1, <2>2
<1>4. EntryMade'
  BY DEF TableInv, EntryMade, Moves, HasRoom
<1>5. PublishedOnce' /\ OwnId'
  BY DEF TableInv, PublishedOnce, OwnId, Moves, Holds, Bears
<1>6. BlockSet' /\ KnownReady' /\ WritersReady'
  BY DEF TableInv, BlockSet, KnownReady, WritersReady, Ready, Moves
<1> QED
  BY <1>1, <1>2, <1>3, <1>4, <1>5, <1>6 DEF TableInv
\* c looks an external vertex up.
LEMMA TableLookup ==
  ASSUME TableInv, NEW c \in Creators, Lookup(c)
  PROVE  TableInv'
<1> USE DEF TableInv
<1>1. PICK x \in External :
        \/ /\ VertexDictionary' = [VertexDictionary EXCEPT ![x] = Filling]
           /\ cr' = [cr EXCEPT ![c] = [Idle EXCEPT !.x = x, !.pc =
                                         IF c \in Locked THEN "lock" ELSE "build"]]
        \/ /\ VertexDictionary[x] \notin {Absent, Filling}
           /\ cr' = [cr EXCEPT ![c] = [Idle EXCEPT !.x = x, !.pc = "write",
                                                   !.v = VertexDictionary[x]]]
           /\ UNCHANGED VertexDictionary
  BY DEF Lookup
<1>2. cr[c].pc = "idle" /\ UNCHANGED <<node_num, blocks>>
  BY DEF Lookup, Stands
<1>3. /\ \A d \in Creators : d # c => cr'[d] = cr[d]
      /\ cr'[c].x = x /\ cr'[c].eb = Null
      /\ cr' \in [Creators -> Creator]
      /\ \/ /\ cr'[c].pc \in {"lock", "build"}
            /\ VertexDictionary' = [VertexDictionary EXCEPT ![x] = Filling]
         \/ /\ cr'[c].pc = "write" /\ cr'[c].v = VertexDictionary[x] /\ UNCHANGED VertexDictionary
            /\ VertexDictionary[x] \in Nat /\ VertexDictionary[x] \notin {Absent, Filling}
  <2>1. CASE /\ VertexDictionary' = [VertexDictionary EXCEPT ![x] = Filling]
             /\ cr' = [cr EXCEPT ![c] = [Idle EXCEPT !.x = x, !.pc =
                                           IF c \in Locked THEN "lock" ELSE "build"]]
    <3>1. [Idle EXCEPT !.x = x, !.pc = IF c \in Locked THEN "lock" ELSE "build"] \in Creator
      BY DEF Idle, Creator, Pcs
    <3> QED
      BY <2>1, <3>1 DEF Idle, TableType
  <2>2. CASE /\ VertexDictionary[x] \notin {Absent, Filling}
             /\ cr' = [cr EXCEPT ![c] = [Idle EXCEPT !.x = x, !.pc = "write",
                                                     !.v = VertexDictionary[x]]]
             /\ UNCHANGED VertexDictionary
    <3>1. VertexDictionary[x] \in Nat
      BY <2>2 DEF TableType
    <3>2. [Idle EXCEPT !.x = x, !.pc = "write", !.v = VertexDictionary[x]] \in Creator
      BY <3>1 DEF Idle, Creator, Pcs
    <3> QED
      BY <2>2, <3>1, <3>2 DEF Idle, TableType
  <2> QED
    BY <1>1, <2>1, <2>2
<1>4. TableType' /\ CreatorType'
  BY <1>2, <1>3 DEF TableType, CreatorType, Holds, Bears, Size
<1>5. IdsHeldOnce' /\ EntryMade'
  BY <1>2, <1>3 DEF IdsHeldOnce, EntryMade, Holds
<1>6. EntriesFollow'
  BY <1>2, <1>3 DEF EntriesFollow
<1>7. PublishedOnce' /\ OwnId'
  BY <1>2, <1>3 DEF PublishedOnce, OwnId, Holds, Bears
<1>8. BlockSet'
  BY <1>2, <1>3 DEF BlockSet
<1>9. KnownReady'
  <2>1. ASSUME NEW y \in External, VertexDictionary'[y] \notin {Absent, Filling}
        PROVE  VertexDictionary'[y] = VertexDictionary[y]
    BY <1>3, <2>1 DEF TableType
  <2> QED
    BY <1>2, <2>1 DEF KnownReady, Ready
<1>10. WritersReady'
  BY <1>2, <1>3 DEF WritersReady, KnownReady, Ready
<1> QED
  BY <1>4, <1>5, <1>6, <1>7, <1>8, <1>9, <1>10

\* c has built its vertex.
LEMMA TableBuild ==
  ASSUME TableInv, NEW c \in Creators, Stands(c, "bump"), NEW b \in Item,
         cr' = [cr EXCEPT ![c].pc = "draw", ![c].eb = [src |-> Null, tmp_item |-> b]],
         UNCHANGED <<node_num, blocks, VertexDictionary>>
  PROVE  TableInv'
<1> USE DEF TableInv
<1>1. /\ cr[c].pc = "bump"
      /\ \A d \in Creators : d # c => cr'[d] = cr[d]
      /\ cr'[c].pc = "draw" /\ cr'[c].x = cr[c].x /\ cr'[c].v = cr[c].v
      /\ cr'[c].eb = [src |-> Null, tmp_item |-> b] /\ cr'[c].eb \in Vertex
      /\ cr' \in [Creators -> Creator]
  BY ZenonT(30) DEF Stands, TableType, Creator, Pcs, Vertex
<1>2. TableType' /\ CreatorType'
  BY <1>1 DEF TableType, CreatorType, Holds, Bears, Size
<1>3. IdsHeldOnce' /\ EntryMade'
  BY <1>1 DEF IdsHeldOnce, EntryMade, Holds
<1>4. EntriesFollow'
  BY <1>1 DEF EntriesFollow
<1>5. PublishedOnce' /\ OwnId'
  BY <1>1 DEF PublishedOnce, OwnId, Holds, Bears
<1>6. BlockSet' /\ KnownReady' /\ WritersReady'
  BY <1>1 DEF BlockSet, KnownReady, WritersReady, Ready
<1> QED
  BY <1>2, <1>3, <1>4, <1>5, <1>6

\* c draws the next id.
LEMMA TableDraw ==
  ASSUME TableInv, NEW c \in Creators, DrawId(c)
  PROVE  TableInv'
<1> USE DEF TableInv
<1>1. /\ cr[c].pc = "draw" /\ node_num \in Nat /\ node_num' = node_num + 1
      /\ UNCHANGED <<blocks, VertexDictionary>>
  BY DEF DrawId, Stands, TableType
<1>2. cr[c].eb \in Vertex
  BY <1>1 DEF CreatorType, Bears
<1>3. /\ \A d \in Creators : d # c => cr'[d] = cr[d]
      /\ cr'[c].pc = "size" /\ cr'[c].x = cr[c].x /\ cr'[c].v = node_num
      /\ cr'[c].eb \in Vertex /\ (c \in Locked => cr'[c].eb.src = node_num)
      /\ cr' \in [Creators -> Creator]
  <2> DEFINE s == IF c \in Locked THEN node_num ELSE cr[c].eb.src
             w == [cr[c].eb EXCEPT !.src = s]
             z == [cr[c] EXCEPT !.pc = "size", !.v = node_num, !.eb = w]
  <2>1. s \in Nat \cup {Null}
    BY <1>1, <1>2 DEF Vertex
  <2>2. w \in Vertex /\ w.src = s
    BY <1>2, <2>1 DEF Vertex
  <2>3. cr' = [cr EXCEPT ![c] = z]
    BY DEF DrawId, TableType, Creator
  <2> HIDE DEF w
  <2>4. z \in Creator /\ z.pc = "size" /\ z.x = cr[c].x /\ z.v = node_num /\ z.eb = w
    BY <1>1, <2>2 DEF TableType, Creator, Pcs
  <2> HIDE DEF z
  <2>5. cr'[c] = z /\ cr' \in [Creators -> Creator] /\ \A d \in Creators : d # c => cr'[d] = cr[d]
    BY <2>3, <2>4 DEF TableType
  <2> QED
    BY <2>2, <2>4, <2>5
<1>4. TableType' /\ CreatorType'
  BY <1>1, <1>3 DEF TableType, CreatorType, Holds, Bears, Size
<1>5. IdsHeldOnce'
  <2>1. \A d \in Creators : d # c /\ Holds(d)' => cr'[d].v < node_num /\ cr'[d].v \in Nat
    BY <1>3 DEF IdsHeldOnce, Holds, CreatorType
  <2> QED
    BY <1>1, <1>3, <2>1 DEF IdsHeldOnce, Holds
<1>6. EntryMade'
  BY <1>1, <1>3 DEF EntryMade
<1>7. EntriesFollow'
  <2>1. ASSUME NEW v \in Size(blocks) .. node_num'- 1
        PROVE  \E d \in Creators : cr'[d].pc \in {"size", "grow"} /\ cr'[d].v = v
    <3>1. CASE v = node_num
      BY <1>3, <3>1
    <3>2. CASE v # node_num
      <4>1. v \in Size(blocks) .. node_num - 1
        BY <1>1, <3>2 DEF TableType
      <4>2. PICK d \in Creators : cr[d].pc \in {"size", "grow"} /\ cr[d].v = v
        BY <4>1 DEF EntriesFollow
      <4> QED
        BY <1>1, <1>3, <4>2
    <3> QED
      BY <3>1, <3>2
  <2> QED
    BY <1>1, <2>1 DEF EntriesFollow
<1>8. PublishedOnce'
  <2>1. \A v \in DOMAIN blocks : v \in Nat
    BY DEF TableType
  <2> QED
    BY <1>1, <1>3, <2>1 DEF PublishedOnce, Holds, Bears
<1>9. OwnId'
  BY <1>1, <1>3 DEF OwnId, Holds, Bears
<1>10. BlockSet' /\ KnownReady' /\ WritersReady'
  BY <1>1, <1>3 DEF BlockSet, KnownReady, WritersReady, Ready
<1> QED
  BY <1>4, <1>5, <1>6, <1>7, <1>8, <1>9, <1>10

\* c has written its edge.
LEMMA TableWrite ==
  ASSUME TableInv, NEW c \in Creators, WriteEdge(c)
  PROVE  TableInv'
<1> USE DEF TableInv
<1>1. /\ cr[c].pc = "write" /\ UNCHANGED <<node_num, blocks, VertexDictionary>>
      /\ \A d \in Creators : d # c => cr'[d] = cr[d]
      /\ cr'[c].pc = "idle" /\ cr' \in [Creators -> Creator]
  BY DEF WriteEdge, Stands, Idle, TableType, Creator, Pcs
<1>2. TableType' /\ CreatorType'
  BY <1>1 DEF TableType, CreatorType, Holds, Bears, Size
<1>3. IdsHeldOnce' /\ EntryMade'
  BY <1>1 DEF IdsHeldOnce, EntryMade, Holds
<1>4. EntriesFollow'
  BY <1>1 DEF EntriesFollow
<1>5. PublishedOnce' /\ OwnId'
  BY <1>1 DEF PublishedOnce, OwnId, Holds, Bears
<1>6. BlockSet' /\ KnownReady' /\ WritersReady'
  BY <1>1 DEF BlockSet, KnownReady, WritersReady, Ready
<1> QED
  BY <1>2, <1>3, <1>4, <1>5, <1>6
\* The table grows, so that there is room for the id of c.
LEMMA TableGrown ==
  ASSUME TableAssumption, TableInv, NEW c \in Creators, cr[c].pc = "grow", Moves(c, "publish"),
         NEW n \in Nat, blocks' = Grown(blocks, n), cr[c].v < Size(blocks) \/ cr[c].v < n,
         UNCHANGED <<node_num, VertexDictionary>>
  PROVE  TableInv'
<1> USE DEF TableInv
<1> DEFINE m == Size(blocks)
           k == Size(blocks')
<1>1. /\ m \in Nat /\ m >= block_count /\ block_count \in Nat
      /\ blocks \in [0 .. m - 1 -> Vertex \cup {Null}]
  BY DEF TableType, TableAssumption
<1>2. /\ k \in Nat /\ k >= m /\ k >= n
      /\ blocks' \in [0 .. k - 1 -> Vertex \cup {Null}]
      /\ \A v \in DOMAIN blocks : v \in DOMAIN blocks' /\ blocks'[v] = blocks[v]
      /\ \A v \in DOMAIN blocks' : v \notin DOMAIN blocks => blocks'[v] = Null
  <2> DEFINE g == Grown(blocks, n)
  <2>1. /\ Size(g) \in Nat /\ Size(g) >= m /\ Size(g) >= n
        /\ g \in [0 .. Size(g) - 1 -> Vertex \cup {Null}]
        /\ \A v \in DOMAIN blocks : v \in DOMAIN g /\ g[v] = blocks[v]
        /\ \A v \in DOMAIN g : v \notin DOMAIN blocks => g[v] = Null
    BY <1>1, GrownFacts
  <2>2. blocks' = g
    OBVIOUS
  <2> HIDE DEF g
  <2> QED
    BY <2>1, <2>2
<1>3. cr[c].v \in Nat
  BY DEF CreatorType, Holds
<1>4. DOMAIN blocks = 0 .. m - 1 /\ DOMAIN blocks' = 0 .. k - 1
  BY <1>1, <1>2
<1>5. Size(blocks)' = k
  BY DEF Size
<1> HIDE DEF m, k
<1>6. TableType'
  BY <1>1, <1>2, <1>5 DEF TableType, Moves
<1>7. CreatorType'
  BY DEF CreatorType, Moves, Holds, Bears
<1>8. IdsHeldOnce'
  BY DEF IdsHeldOnce, Moves, Holds
<1>9. EntriesFollow'
  <2>1. ASSUME NEW v \in k .. node_num - 1
        PROVE  \E d \in Creators : cr'[d].pc \in {"size", "grow"} /\ cr'[d].v = v
    <3>1. v \in m .. node_num - 1 /\ v # cr[c].v
      BY <1>1, <1>2, <1>3 DEF m, TableType
    <3>2. PICK d \in Creators : cr[d].pc \in {"size", "grow"} /\ cr[d].v = v
      BY <3>1 DEF m, EntriesFollow
    <3> QED
      BY <3>1, <3>2 DEF Moves
  <2> QED
    BY <1>5, <2>1 DEF EntriesFollow
<1>10. EntryMade'
  <2>1. ASSUME NEW d \in Creators, cr'[d].pc \in {"publish", "return"} PROVE cr'[d].v < k
    <3>1. CASE d = c
      BY <1>1, <1>2, <1>3, <3>1 DEF Moves, m
    <3>2. CASE d # c
      <4>1. cr'[d] = cr[d] /\ cr[d].v < m /\ cr[d].v \in Nat
        BY <2>1, <3>2 DEF Moves, EntryMade, CreatorType, Holds, m
      <4> QED
        BY <1>1, <1>2, <4>1
    <3> QED
      BY <3>1, <3>2
  <2> QED
    BY <1>5, <2>1 DEF EntryMade
<1>11. PublishedOnce'
  BY <1>2 DEF PublishedOnce, Moves, Holds, Bears
<1>12. OwnId'
  BY DEF OwnId, Moves, Holds, Bears
<1>13. BlockSet'
  <2>1. ASSUME NEW d \in Creators, cr'[d].pc = "return"
        PROVE  blocks'[cr'[d].v] = blocks[cr[d].v] /\ cr'[d] = cr[d]
    <3>1. d # c /\ cr'[d] = cr[d]
      BY <2>1 DEF Moves
    <3>2. cr[d].v \in DOMAIN blocks
      BY <1>1, <1>4, <2>1, <3>1 DEF EntryMade, CreatorType, Holds, m
    <3> QED
      BY <1>2, <3>1, <3>2
  <2> QED
    BY <2>1 DEF BlockSet
<1>14. KnownReady' /\ WritersReady'
  BY <1>2 DEF KnownReady, WritersReady, Ready, Moves
<1> QED
  BY <1>6, <1>7, <1>8, <1>9, <1>10, <1>11, <1>12, <1>13, <1>14

LEMMA TableGrow ==
  ASSUME TableAssumption, TableInv, NEW c \in Creators, Grow(c)
  PROVE  TableInv'
<1>1. cr[c].pc = "grow" /\ Moves(c, "publish") /\ UNCHANGED <<node_num, VertexDictionary>>
  BY GoMoves DEF Grow, Stands, Pcs, TableInv
<1>2. cr[c].v \in Nat /\ cr[c].v < node_num /\ Size(blocks) \in Nat
  BY <1>1 DEF TableInv, CreatorType, IdsHeldOnce, Holds, TableType
<1>3. CASE HasRoom(cr[c].v) /\ UNCHANGED blocks
  <2>1. blocks \in [0 .. Size(blocks) - 1 -> Vertex \cup {Null}] /\ ~(0 > Size(blocks))
    BY <1>2 DEF TableInv, TableType
  <2>2. Grown(blocks, 0) = blocks
    BY <2>1 DEF Grown
  <2> QED
    BY <1>1, <1>3, <2>2, TableGrown DEF HasRoom
<1>4. CASE blocks' = Grown(blocks, Larger(cr[c].v + 1, 2 * Size(blocks)))
  <2>1. Larger(cr[c].v + 1, 2 * Size(blocks)) \in Nat /\ cr[c].v < Larger(cr[c].v + 1, 2 * Size(blocks))
    BY <1>2 DEF Larger
  <2> QED
    BY <1>1, <1>4, <2>1, TableGrown
<1>5. CASE blocks' = Grown(blocks, 2 * Capacity(blocks))
  <2>1. Capacity(blocks) \in Nat /\ Capacity(blocks) >= Size(blocks)
    BY <1>2 DEF Capacity, TableAssumption
  <2>2. cr[c].v < 2 * Size(blocks)
    BY <1>2, IdsWithinTwice DEF TableInv
  <2>3. 2 * Capacity(blocks) \in Nat /\ cr[c].v < 2 * Capacity(blocks)
    BY <1>2, <2>1, <2>2
  <2> QED
    BY <1>1, <1>5, <2>3, TableGrown
<1> QED
  BY <1>3, <1>4, <1>5 DEF Grow
\* c publishes its vertex.
LEMMA TablePublish ==
  ASSUME TableAssumption, TableInv, NEW c \in Creators, Publish(c)
  PROVE  TableInv'
<1> USE DEF TableInv
<1>0. PICK u, w : u = cr[c].v /\ w = cr[c].eb
  OBVIOUS
<1>1. cr[c].pc = "publish" /\ Moves(c, "return") /\ UNCHANGED <<node_num, VertexDictionary>>
  BY GoMoves DEF Publish, Stands, Pcs
<1>2. /\ u \in Nat /\ u < Size(blocks) /\ Size(blocks) \in Nat /\ u < node_num
      /\ blocks \in [0 .. Size(blocks) - 1 -> Vertex \cup {Null}]
      /\ w \in Vertex
  BY <1>0, <1>1 DEF CreatorType, EntryMade, TableType, Holds, Bears, IdsHeldOnce
<1>3. u \in DOMAIN blocks
  BY <1>2
<1>4. blocks' = [blocks EXCEPT ![u] = w]
  BY <1>0, <1>3 DEF Publish
<1>5. Size(blocks') = Size(blocks) /\ DOMAIN blocks' = DOMAIN blocks
  BY <1>2, <1>4, SizeOfSet
<1>6. /\ blocks' \in [0 .. Size(blocks) - 1 -> Vertex \cup {Null}]
      /\ blocks'[u] = w
      /\ \A v \in DOMAIN blocks : v # u => blocks'[v] = blocks[v]
  BY <1>2, <1>3, <1>4
<1>7. w # Null
  <2>1. w = [src |-> w.src, tmp_item |-> w.tmp_item]
    BY <1>2 DEF Vertex
  <2> QED
    BY <2>1 DEF TableAssumption
<1>8. blocks[u] = Null
  BY <1>0, <1>1, <1>3 DEF PublishedOnce, Holds, Bears
<1>9. Size(blocks)' = Size(blocks)
  BY <1>5 DEF Size
<1>10. TableType'
  BY <1>1, <1>2, <1>6, <1>9 DEF TableType, Moves
<1>11. CreatorType'
  BY <1>1 DEF CreatorType, Moves, Holds, Bears
<1>12. IdsHeldOnce'
  BY <1>1 DEF IdsHeldOnce, Moves, Holds
<1>13. EntriesFollow'
  BY <1>1, <1>9 DEF EntriesFollow, Moves
<1>14. EntryMade'
  BY <1>1, <1>9 DEF EntryMade, Moves
<1>15. PublishedOnce'
  <2>1. ASSUME NEW v \in DOMAIN blocks, blocks'[v] # Null, NEW d \in Creators, Holds(d)', Bears(d)'
        PROVE  cr'[d].v # v
    <3>1. d # c /\ cr'[d] = cr[d] /\ Holds(d) /\ Bears(d)
      BY <1>1, <2>1 DEF Moves, Holds, Bears
    <3>2. CASE v = u
      BY <1>0, <1>1, <3>1, <3>2 DEF IdsHeldOnce, Holds
    <3>3. CASE v # u
      BY <1>6, <2>1, <3>1, <3>3 DEF PublishedOnce
    <3> QED
      BY <3>2, <3>3
  <2>2. ASSUME NEW v \in DOMAIN blocks, blocks'[v] # Null PROVE v < node_num
    BY <1>2, <1>6, <2>2 DEF PublishedOnce
  <2> QED
    BY <1>1, <1>5, <2>1, <2>2 DEF PublishedOnce
<1>16. OwnId'
  BY <1>1 DEF OwnId, Moves, Holds, Bears
<1>17. BlockSet'
  <2>1. ASSUME NEW d \in Creators, cr'[d].pc = "return"
        PROVE  blocks'[cr'[d].v] # Null /\ (d \in Locked => blocks'[cr'[d].v].src = cr'[d].v)
    <3>1. CASE d = c
      BY <1>0, <1>1, <1>6, <1>7, <3>1 DEF Moves, OwnId, Holds, Bears
    <3>2. CASE d # c
      <4>1. cr'[d] = cr[d] /\ cr[d].v # u /\ cr[d].v < Size(blocks) /\ cr[d].v \in Nat
        BY <1>0, <1>1, <2>1, <3>2 DEF Moves, IdsHeldOnce, EntryMade, Holds, CreatorType
      <4>2. blocks'[cr[d].v] = blocks[cr[d].v]
        BY <1>2, <1>6, <4>1
      <4> QED
        BY <2>1, <4>1, <4>2 DEF BlockSet
    <3> QED
      BY <3>1, <3>2
  <2> QED
    BY <2>1 DEF BlockSet
<1>18. \A v : Ready(v) => Ready(v)'
  BY <1>5, <1>6, <1>8 DEF Ready
<1>19. KnownReady' /\ WritersReady'
  BY <1>1, <1>18 DEF KnownReady, WritersReady, Moves, Ready
<1> QED
  BY <1>10, <1>11, <1>12, <1>13, <1>14, <1>15, <1>16, <1>17, <1>19

\* c returns the id.
LEMMA TableReturn ==
  ASSUME TableAssumption, TableInv, NEW c \in Creators, Return(c)
  PROVE  TableInv'
<1> USE DEF TableInv
<1>0. PICK u : u = cr[c].v
  OBVIOUS
<1>1. cr[c].pc = "return" /\ Moves(c, "write") /\ UNCHANGED node_num
  BY GoMoves DEF Return, Stands, Pcs
<1>2. /\ u \in Nat /\ u < Size(blocks) /\ Size(blocks) \in Nat /\ u < node_num
      /\ blocks \in [0 .. Size(blocks) - 1 -> Vertex \cup {Null}]
      /\ cr[c].x \in External
      /\ VertexDictionary \in [External -> Nat \cup {Absent, Filling}]
  BY <1>0, <1>1 DEF CreatorType, EntryMade, TableType, Holds, Bears, IdsHeldOnce
<1>3. u \in DOMAIN blocks
  BY <1>2
<1>4. blocks[u] \in Vertex /\ blocks[u] # Null /\ (c \in Locked => blocks[u].src = u)
  BY <1>0, <1>1, <1>2, <1>3 DEF BlockSet
<1>5. PICK w \in Vertex : w.src = u /\ w.tmp_item = blocks[u].tmp_item /\ blocks' = [blocks EXCEPT ![u] = w]
  <2>1. CASE c \in Locked
    <3>1. blocks' = blocks /\ blocks = [blocks EXCEPT ![u] = blocks[u]]
      BY <1>0, <1>2, <2>1 DEF Return
    <3> QED
      BY <1>4, <2>1, <3>1
  <2>2. CASE c \notin Locked
    <3> DEFINE z == [blocks[u] EXCEPT !.src = u]
    <3>1. z \in Vertex /\ z.src = u /\ z.tmp_item = blocks[u].tmp_item
      BY <1>2, <1>4 DEF Vertex
    <3>2. blocks' = [blocks EXCEPT ![u] = z]
      BY <1>0, <1>3, <2>2 DEF Return
    <3> QED
      BY <3>1, <3>2
  <2> QED
    BY <2>1, <2>2
<1>6. Size(blocks') = Size(blocks) /\ DOMAIN blocks' = DOMAIN blocks
  BY <1>2, <1>5, SizeOfSet, ZenonT(30)
<1>7. /\ blocks' \in [0 .. Size(blocks) - 1 -> Vertex \cup {Null}]
      /\ blocks'[u] = w
      /\ \A v \in DOMAIN blocks : v # u => blocks'[v] = blocks[v]
  BY <1>2, <1>3, <1>5
<1>8. w # Null
  <2>1. w = [src |-> w.src, tmp_item |-> w.tmp_item]
    BY DEF Vertex
  <2> QED
    BY <2>1 DEF TableAssumption
<1>9. Size(blocks)' = Size(blocks)
  BY <1>6 DEF Size
<1>10. /\ VertexDictionary' \in [External -> Nat \cup {Absent, Filling}]
       /\ \A x \in External : VertexDictionary'[x] \in {u, VertexDictionary[x]}
  BY <1>0, <1>2 DEF Return
<1>11. TableType'
  BY <1>1, <1>2, <1>7, <1>9, <1>10 DEF TableType, Moves
<1>12. CreatorType'
  BY <1>1 DEF CreatorType, Moves, Holds, Bears
<1>13. IdsHeldOnce'
  BY <1>1 DEF IdsHeldOnce, Moves, Holds
<1>14. EntriesFollow'
  BY <1>1, <1>9 DEF EntriesFollow, Moves
<1>15. EntryMade'
  BY <1>1, <1>9 DEF EntryMade, Moves
<1>16. \A v \in DOMAIN blocks : blocks'[v] # Null <=> blocks[v] # Null
  BY <1>4, <1>7, <1>8
<1>17. PublishedOnce'
  BY <1>1, <1>6, <1>16 DEF PublishedOnce, Moves, Holds, Bears
<1>18. OwnId'
  BY <1>1 DEF OwnId, Moves, Holds, Bears
<1>19. BlockSet'
  <2>1. ASSUME NEW d \in Creators, cr'[d].pc = "return"
        PROVE  blocks'[cr'[d].v] # Null /\ (d \in Locked => blocks'[cr'[d].v].src = cr'[d].v)
    <3>1. d # c
      BY <1>1, <2>1 DEF Moves
    <3>2. cr'[d] = cr[d] /\ cr[d].v # u /\ cr[d].v < Size(blocks) /\ cr[d].v \in Nat
      BY <1>0, <1>1, <2>1, <3>1 DEF Moves, IdsHeldOnce, EntryMade, Holds, CreatorType
    <3>3. blocks'[cr[d].v] = blocks[cr[d].v]
      BY <1>2, <1>7, <3>2
    <3> QED
      BY <2>1, <3>2, <3>3 DEF BlockSet
  <2> QED
    BY <2>1 DEF BlockSet
<1>20. Ready(u)'
  BY <1>3, <1>5, <1>6, <1>7, <1>8 DEF Ready
<1>21. \A v : Ready(v) => Ready(v)'
  <2>1. ASSUME NEW v, Ready(v), v # u PROVE Ready(v)'
    BY <1>6, <1>7, <2>1 DEF Ready
  <2> QED
    BY <1>20, <2>1
<1>22. KnownReady'
  BY <1>10, <1>20, <1>21 DEF KnownReady, Ready
<1>23. WritersReady'
  BY <1>0, <1>1, <1>20, <1>21 DEF WritersReady, Moves, Ready
<1> QED
  BY <1>11, <1>12, <1>13, <1>14, <1>15, <1>17, <1>18, <1>19, <1>22, <1>23
-----------------------------------------------------------------------------
(* The two-level vector of arenas.                                         *)

LEMMA FirstVectorEnds == VectorEnds(FirstVector, 1)
<1>1. <<1>> \in Seq(Nat) /\ Len(<<1>>) = 1 /\ <<1>>[1] = 1
  OBVIOUS
<1>2. <<<<1>>>> \in Seq(Seq(Nat)) /\ Len(<<<<1>>>>) = 1 /\ <<<<1>>>>[1] = <<1>>
  BY <1>1
<1> QED
  BY <1>1, <1>2 DEF VectorEnds, VectorType, FirstVector, Row

LEMMA AddBlockType ==
  ASSUME NEW vec, VectorType(vec)
  PROVE  VectorType(addBlock(vec))
<1> DEFINE n == vec.curIndex + 1
           a == SubSeq(vec.IndrArray, 1, n)
<1>1. /\ vec.IndrArray \in Seq(Seq(Nat)) /\ vec.curIndex \in Nat /\ n \in Nat
      /\ Len(vec.IndrArray) = n
  BY DEF VectorType
<1>2. a = vec.IndrArray
  BY <1>1
<1>3. << << >> >> \in Seq(Seq(Nat)) /\ Len(<< << >> >>) = 1
  <2>1. << >> \in Seq(Nat)
    OBVIOUS
  <2> QED
    BY <2>1
<1>4. a \o << << >> >> \in Seq(Seq(Nat)) /\ Len(a \o << << >> >>) = n + 1
  BY <1>1, <1>2, <1>3, ConcatProperties
<1> HIDE DEF a
<1>5. addBlock(vec) = [vec EXCEPT !.curIndex = @ + 1, !.IndrArray = a \o << << >> >>]
  BY DEF addBlock, a
<1> QED
  BY <1>1, <1>4, <1>5 DEF VectorType

LEMMA InsertEnds ==
  ASSUME NEW vec, VectorType(vec), NEW ga \in Nat
  PROVE  VectorEnds(insert(vec, ga), ga)
<1> DEFINE v0 == IF vec.curIndex = vec.blockSize - 1 THEN setIndrArray(vec) ELSE vec
           room == IF ~IscurIndexFull(vec) THEN vec ELSE addBlock(v0)
<1>1. VectorType(v0)
  <2>1. CASE vec.curIndex = vec.blockSize - 1
    <3> DEFINE z == setIndrArray(vec)
    <3>1. vec.curSize \in Nat /\ vec.curSize - 1 = vec.curIndex /\ 2 * vec.curSize \in Nat
      BY <2>1 DEF VectorType
    <3> DEFINE n == 2 * vec.curSize
    <3>2. z = [vec EXCEPT !.curIndex = vec.curIndex, !.curSize = n, !.blockSize = n]
      BY <3>1 DEF setIndrArray, VectorType
    <3> HIDE DEF n, z
    <3>3. VectorType(z)
      BY <3>1, <3>2 DEF VectorType, n
    <3>4. v0 = z
      BY <2>1 DEF z
    <3> QED
      BY <3>3, <3>4
  <2> QED
    BY <2>1
<1> HIDE DEF v0
<1>2. VectorType(room)
  BY <1>1, AddBlockType
<1>3. insert(vec, ga) = [room EXCEPT !.IndrArray[room.curIndex + 1] = Append(@, ga)]
  BY DEF insert, v0
<1> HIDE DEF room
<1> DEFINE n == room.curIndex + 1
           row == Append(room.IndrArray[n], ga)
           rows == [room.IndrArray EXCEPT ![n] = row]
<1>4. /\ room.IndrArray \in Seq(Seq(Nat)) /\ room.curIndex \in Nat /\ n \in Nat /\ n >= 1
      /\ Len(room.IndrArray) = n
  BY <1>2 DEF VectorType
<1>5. n \in DOMAIN room.IndrArray /\ room.IndrArray[n] \in Seq(Nat)
  BY <1>4
<1>6. row \in Seq(Nat) /\ row # << >> /\ row[Len(row)] = ga
  BY <1>5, AppendProperties, SMTT(20)
<1> HIDE DEF row
<1>7. rows \in Seq(Seq(Nat)) /\ Len(rows) = n /\ rows[n] = row
  BY <1>4, <1>5, <1>6
<1>8. insert(vec, ga) = [room EXCEPT !.IndrArray = rows]
  BY <1>2, <1>3 DEF VectorType, row
<1> HIDE DEF rows
<1>9. VectorType(insert(vec, ga)) /\ Row(insert(vec, ga)) = row
  BY <1>2, <1>4, <1>7, <1>8 DEF VectorType, Row
<1> QED
  BY <1>6, <1>9 DEF VectorEnds
-----------------------------------------------------------------------------
(* The arenas of a thread.                                                 *)

LEMMA CurrentIsLast ==
  ASSUME PoolType, NEW i \in ThreadIds
  PROVE  /\ Current(i) = Len(arenas[i]) /\ Current(i) \in Nat /\ Current(i) \in DOMAIN arenas[i]
         /\ arenas[i][Current(i)] \in [totalSpace : Nat, offset : Nat]
<1>1. Current(i) = Len(arenas[i])
  BY DEF PoolType, VectorEnds, Current
<1>2. arenas[i] \in Seq([totalSpace : Nat, offset : Nat]) /\ Len(arenas[i]) >= 1
  BY DEF PoolType
<1>3. Len(arenas[i]) \in DOMAIN arenas[i] /\ Len(arenas[i]) \in Nat
  BY <1>2, LenProperties
<1> QED
  BY <1>1, <1>2, <1>3, ElementOfSeq, LenProperties

\* What EnsureSpace does for thread i.
LEMMA Ensured ==
  ASSUME PoolAssumption, PoolType, NEW i \in ThreadIds, EnsureSpace(i)
  PROVE  /\ PoolType' /\ (ArenasHold => ArenasHold') /\ isFreeSpace(i)'
         /\ \A j \in ThreadIds : j # i => isFreeSpace(j)' = isFreeSpace(j)
         /\ \A j \in ThreadIds : \A a \in DOMAIN arenas[j] :
              a \in DOMAIN arenas'[j] /\ arenas'[j][a] = arenas[j][a]
<1>1. CASE isFreeSpace(i)
  BY <1>1 DEF EnsureSpace, PoolType, ArenasHold, isFreeSpace, Current, VectorEnds
<1>2. CASE ~isFreeSpace(i)
  <2> DEFINE n == Len(arenas[i]) + 1
             A == [totalSpace : Nat, offset : Nat]
  <2>1. /\ arenas' = [arenas EXCEPT ![i] = Append(arenas[i], Arena(MoreSpace))]
        /\ perThreadArr' = [perThreadArr EXCEPT ![i] = insert(perThreadArr[i], n)]
    BY <1>2 DEF EnsureSpace
  <2>2. arenas[i] \in Seq(A) /\ Arena(MoreSpace) \in A /\ n \in Nat /\ n >= 1
    BY LenProperties DEF PoolType, PoolAssumption, Arena
  <2>3. /\ arenas'[i] \in Seq(A) /\ Len(arenas'[i]) = n /\ arenas'[i][n] = Arena(MoreSpace)
        /\ \A a \in 1 .. n - 1 : arenas'[i][a] = arenas[i][a]
    <3>1. arenas'[i] = Append(arenas[i], Arena(MoreSpace))
      BY <2>1 DEF PoolType
    <3> QED
      BY <2>2, <3>1, AppendProperties, LenProperties
  <2>4. VectorEnds(perThreadArr'[i], n)
    BY <2>1, <2>2, InsertEnds DEF PoolType, VectorEnds
  <2>5. /\ \A j \in ThreadIds : j # i => arenas'[j] = arenas[j] /\ perThreadArr'[j] = perThreadArr[j]
        /\ DOMAIN perThreadArr' = ThreadIds /\ DOMAIN arenas' = ThreadIds
        /\ arenas' = [j \in ThreadIds |-> arenas'[j]]
    BY <2>1 DEF PoolType
  <2>6. PoolType'
    <3>1. arenas' \in [ThreadIds -> Seq(A)]
      BY <2>3, <2>5 DEF PoolType
    <3>2. \A j \in ThreadIds : Len(arenas'[j]) >= 1 /\ VectorEnds(perThreadArr'[j], Len(arenas'[j]))
      BY <2>2, <2>3, <2>4, <2>5 DEF PoolType
    <3> QED
      BY <2>5, <3>1, <3>2 DEF PoolType, VectorEnds, VectorType, Row
  <2>7. DOMAIN arenas[i] = 1 .. n - 1 /\ DOMAIN arenas'[i] = 1 .. n
    BY <2>2, <2>3, LenProperties
  <2> HIDE DEF n
  <2>8. \A j \in ThreadIds : \A a \in DOMAIN arenas[j] :
          a \in DOMAIN arenas'[j] /\ arenas'[j][a] = arenas[j][a]
    <3>1. \A a \in DOMAIN arenas[i] : a \in DOMAIN arenas'[i] /\ arenas'[i][a] = arenas[i][a]
      <4>1. n \in Nat
        BY <2>2
      <4>2. \A a \in 1 .. n - 1 : a \in 1 .. n
        BY <4>1
      <4>3. \A a \in 1 .. n - 1 : arenas'[i][a] = arenas[i][a]
        BY <2>3
      <4> QED
        BY <2>7, <4>2, <4>3
    <3> QED
      BY <2>5, <3>1
  <2>9. ASSUME ArenasHold PROVE ArenasHold'
    <3>1. ASSUME NEW j \in ThreadIds, NEW a \in DOMAIN arenas'[j]
          PROVE  arenas'[j][a].offset <= arenas'[j][a].totalSpace
      <4>1. CASE a \in DOMAIN arenas[j]
        BY <2>8, <2>9, <4>1 DEF ArenasHold
      <4>2. CASE a \notin DOMAIN arenas[j]
        <5>1. j = i /\ a = n
          BY <2>2, <2>5, <2>7, <4>2
        <5> QED
          BY <2>3, <5>1 DEF Arena, PoolAssumption
      <4> QED
        BY <4>1, <4>2
    <3> QED
      BY <3>1 DEF ArenasHold
  <2>10. isFreeSpace(i)'
    <3>1. Row(perThreadArr'[i])[Len(Row(perThreadArr'[i]))] = n
      BY <2>4 DEF VectorEnds
    <3>2. Current(i)' = n
      BY <3>1 DEF Current, Row
    <3>3. arenas'[i][n].offset + 1 <= arenas'[i][n].totalSpace
      BY <2>3 DEF Arena, PoolAssumption
    <3> QED
      BY <3>2, <3>3 DEF isFreeSpace
  <2>11. \A j \in ThreadIds : j # i => isFreeSpace(j)' = isFreeSpace(j)
    BY <2>5 DEF isFreeSpace, Current, Row
  <2> QED
    BY <2>6, <2>8, <2>9, <2>10, <2>11
<1> QED
  BY <1>1, <1>2

\* What Bump does for thread i, and what when its arena has room.
LEMMA Bumped ==
  ASSUME PoolType, NEW i \in ThreadIds, Bump(i), NEW b, b = NextBlock(i)
  PROVE  /\ PoolType' /\ (ArenasHold /\ isFreeSpace(i) => ArenasHold') /\ b \in Item /\ ~CutOff(b) /\ CutOff(b)'
         /\ \A j \in ThreadIds : j # i => isFreeSpace(j)' = isFreeSpace(j)
         /\ \A j \in ThreadIds : \A a \in DOMAIN arenas[j] :
              /\ a \in DOMAIN arenas'[j] /\ arenas'[j][a].offset >= arenas[j][a].offset
              /\ arenas'[j][a].totalSpace = arenas[j][a].totalSpace
<1> DEFINE A == [totalSpace : Nat, offset : Nat]
<1>1. PICK n : n = Len(arenas[i])
  OBVIOUS
<1>2. /\ Current(i) = n /\ n \in Nat /\ n \in DOMAIN arenas[i]
      /\ arenas[i][n] \in A
  BY <1>1, CurrentIsLast
<1>3. PICK w : w = [totalSpace |-> arenas[i][n].totalSpace, offset |-> arenas[i][n].offset + 1]
  OBVIOUS
<1>4. /\ w \in A /\ w.offset = arenas[i][n].offset + 1 /\ w.totalSpace = arenas[i][n].totalSpace
      /\ isFreeSpace(i) => w.offset <= w.totalSpace
  BY <1>2, <1>3 DEF isFreeSpace
<1>5. perThreadArr' = perThreadArr /\ arenas' = [arenas EXCEPT ![i] = [arenas[i] EXCEPT ![n] = w]]
  <2>1. w = [arenas[i][n] EXCEPT !.offset = @ + 1]
    BY <1>2, <1>3
  <2> QED
    BY <1>2, <2>1 DEF Bump
<1>6. arenas[i] \in Seq(A) /\ n \in 1 .. Len(arenas[i]) /\ DOMAIN arenas[i] = 1 .. n
  BY <1>1, <1>2, LenProperties DEF PoolType
<1>7. /\ arenas'[i] \in Seq(A) /\ Len(arenas'[i]) = n /\ DOMAIN arenas'[i] = 1 .. n
      /\ arenas'[i][n] = w
      /\ \A a \in 1 .. n : a # n => arenas'[i][a] = arenas[i][a]
  <2>1. arenas'[i] = [arenas[i] EXCEPT ![n] = w]
    BY <1>5 DEF PoolType
  <2> QED
    BY <1>1, <1>4, <1>6, <2>1, ExceptSeq, LenProperties
<1>8. /\ \A j \in ThreadIds : j # i => arenas'[j] = arenas[j]
      /\ arenas' = [j \in ThreadIds |-> arenas'[j]]
  BY <1>5 DEF PoolType
<1>9. PoolType'
  <2>1. arenas' \in [ThreadIds -> Seq(A)]
    BY <1>7, <1>8 DEF PoolType
  <2>2. \A j \in ThreadIds : Len(arenas'[j]) = Len(arenas[j])
    BY <1>1, <1>7, <1>8
  <2> QED
    BY <1>5, <2>1, <2>2 DEF PoolType, VectorEnds, VectorType, Row
<1>10. ASSUME NEW j \in ThreadIds, NEW a \in DOMAIN arenas[j]
       PROVE  /\ a \in DOMAIN arenas'[j] /\ arenas'[j][a].offset >= arenas[j][a].offset
              /\ arenas'[j][a].totalSpace = arenas[j][a].totalSpace
              /\ ArenasHold /\ isFreeSpace(i) => arenas'[j][a].offset <= arenas'[j][a].totalSpace
  <2>1. arenas[j][a] \in A
    BY ElementOfSeq, LenProperties DEF PoolType
  <2>2. CASE j = i /\ a = n
    BY <1>2, <1>4, <1>6, <1>7, <2>2
  <2>3. CASE ~(j = i /\ a = n)
    <3>1. a \in DOMAIN arenas'[j] /\ arenas'[j][a] = arenas[j][a]
      BY <1>6, <1>7, <1>8, <2>3
    <3> QED
      BY <2>1, <3>1 DEF ArenasHold
  <2> QED
    BY <2>2, <2>3
<1>11. ASSUME ArenasHold, isFreeSpace(i) PROVE ArenasHold'
  <2>1. \A j \in ThreadIds : DOMAIN arenas'[j] = DOMAIN arenas[j]
    BY <1>6, <1>7, <1>8
  <2> QED
    BY <1>10, <1>11, <2>1 DEF ArenasHold
<1>12. b.thread = i /\ b.arena = n /\ b.at = arenas[i][n].offset /\ b \in Item
  BY <1>2 DEF NextBlock, Item
<1>13. ~CutOff(b)
  BY <1>2, <1>12 DEF CutOff
<1>14. CutOff(b)'
  BY <1>2, <1>4, <1>6, <1>7, <1>12 DEF CutOff
<1>15. \A j \in ThreadIds : j # i => isFreeSpace(j)' = isFreeSpace(j)
  BY <1>5, <1>8 DEF isFreeSpace, Current, Row
<1> QED
  BY <1>9, <1>10, <1>11, <1>12, <1>13, <1>14, <1>15
-----------------------------------------------------------------------------
(* Threads that share an allocator.                                        *)

\* Every step of c leaves the other creators alone.
LEMMA OthersStay ==
  ASSUME TableInv, NEW c \in Creators, NEW d \in Creators, d # c,
         \/ Lookup(c) \/ LockCreation(c) \/ BuildReserve(c) \/ Build(c) \/ DrawId(c)
         \/ CheckSize(c) \/ Grow(c) \/ Publish(c) \/ Return(c) \/ WriteEdge(c)
  PROVE  cr'[d] = cr[d]
<1>1. cr \in [Creators -> Creator]
  BY DEF TableInv, TableType
<1>2. CASE Lookup(c)
  BY <1>1, <1>2 DEF Lookup
<1>3. CASE LockCreation(c) \/ BuildReserve(c) \/ CheckSize(c) \/ Grow(c) \/ Publish(c) \/ Return(c)
  BY <1>1, <1>3 DEF LockCreation, BuildReserve, CheckSize, Grow, Publish, Return, Go
<1>4. CASE Build(c)
  BY <1>1, <1>4 DEF Build
<1>5. CASE DrawId(c)
  BY <1>1, <1>5 DEF DrawId
<1>6. CASE WriteEdge(c)
  BY <1>1, <1>6 DEF WriteEdge
<1> QED
  BY <1>2, <1>3, <1>4, <1>5, <1>6

\* Where a step of c takes it.
LEMMA PcSteps ==
  ASSUME TableInv, NEW c \in Creators
  PROVE  /\ Lookup(c) => cr'[c].pc \in {"write", IF c \in Locked THEN "lock" ELSE "build"}
         /\ LockCreation(c) => cr'[c].pc = "build"
         /\ BuildReserve(c) => cr'[c].pc = "bump"
         /\ Build(c) => cr'[c].pc = "draw"
         /\ DrawId(c) => cr'[c].pc = "size"
         /\ CheckSize(c) => cr'[c].pc \in {"publish", "grow"}
         /\ Grow(c) => cr'[c].pc = "publish"
         /\ Publish(c) => cr'[c].pc = "return"
         /\ Return(c) => cr'[c].pc = "write"
         /\ WriteEdge(c) => cr'[c].pc = "idle"
<1>1. cr \in [Creators -> Creator]
  BY DEF TableInv, TableType
<1>2. /\ LockCreation(c) => cr'[c].pc = "build"
      /\ BuildReserve(c) => cr'[c].pc = "bump"
      /\ CheckSize(c) => cr'[c].pc \in {"publish", "grow"}
      /\ Grow(c) => cr'[c].pc = "publish"
      /\ Publish(c) => cr'[c].pc = "return"
      /\ Return(c) => cr'[c].pc = "write"
  BY <1>1 DEF LockCreation, BuildReserve, CheckSize, Grow, Publish, Return, Go, Creator
<1>3. Build(c) => cr'[c].pc = "draw"
  BY <1>1 DEF Build, Creator
<1>4. DrawId(c) => cr'[c].pc = "size"
  BY <1>1 DEF DrawId, Creator
<1>5. WriteEdge(c) => cr'[c].pc = "idle"
  BY <1>1 DEF WriteEdge, Idle
<1>6. Lookup(c) => cr'[c].pc \in {"write", IF c \in Locked THEN "lock" ELSE "build"}
  BY <1>1 DEF Lookup, Idle
<1> QED
  BY <1>2, <1>3, <1>4, <1>5, <1>6

\* One creator at a time holds the creation lock.
LEMMA ExclusiveStep ==
  ASSUME TableAssumption, TableInv, Exclusive, NEW c \in Creators,
         \/ Lookup(c) \/ LockCreation(c) \/ BuildReserve(c) \/ Build(c) \/ DrawId(c)
         \/ CheckSize(c) \/ Grow(c) \/ Publish(c) \/ Return(c) \/ WriteEdge(c)
  PROVE  Exclusive'
<1>1. \A d \in Creators : d # c => cr'[d] = cr[d]
  BY OthersStay
<1>2. CASE Lookup(c)
  <2>1. UNCHANGED vertex_creation_mutex /\ (c \in Locked => ~InsideLock(c)')
    BY <1>2, PcSteps DEF Lookup, InsideLock
  <2> QED
    BY <1>1, <2>1 DEF Exclusive, InsideLock
<1>3. CASE LockCreation(c)
  <2>1. vertex_creation_mutex = Nobody /\ vertex_creation_mutex' = c
    BY <1>3 DEF LockCreation
  <2>2. \A d \in Creators : ~(d \in Locked /\ InsideLock(d))
    BY <2>1 DEF Exclusive, TableAssumption
  <2> QED
    BY <1>1, <2>1, <2>2 DEF Exclusive, InsideLock
<1>4. CASE BuildReserve(c) \/ Build(c) \/ DrawId(c) \/ CheckSize(c) \/ Grow(c) \/ Publish(c)
  <2>1. UNCHANGED vertex_creation_mutex /\ InsideLock(c)
    BY <1>4 DEF BuildReserve, Build, DrawId, CheckSize, Grow, Publish, InsideLock, Stands
  <2> QED
    BY <1>1, <2>1 DEF Exclusive, InsideLock
<1>5. CASE Return(c)
  <2>1. /\ InsideLock(c) /\ ~InsideLock(c)'
        /\ vertex_creation_mutex' = IF c \in Locked THEN Nobody ELSE vertex_creation_mutex
    BY <1>5, PcSteps DEF Return, InsideLock, Stands
  <2>2. \A d \in Creators : d # c /\ c \in Locked => ~(d \in Locked /\ InsideLock(d))
    BY <2>1 DEF Exclusive
  <2> QED
    BY <1>1, <2>1, <2>2 DEF Exclusive, InsideLock
<1>6. CASE WriteEdge(c)
  <2>1. UNCHANGED vertex_creation_mutex /\ ~InsideLock(c)'
    BY <1>6, PcSteps DEF WriteEdge, InsideLock
  <2> QED
    BY <1>1, <2>1 DEF Exclusive, InsideLock
<1> QED
  BY <1>2, <1>3, <1>4, <1>5, <1>6

\* A creator that is about to cut a block is alone with its allocator.
LEMMA AloneWithPool ==
  ASSUME SharersLock, Exclusive, NEW c \in Creators, NEW d \in Creators, c # d,
         InsideLock(c), InsideLock(d)
  PROVE  threadid[c] # threadid[d]
BY DEF SharersLock, Exclusive

LEMMA SpaceStep ==
  ASSUME PoolAssumption, SharersLock, TableInv, PoolInv, NEW c \in Creators,
         \/ Lookup(c) \/ LockCreation(c) \/ BuildReserve(c) \/ Build(c) \/ DrawId(c)
         \/ CheckSize(c) \/ Grow(c) \/ Publish(c) \/ Return(c) \/ WriteEdge(c)
  PROVE  SpaceKept'
<1>1. \A d \in Creators : d # c => cr'[d] = cr[d]
  BY OthersStay
<1>2. \A d \in Creators : threadid[d] \in ThreadIds
  BY DEF PoolAssumption
<1>3. CASE BuildReserve(c)
  <2>1. /\ isFreeSpace(threadid[c])'
        /\ \A j \in ThreadIds : j # threadid[c] => isFreeSpace(j)' = isFreeSpace(j)
    BY <1>2, <1>3, Ensured DEF BuildReserve, PoolInv
  <2>2. \A d \in Creators : d # c /\ cr[d].pc = "bump" => threadid[d] # threadid[c]
    BY <1>3, AloneWithPool DEF BuildReserve, Stands, InsideLock, PoolInv
  <2> QED
    BY <1>1, <1>2, <2>1, <2>2 DEF SpaceKept, PoolInv
<1>4. CASE Build(c)
  <2>1. cr[c].pc = "bump" /\ Bump(threadid[c]) /\ isFreeSpace(threadid[c])
    BY <1>4 DEF Build, Stands, PoolInv, SpaceKept
  <2>2. \A j \in ThreadIds : j # threadid[c] => isFreeSpace(j)' = isFreeSpace(j)
    BY <1>2, <2>1, Bumped DEF PoolInv
  <2>3. \A d \in Creators : d # c /\ cr[d].pc = "bump" => threadid[d] # threadid[c]
    BY <2>1, AloneWithPool DEF InsideLock, PoolInv
  <2>4. cr'[c].pc # "bump"
    BY <1>4, PcSteps
  <2> QED
    BY <1>1, <1>2, <2>2, <2>3, <2>4 DEF SpaceKept, PoolInv
<1>5. CASE \/ Lookup(c) \/ LockCreation(c) \/ DrawId(c) \/ CheckSize(c) \/ Grow(c)
           \/ Publish(c) \/ Return(c) \/ WriteEdge(c)
  <2>1. UNCHANGED poolVars
    BY <1>5 DEF Lookup, LockCreation, DrawId, CheckSize, Grow, Publish, Return, WriteEdge
  <2>2. cr'[c].pc # "bump"
    BY <1>5, PcSteps
  <2>3. \A d \in Creators : isFreeSpace(threadid[d])' = isFreeSpace(threadid[d])
    BY <2>1 DEF poolVars, isFreeSpace, Current
  <2> QED
    BY <1>1, <2>2, <2>3 DEF SpaceKept, PoolInv
<1> QED
  BY <1>3, <1>4, <1>5
-----------------------------------------------------------------------------
(* The write buffers.                                                      *)

\* A step that neither builds nor publishes a vertex.
LEMMA ItemsStay ==
  ASSUME TableInv, NEW c \in Creators,
         \A d \in Creators : d # c => cr'[d] = cr[d],
         Bears(c)' <=> Bears(c),
         Bears(c) => cr'[c].eb.tmp_item = cr[c].eb.tmp_item,
         \A v \in Published : v \in Published' /\ blocks'[v].tmp_item = blocks[v].tmp_item,
         Published' \subseteq Published
  PROVE  Items' = Items /\ Published' = Published /\ Bearers' = Bearers
<1>1. Published' = Published
  OBVIOUS
<1>2. \A d \in Creators : Bears(d)' <=> Bears(d)
  <2>1. ASSUME NEW d \in Creators, d # c PROVE Bears(d)' <=> Bears(d)
    BY <2>1 DEF Bears
  <2> QED
    BY <2>1
<1>3. Bearers' = Bearers
  BY <1>2 DEF Bearers
<1>4. \A d \in Bearers : cr'[d].eb.tmp_item = cr[d].eb.tmp_item
  BY DEF Bearers
<1> QED
  BY <1>1, <1>3, <1>4 DEF Items

\* A published entry is published for good, with its write buffer.
LEMMA BlocksStay ==
  ASSUME TableAssumption, TableInv, NEW c \in Creators,
         \/ Lookup(c) \/ LockCreation(c) \/ BuildReserve(c) \/ Build(c) \/ DrawId(c)
         \/ CheckSize(c) \/ Grow(c) \/ Return(c) \/ WriteEdge(c)
  PROVE  /\ Published' \subseteq Published
         /\ \A v \in Published : v \in Published' /\ blocks'[v].tmp_item = blocks[v].tmp_item
<1>1. CASE UNCHANGED blocks
  BY <1>1 DEF Published
<1>2. CASE \E n \in Nat : blocks' = Grown(blocks, n)
  <2>1. PICK n \in Nat : blocks' = Grown(blocks, n)
    BY <1>2
  <2>2. Size(blocks) \in Nat /\ blocks \in [0 .. Size(blocks) - 1 -> Vertex \cup {Null}]
    BY DEF TableInv, TableType
  <2> DEFINE g == Grown(blocks, n)
  <2>3. /\ \A v \in DOMAIN blocks : v \in DOMAIN g /\ g[v] = blocks[v]
        /\ \A v \in DOMAIN g : v \notin DOMAIN blocks => g[v] = Null
    BY <2>2, GrownFacts
  <2> HIDE DEF g
  <2>4. blocks' = g
    BY <2>1 DEF g
  <2> QED
    BY <2>3, <2>4 DEF Published
<1>3. CASE Return(c)
  <2> DEFINE u == cr[c].v
  <2>1. CASE UNCHANGED blocks
    BY <1>1, <2>1
  <2>2. CASE blocks' = [blocks EXCEPT ![u].src = u] /\ u \in DOMAIN blocks
    <3>1. /\ blocks \in [0 .. Size(blocks) - 1 -> Vertex \cup {Null}] /\ blocks[u] # Null
      BY <1>3 DEF Return, Stands, TableInv, TableType, BlockSet
    <3>2. blocks[u] \in Vertex
      BY <2>2, <3>1
    <3>3. PICK w : w = [blocks[u] EXCEPT !.src = u]
      OBVIOUS
    <3>4. w.tmp_item = blocks[u].tmp_item /\ w = [src |-> w.src, tmp_item |-> w.tmp_item]
      BY <3>2, <3>3 DEF Vertex
    <3>5. w # Null
      BY <3>4 DEF TableAssumption
    <3>6. /\ DOMAIN blocks' = DOMAIN blocks /\ blocks'[u] = w
          /\ \A v \in DOMAIN blocks : v # u => blocks'[v] = blocks[v]
      BY <2>2, <3>1, <3>3
    <3> QED
      BY <2>2, <3>1, <3>4, <3>5, <3>6 DEF Published
  <2> QED
    BY <1>3, <2>1, <2>2 DEF Return
<1>4. CASE Grow(c)
  <2>1. Size(blocks) \in Nat /\ cr[c].v \in Nat
    BY <1>4 DEF Grow, Stands, TableInv, TableType, CreatorType, Holds
  <2>2. Larger(cr[c].v + 1, 2 * Size(blocks)) \in Nat /\ 2 * Capacity(blocks) \in Nat
    BY <2>1 DEF Larger, Capacity, TableAssumption
  <2> QED
    BY <1>1, <1>2, <1>4, <2>2 DEF Grow
<1>5. CASE \/ Lookup(c) \/ LockCreation(c) \/ BuildReserve(c) \/ Build(c) \/ DrawId(c)
           \/ CheckSize(c) \/ WriteEdge(c)
  BY <1>1, <1>5 DEF Lookup, LockCreation, BuildReserve, Build, DrawId, CheckSize, WriteEdge
<1> QED
  BY <1>3, <1>4, <1>5

\* The steps that keep the vertices that exist.
LEMMA ItemsQuiet ==
  ASSUME TableAssumption, TableInv, NEW c \in Creators,
         \/ Lookup(c) \/ LockCreation(c) \/ BuildReserve(c) \/ DrawId(c)
         \/ CheckSize(c) \/ Grow(c) \/ Return(c) \/ WriteEdge(c)
  PROVE  Items' = Items /\ Published' = Published /\ Bearers' = Bearers
<1>1. \A d \in Creators : d # c => cr'[d] = cr[d]
  BY OthersStay
<1>2. /\ Published' \subseteq Published
      /\ \A v \in Published : v \in Published' /\ blocks'[v].tmp_item = blocks[v].tmp_item
  BY BlocksStay
<1>3. Bears(c)' <=> Bears(c)
  BY PcSteps DEF Bears, Lookup, LockCreation, BuildReserve, DrawId, CheckSize, Grow, Return,
                 WriteEdge, Stands
<1>4. Bears(c) => cr'[c].eb.tmp_item = cr[c].eb.tmp_item
  <2>1. cr \in [Creators -> Creator]
    BY DEF TableInv, TableType
  <2>2. CASE LockCreation(c) \/ BuildReserve(c) \/ CheckSize(c) \/ Grow(c) \/ Return(c)
    BY <2>1, <2>2 DEF LockCreation, BuildReserve, CheckSize, Grow, Return, Go, Creator
  <2>3. CASE Lookup(c) \/ WriteEdge(c)
    BY <2>3 DEF Lookup, WriteEdge, Stands, Bears
  <2>4. CASE DrawId(c)
    <3>1. cr[c].eb \in Vertex
      BY <2>4 DEF DrawId, Stands, TableInv, CreatorType, Bears
    <3> QED
      BY <2>1, <2>4, <3>1 DEF DrawId, Creator, Vertex
  <2> QED
    BY <2>2, <2>3, <2>4
<1> QED
  BY <1>1, <1>2, <1>3, <1>4, ItemsStay

\* Build makes one vertex, with the block it was given.
LEMMA ItemsBuilt ==
  ASSUME TableAssumption, TableInv, NEW c \in Creators, Build(c)
  PROVE  /\ Items' = Items \cup {NextBlock(threadid[c])} /\ Published' = Published
         /\ Bearers' = Bearers \cup {c} /\ c \notin Bearers
<1>1. \A d \in Creators : d # c => cr'[d] = cr[d]
  BY OthersStay
<1>2. Published' = Published /\ \A v \in Published : blocks'[v].tmp_item = blocks[v].tmp_item
  BY BlocksStay
<1>3. cr[c].pc = "bump" /\ cr'[c].pc = "draw" /\ cr'[c].eb.tmp_item = NextBlock(threadid[c])
  BY DEF Build, Stands, TableInv, TableType, Creator
<1>4. c \notin Bearers /\ Bearers' = Bearers \cup {c}
  BY <1>1, <1>3 DEF Bearers, Bears
<1>5. \A d \in Bearers : cr'[d].eb.tmp_item = cr[d].eb.tmp_item
  BY <1>1, <1>4 DEF Bearers
<1> QED
  BY <1>2, <1>3, <1>4, <1>5 DEF Items

\* Publish turns a vertex that is borne into one that is published.
LEMMA ItemsPublished ==
  ASSUME TableAssumption, TableInv, NEW c \in Creators, Publish(c)
  PROVE  /\ Items' = Items /\ Bearers' = Bearers \ {c} /\ c \in Bearers
         /\ \E u : u \notin Published /\ Published' = Published \cup {u}
<1>1. \A d \in Creators : d # c => cr'[d] = cr[d]
  BY OthersStay
<1>2. cr[c].pc = "publish" /\ cr'[c].pc = "return"
  BY PcSteps DEF Publish, Stands
<1>3. c \in Bearers /\ Bearers' = Bearers \ {c}
  BY <1>1, <1>2 DEF Bearers, Bears
<1>4. PICK u, w : u = cr[c].v /\ w = cr[c].eb
  OBVIOUS
<1>5. /\ u \in Nat /\ u < Size(blocks) /\ Size(blocks) \in Nat
      /\ blocks \in [0 .. Size(blocks) - 1 -> Vertex \cup {Null}] /\ w \in Vertex
  BY <1>2, <1>4 DEF TableInv, CreatorType, EntryMade, TableType, Holds, Bears
<1>6. u \in DOMAIN blocks
  BY <1>5
<1>7. blocks' = [blocks EXCEPT ![u] = w]
  BY <1>4, <1>6 DEF Publish
<1>8. w # Null
  <2>1. w = [src |-> w.src, tmp_item |-> w.tmp_item]
    BY <1>5 DEF Vertex
  <2> QED
    BY <2>1 DEF TableAssumption
<1>9. u \notin Published
  BY <1>2, <1>4 DEF TableInv, PublishedOnce, Holds, Bears, Published
<1>10. /\ DOMAIN blocks' = DOMAIN blocks /\ blocks'[u] = w
       /\ \A v \in DOMAIN blocks : v # u => blocks'[v] = blocks[v]
  BY <1>5, <1>6, <1>7
<1>11. Published' = Published \cup {u} /\ \A v \in Published : blocks'[v] = blocks[v]
  BY <1>6, <1>8, <1>9, <1>10 DEF Published
<1>12. \A d \in Bearers : d # c => cr'[d].eb.tmp_item = cr[d].eb.tmp_item
  BY <1>1 DEF Bearers
<1>13. Items' = Items
  BY <1>3, <1>4, <1>10, <1>11, <1>12 DEF Items
<1> QED
  BY <1>3, <1>9, <1>11, <1>13
\* The published entries and the bearers are finitely many.
LEMMA CountedSetsFinite ==
  ASSUME TableAssumption, TableInv
  PROVE  IsFiniteSet(Published) /\ IsFiniteSet(Bearers)
<1>1. Published \subseteq 0 .. Size(blocks) - 1 /\ Size(blocks) - 1 \in Int /\ 0 \in Int
  BY DEF Published, TableInv, TableType
<1>2. IsFiniteSet(0 .. Size(blocks) - 1)
  BY <1>1, FS_Interval
<1>3. Bearers \subseteq Creators /\ IsFiniteSet(Creators)
  BY DEF Bearers, TableAssumption
<1> QED
  BY <1>1, <1>2, <1>3, FS_Subset

\* A step of a creator keeps the pool's invariant.
LEMMA PoolStep ==
  ASSUME TableAssumption, PoolAssumption, SharersLock, TableInv, PoolInv, NEW c \in Creators,
         \/ Lookup(c) \/ LockCreation(c) \/ BuildReserve(c) \/ Build(c) \/ DrawId(c)
         \/ CheckSize(c) \/ Grow(c) \/ Publish(c) \/ Return(c) \/ WriteEdge(c)
  PROVE  PoolInv'
<1>1. Exclusive' /\ SpaceKept'
  BY ExclusiveStep, SpaceStep DEF PoolInv
<1>2. threadid[c] \in ThreadIds
  BY DEF PoolAssumption
<1>3. PoolType /\ ArenasHold /\ ItemsCutOff /\ ItemsCounted
  BY DEF PoolInv
<1>4. IsFiniteSet(Published) /\ IsFiniteSet(Bearers)
  BY CountedSetsFinite
<1>5. CASE Build(c)
  <2>1. Bump(threadid[c]) /\ isFreeSpace(threadid[c])
    BY <1>5 DEF Build, Stands, PoolInv, SpaceKept
  <2>2. PICK b : b = NextBlock(threadid[c])
    OBVIOUS
  <2>3. /\ PoolType' /\ ArenasHold' /\ b \in Item /\ ~CutOff(b) /\ CutOff(b)'
        /\ \A j \in ThreadIds : \A a \in DOMAIN arenas[j] :
             a \in DOMAIN arenas'[j] /\ arenas'[j][a].offset >= arenas[j][a].offset
    BY <1>2, <1>3, <2>1, <2>2, Bumped
  <2>4. /\ Items' = Items \cup {b} /\ Published' = Published
        /\ Bearers' = Bearers \cup {c} /\ c \notin Bearers
    BY <1>5, <2>2, ItemsBuilt
  <2>5. b \notin Items
    BY <1>3, <2>3 DEF ItemsCutOff
  <2>6. ItemsCutOff'
    <3>1. ASSUME NEW i \in Item, CutOff(i) PROVE CutOff(i)'
      <4>1. /\ i.thread \in ThreadIds /\ i.arena \in DOMAIN arenas[i.thread] /\ i.at \in Nat
            /\ i.at < arenas[i.thread][i.arena].offset
        BY <3>1 DEF CutOff, Item
      <4>2. arenas[i.thread][i.arena] \in [totalSpace : Nat, offset : Nat]
        BY <1>3, <4>1, ElementOfSeq, LenProperties DEF PoolType
      <4>3. /\ i.arena \in DOMAIN arenas'[i.thread]
            /\ arenas'[i.thread][i.arena].offset >= arenas[i.thread][i.arena].offset
        BY <2>3, <4>1
      <4>4. arenas'[i.thread][i.arena] \in [totalSpace : Nat, offset : Nat]
        BY <2>3, <4>1, <4>3, ElementOfSeq, LenProperties DEF PoolType
      <4> QED
        BY <4>1, <4>2, <4>3, <4>4 DEF CutOff
    <3>2. ASSUME NEW i \in Items' PROVE i \in Item /\ CutOff(i)'
      BY <1>3, <2>3, <2>4, <3>1 DEF ItemsCutOff
    <3> QED
      BY <3>2 DEF ItemsCutOff
  <2>7. ItemsCounted'
    <3>1. /\ IsFiniteSet(Items \cup {b}) /\ Cardinality(Items \cup {b}) = Cardinality(Items) + 1
      BY <1>3, <2>5, FS_AddElement DEF ItemsCounted
    <3>2. Cardinality(Bearers \cup {c}) = Cardinality(Bearers) + 1
      BY <1>4, <2>4, FS_AddElement
    <3>3. /\ Cardinality(Published) \in Nat /\ Cardinality(Bearers) \in Nat
          /\ Cardinality(Items) = Cardinality(Published) + Cardinality(Bearers)
      BY <1>3, <1>4, FS_CardinalityType DEF ItemsCounted
    <3>4. Cardinality(Items \cup {b}) = Cardinality(Published) + Cardinality(Bearers \cup {c})
      BY <3>1, <3>2, <3>3
    <3> QED
      BY <2>4, <3>1, <3>4 DEF ItemsCounted
  <2> QED
    BY <1>1, <2>3, <2>6, <2>7 DEF PoolInv
<1>6. CASE ~Build(c)
  <2>1. /\ PoolType' /\ ArenasHold'
        /\ \A j \in ThreadIds : \A a \in DOMAIN arenas[j] :
             a \in DOMAIN arenas'[j] /\ arenas'[j][a] = arenas[j][a]
    <3>1. CASE BuildReserve(c)
      BY <1>2, <1>3, <3>1, Ensured DEF BuildReserve
    <3>2. CASE ~BuildReserve(c)
      <4>1. UNCHANGED poolVars
        BY <1>6, <3>2 DEF Lookup, LockCreation, DrawId, CheckSize, Grow, Publish, Return, WriteEdge
      <4> QED
        BY <1>3, <4>1 DEF poolVars, PoolType, ArenasHold
    <3> QED
      BY <3>1, <3>2
  <2>2. Items' = Items
    BY <1>6, ItemsQuiet, ItemsPublished
  <2>3. ItemsCutOff'
    <3>1. ASSUME NEW i \in Item, CutOff(i) PROVE CutOff(i)'
      BY <2>1, <3>1 DEF CutOff, Item
    <3>2. ASSUME NEW i \in Items' PROVE i \in Item /\ CutOff(i)'
      BY <1>3, <2>2, <3>1 DEF ItemsCutOff
    <3> QED
      BY <3>2 DEF ItemsCutOff
  <2>4. Cardinality(Published') + Cardinality(Bearers')
        = Cardinality(Published) + Cardinality(Bearers)
    <3>1. CASE Publish(c)
      <4>1. /\ Bearers' = Bearers \ {c} /\ c \in Bearers
            /\ \E u : u \notin Published /\ Published' = Published \cup {u}
        BY <3>1, ItemsPublished
      <4>2. Cardinality(Bearers \ {c}) = Cardinality(Bearers) - 1
        BY <1>4, <4>1, FS_RemoveElement
      <4>3. Cardinality(Published') = Cardinality(Published) + 1
        BY <1>4, <4>1, FS_AddElement
      <4>4. Cardinality(Published) \in Nat /\ Cardinality(Bearers) \in Nat
        BY <1>4, FS_CardinalityType
      <4> QED
        BY <4>1, <4>2, <4>3, <4>4
    <3>2. CASE ~Publish(c)
      BY <1>6, <3>2, ItemsQuiet
    <3> QED
      BY <3>1, <3>2
  <2>5. ItemsCounted'
    BY <1>3, <2>2, <2>4 DEF ItemsCounted
  <2> QED
    BY <1>1, <2>1, <2>3, <2>5 DEF PoolInv
<1> QED
  BY <1>5, <1>6

-----------------------------------------------------------------------------
(* The invariant.                                                          *)

\* A step of a creator keeps the pool in shape, whoever shares an arena with it.
LEMMA PoolTypeStep ==
  ASSUME PoolAssumption, PoolType, NEW c \in Creators,
         \/ Lookup(c) \/ LockCreation(c) \/ BuildReserve(c) \/ Build(c) \/ DrawId(c)
         \/ CheckSize(c) \/ Grow(c) \/ Publish(c) \/ Return(c) \/ WriteEdge(c)
  PROVE  PoolType'
<1>1. threadid[c] \in ThreadIds
  BY DEF PoolAssumption
<1>2. CASE BuildReserve(c)
  BY <1>1, <1>2, Ensured DEF BuildReserve
<1>3. CASE Build(c)
  BY <1>1, <1>3, Bumped DEF Build
<1>4. CASE ~BuildReserve(c) /\ ~Build(c)
  <2>1. UNCHANGED poolVars
    BY <1>4 DEF Lookup, LockCreation, DrawId, CheckSize, Grow, Publish, Return, WriteEdge
  <2> QED
    BY <2>1 DEF poolVars, PoolType
<1> QED
  BY <1>2, <1>3, <1>4

\* A step of a creator keeps the table's invariant.
LEMMA TableStep ==
  ASSUME TableAssumption, PoolAssumption, TableInv, PoolType, NEW c \in Creators,
         \/ Lookup(c) \/ LockCreation(c) \/ BuildReserve(c) \/ Build(c) \/ DrawId(c)
         \/ CheckSize(c) \/ Grow(c) \/ Publish(c) \/ Return(c) \/ WriteEdge(c)
  PROVE  TableInv'
<1>1. CASE Build(c)
  <2>1. NextBlock(threadid[c]) \in Item
    <3>1. threadid[c] \in ThreadIds
      BY DEF PoolAssumption
    <3> QED
      BY <3>1, CurrentIsLast DEF NextBlock, Item
  <2> QED
    BY <1>1, <2>1, TableBuild DEF Build
<1>2. CASE LockCreation(c) \/ BuildReserve(c)
  <2>1. UNCHANGED <<node_num, blocks, VertexDictionary>>
    BY <1>2 DEF LockCreation, BuildReserve
  <2>2. \/ cr[c].pc = "lock" /\ Moves(c, "build")
        \/ cr[c].pc = "build" /\ Moves(c, "bump")
    BY <1>2, GoMoves DEF LockCreation, BuildReserve, Stands, Pcs, TableInv
  <2> QED
    BY <2>1, <2>2, TableMove DEF Pcs
<1>3. CASE CheckSize(c)
  <2>1. UNCHANGED <<node_num, blocks, VertexDictionary>> /\ cr[c].pc = "size"
    BY <1>3 DEF CheckSize, Stands
  <2>2. Moves(c, IF HasRoom(cr[c].v) THEN "publish" ELSE "grow")
    BY <1>3, GoMoves DEF CheckSize, Pcs, TableInv
  <2> QED
    BY <2>1, <2>2, TableMove DEF Pcs
<1> QED
  BY <1>1, <1>2, <1>3, TableLookup, TableDraw, TableGrow, TablePublish, TableReturn, TableWrite

LEMMA StoreInit ==
  ASSUME TableAssumption, PoolAssumption, TableInit
  PROVE  TableInv /\ PoolInv
<1>1. block_count \in Nat /\ DOMAIN blocks = 0 .. block_count - 1
  BY DEF TableAssumption, TableInit
<1>2. Size(blocks) = block_count
  BY <1>1, SizeOf
<1>3. \A c \in Creators : cr[c].pc = "idle" /\ cr[c] = Idle
  BY DEF TableInit, Idle
<1>4. TableType
  <2>1. Idle \in Creator
    BY DEF Idle, Creator, Pcs
  <2> QED
    BY <1>1, <1>2, <2>1 DEF TableType, TableInit
<1>5. CreatorType /\ IdsHeldOnce /\ EntryMade /\ OwnId /\ BlockSet /\ WritersReady
  BY <1>3 DEF CreatorType, IdsHeldOnce, EntryMade, OwnId, BlockSet, WritersReady, Holds, Bears
<1>6. EntriesFollow
  BY <1>1, <1>2 DEF EntriesFollow, TableInit
<1>7. PublishedOnce /\ KnownReady
  BY DEF PublishedOnce, KnownReady, TableInit
<1>8. PoolType /\ ArenasHold
  <2>1. Arena(FirstSpace) \in [totalSpace : Nat, offset : Nat]
    BY DEF Arena, PoolAssumption
  <2>2. /\ <<Arena(FirstSpace)>> \in Seq([totalSpace : Nat, offset : Nat])
        /\ Len(<<Arena(FirstSpace)>>) = 1
    BY <2>1
  <2>3. /\ arenas = [i \in ThreadIds |-> <<Arena(FirstSpace)>>]
        /\ perThreadArr = [i \in ThreadIds |-> FirstVector]
    BY DEF TableInit, PoolInit
  <2>4. PoolType
    BY <2>2, <2>3, FirstVectorEnds DEF PoolType
  <2>5. ArenasHold
    BY <2>1, <2>3 DEF ArenasHold, Arena, PoolAssumption
  <2> QED
    BY <2>4, <2>5
<1>9. Exclusive /\ SpaceKept
  BY <1>3 DEF Exclusive, SpaceKept, InsideLock
<1>10. Published = {} /\ Bearers = {} /\ Items = {}
  BY <1>3 DEF Published, Bearers, Bears, Items, TableInit
<1>11. ItemsCutOff /\ ItemsCounted
  BY <1>10, FS_EmptySet DEF ItemsCutOff, ItemsCounted
<1> QED
  BY <1>4, <1>5, <1>6, <1>7, <1>8, <1>9, <1>11 DEF TableInv, PoolInv

\* The table, whatever the pool hands out.
LEMMA TableInvariant ==
  ASSUME TableAssumption, PoolAssumption
  PROVE  TableSpec => [](TableInv /\ PoolType)
<1>1. TableInit => TableInv /\ PoolType
  BY StoreInit DEF PoolInv
<1>2. TableInv /\ PoolType /\ [TableNext]_tableVars => TableInv' /\ PoolType'
  <2> SUFFICES ASSUME TableInv, PoolType, [TableNext]_tableVars PROVE TableInv' /\ PoolType'
    OBVIOUS
  <2>1. ASSUME UNCHANGED <<poolVars, node_num, blocks, VertexDictionary, cr>>
        PROVE  TableInv' /\ PoolType'
    <3>1. TableInv'
      BY <2>1 DEF TableInv, TableType, CreatorType, IdsHeldOnce, EntriesFollow, EntryMade,
                  PublishedOnce, OwnId, BlockSet, KnownReady, WritersReady, Ready, Holds, Bears, Size
    <3> QED
      BY <2>1, <3>1 DEF PoolType, poolVars
  <2>2. ASSUME NEW c \in Creators,
               \/ Lookup(c) \/ LockCreation(c) \/ BuildReserve(c) \/ Build(c) \/ DrawId(c)
               \/ CheckSize(c) \/ Grow(c) \/ Publish(c) \/ Return(c) \/ WriteEdge(c)
        PROVE  TableInv' /\ PoolType'
    BY <2>2, TableStep, PoolTypeStep
  <2>3. CASE \E r \in Readers : StartScan(r) \/ Visit(r)
    BY <2>1, <2>3 DEF StartScan, Visit
  <2>4. CASE UNCHANGED tableVars
    BY <2>1, <2>4 DEF tableVars
  <2> QED
    BY <2>2, <2>3, <2>4 DEF TableNext
<1> QED
  BY <1>1, <1>2, PTL DEF TableSpec

\* The pool, when those who share an arena take turns.
LEMMA StoreInvariant ==
  ASSUME TableAssumption, PoolAssumption, SharersLock
  PROVE  TableSpec => [](TableInv /\ PoolInv)
<1>1. TableInit => TableInv /\ PoolInv
  BY StoreInit
<1>2. TableInv /\ PoolInv /\ [TableNext]_tableVars => TableInv' /\ PoolInv'
  <2> SUFFICES ASSUME TableInv, PoolInv, [TableNext]_tableVars PROVE TableInv' /\ PoolInv'
    OBVIOUS
  <2>1. ASSUME UNCHANGED <<poolVars, node_num, blocks, vertex_creation_mutex, VertexDictionary, cr>>
        PROVE  TableInv' /\ PoolInv'
    <3>1. TableInv'
      BY <2>1 DEF TableInv, TableType, CreatorType, IdsHeldOnce, EntriesFollow, EntryMade,
                  PublishedOnce, OwnId, BlockSet, KnownReady, WritersReady, Ready, Holds, Bears, Size
    <3>2. PoolType' /\ ArenasHold' /\ Exclusive' /\ SpaceKept'
      BY <2>1 DEF PoolInv, PoolType, ArenasHold, Exclusive, SpaceKept, poolVars, InsideLock,
                  isFreeSpace, Current
    <3>3. Items' = Items /\ Published' = Published /\ Bearers' = Bearers
      BY <2>1 DEF Items, Published, Bearers, Bears
    <3>4. ItemsCutOff' /\ ItemsCounted'
      BY <2>1, <3>3 DEF PoolInv, ItemsCutOff, ItemsCounted, CutOff, poolVars
    <3> QED
      BY <3>1, <3>2, <3>4 DEF PoolInv
  <2>2. ASSUME NEW c \in Creators,
               \/ Lookup(c) \/ LockCreation(c) \/ BuildReserve(c) \/ Build(c) \/ DrawId(c)
               \/ CheckSize(c) \/ Grow(c) \/ Publish(c) \/ Return(c) \/ WriteEdge(c)
        PROVE  TableInv' /\ PoolInv'
    BY <2>2, TableStep, PoolStep DEF PoolInv
  <2>3. CASE \E r \in Readers : StartScan(r) \/ Visit(r)
    BY <2>1, <2>3 DEF StartScan, Visit
  <2>4. CASE UNCHANGED tableVars
    BY <2>1, <2>4 DEF tableVars
  <2> QED
    BY <2>2, <2>3, <2>4 DEF TableNext
<1> QED
  BY <1>1, <1>2, PTL DEF TableSpec

\* Every id that new_vertex or GetVertexID has returned leads to an entry that has been
\* constructed and filled and that knows its id, for any number of threads up to the
\* number of entries at construction, and however often the table grows: ids without
\* an entry are held by threads that have yet to grow it, so that doubling the
\* capacity once makes room for all of them (new_vertex, GetVertexID).
THEOREM IdsLeadToVertices ==
  ASSUME TableAssumption, PoolAssumption
  PROVE  TableSpec => []WritersFindBlocks
<1>1. TableInv => WritersFindBlocks
  BY DEF TableInv, WritersReady, WritersFindBlocks, Ready
<1> QED
  BY <1>1, TableInvariant, PTL

\* No two vertices share a write buffer and every buffer lies inside its arena, for any
\* arena sizes and any number of threads, if those with the same threadid make their
\* vertices under the creation lock (VertexEdges::build, MemoryAllocator::Allocate).
THEOREM BuffersKeptApart ==
  ASSUME TableAssumption, PoolAssumption, SharersLock
  PROVE  TableSpec => []BuffersDisjoint
<1>1. ASSUME TableInv, PoolInv PROVE BuffersDisjoint
  <2> DEFINE Bearing == {d \in Creators : cr[d].pc \in {"draw", "size", "grow", "publish"}}
  <2>1. Bearing = Bearers /\ {v \in DOMAIN blocks : blocks[v] # Null} = Published
    BY DEF Bearers, Bears, Published
  <2>2. {e.tmp_item : e \in Made} = Items
    BY DEF Made, Items, Bearers, Bears, Published
  <2>3. ASSUME NEW e \in Made PROVE InsideArena(e.tmp_item)
    <3>1. PICK b : b = e.tmp_item
      OBVIOUS
    <3>2. b \in Item /\ CutOff(b)
      BY <1>1, <2>2, <3>1 DEF PoolInv, ItemsCutOff
    <3>3. /\ b.thread \in ThreadIds /\ b.arena \in DOMAIN arenas[b.thread] /\ b.at \in Nat
          /\ b.at < arenas[b.thread][b.arena].offset
      BY <3>2 DEF CutOff, Item
    <3>4. arenas[b.thread][b.arena] \in [totalSpace : Nat, offset : Nat]
      BY <1>1, <3>3, ElementOfSeq, LenProperties DEF PoolInv, PoolType
    <3>5. arenas[b.thread][b.arena].offset <= arenas[b.thread][b.arena].totalSpace
      BY <1>1, <3>3 DEF PoolInv, ArenasHold
    <3> QED
      BY <3>1, <3>3, <3>4, <3>5 DEF InsideArena
  <2> QED
    BY <1>1, <2>1, <2>2, <2>3 DEF BuffersDisjoint, PoolInv, ItemsCounted
<1>2. TableInv /\ PoolInv => BuffersDisjoint
  BY <1>1
<1> QED
  BY <1>2, StoreInvariant, PTL
=============================================================================
