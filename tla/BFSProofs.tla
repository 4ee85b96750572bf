------------------------------ MODULE BFSProofs -------------------------------
(***************************************************************************)
(* Proofs about the breadth-first search, for any number of vertices and   *)
(* threads, any symmetric graph, any heuristic and any schedule.           *)
(***************************************************************************)
EXTENDS BFS, FiniteSetTheorems, WellFoundedInduction, TLAPS

(* What the theorems assume of the constants.                              *)

\* The snapshots are symmetric graphs over the ids, one of which is the root.
SearchAssumption ==
  /\ max_vid \in Nat /\ root \in Ids
  /\ \A g \in SymmetricGraphs :
       g \subseteq Ids \X Ids /\ \A u, v \in Ids : <<u, v>> \in g => <<v, u>> \in g

-----------------------------------------------------------------------------
(* What holds whatever becomes of the bits.                                *)

Level(k) == {v \in Ids : distances[v] = k}
Visited == {v \in Ids : distances[v] >= 0}
VisitedBefore == {v \in Ids : distances[v] >= 0 /\ distances[v] < distance}

Thread == [pc : {"rest", "edges", "cas", "word", "bit"}, u : Ids, v : Ids,
           left : SUBSET Ids, val : Int]

SearchType ==
  /\ snapshot \subseteq Ids \X Ids
  /\ \A u, v \in Ids : <<u, v>> \in snapshot => <<v, u>> \in snapshot
  /\ distances \in [Ids -> Int] /\ distance \in Nat \ {0}
  /\ queue \subseteq Ids /\ shared_in \subseteq Ids /\ appended \in Nat
  /\ front \subseteq Ids /\ curr \subseteq Ids /\ work \subseteq Ids
  /\ step \in {"loop", "topdown", "bottomup", "awake", "done"}
  /\ local \in [Team -> Thread]

InStep ==
  \A t \in Team :
    /\ local[t].pc \in {"edges", "cas"} => step = "topdown"
    /\ local[t].pc \in {"word", "bit"} => step = "bottomup"

\* A value that is about to be compared is that of an unvisited vertex, and such a
\* value only changes when the vertex is visited.
Loaded ==
  \A t \in Team : local[t].pc = "cas" =>
    local[t].val < 0 /\ (distances[local[t].v] < 0 => distances[local[t].v] = local[t].val)

Bounded ==
  \A v \in Ids :
    distances[v] <= distance /\ (step \notin {"topdown", "bottomup"} => distances[v] < distance)

BitsFound ==
  step = "bottomup" =>
    /\ curr \subseteq Level(distance)
    /\ \A t \in Team :
         /\ local[t].pc \in {"word", "bit"} => distances[local[t].u] = distance
         /\ local[t].pc = "bit" => local[t].left \subseteq Level(distance)

\* Vertices found bottom-up are appended when the direction changes again.
Counted ==
  appended <= Cardinality(IF step \in {"awake", "bottomup"} THEN VisitedBefore ELSE Visited)

SearchInv == SearchType /\ InStep /\ Loaded /\ Bounded /\ BitsFound /\ Counted

-----------------------------------------------------------------------------
(* Level by level.                                                         *)

Rooted == distances[root] = 0 /\ \A v \in Ids : distances[v] = 0 => v = root

HasParent ==
  \A v \in Ids : distances[v] > 0 =>
    \E u \in Ids : <<u, v>> \in snapshot /\ distances[u] = distances[v] - 1

\* A neighbour of u has been visited, and no later than it should.
Expands(u) == \A v \in Ids : <<u, v>> \in snapshot =>
                distances[v] >= 0 /\ distances[v] <= distances[u] + 1

\* What lies behind a lost bit may stay hidden.
Settled ==
  \A u \in Ids : distances[u] >= 0 /\ distances[u] <= distance - 2 /\ u \notin lost => Expands(u)

QueueIsLevel ==
  /\ step \in {"loop", "topdown"} => queue = Level(distance - 1) \ lost
  /\ step # "topdown" => shared_in = {}
  /\ step = "topdown" => shared_in = Level(distance) \ lost
  /\ step = "done" => Level(distance - 1) \subseteq lost

\* The frontier bitmap may hold bits of an earlier search from the bottom up.
FrontHoldsLevel ==
  /\ step \in {"awake", "bottomup"} => Level(distance - 1) \ lost \subseteq front
  /\ front \subseteq VisitedBefore

\* A lost bit is that of a visited vertex, and is in neither bitmap.
LostBits == lost \subseteq Visited /\ front \cap lost = {} /\ curr \cap lost = {}

Expanding(t) == local[t].pc \in {"edges", "cas"}

\* Thread t has yet to visit v.
Pending(t, v) == v \in local[t].left \/ (local[t].pc = "cas" /\ local[t].v = v)

TopDownInv ==
  step = "topdown" =>
    /\ work \subseteq queue
    /\ \A t \in Team : Expanding(t) =>
         local[t].u \in queue /\ \A v \in Ids : Pending(t, v) => v \in Neighbours(local[t].u)
    /\ \A u \in queue \ work : \A v \in Neighbours(u) :
         distances[v] >= 0 \/ \E t \in Team : Expanding(t) /\ local[t].u = u /\ Pending(t, v)

Setting(t) == local[t].pc \in {"word", "bit"}

BottomUpInv ==
  step = "bottomup" =>
    /\ \A u \in Ids \ work : distances[u] >= 0 \/ ~HasFrontNeighbour(u)
    /\ \A v \in Level(distance) :
         v \in curr \/ v \in lost \/ \E t \in Team : Setting(t) /\ local[t].u = v

LevelInv ==
  /\ Rooted /\ HasParent /\ Settled /\ QueueIsLevel /\ FrontHoldsLevel /\ LostBits
  /\ TopDownInv /\ BottomUpInv

-----------------------------------------------------------------------------
(* Facts about numbers and counts.                                         *)

\* A set of naturals has a least element.
LEMMA NatSetLeast ==
  ASSUME NEW T, T \subseteq Nat, T # {}
  PROVE  Min(T) \in T /\ \A y \in T : Min(T) <= y
<1>1. PICK x \in T : \A y \in T : ~(<<y, x>> \in OpToRel(<, Nat))
  BY NatLessThanWellFounded, WFMin, Zenon
<1>2. \A y \in T : ~(y < x)
  BY <1>1 DEF OpToRel
<1>3. \A y \in T : x <= y
  BY <1>2
<1> QED
  BY <1>3 DEF Min

LEMMA IdsFinite ==
  ASSUME SearchAssumption
  PROVE  IsFiniteSet(Ids) /\ Ids \subseteq Nat /\ 0 \in Ids
<1>1. max_vid - 1 \in Int /\ 0 \in Int /\ Ids \subseteq Nat /\ 0 \in Ids
  BY DEF SearchAssumption, Ids
<1> QED
  BY <1>1, FS_Interval DEF Ids

\* Sets of ids can be counted.
LEMMA IdSetsCount ==
  ASSUME SearchAssumption, NEW A \in SUBSET Ids, NEW B \in SUBSET Ids
  PROVE  /\ IsFiniteSet(A) /\ Cardinality(A) \in Nat
         /\ A \subseteq B => Cardinality(A) <= Cardinality(B)
         /\ A \cap B = {} => Cardinality(A \cup B) = Cardinality(A) + Cardinality(B)
<1>1. IsFiniteSet(A) /\ IsFiniteSet(B)
  BY IdsFinite, FS_Subset
<1>2. Cardinality(A) \in Nat /\ Cardinality(B) \in Nat
  BY <1>1, FS_CardinalityType
<1>3. A \subseteq B => Cardinality(A) <= Cardinality(B)
  BY <1>1, FS_Subset
<1>4. ASSUME A \cap B = {} PROVE Cardinality(A \cup B) = Cardinality(A) + Cardinality(B)
  <2>1. Cardinality(A \cup B) = Cardinality(A) + Cardinality(B) - Cardinality(A \cap B)
    BY <1>1, FS_Union
  <2>2. Cardinality(A \cap B) = 0
    BY <1>4, FS_EmptySet
  <2> QED
    BY <1>2, <2>1, <2>2
<1> QED
  BY <1>1, <1>2, <1>3, <1>4

-----------------------------------------------------------------------------
(* The initial state.                                                      *)

LEMMA InitDistances ==
  ASSUME SearchAssumption, BFSInit
  PROVE  /\ distances \in [Ids -> Int] /\ distances[root] = 0
         /\ \A v \in Ids : v # root => distances[v] < 0
<1>1. ASSUME NEW u \in Ids PROVE init_distance(u) \in Int /\ init_distance(u) < 0
  <2>1. Neighbours(u) \in SUBSET Ids
    BY DEF Neighbours
  <2>2. check_degree(u) \in Nat
    BY <2>1, IdSetsCount DEF check_degree
  <2> QED
    BY <2>2 DEF init_distance
<1>2. distances = [u \in Ids |-> IF u = root THEN 0 ELSE init_distance(u)] /\ root \in Ids
  BY DEF BFSInit, SearchAssumption
<1> QED
  BY <1>1, <1>2

LEMMA InitSearch ==
  ASSUME SearchAssumption, BFSInit
  PROVE  SearchInv
<1>1. /\ snapshot \in SymmetricGraphs /\ distance = 1 /\ queue = {root} /\ shared_in = {} /\ appended = 1
      /\ front = {} /\ curr = {} /\ step = "loop" /\ work = {} /\ local = [t \in Team |-> AtRest]
  BY DEF BFSInit
<1>2. AtRest \in Thread
  BY IdsFinite DEF AtRest, Thread
<1>3. SearchType
  BY <1>1, <1>2, InitDistances DEF SearchType, SearchAssumption
<1>4. InStep /\ Loaded /\ BitsFound
  BY <1>1 DEF InStep, Loaded, BitsFound, AtRest
<1>5. Bounded
  <2>1. \A v \in Ids : distances[v] \in Int /\ (v = root => distances[v] = 0)
                       /\ (v # root => distances[v] < 0)
    BY InitDistances
  <2> QED
    BY <1>1, <2>1 DEF Bounded
<1>6. Counted
  <2>1. Visited = {root}
    <3>1. root \in Ids
      BY DEF SearchAssumption
    <3>2. \A v \in Ids : distances[v] >= 0 <=> v = root
      BY InitDistances, <3>1
    <3> QED
      BY <3>1, <3>2 DEF Visited
  <2>2. Cardinality({root}) = 1
    BY FS_Singleton
  <2> QED
    BY <1>1, <2>1, <2>2 DEF Counted
<1> QED
  BY <1>3, <1>4, <1>5, <1>6 DEF SearchInv

-----------------------------------------------------------------------------
(* The main loop.                                                          *)

\* Between the parallel loops all threads rest.
LEMMA LoopRests ==
  ASSUME SearchInv, step \in {"loop", "awake"} \/ AllRest
  PROVE  \A t \in Team : local[t].pc = "rest"
BY DEF SearchInv, InStep, SearchType, Thread, AllRest

\* What a step of the main loop leaves alone.
LoopFrame == UNCHANGED <<snapshot, distances, local>> /\ \A t \in Team : local[t].pc = "rest"

LEMMA LoopKeeps ==
  ASSUME SearchInv, LoopFrame
  PROVE  /\ local' \in [Team -> Thread] /\ InStep' /\ Loaded'
         /\ step' # "bottomup" \/ curr' = {} => BitsFound'
<1>1. local' \in [Team -> Thread]
  BY DEF SearchInv, SearchType, LoopFrame
<1>2. InStep' /\ Loaded'
  BY DEF LoopFrame, InStep, Loaded
<1>3. step' # "bottomup" \/ curr' = {} => BitsFound'
  BY DEF LoopFrame, BitsFound
<1> QED
  BY <1>1, <1>2, <1>3

LEMMA SearchTopDownBegins ==
  ASSUME SearchInv, BeginTopDown
  PROVE  SearchInv'
<1>1. LoopFrame /\ step = "loop" /\ step' = "topdown" /\ work' = queue
      /\ UNCHANGED <<distance, queue, shared_in, appended, front, curr>>
  BY LoopRests DEF BeginTopDown, LoopFrame, graphVars
<1>2. SearchType'
  BY <1>1 DEF SearchInv, SearchType, LoopFrame
<1>3. Bounded' /\ Counted'
  BY <1>1 DEF SearchInv, Bounded, Counted, LoopFrame, Visited
<1> QED
  BY <1>1, <1>2, <1>3, LoopKeeps DEF SearchInv

LEMMA SearchTopDownEnds ==
  ASSUME SearchInv, EndTopDown
  PROVE  SearchInv'
<1>1. LoopFrame /\ step = "topdown" /\ step' = "loop" /\ queue' = shared_in /\ shared_in' = {}
      /\ distance' = distance + 1 /\ UNCHANGED <<appended, front, curr, work>>
  BY LoopRests DEF EndTopDown, LoopFrame, graphVars, slide_window
<1>2. SearchType'
  BY <1>1 DEF SearchInv, SearchType, LoopFrame
<1>3. Bounded'
  BY <1>1 DEF SearchInv, SearchType, Bounded, LoopFrame
<1>4. Counted'
  BY <1>1 DEF SearchInv, Counted, LoopFrame, Visited
<1> QED
  BY <1>1, <1>2, <1>3, <1>4, LoopKeeps DEF SearchInv

LEMMA SearchBottomUpBegins ==
  ASSUME SearchInv, BeginBottomUp
  PROVE  SearchInv'
<1>1. LoopFrame /\ step = "loop" /\ step' = "awake" /\ front' = front \cup queue
      /\ queue' = shared_in /\ shared_in' = {} /\ UNCHANGED <<distance, appended, curr, work>>
  BY LoopRests DEF BeginBottomUp, LoopFrame, graphVars, slide_window
<1>2. SearchType'
  BY <1>1 DEF SearchInv, SearchType, LoopFrame
<1>3. Bounded'
  BY <1>1 DEF SearchInv, Bounded, LoopFrame
<1>4. Visited = VisitedBefore'
  BY <1>1 DEF SearchInv, Bounded, LoopFrame, Visited, VisitedBefore
<1>5. Counted'
  BY <1>1, <1>4 DEF SearchInv, Counted
<1> QED
  BY <1>1, <1>2, <1>3, <1>5, LoopKeeps DEF SearchInv

LEMMA SearchBUStepBegins ==
  ASSUME SearchInv, BeginBUStep
  PROVE  SearchInv'
<1>1. LoopFrame /\ step = "awake" /\ step' = "bottomup" /\ curr' = {} /\ work' = Ids
      /\ UNCHANGED <<distance, queue, shared_in, appended, front>>
  BY LoopRests DEF BeginBUStep, LoopFrame, graphVars
<1>2. SearchType'
  BY <1>1 DEF SearchInv, SearchType, LoopFrame
<1>3. Bounded' /\ Counted'
  BY <1>1 DEF SearchInv, Bounded, Counted, LoopFrame, VisitedBefore
<1> QED
  BY <1>1, <1>2, <1>3, LoopKeeps DEF SearchInv

LEMMA SearchBUStepEnds ==
  ASSUME SearchAssumption, SearchInv, EndBUStep
  PROVE  SearchInv'
<1>1. LoopFrame /\ step = "bottomup" /\ front' = curr /\ curr' = front
      /\ distance' = distance + 1 /\ UNCHANGED work
  BY LoopRests DEF EndBUStep, LoopFrame, graphVars
<1>2. \/ step' = "awake" /\ UNCHANGED <<queue, shared_in, appended>>
      \/ step' = "loop" /\ queue' = curr /\ shared_in' = {} /\ appended' = appended + Cardinality(curr)
  BY DEF EndBUStep
<1>3. SearchType /\ distance \in Nat /\ \A v \in Ids : distances[v] \in Int
  BY DEF SearchInv, SearchType
<1>4. /\ curr \in SUBSET Ids /\ Visited \in SUBSET Ids /\ VisitedBefore \in SUBSET Ids
      /\ VisitedBefore' \in SUBSET Ids
  BY <1>3 DEF SearchType, Visited, VisitedBefore
<1>5. Cardinality(curr) \in Nat /\ Cardinality(VisitedBefore) \in Nat /\ Cardinality(Visited) \in Nat
      /\ Cardinality(VisitedBefore') \in Nat
  BY <1>4, IdSetsCount
<1>6. SearchType'
  BY <1>1, <1>2, <1>5 DEF SearchInv, SearchType, LoopFrame
<1>7. Bounded'
  BY <1>1, <1>2, <1>3 DEF SearchInv, Bounded, LoopFrame
<1>8. appended \in Nat /\ appended <= Cardinality(VisitedBefore)
  BY <1>1 DEF SearchInv, SearchType, Counted
<1>9. CASE step' = "awake"
  <2>1. VisitedBefore \subseteq VisitedBefore'
    BY <1>1, <1>3 DEF VisitedBefore, LoopFrame
  <2>2. Cardinality(VisitedBefore) <= Cardinality(VisitedBefore')
    BY <1>4, <2>1, IdSetsCount
  <2>3. Counted'
    BY <1>2, <1>5, <1>8, <1>9, <2>2 DEF Counted
  <2> QED
    BY <1>1, <1>6, <1>7, <1>9, <2>3, LoopKeeps DEF SearchInv
<1>10. CASE step' = "loop"
  <2>1. curr \subseteq Level(distance)
    BY <1>1 DEF SearchInv, BitsFound
  <2>2. VisitedBefore \cap curr = {} /\ VisitedBefore \cup curr \subseteq Visited
    BY <1>3, <2>1 DEF VisitedBefore, Visited, Level
  <2>3. Cardinality(VisitedBefore \cup curr) = Cardinality(VisitedBefore) + Cardinality(curr)
    BY <1>4, <2>2, IdSetsCount
  <2>4. VisitedBefore \cup curr \in SUBSET Ids
    BY <1>4
  <2>5. Cardinality(VisitedBefore \cup curr) <= Cardinality(Visited)
    BY <1>4, <2>2, <2>4, IdSetsCount
  <2>6. Visited' = Visited
    BY <1>1 DEF Visited, LoopFrame
  <2>7. Counted'
    BY <1>2, <1>5, <1>8, <1>10, <2>3, <2>5, <2>6 DEF Counted
  <2> QED
    BY <1>1, <1>6, <1>7, <1>10, <2>7, LoopKeeps DEF SearchInv
<1> QED
  BY <1>2, <1>9, <1>10

LEMMA SearchFinishes ==
  ASSUME SearchInv, Finish
  PROVE  SearchInv'
<1>1. LoopFrame /\ step = "loop" /\ step' = "done"
      /\ UNCHANGED <<distance, queue, shared_in, appended, front, curr, work>>
  BY LoopRests DEF Finish, LoopFrame, graphVars
<1>2. SearchType'
  BY <1>1 DEF SearchInv, SearchType, LoopFrame
<1>3. Bounded' /\ Counted'
  BY <1>1 DEF SearchInv, Bounded, Counted, LoopFrame, Visited
<1> QED
  BY <1>1, <1>2, <1>3, LoopKeeps DEF SearchInv
-----------------------------------------------------------------------------
(* The threads.                                                            *)

\* What a step of thread t leaves alone.
ThreadFrame(t) ==
  /\ UNCHANGED <<snapshot, distance, queue, front, step>>
  /\ local' \in [Team -> Thread] /\ \A r \in Team : r # t => local'[r] = local[r]

\* A step of t that visits nothing.
LEMMA SearchMoves ==
  ASSUME SearchInv, NEW t \in Team, ThreadFrame(t),
         UNCHANGED <<distances, shared_in, appended, curr>>, work' \subseteq Ids,
         local'[t].pc \in {"edges", "cas"} => step = "topdown",
         local'[t].pc \in {"word", "bit"} => step = "bottomup",
         local'[t].pc = "cas" => local'[t].val < 0 /\ distances[local'[t].v] = local'[t].val,
         local'[t].pc \in {"word", "bit"} => distances[local'[t].u] = distance,
         local'[t].pc = "bit" => local'[t].left \subseteq curr
  PROVE  SearchInv'
<1>1. SearchType'
  BY DEF SearchInv, SearchType, ThreadFrame
<1>2. InStep' /\ Loaded'
  BY DEF SearchInv, InStep, Loaded, ThreadFrame
<1>3. Bounded' /\ Counted'
  BY DEF SearchInv, Bounded, Counted, Visited, VisitedBefore, ThreadFrame
<1>4. BitsFound'
  BY DEF SearchInv, BitsFound, Level, ThreadFrame
<1> QED
  BY <1>1, <1>2, <1>3, <1>4 DEF SearchInv

LEMMA ExpandFacts ==
  ASSUME SearchAssumption, SearchInv, NEW t \in Team, Expand(t)
  PROVE  /\ ThreadFrame(t) /\ UNCHANGED <<distances, shared_in, appended, curr>>
         /\ step = "topdown" /\ local[t].pc = "rest" /\ local'[t].pc = "edges"
         /\ \E u \in work : work' = work \ {u} /\ local'[t].u = u /\ local'[t].left = Neighbours(u)
<1>1. PICK x \in work :
        /\ work' = work \ {x}
        /\ local' = [local EXCEPT ![t] = [AtRest EXCEPT !.pc = "edges", !.u = x,
                                                        !.left = Neighbours(x)]]
  BY DEF Expand
<1>2. AtRest \in Thread /\ x \in Ids /\ Neighbours(x) \in SUBSET Ids
  BY IdsFinite DEF AtRest, Thread, Neighbours, SearchInv, SearchType
<1>3. PICK z : z = [AtRest EXCEPT !.pc = "edges", !.u = x, !.left = Neighbours(x)]
  OBVIOUS
<1>4. z \in Thread /\ z.pc = "edges" /\ z.u = x /\ z.left = Neighbours(x)
  BY <1>2, <1>3 DEF Thread
<1>5. local \in [Team -> Thread]
  BY DEF SearchInv, SearchType
<1>6. local' \in [Team -> Thread] /\ local'[t] = z /\ \A r \in Team : r # t => local'[r] = local[r]
  BY <1>1, <1>3, <1>4, <1>5
<1> QED
  BY <1>1, <1>4, <1>6 DEF Expand, ThreadFrame, graphVars

LEMMA SearchExpands ==
  ASSUME SearchAssumption, SearchInv, NEW t \in Team, Expand(t)
  PROVE  SearchInv'
<1>1. work' \subseteq Ids
  BY ExpandFacts DEF SearchInv, SearchType
<1> QED
  BY <1>1, ExpandFacts, SearchMoves

LEMMA LoadDistanceFacts ==
  ASSUME SearchInv, NEW t \in Team, LoadDistance(t)
  PROVE  /\ ThreadFrame(t) /\ UNCHANGED <<distances, shared_in, appended, curr, work>>
         /\ step = "topdown" /\ local[t].pc = "edges" /\ local'[t].u = local[t].u
         /\ \E v \in local[t].left :
              /\ v \in Ids /\ local'[t].left = local[t].left \ {v} /\ local'[t].v = v
              /\ \/ local'[t].pc = "cas" /\ distances[v] < 0 /\ local'[t].val = distances[v]
                 \/ local'[t].pc = "edges" /\ distances[v] >= 0
<1>1. PICK v \in local[t].left :
        local' = [local EXCEPT ![t].left = @ \ {v}, ![t].v = v, ![t].val = distances[v],
                         ![t].pc = IF distances[v] < 0 THEN "cas" ELSE "edges"]
  BY DEF LoadDistance
<1>2. local \in [Team -> Thread] /\ distances \in [Ids -> Int]
  BY DEF SearchInv, SearchType
<1>3. v \in Ids /\ distances[v] \in Int
  BY <1>2 DEF Thread
<1>4. PICK z : z = [local[t] EXCEPT !.left = @ \ {v}, !.v = v, !.val = distances[v],
                                 !.pc = IF distances[v] < 0 THEN "cas" ELSE "edges"]
  OBVIOUS
<1>5. local' = [local EXCEPT ![t] = z]
  BY <1>1, <1>2, <1>4
<1>6. /\ z \in Thread /\ z.u = local[t].u /\ z.left = local[t].left \ {v} /\ z.v = v /\ z.val = distances[v]
      /\ z.pc = IF distances[v] < 0 THEN "cas" ELSE "edges"
  BY <1>2, <1>3, <1>4 DEF Thread
<1>7. local' \in [Team -> Thread] /\ local'[t] = z /\ \A r \in Team : r # t => local'[r] = local[r]
  BY <1>2, <1>5, <1>6
<1>8. step = "topdown" /\ local[t].pc = "edges"
  BY DEF LoadDistance, SearchInv, InStep
<1>9. ThreadFrame(t) /\ UNCHANGED <<distances, shared_in, appended, curr, work>>
  BY <1>7 DEF LoadDistance, ThreadFrame, graphVars
<1> QED
  BY <1>3, <1>6, <1>7, <1>8, <1>9

LEMMA SearchLoads ==
  ASSUME SearchInv, NEW t \in Team, LoadDistance(t)
  PROVE  SearchInv'
<1>1. work' \subseteq Ids
  BY LoadDistanceFacts DEF SearchInv, SearchType
<1> QED
  BY <1>1, LoadDistanceFacts, SearchMoves

\* Thread t rests again.
LEMMA RestFacts ==
  ASSUME SearchAssumption, SearchInv, NEW t \in Team, local' = [local EXCEPT ![t] = AtRest]
  PROVE  /\ local' \in [Team -> Thread] /\ local'[t].pc = "rest" /\ local'[t].left = {}
         /\ \A r \in Team : r # t => local'[r] = local[r]
<1>1. AtRest \in Thread /\ AtRest.pc = "rest" /\ AtRest.left = {}
  BY IdsFinite DEF AtRest, Thread
<1>2. local \in [Team -> Thread]
  BY DEF SearchInv, SearchType
<1> QED
  BY <1>1, <1>2

LEMMA SearchExpanded ==
  ASSUME SearchAssumption, SearchInv, NEW t \in Team, Expanded(t)
  PROVE  SearchInv'
<1>1. /\ ThreadFrame(t) /\ local'[t].pc = "rest"
      /\ UNCHANGED <<distances, shared_in, appended, curr, work>>
  BY RestFacts DEF Expanded, ThreadFrame, graphVars
<1>2. work' \subseteq Ids
  BY <1>1 DEF SearchInv, SearchType
<1> QED
  BY <1>1, <1>2, SearchMoves

LEMMA LoadWordFacts ==
  ASSUME SearchInv, NEW t \in Team, LoadWord(t)
  PROVE  /\ ThreadFrame(t) /\ UNCHANGED <<distances, shared_in, appended, curr, work>>
         /\ step = "bottomup" /\ local[t].pc = "word" /\ local'[t].pc = "bit" /\ local'[t].u = local[t].u
         /\ local'[t].left = curr \cap Word(local[t].u)
<1>1. local \in [Team -> Thread] /\ curr \subseteq Ids
  BY DEF SearchInv, SearchType
<1>2. PICK z : z = [local[t] EXCEPT !.pc = "bit", !.left = curr \cap Word(local[t].u)]
  OBVIOUS
<1>3. local' = [local EXCEPT ![t] = z]
  BY <1>1, <1>2 DEF LoadWord
<1>4. z \in Thread /\ z.pc = "bit" /\ z.u = local[t].u /\ z.left = curr \cap Word(local[t].u)
  BY <1>1, <1>2 DEF Thread
<1>5. local' \in [Team -> Thread] /\ local'[t] = z /\ \A r \in Team : r # t => local'[r] = local[r]
  BY <1>1, <1>3, <1>4
<1> QED
  BY <1>4, <1>5 DEF LoadWord, ThreadFrame, graphVars, countVars, SearchInv, InStep

LEMMA SearchLoadsWord ==
  ASSUME SearchInv, NEW t \in Team, LoadWord(t)
  PROVE  SearchInv'
<1>1. work' \subseteq Ids
  BY LoadWordFacts DEF SearchInv, SearchType
<1>2. distances[local'[t].u] = distance
  BY LoadWordFacts DEF SearchInv, BitsFound
<1> QED
  BY <1>1, <1>2, LoadWordFacts, SearchMoves

LEMMA SetBitFacts ==
  ASSUME SearchAssumption, SearchInv, NEW t \in Team, set_bit(t)
  PROVE  /\ ThreadFrame(t) /\ UNCHANGED <<distances, shared_in, appended, work>>
         /\ step = "bottomup" /\ local[t].pc = "bit" /\ local'[t].pc = "rest"
         /\ curr' = (curr \ Word(local[t].u)) \cup local[t].left \cup {local[t].u}
BY RestFacts DEF set_bit, ThreadFrame, graphVars, SearchInv, InStep

LEMMA SearchSetsBit ==
  ASSUME SearchAssumption, SearchInv, NEW t \in Team, set_bit(t)
  PROVE  SearchInv'
<1>1. /\ ThreadFrame(t) /\ UNCHANGED <<distances, shared_in, appended, work>>
      /\ step = "bottomup" /\ local[t].pc = "bit" /\ local'[t].pc = "rest"
      /\ curr' = (curr \ Word(local[t].u)) \cup local[t].left \cup {local[t].u}
  BY SetBitFacts
<1>2. curr' \subseteq Level(distance)
  <2>1. local[t].u \in Ids
    BY DEF SearchInv, SearchType, Thread
  <2> QED
    BY <1>1, <2>1 DEF SearchInv, BitsFound, Level
<1>3. SearchType'
  BY <1>1, <1>2 DEF SearchInv, SearchType, ThreadFrame, Level
<1>4. InStep' /\ Loaded'
  BY <1>1 DEF SearchInv, InStep, Loaded, ThreadFrame
<1>5. Bounded' /\ Counted'
  BY <1>1 DEF SearchInv, Bounded, Counted, Visited, VisitedBefore, ThreadFrame
<1>6. BitsFound'
  BY <1>1, <1>2 DEF SearchInv, BitsFound, Level, ThreadFrame
<1> QED
  BY <1>3, <1>4, <1>5, <1>6 DEF SearchInv
-----------------------------------------------------------------------------
(* A vertex is visited.                                                    *)

LEMMA VisitFacts ==
  ASSUME SearchInv, NEW w \in Ids, distances[w] < 0, UNCHANGED distance,
         distances' = [distances EXCEPT ![w] = distance]
  PROVE  /\ distances' \in [Ids -> Int] /\ distances'[w] = distance
         /\ \A v \in Ids : v # w => distances'[v] = distances[v]
         /\ Visited' = Visited \cup {w} /\ w \notin Visited /\ VisitedBefore' = VisitedBefore
         /\ Level(distance)' = Level(distance) \cup {w}
<1>1. distances \in [Ids -> Int] /\ distance \in Nat
  BY DEF SearchInv, SearchType
<1>2. /\ distances' \in [Ids -> Int] /\ distances'[w] = distance
      /\ \A v \in Ids : v # w => distances'[v] = distances[v]
  BY <1>1
<1>3. Visited' = Visited \cup {w} /\ w \notin Visited
  BY <1>1, <1>2 DEF Visited
<1>4. VisitedBefore' = VisitedBefore
  BY <1>1, <1>2 DEF VisitedBefore
<1>5. Level(distance)' = Level(distance) \cup {w}
  BY <1>2 DEF Level
<1> QED
  BY <1>2, <1>3, <1>4, <1>5

LEMMA SearchVisits ==
  ASSUME SearchAssumption, SearchInv, NEW t \in Team, ThreadFrame(t), NEW w \in Ids,
         distances[w] < 0, distances' = [distances EXCEPT ![w] = distance],
         UNCHANGED curr, shared_in' \subseteq Ids, work' \subseteq Ids,
         \/ step = "topdown" /\ appended' = appended + 1 /\ local'[t].pc = "edges"
         \/ /\ step = "bottomup" /\ UNCHANGED appended
            /\ local'[t].pc = "word" /\ local'[t].u = w
  PROVE  SearchInv'
<1>1. UNCHANGED <<snapshot, distance, queue, front, step>> /\ distance \in Nat \ {0}
  BY DEF ThreadFrame, SearchInv, SearchType
<1>2. /\ distances' \in [Ids -> Int] /\ distances'[w] = distance
      /\ \A v \in Ids : v # w => distances'[v] = distances[v]
      /\ Visited' = Visited \cup {w} /\ w \notin Visited /\ VisitedBefore' = VisitedBefore
      /\ Level(distance)' = Level(distance) \cup {w}
  BY <1>1, VisitFacts
<1>3. SearchType'
  BY <1>1, <1>2 DEF SearchInv, SearchType, ThreadFrame
<1>4. InStep'
  BY DEF SearchInv, InStep, ThreadFrame
<1>5. Loaded'
  <2>1. ASSUME NEW r \in Team, local'[r].pc = "cas"
        PROVE  local'[r].val < 0 /\ (distances'[local'[r].v] < 0 => distances'[local'[r].v] = local'[r].val)
    <3>1. r # t /\ local'[r] = local[r] /\ local[r].v \in Ids
      BY <2>1 DEF ThreadFrame, SearchInv, SearchType, Thread
    <3> QED
      BY <1>1, <1>2, <2>1, <3>1 DEF SearchInv, Loaded
  <2> QED
    BY <2>1 DEF Loaded
<1>6. Bounded'
  BY <1>1, <1>2 DEF SearchInv, Bounded
<1>7. BitsFound'
  <2>1. ASSUME step = "bottomup", NEW r \in Team, local'[r].pc \in {"word", "bit"}
        PROVE  /\ distances'[local'[r].u] = distance
               /\ local'[r].pc = "bit" => local'[r].left \subseteq Level(distance)'
    <3>1. CASE r = t
      BY <1>2, <2>1, <3>1
    <3>2. CASE r # t
      <4>1. local'[r] = local[r] /\ local[r].u \in Ids
        BY <3>2 DEF ThreadFrame, SearchInv, SearchType, Thread
      <4> QED
        BY <1>2, <2>1, <4>1 DEF SearchInv, BitsFound
    <3> QED
      BY <3>1, <3>2
  <2>2. step = "bottomup" => curr' \subseteq Level(distance)'
    BY <1>2 DEF SearchInv, BitsFound
  <2> QED
    BY <1>1, <2>1, <2>2 DEF BitsFound
<1>8. Counted'
  <2>1. CASE step = "topdown"
    <3>1. Visited \in SUBSET Ids /\ IsFiniteSet(Visited) /\ Cardinality(Visited) \in Nat
      BY IdSetsCount DEF Visited
    <3>2. Cardinality(Visited \cup {w}) = Cardinality(Visited) + 1
      BY <1>2, <3>1, FS_AddElement
    <3>3. appended \in Nat /\ appended <= Cardinality(Visited)
      BY <2>1 DEF SearchInv, SearchType, Counted
    <3> QED
      BY <1>1, <1>2, <2>1, <3>1, <3>2, <3>3 DEF Counted
  <2>2. CASE step = "bottomup"
    BY <1>1, <1>2, <2>2 DEF SearchInv, Counted
  <2> QED
    BY <2>1, <2>2
<1> QED
  BY <1>3, <1>4, <1>5, <1>6, <1>7, <1>8 DEF SearchInv

\* What compare_and_swap does.
LEMMA SwapFacts ==
  ASSUME SearchInv, NEW t \in Team, CompareAndSwap(t)
  PROVE  /\ ThreadFrame(t) /\ UNCHANGED <<curr, work>> /\ step = "topdown" /\ local[t].pc = "cas"
         /\ local'[t].pc = "edges" /\ local'[t].u = local[t].u /\ local'[t].left = local[t].left
         /\ local[t].v \in Ids
         /\ \/ /\ distances[local[t].v] < 0 /\ distances' = [distances EXCEPT ![local[t].v] = distance]
               /\ shared_in' = shared_in \cup {local[t].v} /\ appended' = appended + 1
            \/ distances[local[t].v] >= 0 /\ UNCHANGED <<distances, shared_in, appended>>
<1>1. local \in [Team -> Thread] /\ distances \in [Ids -> Int]
  BY DEF SearchInv, SearchType
<1>2. PICK z : z = [local[t] EXCEPT !.pc = "edges"]
  OBVIOUS
<1>3. local' = [local EXCEPT ![t] = z]
  BY <1>1, <1>2 DEF CompareAndSwap
<1>4. z \in Thread /\ z.pc = "edges" /\ z.u = local[t].u /\ z.left = local[t].left
  BY <1>1, <1>2 DEF Thread
<1>5. local' \in [Team -> Thread] /\ local'[t] = z /\ \A r \in Team : r # t => local'[r] = local[r]
  BY <1>1, <1>3, <1>4
<1>6. /\ local[t].pc = "cas" /\ step = "topdown" /\ local[t].v \in Ids /\ distances[local[t].v] \in Int
      /\ local[t].val < 0 /\ (distances[local[t].v] < 0 => distances[local[t].v] = local[t].val)
  BY <1>1 DEF CompareAndSwap, SearchInv, InStep, Loaded, Thread
<1>7. ThreadFrame(t) /\ UNCHANGED <<curr, work>>
  BY <1>5 DEF CompareAndSwap, ThreadFrame, graphVars
<1>8. \/ /\ distances[local[t].v] < 0 /\ distances' = [distances EXCEPT ![local[t].v] = distance]
         /\ shared_in' = shared_in \cup {local[t].v} /\ appended' = appended + 1
      \/ distances[local[t].v] >= 0 /\ UNCHANGED <<distances, shared_in, appended>>
  BY <1>6 DEF CompareAndSwap, Claims, push_back
<1> QED
  BY <1>4, <1>5, <1>6, <1>7, <1>8

LEMMA SearchSwaps ==
  ASSUME SearchAssumption, SearchInv, NEW t \in Team, CompareAndSwap(t)
  PROVE  SearchInv'
<1>1. PICK w : w = local[t].v
  OBVIOUS
<1>2. w \in Ids /\ ThreadFrame(t) /\ UNCHANGED <<curr, work>> /\ step = "topdown" /\ local'[t].pc = "edges"
  BY <1>1, SwapFacts
<1>3. work' \subseteq Ids
  BY <1>2 DEF SearchInv, SearchType
<1>4. CASE /\ distances[w] < 0 /\ distances' = [distances EXCEPT ![w] = distance]
           /\ shared_in' = shared_in \cup {w} /\ appended' = appended + 1
  <2>1. shared_in' \subseteq Ids
    BY <1>2, <1>4 DEF SearchInv, SearchType
  <2> QED
    BY <1>2, <1>3, <1>4, <2>1, SearchVisits
<1>5. CASE UNCHANGED <<distances, shared_in, appended>>
  BY <1>2, <1>3, <1>5, SearchMoves
<1> QED
  BY <1>1, <1>4, <1>5, SwapFacts

\* What a thread does with the next vertex of its block.
LEMMA LookFacts ==
  ASSUME SearchAssumption, SearchInv, NEW t \in Team, LookBack(t)
  PROVE  /\ ThreadFrame(t) /\ UNCHANGED <<shared_in, appended, curr>>
         /\ step = "bottomup" /\ local[t].pc = "rest"
         /\ \E u \in Chunk(t) \cap work :
              /\ u \in Ids /\ work' = work \ {u}
              /\ \/ /\ distances[u] < 0 /\ HasFrontNeighbour(u)
                    /\ distances' = [distances EXCEPT ![u] = distance]
                    /\ local'[t].pc = "word" /\ local'[t].u = u
                 \/ /\ distances[u] >= 0 \/ ~HasFrontNeighbour(u)
                    /\ UNCHANGED <<distances, local>>
<1>1. local \in [Team -> Thread] /\ distances \in [Ids -> Int] /\ work \subseteq Ids
  BY DEF SearchInv, SearchType
<1>2. PICK u : u = Min(Chunk(t) \cap work)
  OBVIOUS
<1>3. u \in Chunk(t) \cap work /\ u \in Ids
  <2>1. Chunk(t) \cap work \subseteq Nat /\ Chunk(t) \cap work # {}
    BY <1>1, IdsFinite DEF LookBack
  <2> QED
    BY <1>1, <1>2, <2>1, NatSetLeast
<1>4. /\ step = "bottomup" /\ local[t].pc = "rest" /\ work' = work \ {u}
      /\ UNCHANGED <<snapshot, distance, queue, front, step, shared_in, appended, curr>>
  BY <1>2 DEF LookBack, graphVars
<1>5. \/ /\ distances[u] < 0 /\ HasFrontNeighbour(u)
         /\ distances' = [distances EXCEPT ![u] = distance]
         /\ local' = [local EXCEPT ![t].pc = "word", ![t].u = u]
      \/ /\ ~(distances[u] < 0 /\ HasFrontNeighbour(u)) /\ UNCHANGED <<distances, local>>
  BY <1>2 DEF LookBack, Unvisited
<1>6. CASE /\ distances[u] < 0 /\ HasFrontNeighbour(u)
           /\ distances' = [distances EXCEPT ![u] = distance]
           /\ local' = [local EXCEPT ![t].pc = "word", ![t].u = u]
  <2>1. PICK z : z = [local[t] EXCEPT !.pc = "word", !.u = u]
    OBVIOUS
  <2>2. local' = [local EXCEPT ![t] = z]
    BY <1>1, <1>6, <2>1
  <2>3. z \in Thread /\ z.pc = "word" /\ z.u = u
    BY <1>1, <1>3, <2>1 DEF Thread
  <2>4. local' \in [Team -> Thread] /\ local'[t] = z /\ \A r \in Team : r # t => local'[r] = local[r]
    BY <1>1, <2>2, <2>3
  <2> QED
    BY <1>3, <1>4, <1>6, <2>3, <2>4 DEF ThreadFrame
<1>7. CASE ~(distances[u] < 0 /\ HasFrontNeighbour(u)) /\ UNCHANGED <<distances, local>>
  <2>1. distances[u] >= 0 \/ ~HasFrontNeighbour(u)
    BY <1>1, <1>3, <1>7
  <2> QED
    BY <1>1, <1>3, <1>4, <1>7, <2>1 DEF ThreadFrame
<1> QED
  BY <1>5, <1>6, <1>7

LEMMA SearchLooks ==
  ASSUME SearchAssumption, SearchInv, NEW t \in Team, LookBack(t)
  PROVE  SearchInv'
<1>1. /\ ThreadFrame(t) /\ UNCHANGED <<shared_in, appended, curr>>
      /\ step = "bottomup" /\ local[t].pc = "rest"
  BY LookFacts
<1>2. PICK u \in Ids :
        /\ work' = work \ {u}
        /\ \/ /\ distances[u] < 0 /\ distances' = [distances EXCEPT ![u] = distance]
              /\ local'[t].pc = "word" /\ local'[t].u = u
           \/ UNCHANGED <<distances, local>>
  BY LookFacts
<1>3. work' \subseteq Ids /\ shared_in' \subseteq Ids
  BY <1>1, <1>2 DEF SearchInv, SearchType
<1>4. CASE /\ distances[u] < 0 /\ distances' = [distances EXCEPT ![u] = distance]
           /\ local'[t].pc = "word" /\ local'[t].u = u
  BY <1>1, <1>3, <1>4, SearchVisits
<1>5. CASE UNCHANGED <<distances, local>>
  BY <1>1, <1>3, <1>5, SearchMoves
<1> QED
  BY <1>2, <1>4, <1>5

-----------------------------------------------------------------------------
(* The first invariant and its theorem.                                    *)

LEMMA SearchStutters ==
  ASSUME SearchInv, UNCHANGED bfsVars
  PROVE  SearchInv'
BY DEF bfsVars, graphVars, SearchInv, SearchType, InStep, Loaded, Bounded, BitsFound, Counted,
       Level, Visited, VisitedBefore

LEMMA SearchStep ==
  ASSUME SearchAssumption, SearchInv, [BFSNext]_bfsVars
  PROVE  SearchInv'
<1>1. CASE BeginTopDown \/ EndTopDown \/ BeginBottomUp \/ BeginBUStep \/ EndBUStep \/ Finish
  BY <1>1, SearchTopDownBegins, SearchTopDownEnds, SearchBottomUpBegins, SearchBUStepBegins,
     SearchBUStepEnds, SearchFinishes
<1>2. CASE \E t \in Team :
             \/ Expand(t) \/ LoadDistance(t) \/ CompareAndSwap(t) \/ Expanded(t)
             \/ LookBack(t) \/ LoadWord(t) \/ set_bit(t)
  BY <1>2, SearchExpands, SearchLoads, SearchSwaps, SearchExpanded, SearchLooks, SearchLoadsWord,
     SearchSetsBit
<1> QED
  BY <1>1, <1>2, SearchStutters DEF BFSNext

LEMMA SearchInvariant ==
  ASSUME SearchAssumption
  PROVE  BFSSpec => []SearchInv
<1>1. BFSInit => SearchInv
  BY InitSearch
<1>2. SearchInv /\ [BFSNext]_bfsVars => SearchInv'
  BY SearchStep
<1> QED
  BY <1>1, <1>2, PTL DEF BFSSpec

\* SlidingQueue never needs more entries than there are vertices: every entry stands
\* for a vertex of its own, for any graph, any team of threads, any interleaving of
\* their compare-and-swaps and any sequence of changes of direction, and even if bits
\* of a shared word are lost (BFS.cpp, do_bfs_TDStep and do_bfs_BitmapToQueue).
THEOREM QueueNeverOverflows ==
  ASSUME SearchAssumption
  PROVE  BFSSpec => []AppendedOnce
<1>1. ASSUME SearchInv PROVE AppendedOnce
  <2>1. VisitedBefore \in SUBSET Ids /\ Visited \in SUBSET Ids /\ VisitedBefore \subseteq Visited
    BY DEF VisitedBefore, Visited
  <2>2. Cardinality(VisitedBefore) \in Nat /\ Cardinality(Visited) \in Nat
        /\ Cardinality(VisitedBefore) <= Cardinality(Visited)
    BY <2>1, IdSetsCount
  <2>3. appended \in Nat
    BY <1>1 DEF SearchInv, SearchType
  <2>4. appended <= Cardinality(VisitedBefore) \/ appended <= Cardinality(Visited)
    BY <1>1 DEF SearchInv, Counted
  <2>5. appended <= Cardinality(Visited)
    BY <2>2, <2>3, <2>4
  <2> QED
    BY <2>5 DEF AppendedOnce, Visited
<1>2. SearchInv => AppendedOnce
  BY <1>1
<1> QED
  BY <1>2, SearchInvariant, PTL
-----------------------------------------------------------------------------
(* Level by level: the main loop.                                          *)

LEMMA InitLevel ==
  ASSUME SearchAssumption, BFSInit
  PROVE  LevelInv
<1>1. /\ distance = 1 /\ queue = {root} /\ shared_in = {} /\ front = {} /\ curr = {} /\ lost = {}
      /\ step = "loop" /\ root \in Ids
  BY DEF BFSInit, SearchAssumption
<1>2. \A v \in Ids : /\ distances[v] \in Int /\ (distances[v] >= 0 <=> v = root)
                     /\ (distances[v] = 0 <=> v = root) /\ ~(distances[v] > 0)
  BY <1>1, InitDistances
<1>3. Rooted /\ HasParent
  BY <1>1, <1>2 DEF Rooted, HasParent
<1>4. Settled
  BY <1>1, <1>2 DEF Settled
<1>5. QueueIsLevel
  BY <1>1, <1>2 DEF QueueIsLevel, Level
<1>6. FrontHoldsLevel /\ LostBits /\ TopDownInv /\ BottomUpInv
  BY <1>1 DEF FrontHoldsLevel, LostBits, TopDownInv, BottomUpInv
<1> QED
  BY <1>3, <1>4, <1>5, <1>6 DEF LevelInv

\* The distances as numbers.
LEMMA Numbers ==
  ASSUME SearchInv
  PROVE  distance \in Nat /\ distance >= 1 /\ \A v \in Ids : distances[v] \in Int
BY DEF SearchInv, SearchType

\* Without a visit the distances stay right; the next level may be settled.
LEMMA DistancesStay ==
  ASSUME SearchInv, LevelInv, UNCHANGED <<snapshot, distances>>,
         \A v \in Ids : distances[v] < distance => (v \in lost' <=> v \in lost),
         \/ UNCHANGED distance
         \/ distance' = distance + 1 /\ \A u \in Level(distance - 1) \ lost : Expands(u)
  PROVE  Rooted' /\ HasParent' /\ Settled' /\ \A k : Level(k)' = Level(k)
<1>1. Rooted' /\ HasParent'
  BY DEF LevelInv, Rooted, HasParent
<1>2. \A u \in Ids : Expands(u) => Expands(u)'
  BY DEF Expands
<1>3. Settled'
  <2>1. CASE UNCHANGED distance
    <3>1. ASSUME NEW u \in Ids, distances[u] >= 0, distances[u] <= distance - 2, u \notin lost'
          PROVE  Expands(u)
      <4>1. distances[u] < distance
        BY <3>1, Numbers
      <4> QED
        BY <3>1, <4>1 DEF LevelInv, Settled
    <3> QED
      BY <1>2, <2>1, <3>1 DEF Settled
  <2>2. CASE distance' = distance + 1 /\ \A u \in Level(distance - 1) \ lost : Expands(u)
    <3>1. ASSUME NEW u \in Ids, distances[u] >= 0, distances[u] <= distance' - 2, u \notin lost'
          PROVE  Expands(u)
      <4>1. distances[u] = distance - 1 \/ distances[u] <= distance - 2
        BY <2>2, <3>1, Numbers
      <4>2. u \notin lost
        BY <3>1, <4>1, Numbers
      <4> QED
        BY <2>2, <3>1, <4>1, <4>2 DEF LevelInv, Settled, Level
    <3> QED
      BY <1>2, <3>1 DEF Settled
  <2> QED
    BY <2>1, <2>2
<1>4. \A k : Level(k)' = Level(k)
  BY DEF Level
<1> QED
  BY <1>1, <1>3, <1>4

\* The lost bits stay as they are.
LEMMA LostStays ==
  ASSUME LevelInv, UNCHANGED <<lost, front, curr>>,
         \A v \in Ids : distances[v] >= 0 => distances'[v] >= 0
  PROVE  LostBits'
BY DEF LevelInv, LostBits, Visited

\* The visited vertices stay visited.
LEMMA BeforeGrows ==
  ASSUME SearchInv, UNCHANGED distances, UNCHANGED distance \/ distance' = distance + 1
  PROVE  VisitedBefore \subseteq VisitedBefore'
<1>1. ASSUME NEW v \in VisitedBefore PROVE v \in VisitedBefore'
  <2>1. v \in Ids /\ distances[v] >= 0 /\ distances[v] < distance'
    BY Numbers DEF VisitedBefore
  <2> QED
    BY <2>1 DEF VisitedBefore
<1> QED
  BY <1>1

LEMMA LevelTopDownBegins ==
  ASSUME SearchInv, LevelInv, BeginTopDown
  PROVE  LevelInv'
<1>1. /\ UNCHANGED <<snapshot, distances, local, distance, queue, shared_in, front, curr, lost>>
      /\ step = "loop" /\ step' = "topdown" /\ work' = queue
      /\ \A t \in Team : local[t].pc = "rest"
  BY LoopRests DEF BeginTopDown, graphVars
<1>2. Rooted' /\ HasParent' /\ Settled' /\ \A k : Level(k)' = Level(k)
  BY <1>1, DistancesStay
<1>3. Level(distance) = {}
  BY <1>1, Numbers DEF SearchInv, Bounded, Level
<1>4. QueueIsLevel'
  BY <1>1, <1>3 DEF LevelInv, QueueIsLevel, Level
<1>5. FrontHoldsLevel' /\ LostBits'
  BY <1>1, LostStays DEF LevelInv, FrontHoldsLevel, VisitedBefore
<1>6. TopDownInv' /\ BottomUpInv'
  BY <1>1 DEF TopDownInv, BottomUpInv, Expanding
<1> QED
  BY <1>2, <1>4, <1>5, <1>6 DEF LevelInv

LEMMA LevelTopDownEnds ==
  ASSUME SearchInv, LevelInv, EndTopDown
  PROVE  LevelInv'
<1>1. /\ UNCHANGED <<snapshot, distances, local, front, curr, lost>> /\ distance' = distance + 1
      /\ step = "topdown" /\ step' = "loop" /\ queue' = shared_in /\ shared_in' = {} /\ work = {}
      /\ \A t \in Team : local[t].pc = "rest"
  BY LoopRests DEF EndTopDown, graphVars, slide_window
<1>2. ASSUME NEW u \in Level(distance - 1) \ lost PROVE Expands(u)
  <2>1. u \in queue \ work /\ u \in Ids /\ distances[u] = distance - 1
    BY <1>1 DEF LevelInv, QueueIsLevel, Level
  <2>2. \A v \in Neighbours(u) : distances[v] >= 0
    BY <1>1, <2>1 DEF LevelInv, TopDownInv, Expanding
  <2>3. \A v \in Ids : distances[v] <= distance
    BY DEF SearchInv, Bounded
  <2> QED
    BY <2>1, <2>2, <2>3, Numbers DEF Expands, Neighbours
<1>3. Rooted' /\ HasParent' /\ Settled' /\ \A k : Level(k)' = Level(k)
  BY <1>1, <1>2, DistancesStay
<1>4. distance' - 1 = distance
  BY <1>1, Numbers
<1>5. Level(distance - 1)' = Level(distance)
  BY <1>1, <1>4 DEF Level
<1>6. QueueIsLevel'
  BY <1>1, <1>5 DEF LevelInv, QueueIsLevel
<1>7. FrontHoldsLevel' /\ LostBits'
  BY <1>1, BeforeGrows, LostStays DEF LevelInv, FrontHoldsLevel
<1>8. TopDownInv' /\ BottomUpInv'
  BY <1>1 DEF TopDownInv, BottomUpInv
<1> QED
  BY <1>3, <1>6, <1>7, <1>8 DEF LevelInv

LEMMA LevelBottomUpBegins ==
  ASSUME SearchInv, LevelInv, BeginBottomUp
  PROVE  LevelInv'
<1>1. /\ UNCHANGED <<snapshot, distances, distance, curr, lost>> /\ step = "loop" /\ step' = "awake"
      /\ front' = front \cup queue /\ shared_in' = {}
  BY DEF BeginBottomUp, graphVars, slide_window
<1>2. Rooted' /\ HasParent' /\ Settled' /\ \A k : Level(k)' = Level(k)
  BY <1>1, DistancesStay
<1>3. queue = Level(distance - 1) \ lost
  BY <1>1 DEF LevelInv, QueueIsLevel
<1>4. QueueIsLevel' /\ TopDownInv' /\ BottomUpInv'
  BY <1>1 DEF QueueIsLevel, TopDownInv, BottomUpInv
<1>5. Level(distance - 1) \subseteq VisitedBefore
  BY Numbers DEF Level, VisitedBefore
<1>6. FrontHoldsLevel'
  BY <1>1, <1>3, <1>5 DEF LevelInv, FrontHoldsLevel, VisitedBefore, Level
<1>7. LostBits'
  BY <1>1, <1>3 DEF LevelInv, LostBits, Visited
<1> QED
  BY <1>2, <1>4, <1>6, <1>7 DEF LevelInv

LEMMA LevelBUStepBegins ==
  ASSUME SearchInv, LevelInv, BeginBUStep
  PROVE  LevelInv'
<1>1. /\ UNCHANGED <<snapshot, distances, local, distance, shared_in, front, lost>>
      /\ step = "awake" /\ step' = "bottomup" /\ work' = Ids /\ curr' = {}
      /\ \A t \in Team : local[t].pc = "rest"
  BY LoopRests DEF BeginBUStep, graphVars
<1>2. Rooted' /\ HasParent' /\ Settled' /\ \A k : Level(k)' = Level(k)
  BY <1>1, DistancesStay
<1>3. Level(distance) = {}
  BY <1>1, Numbers DEF SearchInv, Bounded, Level
<1>4. QueueIsLevel' /\ TopDownInv'
  BY <1>1 DEF LevelInv, QueueIsLevel, TopDownInv
<1>5. FrontHoldsLevel' /\ LostBits'
  BY <1>1 DEF LevelInv, FrontHoldsLevel, LostBits, Visited, VisitedBefore, Level
<1>6. BottomUpInv'
  BY <1>1, <1>3 DEF BottomUpInv, Setting, Level
<1> QED
  BY <1>2, <1>4, <1>5, <1>6 DEF LevelInv

LEMMA LevelBUStepEnds ==
  ASSUME SearchInv, LevelInv, EndBUStep
  PROVE  LevelInv'
<1>1. /\ UNCHANGED <<snapshot, distances, local, lost>> /\ distance' = distance + 1
      /\ step = "bottomup" /\ work = {} /\ front' = curr /\ curr' = front
      /\ \A t \in Team : local[t].pc = "rest"
      /\ \/ step' = "awake" /\ UNCHANGED shared_in
         \/ step' = "loop" /\ queue' = curr /\ shared_in' = {}
  BY LoopRests DEF EndBUStep, graphVars
<1>2. ASSUME NEW u \in Level(distance - 1) \ lost PROVE Expands(u)
  <2>1. u \in Ids /\ distances[u] = distance - 1 /\ u \in front
    BY <1>1 DEF LevelInv, FrontHoldsLevel, Level
  <2>2. ASSUME NEW v \in Ids, <<u, v>> \in snapshot PROVE distances[v] >= 0
    <3>1. u \in Neighbours(v)
      BY <2>1, <2>2 DEF SearchInv, SearchType, Neighbours
    <3> QED
      BY <1>1, <2>1, <3>1 DEF LevelInv, BottomUpInv, HasFrontNeighbour
  <2>3. \A v \in Ids : distances[v] <= distance
    BY DEF SearchInv, Bounded
  <2> QED
    BY <2>1, <2>2, <2>3, Numbers DEF Expands
<1>3. Rooted' /\ HasParent' /\ Settled' /\ \A k : Level(k)' = Level(k)
  BY <1>1, <1>2, DistancesStay
<1>4. curr = Level(distance) \ lost
  BY <1>1 DEF LevelInv, BottomUpInv, Setting, LostBits, SearchInv, BitsFound
<1>5. distance' - 1 = distance
  BY <1>1, Numbers
<1>6. Level(distance - 1)' = Level(distance)
  BY <1>1, <1>5 DEF Level
<1>7. QueueIsLevel'
  BY <1>1, <1>4, <1>6 DEF LevelInv, QueueIsLevel
<1>8. FrontHoldsLevel'
  <2>1. curr \subseteq VisitedBefore'
    BY <1>1, <1>4, Numbers DEF Level, VisitedBefore
  <2> QED
    BY <1>1, <1>4, <1>6, <2>1 DEF FrontHoldsLevel
<1>9. LostBits'
  BY <1>1 DEF LevelInv, LostBits, Visited
<1>10. TopDownInv' /\ BottomUpInv'
  BY <1>1 DEF TopDownInv, BottomUpInv
<1> QED
  BY <1>3, <1>7, <1>8, <1>9, <1>10 DEF LevelInv

LEMMA LevelFinishes ==
  ASSUME SearchInv, LevelInv, Finish
  PROVE  LevelInv'
<1>1. /\ UNCHANGED <<snapshot, distances, distance, shared_in, front, curr, lost>>
      /\ step = "loop" /\ step' = "done" /\ queue = {}
  BY DEF Finish, graphVars
<1>2. Rooted' /\ HasParent' /\ Settled' /\ \A k : Level(k)' = Level(k)
  BY <1>1, DistancesStay
<1>3. QueueIsLevel'
  BY <1>1 DEF LevelInv, QueueIsLevel, Level
<1>4. FrontHoldsLevel' /\ LostBits'
  BY <1>1, LostStays DEF LevelInv, FrontHoldsLevel, VisitedBefore
<1>5. TopDownInv' /\ BottomUpInv'
  BY <1>1 DEF TopDownInv, BottomUpInv
<1> QED
  BY <1>2, <1>3, <1>4, <1>5 DEF LevelInv
-----------------------------------------------------------------------------
(* Level by level: the threads.                                            *)

\* What a step of t that visits nothing keeps without further ado.
LEMMA LevelStays ==
  ASSUME SearchInv, LevelInv, NEW t \in Team, ThreadFrame(t), UNCHANGED <<distances, shared_in>>,
         \/ UNCHANGED lost
         \/ /\ step = "bottomup"
            /\ \A v \in Ids : distances[v] < distance => (v \in lost' <=> v \in lost)
  PROVE  Rooted' /\ HasParent' /\ Settled' /\ QueueIsLevel' /\ FrontHoldsLevel'
<1>1. UNCHANGED <<snapshot, distance, queue, front, step>>
  BY DEF ThreadFrame
<1>2. Rooted' /\ HasParent' /\ Settled'
  BY <1>1, DistancesStay
<1>3. QueueIsLevel'
  BY <1>1 DEF LevelInv, QueueIsLevel, Level
<1>4. Level(distance - 1) \ lost' \subseteq Level(distance - 1) \ lost
  BY Numbers DEF Level
<1>5. FrontHoldsLevel'
  BY <1>1, <1>4 DEF LevelInv, FrontHoldsLevel, VisitedBefore, Level
<1> QED
  BY <1>2, <1>3, <1>5

\* Only set_bit wipes out bits.
LEMMA LostKept ==
  ASSUME NEW t \in Team,
         \/ Expand(t) \/ LoadDistance(t) \/ CompareAndSwap(t) \/ Expanded(t)
         \/ LookBack(t) \/ LoadWord(t)
  PROVE  UNCHANGED <<lost, front, curr>>
BY DEF Expand, LoadDistance, CompareAndSwap, Expanded, LookBack, LoadWord

\* What a visit of w from the level before keeps.
LEMMA LevelVisits ==
  ASSUME SearchAssumption, SearchInv, LevelInv, NEW t \in Team, ThreadFrame(t),
         UNCHANGED lost,
         NEW w \in Ids, distances[w] < 0, distances' = [distances EXCEPT ![w] = distance],
         NEW x \in Ids, <<x, w>> \in snapshot, distances[x] = distance - 1,
         \/ step = "topdown" /\ shared_in' = shared_in \cup {w}
         \/ step = "bottomup" /\ UNCHANGED shared_in
  PROVE  Rooted' /\ HasParent' /\ Settled' /\ QueueIsLevel' /\ FrontHoldsLevel'
<1>1. UNCHANGED <<snapshot, distance, queue, front, step>>
  BY DEF ThreadFrame
<1>2. distance \in Nat /\ distance >= 1 /\ \A v \in Ids : distances[v] \in Int
  BY Numbers
<1>3. /\ distances'[w] = distance /\ \A v \in Ids : v # w => distances'[v] = distances[v]
      /\ VisitedBefore' = VisitedBefore /\ Level(distance)' = Level(distance) \cup {w}
  BY <1>1, VisitFacts
<1>4. \A v \in Ids : distances[v] >= 0 => v # w /\ distances'[v] = distances[v]
  BY <1>2, <1>3
<1>5. Rooted'
  <2>1. root \in Ids /\ distances[root] = 0 /\ \A v \in Ids : distances[v] = 0 => v = root
    BY DEF SearchAssumption, LevelInv, Rooted
  <2> QED
    BY <1>2, <1>3, <2>1 DEF Rooted
<1>6. HasParent'
  <2>1. ASSUME NEW v \in Ids, distances'[v] > 0
        PROVE  \E u \in Ids : <<u, v>> \in snapshot /\ distances'[u] = distances'[v] - 1
    <3>1. CASE v = w
      <4>1. distances[x] >= 0
        BY <1>2
      <4>2. distances'[x] = distances'[w] - 1
        BY <1>3, <1>4, <4>1
      <4> QED
        BY <3>1, <4>2
    <3>2. CASE v # w
      <4>1. distances[v] > 0 /\ distances'[v] = distances[v]
        BY <1>3, <2>1, <3>2
      <4>2. PICK u \in Ids : <<u, v>> \in snapshot /\ distances[u] = distances[v] - 1
        BY <4>1 DEF LevelInv, HasParent
      <4>3. distances[u] >= 0
        BY <1>2, <4>1, <4>2
      <4> QED
        BY <1>4, <4>1, <4>2, <4>3
    <3> QED
      BY <3>1, <3>2
  <2> QED
    BY <1>1, <2>1 DEF HasParent
<1>7. Settled'
  <2>1. ASSUME NEW u \in Ids, distances'[u] >= 0, distances'[u] <= distance - 2, u \notin lost
        PROVE  Expands(u)'
    <3>1. u # w /\ distances'[u] = distances[u]
      BY <1>2, <1>3, <2>1
    <3>2. Expands(u)
      BY <2>1, <3>1 DEF LevelInv, Settled
    <3> QED
      BY <1>1, <1>4, <3>1, <3>2 DEF Expands
  <2> QED
    BY <1>1, <2>1 DEF Settled
<1>8. Level(distance - 1)' = Level(distance - 1)
  <2>1. \A v \in Ids : distances'[v] = distance - 1 <=> distances[v] = distance - 1
    BY <1>2, <1>3
  <2> QED
    BY <1>1, <2>1 DEF Level
<1>9. QueueIsLevel'
  <2>1. w \notin lost
    BY <1>2 DEF LevelInv, LostBits, Visited
  <2> QED
    BY <1>1, <1>3, <1>8, <2>1 DEF LevelInv, QueueIsLevel
<1>10. FrontHoldsLevel'
  BY <1>1, <1>3, <1>8 DEF LevelInv, FrontHoldsLevel
<1> QED
  BY <1>5, <1>6, <1>7, <1>9, <1>10

\* A top-down step of t hands on what it had to visit, or has visited it.
LEMMA TopDownStep ==
  ASSUME SearchInv, LevelInv, NEW t \in Team, ThreadFrame(t), step = "topdown", work' \subseteq work,
         \A v \in Ids : distances[v] >= 0 => distances'[v] >= 0,
         Expanding(t)' =>
           local'[t].u \in queue /\ \A v \in Ids : Pending(t, v)' => v \in Neighbours(local'[t].u),
         \A y \in work \ work' : \A v \in Neighbours(y) :
           distances'[v] >= 0 \/ (Expanding(t)' /\ local'[t].u = y /\ Pending(t, v)'),
         \A v \in Ids : Expanding(t) /\ Pending(t, v) =>
           distances'[v] >= 0 \/ (Expanding(t)' /\ local'[t].u = local[t].u /\ Pending(t, v)')
  PROVE  TopDownInv' /\ BottomUpInv'
<1>1. UNCHANGED <<snapshot, queue, step>> /\ \A r \in Team : r # t => local'[r] = local[r]
  BY DEF ThreadFrame
<1>2. /\ \A y : Neighbours(y)' = Neighbours(y)
      /\ \A r \in Team : Neighbours(local[r].u)' = Neighbours(local'[r].u)
  BY <1>1 DEF Neighbours
<1>3. /\ work \subseteq queue
      /\ \A r \in Team : Expanding(r) =>
           local[r].u \in queue /\ \A v \in Ids : Pending(r, v) => v \in Neighbours(local[r].u)
      /\ \A y \in queue \ work : \A v \in Neighbours(y) :
           distances[v] >= 0 \/ \E r \in Team : Expanding(r) /\ local[r].u = y /\ Pending(r, v)
  BY DEF LevelInv, TopDownInv
<1>4. \A r \in Team : r # t => /\ Expanding(r)' <=> Expanding(r)
                               /\ \A v : Pending(r, v)' <=> Pending(r, v)
  BY <1>1 DEF Expanding, Pending
<1>5. ASSUME NEW r \in Team, Expanding(r)'
      PROVE  local'[r].u \in queue /\ \A v \in Ids : Pending(r, v)' => v \in Neighbours(local'[r].u)
  <2>1. CASE r = t
    BY <1>5, <2>1
  <2>2. CASE r # t
    BY <1>1, <1>3, <1>4, <1>5, <2>2
  <2> QED
    BY <2>1, <2>2
<1>6. ASSUME NEW y \in queue \ work', NEW v \in Neighbours(y)
      PROVE  distances'[v] >= 0 \/ \E r \in Team : Expanding(r)' /\ local'[r].u = y /\ Pending(r, v)'
  <2>1. CASE y \in work
    BY <1>6, <2>1
  <2>2. CASE y \notin work
    <3>1. v \in Ids
      BY DEF Neighbours
    <3>2. CASE distances[v] >= 0
      BY <3>1, <3>2
    <3>3. CASE \E r \in Team : Expanding(r) /\ local[r].u = y /\ Pending(r, v)
      <4>1. PICK r \in Team : Expanding(r) /\ local[r].u = y /\ Pending(r, v)
        BY <3>3
      <4>2. CASE r = t
        BY <3>1, <4>1, <4>2
      <4>3. CASE r # t
        BY <1>1, <1>4, <4>1, <4>3
      <4> QED
        BY <4>2, <4>3
    <3> QED
      BY <1>3, <1>6, <2>2, <3>2, <3>3
  <2> QED
    BY <2>1, <2>2
<1>7. TopDownInv'
  BY <1>1, <1>2, <1>3, <1>5, <1>6 DEF TopDownInv
<1>8. BottomUpInv'
  BY <1>1 DEF BottomUpInv
<1> QED
  BY <1>7, <1>8

LEMMA LevelExpands ==
  ASSUME SearchAssumption, SearchInv, LevelInv, NEW t \in Team, Expand(t)
  PROVE  LevelInv'
<1>0. UNCHANGED <<lost, front, curr>>
  BY LostKept
<1>1. /\ ThreadFrame(t) /\ UNCHANGED <<distances, shared_in>>
      /\ step = "topdown" /\ local[t].pc = "rest" /\ local'[t].pc = "edges"
  BY ExpandFacts
<1>2. PICK u \in work : work' = work \ {u} /\ local'[t].u = u /\ local'[t].left = Neighbours(u)
  BY ExpandFacts
<1>3. Rooted' /\ HasParent' /\ Settled' /\ QueueIsLevel' /\ FrontHoldsLevel'
  BY <1>0, <1>1, LevelStays
<1>4. /\ Expanding(t)' /\ ~Expanding(t) /\ \A v : Pending(t, v)' <=> v \in Neighbours(u)
  BY <1>1, <1>2 DEF Expanding, Pending
<1>5. u \in queue
  BY <1>1 DEF LevelInv, TopDownInv
<1>6. TopDownInv' /\ BottomUpInv'
  BY <1>1, <1>2, <1>4, <1>5, TopDownStep
<1>7. LostBits'
  BY <1>0, <1>1, LostStays
<1> QED
  BY <1>3, <1>6, <1>7 DEF LevelInv

LEMMA LevelLoads ==
  ASSUME SearchInv, LevelInv, NEW t \in Team, LoadDistance(t)
  PROVE  LevelInv'
<1>0. UNCHANGED <<lost, front, curr>>
  BY LostKept
<1>1. /\ ThreadFrame(t) /\ UNCHANGED <<distances, shared_in, work>>
      /\ step = "topdown" /\ local[t].pc = "edges" /\ local'[t].u = local[t].u
  BY LoadDistanceFacts
<1>2. PICK w \in local[t].left :
        /\ w \in Ids /\ local'[t].left = local[t].left \ {w} /\ local'[t].v = w
        /\ \/ local'[t].pc = "cas" /\ distances[w] < 0
           \/ local'[t].pc = "edges" /\ distances[w] >= 0
  BY LoadDistanceFacts
<1>3. Rooted' /\ HasParent' /\ Settled' /\ QueueIsLevel' /\ FrontHoldsLevel'
  BY <1>0, <1>1, LevelStays
<1>4. Expanding(t) /\ Expanding(t)' /\ \A v : Pending(t, v) <=> v \in local[t].left
  BY <1>1, <1>2 DEF Expanding, Pending
<1>5. /\ \A v : Pending(t, v)' => Pending(t, v)
      /\ \A v \in Ids : Pending(t, v) => distances[v] >= 0 \/ Pending(t, v)'
  BY <1>2, <1>4 DEF Pending
<1>6. local[t].u \in queue /\ \A v \in Ids : Pending(t, v) => v \in Neighbours(local[t].u)
  BY <1>1, <1>4 DEF LevelInv, TopDownInv
<1>7. TopDownInv' /\ BottomUpInv'
  BY <1>1, <1>4, <1>5, <1>6, TopDownStep
<1>8. LostBits'
  BY <1>0, <1>1, LostStays
<1> QED
  BY <1>3, <1>7, <1>8 DEF LevelInv

LEMMA LevelExpanded ==
  ASSUME SearchAssumption, SearchInv, LevelInv, NEW t \in Team, Expanded(t)
  PROVE  LevelInv'
<1>0. UNCHANGED <<lost, front, curr>>
  BY LostKept
<1>1. /\ ThreadFrame(t) /\ UNCHANGED <<distances, shared_in, work>>
      /\ step = "topdown" /\ local[t].pc = "edges" /\ local[t].left = {} /\ local'[t].pc = "rest"
  BY RestFacts DEF Expanded, ThreadFrame, graphVars, SearchInv, InStep
<1>2. Rooted' /\ HasParent' /\ Settled' /\ QueueIsLevel' /\ FrontHoldsLevel'
  BY <1>0, <1>1, LevelStays
<1>3. ~Expanding(t)' /\ \A v : ~Pending(t, v)
  BY <1>1 DEF Expanding, Pending
<1>4. TopDownInv' /\ BottomUpInv'
  BY <1>1, <1>3, TopDownStep
<1>5. LostBits'
  BY <1>0, <1>1, LostStays
<1> QED
  BY <1>2, <1>4, <1>5 DEF LevelInv

LEMMA LevelSwaps ==
  ASSUME SearchAssumption, SearchInv, LevelInv, NEW t \in Team, CompareAndSwap(t)
  PROVE  LevelInv'
<1>0. UNCHANGED <<lost, front, curr>>
  BY LostKept
<1>1. PICK w : w = local[t].v
  OBVIOUS
<1>2. /\ w \in Ids /\ ThreadFrame(t) /\ UNCHANGED work /\ step = "topdown" /\ local[t].pc = "cas"
      /\ local'[t].pc = "edges" /\ local'[t].u = local[t].u /\ local'[t].left = local[t].left
  BY <1>1, SwapFacts
<1>3. \/ /\ distances[w] < 0 /\ distances' = [distances EXCEPT ![w] = distance]
         /\ shared_in' = shared_in \cup {w}
      \/ distances[w] >= 0 /\ UNCHANGED <<distances, shared_in>>
  BY <1>1, SwapFacts
<1>4. Expanding(t) /\ Expanding(t)' /\ Pending(t, w)
  BY <1>1, <1>2 DEF Expanding, Pending
<1>5. local[t].u \in queue /\ \A v \in Ids : Pending(t, v) => v \in Neighbours(local[t].u)
  BY <1>2, <1>4 DEF LevelInv, TopDownInv
<1>6. UNCHANGED distance /\ distance \in Nat
  BY <1>2, Numbers DEF ThreadFrame
<1>7. /\ distances'[w] >= 0 /\ \A v \in Ids : distances[v] >= 0 => distances'[v] >= 0
      /\ Rooted' /\ HasParent' /\ Settled' /\ QueueIsLevel' /\ FrontHoldsLevel'
  <2>1. CASE /\ distances[w] < 0 /\ distances' = [distances EXCEPT ![w] = distance]
             /\ shared_in' = shared_in \cup {w}
    <3>1. distances'[w] = distance /\ \A v \in Ids : v # w => distances'[v] = distances[v]
      BY <1>2, <1>6, <2>1, VisitFacts
    <3>2. local[t].u \in Ids /\ <<local[t].u, w>> \in snapshot /\ distances[local[t].u] = distance - 1
      BY <1>2, <1>4, <1>5 DEF LevelInv, QueueIsLevel, Level, Neighbours
    <3>3. Rooted' /\ HasParent' /\ Settled' /\ QueueIsLevel' /\ FrontHoldsLevel'
      BY <1>0, <1>2, <2>1, <3>2, LevelVisits
    <3> QED
      BY <1>6, <3>1, <3>3
  <2>2. CASE distances[w] >= 0 /\ UNCHANGED <<distances, shared_in>>
    BY <1>0, <1>2, <2>2, LevelStays
  <2> QED
    BY <1>3, <2>1, <2>2
<1>8. /\ \A v : Pending(t, v)' => Pending(t, v)
      /\ \A v \in Ids : Pending(t, v) => v = w \/ Pending(t, v)'
  BY <1>1, <1>2 DEF Pending
<1>9. TopDownInv' /\ BottomUpInv'
  BY <1>2, <1>4, <1>5, <1>7, <1>8, TopDownStep
<1>10. LostBits'
  BY <1>0, <1>7, LostStays
<1> QED
  BY <1>7, <1>9, <1>10 DEF LevelInv
LEMMA LevelLooks ==
  ASSUME SearchAssumption, SearchInv, LevelInv, NEW t \in Team, LookBack(t)
  PROVE  LevelInv'
<1>0. UNCHANGED <<lost, front, curr>>
  BY LostKept
<1>1. /\ ThreadFrame(t) /\ UNCHANGED <<shared_in, curr>> /\ step = "bottomup" /\ local[t].pc = "rest"
  BY LookFacts
<1>2. PICK u \in Chunk(t) \cap work :
        /\ u \in Ids /\ work' = work \ {u}
        /\ \/ /\ distances[u] < 0 /\ HasFrontNeighbour(u)
              /\ distances' = [distances EXCEPT ![u] = distance]
              /\ local'[t].pc = "word" /\ local'[t].u = u
           \/ (distances[u] >= 0 \/ ~HasFrontNeighbour(u)) /\ UNCHANGED <<distances, local>>
  BY LookFacts
<1>3. /\ UNCHANGED <<snapshot, distance, front, step>> /\ \A r \in Team : r # t => local'[r] = local[r]
  BY <1>1 DEF ThreadFrame
<1>4. /\ \A v \in Ids \ work : distances[v] >= 0 \/ ~HasFrontNeighbour(v)
      /\ \A v \in Level(distance) :
           v \in curr \/ v \in lost \/ \E r \in Team : Setting(r) /\ local[r].u = v
  BY <1>1 DEF LevelInv, BottomUpInv
<1>5. \A v : HasFrontNeighbour(v)' <=> HasFrontNeighbour(v)
  BY <1>3 DEF HasFrontNeighbour, Neighbours
<1>6. TopDownInv'
  BY <1>1, <1>3 DEF TopDownInv
<1>7. CASE (distances[u] >= 0 \/ ~HasFrontNeighbour(u)) /\ UNCHANGED <<distances, local>>
  <2>1. Rooted' /\ HasParent' /\ Settled' /\ QueueIsLevel' /\ FrontHoldsLevel'
    BY <1>0, <1>1, <1>7, LevelStays
  <2>2. \A v \in Ids \ work' : distances[v] >= 0 \/ ~HasFrontNeighbour(v)
    BY <1>2, <1>4, <1>7
  <2>3. LostBits'
    BY <1>0, <1>7, LostStays
  <2>4. BottomUpInv'
    BY <1>0, <1>1, <1>3, <1>4, <1>5, <1>7, <2>2 DEF BottomUpInv, Setting, Level
  <2> QED
    BY <1>6, <2>1, <2>3, <2>4 DEF LevelInv
<1>8. CASE /\ distances[u] < 0 /\ HasFrontNeighbour(u)
           /\ distances' = [distances EXCEPT ![u] = distance]
           /\ local'[t].pc = "word" /\ local'[t].u = u
  <2>1. PICK x \in front : x \in Ids /\ <<u, x>> \in snapshot /\ x \notin lost
    BY <1>8 DEF HasFrontNeighbour, Neighbours, LevelInv, LostBits
  <2>2. <<x, u>> \in snapshot
    BY <1>2, <2>1 DEF SearchInv, SearchType
  <2>3. distances[x] = distance - 1
    <3>1. distances[x] >= 0 /\ distances[x] < distance
      BY <2>1 DEF LevelInv, FrontHoldsLevel, VisitedBefore
    <3>2. distances[x] \in Int /\ distance \in Nat /\ distances[u] \in Int
      BY <1>2, <2>1, Numbers
    <3>3. ~(distances[x] <= distance - 2)
      <4> SUFFICES ASSUME distances[x] <= distance - 2 PROVE FALSE
        OBVIOUS
      <4>1. distances[u] >= 0
        BY <1>2, <2>1, <2>2, <3>1 DEF LevelInv, Settled, Expands
      <4> QED
        BY <1>8, <3>2, <4>1
    <3> QED
      BY <3>1, <3>2, <3>3
  <2>4. Rooted' /\ HasParent' /\ Settled' /\ QueueIsLevel' /\ FrontHoldsLevel'
    BY <1>0, <1>1, <1>2, <1>8, <2>1, <2>2, <2>3, LevelVisits
  <2>5. /\ distances'[u] = distance /\ \A v \in Ids : v # u => distances'[v] = distances[v]
        /\ Level(distance)' = Level(distance) \cup {u}
    BY <1>2, <1>3, <1>8, VisitFacts
  <2>6. ASSUME NEW v \in Ids \ work' PROVE distances'[v] >= 0 \/ ~HasFrontNeighbour(v)
    <3>1. CASE v = u
      BY <2>5, <3>1, Numbers
    <3>2. CASE v # u
      BY <1>2, <1>4, <2>5, <2>6, <3>2
    <3> QED
      BY <3>1, <3>2
  <2>7. Setting(t)' /\ \A r \in Team : r # t => (Setting(r)' <=> Setting(r))
    BY <1>3, <1>8 DEF Setting
  <2>8. ASSUME NEW v \in Level(distance)'
        PROVE  v \in curr' \/ v \in lost' \/ \E r \in Team : Setting(r)' /\ local'[r].u = v
    <3>1. CASE v = u
      BY <1>8, <2>7, <3>1
    <3>2. CASE v # u
      <4>1. v \in curr \/ v \in lost \/ \E r \in Team : Setting(r) /\ local[r].u = v
        BY <1>4, <2>5, <2>8, <3>2
      <4>2. ~Setting(t)
        BY <1>1 DEF Setting
      <4> QED
        BY <1>0, <1>3, <2>7, <4>1, <4>2
    <3> QED
      BY <3>1, <3>2
  <2>9. BottomUpInv'
    BY <1>3, <1>5, <2>6, <2>8 DEF BottomUpInv
  <2>10. LostBits'
    <3>1. distance \in Nat
      BY Numbers
    <3>2. \A v \in Ids : distances[v] >= 0 => distances'[v] >= 0
      BY <2>5, <3>1
    <3> QED
      BY <1>0, <3>2, LostStays
  <2> QED
    BY <1>6, <2>4, <2>9, <2>10 DEF LevelInv
<1> QED
  BY <1>2, <1>7, <1>8

LEMMA LevelLoadsWord ==
  ASSUME SearchInv, LevelInv, NEW t \in Team, LoadWord(t)
  PROVE  LevelInv'
<1>0. UNCHANGED <<lost, front, curr>>
  BY LostKept
<1>1. /\ ThreadFrame(t) /\ UNCHANGED <<distances, shared_in, curr, work>>
      /\ step = "bottomup" /\ local[t].pc = "word" /\ local'[t].pc = "bit" /\ local'[t].u = local[t].u
  BY LoadWordFacts
<1>2. /\ UNCHANGED <<snapshot, distance, front, step>> /\ \A r \in Team : r # t => local'[r] = local[r]
  BY <1>1 DEF ThreadFrame
<1>3. Rooted' /\ HasParent' /\ Settled' /\ QueueIsLevel' /\ FrontHoldsLevel'
  BY <1>0, <1>1, LevelStays
<1>4. TopDownInv'
  BY <1>1, <1>2 DEF TopDownInv
<1>5. /\ \A v \in Ids \ work : distances[v] >= 0 \/ ~HasFrontNeighbour(v)
      /\ \A v \in Level(distance) :
           v \in curr \/ v \in lost \/ \E r \in Team : Setting(r) /\ local[r].u = v
  BY <1>1 DEF LevelInv, BottomUpInv
<1>6. \A r \in Team : local'[r].u = local[r].u /\ (Setting(r)' <=> Setting(r))
  BY <1>1, <1>2 DEF Setting
<1>7. \A v : HasFrontNeighbour(v)' <=> HasFrontNeighbour(v)
  BY <1>2 DEF HasFrontNeighbour, Neighbours
<1>8. Level(distance)' = Level(distance)
  BY <1>1, <1>2 DEF Level
<1>9. BottomUpInv'
  BY <1>0, <1>1, <1>2, <1>5, <1>6, <1>7, <1>8 DEF BottomUpInv
<1>10. LostBits'
  BY <1>0, <1>1, LostStays
<1> QED
  BY <1>3, <1>4, <1>9, <1>10 DEF LevelInv

LEMMA LevelSetsBit ==
  ASSUME SearchAssumption, SearchInv, LevelInv, NEW t \in Team, set_bit(t)
  PROVE  LevelInv'
<1>1. PICK u, left : u = local[t].u /\ left = local[t].left
  OBVIOUS
<1>2. /\ ThreadFrame(t) /\ UNCHANGED <<distances, shared_in, work>>
      /\ step = "bottomup" /\ local[t].pc = "bit" /\ local'[t].pc = "rest"
      /\ curr' = (curr \ Word(u)) \cup left \cup {u}
  BY <1>1, SetBitFacts
<1>3. lost' = (lost \cup (curr \cap Word(u))) \ (left \cup {u})
  BY <1>1 DEF set_bit
<1>4. /\ UNCHANGED <<snapshot, distance, front, step>> /\ \A r \in Team : r # t => local'[r] = local[r]
  BY <1>2 DEF ThreadFrame
<1>5. /\ curr \subseteq Level(distance) /\ left \subseteq Level(distance) /\ distances[u] = distance
      /\ u \in Ids /\ distance \in Nat
  BY <1>1, <1>2 DEF SearchInv, BitsFound, SearchType, Thread
<1>6. Rooted' /\ HasParent' /\ Settled' /\ QueueIsLevel' /\ FrontHoldsLevel'
  <2>1. \A v \in Ids : distances[v] < distance => (v \in lost' <=> v \in lost)
    BY <1>3, <1>5 DEF Level
  <2> QED
    BY <1>2, <2>1, LevelStays
<1>7. TopDownInv'
  BY <1>2, <1>4 DEF TopDownInv
<1>8. LostBits'
  <2>1. lost \subseteq Visited /\ front \cap lost = {} /\ curr \cap lost = {} /\ front \subseteq VisitedBefore
    BY DEF LevelInv, LostBits, FrontHoldsLevel
  <2>2. curr \subseteq Visited /\ front \cap curr = {}
    BY <1>5, <2>1 DEF Level, Visited, VisitedBefore
  <2>3. lost' \subseteq Visited
    BY <1>3, <2>1, <2>2
  <2>4. front' \cap lost' = {} /\ curr' \cap lost' = {}
    BY <1>2, <1>3, <1>4, <2>1, <2>2
  <2> QED
    BY <1>2, <2>3, <2>4 DEF LostBits, Visited
<1>9. /\ \A v \in Ids \ work : distances[v] >= 0 \/ ~HasFrontNeighbour(v)
      /\ \A v \in Level(distance) :
           v \in curr \/ v \in lost \/ \E r \in Team : Setting(r) /\ local[r].u = v
  BY <1>2 DEF LevelInv, BottomUpInv
<1>10. \A r \in Team : r # t => (Setting(r)' <=> Setting(r))
  BY <1>4 DEF Setting
<1>11. \A v : HasFrontNeighbour(v)' <=> HasFrontNeighbour(v)
  BY <1>4 DEF HasFrontNeighbour, Neighbours
<1>12. ASSUME NEW v \in Level(distance)
       PROVE  v \in curr' \/ v \in lost' \/ \E r \in Team : Setting(r)' /\ local'[r].u = v
  <2>1. CASE v \in curr \/ v \in lost
    BY <1>2, <1>3, <2>1
  <2>2. CASE \E r \in Team : Setting(r) /\ local[r].u = v
    <3>1. PICK r \in Team : Setting(r) /\ local[r].u = v
      BY <2>2
    <3>2. CASE r = t
      BY <1>1, <1>2, <3>1, <3>2
    <3>3. CASE r # t
      BY <1>4, <1>10, <3>1, <3>3
    <3> QED
      BY <3>2, <3>3
  <2> QED
    BY <1>9, <2>1, <2>2
<1>13. Level(distance)' = Level(distance)
  BY <1>2, <1>4 DEF Level
<1>14. BottomUpInv'
  BY <1>2, <1>4, <1>9, <1>11, <1>12, <1>13 DEF BottomUpInv
<1> QED
  BY <1>6, <1>7, <1>8, <1>14 DEF LevelInv

LEMMA LevelStutters ==
  ASSUME LevelInv, UNCHANGED bfsVars
  PROVE  LevelInv'
<1>1. UNCHANGED <<snapshot, distances, distance, queue, shared_in, front, curr, lost, step,
               work, local>>
  BY DEF bfsVars, graphVars
<1>2. Rooted' /\ HasParent' /\ Settled' /\ QueueIsLevel' /\ FrontHoldsLevel' /\ LostBits'
  BY <1>1 DEF LevelInv, Rooted, HasParent, Settled, Expands, QueueIsLevel, FrontHoldsLevel, LostBits,
              Level, Visited, VisitedBefore
<1>3. TopDownInv'
  BY <1>1 DEF LevelInv, TopDownInv, Expanding, Pending, Neighbours
<1>4. BottomUpInv'
  BY <1>1 DEF LevelInv, BottomUpInv, Setting, Neighbours, Level, HasFrontNeighbour
<1> QED
  BY <1>2, <1>3, <1>4 DEF LevelInv

LEMMA LevelStep ==
  ASSUME SearchAssumption, SearchInv, LevelInv, [BFSNext]_bfsVars
  PROVE  LevelInv'
<1>1. CASE BeginTopDown \/ EndTopDown \/ BeginBottomUp \/ BeginBUStep \/ EndBUStep \/ Finish
  BY <1>1, LevelTopDownBegins, LevelTopDownEnds, LevelBottomUpBegins, LevelBUStepBegins,
     LevelBUStepEnds, LevelFinishes
<1>2. CASE \E t \in Team :
             \/ Expand(t) \/ LoadDistance(t) \/ CompareAndSwap(t) \/ Expanded(t)
             \/ LookBack(t) \/ LoadWord(t) \/ set_bit(t)
  BY <1>2, LevelExpands, LevelLoads, LevelSwaps, LevelExpanded, LevelLooks, LevelLoadsWord,
     LevelSetsBit
<1> QED
  BY <1>1, <1>2, LevelStutters DEF BFSNext

LEMMA LevelInvariant ==
  ASSUME SearchAssumption
  PROVE  BFSSpec => [](SearchInv /\ LevelInv)
<1>1. BFSInit => SearchInv /\ LevelInv
  BY InitSearch, InitLevel
<1>2. SearchInv /\ LevelInv /\ [BFSNext]_bfsVars => SearchInv' /\ LevelInv'
  BY SearchStep, LevelStep
<1> QED
  BY <1>1, <1>2, PTL DEF BFSSpec

-----------------------------------------------------------------------------
(* At the end the levels are the distances.                                *)

\* A vertex of level d ends a walk of d hops.
LEMMA LevelsAreReached ==
  ASSUME SearchAssumption, SearchInv, LevelInv, NEW d \in Nat, NEW v \in Ids, distances[v] = d
  PROVE  \E p \in [0 .. d -> Ids] : Walk(p, d) /\ p[d] = v
<1> DEFINE Reached(k) == \A w \in Ids : distances[w] = k =>
                           \E p \in [0 .. k -> Ids] : Walk(p, k) /\ p[k] = w
           Bad == {k \in Nat : ~Reached(k)}
<1>1. ASSUME Bad # {} PROVE FALSE
  <2>1. PICK k \in Bad : \A j \in Bad : k <= j
    BY <1>1, NatSetLeast
  <2>2. k \in Nat /\ ~Reached(k)
    BY <2>1
  <2>3. PICK w \in Ids : distances[w] = k /\ ~\E p \in [0 .. k -> Ids] : Walk(p, k) /\ p[k] = w
    BY <2>2
  <2>4. CASE k = 0
    <3>1. w = root
      BY <2>3, <2>4 DEF LevelInv, Rooted
    <3>2. [i \in 0 .. 0 |-> root] \in [0 .. 0 -> Ids] /\ [i \in 0 .. 0 |-> root][0] = root
      BY <3>1
    <3>3. Walk([i \in 0 .. 0 |-> root], 0)
      BY <3>2 DEF Walk
    <3> QED
      BY <2>3, <2>4, <3>1, <3>2, <3>3
  <2>5. CASE k > 0
    <3>1. PICK u \in Ids : <<u, w>> \in snapshot /\ distances[u] = k - 1
      BY <2>3, <2>5 DEF LevelInv, HasParent
    <3>2. k - 1 \in Nat /\ ~(k <= k - 1)
      BY <2>2, <2>5
    <3>3. Reached(k - 1)
      BY <2>1, <3>2
    <3>4. PICK p \in [0 .. k - 1 -> Ids] : Walk(p, k - 1) /\ p[k - 1] = u
      BY <3>1, <3>3
    <3> DEFINE q == [i \in 0 .. k |-> IF i = k THEN w ELSE p[i]]
    <3>5. q \in [0 .. k -> Ids] /\ q[k] = w /\ \A i \in 0 .. k - 1 : q[i] = p[i]
      BY <2>2, <3>4
    <3>6. Walk(q, k)
      <4>1. q[0] = root
        BY <2>5, <3>4, <3>5 DEF Walk
      <4>2. ASSUME NEW i \in 0 .. k - 1 PROVE <<q[i], q[i + 1]>> \in snapshot
        <5>1. CASE i = k - 1
          <6>1. i + 1 = k
            BY <2>2, <5>1
          <6>2. q[i] = u /\ q[i + 1] = w
            BY <3>4, <3>5, <5>1, <6>1
          <6> QED
            BY <3>1, <6>2
        <5>2. CASE i # k - 1
          <6>1. i \in 0 .. (k - 1) - 1 /\ i + 1 \in 0 .. k - 1
            BY <2>2, <4>2, <5>2
          <6> QED
            BY <3>4, <3>5, <6>1 DEF Walk
        <5> QED
          BY <5>1, <5>2
      <4> QED
        BY <4>1, <4>2 DEF Walk
    <3> QED
      BY <2>3, <3>5, <3>6
  <2> QED
    BY <2>2, <2>4, <2>5
<1>2. Reached(d)
  BY <1>1
<1> QED
  BY <1>2

\* When all levels are settled but for what was lost, a walk of n hops that passes none
\* of it ends at level n or before.
LEMMA WalksEndInLevels ==
  ASSUME SearchAssumption, SearchInv, Rooted,
         \A u \in Ids : distances[u] >= 0 /\ u \notin lost => Expands(u),
         NEW n \in Nat, NEW p \in [0 .. n -> Ids], Walk(p, n), \A i \in 0 .. n - 1 : p[i] \notin lost
  PROVE  distances[p[n]] >= 0 /\ distances[p[n]] <= n
<1> DEFINE Fine(k) == distances[p[k]] >= 0 /\ distances[p[k]] <= k
           Bad == {k \in 0 .. n : ~Fine(k)}
<1>1. ASSUME Bad # {} PROVE FALSE
  <2>0. Bad \subseteq Nat
    OBVIOUS
  <2>1. PICK k \in Bad : \A j \in Bad : k <= j
    BY <1>1, <2>0, NatSetLeast
  <2>2. k \in 0 .. n /\ ~Fine(k)
    BY <2>1
  <2>3. CASE k = 0
    BY <2>2, <2>3 DEF Walk, Rooted
  <2>4. CASE k > 0
    <3>1. k - 1 \in 0 .. n - 1 /\ k - 1 \in 0 .. n /\ ~(k <= k - 1) /\ (k - 1) + 1 = k
      BY <2>2, <2>4
    <3>2. Fine(k - 1)
      BY <2>1, <3>1
    <3>3. <<p[k - 1], p[(k - 1) + 1]>> \in snapshot
      BY <3>1 DEF Walk
    <3>4. <<p[k - 1], p[k]>> \in snapshot
      BY <3>1, <3>3
    <3>5. p[k - 1] \in Ids /\ p[k] \in Ids
      BY <2>2, <3>1
    <3>6. Expands(p[k - 1])
      BY <3>1, <3>2, <3>5
    <3>7. distances[p[k]] >= 0 /\ distances[p[k]] <= distances[p[k - 1]] + 1
      BY <3>4, <3>5, <3>6 DEF Expands
    <3>8. distances[p[k]] \in Int /\ distances[p[k - 1]] \in Int /\ k \in Nat
      BY <2>2, <3>5, Numbers
    <3> QED
      BY <2>2, <3>2, <3>7, <3>8
  <2> QED
    BY <2>2, <2>3, <2>4
<1>2. Fine(n)
  BY <1>1
<1> QED
  BY <1>2

\* Bits are lost when two threads set bits of one word at a time (Bitmap::set_bit is not
\* atomic), and what lies behind them may be found late or never; but a distance is never
\* less than the number of hops, for any symmetric graph, any team of threads and
\* interleaving, any word size and any choice of directions (BFS.cpp, do_bfs).
THEOREM DistancesAreWalked ==
  ASSUME SearchAssumption
  PROVE  BFSSpec => []DistancesWalked
<1>1. ASSUME SearchInv, LevelInv PROVE DistancesWalked
  <2>1. ASSUME NEW v \in Ids, distances[v] >= 0
        PROVE  \E p \in [0 .. distances[v] -> Ids] : Walk(p, distances[v]) /\ p[distances[v]] = v
    <3>1. PICK d \in Nat : d = distances[v]
      BY <1>1, <2>1, Numbers
    <3> QED
      BY <1>1, <3>1, LevelsAreReached
  <2> QED
    BY <2>1 DEF DistancesWalked
<1>2. SearchInv /\ LevelInv => DistancesWalked
  BY <1>1
<1> QED
  BY <1>2, LevelInvariant, PTL

\* When the search ends, no walk that passes no lost bit leads to its end in fewer hops
\* than the distance found, for the same constants: only what lies behind a lost bit can
\* have been missed, and without lost bits the distances are exact (BFS.cpp, do_bfs).
THEOREM SearchIsExact ==
  ASSUME SearchAssumption
  PROVE  BFSSpec => []DistancesExact
<1>1. ASSUME SearchInv, LevelInv PROVE DistancesExact
  <2> SUFFICES ASSUME step = "done", NEW n \in 0 .. max_vid, NEW p \in [0 .. n -> Ids], Walk(p, n),
                      \A i \in 0 .. n - 1 : p[i] \notin lost
               PROVE  distances[p[n]] \in 0 .. n
    BY DEF DistancesExact
  <2>1. distance \in Nat /\ \A u \in Ids : distances[u] \in Int
    BY <1>1, Numbers
  <2>2. ASSUME NEW u \in Ids, distances[u] >= 0, u \notin lost PROVE Expands(u)
    <3>1. distances[u] < distance /\ distances[u] # distance - 1
      BY <1>1, <2>2 DEF SearchInv, Bounded, LevelInv, QueueIsLevel, Level
    <3>2. distances[u] <= distance - 2
      BY <2>1, <2>2, <3>1
    <3> QED
      BY <1>1, <2>2, <3>2 DEF LevelInv, Settled
  <2>3. n \in Nat /\ p[n] \in Ids
    BY DEF SearchAssumption
  <2>4. distances[p[n]] >= 0 /\ distances[p[n]] <= n
    BY <1>1, <2>2, <2>3, WalksEndInLevels DEF LevelInv
  <2> QED
    BY <2>1, <2>3, <2>4
<1>2. SearchInv /\ LevelInv => DistancesExact
  BY <1>1
<1> QED
  BY <1>2, LevelInvariant, PTL
=============================================================================
