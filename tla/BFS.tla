--------------------------------- MODULE BFS ---------------------------------
(***************************************************************************)
(* Direction-optimising breadth-first search: algorithm/BFS.cpp with       *)
(* SlidingQueue, QueueBuffer and Bitmap of third-party/gapbs.h.            *)
(*                                                                         *)
(* A top-down step expands the frontier queue; threads claim vertices with *)
(* compare-and-swap.  A bottom-up step lets every unvisited vertex look    *)
(* for a neighbour in the frontier bitmap; its parallel loop has OpenMP's  *)
(* default static schedule, and set_bit reads a word and writes it back.   *)
(***************************************************************************)
EXTENDS Integers, FiniteSets, FiniteSetsExt

CONSTANTS
  max_vid,    \* number of vertices
  Team,       \* the OpenMP team, 0 .. n - 1
  SymmetricGraphs,  \* the snapshots that are tried: sets of edges <<u, v>>
  root,
  Heuristics, \* the triples <<alpha, beta, edges elsewhere>> that are tried: what
              \* decides the direction; edges out of the root's reach count too
  WORD        \* bits in a word of a Bitmap (64 in the code)

VARIABLES
  snapshot,       \* the edges that the scans return
  alpha, beta,
  distances, distance,
  queue,          \* SlidingQueue: the vertices in its window
  shared_in,      \* SlidingQueue: the vertices appended after the window
  appended,       \* SlidingQueue: the index shared_in, which never goes back
  front, curr,    \* the bitmaps, as the sets of their bits
  lost,           \* history: vertices whose bit has been wiped out by another thread
  scout_count, edges_to_check, awake_count, old_awake_count,
  step,           \* "loop", "topdown", "bottomup", "awake", "done"
  work,           \* top-down: window left to expand; bottom-up: vertices per thread
  local           \* per thread: where it is in the loop body

graphVars == <<snapshot, alpha, beta>>
countVars == <<scout_count, edges_to_check, awake_count, old_awake_count>>
bfsVars == <<graphVars, lost, distances, distance, queue, shared_in, appended, front, curr, countVars,
             step, work, local>>

Ids == 0 .. max_vid - 1
Neighbours(u) == {v \in Ids : <<u, v>> \in snapshot}
\* In the code it counts updates as well.  It only weighs the directions and tells a vertex
\* without edges from the others, which an update does not change.
check_degree(u) == Cardinality(Neighbours(u))

AtRest == [pc |-> "rest", u |-> 0, v |-> 0, left |-> {}, val |-> 0]

\* init_distance: minus the degree, so that a claim can add up the frontier's edges.
init_distance(u) == IF check_degree(u) # 0 THEN -check_degree(u) ELSE -1

BFSInit ==
  /\ snapshot \in SymmetricGraphs
  /\ \E h \in Heuristics :
       /\ alpha = h[1] /\ beta = h[2]
       /\ edges_to_check = MapThenSumSet(check_degree, Ids) \div 2 + h[3]
  /\ distances = [u \in Ids |-> IF u = root THEN 0 ELSE init_distance(u)]
  /\ distance = 1
  /\ queue = {root} /\ shared_in = {} /\ appended = 1
  /\ front = {} /\ curr = {} /\ lost = {}
  /\ scout_count = check_degree(root)
  /\ awake_count = 0 /\ old_awake_count = 0
  /\ step = "loop"
  /\ work = {}
  /\ local = [t \in Team |-> AtRest]

-----------------------------------------------------------------------------
(* The main loop: while (!queue.empty()).                                  *)

\* Division of int64_t rounds towards zero.
Quotient(x, d) == IF x >= 0 THEN x \div d ELSE -((-x) \div d)

AllRest == \A t \in Team : local[t].pc = "rest"

BeginTopDown ==
  /\ step = "loop" /\ queue # {}
  /\ ~(scout_count > Quotient(edges_to_check, alpha))
  /\ edges_to_check' = edges_to_check - scout_count
  /\ scout_count' = 0
  /\ step' = "topdown"
  /\ work' = queue
  /\ UNCHANGED <<graphVars, lost, distances, distance, queue, shared_in, appended, front, curr,
                 awake_count, old_awake_count, local>>

\* slide_window: what has been appended becomes the window.
slide_window == queue' = shared_in /\ shared_in' = {}

EndTopDown ==
  /\ step = "topdown" /\ work = {} /\ AllRest
  /\ slide_window
  /\ distance' = distance + 1
  /\ step' = "loop"
  /\ UNCHANGED <<graphVars, lost, distances, appended, front, curr, countVars, work, local>>

\* The queue becomes the frontier bitmap; slide_window leaves the queue empty.
BeginBottomUp ==
  /\ step = "loop" /\ queue # {}
  /\ scout_count > Quotient(edges_to_check, alpha)
  /\ front' = front \cup queue
  /\ awake_count' = Cardinality(queue)
  /\ slide_window
  /\ step' = "awake"
  /\ UNCHANGED <<graphVars, lost, distances, distance, appended, curr, scout_count, edges_to_check,
                 old_awake_count, work, local>>

\* OpenMP's default static schedule: contiguous blocks of equal size.
Chunk(t) ==
  LET n == Cardinality(Team)
      size == (max_vid + n - 1) \div n
  IN  {u \in Ids : u \div size = t}

\* The do loop: one bottom-up step.
BeginBUStep ==
  /\ step = "awake"
  /\ old_awake_count' = awake_count
  /\ awake_count' = 0
  /\ curr' = {}
  /\ step' = "bottomup"
  /\ work' = Ids
  /\ UNCHANGED <<graphVars, lost, distances, distance, queue, shared_in, appended, front, scout_count,
                 edges_to_check, local>>

\* The code divides num_vertices, which the constructor has set; the quotient only
\* decides when the direction changes.
GoesOn == awake_count >= old_awake_count \/ awake_count > max_vid \div beta

\* front.swap(curr); at the end of the do loop the bitmap becomes the queue again.
EndBUStep ==
  /\ step = "bottomup" /\ work = {} /\ AllRest
  /\ front' = curr /\ curr' = front
  /\ distance' = distance + 1
  /\ \/ /\ GoesOn
        /\ step' = "awake"
        /\ UNCHANGED <<queue, shared_in, appended, scout_count>>
     \/ /\ ~GoesOn
        /\ queue' = curr /\ shared_in' = {}
        /\ appended' = appended + Cardinality(curr)
        /\ scout_count' = 1
        /\ step' = "loop"
  /\ UNCHANGED <<graphVars, lost, distances, edges_to_check, awake_count, old_awake_count, work, local>>

Finish ==
  /\ step = "loop" /\ queue = {}
  /\ step' = "done"
  /\ UNCHANGED <<graphVars, lost, distances, distance, queue, shared_in, appended, front, curr, countVars,
                 work, local>>

-----------------------------------------------------------------------------
(* do_bfs_TDStep: the body of its parallel loop, dynamic schedule.         *)

Expand(t) ==
  /\ step = "topdown" /\ local[t].pc = "rest"
  /\ \E u \in work :
       /\ work' = work \ {u}
       /\ local' = [local EXCEPT ![t] = [AtRest EXCEPT !.pc = "edges", !.u = u,
                                                       !.left = Neighbours(u)]]
  /\ UNCHANGED <<graphVars, lost, distances, distance, queue, shared_in, appended, front, curr,
                 countVars, step>>

\* A visited neighbour is passed over; an unvisited one is claimed next.
LoadDistance(t) ==
  /\ local[t].pc = "edges"
  /\ \E v \in local[t].left :
       local' = [local EXCEPT ![t].left = @ \ {v}, ![t].v = v, ![t].val = distances[v],
                        ![t].pc = IF distances[v] < 0 THEN "cas" ELSE "edges"]
  /\ UNCHANGED <<graphVars, lost, distances, distance, queue, shared_in, appended, front, curr, countVars,
                 step, work>>

\* Mutant: the distance is stored without comparing it first.
ClaimsBlindly(t) == TRUE

Claims(t) == distances[local[t].v] = local[t].val

\* QueueBuffer: what a thread pushes reaches the queue by the end of the step, when
\* it flushes; nobody reads it before.
push_back(u) ==
  /\ shared_in' = shared_in \cup {u}
  /\ appended' = appended + 1

\* compare_and_swap; the winner appends the vertex.
CompareAndSwap(t) ==
  /\ local[t].pc = "cas"
  /\ \/ /\ Claims(t)
        /\ distances' = [distances EXCEPT ![local[t].v] = distance]
        /\ push_back(local[t].v)
        /\ scout_count' = scout_count - local[t].val
     \/ ~Claims(t) /\ UNCHANGED <<distances, shared_in, appended, scout_count>>
  /\ local' = [local EXCEPT ![t].pc = "edges"]
  /\ UNCHANGED <<graphVars, lost, distance, queue, front, curr, edges_to_check, awake_count,
                 old_awake_count, step, work>>

Expanded(t) ==
  /\ local[t].pc = "edges" /\ local[t].left = {}
  /\ local' = [local EXCEPT ![t] = AtRest]
  /\ UNCHANGED <<graphVars, lost, distances, distance, queue, shared_in, appended, front, curr, countVars,
                 step, work>>

-----------------------------------------------------------------------------
(* do_bfs_BUStep: the body of its parallel loop, static schedule.          *)

\* Mutants: a vertex of degree 1 passes for visited; the bits of this step are looked at.
UnvisitedDegreeOne(u) == distances[u] < -1
HasFrontNeighbourInPlace(u) == Neighbours(u) \cap (front \cup curr) # {}

Unvisited(u) == distances[u] < 0
HasFrontNeighbour(u) == Neighbours(u) \cap front # {}

\* A thread goes through its block in order.  Only it writes distances[u].
LookBack(t) ==
  /\ step = "bottomup" /\ local[t].pc = "rest"
  /\ Chunk(t) \cap work # {}
  /\ LET u == Min(Chunk(t) \cap work) IN
     /\ work' = work \ {u}
     /\ \/ /\ Unvisited(u) /\ HasFrontNeighbour(u)
           /\ distances' = [distances EXCEPT ![u] = distance]
           /\ awake_count' = awake_count + 1
           /\ local' = [local EXCEPT ![t].pc = "word", ![t].u = u]
        \/ /\ ~(Unvisited(u) /\ HasFrontNeighbour(u))
           /\ UNCHANGED <<distances, awake_count, local>>
  /\ UNCHANGED <<graphVars, lost, distance, queue, shared_in, appended, front, curr, scout_count,
                 edges_to_check, old_awake_count, step>>

Word(u) == {v \in Ids : v \div WORD = u \div WORD}

\* Bitmap::set_bit is start_[word] |= bit: a load and a store.  The blocks of the threads
\* need not be multiples of a word, and a store wipes out the bits of the word that
\* another thread has set since the load.
LoadWord(t) ==
  /\ local[t].pc = "word"
  /\ local' = [local EXCEPT ![t].pc = "bit", ![t].left = curr \cap Word(local[t].u)]
  /\ UNCHANGED <<graphVars, lost, distances, distance, queue, shared_in, appended, front, curr, countVars,
                 step, work>>

set_bit(t) ==
  /\ local[t].pc = "bit"
  /\ lost' = (lost \cup (curr \cap Word(local[t].u))) \ (local[t].left \cup {local[t].u})
  /\ curr' = (curr \ Word(local[t].u)) \cup local[t].left \cup {local[t].u}
  /\ local' = [local EXCEPT ![t] = AtRest]
  /\ UNCHANGED <<graphVars, distances, distance, queue, shared_in, appended, front,
                 countVars, step, work>>

-----------------------------------------------------------------------------
BFSNext ==
  \/ BeginTopDown \/ EndTopDown \/ BeginBottomUp \/ BeginBUStep \/ EndBUStep \/ Finish
  \/ \E t \in Team :
       \/ Expand(t) \/ LoadDistance(t) \/ CompareAndSwap(t) \/ Expanded(t)
       \/ LookBack(t) \/ LoadWord(t) \/ set_bit(t)

BFSSpec == BFSInit /\ [][BFSNext]_bfsVars

-----------------------------------------------------------------------------
(* Properties.                                                             *)

\* p is a walk of n hops from the root.
Walk(p, n) == p[0] = root /\ \A i \in 0 .. n - 1 : <<p[i], p[i + 1]>> \in snapshot

\* The queue was allocated for max_vid entries and its index never goes back: a
\* vertex is appended at most once in the whole search, in whichever direction it
\* was found.
AppendedOnce == appended <= Cardinality({v \in Ids : distances[v] >= 0})

\* A distance is never less than the number of hops, lost bits or not: there is a walk
\* from the root of that many hops.
DistancesWalked ==
  \A v \in Ids : distances[v] >= 0 =>
    \E p \in [0 .. distances[v] -> Ids] : Walk(p, distances[v]) /\ p[distances[v]] = v

\* When the search ends, a vertex has been found in no more hops than any walk to it has
\* that passes no vertex whose bit was lost, however the steps of the threads interleave
\* and wherever the direction changes: a lost bit hides only what lies behind it, and
\* without one (with DistancesWalked) the distances are exact.
DistancesExact ==
  step = "done" =>
    \A n \in 0 .. max_vid : \A p \in [0 .. n -> Ids] :
      Walk(p, n) /\ (\A i \in 0 .. n - 1 : p[i] \notin lost) => distances[p[n]] \in 0 .. n
=============================================================================
