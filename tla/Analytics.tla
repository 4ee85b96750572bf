------------------------------ MODULE Analytics ------------------------------
(***************************************************************************)
(* The analyses that count over neighbourhoods of one published snapshot:  *)
(* algorithm/LCC.cpp, CDLP.cpp and PageRank.cpp.  Their parallel loops     *)
(* share nothing but sums and arrays in which every vertex has its own     *)
(* cell, so that a loop is one step, or, where it adds to cells of other   *)
(* vertices (LCC), one step per vertex in any order.                       *)
(*                                                                         *)
(* A client runs them one after the other.  The snapshot is symmetric, as  *)
(* the loaders make it; scores are counted in units of 1 / SCALE.  LCC and *)
(* PageRank scan the snapshot; CDLP's sorted scan also passes edges that   *)
(* are deleted or not visible, and the degree of a vertex counts updates   *)
(* of its edges as well.                                                   *)
(***************************************************************************)
EXTENDS Integers, Sequences, FiniteSets, FiniteSetsExt, SequencesExt

CONSTANTS
  max_vid,         \* number of vertices
  Graphs,          \* the snapshots that are tried
  Histories,       \* the pairs <<vertices that had an edge updated, ends of edges in
                   \* their blocks that are not in the snapshot>> that are tried
  p_mHashMap,      \* per vertex: its external id
  max_iterations,  \* CDLP iterations
  num_iterations,  \* PageRank iterations; the damping factor is 1/2
  SCALE            \* units a score of 1 has; divisible by what PageRank divides by

VARIABLES
  edges,
  degree,         \* per vertex: the degree its history gives
  passed,         \* per vertex: the neighbours for_each_edge_sorted passes
  phase,          \* "lcc", "cdlp", "pagerank", "done"
  work,           \* LCC: vertices whose forward neighbours are not intersected yet
  triangles,
  labels, changed, iter,
  scores

history == <<edges, degree, passed>>
vars == <<history, phase, work, triangles, labels, changed, iter, scores>>

Ids == 0 .. max_vid - 1
Out(u) == {v \in Ids : <<u, v>> \in edges}

\* Every write adds one to the degree, deletes take one away: an update leaves it too
\* large, never too small.
check_degree(v) == degree[v]

\* With an empty buffer of new edges the scan does not look at marks and versions.
for_each_edge_sorted(v) == passed[v]

Init ==
  /\ edges \in Graphs
  /\ \E h \in Histories :
       /\ degree = [v \in Ids |-> Cardinality(Out(v)) + (IF v \in h[1] THEN 1 ELSE 0)]
       /\ passed = [v \in Ids |-> Out(v) \cup (IF v \in h[1] THEN h[2] \ {v} ELSE {})]
  /\ phase = "lcc"
  /\ work = Ids
  /\ triangles = [v \in Ids |-> 0]
  /\ labels = [v \in Ids |-> p_mHashMap[v]]
  /\ changed = TRUE
  /\ iter = 0
  /\ scores = [v \in Ids |-> SCALE \div max_vid]

-----------------------------------------------------------------------------
(* LCC: triangles, each found once from its vertex of lowest degree.       *)

Sorted(S) == SetToSortSeq(S, <)
all_neighbors(v) == Sorted(Out(v))

\* Mutant: ties between degrees are not broken.
LeansUntied(u, v) == Cardinality(Out(u)) <= Cardinality(Out(v))

\* An edge leads to the higher degree, between equal degrees to the higher id.
Leans(u, v) ==
  LET du == Cardinality(Out(u))
      dv == Cardinality(Out(v))
  IN  du < dv \/ (du = dv /\ u < v)

forward(u) == Sorted({v \in Out(u) : Leans(u, v)})

\* The merge loop over two sorted lists: the common elements from i and j on.
Intersection(fu, fv) ==
  LET merge[i \in 1 .. Len(fu) + 1, j \in 1 .. Len(fv) + 1] ==
        CASE i > Len(fu) \/ j > Len(fv) -> {}
          [] OTHER -> CASE fu[i] < fv[j] -> merge[i + 1, j]
                        [] fu[i] > fv[j] -> merge[i, j + 1]
                        [] OTHER -> {fu[i]} \cup merge[i + 1, j + 1]
  IN  merge[1, 1]

\* The triangles <<u, v, w>> that u's turn finds.
Found(u) ==
  LET fu == forward(u) IN
  UNION {{<<u, v, w>> : w \in Intersection(fu, forward(v))} : v \in Range(fu)}

CountTriangles ==
  /\ phase = "lcc"
  /\ \E u \in work :
       LET found == Found(u) IN
       /\ work' = work \ {u}
       /\ triangles' = [x \in Ids |->
            triangles[x] + 2 * Cardinality({f \in found : x \in Range(f)})]
  /\ UNCHANGED <<history, phase, labels, changed, iter, scores>>

EndLCC ==
  /\ phase = "lcc" /\ work = {}
  /\ phase' = "cdlp"
  /\ UNCHANGED <<history, work, triangles, labels, changed, iter, scores>>

-----------------------------------------------------------------------------
(* CDLP: every vertex takes the most frequent label around it.             *)

nbr_labels(v) ==
  LET nbrs == Sorted(for_each_edge_sorted(v)) IN
  SortSeq([i \in DOMAIN nbrs |-> labels[nbrs[i]]], <)

\* Mutant: of equally frequent labels the last one wins.
BetterOrEqual(count, best) == count >= best

Better(count, best) == count > best

\* The run-length loop over the sorted labels, from position i on.
best_label(ls) ==
  LET best[i \in 1 .. Len(ls) + 1] ==      \* <<label, count>> of the runs before i
        IF i = 1 THEN <<ls[1], 0>>
        ELSE LET start == Min({k \in 1 .. i - 1 : ls[k] = ls[i - 1]})
                 before == best[start]
             IN  IF Better(i - start, before[2]) THEN <<ls[i - 1], i - start>> ELSE before
  IN  best[Len(ls) + 1][1]

\* nbr_labels[0] of an empty vector: what its storage holds, a label left by another
\* vertex or any other word.
Leftovers == Range(labels) \cup {0}

NextLabels(v) ==
  CASE check_degree(v) = 0 -> {labels[v]}
    [] check_degree(v) # 0 /\ for_each_edge_sorted(v) = {} -> Leftovers
    [] OTHER -> {best_label(nbr_labels(v))}

Propagate ==
  /\ phase = "cdlp"
  /\ iter < max_iterations /\ changed
  /\ labels' \in {ls \in [Ids -> Leftovers] : \A v \in Ids : ls[v] \in NextLabels(v)}
  /\ changed' = (labels' # labels)
  /\ iter' = iter + 1
  /\ UNCHANGED <<history, phase, work, triangles, scores>>

EndCDLP ==
  /\ phase = "cdlp"
  /\ ~(iter < max_iterations /\ changed)
  /\ phase' = "pagerank"
  /\ iter' = 0
  /\ UNCHANGED <<history, work, triangles, labels, changed, scores>>

-----------------------------------------------------------------------------
(* PageRank.  The incoming edges of a vertex are its outgoing ones.        *)

\* Mutant: vertices without edges keep their score to themselves.
dangling_none == 0

dangling_sum ==
  MapThenSumSet(LAMBDA v : IF check_degree(v) = 0 THEN scores[v] ELSE 0, Ids) \div max_vid

outgoing_contrib(v) == IF check_degree(v) = 0 THEN 0 ELSE scores[v] \div check_degree(v)

incoming_total(v) ==
  IF check_degree(v) = 0 THEN 0 ELSE MapThenSumSet(outgoing_contrib, Out(v))

RankStep ==
  /\ phase = "pagerank"
  /\ iter < num_iterations
  /\ scores' = [v \in Ids |->
       SCALE \div (2 * max_vid) + (incoming_total(v) + dangling_sum) \div 2]
  /\ iter' = iter + 1
  /\ UNCHANGED <<history, phase, work, triangles, labels, changed>>

EndPageRank ==
  /\ phase = "pagerank" /\ iter = num_iterations
  /\ phase' = "done"
  /\ UNCHANGED <<history, work, triangles, labels, changed, iter, scores>>

Next ==
  \/ CountTriangles \/ EndLCC \/ Propagate \/ EndCDLP \/ RankStep \/ EndPageRank

Spec == Init /\ [][Next]_vars

-----------------------------------------------------------------------------
(* Properties.                                                             *)

\* LCC counts, for every vertex, the ordered pairs of its neighbours that are
\* neighbours themselves: orienting the edges by degree loses no triangle and counts
\* none twice, whatever the order of the vertices.
TrianglesExact ==
  phase # "lcc" =>
    \A v \in Ids :
      triangles[v] = Cardinality({p \in Out(v) \X Out(v) : p \in edges})

\* The reference for CDLP: the most frequent label, the smallest one of several, among
\* the neighbours that the scan passes to a vertex with a degree.
Voters(v) == IF check_degree(v) = 0 THEN {} ELSE for_each_edge_sorted(v)
Votes(ls, v, l) == Cardinality({u \in Voters(v) : ls[u] = l})
Elected(ls, v) ==
  IF Voters(v) = {} THEN ls[v]
  ELSE LET around == {ls[u] : u \in Voters(v)} IN
       Min({l \in around : \A k \in around : Votes(ls, v, l) >= Votes(ls, v, k)})
Elections(n) ==
  LET round[k \in 0 .. n] == IF k = 0 THEN [v \in Ids |-> p_mHashMap[v]]
                             ELSE [v \in Ids |-> Elected(round[k - 1], v)]
  IN  round[n]

\* CDLP ends with the labels of max_iterations elections, also when it stops early
\* because a round changed nothing, unless a vertex with a degree has no edge to scan.
LabelsElected ==
  phase = "pagerank" /\ (\A v \in Ids : check_degree(v) = 0 \/ Voters(v) # {}) =>
    labels = Elections(max_iterations)

\* PageRank never creates score, whatever updates have added to the degrees it divides
\* by; where the degrees are exact it loses none either.
MassNeverCreated ==
  LET mass == MapThenSumSet(LAMBDA v : scores[v], Ids) IN
  /\ mass <= SCALE
  /\ (\A v \in Ids : check_degree(v) = Cardinality(Out(v))) => mass = SCALE
=============================================================================
