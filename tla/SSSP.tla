-------------------------------- MODULE SSSP ---------------------------------
(***************************************************************************)
(* Single-source shortest paths by delta-stepping: algorithm/SSSP.cpp.     *)
(* A team of threads processes the frontier of one distance bin; each      *)
(* thread files the vertices it improves in bins of its own; after a       *)
(* barrier the lowest bin in use becomes the next frontier.                *)
(***************************************************************************)
EXTENDS Integers, FiniteSets, FiniteSetsExt

CONSTANTS
  NodeIDs,     \* the vertices
  Workers,     \* the OpenMP team
  source,
  RoadMaps,    \* the snapshots that are tried: the edges <<u, v, w>> a scan finds
  Deltas,      \* bin widths that are tried
  INF          \* above every distance; also the bin of an ended search

VARIABLES
  roads, delta,
  lengths,         \* the array distances
  frontier,        \* bag: how often a vertex is still to be taken from the frontier
  next_frontier,   \* bag: what has been copied for the next round
  curr_bin_index, next_bin_index,   \* shared_indexes, by the parity of the round
  local_bins,      \* per thread and bin: a bag of vertices
  crew,            \* per thread: where it is
  largest          \* history: the largest frontier there was

searchVars == <<roads, delta>>
binVars == <<frontier, next_frontier, curr_bin_index, next_bin_index, local_bins, largest>>
ssspVars == <<searchVars, lengths, binVars, crew>>

OutOf(u) == {<<e[2], e[3]>> : e \in {e \in roads : e[1] = u}}
Bins == 0 .. INF - 1

EmptyBag == [v \in NodeIDs |-> 0]
SizeOf(bag) == MapThenSumSet(LAMBDA v : bag[v], NodeIDs)
Plus(x, y) == [v \in NodeIDs |-> x[v] + y[v]]

At(label) == [pc |-> label, u |-> source, v |-> source, w |-> 0, left |-> {}, old |-> 0, new |-> 0]

SSSPInit ==
  /\ roads \in RoadMaps
  /\ delta \in Deltas
  /\ lengths = [v \in NodeIDs |-> IF v = source THEN 0 ELSE INF]
  /\ frontier = [EmptyBag EXCEPT ![source] = 1]
  /\ next_frontier = EmptyBag
  /\ curr_bin_index = 0
  /\ next_bin_index = INF
  /\ local_bins = [t \in Workers |-> [b \in Bins |-> EmptyBag]]
  /\ crew = [t \in Workers |-> At("take")]
  /\ largest = 1

-----------------------------------------------------------------------------
(* The frontier loop, nowait: a thread that finds no work goes on.         *)

\* A vertex of an earlier bin has been processed before.
TakeNode(t) ==
  /\ crew[t].pc = "take"
  /\ \E u \in NodeIDs :
       /\ frontier[u] > 0
       /\ frontier' = [frontier EXCEPT ![u] = @ - 1]
       /\ crew' = [crew EXCEPT ![t] = IF lengths[u] >= delta * curr_bin_index
                                      THEN [At("edges") EXCEPT !.u = u, !.left = OutOf(u)]
                                      ELSE At("take")]
  /\ UNCHANGED <<searchVars, lengths, next_frontier, curr_bin_index, next_bin_index,
                 local_bins, largest>>

LoadOld(t) ==
  /\ crew[t].pc = "edges"
  /\ \E e \in crew[t].left :
       crew' = [crew EXCEPT ![t].left = @ \ {e}, ![t].v = e[1], ![t].w = e[2],
                            ![t].old = lengths[e[1]], ![t].pc = "add"]
  /\ UNCHANGED <<searchVars, lengths, binVars>>

LoadNew(t) ==
  /\ crew[t].pc = "add"
  /\ LET new == lengths[crew[t].u] + crew[t].w IN
     crew' = [crew EXCEPT ![t].new = new, ![t].pc = IF new < crew[t].old THEN "cas" ELSE "edges"]
  /\ UNCHANGED <<searchVars, lengths, binVars>>

Unchanged(t) == lengths[crew[t].v] = crew[t].old

\* The compare-and-swap loop: file the vertex, try again, or give up.
Relax(t) ==
  LET x == crew[t] IN
  /\ x.pc = "cas"
  /\ \/ /\ Unchanged(t)
        /\ lengths' = [lengths EXCEPT ![x.v] = x.new]
        /\ local_bins' = [local_bins EXCEPT ![t][x.new \div delta][x.v] = @ + 1]
        /\ crew' = [crew EXCEPT ![t].pc = "edges"]
     \/ /\ ~Unchanged(t)
        /\ crew' = [crew EXCEPT ![t].old = lengths[x.v],
                                ![t].pc = IF lengths[x.v] <= x.new THEN "edges" ELSE "cas"]
        /\ UNCHANGED <<lengths, local_bins>>
  /\ UNCHANGED <<searchVars, frontier, next_frontier, curr_bin_index, next_bin_index, largest>>

Processed(t) ==
  /\ crew[t].pc = "edges" /\ crew[t].left = {}
  /\ crew' = [crew EXCEPT ![t] = At("take")]
  /\ UNCHANGED <<searchVars, lengths, binVars>>

-----------------------------------------------------------------------------
(* From one round to the next.                                             *)

\* Mutant: what has been filed in the current bin itself is passed over.
UsedAfter(t) == {b \in Bins : b > curr_bin_index /\ local_bins[t][b] # EmptyBag}

\* The lowest bin in use from the current one on, into next_bin_index (critical).
Used(t) == {b \in Bins : b >= curr_bin_index /\ local_bins[t][b] # EmptyBag}

ProposeBin(t) ==
  /\ crew[t].pc = "take"
  /\ frontier = EmptyBag
  /\ next_bin_index' = Min({next_bin_index} \cup Used(t))
  /\ crew' = [crew EXCEPT ![t] = At("barrier1")]
  /\ UNCHANGED <<searchVars, lengths, frontier, next_frontier, curr_bin_index, local_bins,
                 largest>>

AllAt(label) == \A t \in Workers : crew[t].pc = label

Barrier1 ==
  /\ AllAt("barrier1")
  /\ crew' = [t \in Workers |-> At("copy")]
  /\ UNCHANGED <<searchVars, lengths, binVars>>

\* Each thread appends its bin to the frontier; the place is drawn with
\* fetch_and_add.
CopyBin(t) ==
  /\ crew[t].pc = "copy"
  /\ IF next_bin_index \in Bins
     THEN /\ next_frontier' = Plus(next_frontier, local_bins[t][next_bin_index])
          /\ local_bins' = [local_bins EXCEPT ![t][next_bin_index] = EmptyBag]
     ELSE UNCHANGED <<next_frontier, local_bins>>
  /\ crew' = [crew EXCEPT ![t] = At("barrier2")]
  /\ UNCHANGED <<searchVars, lengths, frontier, curr_bin_index, next_bin_index, largest>>

\* iter++ and the loop condition.  The entries of the old round are reset by one
\* thread between the barriers, where no other reads them.
Barrier2 ==
  /\ AllAt("barrier2")
  /\ frontier' = next_frontier
  /\ next_frontier' = EmptyBag
  /\ curr_bin_index' = next_bin_index
  /\ next_bin_index' = INF
  /\ largest' = Max({largest, SizeOf(next_frontier)})
  /\ crew' = [t \in Workers |-> At(IF next_bin_index = INF THEN "done" ELSE "take")]
  /\ UNCHANGED <<searchVars, lengths, local_bins>>

-----------------------------------------------------------------------------
SSSPNext ==
  \/ Barrier1 \/ Barrier2
  \/ \E t \in Workers :
       \/ TakeNode(t) \/ LoadOld(t) \/ LoadNew(t) \/ Relax(t) \/ Processed(t)
       \/ ProposeBin(t) \/ CopyBin(t)

SSSPSpec == SSSPInit /\ [][SSSPNext]_ssspVars

-----------------------------------------------------------------------------
(* Properties.                                                             *)

\* Bellman's equations, iterated once per vertex: the reference.
BellmanRounds ==
  LET round[k \in 0 .. Cardinality(NodeIDs)] ==
        IF k = 0 THEN [v \in NodeIDs |-> IF v = source THEN 0 ELSE INF]
        ELSE [v \in NodeIDs |->
                Min({round[k - 1][v]} \cup
                    {round[k - 1][e[1]] + e[3] : e \in {e \in roads : e[2] = v}})]
  IN  round

ShortestPaths == BellmanRounds[Cardinality(NodeIDs)]

\* At the end every vertex has the length of a shortest path, in every interleaving
\* of the relaxations and for every bin width.
PathsShortest == AllAt("done") => lengths = ShortestPaths

\* The frontier array has room for as many entries as there are edges.
FrontierFits == largest <= Cardinality(roads)
=============================================================================
