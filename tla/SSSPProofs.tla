------------------------------ MODULE SSSPProofs ------------------------------
(***************************************************************************)
(* Proof about the shortest paths, for every weighted graph, every number  *)
(* of threads and every bin width: when delta-stepping ends, each distance *)
(* is that of a shortest path, however the relaxations of the threads      *)
(* interleave.  Edges may have weight 0.                                   *)
(***************************************************************************)
EXTENDS SSSP, FiniteSetTheorems, WellFoundedInduction, TLAPS

\* Distances are whole multiples of some unit; bins are at least one unit wide.
RoadsAssumption ==
  /\ IsFiniteSet(NodeIDs) /\ source \in NodeIDs
  /\ Workers # {}
  /\ \A r \in RoadMaps : r \subseteq NodeIDs \X NodeIDs \X Nat
  /\ Deltas \subseteq Nat \ {0}
  /\ INF \in Nat \ {0}

-----------------------------------------------------------------------------
(* The inductive invariant.                                                *)

Bag == [NodeIDs -> Nat]
Scanning == {"edges", "add", "cas"}

Worker == [pc : Scanning \cup {"take", "barrier1", "copy", "barrier2", "done"},
           u : NodeIDs, v : NodeIDs, w : Nat, left : SUBSET (NodeIDs \X Nat),
           old : 0 .. INF, new : Nat]

SearchTypes ==
  /\ roads \subseteq NodeIDs \X NodeIDs \X Nat /\ delta \in Nat \ {0}
  /\ lengths \in [NodeIDs -> 0 .. INF]
  /\ frontier \in Bag /\ next_frontier \in Bag
  /\ curr_bin_index \in 0 .. INF /\ next_bin_index \in 0 .. INF
  /\ local_bins \in [Workers -> [Bins -> Bag]]
  /\ crew \in [Workers -> Worker]

\* A thread finds only edges of its vertex, and nothing shorter than the bin of the round:
\* what it files goes to that bin or a later one.
Sound(x) ==
  /\ x.pc \in Scanning => lengths[x.u] >= delta * curr_bin_index /\ x.left \subseteq OutOf(x.u)
  /\ x.pc \in {"add", "cas"} => <<x.v, x.w>> \in OutOf(x.u) /\ lengths[x.v] <= x.old
  /\ x.pc = "cas" => /\ lengths[x.u] + x.w <= x.new /\ x.new < x.old
                     /\ x.new >= delta * curr_bin_index

ScanSound == \A t \in Workers : Sound(crew[t])

\* The threads go from one part of a round to the next together.
Searching == {"take", "barrier1"} \cup Scanning

InRounds ==
  \/ /\ \A t \in Workers : crew[t].pc \in Searching
     /\ next_frontier = EmptyBag
     /\ (\E t \in Workers : crew[t].pc = "barrier1") => frontier = EmptyBag
  \/ /\ \A t \in Workers : crew[t].pc \in {"copy", "barrier2"}
     /\ frontier = EmptyBag
     /\ next_bin_index = INF => next_frontier = EmptyBag
  \/ /\ \A t \in Workers : crew[t].pc = "done"
     /\ curr_bin_index = INF
     /\ frontier = EmptyBag /\ next_frontier = EmptyBag

\* No bin is left behind.
BinsAhead ==
  \A t \in Workers : \A b \in Bins :
    \/ local_bins[t][b] = EmptyBag
    \/ /\ b >= curr_bin_index
       /\ crew[t].pc \in {"barrier1", "copy", "barrier2"} => b >= next_bin_index

\* Vertex u is filed where it will be taken and not skipped.
Due(u) ==
  /\ lengths[u] < INF
  /\ \/ frontier[u] > 0 /\ lengths[u] >= delta * curr_bin_index
     \/ next_frontier[u] > 0 /\ lengths[u] >= delta * next_bin_index
     \/ \E t \in Workers : local_bins[t][lengths[u] \div delta][u] > 0

Relaxed(e) == lengths[e[2]] <= lengths[e[1]] + e[3]

\* A thread at the start of e has yet to relax it, with the distance the start now has.
InHand(t, e) ==
  LET x == crew[t] IN
  /\ x.pc \in Scanning /\ x.u = e[1]
  /\ \/ <<e[2], e[3]>> \in x.left
     \/ /\ x.pc \in {"add", "cas"} /\ x.v = e[2] /\ x.w = e[3]
        /\ x.pc = "cas" => x.new = lengths[e[1]] + e[3]

EdgesCared ==
  \A e \in roads : Relaxed(e) \/ Due(e[1]) \/ \E t \in Workers : InHand(t, e)

\* Every set of reached vertices without the source is entered by an edge that
\* accounts for a distance: distances come from the source.
Enters(e, T) == e[1] \notin T /\ e[2] \in T /\ lengths[e[1]] + e[3] <= lengths[e[2]]

FromSource ==
  /\ lengths[source] = 0
  /\ \A T \in SUBSET NodeIDs :
       T # {} /\ source \notin T /\ (\A v \in T : lengths[v] < INF) => \E e \in roads : Enters(e, T)

SearchInvariant ==
  SearchTypes /\ ScanSound /\ InRounds /\ BinsAhead /\ EdgesCared /\ FromSource

-----------------------------------------------------------------------------
(* Facts about numbers.                                                    *)

\* A set of naturals has a least element.
LEMMA LeastOf ==
  ASSUME NEW T, T \subseteq Nat, T # {}
  PROVE  Min(T) \in T /\ \A y \in T : Min(T) <= y
<1>1. PICK x \in T : \A y \in T : ~(<<y, x>> \in OpToRel(<, Nat))
  BY NatLessThanWellFounded, WFMin, Zenon
<1>2. \A y \in T : ~(y < x)
  BY <1>1 DEF OpToRel
<1>3. \A y \in T : x <= y
  BY <1>2
<1> QED
  BY <1>3 DEF Min

\* The bin of a distance.
LEMMA BinOf ==
  ASSUME NEW d \in Nat \ {0}, NEW x \in Nat
  PROVE  /\ x \div d \in Nat /\ x \div d <= x
         /\ \A c \in Nat : x >= d * c => x \div d >= c
         /\ \A c \in Nat : x \div d >= c => x >= d * c
<1>1. x \div d \in Nat /\ x \div d <= x
  OBVIOUS
<1>2. ASSUME NEW c \in Nat, x >= d * c PROVE x \div d >= c
  BY <1>2
<1>3. ASSUME NEW c \in Nat, x \div d >= c PROVE x >= d * c
  BY <1>3
<1> QED
  BY <1>1, <1>2, <1>3

-----------------------------------------------------------------------------
(* The initial states and the types.                                       *)

LEMMA FirstSearchInv ==
  ASSUME RoadsAssumption, SSSPInit
  PROVE  SearchInvariant
<1> USE DEF SSSPInit, At
<1>1. roads \subseteq NodeIDs \X NodeIDs \X Nat /\ delta \in Nat \ {0} /\ source \in NodeIDs
      /\ INF \in Nat \ {0}
  BY DEF RoadsAssumption
<1>2. EmptyBag \in Bag /\ \A v \in NodeIDs : EmptyBag[v] = 0
  BY DEF EmptyBag, Bag
<1>3. lengths \in [NodeIDs -> 0 .. INF] /\ lengths[source] = 0
      /\ \A v \in NodeIDs : v # source => lengths[v] = INF
  BY <1>1
<1>4. frontier \in Bag /\ frontier[source] = 1
  BY <1>1, <1>2 DEF Bag
<1>5. SearchTypes
  <2>1. crew \in [Workers -> Worker]
    BY <1>1 DEF Worker, Scanning
  <2>2. local_bins \in [Workers -> [Bins -> Bag]]
    BY <1>2
  <2>3. next_frontier \in Bag
    BY <1>2
  <2>4. curr_bin_index \in 0 .. INF /\ next_bin_index \in 0 .. INF
    BY <1>1
  <2> QED
    BY <1>1, <1>3, <1>4, <2>1, <2>2, <2>3, <2>4, Zenon DEF SearchTypes
<1>6. ScanSound
  BY DEF ScanSound, Sound, Scanning
<1>7. InRounds
  BY DEF InRounds, Searching, Scanning
<1>8. BinsAhead
  BY DEF BinsAhead
<1>9. EdgesCared
  <2> SUFFICES ASSUME NEW e \in roads PROVE Relaxed(e) \/ Due(e[1])
    BY DEF EdgesCared
  <2>1. e[1] \in NodeIDs /\ e[2] \in NodeIDs /\ e[3] \in Nat
    BY <1>1
  <2>2. CASE e[1] = source
    <3>1. frontier[e[1]] > 0 /\ lengths[e[1]] = 0
      BY <1>3, <1>4, <2>2
    <3> QED
      BY <1>1, <3>1 DEF Due
  <2>3. CASE e[1] # source
    <3>1. lengths[e[1]] = INF /\ lengths[e[2]] \in 0 .. INF
      BY <1>3, <2>1, <2>3
    <3> QED
      BY <1>1, <2>1, <3>1 DEF Relaxed
  <2> QED
    BY <2>2, <2>3
<1>10. FromSource
  <2>1. ASSUME NEW T \in SUBSET NodeIDs, T # {}, source \notin T PROVE \E v \in T : ~(lengths[v] < INF)
    BY <1>1, <1>3, <2>1
  <2> QED
    BY <1>3, <2>1 DEF FromSource
<1> QED
  BY <1>5, <1>6, <1>7, <1>8, <1>9, <1>10 DEF SearchInvariant

\* The bin that a thread proposes.
LEMMA ProposedBin ==
  ASSUME RoadsAssumption, SearchTypes, NEW t \in Workers
  PROVE  LET m == Min({next_bin_index} \cup Used(t)) IN
         /\ m \in 0 .. INF /\ m <= next_bin_index
         /\ \A b \in Used(t) : m <= b
<1> DEFINE S == {next_bin_index} \cup Used(t)
<1>1. S \subseteq Nat /\ S # {} /\ S \subseteq 0 .. INF
  BY DEF RoadsAssumption, SearchTypes, Used, Bins
<1>2. Min(S) \in S /\ \A y \in S : Min(S) <= y
  <2> HIDE DEF S
  <2> QED
    BY <1>1, LeastOf
<1> QED
  BY <1>1, <1>2

LEMMA TypesKept ==
  ASSUME RoadsAssumption, SearchTypes, ScanSound, [SSSPNext]_ssspVars
  PROVE  SearchTypes'
<1> USE DEF SearchTypes
<1>1. INF \in Nat \ {0} /\ source \in NodeIDs
  BY DEF RoadsAssumption
<1>2. EmptyBag \in Bag
  BY DEF EmptyBag, Bag
<1>3. \A l \in {"take", "barrier1", "copy", "barrier2", "done", "edges"} : At(l) \in Worker
  BY <1>1 DEF At, Worker, Scanning
<1>4. CASE UNCHANGED ssspVars
  BY <1>4 DEF ssspVars, searchVars, binVars
<1>5. CASE Barrier1
  BY <1>3, <1>5 DEF Barrier1, searchVars, binVars
<1>6. CASE Barrier2
  BY <1>1, <1>2, <1>3, <1>6 DEF Barrier2, searchVars
<1>7. ASSUME NEW t \in Workers, TakeNode(t) PROVE SearchTypes'
  <2>1. PICK u \in NodeIDs :
          /\ frontier[u] > 0 /\ frontier' = [frontier EXCEPT ![u] = @ - 1]
          /\ crew' = [crew EXCEPT ![t] = IF lengths[u] >= delta * curr_bin_index
                                         THEN [At("edges") EXCEPT !.u = u, !.left = OutOf(u)]
                                         ELSE At("take")]
    BY <1>7 DEF TakeNode
  <2>2. OutOf(u) \subseteq NodeIDs \X Nat
    BY DEF OutOf
  <2>3. [At("edges") EXCEPT !.u = u, !.left = OutOf(u)] \in Worker
    BY <1>3, <2>2 DEF Worker
  <2>4. crew' \in [Workers -> Worker]
    BY <1>3, <2>1, <2>3
  <2>5. frontier' \in Bag
    BY <2>1 DEF Bag
  <2> QED
    BY <1>7, <2>4, <2>5 DEF TakeNode, searchVars
<1>8. ASSUME NEW t \in Workers, LoadOld(t) PROVE SearchTypes'
  <2>1. crew[t] \in Worker
    OBVIOUS
  <2>2. PICK e \in crew[t].left :
          crew' = [crew EXCEPT ![t].left = @ \ {e}, ![t].v = e[1], ![t].w = e[2],
                               ![t].old = lengths[e[1]], ![t].pc = "add"]
    BY <1>8 DEF LoadOld
  <2>3. e[1] \in NodeIDs /\ e[2] \in Nat /\ crew[t].left \ {e} \in SUBSET (NodeIDs \X Nat)
    BY <2>1 DEF Worker
  <2>4. lengths[e[1]] \in 0 .. INF
    BY <2>3
  <2>5. crew'[t] = [crew[t] EXCEPT !.left = @ \ {e}, !.v = e[1], !.w = e[2],
                                   !.old = lengths[e[1]], !.pc = "add"]
    BY <2>2
  <2>6. crew'[t] \in Worker
    BY <2>1, <2>3, <2>4, <2>5 DEF Worker, Scanning
  <2>7. crew' = [crew EXCEPT ![t] = crew'[t]]
    BY <2>2
  <2>8. crew' \in [Workers -> Worker]
    BY <2>6, <2>7
  <2> QED
    BY <1>8, <2>8 DEF LoadOld, searchVars, binVars
<1>9. ASSUME NEW t \in Workers, LoadNew(t) PROVE SearchTypes'
  <2>1. crew[t] \in Worker /\ crew[t].u \in NodeIDs /\ crew[t].w \in Nat
    BY DEF Worker
  <2>2. lengths[crew[t].u] + crew[t].w \in Nat
    BY <1>1, <2>1
  <2>3. crew'[t] \in Worker
    BY <1>9, <2>1, <2>2 DEF LoadNew, Worker, Scanning
  <2>4. crew' = [crew EXCEPT ![t] = crew'[t]]
    BY <1>9 DEF LoadNew
  <2>5. crew' \in [Workers -> Worker]
    BY <2>3, <2>4
  <2> QED
    BY <1>9, <2>5 DEF LoadNew, searchVars, binVars
<1>10. ASSUME NEW t \in Workers, Relax(t) PROVE SearchTypes'
  <2> DEFINE x == crew[t]
  <2>1. x \in Worker /\ x.v \in NodeIDs /\ x.new \in Nat /\ x.old \in 0 .. INF /\ x.pc = "cas"
    BY <1>10 DEF Relax, Worker
  <2>2. x.new \in 0 .. INF /\ x.new < INF /\ x.new < x.old
    <3>1. x.new < x.old
      BY <2>1, Zenon DEF ScanSound, Sound
    <3> QED
      BY <1>1, <2>1, <3>1
  <2>3. x.new \div delta \in Bins
    <3>1. x.new \div delta \in Nat /\ x.new \div delta <= x.new
      BY <2>1, BinOf
    <3> QED
      BY <1>1, <2>2, <3>1 DEF Bins
  <2>4. PICK y \in Worker : crew' = [crew EXCEPT ![t] = y]
    <3>1. \A l \in {"edges", "cas"} : \A n \in 0 .. INF :
            [x EXCEPT !.pc = l, !.old = n] \in Worker /\ [x EXCEPT !.pc = l] \in Worker
      BY <2>1 DEF Worker, Scanning
    <3>2. \/ crew' = [crew EXCEPT ![t] = [x EXCEPT !.pc = "edges"]]
          \/ crew' = [crew EXCEPT ![t] = [x EXCEPT !.pc = "edges", !.old = lengths[x.v]]]
          \/ crew' = [crew EXCEPT ![t] = [x EXCEPT !.pc = "cas", !.old = lengths[x.v]]]
      <4>1. CASE Unchanged(t)
        BY <1>10, <4>1 DEF Relax
      <4>2. CASE ~Unchanged(t) /\ lengths[x.v] <= x.new
        <5>1. crew' = [crew EXCEPT ![t].old = lengths[x.v], ![t].pc = "edges"]
          BY <1>10, <4>2 DEF Relax
        <5> QED
          BY <5>1
      <4>3. CASE ~Unchanged(t) /\ ~(lengths[x.v] <= x.new)
        <5>1. crew' = [crew EXCEPT ![t].old = lengths[x.v], ![t].pc = "cas"]
          BY <1>10, <4>3 DEF Relax
        <5> QED
          BY <5>1
      <4> QED
        BY <4>1, <4>2, <4>3
    <3>3. lengths[x.v] \in 0 .. INF /\ x.old \in 0 .. INF
      BY <2>1
    <3> HIDE DEF x
    <3> QED
      BY <3>1, <3>2, <3>3
  <2>5. crew' \in [Workers -> Worker]
    BY <2>4
  <2>6. lengths' \in [NodeIDs -> 0 .. INF]
    BY <1>10, <2>2 DEF Relax
  <2>7. local_bins' \in [Workers -> [Bins -> Bag]]
    <3>1. local_bins[t][x.new \div delta] \in Bag
      BY <2>3
    <3>2. [local_bins[t][x.new \div delta] EXCEPT ![x.v] = @ + 1] \in Bag
      BY <2>1, <3>1 DEF Bag
    <3>3. \/ local_bins' = local_bins
          \/ local_bins' = [local_bins EXCEPT ![t] =
               [local_bins[t] EXCEPT ![x.new \div delta] =
                  [local_bins[t][x.new \div delta] EXCEPT ![x.v] = @ + 1]]]
      BY <1>10 DEF Relax
    <3> HIDE DEF x
    <3> QED
      BY <2>3, <3>2, <3>3
  <2> QED
    BY <1>10, <2>5, <2>6, <2>7 DEF Relax, searchVars
<1>11. ASSUME NEW t \in Workers, Processed(t) PROVE SearchTypes'
  BY <1>3, <1>11 DEF Processed, searchVars, binVars
<1>12. ASSUME NEW t \in Workers, ProposeBin(t) PROVE SearchTypes'
  <2>1. next_bin_index' \in 0 .. INF
    BY <1>12, ProposedBin DEF ProposeBin
  <2> QED
    BY <1>3, <1>12, <2>1 DEF ProposeBin, searchVars
<1>13. ASSUME NEW t \in Workers, CopyBin(t) PROVE SearchTypes'
  <2>1. next_bin_index \in Bins => Plus(next_frontier, local_bins[t][next_bin_index]) \in Bag
    BY DEF Plus, Bag
  <2>2. next_frontier' \in Bag /\ local_bins' \in [Workers -> [Bins -> Bag]]
    BY <1>2, <1>13, <2>1 DEF CopyBin
  <2> QED
    BY <1>3, <1>13, <2>2 DEF CopyBin, searchVars
<1> QED
  BY <1>4, <1>5, <1>6, <1>7, <1>8, <1>9, <1>10, <1>11, <1>12, <1>13 DEF SSSPNext

-----------------------------------------------------------------------------
(* What a step does to the thread that takes it.                           *)

LEMMA TakeEffect ==
  ASSUME SearchTypes, NEW t \in Workers, TakeNode(t)
  PROVE  /\ \A s \in Workers : s # t => crew'[s] = crew[s]
         /\ \E u \in NodeIDs :
              /\ frontier[u] > 0 /\ frontier' = [frontier EXCEPT ![u] = @ - 1]
              /\ \/ /\ lengths[u] >= delta * curr_bin_index
                    /\ crew'[t].pc = "edges" /\ crew'[t].u = u /\ crew'[t].left = OutOf(u)
                 \/ ~(lengths[u] >= delta * curr_bin_index) /\ crew'[t].pc = "take"
<1>1. crew \in [Workers -> Worker]
  BY DEF SearchTypes
<1>2. PICK u \in NodeIDs :
        /\ frontier[u] > 0 /\ frontier' = [frontier EXCEPT ![u] = @ - 1]
        /\ crew' = [crew EXCEPT ![t] = IF lengths[u] >= delta * curr_bin_index
                                       THEN [At("edges") EXCEPT !.u = u, !.left = OutOf(u)]
                                       ELSE At("take")]
  BY DEF TakeNode
<1>3. \A s \in Workers : s # t => crew'[s] = crew[s]
  BY <1>1, <1>2
<1>4. CASE lengths[u] >= delta * curr_bin_index
  <2>1. crew'[t] = [At("edges") EXCEPT !.u = u, !.left = OutOf(u)]
    BY <1>1, <1>2, <1>4
  <2>2. crew'[t].pc = "edges" /\ crew'[t].u = u /\ crew'[t].left = OutOf(u)
    BY <2>1 DEF At
  <2> QED
    BY <1>2, <1>3, <1>4, <2>2
<1>5. CASE ~(lengths[u] >= delta * curr_bin_index)
  <2>1. crew'[t] = At("take")
    BY <1>1, <1>2, <1>5
  <2>2. crew'[t].pc = "take"
    BY <2>1 DEF At
  <2> QED
    BY <1>2, <1>3, <1>5, <2>2
<1> QED
  BY <1>4, <1>5

LEMMA LoadEffect ==
  ASSUME SearchTypes, NEW t \in Workers, LoadOld(t)
  PROVE  /\ \A s \in Workers : s # t => crew'[s] = crew[s]
         /\ crew[t].pc = "edges" /\ crew'[t].pc = "add"
         /\ crew'[t].u = crew[t].u
         /\ \E e \in crew[t].left :
              /\ crew'[t].left = crew[t].left \ {e}
              /\ crew'[t].v = e[1] /\ crew'[t].w = e[2] /\ crew'[t].old = lengths[e[1]]
<1>1. crew[t] \in Worker
  BY DEF SearchTypes
<1> QED
  BY <1>1 DEF SearchTypes, LoadOld, Worker

LEMMA NewEffect ==
  ASSUME SearchTypes, NEW t \in Workers, LoadNew(t)
  PROVE  /\ \A s \in Workers : s # t => crew'[s] = crew[s]
         /\ crew[t].pc = "add"
         /\ crew'[t].u = crew[t].u /\ crew'[t].v = crew[t].v /\ crew'[t].w = crew[t].w
         /\ crew'[t].left = crew[t].left /\ crew'[t].old = crew[t].old
         /\ crew'[t].new = lengths[crew[t].u] + crew[t].w
         /\ \/ crew'[t].new < crew[t].old /\ crew'[t].pc = "cas"
            \/ ~(crew'[t].new < crew[t].old) /\ crew'[t].pc = "edges"
<1>1. crew[t] \in Worker
  BY DEF SearchTypes
<1> QED
  BY <1>1 DEF SearchTypes, LoadNew, Worker

LEMMA RelaxEffect ==
  ASSUME SearchTypes, NEW t \in Workers, Relax(t)
  PROVE  /\ \A s \in Workers : s # t => crew'[s] = crew[s]
         /\ crew[t].pc = "cas"
         /\ crew'[t].u = crew[t].u /\ crew'[t].v = crew[t].v /\ crew'[t].w = crew[t].w
         /\ crew'[t].left = crew[t].left /\ crew'[t].new = crew[t].new
         /\ \/ /\ lengths[crew[t].v] = crew[t].old /\ crew'[t].pc = "edges"
               /\ lengths' = [lengths EXCEPT ![crew[t].v] = crew[t].new]
               /\ local_bins' = [local_bins EXCEPT
                                   ![t][crew[t].new \div delta][crew[t].v] = @ + 1]
            \/ /\ lengths[crew[t].v] <= crew[t].new /\ crew'[t].pc = "edges"
               /\ UNCHANGED <<lengths, local_bins>>
            \/ /\ ~(lengths[crew[t].v] <= crew[t].new) /\ crew'[t].pc = "cas"
               /\ crew'[t].old = lengths[crew[t].v]
               /\ UNCHANGED <<lengths, local_bins>>
<1>1. crew[t] \in Worker /\ crew \in [Workers -> Worker]
  BY DEF SearchTypes
<1>2. CASE Unchanged(t)
  <2>1. crew' = [crew EXCEPT ![t].pc = "edges"]
    BY <1>2 DEF Relax
  <2>2. crew'[t] = [crew[t] EXCEPT !.pc = "edges"] /\ \A s \in Workers : s # t => crew'[s] = crew[s]
    BY <1>1, <2>1
  <2> QED
    BY <1>1, <1>2, <2>2 DEF Relax, Unchanged, Worker
<1>3. CASE ~Unchanged(t)
  <2> DEFINE l == IF lengths[crew[t].v] <= crew[t].new THEN "edges" ELSE "cas"
  <2>1. crew' = [crew EXCEPT ![t].old = lengths[crew[t].v], ![t].pc = l]
        /\ UNCHANGED <<lengths, local_bins>> /\ crew[t].pc = "cas"
    BY <1>3 DEF Relax
  <2>2. crew'[t] = [crew[t] EXCEPT !.old = lengths[crew[t].v], !.pc = l]
        /\ \A s \in Workers : s # t => crew'[s] = crew[s]
    BY <1>1, <2>1
  <2> QED
    BY <1>1, <2>1, <2>2 DEF Worker
<1> QED
  BY <1>2, <1>3

\* The other steps set a thread, or all threads, to the start of something.
LEMMA StartEffect ==
  ASSUME SearchTypes, NEW t \in Workers
  PROVE  /\ Processed(t) => /\ \A s \in Workers : s # t => crew'[s] = crew[s]
                            /\ crew'[t].pc = "take"
         /\ ProposeBin(t) => /\ \A s \in Workers : s # t => crew'[s] = crew[s]
                             /\ crew'[t].pc = "barrier1"
         /\ CopyBin(t) => /\ \A s \in Workers : s # t => crew'[s] = crew[s]
                          /\ crew'[t].pc = "barrier2"
         /\ Barrier1 => crew'[t].pc = "copy"
         /\ Barrier2 => crew'[t].pc = IF next_bin_index = INF THEN "done" ELSE "take"
BY DEF SearchTypes, Processed, ProposeBin, CopyBin, Barrier1, Barrier2, At

\* A distance is only ever lowered, and not below the bin of the round.
LEMMA LengthsLowered ==
  ASSUME RoadsAssumption, SearchTypes, ScanSound, NEW t \in Workers, Relax(t), NEW n \in NodeIDs
  PROVE  /\ lengths'[n] <= lengths[n]
         /\ lengths[n] >= delta * curr_bin_index => lengths'[n] >= delta * curr_bin_index
<1>1. crew[t] \in Worker /\ lengths[n] \in Nat /\ crew[t].new \in Nat /\ crew[t].old \in Nat
  BY DEF SearchTypes, Worker, RoadsAssumption
<1>2. crew[t].new < crew[t].old /\ crew[t].new >= delta * curr_bin_index
  BY RelaxEffect, Zenon DEF ScanSound, Sound
<1>3. CASE lengths' = lengths
  BY <1>1, <1>3
<1>4. CASE /\ lengths' = [lengths EXCEPT ![crew[t].v] = crew[t].new]
           /\ lengths[crew[t].v] = crew[t].old
  BY <1>1, <1>2, <1>4 DEF SearchTypes
<1> QED
  BY <1>3, <1>4, RelaxEffect

-----------------------------------------------------------------------------
(* The invariant is preserved.                                             *)

LEMMA RelaxSound ==
  ASSUME RoadsAssumption, SearchTypes, ScanSound, NEW t \in Workers, Relax(t)
  PROVE  ScanSound'
<1> SUFFICES ASSUME NEW s \in Workers, NEW y, y = crew'[s] PROVE Sound(y)'
  BY DEF ScanSound, Sound, OutOf
<1> DEFINE x == crew[s]
<1>1. x \in Worker /\ x.u \in NodeIDs /\ x.v \in NodeIDs /\ x.w \in Nat /\ x.new \in Nat /\ x.old \in Nat
  BY DEF SearchTypes, Worker, RoadsAssumption
<1>2. Sound(x)
  BY DEF ScanSound
<1>3. UNCHANGED <<roads, delta, curr_bin_index>>
  BY DEF Relax, searchVars, binVars
<1>4. \A u : OutOf(u)' = OutOf(u)
  BY <1>3 DEF OutOf
<1>5. /\ y.u = x.u /\ y.v = x.v /\ y.w = x.w /\ y.left = x.left /\ y.new = x.new
      /\ y.pc = x.pc \/ (x.pc = "cas" /\ y.pc = "edges")
      /\ y.old = x.old \/ y.pc # "cas" \/ (y.old = lengths[x.v] /\ ~(lengths[x.v] <= x.new))
      /\ y.old = x.old \/ y.pc # "add"
  BY RelaxEffect
<1>6. /\ lengths'[x.u] <= lengths[x.u] /\ lengths'[x.v] <= lengths[x.v]
      /\ lengths[x.u] >= delta * curr_bin_index => lengths'[x.u] >= delta * curr_bin_index
  BY <1>1, LengthsLowered
<1>7. /\ lengths[x.u] \in Nat /\ lengths[x.v] \in Nat /\ lengths'[x.u] \in Nat /\ lengths'[x.v] \in Nat
  BY <1>1, TypesKept DEF SearchTypes, SSSPNext, RoadsAssumption
<1>8. x.pc \in Scanning => lengths[x.u] >= delta * curr_bin_index /\ x.left \subseteq OutOf(x.u)
  BY <1>2, Zenon DEF Sound
<1>9. x.pc \in {"add", "cas"} => <<x.v, x.w>> \in OutOf(x.u) /\ lengths[x.v] <= x.old
  BY <1>2, Zenon DEF Sound
<1>10. x.pc = "cas" => lengths[x.u] + x.w <= x.new /\ x.new < x.old /\ x.new >= delta * curr_bin_index
  BY <1>2, Zenon DEF Sound
<1>11. y.pc \in Scanning => /\ lengths'[y.u] >= delta' * curr_bin_index'
                            /\ y.left \subseteq OutOf(y.u)'
  BY <1>3, <1>4, <1>5, <1>6, <1>8 DEF Scanning
<1>12. y.pc \in {"add", "cas"} => <<y.v, y.w>> \in OutOf(y.u)' /\ lengths'[y.v] <= y.old
  BY <1>1, <1>4, <1>5, <1>6, <1>7, <1>9
<1>13. y.pc = "cas" => /\ lengths'[y.u] + y.w <= y.new /\ y.new < y.old
                       /\ y.new >= delta' * curr_bin_index'
  <2>1. y.pc = "cas" => lengths'[y.u] + y.w <= y.new /\ y.new < y.old
    BY <1>1, <1>5, <1>6, <1>7, <1>10
  <2>2. y.pc = "cas" => y.new >= delta' * curr_bin_index'
    BY <1>3, <1>5, <1>10
  <2> QED
    BY <2>1, <2>2
<1> QED
  BY <1>11, <1>12, <1>13, Zenon DEF Sound

LEMMA ScanSoundKept ==
  ASSUME RoadsAssumption, SearchTypes, ScanSound, [SSSPNext]_ssspVars
  PROVE  ScanSound'
<1>1. CASE UNCHANGED ssspVars
  BY <1>1 DEF ScanSound, Sound, OutOf, ssspVars, searchVars, binVars
<1>2. CASE Barrier1
  BY <1>2, StartEffect DEF ScanSound, Sound, Scanning
<1>3. CASE Barrier2
  BY <1>3, StartEffect DEF ScanSound, Sound, Scanning
<1>4. ASSUME NEW t \in Workers, ~Relax(t),
             TakeNode(t) \/ LoadOld(t) \/ LoadNew(t) \/ Processed(t) \/ ProposeBin(t) \/ CopyBin(t)
      PROVE  ScanSound'
  <2>1. UNCHANGED <<lengths, roads, delta, curr_bin_index>>
    BY <1>4 DEF TakeNode, LoadOld, LoadNew, Processed, ProposeBin, CopyBin, searchVars, binVars
  <2>2. \A s \in Workers : s # t => crew'[s] = crew[s]
    BY <1>4, TakeEffect, LoadEffect, NewEffect, StartEffect
  <2>3. ASSUME NEW s \in Workers, s # t PROVE Sound(crew[s])'
    BY <2>1, <2>2, <2>3 DEF ScanSound, Sound, OutOf
  <2>4. \A u : OutOf(u)' = OutOf(u)
    BY <2>1 DEF OutOf
  <2> SUFFICES ASSUME NEW y, y = crew'[t] PROVE Sound(y)'
    BY <2>3 DEF ScanSound, Sound, OutOf
  <2> DEFINE x == crew[t]
  <2>5. Sound(x) /\ x \in Worker /\ x.u \in NodeIDs /\ x.v \in NodeIDs /\ x.w \in Nat
    BY DEF ScanSound, SearchTypes, Worker
  <2>6. x.pc \in Scanning => lengths[x.u] >= delta * curr_bin_index /\ x.left \subseteq OutOf(x.u)
    BY <2>5, Zenon DEF Sound
  <2>7. CASE TakeNode(t)
    <3>1. PICK u \in NodeIDs :
             \/ /\ lengths[u] >= delta * curr_bin_index
                /\ y.pc = "edges" /\ y.u = u /\ y.left = OutOf(u)
             \/ y.pc = "take"
      BY <2>7, TakeEffect
    <3> QED
      BY <2>1, <2>4, <3>1 DEF Sound, Scanning
  <2>8. CASE LoadOld(t)
    <3>1. /\ x.pc = "edges" /\ y.pc = "add" /\ y.u = x.u
          /\ \E e \in x.left : /\ y.left = x.left \ {e} /\ y.v = e[1] /\ y.w = e[2]
                               /\ y.old = lengths[e[1]]
      BY <2>8, LoadEffect
    <3>2. PICK e \in x.left : y.left = x.left \ {e} /\ y.v = e[1] /\ y.w = e[2] /\ y.old = lengths[e[1]]
      BY <3>1
    <3>3. e \in OutOf(x.u) /\ e = <<e[1], e[2]>> /\ e[1] \in NodeIDs
      BY <2>5, <2>6, <3>1 DEF Scanning, Worker
    <3>4. lengths[e[1]] <= lengths[e[1]]
      BY <3>3 DEF SearchTypes
    <3>5. Sound(y)'
      <4>1. y.pc \in Scanning => lengths'[y.u] >= delta' * curr_bin_index' /\ y.left \subseteq OutOf(y.u)'
        BY <2>1, <2>4, <2>5, <2>6, <3>1, <3>2 DEF Scanning
      <4>2. <<y.v, y.w>> \in OutOf(y.u)' /\ lengths'[y.v] <= y.old
        BY <2>1, <2>4, <2>5, <3>1, <3>2, <3>3, <3>4
      <4>3. y.pc # "cas"
        BY <3>1
      <4> QED
        BY <4>1, <4>2, <4>3, Zenon DEF Sound
    <3> QED
      BY <3>5
  <2>9. CASE LoadNew(t)
    <3>1. /\ x.pc = "add" /\ y.u = x.u /\ y.v = x.v /\ y.w = x.w /\ y.left = x.left
          /\ y.old = x.old /\ y.new = lengths[x.u] + x.w
          /\ (y.new < x.old /\ y.pc = "cas") \/ y.pc = "edges"
      BY <2>9, NewEffect
    <3>2. <<x.v, x.w>> \in OutOf(x.u) /\ lengths[x.v] <= x.old
      BY <2>5, <3>1, Zenon DEF Sound
    <3>3. lengths[x.u] \in Nat /\ lengths[x.u] + x.w <= y.new
      BY <2>5, <3>1 DEF SearchTypes, RoadsAssumption
    <3>4. y.new >= delta * curr_bin_index
      <4>1. delta * curr_bin_index \in Nat
        BY DEF SearchTypes, RoadsAssumption
      <4> QED
        BY <2>5, <2>6, <3>1, <3>3, <4>1 DEF Scanning
    <3>5. Sound(y)'
      <4>1. y.pc \in Scanning => lengths'[y.u] >= delta' * curr_bin_index' /\ y.left \subseteq OutOf(y.u)'
        BY <2>1, <2>4, <2>5, <2>6, <3>1 DEF Scanning
      <4>2. <<y.v, y.w>> \in OutOf(y.u)' /\ lengths'[y.v] <= y.old
        BY <2>1, <2>4, <2>5, <3>1, <3>2
      <4>3. y.pc = "cas" => /\ lengths'[y.u] + y.w <= y.new /\ y.new < y.old
                            /\ y.new >= delta' * curr_bin_index'
        BY <2>1, <3>1, <3>3, <3>4
      <4> QED
        BY <4>1, <4>2, <4>3, Zenon DEF Sound
    <3> QED
      BY <3>5
  <2>10. CASE Processed(t) \/ ProposeBin(t) \/ CopyBin(t)
    BY <2>10, StartEffect DEF Sound, Scanning
  <2> QED
    BY <1>4, <2>7, <2>8, <2>9, <2>10
<1> QED
  BY <1>1, <1>2, <1>3, <1>4, RelaxSound DEF SSSPNext

LEMMA InRoundsKept ==
  ASSUME RoadsAssumption, SearchTypes, InRounds, [SSSPNext]_ssspVars
  PROVE  InRounds'
<1> USE DEF RoadsAssumption
<1>1. EmptyBag' = EmptyBag /\ \A u \in NodeIDs : ~(EmptyBag[u] > 0)
  BY DEF EmptyBag
<1>2. CASE UNCHANGED ssspVars
  BY <1>1, <1>2 DEF InRounds, ssspVars, searchVars, binVars
<1>3. CASE Barrier1
  <2>1. frontier = EmptyBag /\ next_frontier = EmptyBag
    BY <1>3 DEF Barrier1, AllAt, InRounds, Searching, Scanning
  <2>2. UNCHANGED <<frontier, next_frontier>> /\ \A t \in Workers : crew'[t].pc = "copy"
    BY <1>3, StartEffect DEF Barrier1, binVars
  <2> QED
    BY <1>1, <2>1, <2>2 DEF InRounds
<1>4. CASE Barrier2
  <2>1. next_bin_index = INF => next_frontier = EmptyBag
    BY <1>4 DEF Barrier2, AllAt, InRounds, Searching, Scanning
  <2>2. frontier' = next_frontier /\ next_frontier' = EmptyBag /\ curr_bin_index' = next_bin_index
    BY <1>4 DEF Barrier2
  <2>3. CASE next_bin_index = INF
    <3>1. \A t \in Workers : crew'[t].pc = "done"
      BY <1>4, <2>3, StartEffect
    <3> QED
      BY <1>1, <2>1, <2>2, <2>3, <3>1 DEF InRounds
  <2>4. CASE next_bin_index # INF
    <3>1. \A t \in Workers : crew'[t].pc = "take"
      BY <1>4, <2>4, StartEffect
    <3> QED
      BY <1>1, <2>2, <3>1 DEF InRounds, Searching
  <2> QED
    BY <2>3, <2>4
<1>5. ASSUME NEW t \in Workers,
             TakeNode(t) \/ LoadOld(t) \/ LoadNew(t) \/ Relax(t) \/ Processed(t)
      PROVE  InRounds'
  <2>1. crew[t].pc \in Searching /\ crew'[t].pc \in Searching /\ crew'[t].pc # "barrier1"
    BY <1>5, TakeEffect, LoadEffect, NewEffect, RelaxEffect, StartEffect
       DEF TakeNode, Processed, Searching, Scanning
  <2>2. \A s \in Workers : s # t => crew'[s] = crew[s]
    BY <1>5, TakeEffect, LoadEffect, NewEffect, RelaxEffect, StartEffect
  <2>3. next_frontier' = next_frontier /\ (frontier = EmptyBag => frontier' = frontier)
    BY <1>1, <1>5 DEF TakeNode, LoadOld, LoadNew, Relax, Processed, binVars
  <2>4. /\ \A s \in Workers : crew[s].pc \in Searching
        /\ next_frontier = EmptyBag
        /\ (\E s \in Workers : crew[s].pc = "barrier1") => frontier = EmptyBag
    BY <2>1 DEF InRounds, Searching, Scanning
  <2>5. \A s \in Workers : crew'[s].pc \in Searching
    BY <2>1, <2>2, <2>4
  <2>6. (\E s \in Workers : crew'[s].pc = "barrier1") => frontier' = EmptyBag
    BY <2>1, <2>2, <2>3, <2>4
  <2> QED
    BY <1>1, <2>3, <2>4, <2>5, <2>6 DEF InRounds
<1>6. ASSUME NEW t \in Workers, ProposeBin(t) PROVE InRounds'
  <2>1. /\ crew'[t].pc = "barrier1" /\ \A s \in Workers : s # t => crew'[s] = crew[s]
        /\ crew[t].pc = "take" /\ frontier = EmptyBag /\ UNCHANGED <<frontier, next_frontier>>
    BY <1>6, StartEffect DEF ProposeBin
  <2>2. next_frontier = EmptyBag /\ \A s \in Workers : crew[s].pc \in Searching
    BY <2>1 DEF InRounds
  <2>3. \A s \in Workers : crew'[s].pc \in Searching
    BY <2>1, <2>2 DEF Searching
  <2> QED
    BY <1>1, <2>1, <2>2, <2>3 DEF InRounds
<1>7. ASSUME NEW t \in Workers, CopyBin(t) PROVE InRounds'
  <2>1. /\ crew'[t].pc = "barrier2" /\ \A s \in Workers : s # t => crew'[s] = crew[s]
        /\ crew[t].pc = "copy" /\ UNCHANGED <<frontier, next_bin_index>>
        /\ next_bin_index \notin Bins => next_frontier' = next_frontier
    BY <1>7, StartEffect DEF CopyBin
  <2>2. /\ frontier = EmptyBag /\ \A s \in Workers : crew[s].pc \in {"copy", "barrier2"}
        /\ next_bin_index = INF => next_frontier = EmptyBag
    BY <2>1 DEF InRounds, Searching, Scanning
  <2>3. INF \notin Bins
    BY DEF Bins
  <2>4. \A s \in Workers : crew'[s].pc \in {"copy", "barrier2"}
    BY <2>1, <2>2
  <2> QED
    BY <1>1, <2>1, <2>2, <2>3, <2>4 DEF InRounds
<1> QED
  BY <1>2, <1>3, <1>4, <1>5, <1>6, <1>7 DEF SSSPNext

LEMMA BinsAheadKept ==
  ASSUME RoadsAssumption, SearchTypes, ScanSound, BinsAhead, [SSSPNext]_ssspVars
  PROVE  BinsAhead'
<1> DEFINE Waiting == {"barrier1", "copy", "barrier2"}
<1>1. EmptyBag' = EmptyBag
  BY DEF EmptyBag
<1>2. CASE UNCHANGED ssspVars
  BY <1>1, <1>2 DEF BinsAhead, ssspVars, searchVars, binVars
<1>3. CASE Barrier1
  <2>1. \A t \in Workers : crew[t].pc = "barrier1"
    BY <1>3 DEF Barrier1, AllAt
  <2> QED
    BY <1>1, <1>3, <2>1 DEF Barrier1, BinsAhead, binVars
<1>4. CASE Barrier2
  <2>1. \A t \in Workers : crew[t].pc = "barrier2" /\ crew'[t].pc \notin Waiting
    BY <1>4, StartEffect DEF Barrier2, AllAt
  <2> QED
    BY <1>1, <1>4, <2>1 DEF Barrier2, BinsAhead
<1>5. ASSUME NEW t \in Workers, TakeNode(t) \/ LoadOld(t) \/ LoadNew(t) \/ Processed(t)
      PROVE  BinsAhead'
  <2>1. crew'[t].pc \notin Waiting /\ \A s \in Workers : s # t => crew'[s] = crew[s]
    BY <1>5, TakeEffect, LoadEffect, NewEffect, StartEffect
  <2>2. UNCHANGED <<local_bins, curr_bin_index, next_bin_index>>
    BY <1>5 DEF TakeNode, LoadOld, LoadNew, Processed, binVars
  <2> QED
    BY <1>1, <2>1, <2>2 DEF BinsAhead
<1>6. ASSUME NEW t \in Workers, Relax(t) PROVE BinsAhead'
  <2> DEFINE x == crew[t]
  <2>1. crew'[t].pc \notin Waiting /\ \A s \in Workers : s # t => crew'[s] = crew[s]
    BY <1>6, RelaxEffect
  <2>2. UNCHANGED <<curr_bin_index, next_bin_index>>
    BY <1>6 DEF Relax
  <2>3. x.new >= delta * curr_bin_index /\ x.pc = "cas"
    BY <1>6, RelaxEffect, Zenon DEF ScanSound, Sound
  <2>4. x.new \div delta >= curr_bin_index
    <3>1. x.new \in Nat /\ delta \in Nat \ {0} /\ curr_bin_index \in Nat
      BY DEF SearchTypes, Worker, RoadsAssumption
    <3> QED
      BY <2>3, <3>1, BinOf
  <2>5. \A s \in Workers : \A b \in Bins :
          local_bins'[s][b] = local_bins[s][b] \/ (s = t /\ b = x.new \div delta)
    <3>1. \/ local_bins' = local_bins
          \/ local_bins' = [local_bins EXCEPT ![t][x.new \div delta][x.v] = @ + 1]
      BY <1>6 DEF Relax
    <3> QED
      BY <3>1 DEF SearchTypes
  <2> QED
    BY <1>1, <2>1, <2>2, <2>4, <2>5 DEF BinsAhead
<1>7. ASSUME NEW t \in Workers, ProposeBin(t) PROVE BinsAhead'
  <2>1. crew[t].pc = "take" /\ \A s \in Workers : s # t => crew'[s] = crew[s]
    BY <1>7, StartEffect DEF ProposeBin
  <2>2. UNCHANGED <<local_bins, curr_bin_index>>
    BY <1>7 DEF ProposeBin
  <2>3. /\ next_bin_index' \in 0 .. INF /\ next_bin_index' <= next_bin_index
        /\ \A b \in Used(t) : next_bin_index' <= b
    BY <1>7, ProposedBin DEF ProposeBin
  <2> SUFFICES ASSUME NEW s \in Workers, NEW b \in Bins, local_bins[s][b] # EmptyBag
               PROVE  /\ b >= curr_bin_index
                      /\ crew'[s].pc \in Waiting => b >= next_bin_index'
    BY <1>1, <2>2 DEF BinsAhead
  <2>4. b >= curr_bin_index /\ (crew[s].pc \in Waiting => b >= next_bin_index)
    BY DEF BinsAhead
  <2>5. b \in Nat /\ next_bin_index \in Nat
    BY DEF Bins, RoadsAssumption, SearchTypes
  <2>6. CASE s = t
    BY <2>3, <2>4, <2>5, <2>6 DEF Used
  <2>7. CASE s # t
    <3>1. crew'[s].pc \in Waiting => b >= next_bin_index
      BY <2>1, <2>4, <2>7
    <3> QED
      BY <2>3, <2>4, <2>5, <3>1
  <2> QED
    BY <2>6, <2>7
<1>8. ASSUME NEW t \in Workers, CopyBin(t) PROVE BinsAhead'
  <2>1. crew[t].pc = "copy" /\ \A s \in Workers : s # t => crew'[s] = crew[s]
    BY <1>8, StartEffect DEF CopyBin
  <2>2. UNCHANGED <<curr_bin_index, next_bin_index>>
    BY <1>8 DEF CopyBin
  <2>3. \A s \in Workers : \A b \in Bins :
          local_bins'[s][b] = local_bins[s][b] \/ local_bins'[s][b] = EmptyBag
    BY <1>8 DEF CopyBin, SearchTypes
  <2> QED
    BY <1>1, <2>1, <2>2, <2>3 DEF BinsAhead
<1> QED
  BY <1>2, <1>3, <1>4, <1>5, <1>6, <1>7, <1>8 DEF SSSPNext

-----------------------------------------------------------------------------
(* No edge is forgotten.                                                   *)

\* What a thread that the step leaves alone has in hand, it keeps.
LEMMA StillInHand ==
  ASSUME NEW s \in Workers, NEW e, InHand(s, e), crew'[s] = crew[s],
         crew[s].pc = "cas" => lengths'[e[1]] = lengths[e[1]]
  PROVE  InHand(s, e)'
BY DEF InHand

LEMMA TakeCares ==
  ASSUME SearchTypes, EdgesCared, NEW t \in Workers, TakeNode(t)
  PROVE  EdgesCared'
<1>1. UNCHANGED <<roads, delta, lengths, next_frontier, curr_bin_index, next_bin_index, local_bins>>
  BY DEF TakeNode, searchVars
<1>2. /\ crew[t].pc = "take" /\ \A s \in Workers : s # t => crew'[s] = crew[s]
      /\ \E n \in NodeIDs :
           /\ frontier' = [frontier EXCEPT ![n] = @ - 1]
           /\ \/ crew'[t].pc = "edges" /\ crew'[t].u = n /\ crew'[t].left = OutOf(n)
              \/ ~(lengths[n] >= delta * curr_bin_index)
  BY TakeEffect DEF TakeNode
<1>3. PICK n \in NodeIDs :
           /\ frontier' = [frontier EXCEPT ![n] = @ - 1]
           /\ \/ crew'[t].pc = "edges" /\ crew'[t].u = n /\ crew'[t].left = OutOf(n)
              \/ ~(lengths[n] >= delta * curr_bin_index)
  BY <1>2
<1> SUFFICES ASSUME NEW e \in roads
             PROVE  Relaxed(e)' \/ Due(e[1])' \/ \E s \in Workers : InHand(s, e)'
  BY <1>1 DEF EdgesCared
<1>4. e[1] \in NodeIDs /\ e = <<e[1], e[2], e[3]>>
  BY DEF SearchTypes
<1>5. CASE Relaxed(e)
  BY <1>1, <1>5 DEF Relaxed
<1>6. CASE Due(e[1])
  <2>1. CASE e[1] # n
    <3>1. frontier'[e[1]] = frontier[e[1]]
      BY <1>3, <1>4, <2>1 DEF SearchTypes, Bag
    <3> QED
      BY <1>1, <1>6, <3>1 DEF Due
  <2>2. CASE e[1] = n /\ ~(lengths[n] >= delta * curr_bin_index)
    BY <1>1, <1>6, <2>2 DEF Due
  <2>3. CASE e[1] = n /\ crew'[t].pc = "edges" /\ crew'[t].u = n /\ crew'[t].left = OutOf(n)
    <3>1. <<e[2], e[3]>> \in OutOf(n)
      BY <1>4, <2>3 DEF OutOf
    <3> QED
      BY <2>3, <3>1 DEF InHand, Scanning
  <2> QED
    BY <1>3, <2>1, <2>2, <2>3
<1>7. CASE \E s \in Workers : InHand(s, e)
  <2>1. PICK s \in Workers : InHand(s, e)
    BY <1>7
  <2>2. s # t
    BY <1>2, <2>1 DEF InHand, Scanning
  <2> QED
    BY <1>1, <1>2, <2>1, <2>2, StillInHand
<1> QED
  BY <1>5, <1>6, <1>7 DEF EdgesCared

LEMMA LoadCares ==
  ASSUME SearchTypes, ScanSound, EdgesCared, NEW t \in Workers, LoadOld(t)
  PROVE  EdgesCared'
<1>1. UNCHANGED <<roads, delta, lengths, frontier, next_frontier, curr_bin_index, next_bin_index,
                  local_bins>>
  BY DEF LoadOld, searchVars, binVars
<1>2. /\ \A s \in Workers : s # t => crew'[s] = crew[s]
      /\ crew[t].pc = "edges" /\ crew'[t].pc = "add" /\ crew'[t].u = crew[t].u
  BY LoadEffect
<1>3. PICK a \in crew[t].left :
        crew'[t].left = crew[t].left \ {a} /\ crew'[t].v = a[1] /\ crew'[t].w = a[2]
  BY LoadEffect
<1> SUFFICES ASSUME NEW e \in roads
             PROVE  Relaxed(e)' \/ Due(e[1])' \/ \E s \in Workers : InHand(s, e)'
  BY <1>1 DEF EdgesCared
<1>4. CASE Relaxed(e) \/ Due(e[1])
  BY <1>1, <1>4 DEF Relaxed, Due
<1>5. CASE \E s \in Workers : InHand(s, e)
  <2>1. PICK s \in Workers : InHand(s, e)
    BY <1>5
  <2>2. CASE s # t
    BY <1>1, <1>2, <2>1, <2>2, StillInHand
  <2>3. CASE s = t
    <3>1. crew[t].u = e[1] /\ <<e[2], e[3]>> \in crew[t].left
      BY <1>2, <2>1, <2>3 DEF InHand
    <3>2. CASE a = <<e[2], e[3]>>
      BY <1>2, <1>3, <3>1, <3>2 DEF InHand, Scanning
    <3>3. CASE a # <<e[2], e[3]>>
      BY <1>2, <1>3, <3>1, <3>3 DEF InHand, Scanning
    <3> QED
      BY <3>2, <3>3
  <2> QED
    BY <2>2, <2>3
<1> QED
  BY <1>4, <1>5 DEF EdgesCared

LEMMA AddCares ==
  ASSUME RoadsAssumption, SearchTypes, ScanSound, EdgesCared, NEW t \in Workers, LoadNew(t)
  PROVE  EdgesCared'
<1>1. UNCHANGED <<roads, delta, lengths, frontier, next_frontier, curr_bin_index, next_bin_index,
                  local_bins>>
  BY DEF LoadNew, searchVars, binVars
<1>2. /\ \A s \in Workers : s # t => crew'[s] = crew[s]
      /\ crew[t].pc = "add"
      /\ crew'[t].u = crew[t].u /\ crew'[t].v = crew[t].v /\ crew'[t].w = crew[t].w
      /\ crew'[t].left = crew[t].left /\ crew'[t].new = lengths[crew[t].u] + crew[t].w
      /\ \/ crew'[t].pc = "cas"
         \/ ~(crew'[t].new < crew[t].old) /\ crew'[t].pc = "edges"
  BY NewEffect
<1>3. lengths[crew[t].v] <= crew[t].old
  BY <1>2, Zenon DEF ScanSound, Sound
<1> SUFFICES ASSUME NEW e \in roads
             PROVE  Relaxed(e)' \/ Due(e[1])' \/ \E s \in Workers : InHand(s, e)'
  BY <1>1 DEF EdgesCared
<1>4. CASE Relaxed(e) \/ Due(e[1])
  BY <1>1, <1>4 DEF Relaxed, Due
<1>5. CASE \E s \in Workers : InHand(s, e)
  <2>1. PICK s \in Workers : InHand(s, e)
    BY <1>5
  <2>2. CASE s # t
    BY <1>1, <1>2, <2>1, <2>2, StillInHand
  <2>3. CASE s = t /\ <<e[2], e[3]>> \in crew[t].left
    BY <1>2, <2>1, <2>3 DEF InHand, Scanning
  <2>4. CASE s = t /\ crew[t].v = e[2] /\ crew[t].w = e[3]
    <3>1. crew[t].u = e[1]
      BY <2>1, <2>4 DEF InHand
    <3>2. CASE crew'[t].pc = "cas"
      BY <1>1, <1>2, <2>4, <3>1, <3>2 DEF InHand, Scanning
    <3>3. CASE ~(crew'[t].new < crew[t].old)
      <4>1. crew[t].old \in Nat /\ crew'[t].new \in Nat /\ lengths[e[2]] \in Nat
        <5>1. crew[t] \in Worker /\ e[2] \in NodeIDs /\ lengths[crew[t].u] \in Nat
          BY DEF SearchTypes, Worker, RoadsAssumption
        <5> QED
          BY <1>2, <5>1 DEF SearchTypes, Worker, RoadsAssumption
      <4>2. lengths[e[2]] <= lengths[e[1]] + e[3]
        BY <1>2, <1>3, <2>4, <3>1, <3>3, <4>1
      <4> QED
        BY <1>1, <4>2 DEF Relaxed
    <3> QED
      BY <1>2, <3>2, <3>3
  <2> QED
    BY <2>1, <2>2, <2>3, <2>4 DEF InHand
<1> QED
  BY <1>4, <1>5 DEF EdgesCared

LEMMA RelaxCares ==
  ASSUME RoadsAssumption, SearchTypes, ScanSound, EdgesCared, NEW t \in Workers, Relax(t)
  PROVE  EdgesCared'
<1> DEFINE x == crew[t]
<1>1. UNCHANGED <<roads, delta, frontier, next_frontier, curr_bin_index, next_bin_index>>
  BY DEF Relax, searchVars
<1>2. /\ \A s \in Workers : s # t => crew'[s] = crew[s]
      /\ x.pc = "cas"
      /\ crew'[t].u = x.u /\ crew'[t].v = x.v /\ crew'[t].w = x.w
      /\ crew'[t].left = x.left /\ crew'[t].new = x.new
  BY RelaxEffect
<1>3. x.v \in NodeIDs /\ x.u \in NodeIDs /\ x.w \in Nat /\ x.new \in Nat /\ x.old \in 0 .. INF
  BY DEF SearchTypes, Worker
<1>4. x.new < x.old /\ lengths[x.u] + x.w <= x.new
  BY <1>2, Zenon DEF ScanSound, Sound
<1>5. \A n \in NodeIDs : lengths[n] \in 0 .. INF
  BY DEF SearchTypes
<1> SUFFICES ASSUME NEW e \in roads
             PROVE  Relaxed(e)' \/ Due(e[1])' \/ \E s \in Workers : InHand(s, e)'
  BY <1>1 DEF EdgesCared
<1>6. e[1] \in NodeIDs /\ e[2] \in NodeIDs /\ e[3] \in Nat
  BY DEF SearchTypes
<1>7. CASE UNCHANGED <<lengths, local_bins>>
  <2>1. CASE Relaxed(e) \/ Due(e[1])
    BY <1>1, <1>7, <2>1 DEF Relaxed, Due
  <2>2. CASE \E s \in Workers : InHand(s, e)
    <3>1. PICK s \in Workers : InHand(s, e)
      BY <2>2
    <3>2. CASE s # t
      BY <1>2, <1>7, <3>1, <3>2, StillInHand
    <3>3. CASE s = t /\ <<e[2], e[3]>> \in x.left
      <4>1. crew'[t].pc \in Scanning
        BY RelaxEffect DEF Scanning
      <4> QED
        BY <1>2, <3>1, <3>3, <4>1 DEF InHand
    <3>4. CASE s = t /\ x.v = e[2] /\ x.w = e[3] /\ x.new = lengths[e[1]] + e[3]
      <4>1. CASE crew'[t].pc = "cas"
        BY <1>2, <1>7, <3>1, <3>4, <4>1 DEF InHand, Scanning
      <4>2. CASE crew'[t].pc # "cas"
        <5>1. lengths[x.v] <= x.new \/ lengths'[x.v] = x.new
          BY <1>3, <4>2, RelaxEffect DEF SearchTypes
        <5>2. lengths'[e[2]] <= lengths'[e[1]] + e[3]
          BY <1>3, <1>5, <1>6, <1>7, <3>4, <5>1 DEF RoadsAssumption
        <5> QED
          BY <5>2 DEF Relaxed
      <4> QED
        BY <4>1, <4>2
    <3> QED
      BY <1>2, <3>1, <3>2, <3>3, <3>4 DEF InHand
  <2> QED
    BY <2>1, <2>2 DEF EdgesCared
<1>8. CASE /\ lengths[x.v] = x.old /\ crew'[t].pc = "edges"
           /\ lengths' = [lengths EXCEPT ![x.v] = x.new]
           /\ local_bins' = [local_bins EXCEPT ![t][x.new \div delta][x.v] = @ + 1]
  <2> DEFINE b == x.new \div delta
  <2>1. b \in Bins /\ x.new < INF
    <3>1. b \in Nat /\ b <= x.new
      BY <1>3, BinOf DEF SearchTypes
    <3>2. x.new < INF
      BY <1>3, <1>4 DEF RoadsAssumption
    <3> QED
      BY <1>3, <3>1, <3>2 DEF Bins, RoadsAssumption
  <2>2. \A s \in Workers : \A c \in Bins : \A n \in NodeIDs :
          local_bins[s][c][n] > 0 => local_bins'[s][c][n] > 0
    BY <1>8, <2>1 DEF SearchTypes, Bag
  <2>3. local_bins'[t][b][x.v] > 0
    BY <1>3, <1>8, <2>1 DEF SearchTypes, Bag
  <2>4. lengths'[x.v] = x.new /\ \A n \in NodeIDs : n # x.v => lengths'[n] = lengths[n]
    BY <1>3, <1>8 DEF SearchTypes
  <2>5. ASSUME NEW n \in NodeIDs, n = x.v PROVE Due(n)'
    BY <1>1, <2>1, <2>3, <2>4, <2>5 DEF Due
  <2>6. CASE e[1] = x.v
    BY <1>6, <2>5, <2>6
  <2>7. CASE e[1] # x.v /\ Relaxed(e)
    <3>1. lengths'[e[1]] = lengths[e[1]] /\ lengths'[e[2]] <= lengths[e[2]]
      BY <1>3, <1>4, <1>5, <1>6, <1>8, <2>4, <2>7 DEF RoadsAssumption
    <3>2. lengths'[e[2]] \in Nat /\ lengths[e[2]] \in Nat /\ lengths[e[1]] \in Nat
      BY <1>3, <1>5, <1>6, <2>4 DEF RoadsAssumption
    <3> QED
      BY <1>6, <2>7, <3>1, <3>2 DEF Relaxed
  <2>8. CASE e[1] # x.v /\ Due(e[1])
    <3>1. lengths'[e[1]] = lengths[e[1]]
      BY <1>6, <2>4, <2>8
    <3>2. lengths[e[1]] \div delta \in Bins
      <4>1. lengths[e[1]] \in Nat /\ lengths[e[1]] < INF
        BY <1>5, <1>6, <2>8 DEF Due, RoadsAssumption
      <4>2. lengths[e[1]] \div delta \in Nat /\ lengths[e[1]] \div delta <= lengths[e[1]]
        BY <4>1, BinOf DEF SearchTypes
      <4> QED
        BY <4>1, <4>2 DEF Bins, RoadsAssumption
    <3> QED
      BY <1>1, <1>6, <2>2, <2>8, <3>1, <3>2 DEF Due
  <2>9. CASE e[1] # x.v /\ \E s \in Workers : InHand(s, e)
    <3>1. PICK s \in Workers : InHand(s, e)
      BY <2>9
    <3>2. CASE s # t
      BY <1>2, <1>6, <2>4, <2>9, <3>1, <3>2, StillInHand
    <3>3. CASE s = t /\ <<e[2], e[3]>> \in x.left
      BY <1>2, <1>8, <3>1, <3>3 DEF InHand, Scanning
    <3>4. CASE s = t /\ x.v = e[2] /\ x.w = e[3] /\ x.new = lengths[e[1]] + e[3]
      <4>1. lengths'[e[2]] = lengths'[e[1]] + e[3]
        BY <1>6, <2>4, <2>9, <3>4
      <4>2. lengths'[e[1]] \in Nat
        BY <1>5, <1>6, <2>4, <2>9 DEF RoadsAssumption
      <4> QED
        BY <1>6, <4>1, <4>2 DEF Relaxed
    <3> QED
      BY <1>2, <3>1, <3>2, <3>3, <3>4 DEF InHand
  <2> QED
    BY <2>6, <2>7, <2>8, <2>9 DEF EdgesCared
<1> QED
  BY <1>7, <1>8, RelaxEffect

\* In the steps from one round to the next no thread has an edge in hand.
LEMMA RoundCares ==
  ASSUME RoadsAssumption, SearchTypes, InRounds, BinsAhead, EdgesCared,
         Barrier1 \/ Barrier2 \/ \E t \in Workers : Processed(t) \/ ProposeBin(t) \/ CopyBin(t)
  PROVE  EdgesCared'
<1>1. UNCHANGED <<roads, delta, lengths>>
  BY DEF Barrier1, Barrier2, Processed, ProposeBin, CopyBin, searchVars
<1>2. \A n \in NodeIDs : ~(EmptyBag[n] > 0)
  BY DEF EmptyBag
<1>3. ASSUME NEW t \in Workers, NEW e, InHand(t, e),
             ~Processed(t) \/ <<e[2], e[3]>> \in crew[t].left
      PROVE  InHand(t, e)'
  <2>1. crew[t].pc \in Scanning
    BY <1>3 DEF InHand
  <2>2. ~AllAt("barrier1") /\ ~AllAt("barrier2")
    BY <2>1 DEF AllAt, Scanning
  <2>3. ~ProposeBin(t) /\ ~CopyBin(t) /\ ~Barrier1 /\ ~Barrier2
    BY <2>1, <2>2 DEF ProposeBin, CopyBin, Barrier1, Barrier2, Scanning
  <2>4. ~Processed(t)
    BY <1>3 DEF Processed
  <2>5. crew'[t] = crew[t]
    BY <2>3, <2>4, StartEffect
  <2> QED
    BY <1>1, <1>3, <2>5, StillInHand
<1>4. ASSUME NEW t \in Workers, NEW e, InHand(t, e), Processed(t)
      PROVE  <<e[2], e[3]>> \in crew[t].left
  BY <1>4 DEF InHand, Processed
<1> SUFFICES ASSUME NEW e \in roads
             PROVE  Relaxed(e)' \/ Due(e[1])' \/ \E s \in Workers : InHand(s, e)'
  BY <1>1 DEF EdgesCared
<1> DEFINE n == e[1]
           b == lengths[n] \div delta
<1>5. n \in NodeIDs
  BY DEF SearchTypes
<1>6. CASE Relaxed(e)
  BY <1>1, <1>6 DEF Relaxed
<1>7. CASE \E s \in Workers : InHand(s, e)
  BY <1>3, <1>4, <1>7
<1>8. CASE Due(n)
  <2>1. /\ lengths[n] \in Nat /\ lengths[n] < INF /\ delta \in Nat \ {0}
        /\ curr_bin_index \in Nat /\ next_bin_index \in Nat
    BY <1>5, <1>8 DEF Due, SearchTypes, RoadsAssumption
  <2>2. b \in Bins
    <3>1. b \in Nat /\ b <= lengths[n]
      BY <2>1, BinOf
    <3> QED
      BY <2>1, <3>1 DEF Bins, RoadsAssumption
  <2>3. CASE Barrier1 \/ \E t \in Workers : Processed(t)
    <3>1. UNCHANGED <<frontier, next_frontier, curr_bin_index, next_bin_index, local_bins>>
      BY <2>3 DEF Barrier1, Processed, binVars
    <3> QED
      BY <1>1, <1>8, <3>1 DEF Due
  <2>4. ASSUME NEW t \in Workers, ProposeBin(t) PROVE Due(n)'
    <3>1. UNCHANGED <<frontier, next_frontier, curr_bin_index, local_bins>> /\ frontier = EmptyBag
          /\ next_frontier = EmptyBag
      BY <2>4 DEF ProposeBin, InRounds
    <3> QED
      BY <1>1, <1>2, <1>5, <1>8, <3>1 DEF Due
  <2>5. ASSUME NEW t \in Workers, CopyBin(t) PROVE Due(n)'
    <3>1. frontier = EmptyBag /\ UNCHANGED <<curr_bin_index, next_bin_index>>
      BY <2>5 DEF CopyBin, InRounds, Searching, Scanning
    <3>2. ~(frontier[n] > 0)
      BY <1>2, <1>5, <3>1
    <3>3. CASE next_bin_index \notin Bins
      <4>1. UNCHANGED <<frontier, next_frontier, local_bins>>
        BY <2>5, <3>3 DEF CopyBin
      <4> QED
        BY <1>1, <1>8, <3>1, <4>1 DEF Due
    <3>4. CASE next_bin_index \in Bins
      <4>1. /\ next_frontier' = Plus(next_frontier, local_bins[t][next_bin_index])
            /\ local_bins' = [local_bins EXCEPT ![t][next_bin_index] = EmptyBag]
        BY <2>5, <3>4 DEF CopyBin
      <4>2. /\ next_frontier[n] \in Nat /\ local_bins[t][next_bin_index][n] \in Nat
            /\ next_frontier'[n] = next_frontier[n] + local_bins[t][next_bin_index][n]
        BY <1>5, <3>4, <4>1 DEF SearchTypes, Bag, Plus
      <4>3. CASE next_frontier[n] > 0 /\ lengths[n] >= delta * next_bin_index
        BY <1>1, <1>8, <3>1, <4>2, <4>3 DEF Due
      <4>4. ASSUME NEW s \in Workers, local_bins[s][b][n] > 0 PROVE Due(n)'
        <5>1. CASE s = t /\ b = next_bin_index
          <6>1. lengths[n] >= delta * next_bin_index
            BY <2>1, <2>2, <5>1, BinOf
          <6>2. next_frontier'[n] > 0
            BY <4>2, <4>4, <5>1
          <6> QED
            BY <1>1, <1>8, <3>1, <6>1, <6>2 DEF Due
        <5>2. CASE s # t \/ b # next_bin_index
          <6>1. local_bins'[s][b] = local_bins[s][b]
            BY <2>2, <4>1, <5>2 DEF SearchTypes
          <6> QED
            BY <1>1, <1>8, <4>4, <6>1 DEF Due
        <5> QED
          BY <5>1, <5>2
      <4> QED
        BY <1>8, <3>2, <4>3, <4>4 DEF Due
    <3> QED
      BY <3>3, <3>4
  <2>6. CASE Barrier2
    <3>1. /\ frontier' = next_frontier /\ curr_bin_index' = next_bin_index
          /\ local_bins' = local_bins
      BY <2>6 DEF Barrier2
    <3>2. frontier = EmptyBag
      BY <2>6 DEF Barrier2, AllAt, InRounds, Searching, Scanning, RoadsAssumption
    <3> QED
      BY <1>1, <1>2, <1>5, <1>8, <3>1, <3>2 DEF Due
  <2> QED
    BY <2>3, <2>4, <2>5, <2>6
<1> QED
  BY <1>6, <1>7, <1>8 DEF EdgesCared

LEMMA EdgesCaredKept ==
  ASSUME RoadsAssumption, SearchTypes, ScanSound, InRounds, BinsAhead, EdgesCared,
         [SSSPNext]_ssspVars
  PROVE  EdgesCared'
<1>1. CASE UNCHANGED ssspVars
  BY <1>1 DEF EdgesCared, Relaxed, Due, InHand, ssspVars, searchVars, binVars
<1> QED
  BY <1>1, TakeCares, LoadCares, AddCares, RelaxCares, RoundCares DEF SSSPNext

-----------------------------------------------------------------------------
(* Every distance is accounted for by a path from the source.              *)

\* The step that lowers a distance gives the vertex an edge that accounts for it: the
\* one that was relaxed, or one into the set of the vertices nearer than its start.
LEMMA LoweredEnters ==
  ASSUME RoadsAssumption, SearchTypes, ScanSound, FromSource, NEW t \in Workers, Relax(t),
         lengths' = [lengths EXCEPT ![crew[t].v] = crew[t].new],
         lengths[crew[t].v] = crew[t].old,
         NEW T \in SUBSET NodeIDs, source \notin T, \A n \in T : lengths'[n] < INF,
         crew[t].v \in T
  PROVE  \E e \in roads : Enters(e, T)'
<1> DEFINE x == crew[t]
<1>1. x.v \in NodeIDs /\ x.u \in NodeIDs /\ x.w \in Nat /\ x.new \in Nat /\ x.old \in Nat
  BY DEF SearchTypes, Worker, RoadsAssumption
<1>2. <<x.v, x.w>> \in OutOf(x.u) /\ x.new < x.old /\ lengths[x.u] + x.w <= x.new
  BY RelaxEffect, Zenon DEF ScanSound, Sound
<1>3. roads' = roads
  BY DEF Relax, searchVars
<1>4. \A n \in NodeIDs : lengths[n] \in Nat
  BY DEF SearchTypes, RoadsAssumption
<1>5. lengths'[x.v] = x.new /\ \A n \in NodeIDs : n # x.v => lengths'[n] = lengths[n]
  BY <1>1 DEF SearchTypes
<1>6. x.u # x.v
  BY <1>1, <1>2, <1>4
<1>7. lengths'[x.u] = lengths[x.u]
  BY <1>1, <1>5, <1>6
<1>8. CASE x.u \notin T
  <2>1. PICK e \in roads : e[1] = x.u /\ e[2] = x.v /\ e[3] = x.w
    BY <1>2 DEF OutOf
  <2>2. lengths'[e[1]] + e[3] <= lengths'[e[2]]
    BY <1>2, <1>5, <1>7, <2>1
  <2> QED
    BY <1>3, <1>8, <2>1, <2>2 DEF Enters
<1>9. CASE x.u \in T
  <2> DEFINE S == {n \in T \ {x.v} : lengths[n] <= lengths[x.u]}
  <2>1. x.u \in S
    BY <1>1, <1>4, <1>6, <1>9
  <2>2. S \in SUBSET NodeIDs /\ S # {} /\ source \notin S /\ \A n \in S : lengths[n] < INF
    BY <1>5, <2>1
  <2>3. PICK e \in roads : Enters(e, S)
    <3> HIDE DEF S
    <3> QED
      BY <2>2 DEF FromSource
  <2>4. /\ e[1] \in NodeIDs /\ e[2] \in NodeIDs /\ e[3] \in Nat
        /\ e[1] \notin S /\ e[2] \in T /\ e[2] # x.v /\ lengths[e[2]] <= lengths[x.u]
        /\ lengths[e[1]] + e[3] <= lengths[e[2]]
    BY <2>3 DEF Enters, SearchTypes
  <2>5. lengths[e[1]] <= lengths[x.u]
    BY <1>1, <1>4, <2>4
  <2>6. e[1] # x.v
    BY <1>1, <1>2, <1>4, <2>5
  <2>7. e[1] \notin T
    BY <2>4, <2>5, <2>6
  <2>8. lengths'[e[1]] + e[3] <= lengths'[e[2]]
    BY <1>5, <2>4, <2>6
  <2> QED
    BY <1>3, <2>4, <2>7, <2>8 DEF Enters
<1> QED
  BY <1>8, <1>9

LEMMA FromSourceKept ==
  ASSUME RoadsAssumption, SearchTypes, ScanSound, FromSource, [SSSPNext]_ssspVars
  PROVE  FromSource'
<1>1. CASE UNCHANGED <<roads, lengths>>
  BY <1>1 DEF FromSource, Enters
<1>2. ASSUME NEW t \in Workers, Relax(t), lengths[crew[t].v] = crew[t].old,
             lengths' = [lengths EXCEPT ![crew[t].v] = crew[t].new]
      PROVE  FromSource'
  <2> DEFINE x == crew[t]
  <2>1. x.v \in NodeIDs /\ x.new \in Nat /\ x.old \in Nat /\ source \in NodeIDs
    BY DEF SearchTypes, Worker, RoadsAssumption
  <2>2. x.new < x.old
    BY <1>2, RelaxEffect, Zenon DEF ScanSound, Sound
  <2>3. roads' = roads
    BY <1>2 DEF Relax, searchVars
  <2>4. \A n \in NodeIDs : lengths[n] \in Nat
    BY DEF SearchTypes, RoadsAssumption
  <2>5. lengths'[x.v] = x.new /\ \A n \in NodeIDs : n # x.v => lengths'[n] = lengths[n]
    BY <1>2, <2>1 DEF SearchTypes
  <2>6. lengths'[source] = 0
    <3>1. x.v # source
      BY <1>2, <2>1, <2>2 DEF FromSource
    <3> QED
      BY <2>1, <2>5, <3>1 DEF FromSource
  <2>7. ASSUME NEW T \in SUBSET NodeIDs, T # {}, source \notin T, \A n \in T : lengths'[n] < INF
        PROVE  \E e \in roads : Enters(e, T)'
    <3>1. CASE x.v \in T
      BY <1>2, <2>7, <3>1, LoweredEnters
    <3>2. CASE x.v \notin T
      <4>1. \A n \in T : lengths[n] < INF
        BY <2>5, <2>7, <3>2
      <4>2. PICK e \in roads : Enters(e, T)
        BY <2>7, <4>1 DEF FromSource
      <4>3. /\ e[1] \in NodeIDs /\ e[2] \in NodeIDs /\ e[3] \in Nat
            /\ e[1] \notin T /\ e[2] \in T /\ lengths[e[1]] + e[3] <= lengths[e[2]]
        BY <4>2 DEF Enters, SearchTypes
      <4>4. lengths'[e[1]] <= lengths[e[1]] /\ lengths'[e[2]] = lengths[e[2]]
            /\ lengths'[e[1]] \in Nat
        BY <1>2, <2>1, <2>2, <2>4, <2>5, <3>2, <4>3
      <4>5. lengths'[e[1]] + e[3] <= lengths'[e[2]]
        BY <2>4, <4>3, <4>4
      <4> QED
        BY <4>3, <4>5 DEF Enters
    <3> QED
      BY <3>1, <3>2
  <2>8. ASSUME NEW T \in SUBSET NodeIDs, NEW e, e \in roads, Enters(e, T)'
        PROVE  \E f \in roads' : Enters(f, T)'
    BY <2>3, <2>8
  <2> QED
    BY <2>6, <2>7, <2>8 DEF FromSource
<1>3. ASSUME NEW t \in Workers, Relax(t) PROVE FromSource'
  <2>1. roads' = roads
    BY <1>3 DEF Relax, searchVars
  <2> QED
    BY <1>1, <1>2, <1>3, <2>1, RelaxEffect
<1>4. ASSUME NEW t \in Workers,
             TakeNode(t) \/ LoadOld(t) \/ LoadNew(t) \/ Processed(t) \/ ProposeBin(t) \/ CopyBin(t)
      PROVE  UNCHANGED <<roads, lengths>>
  BY <1>4 DEF TakeNode, LoadOld, LoadNew, Processed, ProposeBin, CopyBin, searchVars, binVars
<1>5. ASSUME Barrier1 \/ Barrier2 \/ UNCHANGED ssspVars PROVE UNCHANGED <<roads, lengths>>
  BY <1>5 DEF Barrier1, Barrier2, ssspVars, searchVars, binVars
<1> QED
  BY <1>1, <1>3, <1>4, <1>5 DEF SSSPNext

\* The invariant of the search: the types, the threads' scans, the rounds, the bins, the
\* edges still cared for and the paths behind the distances.
THEOREM SearchInvariantHolds ==
  ASSUME RoadsAssumption
  PROVE  SSSPSpec => []SearchInvariant
<1>1. SSSPInit => SearchInvariant
  BY FirstSearchInv
<1>2. SearchInvariant /\ [SSSPNext]_ssspVars => SearchInvariant'
  BY TypesKept, ScanSoundKept, InRoundsKept, BinsAheadKept, EdgesCaredKept, FromSourceKept
     DEF SearchInvariant
<1> QED
  BY <1>1, <1>2, PTL DEF SSSPSpec

-----------------------------------------------------------------------------
(* The end of the search.                                                  *)

\* When the threads are done no vertex is filed anywhere, so that no edge is left to relax.
LEMMA AllRelaxed ==
  ASSUME RoadsAssumption, SearchInvariant, AllAt("done"), NEW e \in roads
  PROVE  Relaxed(e)
<1>1. /\ \A t \in Workers : crew[t].pc = "done"
      /\ curr_bin_index = INF /\ frontier = EmptyBag /\ next_frontier = EmptyBag
  BY DEF SearchInvariant, InRounds, AllAt, Searching, Scanning, RoadsAssumption
<1>2. e[1] \in NodeIDs
  BY DEF SearchInvariant, SearchTypes
<1>3. \A t \in Workers : \A b \in Bins : local_bins[t][b] = EmptyBag
  BY <1>1 DEF SearchInvariant, BinsAhead, Bins, RoadsAssumption
<1>4. EmptyBag[e[1]] = 0
  BY <1>2 DEF EmptyBag
<1>5. lengths[e[1]] < INF => lengths[e[1]] \div delta \in Bins
  <2>1. lengths[e[1]] \in Nat /\ delta \in Nat \ {0}
    BY <1>2 DEF SearchInvariant, SearchTypes, RoadsAssumption
  <2>2. lengths[e[1]] \div delta \in Nat /\ lengths[e[1]] \div delta <= lengths[e[1]]
    BY <2>1, BinOf
  <2> QED
    BY <2>1, <2>2 DEF Bins, RoadsAssumption
<1>6. ~Due(e[1])
  BY <1>1, <1>3, <1>4, <1>5 DEF Due
<1>7. \A t \in Workers : ~InHand(t, e)
  BY <1>1 DEF InHand, Scanning
<1> QED
  BY <1>6, <1>7 DEF SearchInvariant, EdgesCared

-----------------------------------------------------------------------------
(* The rounds of the reference definition.                                 *)

Rounds == 0 .. Cardinality(NodeIDs)
FirstRound == [v \in NodeIDs |-> IF v = source THEN 0 ELSE INF]
NextRound(f) ==
  [v \in NodeIDs |-> Min({f[v]} \cup {f[e[1]] + e[3] : e \in {e \in roads : e[2] = v}})]

LEMMA RoundFacts ==
  ASSUME RoadsAssumption
  PROVE  /\ BellmanRounds[0] = FirstRound
         /\ \A k \in Rounds : k # 0 => BellmanRounds[k] = NextRound(BellmanRounds[k - 1])
<1> DEFINE N == Cardinality(NodeIDs)
           Loop(g, m) == g = [k \in 0 .. m |-> IF k = 0 THEN FirstRound ELSE NextRound(g[k - 1])]
           Bad == {m \in 0 .. N : ~\E g : Loop(g, m)}
<1>1. N \in Nat
  BY FS_CardinalityType DEF RoadsAssumption
<1>2. BellmanRounds = CHOOSE g : Loop(g, N)
  BY DEF BellmanRounds, FirstRound, NextRound
<1>3. Bad = {}
  <2> SUFFICES ASSUME Bad # {} PROVE FALSE
    OBVIOUS
  <2>1. Bad \subseteq Nat
    BY <1>1
  <2>2. PICK m \in Bad : \A j \in Bad : m <= j
    <3> HIDE DEF Bad
    <3> QED
      BY <2>1, LeastOf
  <2>3. m # 0
    <3>1. Loop([k \in 0 .. 0 |-> FirstRound], 0)
      OBVIOUS
    <3> QED
      BY <3>1
  <2>4. m \in 1 .. N /\ m - 1 \in 0 .. N /\ ~(m <= m - 1)
    BY <1>1, <2>3
  <2>5. PICK g : Loop(g, m - 1)
    BY <2>2, <2>4
  <2> DEFINE h == [k \in 0 .. m |-> IF k = m THEN NextRound(g[m - 1]) ELSE g[k]]
  <2>6. Loop(h, m)
    <3>1. \A k \in 0 .. m : h[k] = IF k = 0 THEN FirstRound ELSE NextRound(h[k - 1])
      <4> TAKE k \in 0 .. m
      <4>1. CASE k = 0
        BY <1>1, <2>4, <2>5, <4>1
      <4>2. CASE k = m
        <5>1. h[k] = NextRound(g[m - 1]) /\ h[k - 1] = g[m - 1] /\ k # 0
          BY <1>1, <2>4, <4>2
        <5> QED
          BY <4>2, <5>1
      <4>3. CASE k \in 1 .. m - 1
        <5>1. h[k] = g[k] /\ h[k - 1] = g[k - 1]
          BY <1>1, <2>4, <4>3
        <5>2. k \in 0 .. m - 1 /\ k # 0
          BY <1>1, <2>4, <4>3
        <5>3. g[k] = NextRound(g[k - 1])
          BY <2>5, <5>2
        <5> QED
          BY <5>1, <5>2, <5>3
      <4> QED
        BY <1>1, <2>4, <4>1, <4>2, <4>3
    <3> QED
      BY <3>1
  <2> QED
    BY <2>6
<1>4. \E g : Loop(g, N)
  BY <1>1, <1>3
<1>5. Loop(BellmanRounds, N)
  <2> HIDE DEF Loop
  <2> QED
    BY <1>2, <1>4
<1>6. BellmanRounds[0] = FirstRound
  <2>1. 0 \in 0 .. N
    BY <1>1
  <2> QED
    BY <1>5, <2>1
<1>7. ASSUME NEW k \in Rounds, k # 0 PROVE BellmanRounds[k] = NextRound(BellmanRounds[k - 1])
  <2>1. k \in 0 .. N
    BY DEF Rounds
  <2> QED
    BY <1>5, <1>7, <2>1
<1> QED
  BY <1>6, <1>7

\* What one round does: it never raises a distance, uses every edge, and goes by an edge
\* wherever it lowers one.
LEMMA RoundStep ==
  ASSUME SearchTypes, NEW f \in [NodeIDs -> Nat], NEW v \in NodeIDs
  PROVE  /\ NextRound(f)[v] \in Nat /\ NextRound(f)[v] <= f[v]
         /\ \A e \in roads : e[2] = v => NextRound(f)[v] <= f[e[1]] + e[3]
         /\ \/ NextRound(f)[v] = f[v]
            \/ \E e \in roads : e[2] = v /\ NextRound(f)[v] = f[e[1]] + e[3]
<1> DEFINE S == {f[v]} \cup {f[e[1]] + e[3] : e \in {e \in roads : e[2] = v}}
<1>1. S \subseteq Nat /\ S # {}
  BY DEF SearchTypes
<1>2. NextRound(f)[v] = Min(S)
  BY DEF NextRound
<1>3. Min(S) \in S /\ \A y \in S : Min(S) <= y
  <2> HIDE DEF S
  <2> QED
    BY <1>1, LeastOf
<1>4. Min(S) \in Nat /\ Min(S) <= f[v]
  BY <1>1, <1>3
<1>5. \A e \in roads : e[2] = v => Min(S) <= f[e[1]] + e[3]
  BY <1>3
<1>6. Min(S) = f[v] \/ \E e \in roads : e[2] = v /\ Min(S) = f[e[1]] + e[3]
  BY <1>3
<1> HIDE DEF S
<1> QED
  BY <1>2, <1>4, <1>5, <1>6

\* The vertices whose distance the round has found.
Found(f) == {v \in NodeIDs : f[v] <= lengths[v]}

\* Round k stays above the distances and has found those of more than k vertices, or all.
RoundGood(k) ==
  LET f == BellmanRounds[k] IN
  /\ f \in [NodeIDs -> Nat] /\ f[source] = 0
  /\ \A v \in NodeIDs : lengths[v] <= f[v] /\ f[v] <= INF
  /\ Found(f) = NodeIDs \/ Cardinality(Found(f)) > k

LEMMA FirstRoundGood ==
  ASSUME RoadsAssumption, SearchTypes, FromSource
  PROVE  RoundGood(0)
<1>1. BellmanRounds[0] = FirstRound
  BY RoundFacts
<1>2. FirstRound \in [NodeIDs -> Nat] /\ FirstRound[source] = 0 /\ lengths[source] = 0
  BY DEF FirstRound, RoadsAssumption, FromSource
<1>3. \A v \in NodeIDs : lengths[v] <= FirstRound[v] /\ FirstRound[v] <= INF
  BY DEF FirstRound, RoadsAssumption, FromSource, SearchTypes
<1>4. Cardinality(Found(FirstRound)) > 0
  <2>1. source \in Found(FirstRound)
    BY <1>2 DEF Found, RoadsAssumption
  <2>2. IsFiniteSet(Found(FirstRound))
    BY FS_Subset DEF Found, RoadsAssumption
  <2>3. Cardinality(Found(FirstRound)) \in Nat /\ Cardinality(Found(FirstRound)) # 0
    BY <2>1, <2>2, FS_EmptySet, FS_CardinalityType
  <2> QED
    BY <2>3
<1> QED
  BY <1>1, <1>2, <1>3, <1>4 DEF RoundGood

LEMMA NextRoundGood ==
  ASSUME RoadsAssumption, SearchTypes, FromSource, \A e \in roads : Relaxed(e),
         NEW k \in Rounds, k # 0, RoundGood(k - 1)
  PROVE  RoundGood(k)
<1> DEFINE f == BellmanRounds[k - 1]
           g == BellmanRounds[k]
<1>1. g = NextRound(f)
  BY RoundFacts
<1>2. f \in [NodeIDs -> Nat] /\ f[source] = 0
      /\ \A v \in NodeIDs : lengths[v] <= f[v] /\ f[v] <= INF
  BY DEF RoundGood
<1>3. Found(f) = NodeIDs \/ Cardinality(Found(f)) > k - 1
  BY DEF RoundGood
<1>4. \A v \in NodeIDs : lengths[v] \in Nat
  BY DEF SearchTypes, RoadsAssumption
<1>5. \A e \in roads : e[1] \in NodeIDs /\ e[2] \in NodeIDs /\ e[3] \in Nat
  BY DEF SearchTypes
<1>6. source \in NodeIDs /\ IsFiniteSet(NodeIDs) /\ INF \in Nat /\ k \in Nat \ {0}
  BY FS_CardinalityType DEF RoadsAssumption, Rounds
<1> HIDE DEF f, g
<1>7. ASSUME NEW v \in NodeIDs
      PROVE  /\ g[v] \in Nat /\ g[v] <= f[v]
             /\ \A e \in roads : e[2] = v => g[v] <= f[e[1]] + e[3]
             /\ g[v] = f[v] \/ \E e \in roads : e[2] = v /\ g[v] = f[e[1]] + e[3]
  BY <1>1, <1>2, RoundStep
<1>8. g \in [NodeIDs -> Nat]
  <2>1. g = [v \in NodeIDs |-> g[v]]
    BY <1>1 DEF NextRound
  <2> QED
    BY <1>7, <2>1
<1>9. g[source] = 0
  BY <1>2, <1>6, <1>7
<1>10. ASSUME NEW v \in NodeIDs PROVE lengths[v] <= g[v] /\ g[v] <= INF
  <2>1. g[v] \in Nat /\ f[v] \in Nat /\ lengths[v] \in Nat /\ g[v] <= f[v]
        /\ lengths[v] <= f[v] /\ f[v] <= INF
    BY <1>2, <1>4, <1>7
  <2>2. ASSUME NEW e \in roads, e[2] = v, g[v] = f[e[1]] + e[3] PROVE lengths[v] <= g[v]
    <3>1. lengths[v] <= lengths[e[1]] + e[3]
      BY <2>2 DEF Relaxed
    <3>2. /\ lengths[e[1]] <= f[e[1]] /\ lengths[e[1]] \in Nat /\ f[e[1]] \in Nat
          /\ e[3] \in Nat
      BY <1>2, <1>4, <1>5
    <3> QED
      BY <2>1, <2>2, <3>1, <3>2
  <2>3. lengths[v] <= g[v]
    BY <1>7, <2>1, <2>2
  <2>4. g[v] <= INF
    BY <1>6, <2>1
  <2> QED
    BY <2>3, <2>4
<1>11. Found(g) = NodeIDs \/ Cardinality(Found(g)) > k
  <2>1. Found(f) \subseteq Found(g)
    <3> SUFFICES ASSUME NEW v \in NodeIDs, f[v] <= lengths[v] PROVE g[v] <= lengths[v]
      BY DEF Found
    <3>1. g[v] \in Nat /\ f[v] \in Nat /\ lengths[v] \in Nat /\ g[v] <= f[v]
      BY <1>2, <1>4, <1>7
    <3> QED
      BY <3>1
  <2>2. CASE Found(f) = NodeIDs
    BY <2>1, <2>2 DEF Found
  <2>3. CASE Found(f) # NodeIDs
    <3> DEFINE T == NodeIDs \ Found(f)
    <3>1. T \in SUBSET NodeIDs /\ T # {} /\ source \notin T
      BY <1>2, <1>6, <2>3 DEF Found, FromSource
    <3>2. \A v \in T : lengths[v] < INF
      BY <1>2, <1>4, <1>6 DEF Found
    <3>3. PICK e \in roads : Enters(e, T)
      <4> HIDE DEF T
      <4> QED
        BY <3>1, <3>2 DEF FromSource
    <3>4. e[1] \in Found(f) /\ e[2] \notin Found(f) /\ e[1] \in NodeIDs /\ e[2] \in NodeIDs
          /\ lengths[e[1]] + e[3] <= lengths[e[2]]
      BY <1>5, <3>3 DEF Enters
    <3>5. e[2] \in Found(g)
      <4>1. f[e[1]] <= lengths[e[1]]
        BY <3>4 DEF Found
      <4>2. g[e[2]] <= f[e[1]] + e[3] /\ g[e[2]] \in Nat /\ f[e[1]] \in Nat
            /\ lengths[e[1]] \in Nat /\ lengths[e[2]] \in Nat /\ e[3] \in Nat
        BY <1>2, <1>4, <1>5, <1>7, <3>4
      <4>3. g[e[2]] <= lengths[e[2]]
        BY <3>4, <4>1, <4>2
      <4> QED
        BY <3>4, <4>3 DEF Found
    <3>6. IsFiniteSet(Found(f)) /\ IsFiniteSet(Found(g))
      BY <1>6, FS_Subset DEF Found
    <3>7. Cardinality(Found(f)) \in Nat /\ Cardinality(Found(g)) \in Nat
      BY <3>6, FS_CardinalityType
    <3>8. Cardinality(Found(f)) < Cardinality(Found(g))
      <4>1. Cardinality(Found(f)) <= Cardinality(Found(g))
        BY <2>1, <3>6, FS_Subset
      <4>2. Cardinality(Found(f)) # Cardinality(Found(g))
        BY <2>1, <3>4, <3>5, <3>6, FS_Subset
      <4> QED
        BY <3>7, <4>1, <4>2
    <3> QED
      BY <1>3, <1>6, <2>3, <3>7, <3>8
  <2> QED
    BY <2>2, <2>3
<1> QED
  BY <1>8, <1>9, <1>10, <1>11 DEF RoundGood, g

LEMMA RoundsGood ==
  ASSUME RoadsAssumption, SearchTypes, FromSource, \A e \in roads : Relaxed(e)
  PROVE  \A k \in Rounds : RoundGood(k)
<1> DEFINE Bad == {k \in Rounds : ~RoundGood(k)}
<1> SUFFICES ASSUME Bad # {} PROVE FALSE
  OBVIOUS
<1>1. Bad \subseteq Nat
  BY DEF Rounds
<1>2. PICK m \in Bad : \A j \in Bad : m <= j
  <2> HIDE DEF Bad
  <2> QED
    BY <1>1, LeastOf
<1>3. m # 0
  BY FirstRoundGood
<1>4. m \in Rounds /\ m - 1 \in Rounds /\ ~(m <= m - 1)
  BY <1>3, FS_CardinalityType DEF Rounds, RoadsAssumption
<1>5. RoundGood(m - 1)
  BY <1>2, <1>4
<1> QED
  BY <1>3, <1>4, <1>5, NextRoundGood

LEMMA EndsShortest ==
  ASSUME RoadsAssumption, SearchInvariant
  PROVE  PathsShortest
<1> SUFFICES ASSUME AllAt("done") PROVE lengths = ShortestPaths
  BY DEF PathsShortest
<1> DEFINE N == Cardinality(NodeIDs)
<1>1. N \in Nat /\ N \in Rounds
  BY FS_CardinalityType DEF RoadsAssumption, Rounds
<1>2. SearchTypes /\ FromSource /\ \A e \in roads : Relaxed(e)
  BY AllRelaxed DEF SearchInvariant
<1>3. RoundGood(N)
  BY <1>1, <1>2, RoundsGood
<1> DEFINE f == BellmanRounds[N]
<1>4. f \in [NodeIDs -> Nat] /\ (\A v \in NodeIDs : lengths[v] <= f[v])
      /\ (Found(f) = NodeIDs \/ Cardinality(Found(f)) > N)
  BY <1>3 DEF RoundGood
<1>5. Found(f) = NodeIDs
  <2>1. Found(f) \subseteq NodeIDs
    BY DEF Found
  <2>2. Cardinality(Found(f)) <= N /\ Cardinality(Found(f)) \in Nat
    BY <2>1, FS_Subset, FS_CardinalityType DEF RoadsAssumption
  <2> QED
    BY <1>1, <1>4, <2>2
<1>6. ASSUME NEW v \in NodeIDs PROVE f[v] = lengths[v]
  <2>1. f[v] <= lengths[v]
    BY <1>5 DEF Found
  <2>2. lengths[v] \in Nat /\ f[v] \in Nat /\ lengths[v] <= f[v]
    BY <1>2, <1>4 DEF SearchTypes, RoadsAssumption
  <2> QED
    BY <2>1, <2>2
<1>7. lengths \in [NodeIDs -> 0 .. INF]
  BY <1>2 DEF SearchTypes
<1> HIDE DEF f
<1>8. f = lengths
  BY <1>4, <1>6, <1>7
<1> QED
  BY <1>8 DEF f, ShortestPaths

\* PathsShortest: at the end of the search (`algorithm/SSSP.cpp`) every vertex has the
\* distance of a shortest path from the source, whatever the graph, the threads and delta.
THEOREM PathsAlwaysShortest ==
  ASSUME RoadsAssumption
  PROVE  SSSPSpec => []PathsShortest
<1>1. SearchInvariant => PathsShortest
  BY EndsShortest
<1> QED
  BY <1>1, SearchInvariantHolds, PTL
=============================================================================
