---------------------------- MODULE MCComponents -----------------------------
(***************************************************************************)
(* Instances of the containers and of the graph algorithms for TLC.  A     *)
(* behaviour runs one of them, chosen in the initial state.  The others    *)
(* rest in an initial state; the variables of the analyses are NA when not *)
(* in use.                                                                 *)
(***************************************************************************)
EXTENDS MCContainers, WCC, BFS, SSSP

CONSTANT NA

VARIABLES
  network, degree, passed, stage, pending, altered, round, triangles, labels, scores

SCALE == 9216
max_iterations == 4
num_iterations == 2

\* Directed snapshots for the components: a zigzag, a cycle with a tail, two parts.
Directed == {{<<3, 0>>, <<3, 2>>, <<1, 2>>}, {<<1, 3>>, <<3, 2>>, <<2, 1>>, <<0, 2>>},
             {<<2, 0>>, <<1, 3>>}}

\* All symmetric snapshots.
Pairs == {p \in Vertices \X Vertices : p[1] < p[2]}
Symmetric == {E \cup {<<p[2], p[1]>> : p \in E} : E \in SUBSET Pairs}

\* Weighted snapshots with detours: every edge is absent, short or long.
Roads == {<<0, 1>>, <<0, 2>>, <<1, 2>>, <<2, 1>>, <<1, 3>>, <<2, 3>>}
Weighted == {{<<p[1], p[2], f[p]>> : p \in {q \in Roads : f[q] # 0}} : f \in [Roads -> {0, 1, 3}]}

\* <<alpha, beta, edges elsewhere>>: both directions and every change between them.
Directions == {<<1, 1, 0>>, <<1, 5, 6>>, <<3, 5, 3>>, <<15, 18, 0>>}

\* Vertices with updated edges, and ends of deleted edges still in their blocks: none;
\* vertex 0 updated; two vertices with an edge to 3 marked; all with one to 0 marked.
Pasts == {<<{}, {}>>, <<{0}, {}>>, <<{1, 2}, {3}>>, <<{0, 1, 2, 3}, {0}>>}

\* External ids that do not follow the order of the internal ones.
ExternalIds == [v \in Vertices |-> ((2 * v + 1) % 5) + 10]

A == INSTANCE Analytics WITH
       Graphs <- Symmetric, Histories <- Pasts, p_mHashMap <- ExternalIds, edges <- network,
       phase <- stage, work <- pending, changed <- altered, iter <- round

analyticsVars == <<network, degree, passed, stage, pending, altered, round, triangles, labels, scores>>

NoWCC == Init /\ edges = {<<2, 0>>, <<1, 3>>}
NoBFS == BFSInit /\ snapshot = {} /\ alpha = 3
NoSSSP == SSSPInit /\ roads = {} /\ delta = 1
NoAnalytics ==
  /\ network = NA /\ degree = NA /\ passed = NA /\ stage = NA /\ pending = NA /\ altered = NA
  /\ round = NA /\ triangles = NA /\ labels = NA /\ scores = NA
NoContainers == TableInit /\ IndexInit

MCInit ==
  \/ ContainersInit /\ NoWCC /\ NoBFS /\ NoSSSP /\ NoAnalytics
  \/ mode = "wcc" /\ Init /\ NoBFS /\ NoSSSP /\ NoAnalytics /\ NoContainers
  \/ mode = "bfs" /\ BFSInit /\ NoWCC /\ NoSSSP /\ NoAnalytics /\ NoContainers
  \/ mode = "sssp" /\ SSSPInit /\ roads # {} /\ NoWCC /\ NoBFS /\ NoAnalytics /\ NoContainers
  \/ mode = "analytics" /\ A!Init /\ NoWCC /\ NoBFS /\ NoSSSP /\ NoContainers

MCNext ==
  \/ ContainersNext /\ UNCHANGED <<vars, bfsVars, ssspVars, analyticsVars>>
  \/ /\ UNCHANGED <<mode, containerVars>>
     /\ \/ mode = "wcc" /\ Next /\ UNCHANGED <<bfsVars, ssspVars, analyticsVars>>
        \/ mode = "bfs" /\ BFSNext /\ UNCHANGED <<vars, ssspVars, analyticsVars>>
        \/ mode = "sssp" /\ SSSPNext /\ UNCHANGED <<vars, bfsVars, analyticsVars>>
        \/ mode = "analytics" /\ A!Next /\ UNCHANGED <<vars, bfsVars, ssspVars>>

-----------------------------------------------------------------------------
(* The properties of the analyses, while they run.                         *)

\* LCC: each triangle is counted once (LCC.cpp).
LCCTrianglesExact == mode = "analytics" => A!TrianglesExact

\* CDLP: the labels are those of the elections (CDLP.cpp).
CDLPLabelsElected == mode = "analytics" => A!LabelsElected

\* PageRank: no iteration creates score (PageRank.cpp).
PageRankMassNeverCreated == mode = "analytics" => A!MassNeverCreated
=============================================================================
