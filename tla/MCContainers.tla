---------------------------- MODULE MCContainers -----------------------------
(***************************************************************************)
(* Instances of the containers for TLC: the destination index of a vertex, *)
(* and the vertex table with the memory pool.  A behaviour exercises one   *)
(* of them, chosen in the initial state; the other rests in an initial     *)
(* state.                                                                  *)
(***************************************************************************)
EXTENDS GraphStore, HashTable2, TLC

CONSTANTS c1, c2, c3

VARIABLE mode

containerVars == <<tableVars, indexVars>>

\* Home slots that collide and sit at both ends of tables of 2, 4, 8 and 16 slots,
\* so that clusters wrap round the end.
CollidingKeys == {0, 1, 7, 8, 15, 16, 23, 31}

\* Two threads that never set threadid call new_vertex; a third calls GetVertexID.
SharedThreadid == c1 :> 0 @@ c2 :> 0 @@ c3 :> 1

\* tbb::concurrent_vector allocates segments whose sizes are powers of two.
Segments(size) == CHOOSE k \in {2 ^ i : i \in 0 .. 8} : size <= k /\ k < 2 * size

ContainersInit == mode \in {"index", "table"} /\ TableInit /\ IndexInit

ContainersNext ==
  /\ UNCHANGED mode
  /\ \/ mode = "table" /\ TableNext /\ UNCHANGED indexVars
     \/ mode = "index" /\ IndexNext /\ UNCHANGED tableVars

\* External ids are not told apart; in the other modes their table rests.
Symmetry == Permutations(External)
=============================================================================
