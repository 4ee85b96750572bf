--------------------------- MODULE MCVertexEdges ----------------------------
(***************************************************************************)
(* VertexEdges for TLC.  TMPNUM = 1 makes every insertion after a new edge *)
(* merge the insertion buffer; two slots for write buffers make epochs     *)
(* reuse them.  The configurations differ in the uses of the vertex.       *)
(***************************************************************************)
EXTENDS VertexEdges

\* Readers, and deletions of edges that exist; the timestamps follow the order of the writes.
Scans == [Dsts |-> {1, 2}, FirstWeight |-> 5, Built |-> {}, TMPNUM |-> 1,
          Workload |-> {"delete", "read"}, Pipelined |-> FALSE,
          MaxWrites |-> 4, MaxElsewhere |-> 0]

\* Transactions that draw their timestamps at other vertices, and write here in another order.
Crossed == [Scans EXCEPT !.Workload = {"delete"}, !.MaxElsewhere = 1]

\* A vertex that was built with an edge, deletions of deleted edges and insertions in
\* the epoch of the deletion, and no readers.
Churn == [Dsts |-> {1, 2, 3}, FirstWeight |-> 2, Built |-> {1}, TMPNUM |-> 2,
          Workload |-> {"delete", "redelete", "reinsert"}, Pipelined |-> FALSE,
          MaxWrites |-> 4, MaxElsewhere |-> 0]

\* Two epochs are written in at a time.
Rush == [Scans EXCEPT !.Workload = {"delete"}, !.Pipelined = TRUE]

AllUses == {Scans, Crossed, Churn, Rush}
OneEdge == {[Scans EXCEPT !.Dsts = {1}]}
Pipeline == {[Rush EXCEPT !.MaxWrites = 5]}
=============================================================================
