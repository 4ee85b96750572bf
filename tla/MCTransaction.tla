--------------------------- MODULE MCTransaction ----------------------------
(* Instances of Transaction for TLC.                                       *)
EXTENDS Transaction

Ins(u) == [op |-> "insertedge", v |-> u]
Del(u) == [op |-> "deletedge", v |-> u]
Put(u) == [op |-> "INSERT1", v |-> u]

Run(calls) == [calls |-> calls, write_only_ |-> TRUE, finish |-> "commit"]
RunRW(calls) == [calls |-> calls, write_only_ |-> FALSE, finish |-> "commit"]

\* A transaction without writes that ends with COMMIT; a single delete; vertices in
\* increasing order, some of them queued; in the other order; and one written twice.
Mixed == {[Run(<< >>) EXCEPT !.finish = "COMMIT"],
          RunRW(<<Del(2)>>),
          Run(<<[op |-> "INSERT", batch |-> <<1>>], Put(2), [op |-> "execute"]>>),
          Run(<<Ins(2), Ins(1)>>),
          RunRW(<<Ins(1), Del(1)>>)}

\* The example of the repository's README: insertedge and deletedge of one edge.
Example == {Run(<<Ins(1), Del(1)>>)}

\* A list for each thread, as the driver has it.
Lists == CHOOSE f \in [Threads -> 0 .. Cardinality(Threads) - 1] :
           \A t, u \in Threads : f[t] = f[u] => t = u
=============================================================================
