----------------------------- MODULE Transaction -----------------------------
(***************************************************************************)
(* Transactions over several vertices in the fine-grained build:           *)
(* data-structure/Transaction/Transaction.{h,cpp}, the entry points of     *)
(* GraphStore they call, the part of VertexEdges that decides whether a    *)
(* write is accepted, and VBData, which collects the write buffers that a  *)
(* publication transforms.                                                 *)
(*                                                                         *)
(* A write takes the vertex lock and keeps it until commit.  The           *)
(* transaction's place inside its epoch, the intra-epoch timestamp, is     *)
(* drawn at its first accepted write.  A read-only transaction scans one   *)
(* vertex after the other at the timestamp it was given.                   *)
(*                                                                         *)
(* Every vertex has one edge that the model follows.  How a vertex stores  *)
(* versions is VertexEdges.tla, how epochs are assigned EpochManager.tla:  *)
(* here an epoch is published when no writer is in it, in order.           *)
(***************************************************************************)
EXTENDS Integers, Sequences, FiniteSets, SequencesExt

CONSTANTS
  Threads, Vertices,
  NoThread,       \* holder of a free lock
  Programs,       \* what clients run: calls, write_only_, and how they finish
  ReadKinds,      \* timestamps read-only transactions use: "fine", "epoch"
  threadid,       \* per thread: its list in VBData::vb_vector
  WRITE_THREAD,   \* lists that a publication walks (64 in the code)
  MAXSIMULBATCH,  \* epochs in flight (16 in the code)
  MaxEpoch,       \* bound: the last epoch that is opened
  MaxTxns         \* bound: transactions in a run

Call == [op : {"insertedge", "deletedge", "INSERT1"}, v : Vertices]
          \cup [op : {"INSERT"}, batch : Seq(Vertices) \ {<< >>}]
          \cup [op : {"execute"}]

ASSUME TransactionAssumption ==
  /\ IsFiniteSet(Threads) /\ IsFiniteSet(Vertices)
  /\ Vertices \subseteq Nat
  /\ NoThread \notin Threads
  /\ \A p \in Programs : /\ p.calls \in Seq(Call) /\ p.write_only_ \in BOOLEAN
                          /\ p.finish \in {"commit", "COMMIT"}
  /\ ReadKinds \subseteq {"fine", "epoch"}
  /\ threadid \in [Threads -> Nat]
  /\ WRITE_THREAD \in Nat /\ MAXSIMULBATCH \in Nat \ {0}
  /\ MaxEpoch \in Nat \ {0} /\ MaxTxns \in Nat

VARIABLES
  txn,            \* per thread: its Transaction
  spin_rw_lock,   \* per vertex: the writer that holds it
  item,           \* per vertex: the edge in the primary adjacency
  tmp_vb,         \* per vertex and slot: the write buffer
  intra_counter_, \* per epoch: VBData::intra_counter_
  vb_vector,      \* per epoch: VBData::vb_vector, as pairs <<list, vertex>>
  cur_, read_epoch_,
  pending,        \* vertices the publication in progress has still to transform
  publishing,     \* is a publication in progress
  reader,         \* read-only transactions
  log,            \* history, per vertex: accepted writes in the order of acceptance
  begun           \* number of transactions begun

epochVars == <<intra_counter_, vb_vector, cur_, read_epoch_, pending, publishing>>
storeVars == <<spin_rw_lock, item, tmp_vb, log>>
vars == <<txn, storeVars, epochVars, reader, begun>>

Epochs == 1 .. MaxEpoch
Slots == 0 .. MAXSIMULBATCH - 1
Slot(e) == e % MAXSIMULBATCH

\* Composite timestamps, <<epoch, intra>>; INTRA_MAX is above all that are drawn.
INTRA_MAX == MaxTxns + 1
Before(s, t) == s[1] < t[1] \/ (s[1] = t[1] /\ s[2] < t[2])

NoTxn == [state |-> "none", id |-> 0, epoch_ |-> 0, read_epoch_ |-> 0, write_only_ |-> TRUE,
          intra_c_ |-> 0, finish |-> "commit", todo |-> << >>, queued |-> << >>, EB_vec_ |-> << >>,
          tried |-> << >>]

Init ==
  /\ txn = [t \in Threads |-> NoTxn]
  /\ spin_rw_lock = [v \in Vertices |-> NoThread]
  /\ item = [v \in Vertices |-> [known |-> FALSE, del |-> FALSE, block |-> 0,
                                 tmp |-> FALSE, pblock |-> 0]]
  /\ tmp_vb = [v \in Vertices |-> [s \in Slots |-> [timestamp_ |-> 0, entries |-> << >>]]]
  /\ intra_counter_ = [e \in Epochs |-> 0]
  /\ vb_vector = [e \in Epochs |-> {}]
  /\ cur_ = 1
  /\ read_epoch_ = 0
  /\ pending = {}
  /\ publishing = FALSE
  /\ reader = {}
  /\ log = [v \in Vertices |-> << >>]
  /\ begun = 0

-----------------------------------------------------------------------------
(* A transaction's life: registerTransaction, its calls, commit,           *)
(* deregisterTransaction.                                                  *)

Open(t) == txn[t].state = "open"
NextCall(t) == Head(txn[t].todo)
Calling(t, op) == Open(t) /\ txn[t].todo # << >> /\ NextCall(t).op = op

registerTransaction(t) ==
  /\ txn[t].state = "none"
  /\ begun < MaxTxns
  /\ \E p \in Programs :
       txn' = [txn EXCEPT ![t] = [NoTxn EXCEPT !.state = "registered", !.id = begun + 1,
                 !.epoch_ = cur_, !.write_only_ = p.write_only_, !.todo = p.calls,
                 !.finish = p.finish]]
  /\ begun' = begun + 1
  /\ UNCHANGED <<storeVars, epochVars, reader>>

\* Mutant: the intra-epoch timestamp is drawn at registration.
set_read_epochDraw(t) ==
  /\ txn[t].state = "registered"
  /\ intra_counter_' = [intra_counter_ EXCEPT ![txn[t].epoch_] = @ + 1]
  /\ txn' = [txn EXCEPT ![t].state = "open", ![t].read_epoch_ = read_epoch_,
                        ![t].intra_c_ = intra_counter_'[txn[t].epoch_]]
  /\ UNCHANGED <<storeVars, vb_vector, cur_, read_epoch_, pending, publishing, reader, begun>>

\* The read epoch is taken last, and may be later than the registration.
set_read_epoch(t) ==
  /\ txn[t].state = "registered"
  /\ txn' = [txn EXCEPT ![t].state = "open", ![t].read_epoch_ = read_epoch_]
  /\ UNCHANGED <<storeVars, epochVars, reader, begun>>

\* INSERT of one edge queues it.
INSERT1(t) ==
  /\ Calling(t, "INSERT1")
  /\ txn' = [txn EXCEPT ![t].queued = Append(@, NextCall(t).v), ![t].todo = Tail(@)]
  /\ UNCHANGED <<storeVars, epochVars, reader, begun>>

\* INSERT of a vector: its first edge becomes one_edge_ if nothing is queued, and
\* is skipped otherwise.
INSERT(t) ==
  /\ Calling(t, "INSERT")
  /\ LET batch == NextCall(t).batch IN
     txn' = [txn EXCEPT ![t].queued = @ \o (IF @ = << >> THEN batch ELSE Tail(batch)),
                        ![t].todo = Tail(@)]
  /\ UNCHANGED <<storeVars, epochVars, reader, begun>>

\* The queued edges are inserted in their order.
execute(t) ==
  /\ Calling(t, "execute")
  /\ LET q == txn[t].queued
         inserts == [i \in DOMAIN q |-> [op |-> "insertedge", v |-> q[i]]]
     IN  txn' = [txn EXCEPT ![t].todo = inserts \o Tail(@)]
  /\ UNCHANGED <<storeVars, epochVars, reader, begun>>

-----------------------------------------------------------------------------
(* Writes: GraphStore and VertexEdges insert_edge_block, delete_edge_block.*)
(* The lock is held from the start of the handler, so that the handler is  *)
(* one step; an accepted write leaves it to the transaction.               *)

Claims(t, v) == tmp_vb[v][Slot(txn[t].epoch_)].timestamp_ # txn[t].epoch_

\* The write buffer of t's epoch, and its registration with VBData, even if the
\* write is refused afterwards.
ClaimedTvb(t, v) ==
  IF Claims(t, v) THEN [tmp_vb[v] EXCEPT ![Slot(txn[t].epoch_)] =
                          [timestamp_ |-> txn[t].epoch_, entries |-> << >>]]
  ELSE tmp_vb[v]

\* Another thread on the same list, inside a write that registers a buffer too.
Racing(t, v) ==
  \E u \in Threads \ {t} :
    /\ threadid[u] = threadid[t] /\ txn[u].epoch_ = txn[t].epoch_
    /\ \/ Calling(u, "insertedge")
       \/ Calling(u, "deletedge") /\ item[NextCall(u).v].known
    /\ NextCall(u).v # v /\ spin_rw_lock[NextCall(u).v] = NoThread
    /\ Claims(u, NextCall(u).v)

\* The lists that std::vector::push_back can leave: nothing orders two threads that
\* share one, and of two elements pushed at the same time one may be lost.
VB_pushback(t, v) ==
  LET pushed == [vb_vector EXCEPT ![txn[t].epoch_] = @ \cup {<<threadid[t], v>>}]
  IN  IF ~Claims(t, v) THEN {vb_vector}
      ELSE {pushed} \cup (IF Racing(t, v) THEN {vb_vector} ELSE {})

\* The conflict check on the epoch of the version that would be overwritten.
Conflicts(x, last_epoch) ==
  \/ ~x.write_only_ /\ x.read_epoch_ < last_epoch
  \/ last_epoch > x.epoch_

\* get_intra_c: drawn once, from the counter of the epoch.
Drawn(x) == IF x.intra_c_ = 0 THEN intra_counter_[x.epoch_] + 1 ELSE x.intra_c_
get_intra_c(x) ==
  IF x.intra_c_ = 0 THEN [intra_counter_ EXCEPT ![x.epoch_] = @ + 1] ELSE intra_counter_

\* The call is over; its result is dropped by the void insertedge and deletedge.
Returned(x, v) == [x EXCEPT !.todo = Tail(@), !.tried = Append(@, v)]

\* Mutant: a refused write keeps the lock.
RefuseLocked(t, v, old) ==
  /\ item' = [item EXCEPT ![v] = old]
  /\ txn' = [txn EXCEPT ![t] = Returned(@, v)]
  /\ spin_rw_lock' = [spin_rw_lock EXCEPT ![v] = t]
  /\ UNCHANGED <<intra_counter_, log>>

Refuse(t, v, old) ==
  /\ item' = [item EXCEPT ![v] = old]
  /\ txn' = [txn EXCEPT ![t] = Returned(@, v)]
  /\ UNCHANGED <<spin_rw_lock, intra_counter_, log>>

\* InsertVersion, ChangeNextIndex, the stamp of the item, AddEB.
Accept(t, v, old, del, last_epoch) ==
  LET x == txn[t]
      e == x.epoch_
      entry == [first |-> last_epoch = 0 /\ ~del, next |-> FALSE]
      added == [ClaimedTvb(t, v) EXCEPT ![Slot(e)].entries = Append(@, entry)]
      pred == Slot(last_epoch)
      links == old.tmp /\ last_epoch # 0 /\ old.pblock \in DOMAIN added[pred].entries
  IN
  /\ tmp_vb' = [tmp_vb EXCEPT ![v] =
       IF links THEN [added EXCEPT ![pred].entries[old.pblock].next = TRUE] ELSE added]
  /\ item' = [item EXCEPT ![v] =
       [known |-> TRUE, del |-> del, block |-> e, tmp |-> TRUE,
        pblock |-> IF del THEN 1 ELSE Len(added[Slot(e)].entries)]]
  /\ intra_counter_' = get_intra_c(x)
  /\ spin_rw_lock' = [spin_rw_lock EXCEPT ![v] = t]
  /\ txn' = [txn EXCEPT ![t] = [Returned(x, v) EXCEPT !.intra_c_ = Drawn(x),
                                                     !.EB_vec_ = Append(@, v)]]
  /\ log' = [log EXCEPT ![v] = Append(@, [id |-> x.id, ts |-> <<e, Drawn(x)>>,
                                             first |-> x.EB_vec_ = << >>])]

\* A re-insert after a delete has no predecessor.
insertedge(t) ==
  /\ Calling(t, "insertedge")
  /\ LET v == NextCall(t).v
         old == [item[v] EXCEPT !.known = TRUE, !.del = FALSE]
         last_epoch == IF item[v].del THEN 0 ELSE item[v].block
     IN
     /\ spin_rw_lock[v] = NoThread
     /\ vb_vector' \in VB_pushback(t, v)
     /\ \/ /\ Conflicts(txn[t], last_epoch)
           /\ Refuse(t, v, old)
           /\ tmp_vb' = [tmp_vb EXCEPT ![v] = ClaimedTvb(t, v)]
        \/ /\ ~Conflicts(txn[t], last_epoch)
           /\ Accept(t, v, old, FALSE, last_epoch)
  /\ UNCHANGED <<cur_, read_epoch_, pending, publishing, reader, begun>>

\* An unknown edge is not deleted.
deletedge(t) ==
  /\ Calling(t, "deletedge")
  /\ LET v == NextCall(t).v
         last_epoch == item[v].block
     IN
     /\ spin_rw_lock[v] = NoThread
     /\ \/ /\ ~item[v].known
           /\ Refuse(t, v, item[v])
           /\ UNCHANGED <<tmp_vb, vb_vector>>
        \/ /\ item[v].known
           /\ vb_vector' \in VB_pushback(t, v)
           /\ \/ /\ Conflicts(txn[t], last_epoch)
                 /\ Refuse(t, v, item[v])
                 /\ tmp_vb' = [tmp_vb EXCEPT ![v] = ClaimedTvb(t, v)]
              \/ /\ ~Conflicts(txn[t], last_epoch)
                 /\ Accept(t, v, item[v], TRUE, last_epoch)
  /\ UNCHANGED <<cur_, read_epoch_, pending, publishing, reader, begun>>

-----------------------------------------------------------------------------
(* The end of a transaction.                                               *)

\* commit draws a timestamp if no write did, then releases the locks one by one.
commit(t) ==
  /\ Open(t) /\ txn[t].finish = "commit" /\ txn[t].todo = << >>
  /\ intra_counter_' = get_intra_c(txn[t])
  /\ txn' = [txn EXCEPT ![t].state = "committing", ![t].intra_c_ = Drawn(txn[t])]
  /\ UNCHANGED <<storeVars, vb_vector, cur_, read_epoch_, pending, publishing, reader, begun>>

\* Mutant: the last lock is forgotten.
unleashAllButOne(t) ==
  /\ txn[t].state = "committing"
  /\ Len(txn[t].EB_vec_) > 1
  /\ spin_rw_lock' = [spin_rw_lock EXCEPT ![Head(txn[t].EB_vec_)] = NoThread]
  /\ txn' = [txn EXCEPT ![t].EB_vec_ = Tail(@)]
  /\ UNCHANGED <<item, tmp_vb, log, epochVars, reader, begun>>

unleashReadLock(t) ==
  /\ txn[t].state = "committing"
  /\ txn[t].EB_vec_ # << >>
  /\ spin_rw_lock' = [spin_rw_lock EXCEPT ![Head(txn[t].EB_vec_)] = NoThread]
  /\ txn' = [txn EXCEPT ![t].EB_vec_ = Tail(@)]
  /\ UNCHANGED <<item, tmp_vb, log, epochVars, reader, begun>>

\* COMMIT has an empty body.
COMMIT(t) ==
  /\ Open(t) /\ txn[t].finish = "COMMIT" /\ txn[t].todo = << >>
  /\ txn' = [txn EXCEPT ![t].state = "committing", ![t].EB_vec_ = << >>]
  /\ UNCHANGED <<storeVars, epochVars, reader, begun>>

deregisterTransaction(t) ==
  /\ txn[t].state = "committing"
  /\ txn[t].EB_vec_ = << >>
  /\ txn' = [txn EXCEPT ![t] = NoTxn]
  /\ UNCHANGED <<storeVars, epochVars, reader, begun>>

-----------------------------------------------------------------------------
(* Epochs.  A publication transforms every write buffer in the lists that  *)
(* it walks; each Transform takes the lock of its vertex.                  *)

OpenEpoch ==
  /\ cur_ < MaxEpoch
  /\ cur_ - read_epoch_ < MAXSIMULBATCH
  /\ cur_' = cur_ + 1
  /\ UNCHANGED <<txn, storeVars, intra_counter_, vb_vector, read_epoch_, pending,
                 publishing, reader, begun>>

ListsWalked == 0 .. WRITE_THREAD - 1

NoWriterIn(e) == \A t \in Threads : txn[t].state # "none" => txn[t].epoch_ > e

\* Mutant: the publication does not wait for the writers.
BeginCommitEarly ==
  LET e == read_epoch_ + 1 IN
  /\ ~publishing
  /\ e < cur_
  /\ publishing' = TRUE
  /\ pending' = {v \in Vertices : \E wt \in ListsWalked : <<wt, v>> \in vb_vector[e]}
  /\ UNCHANGED <<txn, storeVars, intra_counter_, vb_vector, cur_, read_epoch_, reader, begun>>

BeginCommit ==
  LET e == read_epoch_ + 1 IN
  /\ ~publishing
  /\ e < cur_
  /\ NoWriterIn(e)
  /\ publishing' = TRUE
  /\ pending' = {v \in Vertices : \E wt \in ListsWalked : <<wt, v>> \in vb_vector[e]}
  /\ UNCHANGED <<txn, storeVars, intra_counter_, vb_vector, cur_, read_epoch_, reader, begun>>

\* A version without predecessor is stamped only if nothing has overwritten it, any
\* other one always.
Stamps(entries) == \E i \in DOMAIN entries : ~(entries[i].first /\ entries[i].next)

Transform(v) ==
  LET e == read_epoch_ + 1 IN
  /\ v \in pending
  /\ spin_rw_lock[v] = NoThread
  /\ item' = IF Stamps(tmp_vb[v][Slot(e)].entries)
             THEN [item EXCEPT ![v].block = e, ![v].tmp = FALSE] ELSE item
  /\ tmp_vb' = [tmp_vb EXCEPT ![v][Slot(e)].entries = << >>]
  /\ pending' = pending \ {v}
  /\ UNCHANGED <<txn, spin_rw_lock, log, intra_counter_, vb_vector, cur_, read_epoch_,
                 publishing, reader, begun>>

Publish ==
  /\ publishing /\ pending = {}
  /\ read_epoch_' = read_epoch_ + 1
  /\ publishing' = FALSE
  /\ UNCHANGED <<txn, storeVars, intra_counter_, vb_vector, cur_, pending, reader, begun>>

-----------------------------------------------------------------------------
(* Read-only transactions, one at a time.                                  *)

\* The timestamp: the counter of the first unpublished epoch, or the last published
\* epoch as a whole.
ReadTs(kind) ==
  IF kind = "fine" /\ read_epoch_ < cur_
  THEN <<read_epoch_ + 1, intra_counter_[read_epoch_ + 1]>>
  ELSE <<read_epoch_, INTRA_MAX>>

registerROTransaction ==
  /\ reader = {}
  /\ begun < MaxTxns
  /\ \E k \in ReadKinds : reader' = {[kind |-> k, ts |-> ReadTs(k), seen |-> << >>]}
  /\ begun' = begun + 1
  /\ UNCHANGED <<txn, storeVars, epochVars>>

\* History: the transactions of which a write to v, at a timestamp before q, has been
\* accepted.  What a scan makes of the versions it finds is the matter of VertexEdges.
Accepted(v, q) == {l.id : l \in {l \in Range(log[v]) : Before(l.ts, q)}}

\* A scan takes the read lock of the vertex.
Scan(v) ==
  /\ \E r \in reader :
       /\ v \notin DOMAIN r.seen
       /\ spin_rw_lock[v] = NoThread
       /\ reader' = {[r EXCEPT !.seen = [u \in DOMAIN r.seen \cup {v} |->
                        IF u = v THEN Accepted(v, r.ts) ELSE r.seen[u]]]}
  /\ UNCHANGED <<txn, storeVars, epochVars, begun>>

deregisterROTransaction ==
  /\ \E r \in reader : DOMAIN r.seen = Vertices
  /\ reader' = {}
  /\ UNCHANGED <<txn, storeVars, epochVars, begun>>

-----------------------------------------------------------------------------
Step(t) ==
  \/ set_read_epoch(t) \/ INSERT1(t) \/ INSERT(t) \/ execute(t)
  \/ insertedge(t) \/ deletedge(t)
  \/ commit(t) \/ COMMIT(t) \/ unleashReadLock(t) \/ deregisterTransaction(t)

Publisher == BeginCommit \/ Publish \/ \E v \in Vertices : Transform(v)

Reader == deregisterROTransaction \/ \E v \in Vertices : Scan(v)

Next ==
  \/ \E t \in Threads : registerTransaction(t) \/ Step(t)
  \/ OpenEpoch \/ Publisher
  \/ registerROTransaction \/ Reader

Spec == Init /\ [][Next]_vars

\* Threads inside a transaction, the publisher and the reader keep running.
FairSpec ==
  /\ Spec
  /\ \A t \in Threads : WF_vars(Step(t))
  /\ WF_vars(Publisher) /\ WF_vars(Reader)

-----------------------------------------------------------------------------
(* Properties.                                                             *)

\* A vertex lock is held exactly by the transaction whose EB_vec_ names the vertex,
\* and is named there once: commit releases what was locked, and nothing else.
LocksOwned ==
  \A t \in Threads :
    /\ \A v \in Vertices : spin_rw_lock[v] = t <=> v \in Range(txn[t].EB_vec_)
    /\ \A i, j \in DOMAIN txn[t].EB_vec_ : txn[t].EB_vec_[i] = txn[t].EB_vec_[j] => i = j

Waiting(t) ==
  /\ Calling(t, "insertedge") \/ Calling(t, "deletedge")
  /\ spin_rw_lock[NextCall(t).v] # NoThread

\* Each of S waits for one of S.
Circle(S) == S # {} /\ \A t \in S : Waiting(t) /\ spin_rw_lock[NextCall(t).v] \in S

\* Transactions never wait for each other in a circle, nor one for itself.
NoWaitCycle == ~\E S \in SUBSET Threads : Circle(S)

\* The write that t is about asks for a vertex above all that its transaction has
\* written before.
AsksInOrder(t) == \A u \in Range(txn[t].tried) : u < NextCall(t).v

\* Whoever waits in a circle, one of them has asked for its vertices out of order: the
\* lock kept until commit makes no other deadlock, whatever the programs are, and no
\* lock of an earlier transaction takes part in one.
CirclesDisordered ==
  \A S \in SUBSET Threads : Circle(S) => \E t \in S : ~AsksInOrder(t)

\* A reader for which a transaction's write was there when it scanned one vertex finds
\* it so at every vertex.
SeesWhole(r) ==
  \A u, w \in DOMAIN r.seen : \A l \in Range(log[w]) : l.id \in r.seen[u] => l.id \in r.seen[w]

\* Snapshot isolation of the fine-grained read timestamps.
SnapshotAtomic == \A r \in reader : SeesWhole(r)

\* A published epoch is settled: no write that a read at get_read_epoch covers is
\* accepted after the scan of its vertex, so that whatever the scan makes of the
\* versions, those of the snapshot are all there.
EpochSnapshotSettled ==
  \A r \in reader : r.kind = "epoch" =>
    \A v \in DOMAIN r.seen : Accepted(v, r.ts) \subseteq r.seen[v]

\* A fine-grained read timestamp settles first writes only: the first write of a
\* transaction that the timestamp covers was accepted before the scan of its vertex,
\* because it draws under the lock of the vertex and the scan waits for that lock.
FirstWriteSettled ==
  \A r \in reader : \A v \in DOMAIN r.seen : \A l \in Range(log[v]) :
    l.first /\ Before(l.ts, r.ts) => l.id \in r.seen[v]

\* The versions of an edge are accepted in the order of their timestamps.
VersionsInOrder ==
  \A v \in Vertices : \A i, j \in DOMAIN log[v] :
    i < j => ~Before(log[v][j].ts, log[v][i].ts)

Idle == reader = {} /\ ~publishing /\ \A t \in Threads : txn[t].state = "none"

Free == \A v \in Vertices : spin_rw_lock[v] = NoThread

\* A finite workload runs to its end, unless some of its transactions wait in a circle
\* for ever: nothing else, no refused write, publication or read, leaves a lock behind
\* or makes a transaction wait without end.
Completes == []<>(Idle /\ Free) \/ <>[](\E S \in SUBSET Threads : Circle(S))
=============================================================================
