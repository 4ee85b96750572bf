---------------------------- MODULE VertexEdges -----------------------------
(***************************************************************************)
(* The adjacency of one vertex in the fine-grained build:                  *)
(* data-structure/EdgeBlock/VertexEdges.{h,cpp} with the version blocks it *)
(* drives (TmpVersionBlock, VersionBlock, VersionBlockManager, VBIterator).*)
(*                                                                         *)
(* Writers insert and delete edges under the vertex lock; each write       *)
(* updates the primary adjacency at once and appends to the write buffer   *)
(* (TmpVersionBlock, TVB) of its epoch.  When an epoch is published,       *)
(* Transform turns its buffer into a VersionBlock (VB) that keeps what the *)
(* epoch overwrote.  A scan assembles a snapshot from all three.           *)
(*                                                                         *)
(* The epochs are those of EpochManager: a writer is in an unpublished     *)
(* epoch, epochs are transformed and published in order, none while a      *)
(* writer is in it, and the GC watermark stays at or below what is         *)
(* published and at or below what a registered reader pins.                *)
(***************************************************************************)
EXTENDS Integers, Sequences, FiniteSets, SequencesExt

CONSTANTS
  Uses,           \* what a vertex is built with and used for, see use
  MAXSIMULBATCH,  \* number of TVBs (16 in the code)
  MaxEpoch        \* bound: the last epoch that is opened

ASSUME VertexAssumption ==
  /\ \A u \in Uses :
       /\ IsFiniteSet(u.Dsts) /\ u.Dsts \subseteq Nat /\ u.Built \subseteq u.Dsts
       /\ u.FirstWeight \in Nat /\ u.TMPNUM \in Nat \ {0}
       /\ u.Workload \subseteq {"read", "delete", "redelete", "reinsert"}
       /\ u.Pipelined \in BOOLEAN
       /\ u.MaxWrites \in Nat /\ u.MaxElsewhere \in Nat
  /\ MAXSIMULBATCH \in Nat \ {0}
  /\ MaxEpoch \in Nat \ {0}

VARIABLES
  eb,               \* start, tmp_item, M, num, capacity, merge_times
  tmp_vb,           \* the TVB of each slot: timestamp_ and entries
  active_tvb_mask_, \* slots of the TVBs that scans look at
  vbs,              \* the chain of VersionBlocks, newest last
  edge_num_,        \* degree after the newest VersionBlock
  intra_counter_,   \* per epoch: intra-epoch timestamps drawn, when last looked at from here
  cur_, read_epoch_, g_oldest_epoch,
  stage,            \* how far Transform of epoch read_epoch_ + 1 has got
  mask_reg,         \* MarkTvbInactive: the value it has loaded
  reader,           \* read timestamps that are registered
  use,              \* which of Uses the run is about; it never changes
  log,              \* history: the writes that succeeded
  ub                \* history: undefined behaviour that has happened

epochVars == <<cur_, read_epoch_, g_oldest_epoch>>
vbVars    == <<vbs, edge_num_>>
vars == <<eb, tmp_vb, active_tvb_mask_, vbVars, intra_counter_, epochVars, stage,
          mask_reg, reader, use, log, ub>>

Dsts        == use.Dsts         \* destination vertices
Built       == use.Built        \* destinations the vertex is built with
FirstWeight == use.FirstWeight  \* weight of the built edges, see WriteWeight
TMPNUM      == use.TMPNUM       \* size of the insertion buffer tmp_item (64 in the code)
Workload    == use.Workload     \* what clients do besides inserting, see MayInsert, MayDelete
Pipelined   == use.Pipelined    \* may an epoch be written in before the one before is published
MaxWrites   == use.MaxWrites    \* bound: writes in a run
\* Bound: timestamps drawn by transactions that have not written here.
MaxElsewhere == use.MaxElsewhere

Epochs == 1 .. MaxEpoch
Slot(e) == e % MAXSIMULBATCH
Slots == 0 .. MAXSIMULBATCH - 1

\* Composite timestamps, <<epoch, intra>>
Before(s, t) == s[1] < t[1] \/ (s[1] = t[1] /\ s[2] < t[2])
AtMost(s, t) == Before(s, t) \/ s = t

Pending == {s \in Slots : tmp_vb[s].entries # << >>}
\* The write to edge d with the latest timestamp before q, if any.
Latest(d, q) == {l \in log : /\ l.e = d /\ Before(l.ts, q)
                             /\ \A m \in log : m.e = d /\ Before(m.ts, q) => AtMost(m.ts, l.ts)}

\* The write to edge d in the epochs up to e that was made last, if any.
LastWrite(d, e) == {l \in log : /\ l.e = d /\ l.ts[1] <= e
                           /\ \A m \in log : m.e = d /\ m.ts[1] <= e => m.at <= l.at}

Writes == Cardinality({l \in log : l.at # 0})

\* The intra-epoch timestamps of transactions that have not written here.
Elsewhere(e) == {i \in 1 .. intra_counter_[e] : \A l \in log : l.ts # <<e, i>>}

-----------------------------------------------------------------------------
(* Construction: build, with the built edges at timestamp 0.  An item is   *)
(* the two halves of an EdgeWithIndex pair: e with its DELETION_MASK bit   *)
(* del, block with its TMPVB_MASK bit tmp, index, and of the property half *)
(* the weight w and block.  TVB indices count from 1.                      *)

Item(d, w) == [e |-> d, del |-> FALSE, block |-> 0, tmp |-> FALSE, index |-> 0,
               w |-> w, pblock |-> 1]

SortByDst(items) ==
  CHOOSE s \in [1 .. Cardinality(items) -> items] :
    /\ \A i, j \in DOMAIN s : i < j => s[i].e <= s[j].e
    /\ Range(s) = items

Init ==
  /\ use \in Uses
  /\ eb = [start |-> SortByDst({Item(d, FirstWeight) : d \in Built}),
           tmp_item |-> << >>, M |-> Built, num |-> Cardinality(Built),
           capacity |-> Cardinality(Built), merge_times |-> 0]
  /\ log = {[at |-> 0, ts |-> <<0, 0>>, e |-> d, del |-> FALSE, w |-> FirstWeight] : d \in Built}
  /\ tmp_vb = [s \in Slots |-> [timestamp_ |-> 0, entries |-> << >>]]
  /\ active_tvb_mask_ = {}
  /\ vbs = << >>
  /\ edge_num_ = 0
  /\ intra_counter_ = [e \in Epochs |-> 0]
  /\ cur_ = 1
  /\ read_epoch_ = 0
  /\ g_oldest_epoch = 0
  /\ stage = "idle"
  /\ mask_reg = {}
  /\ reader = {}
  /\ ub = {}

-----------------------------------------------------------------------------
(* Merging the insertion buffer into the sorted array.                     *)

\* The capacity after each turn of the doubling.
Doubled(capacity, n) ==
  LET doubled[k \in 0 .. n] == IF k = 0 THEN capacity ELSE 2 * doubled[k - 1]
  IN  doubled

\* Mutant: the capacity is doubled once.
GrownOnce(capacity, num) ==
  CASE num <= capacity -> capacity
    [] capacity = 0 -> num
    [] OTHER -> capacity * 2

\* while (capacity < num) capacity <<= 1
Grown(capacity, num) ==
  CASE num <= capacity -> capacity
    [] capacity = 0 -> num
    [] OTHER -> Min({Doubled(capacity, num)[k] : k \in 0 .. num} \ 0 .. num - 1)

\* A pending block carries TMPVB_MASK, which is larger than any epoch.
Droppable(item) == item.del /\ ~item.tmp /\ item.block < g_oldest_epoch

\* Mutant: the merge is not counted.
merge_uncounted(b) ==
  [b EXCEPT !.start = SortByDst(Range(b.start) \cup Range(b.tmp_item)),
            !.tmp_item = << >>,
            !.capacity = Grown(b.capacity, b.num)]

\* The result is sorted by destination; dropped edges leave M and num.
merge_tmpev_with_eb(b) ==
  LET dropped == {item \in Range(b.start) : Droppable(item)} IN
  [b EXCEPT !.start = SortByDst((Range(b.start) \ dropped) \cup Range(b.tmp_item)),
            !.tmp_item = << >>,
            !.M = @ \ {item.e : item \in dropped},
            !.num = @ - Cardinality(dropped),
            !.capacity = Grown(@, b.num),
            !.merge_times = @ + 1]

MergedIfFull(b) == IF Len(b.tmp_item) = TMPNUM THEN merge_tmpev_with_eb(b) ELSE b

\* Where an edge is: in start or in tmp_item.
At(b, array, d) == {<<array, i>> : i \in {i \in DOMAIN b[array] : b[array][i].e = d}}
ItemAt(b, loc) == b[loc[1]][loc[2]]
Put(b, loc, item) == [b EXCEPT ![loc[1]][loc[2]] = item]

\* The binary search in start, then the scan of tmp_item.
get_edge_index(b, d) ==
  CHOOSE loc \in IF At(b, "start", d) # {} THEN At(b, "start", d)
                                           ELSE At(b, "tmp_item", d) : TRUE

\* The binary search includes start[edges_and_versions].  It gets there when d is
\* larger than every edge of start, and takes that cell for the edge if it holds
\* d: a cell that was never written or, in a full array, the first property.
PastEnd(b, d) ==
  /\ b.start # << >>
  /\ \A i \in DOMAIN b.start : b.start[i].e < d
  /\ Len(b.start) = b.capacity => b.start[1].w = d

-----------------------------------------------------------------------------
(* Writes.  The lock is held for the whole handler.                        *)

\* A registered writer can be in epoch e.
Writable(e) ==
  /\ ub = {}
  /\ Writes < MaxWrites
  /\ e \in read_epoch_ + 1 .. cur_
  /\ stage = "idle" \/ e > read_epoch_ + 1
  /\ Pipelined \/ e = read_epoch_ + 1

\* The TVBs once the first write of epoch e has claimed its own.
Claimed(e) ==
  IF tmp_vb[Slot(e)].timestamp_ = e THEN tmp_vb
  ELSE [tmp_vb EXCEPT ![Slot(e)] = [timestamp_ |-> e, entries |-> << >>]]

MarkTvbActive(e) ==
  IF tmp_vb[Slot(e)].timestamp_ = e THEN active_tvb_mask_
  ELSE active_tvb_mask_ \cup {Slot(e)}

\* The new entry of the TVB of epoch e: what is written, where, and what it overwrites.
InsertVersion(tvbs, e, d, del, w, loc, mt, last_epoch, old_intra, new_intra) ==
  [tvbs EXCEPT ![Slot(e)].entries = Append(@,
     [e |-> d, del |-> del, weight |-> w, offset |-> loc, merge_times |-> mt,
      last_epoch |-> last_epoch, old_intra_c |-> old_intra, new_intra_c |-> new_intra,
      next |-> FALSE])]

\* ChangeNextIndex on the entry of the version that is overwritten.
Linked(tvbs, slot, k) == [tvbs EXCEPT ![slot].entries[k].next = TRUE]

\* What the counter of epoch e may show by now: all vertices draw from it.
Drawn(e) ==
  LET open == UNION {{<<f, i>> : i \in Elsewhere(f)} : f \in Epochs}
  IN  intra_counter_[e] .. intra_counter_[e] + MaxElsewhere - Cardinality(open)

\* The intra-epoch timestamp of a transaction is drawn at its first write and kept: a
\* writer comes with the next one, or with one that it drew at another vertex.
IntraOfWriter(e) == Elsewhere(e) \cup {i + 1 : i \in Drawn(e)}

\* A write is refused if the edge has a version that is newer than the epoch which its
\* transaction reads, or newer than e.  For a write-only one that is e alone.
ReadEpochs(e) == {e} \cup {re \in 0 .. read_epoch_ : e - re <= MAXSIMULBATCH}

\* A version is appended to the TVB of e and the item of loc is stamped.
Accept(b, loc, new, d, w, e, last_epoch, old_intra, intra_c) ==
  LET item == ItemAt(b, loc)
      added == InsertVersion(Claimed(e), e, d, new.del, w, loc, b.merge_times, last_epoch,
                             old_intra, intra_c)
      pred == Slot(last_epoch)
      has_pred == item.tmp /\ last_epoch # 0
  IN  /\ eb' = Put(b, loc, [new EXCEPT !.block = e, !.tmp = TRUE, !.index = intra_c,
                                        !.pblock = IF new.del THEN 1
                                                   ELSE Len(added[Slot(e)].entries)])
      /\ intra_counter_' = [intra_counter_ EXCEPT ![e] = IF intra_c > @ THEN intra_c ELSE @]
      /\ log' = log \cup {[at |-> Writes + 1, ts |-> <<e, intra_c>>, e |-> d,
                            del |-> new.del, w |-> w]}
      /\ IF has_pred /\ item.pblock > Len(added[pred].entries)
         THEN tmp_vb' = added /\ ub' = {"stale TVB index"}
         ELSE /\ tmp_vb' = IF has_pred THEN Linked(added, pred, item.pblock) ELSE added
              /\ UNCHANGED ub

\* The common part of insert_edge_block and delete_edge_block from the claim of the
\* TVB on, for the item at loc of b: refuse, or accept.  new is the item's new
\* contents but for the stamp.
AddVersion(b, loc, new, d, w, e, last_epoch, old_intra) ==
  /\ active_tvb_mask_' = MarkTvbActive(e)
  /\ \/ /\ \E re \in ReadEpochs(e) : re < last_epoch
        /\ eb' = b
        /\ tmp_vb' = Claimed(e)
        /\ UNCHANGED <<intra_counter_, log, ub>>
     \/ /\ last_epoch <= e
        /\ \E intra_c \in IntraOfWriter(e) :
             Accept(b, loc, new, d, w, e, last_epoch, old_intra, intra_c)

\* get_edge_index is used for an edge that M knows.
MissesEdge(b, d) == /\ At(b, "start", d) = {}
                    /\ PastEnd(b, d)
                    /\ ub' = {"cell past the end"}
                    /\ UNCHANGED <<eb, tmp_vb, active_tvb_mask_, intra_counter_, log>>

FindsEdge(b, d) == At(b, "start", d) # {} \/ ~(PastEnd(b, d) /\ Len(b.start) = b.capacity)

InsertNew(b, d, w, e) ==
  LET b1 == [b EXCEPT !.tmp_item = Append(@, Item(d, w)), !.M = @ \cup {d}, !.num = @ + 1]
      loc == <<"tmp_item", Len(b1.tmp_item)>>
  IN  AddVersion(b1, loc, Item(d, w), d, w, e, 0, 0)

\* Clearing DELETION_MASK starts a new incarnation, chained to FIRST_VERSION.
InsertKnown(b, d, w, e) ==
  LET loc == get_edge_index(b, d)
      item == ItemAt(b, loc)
      alive == [item EXCEPT !.del = FALSE]
  IN  AddVersion(Put(b, loc, alive), loc, alive, d, w, e,
                 IF item.del THEN 0 ELSE item.block,
                 IF item.del THEN 0 ELSE item.index)

\* The workload of the run: is an edge inserted again in the epoch that deletes
\* it, are edges deleted, is a deleted edge deleted.
MayInsert(d, e) ==
  "reinsert" \in Workload \/ \A l \in log : ~(l.e = d /\ l.del /\ l.ts[1] = e)

MayDelete(d) ==
  /\ "delete" \in Workload
  /\ "redelete" \in Workload \/ \A l \in LastWrite(d, cur_) : ~l.del

\* Every write has a weight of its own: a weight tells which write a scan returned.
WriteWeight == FirstWeight + Writes + 1

insert_edge_block(d, e) ==
  LET b == MergedIfFull(eb)
      w == WriteWeight
  IN
  /\ Writable(e)
  /\ MayInsert(d, e)
  /\ \/ d \notin b.M /\ InsertNew(b, d, w, e)
     \/ d \in b.M /\ FindsEdge(b, d) /\ InsertKnown(b, d, w, e)
     \/ d \in b.M /\ MissesEdge(b, d)
  /\ UNCHANGED <<vbVars, epochVars, stage, mask_reg, reader>>

\* An edge that M does not know is not deleted; a deleted one is, once more.
delete_edge_block(d, e) ==
  LET b == MergedIfFull(eb)
      loc == get_edge_index(b, d)
      item == ItemAt(b, loc)
  IN
  /\ MayDelete(d)
  /\ Writable(e)
  /\ \/ /\ d \notin b.M
        /\ eb' = b
        /\ UNCHANGED <<tmp_vb, active_tvb_mask_, intra_counter_, log, ub>>
     \/ /\ d \in b.M /\ FindsEdge(b, d)
        /\ AddVersion(b, loc, [item EXCEPT !.del = TRUE], d, 0, e, item.block, item.index)
     \/ d \in b.M /\ MissesEdge(b, d)
  /\ UNCHANGED <<vbVars, epochVars, stage, mask_reg, reader>>

-----------------------------------------------------------------------------
(* Transform: the TVB of an epoch becomes a VersionBlock.                  *)

\* The loop that applies an entry: 1, versions without predecessor; 2, with one;
\* 3, deletions without predecessor.
LoopOf(t) == CASE t.last_epoch # 0 -> 2
               [] t.last_epoch = 0 /\ ~t.del -> 1
               [] t.last_epoch = 0 /\ t.del -> 3

\* Mutant: the entries are applied loop by loop, but not sorted.
LoopOrdersUnsorted(entries) ==
  {p \in SetToSeqs(DOMAIN entries) :
     \A i, j \in DOMAIN p : i < j =>
       \/ LoopOf(entries[p[i]]) < LoopOf(entries[p[j]])
       \/ LoopOf(entries[p[i]]) = LoopOf(entries[p[j]]) /\ p[i] < p[j]}

\* std::sort by the timestamp of the version each entry overwrites, then loop by
\* loop; entries with equal timestamps come in any order.
LoopOrders(entries) ==
  LET Overwrites(k) == <<entries[k].last_epoch, entries[k].old_intra_c>> IN
  {p \in SetToSeqs(DOMAIN entries) :
     \A i, j \in DOMAIN p : i < j =>
       \/ LoopOf(entries[p[i]]) < LoopOf(entries[p[j]])
       \/ /\ LoopOf(entries[p[i]]) = LoopOf(entries[p[j]])
          /\ AtMost(Overwrites(p[i]), Overwrites(p[j]))}

\* The offset recorded by the write is good until the next merge.
Located(b, t) == IF t.merge_times = b.merge_times THEN {t.offset} ELSE At(b, "start", t.e)

\* The item once the version of t is published.
Stamped(item, t, epoch) ==
  [item EXCEPT !.block = epoch, !.tmp = FALSE, !.index = t.new_intra_c]

\* Mutant: a new edge is counted only if nothing has overwritten it since.
ApplyFirstUncounted(s, t, loc, epoch) ==
  LET item == ItemAt(s.eb, loc) IN
  IF t.next THEN [s EXCEPT !.eb = Put(@, loc, [item EXCEPT !.w = t.weight])]
  ELSE [s EXCEPT !.eb = Put(@, loc, [Stamped(item, t, epoch) EXCEPT !.w = t.weight, !.pblock = 1]),
                 !.edge_num_ = @ + 1]

\* First loop: a version without predecessor leaves no record.
ApplyFirst(s, t, loc, epoch) ==
  LET item == ItemAt(s.eb, loc) IN
  [s EXCEPT !.eb = Put(@, loc, IF t.next THEN [item EXCEPT !.w = t.weight]
                               ELSE [Stamped(item, t, epoch) EXCEPT !.w = t.weight,
                                                                    !.pblock = 1]),
            !.edge_num_ = @ + 1]

\* The record of a version with weight w that t overwrites.
RecordOf(t, w) ==
  [e |-> t.e, block |-> t.last_epoch, index |-> t.old_intra_c, w |-> w, inv |-> t.new_intra_c]

\* Mutant: the deletions set DELETION_MASK once more.
OverwrittenDeletes(s, t, loc, epoch) ==
  Put(s.eb, loc, [Stamped(ItemAt(s.eb, loc), t, epoch) EXCEPT !.del = @ \/ t.del,
                    !.w = IF t.del THEN 0 ELSE t.weight, !.pblock = Len(s.records) + 1])

\* What the second and the third loop make of the item.
Overwritten(s, t, loc, epoch) ==
  Put(s.eb, loc, [Stamped(ItemAt(s.eb, loc), t, epoch) EXCEPT
                    !.w = IF t.del THEN 0 ELSE t.weight, !.pblock = Len(s.records) + 1])

\* Mutant: the record is filled after the item has been updated.
ApplyVersionLate(s, t, loc, epoch) ==
  [s EXCEPT !.records = Append(@, RecordOf(t, t.weight)),
            !.eb = Overwritten(s, t, loc, epoch),
            !.edge_num_ = IF t.del THEN @ - 1 ELSE @ + 1]

\* Second and third loop: the overwritten version becomes a record of the VB.
ApplyVersion(s, t, loc, epoch) ==
  [s EXCEPT !.records = Append(@, RecordOf(t, ItemAt(s.eb, loc).w)),
            !.eb = Overwritten(s, t, loc, epoch),
            !.edge_num_ = IF t.del THEN @ - 1 ELSE @ + 1]

\* An entry whose edge is not found leaves item_e and item_p uninitialised.
Apply(s, t, epoch) ==
  IF Located(s.eb, t) = {} THEN [s EXCEPT !.lost = TRUE]
  ELSE LET loc == CHOOSE loc \in Located(s.eb, t) : TRUE IN
       IF LoopOf(t) = 1 THEN ApplyFirst(s, t, loc, epoch) ELSE ApplyVersion(s, t, loc, epoch)

\* The three loops over the entries in the order p: the state after each turn.
Applied(b, entries, p, epoch) ==
  LET turn[k \in 0 .. Len(p)] ==
        IF k = 0 THEN [eb |-> b, records |-> << >>, edge_num_ |-> 0, lost |-> FALSE]
        ELSE Apply(turn[k - 1], entries[p[k]], epoch)
  IN  turn

\* The VersionBlock is put at the end of the chain and counted.
PushVB(epoch, s) ==
  /\ vbs' = Append(vbs, [timestamp_ |-> epoch, records |-> s.records,
                         edge_num_ |-> s.edge_num_])
  /\ edge_num_' = edge_num_ + s.edge_num_

Transform ==
  LET epoch == read_epoch_ + 1
      entries == tmp_vb[Slot(epoch)].entries
  IN
  /\ ub = {}
  /\ stage = "idle"
  /\ epoch < cur_
  /\ tmp_vb[Slot(epoch)].timestamp_ = epoch
  /\ entries # << >>
  /\ \E p \in LoopOrders(entries) :
       LET s == Applied(eb, entries, p, epoch)[Len(p)]
       IN  /\ eb' = s.eb
           /\ PushVB(epoch, s)
           /\ ub' = IF s.lost THEN {"edge not found"} ELSE {}
  /\ stage' = "clear"
  /\ UNCHANGED <<tmp_vb, active_tvb_mask_, intra_counter_, epochVars, mask_reg,
                 reader, log>>

\* The rest of Transform runs after spin_rw_lock.unlock().
ClearTvb ==
  /\ stage = "clear"
  /\ tmp_vb' = [tmp_vb EXCEPT ![Slot(read_epoch_ + 1)].entries = << >>]
  /\ stage' = "load"
  /\ UNCHANGED <<eb, active_tvb_mask_, vbVars, intra_counter_, epochVars, mask_reg,
                 reader, log, ub>>

\* active_tvb_mask_ &= ~bit is a load and a store, without the lock.
LoadMask ==
  /\ stage = "load"
  /\ mask_reg' = active_tvb_mask_
  /\ stage' = "store"
  /\ UNCHANGED <<eb, tmp_vb, active_tvb_mask_, vbVars, intra_counter_, epochVars,
                 reader, log, ub>>

MarkTvbInactive ==
  /\ stage = "store"
  /\ active_tvb_mask_' = mask_reg \ {Slot(read_epoch_ + 1)}
  /\ mask_reg' = {}
  /\ stage' = "done"
  /\ UNCHANGED <<eb, tmp_vb, vbVars, intra_counter_, epochVars, reader, log, ub>>

-----------------------------------------------------------------------------
(* The epochs, from EpochManager, and read-only transactions.              *)

OpenEpoch ==
  /\ ub = {}
  /\ cur_ < MaxEpoch
  /\ cur_ - read_epoch_ < MAXSIMULBATCH
  /\ cur_' = cur_ + 1
  /\ UNCHANGED <<eb, tmp_vb, active_tvb_mask_, vbVars, intra_counter_, read_epoch_,
                 g_oldest_epoch, stage, mask_reg, reader, log, ub>>

\* An epoch is published when its TVB, if it has any entries, is transformed.
Untouched(e) == tmp_vb[Slot(e)].timestamp_ # e \/ tmp_vb[Slot(e)].entries = << >>

Publish ==
  /\ ub = {}
  /\ \/ stage = "done"
     \/ stage = "idle" /\ read_epoch_ + 1 < cur_ /\ Untouched(read_epoch_ + 1)
  /\ read_epoch_' = read_epoch_ + 1
  /\ stage' = "idle"
  /\ UNCHANGED <<eb, tmp_vb, active_tvb_mask_, vbVars, intra_counter_, cur_,
                 g_oldest_epoch, mask_reg, reader, log, ub>>


\* Nothing that a reader has pinned is older than e.
Unpinned(e) ==
  /\ e \in g_oldest_epoch + 1 .. read_epoch_
  /\ \A r \in reader : e <= r.re

\* GC frees the VersionBlocks before the new watermark.
GC ==
  /\ ub = {}
  /\ \E e \in Epochs :
       LET Kept(vb) == vb.timestamp_ >= e IN
       /\ Unpinned(e)
       /\ vbs' = SelectSeq(vbs, Kept)
       /\ g_oldest_epoch' = e
  /\ UNCHANGED <<eb, tmp_vb, active_tvb_mask_, edge_num_, intra_counter_, cur_,
                 read_epoch_, stage, mask_reg, reader, log, ub>>

\* registerROTransaction: the composite timestamp of the first unpublished epoch.
registerROTransaction ==
  /\ ub = {}
  /\ "read" \in Workload
  /\ reader = {}
  /\ \E i \in Drawn(read_epoch_ + 1) :
       /\ reader' = {[re |-> read_epoch_, ts |-> <<read_epoch_ + 1, i>>]}
       /\ intra_counter_' = [intra_counter_ EXCEPT ![read_epoch_ + 1] = i]
  /\ UNCHANGED <<eb, tmp_vb, active_tvb_mask_, vbVars, epochVars, stage, mask_reg, log, ub>>

deregisterROTransaction ==
  /\ reader # {}
  /\ reader' = {}
  /\ UNCHANGED <<eb, tmp_vb, active_tvb_mask_, vbVars, intra_counter_, epochVars,
                 stage, mask_reg, log, ub>>

Next ==
  /\ UNCHANGED use
  /\ \/ \E d \in Dsts, e \in Epochs : insert_edge_block(d, e) \/ delete_edge_block(d, e)
     \/ Transform \/ ClearTvb \/ LoadMask \/ MarkTvbInactive
     \/ OpenEpoch \/ Publish \/ GC
     \/ registerROTransaction \/ deregisterROTransaction

Spec == Init /\ [][Next]_vars

-----------------------------------------------------------------------------
(* The scans: what GraphAlgorithms::for_each_edge_with_property passes to  *)
(* its callback at read timestamp q, each call as where it comes from, the *)
(* destination and the weight.                                             *)

Calls(source, visited) == {[from |-> source, at |-> v[1], d |-> v[2], w |-> v[3]] : v \in visited}

ScanItems(q) ==
  UNION {Calls(array, {<<i, eb[array][i].e, eb[array][i].w>> :
                         i \in {i \in DOMAIN eb[array] :
                                  /\ ~eb[array][i].del
                                  /\ Before(<<eb[array][i].block, eb[array][i].index>>, q)}})
         : array \in {"start", "tmp_item"}}

\* From the newest entry back to the first that q does not precede; deletions are
\* skipped over.
ScanTvb(s, q) ==
  LET t == tmp_vb[s].entries
      before_inv(k) == AtMost(q, <<tmp_vb[s].timestamp_, t[k].new_intra_c>>)
  IN  {k \in DOMAIN t :
         /\ ~t[k].del
         /\ \A j \in k .. Len(t) : t[j].del \/ before_inv(j)
         /\ Before(<<t[k].last_epoch, t[k].old_intra_c>>, q)}

ScanTvbs(q) ==
  UNION {Calls(<<"tvb", s>>, {<<k, tmp_vb[s].entries[k].e, tmp_vb[s].entries[k].weight>> :
                                k \in ScanTvb(s, q)})
         : s \in active_tvb_mask_}

\* VBIterator stops at the VBs of epoch q[1] and later that have records, and
\* passes over a later one whose first record is too new.
VBIterator(q) ==
  {k \in DOMAIN vbs :
     /\ vbs[k].timestamp_ >= q[1]
     /\ vbs[k].records # << >>
     /\ vbs[k].timestamp_ = q[1] \/ vbs[k].records[1].block <= q[1]}

\* Is the record visible at q: by both its timestamps in the VB of q's own epoch,
\* by its epoch alone in a later VB.
RecordVisible(vb, i, q) ==
  LET r == vb.records[i] IN
  IF vb.timestamp_ = q[1]
  THEN Before(<<r.block, r.index>>, q) /\ AtMost(q, <<q[1], r.inv>>)
  ELSE r.block <= q[1]

\* Each VB is read up to its first record that is not visible.
ScanVBs(q) ==
  UNION {Calls(<<"vb", k>>,
               {<<i, vbs[k].records[i].e, vbs[k].records[i].w>> :
                  i \in {i \in DOMAIN vbs[k].records :
                           \A j \in 1 .. i : RecordVisible(vbs[k], j, q)}})
         : k \in VBIterator(q)}

Scan(q) == ScanItems(q) \cup ScanTvbs(q) \cup ScanVBs(q)

\* for_each_edge_sorted merges the visible edges of tmp_item, in order, with start.
\* An edge of start is examined only while edges of tmp_item are left; what comes
\* after them is passed to the callback as it is.
IsVisibleAt(item, epoch) == ~item.del /\ item.block <= epoch

for_each_edge_sorted(epoch) ==
  LET buffered == {i \in DOMAIN eb.tmp_item : IsVisibleAt(eb.tmp_item[i], epoch)}
      examined(j) == \E i \in buffered : \A k \in 1 .. j :
                       IsVisibleAt(eb.start[k], epoch) => eb.start[k].e < eb.tmp_item[i].e
  IN  {eb.tmp_item[i].e : i \in buffered}
        \cup {eb.start[j].e : j \in {j \in DOMAIN eb.start :
                                      IsVisibleAt(eb.start[j], epoch) \/ ~examined(j)}}

\* get_degree(epoch): the VBs after epoch are taken back.
get_degree(epoch) ==
  FoldLeft(LAMBDA n, vb : IF vb.timestamp_ > epoch THEN n - vb.edge_num_ ELSE n,
           edge_num_, vbs)

-----------------------------------------------------------------------------
(* The reference: what the successful writes before q amount to.           *)

Expected(q) == {<<l.e, l.w>> : l \in {l \in UNION {Latest(d, q) : d \in Dsts} : ~l.del}}

\* The destinations that are left, in the order in which the writes were made.
Edges(e) == {l.e : l \in {l \in UNION {LastWrite(d, e) : d \in Dsts} : ~l.del}}

\* The scan at q calls back once for each of these destinations.
ScansOnce(q, destinations) ==
  /\ {c.d : c \in Scan(q)} = destinations
  /\ Cardinality(Scan(q)) = Cardinality(destinations)

\* The scan at q calls back once for each edge of the snapshot, with its weight.
SnapshotExact(q) ==
  /\ {<<c.d, c.w>> : c \in Scan(q)} = Expected(q)
  /\ Cardinality(Scan(q)) = Cardinality(Expected(q))

-----------------------------------------------------------------------------
(* Properties.                                                             *)

\* Inserts, merges and physical drops agree: no destination is stored twice, M and
\* num describe exactly what start and tmp_item hold, and it fits.
StorageConsistent ==
  LET stored == [i \in 1 .. Len(eb.start) + Len(eb.tmp_item) |->
                   (eb.start \o eb.tmp_item)[i].e] IN
  /\ \A i, j \in DOMAIN stored : stored[i] = stored[j] => i = j
  /\ Range(stored) = eb.M
  /\ eb.num = Len(stored)
  /\ Len(eb.start) <= eb.capacity
  /\ Len(eb.tmp_item) <= TMPNUM

\* The cell that Transform takes for the edge of an entry is the cell of that edge,
\* however often the insertion buffer was merged since the write, and unless epochs are
\* pipelined there is one: no other edge is stamped with the entry's epoch and weight.
PendingFound ==
  \A s \in Pending : \A k \in DOMAIN tmp_vb[s].entries :
    LET t == tmp_vb[s].entries[k] IN
    /\ \A loc \in Located(eb, t) : loc[2] \in DOMAIN eb[loc[1]] /\ ItemAt(eb, loc).e = t.e
    /\ Pipelined \/ Located(eb, t) # {}

\* Transform will find the edge of every entry of a write buffer: no edge with a pending
\* version is dropped.
PendingLocated ==
  \A s \in Pending : \A k \in DOMAIN tmp_vb[s].entries : Located(eb, tmp_vb[s].entries[k]) # {}

\* Every epoch with unpublished versions has its bit in active_tvb_mask_, so that
\* the scans look at its buffer.
MaskCovers ==
  \A s \in Pending : tmp_vb[s].timestamp_ > read_epoch_ + 1 \/ stage = "idle"
                       => s \in active_tvb_mask_

\* Nothing is being written or published.
Quiet == Pending = {} /\ stage = "idle"

\* The timestamp with which WCC, LCC and the tests read epoch e.
INTRA_MAX == MaxWrites + MaxElsewhere + 1
EndOf(e) == <<e, INTRA_MAX>>

\* A vertex that starts empty and is written in one epoch at a time, and whose clients
\* delete only edges that exist and do not insert an edge again in the epoch that deletes it.
Plain == ~Pipelined /\ Built = {} /\ Workload \cap {"redelete", "reinsert"} = {}

\* Once everything is published, a scan of a plain vertex at the end of any epoch that
\* the watermark has not passed calls back for the edges of that epoch, each once: what
\* later epochs overwrote is in their VersionBlocks, whichever transaction of an epoch
\* drew its timestamp first.
PublishedEdgesExact ==
  Quiet /\ Plain => \A e \in g_oldest_epoch .. read_epoch_ : ScansOnce(EndOf(e), Edges(e))

\* Were the writes of an epoch to this edge made in the order of their timestamps?
Ordered(d) == \A l, m \in log : l.e = d /\ m.e = d /\ l.ts[1] = m.ts[1] /\ l.at < m.at
                                  => Before(l.ts, m.ts)

\* With the weight that the edge had then, if the transactions of each epoch wrote the
\* edge in the order in which they had drawn their timestamps.
PublishedWeightsExact ==
  Quiet /\ Plain =>
    \A e \in g_oldest_epoch .. read_epoch_ : \A c \in Scan(EndOf(e)) :
      Ordered(c.d) => \A l \in LastWrite(c.d, e) : c.w = l.w


\* The newest state is exact for every vertex and every use: the edges that are left of
\* all writes, each once.
NewestEdgesExact ==
  Quiet /\ ub = {} => ScansOnce(EndOf(read_epoch_), Edges(read_epoch_))

\* With the weight that was written last, in whatever order the timestamps were drawn.
NewestWeightsExact ==
  Quiet /\ Plain => \A c \in Scan(EndOf(read_epoch_)) :
                      \A l \in LastWrite(c.d, read_epoch_) : c.w = l.w

\* What a registered reader scans is its snapshot, whatever is being written.
PinnedSnapshotExact == \A r \in reader : stage = "idle" => SnapshotExact(r.ts)

\* The same, once everything is published.
PinnedSnapshotKept == Quiet => \A r \in reader : SnapshotExact(r.ts)

\* Once everything is published, the sorted scan that CDLP uses calls back for the
\* edges of the published epoch only: "Iterate visible edges" of README.md.
SortedScanVisible ==
  Quiet => for_each_edge_sorted(read_epoch_) \subseteq Edges(read_epoch_)

\* The search for an edge ends at the cell of that edge.
SearchInBounds == "cell past the end" \notin ub

\* check_degree(v, epoch) is the number of edges of the vertex at that epoch.
DegreeExact ==
  stage = "idle" =>
    \A e \in g_oldest_epoch .. read_epoch_ :
      get_degree(e) = Cardinality(Edges(e))

\* For a plain vertex it is at least that number, at every epoch a reader may ask for:
\* the callers that reserve space or skip vertices by it miss no edge.
DegreeNeverShort ==
  stage = "idle" /\ Plain =>
    \A e \in g_oldest_epoch .. read_epoch_ :
      get_degree(e) >= Cardinality(Edges(e))
=============================================================================
