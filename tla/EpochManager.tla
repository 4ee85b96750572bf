---------------------------- MODULE EpochManager ----------------------------
(***************************************************************************)
(* The epoch and transaction manager of AVBGraph,                          *)
(* data-structure/VersionBlock/AllVBManager.{h,cpp}.                       *)
(*                                                                         *)
(* Application threads register write transactions (which join the open    *)
(* epoch cur_ and now and then open the next one) and read-only            *)
(* transactions (which pin the published epoch read_epoch_).  A background *)
(* updater thread scans the per-thread slots, discards the version blocks  *)
(* no reader can need and publishes the epochs no writer can still be in.  *)
(* The main thread may close the write phase.                              *)
(*                                                                         *)
(* One action is one access to shared memory, or a few accesses whose      *)
(* interleaving with other threads adds no outcome (README.md); memory is  *)
(* sequentially consistent.  A VBData is represented by its epoch_; 0      *)
(* stands for a ring slot that was never written.                          *)
(***************************************************************************)
EXTENDS Integers, Sequences, FiniteSets

CONSTANTS
  max_threads,     \* number of per-thread slots
  Writers,         \* threads that run write transactions
  Readers,         \* threads that run read-only transactions
  MAXSIMULBATCH,   \* size of the ring of epochs in flight (16 in the code)
  NoTransaction,   \* MY_NO_TRANSACTION, the largest epoch_t
  FINEGRAIN,       \* the build flag: TRUE for AVB_Core, FALSE for the coarse build
  on,              \* the constructor's flag: is there a background updater
  Closing,         \* does the main thread ever close the write phase
  MaxEpoch         \* bound: no epoch after this one is opened

Threads == 0 .. max_threads - 1
Agents  == {"updater", "main"}

ASSUME ThreadsAssumption ==
  /\ max_threads \in Nat
  /\ Writers \subseteq Threads
  /\ Readers \subseteq Threads

ASSUME EpochsAssumption ==
  /\ MAXSIMULBATCH \in Nat \ {0}
  /\ MaxEpoch \in Nat \ {0}
  /\ NoTransaction \in Nat
  /\ MaxEpoch + MAXSIMULBATCH < NoTransaction

ASSUME FlagsAssumption ==
  /\ FINEGRAIN \in BOOLEAN
  /\ on \in BOOLEAN
  /\ Closing \in BOOLEAN

VARIABLES
  \* AllVBManager's members
  cur_,                 \* the open epoch, which new writers join
  read_epoch_,          \* the last published epoch
  read_epoch_cur_,      \* ring slot of the first unpublished epoch
  active_txns_,         \* the ring of VBData
  is_create,            \* spin flag that serialises the opening of epochs
  no_more_txn_,
  stopped,
  active_transactions,  \* per thread: epoch of its write transaction
  active_read_epochs,   \* per thread: epoch its reader pins
  min_epoch,            \* no registered writer is in an earlier epoch
  min_read_epoch,       \* no registered reader reads at an earlier epoch
  vb_que_,              \* published VBData not yet discarded, oldest first
  g_oldest_epoch,       \* the GC watermark
  mtx_,                 \* "free" or the agent that holds it
  \* locals of the application threads
  pc,
  cur,                  \* registerTransaction: cur
  vb_data,              \* registerTransaction: it, the transaction's VBData
  re,                   \* registerROTransaction: re
  vbdata_ro,            \* registerROTransaction: vbdata
  \* locals of the updater and of the main thread
  apc,
  scan,                 \* update_min_version: i
  min12,                \* update_min_version: min1, then min2
  last,                 \* update_min_version: last
  target,               \* commitVersionBlock: its argument
  vbdata,               \* commitVersionBlock: vbdata
  \* history
  deleted               \* epochs whose VBData GC has deleted

ringVars    == <<cur_, active_txns_, is_create>>
publishVars == <<read_epoch_, read_epoch_cur_>>
flagVars    == <<no_more_txn_, stopped>>
slotVars    == <<active_transactions, active_read_epochs>>
gcVars      == <<vb_que_, g_oldest_epoch, deleted>>
minVars     == <<min_epoch, min_read_epoch>>
writerVars  == <<cur, vb_data>>
readerVars  == <<re, vbdata_ro>>
scanVars    == <<scan, min12, last>>
agentVars   == <<apc, scanVars, mtx_, target, vbdata>>
vars == <<ringVars, publishVars, flagVars, slotVars, gcVars, minVars, pc,
          writerVars, readerVars, agentVars>>

\* What no step of a writer, a reader, the updater, commitVersionBlock and the
\* main thread, respectively, ever changes.
wFrame == <<publishVars, flagVars, active_read_epochs, gcVars, minVars,
            readerVars, agentVars>>
rFrame == <<ringVars, publishVars, flagVars, active_transactions, gcVars,
            minVars, writerVars, agentVars>>
uFrame == <<ringVars, publishVars, flagVars, slotVars, pc, writerVars,
            readerVars, mtx_, vbdata>>
cFrame == <<ringVars, flagVars, slotVars, g_oldest_epoch, deleted, minVars, pc,
            writerVars, readerVars, scanVars>>
mFrame == <<ringVars, publishVars, slotVars, gcVars, minVars, pc, writerVars,
            readerVars, scanVars, mtx_, vbdata>>

WriterPCs == {"w_load", "w_check", "w_store", "w_verify", "w_take", "w_full",
              "w_cas", "w_new", "w_inc", "w_release", "w_run"}
ReaderPCs == {"r_load", "r_store", "r_verify", "r_guard", "r_slot", "r_deref",
              "r_run"}
CommitPCs == {"c_lock", "c_loop", "c_publish", "c_next"}
UpdaterPCs == {"u_loop", "u_minread", "u_scanread", "u_min", "u_scan",
               "u_gc", "u_commit", "u_done"}
MainPCs == {"m_idle", "m_stop", "m_join", "m_finalize", "m_done"}

\* The values of epoch_t a model of the instance meets.
Epochs == 0 .. MaxEpoch + 1

\* The writer has passed the check cur == cur_ and has not deregistered.
Registered(t) ==
  pc[t] \in {"w_take", "w_full", "w_cas", "w_new", "w_inc", "w_release", "w_run"}

\* The reader has passed the check re >= min_read_epoch and has not deregistered.
Pinned(t) == pc[t] \in {"r_guard", "r_slot", "r_deref", "r_run"}

-----------------------------------------------------------------------------
(* Construction.  is_create and the ring slots other than 1 are never      *)
(* initialised: is_create may hold anything, 0 stands for a wild pointer.  *)

Init ==
  /\ cur_ = 1
  /\ read_epoch_ = 0
  /\ read_epoch_cur_ = 1 % MAXSIMULBATCH
  /\ active_txns_ = [s \in 0 .. MAXSIMULBATCH - 1 |->
                       IF s = 1 % MAXSIMULBATCH THEN 1 ELSE 0]
  /\ is_create \in {0, 1}
  /\ no_more_txn_ = FALSE
  /\ stopped = FALSE
  /\ active_transactions = [t \in Threads |-> NoTransaction]
  /\ active_read_epochs = [t \in Threads |-> NoTransaction]
  /\ min_epoch = 0
  /\ min_read_epoch = 0
  /\ vb_que_ = << >>
  /\ g_oldest_epoch = 0
  /\ deleted = {}
  /\ mtx_ = "free"
  /\ pc = [t \in Threads |-> "idle"]
  /\ cur = [t \in Threads |-> 0]
  /\ vb_data = [t \in Threads |-> 0]
  /\ re = [t \in Threads |-> 0]
  /\ vbdata_ro = [t \in Threads |-> 0]
  /\ apc = [a \in Agents |-> IF a = "main" THEN "m_idle"
                             ELSE IF on THEN "u_loop" ELSE "u_done"]
  /\ scan = 0
  /\ min12 = NoTransaction
  /\ last = 0
  /\ target = [a \in Agents |-> 0]
  /\ vbdata = [a \in Agents |-> 0]

Goto(t, label) == pc' = [pc EXCEPT ![t] = label]
AGoto(a, label) == apc' = [apc EXCEPT ![a] = label]
MinOf(a, b) == IF a < b THEN a ELSE b

-----------------------------------------------------------------------------
(* Write transactions: registerTransaction and deregisterTransaction.      *)

\* a - b in the unsigned arithmetic of epoch_t.
USub(a, b) == IF a >= b THEN a - b ELSE a - b + NoTransaction + 1

\* cur & MODPM
Slot(e) == e % MAXSIMULBATCH

RegisterTransaction(t) ==
  /\ t \in Writers
  /\ pc[t] = "idle"
  /\ ~no_more_txn_          \* contract of NoMoreTxn: no writer starts after it
  /\ Goto(t, "w_load")
  /\ UNCHANGED <<ringVars, active_transactions, writerVars, wFrame>>

\* test1: nw = cur_
LoadCur(t) ==
  /\ pc[t] = "w_load"
  /\ cur' = [cur EXCEPT ![t] = cur_]
  /\ Goto(t, "w_check")
  /\ UNCHANGED <<ringVars, active_transactions, vb_data, wFrame>>

\* test1: while (nw - read_epoch_ >= max_simul_batch_num) nw = cur_
TooManyInFlight(nw) == USub(nw, read_epoch_) >= MAXSIMULBATCH

AwaitRing(t) ==
  /\ pc[t] = "w_check"
  /\ Goto(t, IF TooManyInFlight(cur[t]) THEN "w_load" ELSE "w_store")
  /\ UNCHANGED <<ringVars, active_transactions, writerVars, wFrame>>

StoreActive(t) ==
  /\ pc[t] = "w_store"
  /\ active_transactions' = [active_transactions EXCEPT ![t] = cur[t]]
  /\ Goto(t, "w_verify")
  /\ UNCHANGED <<ringVars, writerVars, wFrame>>

\* Mutant: registerTransaction without the re-check of cur_.
StillOpenUnchecked(t) == TRUE

\* while (cur != cur_)
StillOpen(t) == cur[t] = cur_

VerifyCur(t) ==
  /\ pc[t] = "w_verify"
  /\ Goto(t, IF StillOpen(t) THEN "w_take" ELSE "w_load")
  /\ UNCHANGED <<ringVars, active_transactions, writerVars, wFrame>>

\* it = active_txns_[active_id]; the random draw decides whether this
\* transaction tries to open the next epoch.
TakeVBData(t) ==
  /\ pc[t] = "w_take"
  /\ vb_data' = [vb_data EXCEPT ![t] = active_txns_[Slot(cur[t])]]
  /\ \E label \in {"w_full", "w_run"} : Goto(t, label)
  /\ UNCHANGED <<ringVars, active_transactions, cur, wFrame>>

\* if (cur_ - read_epoch_ < max_simul_batch_num ...).  MaxEpoch bounds the run.
RoomForNext == USub(cur_, read_epoch_) < MAXSIMULBATCH

CheckRoom(t) ==
  /\ pc[t] = "w_full"
  /\ Goto(t, IF RoomForNext /\ cur[t] < MaxEpoch THEN "w_cas" ELSE "w_run")
  /\ UNCHANGED <<ringVars, active_transactions, writerVars, wFrame>>

\* Mutant: the result of compare_exchange_strong is ignored.
CasIsCreateIgnored(t) ==
  /\ pc[t] = "w_cas"
  /\ is_create' = 1
  /\ Goto(t, "w_new")
  /\ UNCHANGED <<cur_, active_txns_, active_transactions, writerVars, wFrame>>

CasIsCreate(t) ==
  /\ pc[t] = "w_cas"
  /\ IF is_create = 0
     THEN is_create' = 1 /\ Goto(t, "w_new")
     ELSE UNCHANGED is_create /\ Goto(t, "w_run")
  /\ UNCHANGED <<cur_, active_txns_, active_transactions, writerVars, wFrame>>

\* Mutant: the new VBData overwrites the slot of the open epoch.
NewVBDataSameSlot(t) ==
  /\ pc[t] = "w_new"
  /\ active_txns_' = [active_txns_ EXCEPT ![Slot(cur[t])] = cur[t] + 1]
  /\ Goto(t, "w_inc")
  /\ UNCHANGED <<cur_, is_create, active_transactions, writerVars, wFrame>>

\* if (cur == cur_) active_txns_[next_id] = new VBData(cur + 1)
NewVBData(t) ==
  /\ pc[t] = "w_new"
  /\ IF StillOpen(t)
     THEN /\ active_txns_' = [active_txns_ EXCEPT ![Slot(cur[t] + 1)] = cur[t] + 1]
          /\ Goto(t, "w_inc")
     ELSE /\ UNCHANGED active_txns_
          /\ Goto(t, "w_release")
  /\ UNCHANGED <<cur_, is_create, active_transactions, writerVars, wFrame>>

IncCur(t) ==
  /\ pc[t] = "w_inc"
  /\ cur_' = cur_ + 1
  /\ Goto(t, "w_release")
  /\ UNCHANGED <<active_txns_, is_create, active_transactions, writerVars, wFrame>>

ReleaseIsCreate(t) ==
  /\ pc[t] = "w_release"
  /\ is_create' = 0
  /\ Goto(t, "w_run")
  /\ UNCHANGED <<cur_, active_txns_, active_transactions, writerVars, wFrame>>

\* Mutant: the thread's slot is not cleared.
DeregisterTransactionKeepsSlot(t) ==
  /\ pc[t] = "w_run"
  /\ cur' = [cur EXCEPT ![t] = 0]
  /\ vb_data' = [vb_data EXCEPT ![t] = 0]
  /\ Goto(t, "idle")
  /\ UNCHANGED <<ringVars, active_transactions, wFrame>>

\* deregisterTransaction, at the end of the transaction (its locals are gone).
DeregisterTransaction(t) ==
  /\ pc[t] = "w_run"
  /\ active_transactions' = [active_transactions EXCEPT ![t] = NoTransaction]
  /\ cur' = [cur EXCEPT ![t] = 0]
  /\ vb_data' = [vb_data EXCEPT ![t] = 0]
  /\ Goto(t, "idle")
  /\ UNCHANGED <<ringVars, wFrame>>

WriterStep(t) ==
  \/ RegisterTransaction(t) \/ LoadCur(t) \/ AwaitRing(t) \/ StoreActive(t)
  \/ VerifyCur(t) \/ TakeVBData(t) \/ CheckRoom(t) \/ CasIsCreate(t)
  \/ NewVBData(t) \/ IncCur(t) \/ ReleaseIsCreate(t) \/ DeregisterTransaction(t)

-----------------------------------------------------------------------------
(* Read-only transactions: registerROTransaction, deregisterROTransaction. *)

RegisterROTransaction(t) ==
  /\ t \in Readers
  /\ pc[t] = "idle"
  /\ Goto(t, "r_load")
  /\ UNCHANGED <<active_read_epochs, readerVars, rFrame>>

LoadReadEpoch(t) ==
  /\ pc[t] = "r_load"
  /\ re' = [re EXCEPT ![t] = read_epoch_]
  /\ Goto(t, "r_store")
  /\ UNCHANGED <<active_read_epochs, vbdata_ro, rFrame>>

StoreActiveRead(t) ==
  /\ pc[t] = "r_store"
  /\ active_read_epochs' = [active_read_epochs EXCEPT ![t] = re[t]]
  /\ Goto(t, "r_verify")
  /\ UNCHANGED <<readerVars, rFrame>>

\* Mutants: no re-check of min_read_epoch; a strict re-check.
VerifyReadEpochUnchecked(t) ==
  /\ pc[t] = "r_verify"
  /\ Goto(t, IF FINEGRAIN THEN "r_guard" ELSE "r_run")
  /\ UNCHANGED <<active_read_epochs, readerVars, rFrame>>

VerifyReadEpochStrict(t) ==
  /\ pc[t] = "r_verify"
  /\ Goto(t, IF re[t] <= min_read_epoch THEN "r_load"
             ELSE IF FINEGRAIN THEN "r_guard" ELSE "r_run")
  /\ UNCHANGED <<active_read_epochs, readerVars, rFrame>>

\* while (re < min_read_epoch); the coarse build has no timestamp to capture.
VerifyReadEpoch(t) ==
  /\ pc[t] = "r_verify"
  /\ Goto(t, IF re[t] < min_read_epoch THEN "r_load"
             ELSE IF FINEGRAIN THEN "r_guard" ELSE "r_run")
  /\ UNCHANGED <<active_read_epochs, readerVars, rFrame>>

\* (re + 1 <= cur_) ? ... : nullptr
CaptureGuard(t) == re[t] + 1 <= cur_

GuardCapture(t) ==
  /\ pc[t] = "r_guard"
  /\ Goto(t, IF CaptureGuard(t) THEN "r_slot" ELSE "r_run")
  /\ UNCHANGED <<active_read_epochs, readerVars, rFrame>>

\* Mutant: the slot after the one of the first unpublished epoch.
LoadVBDataNext(t) ==
  /\ pc[t] = "r_slot"
  /\ vbdata_ro' = [vbdata_ro EXCEPT ![t] = active_txns_[(read_epoch_cur_ + 1) % MAXSIMULBATCH]]
  /\ Goto(t, "r_deref")
  /\ UNCHANGED <<active_read_epochs, re, rFrame>>

\* vbdata = active_txns_[read_epoch_cur_]
LoadVBData(t) ==
  /\ pc[t] = "r_slot"
  /\ vbdata_ro' = [vbdata_ro EXCEPT ![t] = active_txns_[read_epoch_cur_]]
  /\ Goto(t, "r_deref")
  /\ UNCHANGED <<active_read_epochs, re, rFrame>>

\* vbdata->get_epoch() == re + 1 ? (re + 1, intra counter) : (re, INTRA_MAX).
\* Which of the two timestamps is set does not change the manager's state.
DerefVBData(t) ==
  /\ pc[t] = "r_deref"
  /\ Goto(t, "r_run")
  /\ UNCHANGED <<active_read_epochs, readerVars, rFrame>>

DeregisterROTransaction(t) ==
  /\ pc[t] = "r_run"
  /\ active_read_epochs' = [active_read_epochs EXCEPT ![t] = NoTransaction]
  /\ re' = [re EXCEPT ![t] = 0]
  /\ vbdata_ro' = [vbdata_ro EXCEPT ![t] = 0]
  /\ Goto(t, "idle")
  /\ UNCHANGED <<rFrame>>

ReaderStep(t) ==
  \/ RegisterROTransaction(t) \/ LoadReadEpoch(t) \/ StoreActiveRead(t)
  \/ VerifyReadEpoch(t) \/ GuardCapture(t) \/ LoadVBData(t) \/ DerefVBData(t)
  \/ DeregisterROTransaction(t)

-----------------------------------------------------------------------------
(* The background thread: run_min_epoch_updater, update_min_version, GC.   *)

UpdaterAt(label) == apc["updater"] = label
UpdaterGoto(label) == AGoto("updater", label)

\* Mutant: the background thread leaves as soon as the write phase is closed.
UpdaterLoopEager ==
  /\ UpdaterAt("u_loop")
  /\ UpdaterGoto(IF ~no_more_txn_ /\ ~stopped THEN "u_minread" ELSE "u_done")
  /\ UNCHANGED <<gcVars, minVars, scanVars, target, uFrame>>

\* while ((!no_more_txn_ || read_epoch_ != cur_) && !stopped)
UpdaterLoop ==
  /\ UpdaterAt("u_loop")
  /\ UpdaterGoto(IF (~no_more_txn_ \/ read_epoch_ # cur_) /\ ~stopped
                 THEN "u_minread" ELSE "u_done")
  /\ UNCHANGED <<gcVars, minVars, scanVars, target, uFrame>>

\* min_read_epoch = read_epoch_, visible to readers before the scan
ResetMinRead ==
  /\ UpdaterAt("u_minread")
  /\ min_read_epoch' = read_epoch_
  /\ scan' = 0
  /\ min12' = NoTransaction
  /\ UpdaterGoto("u_scanread")
  /\ UNCHANGED <<gcVars, min_epoch, last, target, uFrame>>

ScanRead ==
  /\ UpdaterAt("u_scanread")
  /\ scan < max_threads
  /\ min12' = MinOf(min12, active_read_epochs[scan])
  /\ scan' = scan + 1
  /\ UNCHANGED <<apc, gcVars, minVars, last, target, uFrame>>

\* min_read_epoch = min(min_read_epoch, min1)
LowerMinRead ==
  /\ UpdaterAt("u_scanread")
  /\ scan = max_threads
  /\ min_read_epoch' = MinOf(min_read_epoch, min12)
  /\ UpdaterGoto("u_min")
  /\ UNCHANGED <<gcVars, min_epoch, scanVars, target, uFrame>>

\* last = min_epoch; min_epoch = cur_ + no_more_txn_
ResetMin ==
  /\ UpdaterAt("u_min")
  /\ last' = min_epoch
  /\ min_epoch' = cur_ + (IF no_more_txn_ THEN 1 ELSE 0)
  /\ scan' = 0
  /\ min12' = NoTransaction
  /\ UpdaterGoto("u_scan")
  /\ UNCHANGED <<gcVars, min_read_epoch, target, uFrame>>

ScanWriters ==
  /\ UpdaterAt("u_scan")
  /\ scan < max_threads
  /\ min12' = MinOf(min12, active_transactions[scan])
  /\ scan' = scan + 1
  /\ UNCHANGED <<apc, gcVars, minVars, last, target, uFrame>>

\* min_epoch = min(min_epoch, min2), but never back below last
Lowered(m) == IF MinOf(m, min12) < last /\ min12 # NoTransaction
              THEN last ELSE MinOf(m, min12)

LowerMin ==
  /\ UpdaterAt("u_scan")
  /\ scan = max_threads
  /\ min_epoch' = Lowered(min_epoch)
  /\ scan' = 0
  /\ min12' = NoTransaction
  /\ last' = 0
  /\ UpdaterGoto("u_gc")
  /\ UNCHANGED <<gcVars, min_read_epoch, target, uFrame>>

\* GC's loop condition on the front of vb_que_
Collectable(e) == IF FINEGRAIN THEN e < min_read_epoch ELSE e <= min_read_epoch

\* The positions of vb_que_ that GC pops: its loop stops at the first VBData
\* that is not collectable.
Popped == {i \in 1 .. Len(vb_que_) : \A j \in 1 .. i : Collectable(vb_que_[j])}

GC ==
  /\ UpdaterAt("u_gc")
  /\ deleted' = deleted \cup {vb_que_[i] : i \in Popped}
  /\ vb_que_' = SubSeq(vb_que_, Cardinality(Popped) + 1, Len(vb_que_))
  /\ g_oldest_epoch' = min_read_epoch
  /\ UpdaterGoto("u_commit")
  /\ UNCHANGED <<minVars, scanVars, target, uFrame>>

\* Mutant: the updater publishes the open epoch too, whatever the scan found.
PublishTargetOpen == cur_ + 1

\* read_epoch_ + 1 < min_epoch || (no_more_txn_ && read_epoch_ < cur_)
SomethingToPublish ==
  \/ read_epoch_ + 1 < min_epoch
  \/ no_more_txn_ /\ read_epoch_ < cur_

PublishTarget == IF no_more_txn_ THEN cur_ + 1 ELSE min_epoch

CommitOrSleep ==
  /\ UpdaterAt("u_commit")
  /\ IF SomethingToPublish
     THEN /\ target' = [target EXCEPT !["updater"] = PublishTarget]
          /\ UpdaterGoto("c_lock")
     ELSE /\ UNCHANGED target
          /\ UpdaterGoto("u_loop")
  /\ UNCHANGED <<gcVars, minVars, scanVars, uFrame>>

UpdaterStep ==
  \/ UpdaterLoop \/ ResetMinRead \/ ScanRead \/ LowerMinRead \/ ResetMin
  \/ ScanWriters \/ LowerMin \/ GC \/ CommitOrSleep

-----------------------------------------------------------------------------
(* commitVersionBlock, run by the updater or by the main thread.           *)

CommitLock(a) ==
  /\ apc[a] = "c_lock"
  /\ mtx_ = "free"
  /\ mtx_' = a
  /\ vbdata' = [vbdata EXCEPT ![a] = active_txns_[read_epoch_cur_]]
  /\ AGoto(a, "c_loop")
  /\ UNCHANGED <<publishVars, vb_que_, target, cFrame>>

\* Mutant: one epoch short of the target.
MoreToPublishShort(a) == read_epoch_ + 2 < target[a]

MoreToPublish(a) == read_epoch_ + 1 < target[a]

\* vbdata->commitVersionBlock() transforms the epoch's write buffers; then
\* vb_que_.push(vbdata)
CommitTransform(a) ==
  /\ apc[a] = "c_loop"
  /\ MoreToPublish(a)
  /\ vb_que_' = Append(vb_que_, vbdata[a])
  /\ AGoto(a, "c_publish")
  /\ UNCHANGED <<publishVars, mtx_, vbdata, target, cFrame>>

CommitPublish(a) ==
  /\ apc[a] = "c_publish"
  /\ read_epoch_' = read_epoch_ + 1
  /\ AGoto(a, "c_next")
  /\ UNCHANGED <<read_epoch_cur_, vb_que_, mtx_, vbdata, target, cFrame>>

\* read_epoch_cur_ moves round the ring and vbdata to the next epoch's VBData
NextSlot(s) == IF s = MAXSIMULBATCH - 1 THEN 0 ELSE s + 1

\* Mutant: vbdata is not reloaded after an epoch.
CommitNextStale(a) ==
  /\ apc[a] = "c_next"
  /\ read_epoch_cur_' = NextSlot(read_epoch_cur_)
  /\ AGoto(a, "c_loop")
  /\ UNCHANGED <<read_epoch_, vb_que_, mtx_, vbdata, target, cFrame>>

CommitNext(a) ==
  /\ apc[a] = "c_next"
  /\ read_epoch_cur_' = NextSlot(read_epoch_cur_)
  /\ vbdata' = [vbdata EXCEPT ![a] = active_txns_[NextSlot(read_epoch_cur_)]]
  /\ AGoto(a, "c_loop")
  /\ UNCHANGED <<read_epoch_, vb_que_, mtx_, target, cFrame>>

\* Where each agent continues after commitVersionBlock.
ReturnTo(a) == CASE a = "updater" -> "u_loop"
                 [] a = "main" /\ stopped -> "m_done"
                 [] OTHER -> "m_idle"

CommitUnlock(a) ==
  /\ apc[a] = "c_loop"
  /\ ~MoreToPublish(a)
  /\ mtx_' = "free"
  /\ target' = [target EXCEPT ![a] = 0]
  /\ vbdata' = [vbdata EXCEPT ![a] = 0]
  /\ AGoto(a, ReturnTo(a))
  /\ UNCHANGED <<publishVars, vb_que_, cFrame>>

CommitStep(a) ==
  \/ CommitLock(a) \/ CommitTransform(a) \/ CommitPublish(a) \/ CommitNext(a)
  \/ CommitUnlock(a)

-----------------------------------------------------------------------------
(* The main thread.  Its contract with the manager: every writer has been  *)
(* joined before NoMoreTxn and FinalizeNoMoreTxn, and without a background *)
(* updater commitVersionBlock(e) is called when no writer is in an epoch   *)
(* before e; it publishes the open epoch only when no writer will follow   *)
(* (for which no_more_txn_ stands here).                                   *)

WritersJoined == \A t \in Threads : pc[t] \notin WriterPCs

MainAt(label) == apc["main"] = label

CommitManually(e) ==
  /\ MainAt("m_idle")
  /\ e <= IF no_more_txn_ THEN cur_ + 1 ELSE cur_
  /\ \A t \in Threads : Registered(t) => e <= cur[t]
  /\ target' = [target EXCEPT !["main"] = e]
  /\ AGoto("main", "c_lock")
  /\ UNCHANGED <<flagVars, mFrame>>

NoMoreTxn ==
  /\ Closing
  /\ MainAt("m_idle")
  /\ WritersJoined
  /\ no_more_txn_' = TRUE
  /\ UNCHANGED <<stopped, apc, target, mFrame>>

\* FinalizeNoMoreTxn: close, stop the updater, join it, publish the rest.
FinalizeNoMoreTxn ==
  /\ Closing
  /\ MainAt("m_idle")
  /\ WritersJoined
  /\ no_more_txn_' = TRUE
  /\ AGoto("main", "m_stop")
  /\ UNCHANGED <<stopped, target, mFrame>>

StopUpdater ==
  /\ MainAt("m_stop")
  /\ stopped' = TRUE
  /\ AGoto("main", "m_join")
  /\ UNCHANGED <<no_more_txn_, target, mFrame>>

JoinUpdater ==
  /\ MainAt("m_join")
  /\ UpdaterAt("u_done")
  /\ AGoto("main", "m_finalize")
  /\ UNCHANGED <<flagVars, target, mFrame>>

\* Mutant: the open epoch is left out.
FinalizeTargetShort == cur_

FinalizeTarget == cur_ + 1

PublishRest ==
  /\ MainAt("m_finalize")
  /\ IF read_epoch_ + 1 < FinalizeTarget
     THEN /\ target' = [target EXCEPT !["main"] = FinalizeTarget]
          /\ AGoto("main", "c_lock")
     ELSE /\ UNCHANGED target
          /\ AGoto("main", "m_done")
  /\ UNCHANGED <<flagVars, mFrame>>

\* Only a program without an updater publishes by itself before it finalizes.
MainStep ==
  \/ \E e \in {x \in Epochs : ~on} : CommitManually(e)
  \/ NoMoreTxn \/ FinalizeNoMoreTxn \/ StopUpdater \/ JoinUpdater \/ PublishRest

-----------------------------------------------------------------------------
Next ==
  \/ \E t \in Threads : WriterStep(t) \/ ReaderStep(t)
  \/ UpdaterStep
  \/ \E a \in Agents : CommitStep(a)
  \/ MainStep

Spec == Init /\ [][Next]_vars

\* A thread inside a manager call or a transaction keeps running, and so do the
\* updater and a main thread that has begun to finalize or to commit; nobody is
\* obliged to start a transaction or to close the write phase.
Fairness ==
  /\ \A t \in Threads : WF_vars(pc[t] # "idle" /\ (WriterStep(t) \/ ReaderStep(t)))
  /\ WF_vars(UpdaterStep)
  /\ \A a \in Agents : WF_vars(CommitStep(a))
  /\ WF_vars(StopUpdater \/ JoinUpdater \/ PublishRest)

FairSpec == Spec /\ Fairness

-----------------------------------------------------------------------------
(* The inductive invariant behind PublishedEpochsQuiescent and             *)
(* GCKeepsPinned.                                                          *)

Committing(a) == apc[a] \in {"c_loop", "c_publish", "c_next"}

\* An opener of the next epoch owns is_create, and cur_ does not move under it.
CreateInv ==
  /\ \A t, u \in Threads :
       /\ pc[t] \in {"w_new", "w_inc", "w_release"}
       /\ pc[u] \in {"w_new", "w_inc", "w_release"}
       => t = u
  /\ \A t \in Threads :
       /\ pc[t] \in {"w_new", "w_inc", "w_release"} => is_create = 1
       /\ pc[t] = "w_inc" => cur[t] = cur_
       /\ pc[t] \in {"w_cas", "w_new", "w_inc"} => cur[t] < MaxEpoch

\* Only the holder of mtx_ publishes, and never past its target.  "Closed" may
\* only be seen by the agents once no writer is left.
CommitInv ==
  /\ apc["updater"] \in CommitPCs \cup UpdaterPCs
  /\ apc["main"] \in CommitPCs \cup MainPCs
  /\ \A a \in Agents :
       /\ Committing(a) => mtx_ = a
       /\ apc[a] = "c_publish" => read_epoch_ + 1 < target[a]
  /\ \A t \in Threads : pc[t] \in WriterPCs => ~no_more_txn_
  /\ (\E a \in Agents : apc[a] \in {"m_stop", "m_join", "m_finalize"}) => no_more_txn_

\* The bounds that an epoch c must respect when thread t may be writing in it:
\* neither what is published nor what is about to be reaches it.
SafeEpoch(c, t) ==
  /\ read_epoch_ < c
  /\ \A a \in Agents : apc[a] \in CommitPCs => target[a] <= c
  /\ IF apc["updater"] = "u_scan"
     THEN last <= c /\ (t < scan => MinOf(min_epoch, min12) <= c)
     ELSE min_epoch <= c

\* The updater's bounds never pass the open epoch (plus one, once closed).
OpenInv ==
  LET limit == IF no_more_txn_ THEN cur_ + 1 ELSE cur_ IN
  /\ read_epoch_ < limit
  /\ min_epoch <= limit
  /\ apc["updater"] = "u_scan" => last <= limit
  /\ \A a \in Agents : apc[a] \in CommitPCs => target[a] <= limit

\* What a writer holds in cur was the open epoch at some time, and from the store
\* before the check on its slot shows it to the updater.
WriterInv ==
  \A t \in Threads :
    /\ pc[t] \in WriterPCs \ {"w_load"} => cur[t] \in 1 .. cur_
    /\ pc[t] = "w_verify" \/ Registered(t) => active_transactions[t] = cur[t]

SafeInv == \A t \in Threads : Registered(t) => SafeEpoch(cur[t], t)

\* Whatever the GC is about to use as its bound is no later than the epoch of a
\* pinned reader.
PinInv ==
  \A t \in Threads :
    /\ pc[t] = "r_verify" \/ Pinned(t) => active_read_epochs[t] = re[t]
    /\ Pinned(t) =>
         /\ apc["updater"] = "u_scanread" /\ t < scan
              => MinOf(min_read_epoch, min12) <= re[t]
         /\ apc["updater"] \in {"u_min", "u_scan", "u_gc"} => min_read_epoch <= re[t]

-----------------------------------------------------------------------------
(* Properties.                                                             *)

TypeManager ==
  /\ cur_ \in 1 .. MaxEpoch
  /\ read_epoch_ \in 0 .. MaxEpoch
  /\ read_epoch_cur_ \in 0 .. MAXSIMULBATCH - 1
  /\ active_txns_ \in [0 .. MAXSIMULBATCH - 1 -> 0 .. MaxEpoch]
  /\ is_create \in {0, 1}
  /\ active_transactions \in [Threads -> (1 .. MaxEpoch) \cup {NoTransaction}]
  /\ active_read_epochs \in [Threads -> (0 .. MaxEpoch) \cup {NoTransaction}]
  /\ min_epoch \in Epochs
  /\ min_read_epoch \in Epochs
  /\ g_oldest_epoch \in Epochs
  /\ mtx_ \in {"free"} \cup Agents

TypeFlags ==
  /\ no_more_txn_ \in BOOLEAN
  /\ stopped \in BOOLEAN

TypeQueue ==
  /\ vb_que_ \in Seq(0 .. MaxEpoch)
  /\ deleted \subseteq 0 .. MaxEpoch

TypeThreads ==
  /\ pc \in [Threads -> {"idle"} \cup WriterPCs \cup ReaderPCs]
  /\ cur \in [Threads -> 0 .. MaxEpoch]
  /\ vb_data \in [Threads -> 0 .. MaxEpoch]
  /\ re \in [Threads -> 0 .. MaxEpoch]
  /\ vbdata_ro \in [Threads -> 0 .. MaxEpoch]

TypeAgents ==
  /\ apc \in [Agents -> CommitPCs \cup UpdaterPCs \cup MainPCs]
  /\ scan \in 0 .. max_threads
  /\ min12 \in Epochs \cup {NoTransaction}
  /\ last \in Epochs
  /\ target \in [Agents -> Epochs]
  /\ vbdata \in [Agents -> 0 .. MaxEpoch]

\* Every member and local has a value of its type: epochs stay far below the
\* NO_TRANSACTION sentinel and ring indices inside the ring.
TypeOK == TypeManager /\ TypeFlags /\ TypeQueue /\ TypeThreads /\ TypeAgents

\* No registered write transaction belongs to an epoch that is published, or
\* whose write buffers commitVersionBlock has already transformed: what it
\* writes now would never be transformed, and would change a snapshot that
\* readers already use.
PublishedEpochsQuiescent ==
  \A t \in Threads :
    Registered(t) =>
      /\ cur[t] > read_epoch_
      /\ (\E a \in Agents : apc[a] = "c_publish") => cur[t] > read_epoch_ + 1

\* At most MAXSIMULBATCH epochs are unpublished, and each of them still has its
\* own VBData in its ring slot: opening an epoch never overwrites the VBData of
\* an epoch still to be published.
RingHoldsUnpublished ==
  /\ cur_ - read_epoch_ <= MAXSIMULBATCH
  /\ \A e \in read_epoch_ + 1 .. cur_ : active_txns_[Slot(e)] = e

\* The VBData a registered writer took from the ring is the one of its epoch,
\* and GC has not deleted it under the writer.
WriterOwnsVBData ==
  \A t \in Threads :
    Registered(t) /\ pc[t] # "w_take" =>
      vb_data[t] = cur[t] /\ vb_data[t] \notin deleted

\* GC's queue and what GC has deleted are exactly the transformed epochs, each
\* once and in order: no VBData is transformed or deleted twice, none is lost.
PublishedOnceInOrder ==
  \E k \in 0 .. MaxEpoch :
    /\ deleted = 1 .. k
    /\ \A i \in 1 .. Len(vb_que_) : vb_que_[i] = k + i
    /\ k + Len(vb_que_) = read_epoch_ +
         (IF \E a \in Agents : apc[a] = "c_publish" THEN 1 ELSE 0)

\* A reader that reads at epoch e still needs the version blocks of every
\* later epoch (they hold what the later epochs overwrote).
Needed(t) == {e \in 1 .. read_epoch_ : e > re[t]}

SparesPinned ==
  \A t \in Threads : Pinned(t) => (deleted' \ deleted) \cap Needed(t) = {}

\* The GC never deletes a version block that a reader which has passed the
\* min_read_epoch check needs at that moment.
GCKeepsPinned == [][SparesPinned]_vars

\* Everything a pinned reader needs is still there: the promise "keeps old
\* versions pinned until the call finishes" of README.md.
PinnedVersionsExist ==
  \A t \in Threads : Pinned(t) => deleted \cap Needed(t) = {}

\* The GC watermark g_oldest_epoch never moves backwards.
WatermarkMonotone == [][g_oldest_epoch' >= g_oldest_epoch]_vars

RetriesNewer ==
  \A t \in Threads :
    pc[t] = "r_verify" /\ pc'[t] = "r_load" => re[t] < read_epoch_

\* registerROTransaction's do-while goes round again only when another epoch has been
\* published since the reader loaded read_epoch_: a reader that is overtaken for ever
\* is overtaken by publications, and a manager at rest never turns a reader away.
ReaderRetryProgresses == [][RetriesNewer]_vars

\* The VBData a fine-grained reader dereferences in registerROTransaction has
\* been constructed and has not been deleted.
CaptureLive ==
  \A t \in Threads :
    pc[t] = "r_deref" => vbdata_ro[t] # 0 /\ vbdata_ro[t] \notin deleted

\* As long as the write phase is open it is so: the slot read_epoch_cur_ holds the
\* open epoch or one before it, and the reader's own pin keeps that one.
CaptureLiveWhileOpen == ~no_more_txn_ => CaptureLive

\* When FinalizeNoMoreTxn returns, every epoch that was ever opened is
\* published, the open one included, and nothing is published after that.
FinalizePublishesAll ==
  apc["main"] = "m_done" =>
    /\ read_epoch_ = cur_
    /\ apc["updater"] = "u_done"

\* Every call of registerTransaction ends with the transaction registered,
\* even if it has to wait for room in the ring.
RegistrationCompletes ==
  \A t \in Writers : pc[t] = "w_load" ~> pc[t] = "w_run"

\* An epoch that new writers no longer join is eventually published.
ClosedEpochsPublished ==
  \A e \in 1 .. MaxEpoch : cur_ > e ~> read_epoch_ >= e

\* After NoMoreTxn the background thread publishes the remaining epochs.
NoMoreTxnPublishesAll == no_more_txn_ ~> read_epoch_ = cur_

\* The inductive invariant: types, and who may change what when.
IInv == /\ TypeOK /\ CreateInv /\ CommitInv /\ OpenInv
        /\ WriterInv /\ SafeInv /\ PinInv

-----------------------------------------------------------------------------
(* A second inductive invariant, relative to IInv: what the ring, GC's     *)
(* queue and the finalizing main thread hold.                              *)

\* The opener of the next epoch has found room in the ring, and fills the slot of
\* that epoch before cur_ moves to it.
RoomInv ==
  \A t \in Threads :
    /\ pc[t] \in {"w_cas", "w_new"} /\ cur[t] = cur_ => cur_ - read_epoch_ < MAXSIMULBATCH
    /\ pc[t] = "w_inc" => /\ cur_ - read_epoch_ < MAXSIMULBATCH
                          /\ active_txns_[Slot(cur_ + 1)] = cur_ + 1

\* A writer took the VBData of its own epoch from the ring.
TakenInv ==
  \A t \in Threads : Registered(t) /\ pc[t] # "w_take" => vb_data[t] = cur[t]

\* read_epoch_cur_ is the slot of the first unpublished epoch, except in the moment
\* after a publication, and a committer that goes on has the VBData of that epoch.
CommitterInv ==
  /\ \A a \in Agents :
       /\ apc[a] = "c_next" => read_epoch_ > 0 /\ read_epoch_cur_ = Slot(read_epoch_)
       /\ apc[a] \in {"c_loop", "c_publish"} /\ read_epoch_ + 1 < target[a]
            => vbdata[a] = read_epoch_ + 1
  /\ (\A a \in Agents : apc[a] # "c_next") => read_epoch_cur_ = Slot(read_epoch_ + 1)

\* The watermark never passes what is published, nor does a reader's epoch; in the
\* fine-grained build what is deleted is older than the last published epoch.
WatermarkInv ==
  /\ min_read_epoch <= read_epoch_
  /\ \A t \in Threads : re[t] <= read_epoch_
  /\ FINEGRAIN => \A e \in deleted : e < read_epoch_

\* While the write phase is open, what a reader captures is not older than its pin,
\* also from the slot that a committer is about to leave.
CaptureInv ==
  /\ \A a \in Agents : apc[a] = "c_next" => active_txns_[read_epoch_cur_] >= read_epoch_
  /\ \A t \in Threads :
       /\ pc[t] \in {"r_guard", "r_slot", "r_deref"} => FINEGRAIN
       /\ pc[t] = "r_deref" /\ ~no_more_txn_ =>
            vbdata_ro[t] > 0 /\ vbdata_ro[t] >= re[t] /\ vbdata_ro[t] \notin deleted

\* From StopUpdater on the main thread only finalizes; once the updater has gone it
\* publishes up to the open epoch, which does not move any more.
FinalInv ==
  /\ stopped => /\ no_more_txn_
                /\ apc["main"] \in {"m_join", "m_finalize", "m_done"} \cup CommitPCs
  /\ apc["main"] \in {"m_join", "m_finalize", "m_done"} => stopped
  /\ stopped /\ apc["main"] # "m_join" => apc["updater"] = "u_done"
  /\ stopped /\ apc["main"] \in CommitPCs => target["main"] = cur_ + 1
  /\ apc["main"] = "m_done" => read_epoch_ = cur_

RingInv == /\ RingHoldsUnpublished /\ RoomInv /\ TakenInv /\ CommitterInv
           /\ PublishedOnceInOrder /\ WatermarkInv /\ CaptureInv /\ FinalInv

\* The manager implements the abstract epoch protocol.
Protocol == INSTANCE EpochProtocol WITH
  Ring <- MAXSIMULBATCH,
  open <- cur_,
  published <- read_epoch_,
  member <- [t \in Threads |-> IF Registered(t) THEN cur[t] ELSE 0],
  closed <- no_more_txn_

ImplementsProtocol == Protocol!Spec
=============================================================================
