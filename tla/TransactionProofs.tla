-------------------------- MODULE TransactionProofs --------------------------
(***************************************************************************)
(* Proofs, for every set of threads, vertices and programs, about          *)
(* Transaction: the locks of the vertices and the lists EB_vec_ agree, as  *)
(* long as a transaction that has written ends with commit; the writes     *)
(* that a read of a published epoch covers, and the first writes that a    *)
(* fine-grained read covers, have been accepted when it scans; and in      *)
(* every circle of waiting somebody has asked for vertices out of order.   *)
(***************************************************************************)
EXTENDS Transaction, TLAPS, SequenceTheorems, FiniteSetTheorems, FunctionTheorems,
        WellFoundedInduction

TxnType ==
  [state : {"none", "registered", "open", "committing"}, id : Nat, epoch_ : 0 .. MaxEpoch,
   read_epoch_ : Nat, write_only_ : BOOLEAN, intra_c_ : Nat, finish : {"commit", "COMMIT"},
   todo : Seq(Call), queued : Seq(Vertices), EB_vec_ : Seq(Vertices),
   tried : Seq(Vertices)]

\* What the locks need to know of types.
LockTypes ==
  /\ txn \in [Threads -> TxnType]
  /\ \A t \in Threads : txn[t].state # "none" => txn[t].epoch_ \in Epochs
  /\ spin_rw_lock \in [Vertices -> Threads \cup {NoThread}]
  /\ cur_ \in Epochs /\ read_epoch_ \in Nat /\ begun \in Nat
  /\ intra_counter_ \in [Epochs -> Nat]

\* A transaction that ends with COMMIT never asks for a lock.
CommitTakesNone ==
  \A t \in Threads : txn[t].finish = "COMMIT" =>
    txn[t].todo = << >> /\ txn[t].queued = << >> /\ txn[t].EB_vec_ = << >>

\* A thread without a transaction has no list.
RestsEmpty == \A t \in Threads : txn[t].state = "none" => txn[t].EB_vec_ = << >>

LocksInv == LockTypes /\ CommitTakesNone /\ RestsEmpty /\ LocksOwned

\* The locks and the lists of one thread agree.
Owns(t) ==
  /\ \A v \in Vertices : spin_rw_lock[v] = t <=> v \in Range(txn[t].EB_vec_)
  /\ \A i, j \in DOMAIN txn[t].EB_vec_ : txn[t].EB_vec_[i] = txn[t].EB_vec_[j] => i = j

\* Nothing has been registered and every lock is free.
LEMMA LocksInit == Init => LocksInv
BY TransactionAssumption
DEF Init, NoTxn, LocksInv, LockTypes, TxnType, CommitTakesNone, RestsEmpty, LocksOwned,
    Range, Epochs

\* An element that is put behind a sequence without it.
LEMMA AppendRange ==
  ASSUME NEW S, NEW s \in Seq(S), NEW e \in S,
         e \notin Range(s), \A i, j \in DOMAIN s : s[i] = s[j] => i = j
  PROVE  /\ Append(s, e) \in Seq(S)
         /\ Range(Append(s, e)) = Range(s) \cup {e}
         /\ \A i, j \in DOMAIN Append(s, e) : Append(s, e)[i] = Append(s, e)[j] => i = j
<1>1. /\ Append(s, e) \in Seq(S) /\ Len(s) \in Nat
      /\ DOMAIN s = 1 .. Len(s) /\ DOMAIN Append(s, e) = 1 .. Len(s) + 1
      /\ \A i \in 1 .. Len(s) : Append(s, e)[i] = s[i]
      /\ Append(s, e)[Len(s) + 1] = e
  OBVIOUS
<1>2. Range(Append(s, e)) = Range(s) \cup {e}
  BY <1>1 DEF Range
<1>3. \A i \in 1 .. Len(s) : s[i] # e
  BY <1>1 DEF Range
<1> QED
  BY <1>1, <1>2, <1>3

\* A sequence without its first element, when no element occurs twice.
LEMMA TailRange ==
  ASSUME NEW S, NEW s \in Seq(S), s # << >>,
         \A i, j \in DOMAIN s : s[i] = s[j] => i = j
  PROVE  /\ Tail(s) \in Seq(S)
         /\ Range(Tail(s)) = Range(s) \ {Head(s)}
         /\ Head(s) \in S
         /\ \A i, j \in DOMAIN Tail(s) : Tail(s)[i] = Tail(s)[j] => i = j
<1>1. /\ Tail(s) \in Seq(S) /\ Len(s) \in Nat /\ Len(s) > 0 /\ Head(s) = s[1]
      /\ DOMAIN s = 1 .. Len(s) /\ DOMAIN Tail(s) = 1 .. Len(s) - 1
      /\ \A i \in 1 .. Len(s) - 1 : Tail(s)[i] = s[i + 1]
  BY EmptySeq
<1>2. ASSUME NEW x \in Range(s), x # Head(s) PROVE x \in Range(Tail(s))
  <2>1. PICK i \in 1 .. Len(s) : x = s[i]
    BY <1>1 DEF Range
  <2>2. i - 1 \in 1 .. Len(s) - 1 /\ Tail(s)[i - 1] = s[i]
    BY <1>1, <1>2, <2>1
  <2> QED
    BY <1>1, <2>1, <2>2 DEF Range
<1>3. ASSUME NEW x \in Range(Tail(s)) PROVE x \in Range(s) /\ x # Head(s)
  <2>1. PICK i \in 1 .. Len(s) - 1 : x = s[i + 1]
    BY <1>1 DEF Range
  <2>2. i + 1 \in DOMAIN s /\ 1 \in DOMAIN s /\ i + 1 # 1
    BY <1>1
  <2> QED
    BY <1>1, <2>1, <2>2 DEF Range
<1>4. Range(Tail(s)) = Range(s) \ {Head(s)}
  BY <1>2, <1>3
<1>5. ASSUME NEW i \in 1 .. Len(s) - 1, NEW j \in 1 .. Len(s) - 1, Tail(s)[i] = Tail(s)[j]
      PROVE  i = j
  <2>1. i + 1 \in DOMAIN s /\ j + 1 \in DOMAIN s /\ s[i + 1] = s[j + 1]
    BY <1>1, <1>5
  <2>2. i + 1 = j + 1
    BY <2>1
  <2> QED
    BY <2>2
<1> QED
  BY <1>1, <1>4, <1>5

\* A step in which thread t goes on with the transaction x, and with the same locks.
LEMMA SameLocks ==
  ASSUME LocksInv, NEW t \in Threads, NEW x \in TxnType,
         txn' = [txn EXCEPT ![t] = x], x.EB_vec_ = txn[t].EB_vec_,
         x.state # "none" => x.epoch_ \in Epochs, x.state = "none" => x.EB_vec_ = << >>,
         x.finish = "COMMIT" => x.todo = << >> /\ x.queued = << >> /\ x.EB_vec_ = << >>,
         spin_rw_lock' = spin_rw_lock,
         cur_' \in Epochs, read_epoch_' \in Nat, begun' \in Nat,
         intra_counter_' \in [Epochs -> Nat]
  PROVE  LocksInv'
<1>1. txn'[t] = x /\ \A u \in Threads : u # t => txn'[u] = txn[u]
  BY DEF LocksInv, LockTypes
<1>2. LockTypes'
  BY <1>1 DEF LocksInv, LockTypes
<1>3. CommitTakesNone' /\ RestsEmpty'
  BY <1>1 DEF LocksInv, CommitTakesNone, RestsEmpty
<1>4. \A u \in Threads : txn'[u].EB_vec_ = txn[u].EB_vec_
  BY <1>1
<1>5. LocksOwned'
  BY <1>4 DEF LocksInv, LocksOwned
<1> QED
  BY <1>2, <1>3, <1>5 DEF LocksInv

\* The call at the head of a transaction's program, and the rest of it.
LEMMA CallTypes ==
  ASSUME LocksInv, NEW t \in Threads, Open(t), txn[t].todo # << >>
  PROVE  /\ NextCall(t) \in Call /\ Tail(txn[t].todo) \in Seq(Call)
         /\ txn[t] \in TxnType /\ txn[t].epoch_ \in Epochs /\ txn[t].finish = "commit"
<1>1. txn[t] \in TxnType /\ txn[t].todo \in Seq(Call)
  BY DEF LocksInv, LockTypes, TxnType
<1>2. txn[t].epoch_ \in Epochs /\ txn[t].finish = "commit"
  BY <1>1 DEF LocksInv, LockTypes, CommitTakesNone, Open, TxnType
<1> QED
  BY <1>1, <1>2, EmptySeq DEF NextCall

\* The vertex of a single write.
LEMMA CallVertex ==
  ASSUME LocksInv, NEW t \in Threads,
         Calling(t, "insertedge") \/ Calling(t, "deletedge") \/ Calling(t, "INSERT1")
  PROVE  NextCall(t).v \in Vertices
<1>1. NextCall(t) \in Call
  BY CallTypes DEF Calling
<1> QED
  BY <1>1 DEF Calling, Call

\* A refused write keeps nothing.
LEMMA RefuseKeeps ==
  ASSUME LocksInv, NEW t \in Threads, Open(t), txn[t].todo # << >>, NEW v \in Vertices,
         NEW old, Refuse(t, v, old), UNCHANGED <<cur_, read_epoch_, begun>>
  PROVE  LocksInv'
<1> DEFINE x == Returned(txn[t], v)
<1>1. /\ txn[t] \in TxnType /\ Tail(txn[t].todo) \in Seq(Call) /\ txn[t].epoch_ \in Epochs
      /\ txn[t].finish = "commit"
  BY CallTypes
<1>2. Append(txn[t].tried, v) \in Seq(Vertices)
  BY <1>1 DEF TxnType
<1>3. /\ x \in TxnType /\ x.EB_vec_ = txn[t].EB_vec_ /\ x.epoch_ \in Epochs
      /\ x.finish = "commit" /\ x.state = "open"
  BY <1>1, <1>2 DEF Returned, TxnType, Open
<1>4. /\ txn' = [txn EXCEPT ![t] = x] /\ spin_rw_lock' = spin_rw_lock
      /\ cur_' \in Epochs /\ read_epoch_' \in Nat /\ begun' \in Nat
      /\ intra_counter_' \in [Epochs -> Nat]
  BY DEF Refuse, LocksInv, LockTypes
<1> HIDE DEF x
<1> QED
  BY <1>3, <1>4, SameLocks

\* An accepted write locks its vertex and puts it into EB_vec_.
LEMMA AcceptLocks ==
  ASSUME LocksInv, NEW t \in Threads, Open(t), txn[t].todo # << >>, NEW v \in Vertices,
         spin_rw_lock[v] = NoThread, NEW old, NEW del, NEW last_epoch,
         Accept(t, v, old, del, last_epoch), UNCHANGED <<cur_, read_epoch_, begun>>
  PROVE  LocksInv'
<1> DEFINE x == [Returned(txn[t], v) EXCEPT !.intra_c_ = Drawn(txn[t]),
                                            !.EB_vec_ = Append(@, v)]
<1>1. /\ txn[t] \in TxnType /\ Tail(txn[t].todo) \in Seq(Call) /\ txn[t].epoch_ \in Epochs
      /\ txn[t].finish = "commit"
  BY CallTypes
<1>2. v \notin Range(txn[t].EB_vec_)
  BY TransactionAssumption DEF LocksInv, LocksOwned
<1>3. /\ Append(txn[t].EB_vec_, v) \in Seq(Vertices)
      /\ Range(Append(txn[t].EB_vec_, v)) = Range(txn[t].EB_vec_) \cup {v}
      /\ LET s == Append(txn[t].EB_vec_, v)
         IN  \A i, j \in DOMAIN s : s[i] = s[j] => i = j
  <2>1. txn[t].EB_vec_ \in Seq(Vertices)
    BY <1>1 DEF TxnType
  <2>2. \A i, j \in DOMAIN txn[t].EB_vec_ : txn[t].EB_vec_[i] = txn[t].EB_vec_[j] => i = j
    BY DEF LocksInv, LocksOwned
  <2> QED
    BY <1>2, <2>1, <2>2, AppendRange
<1>4. Append(txn[t].tried, v) \in Seq(Vertices)
  BY <1>1 DEF TxnType
<1>5. Drawn(txn[t]) \in Nat /\ get_intra_c(txn[t]) \in [Epochs -> Nat]
  BY <1>1 DEF Drawn, get_intra_c, LocksInv, LockTypes, TxnType
<1>6. /\ x \in TxnType /\ x.epoch_ \in Epochs /\ x.finish = "commit"
      /\ x.EB_vec_ = Append(txn[t].EB_vec_, v) /\ x.state = "open"
  BY <1>1, <1>3, <1>4, <1>5 DEF Returned, TxnType, Open
<1>7. txn' = [txn EXCEPT ![t] = x] /\ spin_rw_lock' = [spin_rw_lock EXCEPT ![v] = t]
      /\ intra_counter_' = get_intra_c(txn[t])
  BY DEF Accept
<1> HIDE DEF x
<1>8. /\ txn'[t] = x /\ \A u \in Threads : u # t => txn'[u] = txn[u]
      /\ spin_rw_lock'[v] = t /\ \A w \in Vertices : w # v => spin_rw_lock'[w] = spin_rw_lock[w]
  BY <1>7 DEF LocksInv, LockTypes
<1>9. LockTypes' /\ CommitTakesNone' /\ RestsEmpty'
  BY <1>5, <1>6, <1>7, <1>8 DEF LocksInv, LockTypes, CommitTakesNone, RestsEmpty
<1>10. LocksOwned'
  <2> SUFFICES ASSUME NEW u \in Threads
               PROVE  Owns(u)'
    BY DEF LocksOwned, Owns
  <2>1. CASE u = t
    <3>1. txn'[u].EB_vec_ = Append(txn[t].EB_vec_, v)
      BY <1>6, <1>8, <2>1
    <3>2. \A w \in Vertices : spin_rw_lock'[w] = u <=> w \in Range(txn'[u].EB_vec_)
      <4>1. \A w \in Vertices : spin_rw_lock[w] = u <=> w \in Range(txn[t].EB_vec_)
        BY <2>1 DEF LocksInv, LocksOwned
      <4> QED
        BY <1>3, <1>8, <2>1, <3>1, <4>1, ZenonT(30)
    <3>3. \A i, j \in DOMAIN txn'[u].EB_vec_ : txn'[u].EB_vec_[i] = txn'[u].EB_vec_[j] => i = j
      BY <1>3, <3>1
    <3> QED
      BY <3>2, <3>3 DEF Owns
  <2>2. CASE u # t
    <3>1. v \notin Range(txn[u].EB_vec_)
      BY TransactionAssumption DEF LocksInv, LocksOwned
    <3> QED
      BY <1>8, <2>2, <3>1 DEF LocksInv, LocksOwned, Owns
  <2> QED
    BY <2>1, <2>2
<1> QED
  BY <1>9, <1>10 DEF LocksInv

\* commit gives the locks back one by one, in the order in which they were taken.
LEMMA UnleashFrees ==
  ASSUME LocksInv, NEW t \in Threads, unleashReadLock(t)
  PROVE  LocksInv'
<1> DEFINE s == txn[t].EB_vec_
           v == Head(s)
           x == [txn[t] EXCEPT !.EB_vec_ = Tail(s)]
<1>1. txn[t] \in TxnType /\ s \in Seq(Vertices) /\ s # << >>
  BY DEF unleashReadLock, LocksInv, LockTypes, TxnType
<1>2. \A i, j \in DOMAIN s : s[i] = s[j] => i = j
  BY DEF LocksInv, LocksOwned
<1>3. /\ Tail(s) \in Seq(Vertices) /\ Range(Tail(s)) = Range(s) \ {v} /\ v \in Vertices
      /\ \A i, j \in DOMAIN Tail(s) : Tail(s)[i] = Tail(s)[j] => i = j
  BY <1>1, <1>2, TailRange
<1>4. v \in Range(s)
  BY <1>1, EmptySeq DEF Range
<1>5. spin_rw_lock[v] = t
  BY <1>3, <1>4 DEF LocksInv, LocksOwned
<1>6. /\ x \in TxnType /\ x.EB_vec_ = Tail(s) /\ x.state = "committing"
      /\ x.epoch_ \in Epochs /\ x.finish = txn[t].finish
  BY <1>1, <1>3 DEF TxnType, unleashReadLock, LocksInv, LockTypes
<1>7. txn[t].finish # "COMMIT"
  BY <1>1 DEF LocksInv, CommitTakesNone
<1>8. /\ txn' = [txn EXCEPT ![t] = x] /\ spin_rw_lock' = [spin_rw_lock EXCEPT ![v] = NoThread]
      /\ UNCHANGED <<intra_counter_, cur_, read_epoch_, begun>>
  BY DEF unleashReadLock, epochVars
<1> HIDE DEF x, v
<1>9. /\ txn'[t] = x /\ \A u \in Threads : u # t => txn'[u] = txn[u]
      /\ spin_rw_lock'[v] = NoThread
      /\ \A w \in Vertices : w # v => spin_rw_lock'[w] = spin_rw_lock[w]
  BY <1>3, <1>8 DEF LocksInv, LockTypes
<1>10. LockTypes' /\ CommitTakesNone' /\ RestsEmpty'
  BY <1>3, <1>6, <1>7, <1>8, <1>9 DEF LocksInv, LockTypes, CommitTakesNone, RestsEmpty
<1>11. LocksOwned'
  <2> SUFFICES ASSUME NEW u \in Threads
               PROVE  Owns(u)'
    BY DEF LocksOwned, Owns
  <2>0. NoThread # u
    BY TransactionAssumption
  <2>1. CASE u = t
    <3>1. txn'[u].EB_vec_ = Tail(s)
      BY <1>6, <1>9, <2>1
    <3>2. \A w \in Vertices : spin_rw_lock'[w] = u <=> w \in Range(txn'[u].EB_vec_)
      <4>1. \A w \in Vertices : spin_rw_lock[w] = u <=> w \in Range(s)
        BY <2>1 DEF LocksInv, LocksOwned
      <4> QED
        BY <1>3, <1>9, <2>0, <2>1, <3>1, <4>1
    <3>3. \A i, j \in DOMAIN txn'[u].EB_vec_ : txn'[u].EB_vec_[i] = txn'[u].EB_vec_[j] => i = j
      BY <1>3, <3>1
    <3> QED
      BY <3>2, <3>3 DEF Owns
  <2>2. CASE u # t
    <3>1. v \notin Range(txn[u].EB_vec_)
      BY <1>3, <1>5, <2>2 DEF LocksInv, LocksOwned
    <3> QED
      BY <1>9, <2>0, <2>2, <3>1 DEF LocksInv, LocksOwned, Owns
  <2> QED
    BY <2>1, <2>2
<1> QED
  BY <1>10, <1>11 DEF LocksInv

\* Every step keeps locks and lists in agreement.
LEMMA LocksStep ==
  ASSUME \A p \in Programs : p.finish = "COMMIT" => p.calls = << >>,
         LocksInv, [Next]_vars
  PROVE  LocksInv'
<1>0. /\ cur_ \in Epochs /\ read_epoch_ \in Nat /\ begun \in Nat
      /\ intra_counter_ \in [Epochs -> Nat] /\ MaxEpoch \in Nat
      /\ \A t \in Threads : txn[t] \in TxnType
  BY TransactionAssumption DEF LocksInv, LockTypes
<1>1. ASSUME NEW t \in Threads, registerTransaction(t) PROVE LocksInv'
  <2>1. PICK p \in Programs :
          txn' = [txn EXCEPT ![t] = [NoTxn EXCEPT !.state = "registered", !.id = begun + 1,
                    !.epoch_ = cur_, !.write_only_ = p.write_only_, !.todo = p.calls,
                    !.finish = p.finish]]
    BY <1>1 DEF registerTransaction
  <2> DEFINE x == [NoTxn EXCEPT !.state = "registered", !.id = begun + 1,
                    !.epoch_ = cur_, !.write_only_ = p.write_only_, !.todo = p.calls,
                    !.finish = p.finish]
  <2>2. /\ p.calls \in Seq(Call) /\ p.write_only_ \in BOOLEAN
        /\ p.finish \in {"commit", "COMMIT"} /\ cur_ \in 0 .. MaxEpoch
    BY <1>0, TransactionAssumption DEF Epochs
  <2>3. x \in TxnType
    <3>1. NoTxn \in TxnType
      BY <1>0 DEF NoTxn, TxnType
    <3>2. begun + 1 \in Nat /\ cur_ \in 0 .. MaxEpoch
      BY <1>0, <2>2
    <3> QED
      BY <2>2, <3>1, <3>2 DEF TxnType
  <2>4. /\ x.EB_vec_ = << >> /\ x.epoch_ \in Epochs /\ x.queued = << >>
        /\ x.finish = "COMMIT" => x.todo = << >>
    BY <1>0 DEF NoTxn
  <2>5. txn[t].EB_vec_ = << >>
    BY <1>1 DEF registerTransaction, LocksInv, RestsEmpty
  <2>6. /\ spin_rw_lock' = spin_rw_lock /\ begun' \in Nat
        /\ UNCHANGED <<cur_, read_epoch_, intra_counter_>>
    BY <1>0, <1>1 DEF registerTransaction, storeVars, epochVars
  <2> HIDE DEF x
  <2> QED
    BY <1>0, <2>1, <2>3, <2>4, <2>5, <2>6, SameLocks DEF x
<1>2. ASSUME NEW t \in Threads, set_read_epoch(t) PROVE LocksInv'
  <2> DEFINE x == [txn[t] EXCEPT !.state = "open", !.read_epoch_ = read_epoch_]
  <2>1. /\ x \in TxnType /\ x.EB_vec_ = txn[t].EB_vec_ /\ x.todo = txn[t].todo
        /\ x.queued = txn[t].queued /\ x.finish = txn[t].finish /\ x.state = "open"
        /\ x.epoch_ \in Epochs
    BY <1>0, <1>2 DEF TxnType, set_read_epoch, LocksInv, LockTypes
  <2>2. /\ txn' = [txn EXCEPT ![t] = x]
        /\ UNCHANGED <<spin_rw_lock, cur_, read_epoch_, intra_counter_, begun>>
    BY <1>2 DEF set_read_epoch, storeVars, epochVars
  <2> HIDE DEF x
  <2> QED
    BY <1>0, <2>1, <2>2, SameLocks DEF LocksInv, CommitTakesNone
<1>3. ASSUME NEW t \in Threads, NEW q \in Seq(Vertices), NEW rest \in Seq(Call),
             Open(t), txn[t].todo # << >>,
             txn' = [txn EXCEPT ![t].queued = q, ![t].todo = rest],
             UNCHANGED <<spin_rw_lock, cur_, read_epoch_, intra_counter_, begun>>
      PROVE  LocksInv'
  <2> DEFINE x == [txn[t] EXCEPT !.queued = q, !.todo = rest]
  <2>0. txn[t].finish = "commit" /\ txn[t].epoch_ \in Epochs
    BY <1>3, CallTypes
  <2>1. /\ x \in TxnType /\ x.EB_vec_ = txn[t].EB_vec_ /\ x.finish = "commit"
        /\ x.state = "open" /\ x.epoch_ \in Epochs
    BY <1>0, <1>3, <2>0 DEF TxnType, Open
  <2>2. txn' = [txn EXCEPT ![t] = x]
    BY <1>3
  <2> HIDE DEF x
  <2> QED
    BY <1>0, <1>3, <2>1, <2>2, SameLocks
<1>4. ASSUME NEW t \in Threads, INSERT1(t) PROVE LocksInv'
  <2>1. Append(txn[t].queued, NextCall(t).v) \in Seq(Vertices)
    BY <1>0, <1>4, CallVertex DEF INSERT1, TxnType
  <2>2. Tail(txn[t].todo) \in Seq(Call)
    BY <1>4, CallTypes DEF INSERT1, Calling
  <2> QED
    BY <1>3, <1>4, <2>1, <2>2 DEF INSERT1, Calling, storeVars, epochVars
<1>5. ASSUME NEW t \in Threads, INSERT(t) PROVE LocksInv'
  <2> DEFINE batch == NextCall(t).batch
             q == txn[t].queued \o (IF txn[t].queued = << >> THEN batch ELSE Tail(batch))
  <2>1. NextCall(t) \in Call /\ NextCall(t).op = "INSERT" /\ Tail(txn[t].todo) \in Seq(Call)
    BY <1>5, CallTypes DEF INSERT, Calling
  <2>2. batch \in Seq(Vertices) \ {<< >>}
    BY <2>1 DEF Call
  <2>3. q \in Seq(Vertices)
    BY <1>0, <2>2 DEF TxnType
  <2> QED
    BY <1>3, <1>5, <2>1, <2>3 DEF INSERT, Calling, storeVars, epochVars
<1>6. ASSUME NEW t \in Threads, execute(t) PROVE LocksInv'
  <2> DEFINE q == txn[t].queued
             inserts == [i \in DOMAIN q |-> [op |-> "insertedge", v |-> q[i]]]
             rest == inserts \o Tail(txn[t].todo)
  <2>1. q \in Seq(Vertices) /\ Tail(txn[t].todo) \in Seq(Call)
    BY <1>0, <1>6, CallTypes DEF execute, Calling, TxnType
  <2>2. inserts \in Seq(Call)
    <3>1. \A i \in DOMAIN q : [op |-> "insertedge", v |-> q[i]] \in Call
      BY <2>1 DEF Call
    <3>2. DOMAIN q = 1 .. Len(q) /\ Len(q) \in Nat
      BY <2>1
    <3> QED
      BY <3>1, <3>2
  <2>3. rest \in Seq(Call)
    BY <2>1, <2>2
  <2>4. txn' = [txn EXCEPT ![t].queued = q, ![t].todo = rest]
    BY <1>0, <1>6 DEF execute, TxnType
  <2> HIDE DEF q, rest
  <2> QED
    BY <1>3, <1>6, <2>1, <2>3, <2>4 DEF execute, Calling, storeVars, epochVars
<1>7. ASSUME NEW t \in Threads, insertedge(t) PROVE LocksInv'
  <2>1. NextCall(t).v \in Vertices /\ Open(t) /\ txn[t].todo # << >>
    BY <1>7, CallVertex DEF insertedge, Calling
  <2> QED
    BY <1>7, <2>1, RefuseKeeps, AcceptLocks DEF insertedge
<1>8. ASSUME NEW t \in Threads, deletedge(t) PROVE LocksInv'
  <2>1. NextCall(t).v \in Vertices /\ Open(t) /\ txn[t].todo # << >>
    BY <1>8, CallVertex DEF deletedge, Calling
  <2> QED
    BY <1>8, <2>1, RefuseKeeps, AcceptLocks DEF deletedge
<1>9. ASSUME NEW t \in Threads, commit(t) PROVE LocksInv'
  <2> DEFINE x == [txn[t] EXCEPT !.state = "committing", !.intra_c_ = Drawn(txn[t])]
  <2>0. txn[t].epoch_ \in Epochs
    BY <1>9 DEF commit, Open, LocksInv, LockTypes
  <2>1. Drawn(txn[t]) \in Nat /\ get_intra_c(txn[t]) \in [Epochs -> Nat]
    BY <1>0, <2>0 DEF Drawn, get_intra_c, TxnType
  <2>2. /\ x \in TxnType /\ x.EB_vec_ = txn[t].EB_vec_ /\ x.finish = "commit"
        /\ x.state = "committing" /\ x.epoch_ \in Epochs
    BY <1>0, <1>9, <2>0, <2>1 DEF TxnType, commit
  <2>3. /\ txn' = [txn EXCEPT ![t] = x] /\ intra_counter_' = get_intra_c(txn[t])
        /\ UNCHANGED <<spin_rw_lock, cur_, read_epoch_, begun>>
    BY <1>9 DEF commit, storeVars
  <2> HIDE DEF x
  <2> QED
    BY <1>0, <2>1, <2>2, <2>3, SameLocks
<1>10. ASSUME NEW t \in Threads, COMMIT(t) PROVE LocksInv'
  <2> DEFINE x == [txn[t] EXCEPT !.state = "committing", !.EB_vec_ = << >>]
  <2>1. txn[t].EB_vec_ = << >> /\ txn[t].queued = << >> /\ txn[t].epoch_ \in Epochs
    BY <1>10 DEF COMMIT, Open, LocksInv, LockTypes, CommitTakesNone
  <2>2. /\ x \in TxnType /\ x.EB_vec_ = << >> /\ x.todo = << >> /\ x.queued = << >>
        /\ x.state = "committing" /\ x.epoch_ \in Epochs
    BY <1>0, <1>10, <2>1 DEF TxnType, COMMIT
  <2>3. /\ txn' = [txn EXCEPT ![t] = x]
        /\ UNCHANGED <<spin_rw_lock, cur_, read_epoch_, intra_counter_, begun>>
    BY <1>10 DEF COMMIT, storeVars, epochVars
  <2> HIDE DEF x
  <2> QED
    BY <1>0, <2>1, <2>2, <2>3, SameLocks
<1>11. ASSUME NEW t \in Threads, deregisterTransaction(t) PROVE LocksInv'
  <2>1. txn[t].EB_vec_ = << >> /\ txn' = [txn EXCEPT ![t] = NoTxn]
    BY <1>11 DEF deregisterTransaction
  <2>2. /\ NoTxn \in TxnType /\ NoTxn.EB_vec_ = << >> /\ NoTxn.state = "none"
        /\ NoTxn.finish = "commit"
    BY <1>0 DEF NoTxn, TxnType
  <2>3. UNCHANGED <<spin_rw_lock, cur_, read_epoch_, intra_counter_, begun>>
    BY <1>11 DEF deregisterTransaction, storeVars, epochVars
  <2> QED
    BY <1>0, <2>1, <2>2, <2>3, SameLocks
<1>12. ASSUME UNCHANGED <<txn, spin_rw_lock, intra_counter_>>, cur_' \in Epochs,
              read_epoch_' \in Nat, begun' \in Nat
       PROVE  LocksInv'
  BY <1>0, <1>12 DEF LocksInv, LockTypes, CommitTakesNone, RestsEmpty, LocksOwned
<1>13. ASSUME OpenEpoch \/ Publisher \/ registerROTransaction \/ Reader PROVE LocksInv'
  <2>1. UNCHANGED <<txn, spin_rw_lock, intra_counter_>>
    BY <1>13 DEF OpenEpoch, Publisher, BeginCommit, Publish, Transform, Reader,
       registerROTransaction, deregisterROTransaction, Scan, storeVars, epochVars
  <2>2. cur_' \in {cur_, cur_ + 1} /\ (cur_' # cur_ => cur_ < MaxEpoch)
    BY <1>13 DEF OpenEpoch, Publisher, BeginCommit, Publish, Transform, Reader,
       registerROTransaction, deregisterROTransaction, Scan, epochVars
  <2>3. read_epoch_' \in {read_epoch_, read_epoch_ + 1} /\ begun' \in {begun, begun + 1}
    BY <1>13 DEF OpenEpoch, Publisher, BeginCommit, Publish, Transform, Reader,
       registerROTransaction, deregisterROTransaction, Scan, epochVars
  <2>4. cur_' \in Epochs /\ read_epoch_' \in Nat /\ begun' \in Nat
    BY <1>0, <2>2, <2>3 DEF Epochs
  <2> QED
    BY <1>12, <2>1, <2>4
<1>14. ASSUME UNCHANGED vars PROVE LocksInv'
  BY <1>0, <1>12, <1>14 DEF vars, storeVars, epochVars
<1> QED
  BY <1>1, <1>2, <1>4, <1>5, <1>6, <1>7, <1>8, <1>9, <1>10, <1>11, <1>13, <1>14,
     UnleashFrees DEF Next, Step

\* Transaction's locks, for any number of threads and vertices and any programs: as
\* long as COMMIT, whose body is empty, ends only transactions that ask for nothing, a
\* vertex is locked exactly by the transaction that will release it in commit.
THEOREM LocksAlwaysOwned ==
  ASSUME \A p \in Programs : p.finish = "COMMIT" => p.calls = << >>
  PROVE  Spec => []LocksOwned
<1>1. LocksInv /\ [Next]_vars => LocksInv'
  BY LocksStep
<1>2. LocksInv => LocksOwned
  BY DEF LocksInv
<1> QED
  BY LocksInit, <1>1, <1>2, PTL DEF Spec

-----------------------------------------------------------------------------
(* The steps, as the history of accepted writes tells them apart.  From    *)
(* here on nothing is assumed of how a transaction ends.                   *)

Live(t) == txn[t].state # "none"

\* Accepted writes, as the history records them.
Entry == [id : Nat, ts : Epochs \X Nat, first : BOOLEAN]

Types == LockTypes /\ log \in [Vertices -> Seq(Entry)] /\ publishing \in BOOLEAN

\* The steps, as what the history and the readers can tell of them.
Others(t) == \A u \in Threads : u # t => txn'[u] = txn[u]

Registers(t) ==
  /\ ~Live(t) /\ Others(t)
  /\ txn'[t].state = "registered" /\ txn'[t].id = begun + 1 /\ txn'[t].epoch_ = cur_
  /\ txn'[t].intra_c_ = 0 /\ txn'[t].EB_vec_ = << >>
  /\ begun' = begun + 1
  /\ UNCHANGED <<log, intra_counter_, cur_, read_epoch_, publishing, reader>>

GoesOn(t) ==
  /\ Live(t) /\ Others(t)
  /\ \/ txn'[t].state = "open" /\ txn[t].state \in {"registered", "open"}
        /\ txn'[t].EB_vec_ = txn[t].EB_vec_
     \/ txn'[t].state = "committing"
  /\ txn'[t].id = txn[t].id /\ txn'[t].epoch_ = txn[t].epoch_
  /\ txn'[t].intra_c_ = txn[t].intra_c_
  /\ UNCHANGED <<log, intra_counter_, cur_, read_epoch_, publishing, reader, begun>>

Draws(t) ==
  /\ Live(t) /\ Others(t)
  /\ txn'[t].state = "committing" /\ txn'[t].id = txn[t].id /\ txn'[t].epoch_ = txn[t].epoch_
  /\ txn'[t].intra_c_ = Drawn(txn[t]) /\ intra_counter_' = get_intra_c(txn[t])
  /\ UNCHANGED <<log, cur_, read_epoch_, publishing, reader, begun>>

Accepts(t, v) ==
  /\ Open(t) /\ Others(t) /\ v \in Vertices
  /\ txn'[t].state = "open" /\ txn'[t].id = txn[t].id /\ txn'[t].epoch_ = txn[t].epoch_
  /\ txn'[t].EB_vec_ # << >>
  /\ txn'[t].intra_c_ = Drawn(txn[t]) /\ intra_counter_' = get_intra_c(txn[t])
  /\ log' = [log EXCEPT ![v] = Append(@, [id |-> txn[t].id,
                                          ts |-> <<txn[t].epoch_, Drawn(txn[t])>>,
                                          first |-> txn[t].EB_vec_ = << >>])]
  /\ UNCHANGED <<cur_, read_epoch_, publishing, reader, begun>>

Ends(t) ==
  /\ txn'[t].state = "none" /\ Others(t)
  /\ UNCHANGED <<log, intra_counter_, cur_, read_epoch_, publishing, reader, begun>>

\* A step changes the transaction of one thread.
LEMMA Updated ==
  ASSUME LockTypes, NEW t \in Threads, NEW x \in TxnType, txn' = [txn EXCEPT ![t] = x],
         x.state # "none" => x.epoch_ \in Epochs
  PROVE  /\ txn' \in [Threads -> TxnType] /\ txn'[t] = x /\ Others(t)
         /\ \A u \in Threads : txn'[u].state # "none" => txn'[u].epoch_ \in Epochs
BY DEF LockTypes, Others

\* The call of an open transaction, whatever its end.
LEMMA CallOf ==
  ASSUME LockTypes, NEW t \in Threads, Open(t), txn[t].todo # << >>
  PROVE  /\ NextCall(t) \in Call /\ Tail(txn[t].todo) \in Seq(Call)
         /\ txn[t] \in TxnType /\ txn[t].epoch_ \in Epochs
<1>1. txn[t] \in TxnType /\ txn[t].todo \in Seq(Call)
  BY DEF LockTypes, TxnType
<1>2. txn[t].epoch_ \in Epochs
  BY <1>1 DEF LockTypes, Open
<1> QED
  BY <1>1, <1>2, EmptySeq DEF NextCall

\* The vertex of a single write, whatever the end of the transaction.
LEMMA CallOfWrite ==
  ASSUME LockTypes, NEW t \in Threads,
         Calling(t, "insertedge") \/ Calling(t, "deletedge") \/ Calling(t, "INSERT1")
  PROVE  NextCall(t).v \in Vertices
<1>1. NextCall(t) \in Call
  BY CallOf DEF Calling
<1> QED
  BY <1>1 DEF Calling, Call

\* A drawn timestamp is positive, and drawing it keeps the counters.
LEMMA DrawnType ==
  ASSUME LockTypes, NEW t \in Threads, Live(t)
  PROVE  /\ Drawn(txn[t]) \in Nat \ {0} /\ get_intra_c(txn[t]) \in [Epochs -> Nat]
         /\ txn[t] \in TxnType /\ txn[t].epoch_ \in Epochs
BY DEF LockTypes, Live, TxnType, Drawn, get_intra_c

\* A refused write: the transaction goes on.
LEMMA RefuseEffect ==
  ASSUME Types, NEW t \in Threads, Open(t), txn[t].todo # << >>, NEW v \in Vertices,
         NEW old, Refuse(t, v, old), UNCHANGED <<cur_, read_epoch_, publishing, reader, begun>>
  PROVE  Types' /\ GoesOn(t)
<1> DEFINE x == Returned(txn[t], v)
<1>0. LockTypes
  BY DEF Types
<1>1. txn[t] \in TxnType /\ Tail(txn[t].todo) \in Seq(Call) /\ txn[t].epoch_ \in Epochs
  BY <1>0, CallOf
<1>2. Append(txn[t].tried, v) \in Seq(Vertices)
  BY <1>1 DEF TxnType
<1>3. /\ x \in TxnType /\ x.EB_vec_ = txn[t].EB_vec_ /\ x.epoch_ = txn[t].epoch_
      /\ x.id = txn[t].id /\ x.intra_c_ = txn[t].intra_c_ /\ x.state = "open"
  BY <1>1, <1>2 DEF Returned, TxnType, Open
<1>4. txn' = [txn EXCEPT ![t] = x] /\ UNCHANGED <<spin_rw_lock, intra_counter_, log>>
  BY DEF Refuse
<1> HIDE DEF x
<1>5. /\ txn' \in [Threads -> TxnType] /\ txn'[t] = x /\ Others(t)
      /\ \A u \in Threads : txn'[u].state # "none" => txn'[u].epoch_ \in Epochs
  BY <1>0, <1>1, <1>3, <1>4, Updated
<1>6. Types'
  BY <1>4, <1>5 DEF Types, LockTypes
<1> QED
  BY <1>3, <1>4, <1>5, <1>6 DEF GoesOn, Live, Open

\* An accepted write.
LEMMA AcceptEffect ==
  ASSUME Types, NEW t \in Threads, Open(t), txn[t].todo # << >>, NEW v \in Vertices,
         NEW old, NEW del, NEW last_epoch, Accept(t, v, old, del, last_epoch),
         UNCHANGED <<cur_, read_epoch_, publishing, reader, begun>>
  PROVE  Types' /\ Accepts(t, v)
<1> DEFINE x == [Returned(txn[t], v) EXCEPT !.intra_c_ = Drawn(txn[t]),
                                            !.EB_vec_ = Append(@, v)]
           l == [id |-> txn[t].id, ts |-> <<txn[t].epoch_, Drawn(txn[t])>>,
                 first |-> txn[t].EB_vec_ = << >>]
<1>0. LockTypes
  BY DEF Types
<1>1. txn[t] \in TxnType /\ Tail(txn[t].todo) \in Seq(Call) /\ txn[t].epoch_ \in Epochs
  BY <1>0, CallOf
<1>2. Append(txn[t].tried, v) \in Seq(Vertices) /\ Append(txn[t].EB_vec_, v) \in Seq(Vertices)
      /\ Append(txn[t].EB_vec_, v) # << >>
  BY <1>1, AppendProperties, SMTT(20) DEF TxnType
<1>3. Drawn(txn[t]) \in Nat /\ get_intra_c(txn[t]) \in [Epochs -> Nat]
  BY <1>0, DrawnType DEF Live, Open
<1>4. /\ x \in TxnType /\ x.EB_vec_ # << >> /\ x.epoch_ = txn[t].epoch_
      /\ x.id = txn[t].id /\ x.intra_c_ = Drawn(txn[t]) /\ x.state = "open"
  BY <1>1, <1>2, <1>3 DEF Returned, TxnType, Open
<1>5. /\ txn' = [txn EXCEPT ![t] = x] /\ spin_rw_lock' = [spin_rw_lock EXCEPT ![v] = t]
      /\ intra_counter_' = get_intra_c(txn[t]) /\ log' = [log EXCEPT ![v] = Append(@, l)]
  BY DEF Accept
<1>6. l \in Entry
  BY <1>1, <1>3 DEF Entry, TxnType
<1> HIDE DEF x, l
<1>7. /\ txn' \in [Threads -> TxnType] /\ txn'[t] = x /\ Others(t)
      /\ \A u \in Threads : txn'[u].state # "none" => txn'[u].epoch_ \in Epochs
  BY <1>0, <1>1, <1>4, <1>5, Updated
<1>8. LockTypes'
  BY <1>0, <1>3, <1>5, <1>7 DEF LockTypes
<1>9. log' \in [Vertices -> Seq(Entry)]
  <2>1. Append(log[v], l) \in Seq(Entry)
    BY <1>6 DEF Types
  <2> QED
    BY <1>5, <2>1 DEF Types
<1>10. Types'
  BY <1>8, <1>9 DEF Types
<1> QED
  BY <1>4, <1>5, <1>7, <1>10 DEF Accepts, l

\* The steps of the epochs and of the readers.
Elsewhere ==
  /\ UNCHANGED <<txn, spin_rw_lock, log, intra_counter_>>
  /\ OpenEpoch \/ Publisher \/ registerROTransaction \/ Reader

Effects ==
  \/ \E t \in Threads : \/ Registers(t) \/ GoesOn(t) \/ Draws(t) \/ Ends(t)
                        \/ \E v \in Vertices : Accepts(t, v)
  \/ Elsewhere
  \/ UNCHANGED <<txn, log, intra_counter_, cur_, read_epoch_, publishing, reader, begun>>

\* Initially nothing is registered and nothing written.
LEMMA TypesInit == Init => Types
<1> SUFFICES ASSUME Init PROVE Types
  OBVIOUS
<1>1. LockTypes
  BY LocksInit DEF LocksInv
<1>2. log \in [Vertices -> Seq(Entry)]
  <2>1. << >> \in Seq(Entry)
    OBVIOUS
  <2> HIDE DEF Entry
  <2> QED
    BY <2>1 DEF Init
<1>3. publishing \in BOOLEAN
  BY DEF Init
<1> QED
  BY <1>1, <1>2, <1>3 DEF Types

\* Every step of the specification is one of these, and keeps the types.
LEMMA StepEffects ==
  ASSUME Types, [Next]_vars
  PROVE  Types' /\ Effects
<1>0. /\ cur_ \in Epochs /\ read_epoch_ \in Nat /\ begun \in Nat
      /\ intra_counter_ \in [Epochs -> Nat] /\ MaxEpoch \in Nat
      /\ \A t \in Threads : txn[t] \in TxnType
      /\ LockTypes
  BY TransactionAssumption DEF Types, LockTypes
<1>1. ASSUME NEW t \in Threads, registerTransaction(t) PROVE Types' /\ Registers(t)
  <2>1. PICK p \in Programs :
          txn' = [txn EXCEPT ![t] = [NoTxn EXCEPT !.state = "registered", !.id = begun + 1,
                    !.epoch_ = cur_, !.write_only_ = p.write_only_, !.todo = p.calls,
                    !.finish = p.finish]]
    BY <1>1 DEF registerTransaction
  <2> DEFINE x == [NoTxn EXCEPT !.state = "registered", !.id = begun + 1,
                    !.epoch_ = cur_, !.write_only_ = p.write_only_, !.todo = p.calls,
                    !.finish = p.finish]
  <2>2. /\ p.calls \in Seq(Call) /\ p.write_only_ \in BOOLEAN
        /\ p.finish \in {"commit", "COMMIT"} /\ cur_ \in 0 .. MaxEpoch
    BY <1>0, TransactionAssumption DEF Epochs
  <2>3. x \in TxnType
    <3>1. NoTxn \in TxnType
      BY <1>0 DEF NoTxn, TxnType
    <3>2. begun + 1 \in Nat /\ cur_ \in 0 .. MaxEpoch
      BY <1>0, <2>2
    <3> QED
      BY <2>2, <3>1, <3>2 DEF TxnType
  <2>4. /\ x.EB_vec_ = << >> /\ x.epoch_ = cur_ /\ x.intra_c_ = 0
        /\ x.state = "registered" /\ x.id = begun + 1
    BY <1>0 DEF NoTxn
  <2>5. /\ UNCHANGED <<spin_rw_lock, log, cur_, read_epoch_, intra_counter_, publishing, reader>>
        /\ begun' = begun + 1 /\ ~Live(t)
    BY <1>1 DEF registerTransaction, storeVars, epochVars, Live
  <2>6. txn' = [txn EXCEPT ![t] = x]
    BY <2>1
  <2> HIDE DEF x
  <2>7. /\ txn' \in [Threads -> TxnType] /\ txn'[t] = x /\ Others(t)
        /\ \A u \in Threads : txn'[u].state # "none" => txn'[u].epoch_ \in Epochs
    BY <1>0, <2>3, <2>4, <2>6, Updated
  <2>8. Types'
    BY <1>0, <2>5, <2>7 DEF Types, LockTypes
  <2> QED
    BY <2>4, <2>5, <2>7, <2>8 DEF Registers
<1>2. ASSUME NEW t \in Threads, NEW x \in TxnType, Live(t), txn' = [txn EXCEPT ![t] = x],
             spin_rw_lock' \in [Vertices -> Threads \cup {NoThread}],
             UNCHANGED <<log, cur_, read_epoch_, intra_counter_, publishing, reader, begun>>,
             x.id = txn[t].id, x.epoch_ = txn[t].epoch_, x.intra_c_ = txn[t].intra_c_,
             \/ x.state = "open" /\ txn[t].state \in {"registered", "open"}
                /\ x.EB_vec_ = txn[t].EB_vec_
             \/ x.state = "committing"
      PROVE  Types' /\ GoesOn(t)
  <2>0. txn[t].epoch_ \in Epochs
    BY <1>0, <1>2 DEF Live, LockTypes
  <2>1. /\ txn' \in [Threads -> TxnType] /\ txn'[t] = x /\ Others(t)
        /\ \A u \in Threads : txn'[u].state # "none" => txn'[u].epoch_ \in Epochs
    BY <1>0, <1>2, <2>0, Updated
  <2>2. Types'
    BY <1>0, <1>2, <2>1 DEF Types, LockTypes
  <2> QED
    BY <1>2, <2>1, <2>2 DEF GoesOn
<1>3. spin_rw_lock' = spin_rw_lock => spin_rw_lock' \in [Vertices -> Threads \cup {NoThread}]
  BY <1>0 DEF LockTypes
<1>4. ASSUME NEW t \in Threads, set_read_epoch(t) PROVE Types' /\ GoesOn(t)
  <2> DEFINE x == [txn[t] EXCEPT !.state = "open", !.read_epoch_ = read_epoch_]
  <2>1. /\ x \in TxnType /\ x.EB_vec_ = txn[t].EB_vec_ /\ x.state = "open"
        /\ x.id = txn[t].id /\ x.epoch_ = txn[t].epoch_ /\ x.intra_c_ = txn[t].intra_c_
        /\ Live(t) /\ txn[t].state = "registered"
    BY <1>0, <1>4 DEF TxnType, set_read_epoch, Live
  <2>2. /\ txn' = [txn EXCEPT ![t] = x]
        /\ UNCHANGED <<spin_rw_lock, log, cur_, read_epoch_, intra_counter_, publishing, reader,
                       begun>>
    BY <1>4 DEF set_read_epoch, storeVars, epochVars
  <2> HIDE DEF x
  <2> QED
    BY <1>2, <1>3, <2>1, <2>2
<1>5. ASSUME NEW t \in Threads, NEW q \in Seq(Vertices), NEW rest \in Seq(Call),
             Open(t), txn' = [txn EXCEPT ![t].queued = q, ![t].todo = rest],
             UNCHANGED <<spin_rw_lock, log, cur_, read_epoch_, intra_counter_, publishing, reader,
                         begun>>
      PROVE  Types' /\ GoesOn(t)
  <2> DEFINE x == [txn[t] EXCEPT !.queued = q, !.todo = rest]
  <2>1. /\ x \in TxnType /\ x.EB_vec_ = txn[t].EB_vec_ /\ x.state = "open"
        /\ x.id = txn[t].id /\ x.epoch_ = txn[t].epoch_ /\ x.intra_c_ = txn[t].intra_c_
        /\ Live(t) /\ txn[t].state = "open"
    BY <1>0, <1>5 DEF TxnType, Open, Live
  <2>2. txn' = [txn EXCEPT ![t] = x]
    BY <1>5
  <2> HIDE DEF x
  <2> QED
    BY <1>2, <1>3, <1>5, <2>1, <2>2
<1>6. ASSUME NEW t \in Threads, INSERT1(t) PROVE Types' /\ GoesOn(t)
  <2>1. Append(txn[t].queued, NextCall(t).v) \in Seq(Vertices)
    BY <1>0, <1>6, CallOfWrite DEF INSERT1, TxnType
  <2>2. Tail(txn[t].todo) \in Seq(Call)
    BY <1>0, <1>6, CallOf DEF INSERT1, Calling
  <2> QED
    BY <1>5, <1>6, <2>1, <2>2 DEF INSERT1, Calling, storeVars, epochVars
<1>7. ASSUME NEW t \in Threads, INSERT(t) PROVE Types' /\ GoesOn(t)
  <2> DEFINE batch == NextCall(t).batch
             q == txn[t].queued \o (IF txn[t].queued = << >> THEN batch ELSE Tail(batch))
  <2>1. NextCall(t) \in Call /\ NextCall(t).op = "INSERT" /\ Tail(txn[t].todo) \in Seq(Call)
    BY <1>0, <1>7, CallOf DEF INSERT, Calling
  <2>2. batch \in Seq(Vertices) \ {<< >>}
    BY <2>1 DEF Call
  <2>3. q \in Seq(Vertices)
    BY <1>0, <2>2 DEF TxnType
  <2> QED
    BY <1>5, <1>7, <2>1, <2>3 DEF INSERT, Calling, storeVars, epochVars
<1>8. ASSUME NEW t \in Threads, execute(t) PROVE Types' /\ GoesOn(t)
  <2> DEFINE q == txn[t].queued
             inserts == [i \in DOMAIN q |-> [op |-> "insertedge", v |-> q[i]]]
             rest == inserts \o Tail(txn[t].todo)
  <2>1. q \in Seq(Vertices) /\ Tail(txn[t].todo) \in Seq(Call)
    BY <1>0, <1>8, CallOf DEF execute, Calling, TxnType
  <2>2. inserts \in Seq(Call)
    <3>1. \A i \in DOMAIN q : [op |-> "insertedge", v |-> q[i]] \in Call
      BY <2>1 DEF Call
    <3>2. DOMAIN q = 1 .. Len(q) /\ Len(q) \in Nat
      BY <2>1
    <3> QED
      BY <3>1, <3>2
  <2>3. rest \in Seq(Call)
    BY <2>1, <2>2
  <2>4. txn' = [txn EXCEPT ![t].queued = q, ![t].todo = rest]
    BY <1>0, <1>8 DEF execute, TxnType
  <2> HIDE DEF q, rest
  <2> QED
    BY <1>5, <1>8, <2>1, <2>3, <2>4 DEF execute, Calling, storeVars, epochVars
<1>9. ASSUME NEW t \in Threads, insertedge(t)
      PROVE  Types' /\ (GoesOn(t) \/ \E v \in Vertices : Accepts(t, v))
  <2>1. NextCall(t).v \in Vertices /\ Open(t) /\ txn[t].todo # << >>
    BY <1>0, <1>9, CallOfWrite DEF insertedge, Calling
  <2> QED
    BY <1>9, <2>1, RefuseEffect, AcceptEffect DEF insertedge
<1>10. ASSUME NEW t \in Threads, deletedge(t)
       PROVE  Types' /\ (GoesOn(t) \/ \E v \in Vertices : Accepts(t, v))
  <2>1. NextCall(t).v \in Vertices /\ Open(t) /\ txn[t].todo # << >>
    BY <1>0, <1>10, CallOfWrite DEF deletedge, Calling
  <2> QED
    BY <1>10, <2>1, RefuseEffect, AcceptEffect DEF deletedge
<1>11. ASSUME NEW t \in Threads, commit(t) PROVE Types' /\ Draws(t)
  <2> DEFINE x == [txn[t] EXCEPT !.state = "committing", !.intra_c_ = Drawn(txn[t])]
  <2>0. Live(t)
    BY <1>11 DEF commit, Open, Live
  <2>1. /\ Drawn(txn[t]) \in Nat /\ get_intra_c(txn[t]) \in [Epochs -> Nat]
        /\ txn[t].epoch_ \in Epochs
    BY <1>0, <2>0, DrawnType
  <2>2. /\ x \in TxnType /\ x.state = "committing" /\ x.epoch_ = txn[t].epoch_
        /\ x.id = txn[t].id /\ x.intra_c_ = Drawn(txn[t])
    BY <1>0, <2>1 DEF TxnType
  <2>3. /\ txn' = [txn EXCEPT ![t] = x] /\ intra_counter_' = get_intra_c(txn[t])
        /\ UNCHANGED <<spin_rw_lock, log, cur_, read_epoch_, publishing, reader, begun>>
    BY <1>11 DEF commit, storeVars
  <2> HIDE DEF x
  <2>4. /\ txn' \in [Threads -> TxnType] /\ txn'[t] = x /\ Others(t)
        /\ \A u \in Threads : txn'[u].state # "none" => txn'[u].epoch_ \in Epochs
    BY <1>0, <2>1, <2>2, <2>3, Updated
  <2>5. Types'
    BY <1>0, <2>1, <2>3, <2>4 DEF Types, LockTypes
  <2> QED
    BY <2>0, <2>2, <2>3, <2>4, <2>5 DEF Draws
<1>12. ASSUME NEW t \in Threads, unleashReadLock(t) PROVE Types' /\ GoesOn(t)
  <2> DEFINE x == [txn[t] EXCEPT !.EB_vec_ = Tail(txn[t].EB_vec_)]
  <2>0. txn[t].EB_vec_ \in Seq(Vertices) /\ txn[t].EB_vec_ # << >> /\ Live(t)
        /\ txn[t].state = "committing"
    BY <1>0, <1>12 DEF unleashReadLock, TxnType, Live
  <2>1. Tail(txn[t].EB_vec_) \in Seq(Vertices)
    BY <2>0, EmptySeq
  <2>2. /\ x \in TxnType /\ x.state = "committing" /\ x.epoch_ = txn[t].epoch_
        /\ x.id = txn[t].id /\ x.intra_c_ = txn[t].intra_c_
    BY <1>0, <2>0, <2>1 DEF TxnType
  <2>3. /\ txn' = [txn EXCEPT ![t] = x]
        /\ spin_rw_lock' = [spin_rw_lock EXCEPT ![Head(txn[t].EB_vec_)] = NoThread]
        /\ UNCHANGED <<log, cur_, read_epoch_, intra_counter_, publishing, reader, begun>>
    BY <1>12 DEF unleashReadLock, epochVars
  <2>4. spin_rw_lock' \in [Vertices -> Threads \cup {NoThread}]
    BY <1>0, <2>3 DEF LockTypes
  <2> HIDE DEF x
  <2> QED
    BY <1>2, <2>0, <2>2, <2>3, <2>4
<1>13. ASSUME NEW t \in Threads, COMMIT(t) PROVE Types' /\ GoesOn(t)
  <2> DEFINE x == [txn[t] EXCEPT !.state = "committing", !.EB_vec_ = << >>]
  <2>0. << >> \in Seq(Vertices)
    OBVIOUS
  <2>1. /\ x \in TxnType /\ x.state = "committing" /\ x.epoch_ = txn[t].epoch_
        /\ x.id = txn[t].id /\ x.intra_c_ = txn[t].intra_c_ /\ Live(t)
    BY <1>0, <1>13, <2>0 DEF TxnType, COMMIT, Open, Live
  <2>2. /\ txn' = [txn EXCEPT ![t] = x]
        /\ UNCHANGED <<spin_rw_lock, log, cur_, read_epoch_, intra_counter_, publishing, reader,
                       begun>>
    BY <1>13 DEF COMMIT, storeVars, epochVars
  <2> HIDE DEF x
  <2> QED
    BY <1>2, <1>3, <2>1, <2>2
<1>14. ASSUME NEW t \in Threads, deregisterTransaction(t) PROVE Types' /\ Ends(t)
  <2>1. txn' = [txn EXCEPT ![t] = NoTxn]
    BY <1>14 DEF deregisterTransaction
  <2>2. NoTxn \in TxnType /\ NoTxn.state = "none"
    BY <1>0 DEF NoTxn, TxnType
  <2>3. UNCHANGED <<spin_rw_lock, log, cur_, read_epoch_, intra_counter_, publishing, reader,
                    begun>>
    BY <1>14 DEF deregisterTransaction, storeVars, epochVars
  <2>4. /\ txn' \in [Threads -> TxnType] /\ txn'[t] = NoTxn /\ Others(t)
        /\ \A u \in Threads : txn'[u].state # "none" => txn'[u].epoch_ \in Epochs
    BY <1>0, <2>1, <2>2, Updated
  <2>5. Types'
    BY <1>0, <2>3, <2>4 DEF Types, LockTypes
  <2> QED
    BY <2>2, <2>3, <2>4, <2>5 DEF Ends
<1>15. ASSUME OpenEpoch \/ Publisher \/ registerROTransaction \/ Reader
       PROVE  Types' /\ Elsewhere
  <2>1. UNCHANGED <<txn, spin_rw_lock, log, intra_counter_>>
    BY <1>15 DEF OpenEpoch, Publisher, BeginCommit, Publish, Transform, Reader,
       registerROTransaction, deregisterROTransaction, Scan, storeVars, epochVars
  <2>2. cur_' \in {cur_, cur_ + 1} /\ (cur_' # cur_ => cur_ < MaxEpoch)
    BY <1>15 DEF OpenEpoch, Publisher, BeginCommit, Publish, Transform, Reader,
       registerROTransaction, deregisterROTransaction, Scan, epochVars
  <2>3. /\ read_epoch_' \in {read_epoch_, read_epoch_ + 1} /\ begun' \in {begun, begun + 1}
        /\ publishing' \in {publishing, TRUE, FALSE}
    BY <1>15 DEF OpenEpoch, Publisher, BeginCommit, Publish, Transform, Reader,
       registerROTransaction, deregisterROTransaction, Scan, epochVars
  <2>4. cur_' \in Epochs /\ read_epoch_' \in Nat /\ begun' \in Nat
    BY <1>0, <2>2, <2>3 DEF Epochs
  <2>5. publishing' \in BOOLEAN
    BY <2>3, Zenon DEF Types
  <2>6. Types'
    BY <2>1, <2>4, <2>5 DEF Types, LockTypes
  <2> QED
    BY <1>15, <2>1, <2>6 DEF Elsewhere
<1>16. ASSUME UNCHANGED vars PROVE Types' /\ Effects
  BY <1>16 DEF vars, storeVars, epochVars, Types, LockTypes, Effects
<1> QED
  BY <1>1, <1>4, <1>6, <1>7, <1>8, <1>9, <1>10, <1>11, <1>12, <1>13, <1>14, <1>15, <1>16
  DEF Next, Step, Effects

-----------------------------------------------------------------------------
(* Writers: ids are unique, and all the writes of a transaction carry one  *)
(* timestamp, in an epoch that is not being published.                     *)

\* Ids name one transaction: the open ones have different ids, none above begun.
IdsUnique ==
  /\ \A t \in Threads : Live(t) => txn[t].id <= begun
  /\ \A t, u \in Threads : Live(t) /\ Live(u) /\ txn[t].id = txn[u].id => t = u
  /\ \A v \in Vertices : \A l \in Range(log[v]) : l.id <= begun

\* All the accepted writes of a transaction have one timestamp, the one it carries.
OneTimestamp ==
  /\ \A v, w \in Vertices : \A l \in Range(log[v]), m \in Range(log[w]) :
       l.id = m.id => l.ts = m.ts
  /\ \A v \in Vertices : \A l \in Range(log[v]) : \A t \in Threads :
       Live(t) /\ l.id = txn[t].id =>
         l.ts = <<txn[t].epoch_, txn[t].intra_c_>> /\ txn[t].intra_c_ # 0

\* Writers are in epochs that are neither published nor being published.
WritersAhead ==
  /\ read_epoch_ < cur_ /\ (publishing => read_epoch_ + 1 < cur_)
  /\ \A t \in Threads : Live(t) =>
       /\ read_epoch_ < txn[t].epoch_ /\ txn[t].epoch_ <= cur_
       /\ publishing => read_epoch_ + 1 < txn[t].epoch_

\* The timestamp is drawn with the first accepted write.
DrawnWithFirst ==
  \A t \in Threads : txn[t].state \in {"registered", "open"} /\ txn[t].EB_vec_ = << >>
                     => txn[t].intra_c_ = 0

WritesInv == Types /\ IdsUnique /\ OneTimestamp /\ WritersAhead /\ DrawnWithFirst

\* The elements of a sequence with one more element.
LEMMA RangeAppend ==
  ASSUME NEW S, NEW s \in Seq(S), NEW e \in S
  PROVE  Range(Append(s, e)) = Range(s) \cup {e}
<1>1. /\ Append(s, e) \in Seq(S) /\ Len(s) \in Nat
      /\ DOMAIN s = 1 .. Len(s) /\ DOMAIN Append(s, e) = 1 .. Len(s) + 1
      /\ \A i \in 1 .. Len(s) : Append(s, e)[i] = s[i]
      /\ Append(s, e)[Len(s) + 1] = e
  OBVIOUS
<1> QED
  BY <1>1 DEF Range

\* The elements of a sequence are of its type.
LEMMA RangeType ==
  ASSUME NEW S, NEW s \in Seq(S)
  PROVE  Range(s) \subseteq S
BY DEF Range

\* The history after an accepted write.
LEMMA LogAppended ==
  ASSUME Types, NEW t \in Threads, NEW v \in Vertices, Accepts(t, v)
  PROVE  LET l == [id |-> txn[t].id, ts |-> <<txn[t].epoch_, Drawn(txn[t])>>,
                   first |-> txn[t].EB_vec_ = << >>]
         IN  /\ Range(log'[v]) = Range(log[v]) \cup {l}
             /\ \A w \in Vertices : w # v => log'[w] = log[w]
<1> DEFINE l == [id |-> txn[t].id, ts |-> <<txn[t].epoch_, Drawn(txn[t])>>,
                 first |-> txn[t].EB_vec_ = << >>]
<1>0. LockTypes
  BY DEF Types
<1>1. l \in Entry
  BY <1>0, DrawnType DEF Entry, TxnType, Accepts, Open, Live
<1>2. log' = [log EXCEPT ![v] = Append(@, l)]
  BY DEF Accepts
<1> HIDE DEF l
<1>3. log[v] \in Seq(Entry)
  BY DEF Types
<1>4. Range(Append(log[v], l)) = Range(log[v]) \cup {l}
  BY <1>1, <1>3, RangeAppend
<1>5. log'[v] = Append(log[v], l) /\ \A w \in Vertices : w # v => log'[w] = log[w]
  BY <1>2 DEF Types
<1> QED
  BY <1>4, <1>5 DEF l

\* Nothing has been written.
LEMMA WritesInit == Init => WritesInv
<1> SUFFICES ASSUME Init PROVE WritesInv
  OBVIOUS
<1>1. \A v \in Vertices : Range(log[v]) = {}
  BY DEF Init, Range
<1>2. \A t \in Threads : txn[t] = NoTxn
  BY DEF Init
<1>3. \A t \in Threads : ~Live(t) /\ txn[t].state \notin {"registered", "open"}
  BY <1>2 DEF NoTxn, Live
<1>4. IdsUnique /\ OneTimestamp
  BY <1>1, <1>3 DEF IdsUnique, OneTimestamp
<1>5. WritersAhead
  BY <1>3 DEF WritersAhead, Init
<1>6. DrawnWithFirst
  BY <1>3 DEF DrawnWithFirst
<1> QED
  BY <1>4, <1>5, <1>6, TypesInit DEF WritesInv

\* Every step keeps ids, timestamps and epochs of the writers in order.
LEMMA WritesStep ==
  ASSUME WritesInv, [Next]_vars
  PROVE  WritesInv'
<1>0. /\ Types /\ Types' /\ Effects
      /\ IdsUnique /\ OneTimestamp /\ WritersAhead /\ DrawnWithFirst
  BY StepEffects DEF WritesInv
<1>a. /\ \A t \in Threads : txn[t].id \in Nat /\ txn[t].epoch_ \in Nat /\ txn[t].intra_c_ \in Nat
      /\ begun \in Nat /\ cur_ \in Nat /\ read_epoch_ \in Nat
      /\ \A v \in Vertices : \A l \in Range(log[v]) : l.id \in Nat /\ l \in Entry
  <2>1. \A v \in Vertices : Range(log[v]) \subseteq Entry
    BY <1>0, RangeType DEF Types
  <2>2. \A v \in Vertices : \A l \in Range(log[v]) : l.id \in Nat /\ l \in Entry
    BY <2>1 DEF Entry
  <2>3. \A t \in Threads : txn[t] \in TxnType
    BY <1>0 DEF Types, LockTypes
  <2>4. \A t \in Threads : txn[t].id \in Nat /\ txn[t].epoch_ \in Nat /\ txn[t].intra_c_ \in Nat
    BY <2>3, TransactionAssumption DEF TxnType
  <2>5. begun \in Nat /\ cur_ \in Nat /\ read_epoch_ \in Nat
    BY <1>0, TransactionAssumption DEF Types, LockTypes, Epochs
  <2> QED
    BY <2>2, <2>4, <2>5
<1>1. ASSUME NEW t \in Threads, Registers(t) PROVE WritesInv'
  <2>0. /\ ~Live(t) /\ (\A u \in Threads : u # t => txn'[u] = txn[u])
        /\ txn'[t].state = "registered" /\ txn'[t].id = begun + 1 /\ txn'[t].epoch_ = cur_
        /\ txn'[t].intra_c_ = 0 /\ begun' = begun + 1
        /\ UNCHANGED <<log, intra_counter_, cur_, read_epoch_, publishing, reader>>
    BY <1>1 DEF Registers, Others
  <2>1. IdsUnique'
    BY <1>0, <1>a, <2>0 DEF IdsUnique, Live
  <2>2. OneTimestamp'
    BY <1>0, <1>a, <2>0 DEF OneTimestamp, IdsUnique, Live
  <2>3. WritersAhead'
    BY <1>0, <1>a, <2>0 DEF WritersAhead, Live
  <2>4. DrawnWithFirst'
    BY <1>0, <2>0 DEF DrawnWithFirst
  <2> QED
    BY <1>0, <2>1, <2>2, <2>3, <2>4 DEF WritesInv
<1>2. ASSUME NEW t \in Threads, GoesOn(t) PROVE WritesInv'
  <2>0. /\ Live(t) /\ Live(t)' /\ (\A u \in Threads : u # t => txn'[u] = txn[u])
        /\ txn'[t].id = txn[t].id /\ txn'[t].epoch_ = txn[t].epoch_
        /\ txn'[t].intra_c_ = txn[t].intra_c_
        /\ UNCHANGED <<log, cur_, read_epoch_, publishing, begun>>
    BY <1>2 DEF GoesOn, Others, Live
  <2>1. \A u \in Threads : /\ Live(u)' <=> Live(u)
                           /\ txn'[u].id = txn[u].id /\ txn'[u].epoch_ = txn[u].epoch_
                           /\ txn'[u].intra_c_ = txn[u].intra_c_
    BY <2>0 DEF Live
  <2>2. IdsUnique'
    BY <1>0, <2>0, <2>1 DEF IdsUnique
  <2>3. OneTimestamp'
    BY <1>0, <2>0, <2>1 DEF OneTimestamp
  <2>4. WritersAhead'
    BY <1>0, <2>0, <2>1 DEF WritersAhead
  <2>5. DrawnWithFirst'
    BY <1>0, <1>2 DEF DrawnWithFirst, GoesOn, Others
  <2> QED
    BY <1>0, <2>2, <2>3, <2>4, <2>5 DEF WritesInv
<1>3. ASSUME NEW t \in Threads, Draws(t) PROVE WritesInv'
  <2>0. /\ Live(t) /\ Live(t)' /\ (\A u \in Threads : u # t => txn'[u] = txn[u])
        /\ txn'[t].id = txn[t].id /\ txn'[t].epoch_ = txn[t].epoch_
        /\ txn[t].intra_c_ # 0 => txn'[t].intra_c_ = txn[t].intra_c_
        /\ UNCHANGED <<log, cur_, read_epoch_, publishing, begun>>
    BY <1>3 DEF Draws, Others, Live, Drawn
  <2>1. \A u \in Threads : /\ Live(u)' <=> Live(u)
                           /\ txn'[u].id = txn[u].id /\ txn'[u].epoch_ = txn[u].epoch_
                           /\ txn[u].intra_c_ # 0 => txn'[u].intra_c_ = txn[u].intra_c_
    BY <2>0 DEF Live
  <2>2. IdsUnique'
    BY <1>0, <2>0, <2>1 DEF IdsUnique
  <2>3. OneTimestamp'
    BY <1>0, <2>0, <2>1 DEF OneTimestamp
  <2>4. WritersAhead'
    BY <1>0, <2>0, <2>1 DEF WritersAhead
  <2>5. DrawnWithFirst'
    BY <1>0, <1>3 DEF DrawnWithFirst, Draws, Others
  <2> QED
    BY <1>0, <2>2, <2>3, <2>4, <2>5 DEF WritesInv
<1>4. ASSUME NEW t \in Threads, NEW v \in Vertices, Accepts(t, v) PROVE WritesInv'
  <2> DEFINE l == [id |-> txn[t].id, ts |-> <<txn[t].epoch_, Drawn(txn[t])>>,
                   first |-> txn[t].EB_vec_ = << >>]
  <2>0. /\ Live(t) /\ Live(t)' /\ (\A u \in Threads : u # t => txn'[u] = txn[u])
        /\ txn'[t].id = txn[t].id /\ txn'[t].epoch_ = txn[t].epoch_
        /\ txn'[t].intra_c_ = Drawn(txn[t])
        /\ txn[t].intra_c_ # 0 => txn'[t].intra_c_ = txn[t].intra_c_
        /\ UNCHANGED <<cur_, read_epoch_, publishing, begun>>
    BY <1>4 DEF Accepts, Others, Live, Drawn, Open
  <2>1. \A u \in Threads : /\ Live(u)' <=> Live(u)
                           /\ txn'[u].id = txn[u].id /\ txn'[u].epoch_ = txn[u].epoch_
                           /\ txn[u].intra_c_ # 0 => txn'[u].intra_c_ = txn[u].intra_c_
    BY <2>0 DEF Live
  <2>2. Drawn(txn[t]) # 0
    BY <1>0, <2>0, DrawnType DEF Types
  <2>3. /\ Range(log'[v]) = Range(log[v]) \cup {l}
        /\ \A w \in Vertices : w # v => log'[w] = log[w]
    BY <1>0, <1>4, LogAppended
  <2>4. \A w \in Vertices : \A m \in Range(log'[w]) : m \in Range(log[w]) \/ (w = v /\ m = l)
    BY <2>3
  <2>5. l.id = txn[t].id /\ l.ts = <<txn'[t].epoch_, txn'[t].intra_c_>>
    BY <2>0
  <2> HIDE DEF l
  <2>6. IdsUnique'
    BY <1>0, <2>0, <2>1, <2>4, <2>5 DEF IdsUnique
  <2>7. ASSUME NEW w \in Vertices, NEW m \in Range(log'[w]), NEW u \in Threads,
               Live(u), m.id = txn[u].id
        PROVE  m.ts = <<txn'[u].epoch_, txn'[u].intra_c_>> /\ txn'[u].intra_c_ # 0
    <3>1. CASE m \in Range(log[w])
      BY <1>0, <2>1, <2>7, <3>1 DEF OneTimestamp
    <3>2. CASE w = v /\ m = l
      <4>1. u = t
        BY <1>0, <2>0, <2>5, <2>7, <3>2 DEF IdsUnique
      <4> QED
        BY <2>0, <2>2, <2>5, <3>2, <4>1
    <3> QED
      BY <2>4, <3>1, <3>2
  <2>8. ASSUME NEW w \in Vertices, NEW m \in Range(log'[w]), m.id = l.id
        PROVE  m.ts = l.ts
    BY <2>0, <2>5, <2>7, <2>8
  <2>9. OneTimestamp'
    <3>1. \A a, b \in Vertices : \A m \in Range(log'[a]), n \in Range(log'[b]) :
            m.id = n.id => m.ts = n.ts
      BY <1>0, <2>4, <2>8 DEF OneTimestamp
    <3> QED
      BY <2>1, <2>7, <3>1 DEF OneTimestamp
  <2>10. WritersAhead'
    BY <1>0, <2>0, <2>1 DEF WritersAhead
  <2>11. DrawnWithFirst'
    BY <1>0, <1>4 DEF DrawnWithFirst, Accepts, Others
  <2> QED
    BY <1>0, <2>6, <2>9, <2>10, <2>11 DEF WritesInv
<1>5. ASSUME NEW t \in Threads, Ends(t) PROVE WritesInv'
  <2>0. /\ ~Live(t)' /\ (\A u \in Threads : u # t => txn'[u] = txn[u])
        /\ UNCHANGED <<log, cur_, read_epoch_, publishing, begun>>
        /\ txn'[t].state = "none"
    BY <1>5 DEF Ends, Others, Live
  <2>2. IdsUnique' /\ OneTimestamp' /\ WritersAhead' /\ DrawnWithFirst'
    BY <1>0, <2>0 DEF IdsUnique, OneTimestamp, WritersAhead, DrawnWithFirst, Live
  <2> QED
    BY <1>0, <2>2 DEF WritesInv
<1>6. ASSUME Elsewhere PROVE WritesInv'
  <2>0. UNCHANGED <<txn, log>> /\ begun' \in {begun, begun + 1}
    BY <1>6 DEF Elsewhere, OpenEpoch, Publisher, BeginCommit, Publish, Transform, Reader,
       registerROTransaction, deregisterROTransaction, Scan
  <2>1. IdsUnique' /\ OneTimestamp' /\ DrawnWithFirst'
    BY <1>0, <1>a, <2>0 DEF IdsUnique, OneTimestamp, DrawnWithFirst, Live
  <2>2. WritersAhead'
    <3>1. CASE OpenEpoch
      BY <1>0, <1>a, <2>0, <3>1 DEF OpenEpoch, WritersAhead, Live
    <3>2. CASE BeginCommit
      BY <1>0, <1>a, <2>0, <3>2 DEF BeginCommit, WritersAhead, Live, NoWriterIn
    <3>3. CASE Publish
      BY <1>0, <1>a, <2>0, <3>3 DEF Publish, WritersAhead, Live
    <3>4. CASE UNCHANGED <<cur_, read_epoch_, publishing>>
      BY <1>0, <2>0, <3>4 DEF WritersAhead, Live
    <3> QED
      BY <1>6, <3>1, <3>2, <3>3, <3>4 DEF Elsewhere, Publisher, Transform, Reader,
         registerROTransaction, deregisterROTransaction, Scan, epochVars
  <2> QED
    BY <1>0, <2>1, <2>2 DEF WritesInv
<1>7. ASSUME UNCHANGED <<txn, log, cur_, read_epoch_, publishing, begun>> PROVE WritesInv'
  BY <1>0, <1>7 DEF WritesInv, IdsUnique, OneTimestamp, WritersAhead, DrawnWithFirst, Live
<1> QED
  BY <1>0, <1>1, <1>2, <1>3, <1>4, <1>5, <1>6, <1>7 DEF Effects

-----------------------------------------------------------------------------
(* Readers: what a read at a published epoch has collected stays what it   *)
(* would collect.                                                          *)

\* What a read has collected, vertex by vertex.
Seens == UNION {[D -> SUBSET Nat] : D \in SUBSET Vertices}

ReaderType == [kind : {"fine", "epoch"}, ts : Nat \X Nat, seen : Seens]

\* A read of a published epoch has collected what it would collect now; a fine-grained
\* one is not ahead of the counter of the first unpublished epoch.
Behind(r) ==
  /\ r.kind = "epoch" => /\ r.ts[1] <= read_epoch_
                         /\ \A v \in DOMAIN r.seen : r.seen[v] = Accepted(v, r.ts)
  /\ r.kind = "fine" => /\ r.ts[1] \in Epochs /\ r.ts[1] <= read_epoch_ + 1
                        /\ r.ts[2] <= intra_counter_[r.ts[1]]

FirstSeen(r) ==
  \A v \in DOMAIN r.seen : \A l \in Range(log[v]) :
    l.first /\ Before(l.ts, r.ts) => l.id \in r.seen[v]

ReadsInv ==
  /\ WritesInv
  /\ \A r \in reader : r \in ReaderType /\ Behind(r) /\ FirstSeen(r)

\* What a read has collected, as a function.
LEMMA SeenType ==
  ASSUME NEW r \in ReaderType
  PROVE  DOMAIN r.seen \subseteq Vertices /\ r.seen \in [DOMAIN r.seen -> SUBSET Nat]
<1>1. r.seen \in Seens
  BY DEF ReaderType
<1>2. PICK D \in SUBSET Vertices : r.seen \in [D -> SUBSET Nat]
  BY <1>1 DEF Seens
<1> QED
  BY <1>2

\* A scan finds ids.
LEMMA AcceptedType ==
  ASSUME Types, NEW v \in Vertices, NEW q
  PROVE  Accepted(v, q) \subseteq Nat
<1>1. Range(log[v]) \subseteq Entry
  BY RangeType DEF Types
<1> QED
  BY <1>1 DEF Accepted, Entry

\* An accepted write is not before a published epoch, nor, when it is the first of its
\* transaction, before the timestamp of a fine-grained read.
LEMMA NewWriteLater ==
  ASSUME WritesInv, NEW t \in Threads, NEW v \in Vertices, Accepts(t, v),
         NEW r \in ReaderType, Behind(r),
         r.kind = "epoch" \/ txn[t].EB_vec_ = << >>
  PROVE  ~Before(<<txn[t].epoch_, Drawn(txn[t])>>, r.ts)
<1>1. /\ txn[t].state = "open" /\ Live(t) /\ txn[t].epoch_ \in Epochs /\ txn[t].epoch_ \in Nat
      /\ read_epoch_ \in Nat /\ read_epoch_ < txn[t].epoch_ /\ LockTypes
  BY TransactionAssumption
  DEF WritesInv, Types, LockTypes, WritersAhead, Accepts, Open, Live, Epochs
<1>2. r.ts[1] \in Nat /\ r.ts[2] \in Nat /\ r.kind \in {"fine", "epoch"}
  BY DEF ReaderType
<1>3. Drawn(txn[t]) \in Nat
  BY <1>1, DrawnType
<1>4. CASE r.kind = "epoch"
  BY <1>1, <1>2, <1>4 DEF Behind, Before
<1>5. CASE r.kind = "fine" /\ txn[t].EB_vec_ = << >>
  <2>1. txn[t].intra_c_ = 0
    BY <1>1, <1>5 DEF WritesInv, DrawnWithFirst
  <2>2. Drawn(txn[t]) = intra_counter_[txn[t].epoch_] + 1
    BY <2>1 DEF Drawn
  <2>3. /\ r.ts[1] \in Epochs /\ r.ts[1] <= read_epoch_ + 1
        /\ r.ts[2] <= intra_counter_[r.ts[1]]
    BY <1>5 DEF Behind
  <2>4. intra_counter_[txn[t].epoch_] \in Nat
    BY <1>1 DEF LockTypes
  <2> QED
    BY <1>1, <1>2, <2>2, <2>3, <2>4, SMTT(20) DEF Before
<1> QED
  BY <1>2, <1>4, <1>5

\* The counters of the epochs only grow.
LEMMA CountersGrow ==
  ASSUME Types, Effects
  PROVE  \A e \in Epochs : intra_counter_[e] <= intra_counter_'[e]
<1>1. \A e \in Epochs : intra_counter_[e] \in Nat
  BY DEF Types, LockTypes
<1>2. CASE UNCHANGED intra_counter_
  BY <1>1, <1>2
<1>3. ASSUME NEW t \in Threads, intra_counter_' = get_intra_c(txn[t])
      PROVE  \A e \in Epochs : intra_counter_[e] <= intra_counter_'[e]
  BY <1>1, <1>3 DEF get_intra_c, Types, LockTypes
<1> QED
  BY <1>2, <1>3 DEF Effects, Registers, GoesOn, Draws, Accepts, Ends, Elsewhere

\* Nobody reads.
LEMMA ReadsInit == Init => ReadsInv
BY WritesInit DEF Init, ReadsInv

\* Every step keeps what the readers have collected true.
LEMMA ReadsStep ==
  ASSUME ReadsInv, [Next]_vars
  PROVE  ReadsInv'
<1>0. WritesInv /\ WritesInv' /\ Types /\ Types' /\ Effects
  BY WritesStep, StepEffects DEF ReadsInv, WritesInv
<1>a. /\ \A e \in Epochs : intra_counter_[e] \in Nat /\ intra_counter_'[e] \in Nat
      /\ \A e \in Epochs : intra_counter_[e] <= intra_counter_'[e]
      /\ read_epoch_ \in Nat
  BY <1>0, CountersGrow DEF Types, LockTypes
<1>1. ASSUME UNCHANGED <<log, reader>>, read_epoch_' \in {read_epoch_, read_epoch_ + 1}
      PROVE  ReadsInv'
  <2> SUFFICES ASSUME NEW r \in reader
               PROVE  r \in ReaderType /\ Behind(r)' /\ FirstSeen(r)'
    BY <1>0, <1>1 DEF ReadsInv
  <2>1. r \in ReaderType /\ Behind(r) /\ FirstSeen(r)
    BY DEF ReadsInv
  <2>2. r.ts[1] \in Nat /\ r.ts[2] \in Nat
    BY <2>1 DEF ReaderType
  <2>3. \A v : Accepted(v, r.ts)' = Accepted(v, r.ts)
    BY <1>1 DEF Accepted
  <2>4. Behind(r)'
    BY <1>1, <1>a, <2>1, <2>2, <2>3 DEF Behind
  <2> QED
    BY <1>1, <2>1, <2>4 DEF FirstSeen
<1>2. ASSUME NEW t \in Threads, NEW v \in Vertices, Accepts(t, v) PROVE ReadsInv'
  <2> SUFFICES ASSUME NEW r \in reader
               PROVE  r \in ReaderType /\ Behind(r)' /\ FirstSeen(r)'
    BY <1>0, <1>2 DEF ReadsInv, Accepts
  <2> DEFINE l == [id |-> txn[t].id, ts |-> <<txn[t].epoch_, Drawn(txn[t])>>,
                   first |-> txn[t].EB_vec_ = << >>]
  <2>1. r \in ReaderType /\ Behind(r) /\ FirstSeen(r)
    BY DEF ReadsInv
  <2>2. /\ Range(log'[v]) = Range(log[v]) \cup {l}
        /\ \A w \in Vertices : w # v => log'[w] = log[w]
    BY <1>0, <1>2, LogAppended
  <2>3. r.kind = "epoch" \/ l.first => ~Before(l.ts, r.ts)
    BY <1>0, <1>2, <2>1, NewWriteLater
  <2>4. DOMAIN r.seen \subseteq Vertices /\ r.ts[1] \in Nat /\ r.ts[2] \in Nat
    BY <2>1, SeenType DEF ReaderType
  <2> HIDE DEF l
  <2>5. r.kind = "epoch" => \A w \in Vertices : Accepted(w, r.ts)' = Accepted(w, r.ts)
    <3> SUFFICES ASSUME r.kind = "epoch", NEW w \in Vertices
                 PROVE  Accepted(w, r.ts)' = Accepted(w, r.ts)
      OBVIOUS
    <3>1. CASE w # v
      BY <2>2, <3>1 DEF Accepted
    <3>2. CASE w = v
      <4>1. {m \in Range(log'[v]) : Before(m.ts, r.ts)} = {m \in Range(log[v]) : Before(m.ts, r.ts)}
        BY <2>2, <2>3
      <4> QED
        BY <3>2, <4>1 DEF Accepted
    <3> QED
      BY <3>1, <3>2
  <2>6. Behind(r)'
    BY <1>2, <1>a, <2>1, <2>4, <2>5 DEF Behind, Accepts
  <2>7. FirstSeen(r)'
    <3> SUFFICES ASSUME NEW w \in DOMAIN r.seen, NEW m \in Range(log'[w]),
                        m.first, Before(m.ts, r.ts)
                 PROVE  m.id \in r.seen[w]
      BY DEF FirstSeen
    <3>1. m \in Range(log[w]) \/ (w = v /\ m = l)
      BY <2>2, <2>4
    <3> QED
      BY <2>1, <2>3, <3>1 DEF FirstSeen
  <2> QED
    BY <2>1, <2>6, <2>7
<1>3. ASSUME registerROTransaction PROVE ReadsInv'
  <2> SUFFICES ASSUME NEW r \in reader'
               PROVE  r \in ReaderType /\ Behind(r)' /\ FirstSeen(r)'
    BY <1>0 DEF ReadsInv
  <2>1. PICK k \in ReadKinds : r = [kind |-> k, ts |-> ReadTs(k), seen |-> << >>]
    BY <1>3 DEF registerROTransaction
  <2>2. UNCHANGED <<log, read_epoch_, cur_, intra_counter_>> /\ k \in {"fine", "epoch"}
    BY <1>3, TransactionAssumption DEF registerROTransaction, storeVars, epochVars
  <2>3. read_epoch_ < cur_ /\ cur_ \in Epochs /\ INTRA_MAX \in Nat
    BY <1>0, TransactionAssumption DEF WritesInv, WritersAhead, Types, LockTypes, INTRA_MAX
  <2>4. read_epoch_ + 1 \in Epochs
    BY <1>a, <2>3, TransactionAssumption DEF Epochs
  <2>5. ReadTs(k) = IF k = "fine" THEN <<read_epoch_ + 1, intra_counter_[read_epoch_ + 1]>>
                    ELSE <<read_epoch_, INTRA_MAX>>
    BY <2>3 DEF ReadTs
  <2>6. << >> \in Seens /\ DOMAIN << >> = {}
    <3>1. << >> \in [{} -> SUBSET Nat] /\ {} \in SUBSET Vertices
      OBVIOUS
    <3> QED
      BY <3>1 DEF Seens
  <2>7. r \in ReaderType
    BY <1>a, <2>1, <2>2, <2>3, <2>4, <2>5, <2>6 DEF ReaderType
  <2>8. Behind(r)'
    BY <1>a, <2>1, <2>2, <2>4, <2>5, <2>6 DEF Behind
  <2>9. FirstSeen(r)'
    BY <2>1, <2>6 DEF FirstSeen
  <2> QED
    BY <2>7, <2>8, <2>9
<1>4. ASSUME NEW v \in Vertices, Scan(v) PROVE ReadsInv'
  <2> SUFFICES ASSUME NEW s \in reader'
               PROVE  s \in ReaderType /\ Behind(s)' /\ FirstSeen(s)'
    BY <1>0 DEF ReadsInv
  <2>1. PICK r \in reader :
          /\ v \notin DOMAIN r.seen
          /\ s = [r EXCEPT !.seen = [u \in DOMAIN r.seen \cup {v} |->
                                       IF u = v THEN Accepted(v, r.ts) ELSE r.seen[u]]]
    BY <1>4 DEF Scan
  <2> DEFINE seen == [u \in DOMAIN r.seen \cup {v} |->
                        IF u = v THEN Accepted(v, r.ts) ELSE r.seen[u]]
  <2>2. UNCHANGED <<log, read_epoch_, intra_counter_>>
    BY <1>4 DEF Scan, storeVars, epochVars
  <2>3. r \in ReaderType /\ Behind(r) /\ FirstSeen(r)
    BY DEF ReadsInv
  <2>4. DOMAIN r.seen \subseteq Vertices /\ r.seen \in [DOMAIN r.seen -> SUBSET Nat]
    BY <2>3, SeenType
  <2>5. seen \in [DOMAIN r.seen \cup {v} -> SUBSET Nat]
    BY <1>0, <2>4, AcceptedType
  <2>6. seen \in Seens
    <3>1. DOMAIN r.seen \cup {v} \in SUBSET Vertices
      BY <2>4
    <3> HIDE DEF seen
    <3> QED
      BY <2>5, <3>1 DEF Seens
  <2>7. /\ DOMAIN seen = DOMAIN r.seen \cup {v} /\ seen[v] = Accepted(v, r.ts)
        /\ \A u \in DOMAIN r.seen : u # v => seen[u] = r.seen[u]
    OBVIOUS
  <2>8. s = [r EXCEPT !.seen = seen]
    BY <2>1
  <2> HIDE DEF seen
  <2>9. s \in ReaderType /\ s.kind = r.kind /\ s.ts = r.ts /\ s.seen = seen
    BY <2>3, <2>6, <2>8 DEF ReaderType
  <2>10. \A w : Accepted(w, r.ts)' = Accepted(w, r.ts)
    BY <2>2 DEF Accepted
  <2>11. Behind(s)'
    BY <2>2, <2>3, <2>7, <2>9, <2>10 DEF Behind
  <2>12. FirstSeen(s)'
    <3> SUFFICES ASSUME NEW w \in DOMAIN s.seen, NEW m \in Range(log[w]),
                        m.first, Before(m.ts, s.ts)
                 PROVE  m.id \in s.seen[w]
      BY <2>2 DEF FirstSeen
    <3>1. CASE w = v
      BY <2>7, <2>9, <3>1 DEF Accepted
    <3>2. CASE w # v
      BY <2>3, <2>7, <2>9, <3>2 DEF FirstSeen
    <3> QED
      BY <3>1, <3>2
  <2> QED
    BY <2>9, <2>11, <2>12
<1>5. ASSUME reader' = {} PROVE ReadsInv'
  BY <1>0, <1>5 DEF ReadsInv
<1>6. CASE Elsewhere
  BY <1>1, <1>3, <1>4, <1>5, <1>6 DEF Elsewhere, OpenEpoch, Publisher, BeginCommit, Publish,
     Transform, Reader, deregisterROTransaction
<1>7. CASE \E t \in Threads : Registers(t) \/ GoesOn(t) \/ Draws(t) \/ Ends(t)
  BY <1>1, <1>7 DEF Registers, GoesOn, Draws, Ends
<1>8. CASE UNCHANGED <<log, reader, read_epoch_>>
  BY <1>1, <1>8
<1> QED
  BY <1>0, <1>2, <1>6, <1>7, <1>8 DEF Effects

\* A published epoch is settled, for any number of threads, vertices and programs and any
\* interleaving of scans with writers, commits and publications: commitVersionBlock waits
\* for the writers of the epoch, and none joins it afterwards.
THEOREM EpochReadsSettled == Spec => []EpochSnapshotSettled
<1>1. ReadsInv /\ [Next]_vars => ReadsInv'
  BY ReadsStep
<1>2. ReadsInv => EpochSnapshotSettled
  BY DEF ReadsInv, Behind, EpochSnapshotSettled
<1> QED
  BY ReadsInit, <1>1, <1>2, PTL DEF Spec

\* The first write of a transaction that a fine-grained timestamp covers is accepted before
\* the scan of its vertex, for any number of threads, vertices and programs: get_intra_c
\* draws under the lock of the vertex, and the counter a reader took is never reached again.
THEOREM FirstWritesSettled == Spec => []FirstWriteSettled
<1>1. ReadsInv /\ [Next]_vars => ReadsInv'
  BY ReadsStep
<1>2. ReadsInv => FirstWriteSettled
  BY DEF ReadsInv, FirstWriteSettled, FirstSeen
<1> QED
  BY ReadsInit, <1>1, <1>2, PTL DEF Spec

-----------------------------------------------------------------------------
(* Waiting in circles.                                                     *)

\* A set of naturals has a least element.
LEMMA NatSetMin ==
  ASSUME NEW T, T \subseteq Nat, T # {}
  PROVE  \E x \in T : \A y \in T : x <= y
<1>1. PICK x \in T : \A y \in T : ~(<<y, x>> \in OpToRel(<, Nat))
  BY NatLessThanWellFounded, WFMin, Zenon
<1>2. \A y \in T : ~(y < x)
  BY <1>1 DEF OpToRel
<1> QED
  BY <1>2

\* A bounded one has a greatest.
LEMMA NatSetMax ==
  ASSUME NEW T, T \subseteq Nat, T # {}, NEW N \in Nat, \A x \in T : x <= N
  PROVE  \E x \in T : \A y \in T : y <= x
<1> DEFINE U == {k \in Nat : \A y \in T : y <= k}
<1>1. N \in U
  OBVIOUS
<1>2. PICK m \in U : \A y \in U : m <= y
  BY <1>1, NatSetMin
<1>3. PICK z \in T : TRUE
  OBVIOUS
<1>4. CASE m = 0
  BY <1>2, <1>3, <1>4
<1>5. CASE m # 0
  <2>1. m - 1 \in Nat /\ ~(m <= m - 1)
    BY <1>5
  <2>2. m - 1 \notin U
    BY <1>2, <2>1
  <2>3. PICK y \in T : y > m - 1
    BY <2>1, <2>2
  <2> QED BY <1>2, <2>3
<1> QED
  BY <1>4, <1>5

\* A finite one is bounded.
LEMMA FiniteBounded ==
  ASSUME NEW T, T \subseteq Nat, IsFiniteSet(T)
  PROVE  \E N \in Nat : \A x \in T : x <= N
<1>1. PICK n \in Nat : ExistsSurjection(1 .. n, T)
  BY FS_NatSurjection
<1>2. PICK f \in Surjection(1 .. n, T) : TRUE
  BY <1>1 DEF ExistsSurjection
<1>3. f \in [1 .. n -> T] /\ \A x \in T : \E i \in 1 .. n : f[i] = x
  BY <1>2 DEF Surjection
<1>0. \A i \in 1 .. n : f[i] \in Nat
  BY <1>3
<1> DEFINE P(k) == \E N \in Nat : \A i \in 1 .. k : f[i] <= N
           Bad == {k \in 0 .. n : ~P(k)}
<1>4. P(0)
  OBVIOUS
<1>5. ASSUME NEW k \in 1 .. n, P(k - 1) PROVE P(k)
  <2>1. PICK N \in Nat : \A i \in 1 .. k - 1 : f[i] <= N
    BY <1>5
  <2>2. f[k] \in Nat /\ N + f[k] \in Nat
    BY <1>0
  <2>3. ASSUME NEW i \in 1 .. k PROVE f[i] <= N + f[k]
    <3>1. i \in 1 .. k - 1 \/ i = k
      OBVIOUS
    <3> QED
      BY <1>0, <2>1, <2>2, <3>1
  <2> QED
    BY <2>2, <2>3
<1> HIDE DEF P
<1>6. Bad = {}
  <2> SUFFICES ASSUME Bad # {} PROVE FALSE
    OBVIOUS
  <2>0. Bad \subseteq Nat
    OBVIOUS
  <2>1. PICK k \in Bad : \A j \in Bad : k <= j
    <3> HIDE DEF Bad
    <3> QED BY <2>0, NatSetMin
  <2>2. k \in 1 .. n
    BY <1>4
  <2>3. P(k - 1)
    BY <2>1, <2>2
  <2> QED
    BY <1>5, <2>2, <2>3
<1>7. P(n)
  BY <1>6
<1> QED
  BY <1>3, <1>7 DEF P

\* What a transaction holds it has asked for.
HeldTried == \A t \in Threads : Range(txn[t].EB_vec_) \subseteq Range(txn[t].tried)

\* A step of one thread.
LEMMA HeldUpdated ==
  ASSUME LocksInv, HeldTried, NEW t \in Threads, NEW x, txn' = [txn EXCEPT ![t] = x],
         Range(x.EB_vec_) \subseteq Range(x.tried)
  PROVE  HeldTried'
BY DEF HeldTried, LocksInv, LockTypes

\* A write is tried, and kept when it is accepted.
LEMMA HeldWritten ==
  ASSUME LocksInv, HeldTried, NEW t \in Threads, Open(t), txn[t].todo # << >>,
         NEW v \in Vertices, NEW old, NEW del, NEW last_epoch,
         Refuse(t, v, old) \/ Accept(t, v, old, del, last_epoch)
  PROVE  HeldTried'
<1>1. txn[t] \in TxnType
  BY DEF LocksInv, LockTypes
<1>2. txn[t].tried \in Seq(Vertices) /\ txn[t].EB_vec_ \in Seq(Vertices)
  BY <1>1 DEF TxnType
<1>3. /\ Range(Append(txn[t].tried, v)) = Range(txn[t].tried) \cup {v}
      /\ Range(Append(txn[t].EB_vec_, v)) = Range(txn[t].EB_vec_) \cup {v}
  BY <1>2, RangeAppend
<1>4. Range(txn[t].EB_vec_) \subseteq Range(txn[t].tried)
  BY DEF HeldTried
<1>5. CASE Refuse(t, v, old)
  <2> DEFINE x == Returned(txn[t], v)
  <2>1. x.tried = Append(txn[t].tried, v) /\ x.EB_vec_ = txn[t].EB_vec_
    BY <1>1 DEF Returned, TxnType
  <2>2. txn' = [txn EXCEPT ![t] = x]
    BY <1>5 DEF Refuse
  <2> HIDE DEF x
  <2> QED
    BY <1>3, <1>4, <2>1, <2>2, HeldUpdated
<1>6. CASE Accept(t, v, old, del, last_epoch)
  <2> DEFINE x == [Returned(txn[t], v) EXCEPT !.intra_c_ = Drawn(txn[t]),
                                              !.EB_vec_ = Append(@, v)]
  <2>1. x.tried = Append(txn[t].tried, v) /\ x.EB_vec_ = Append(txn[t].EB_vec_, v)
    BY <1>1 DEF Returned, TxnType
  <2>2. txn' = [txn EXCEPT ![t] = x]
    BY <1>6 DEF Accept
  <2> HIDE DEF x
  <2> QED
    BY <1>3, <1>4, <2>1, <2>2, HeldUpdated
<1> QED
  BY <1>5, <1>6

\* Every step of the specification keeps it so.
LEMMA HeldStep ==
  ASSUME LocksInv, HeldTried, [Next]_vars
  PROVE  HeldTried'
<1>0. \A t \in Threads : txn[t] \in TxnType /\ Range(txn[t].EB_vec_) \subseteq Range(txn[t].tried)
  BY DEF LocksInv, LockTypes, HeldTried
<1>1. ASSUME NEW t \in Threads, registerTransaction(t) PROVE HeldTried'
  <2>1. PICK p \in Programs :
          txn' = [txn EXCEPT ![t] = [NoTxn EXCEPT !.state = "registered", !.id = begun + 1,
                    !.epoch_ = cur_, !.write_only_ = p.write_only_, !.todo = p.calls,
                    !.finish = p.finish]]
    BY <1>1 DEF registerTransaction
  <2> DEFINE x == [NoTxn EXCEPT !.state = "registered", !.id = begun + 1,
                    !.epoch_ = cur_, !.write_only_ = p.write_only_, !.todo = p.calls,
                    !.finish = p.finish]
  <2>2. x.EB_vec_ = << >> /\ x.tried = << >>
    BY DEF NoTxn
  <2> HIDE DEF x
  <2> QED
    BY <2>1, <2>2, HeldUpdated DEF x
<1>2. ASSUME NEW t \in Threads, NEW x, txn' = [txn EXCEPT ![t] = x],
             x.EB_vec_ = txn[t].EB_vec_, x.tried = txn[t].tried
      PROVE  HeldTried'
  BY <1>0, <1>2, HeldUpdated
<1>3. ASSUME NEW t \in Threads, set_read_epoch(t) PROVE HeldTried'
  <2> DEFINE x == [txn[t] EXCEPT !.state = "open", !.read_epoch_ = read_epoch_]
  <2>1. txn' = [txn EXCEPT ![t] = x]
    BY <1>3 DEF set_read_epoch
  <2>2. x.EB_vec_ = txn[t].EB_vec_ /\ x.tried = txn[t].tried
    BY <1>0 DEF TxnType
  <2> QED
    BY <1>2, <2>1, <2>2
<1>4. ASSUME NEW t \in Threads, INSERT1(t) \/ INSERT(t) \/ execute(t) PROVE HeldTried'
  <2>1. PICK q, rest : txn' = [txn EXCEPT ![t].queued = q, ![t].todo = rest]
    <3>1. CASE INSERT1(t)
      BY <3>1 DEF INSERT1
    <3>2. CASE INSERT(t)
      BY <3>2 DEF INSERT
    <3>3. CASE execute(t)
      <4>1. txn[t].queued = txn[t].queued /\ txn \in [Threads -> TxnType]
        BY DEF LocksInv, LockTypes
      <4>2. \A rest : [txn EXCEPT ![t].todo = rest]
                       = [txn EXCEPT ![t].queued = txn[t].queued, ![t].todo = rest]
        BY <4>1 DEF TxnType
      <4> QED
        BY <3>3, <4>2 DEF execute
    <3> QED
      BY <1>4, <3>1, <3>2, <3>3
  <2> DEFINE x == [txn[t] EXCEPT !.queued = q, !.todo = rest]
  <2>2. txn' = [txn EXCEPT ![t] = x]
    BY <2>1
  <2>3. x.EB_vec_ = txn[t].EB_vec_ /\ x.tried = txn[t].tried
    BY <1>0 DEF TxnType
  <2> QED
    BY <1>2, <2>2, <2>3
<1>5. ASSUME NEW t \in Threads, insertedge(t) \/ deletedge(t) PROVE HeldTried'
  <2>1. NextCall(t).v \in Vertices /\ Open(t) /\ txn[t].todo # << >>
    BY <1>5, CallVertex DEF insertedge, deletedge, Calling
  <2>2. \E old, del, last_epoch :
          Refuse(t, NextCall(t).v, old) \/ Accept(t, NextCall(t).v, old, del, last_epoch)
    BY <1>5 DEF insertedge, deletedge
  <2> QED
    BY <2>1, <2>2, HeldWritten
<1>6. ASSUME NEW t \in Threads, commit(t) PROVE HeldTried'
  <2> DEFINE x == [txn[t] EXCEPT !.state = "committing", !.intra_c_ = Drawn(txn[t])]
  <2>1. txn' = [txn EXCEPT ![t] = x]
    BY <1>6 DEF commit
  <2>2. x.EB_vec_ = txn[t].EB_vec_ /\ x.tried = txn[t].tried
    BY <1>0 DEF TxnType
  <2> QED
    BY <1>2, <2>1, <2>2
<1>7. ASSUME NEW t \in Threads, unleashReadLock(t) PROVE HeldTried'
  <2> DEFINE x == [txn[t] EXCEPT !.EB_vec_ = Tail(@)]
  <2>1. txn[t].EB_vec_ \in Seq(Vertices) /\ txn[t].EB_vec_ # << >>
    BY <1>0, <1>7 DEF TxnType, unleashReadLock
  <2>2. Range(Tail(txn[t].EB_vec_)) \subseteq Range(txn[t].EB_vec_)
    BY <2>1, TailRange DEF LocksInv, LocksOwned
  <2>3. txn' = [txn EXCEPT ![t] = x] /\ x.EB_vec_ = Tail(txn[t].EB_vec_) /\ x.tried = txn[t].tried
    BY <1>0, <1>7 DEF unleashReadLock, TxnType
  <2> HIDE DEF x
  <2> QED
    BY <1>0, <2>2, <2>3, HeldUpdated
<1>8. ASSUME NEW t \in Threads, COMMIT(t) \/ deregisterTransaction(t) PROVE HeldTried'
  <2>1. PICK x : txn' = [txn EXCEPT ![t] = x] /\ x.EB_vec_ = << >>
    <3>1. CASE COMMIT(t)
      <4>1. [txn[t] EXCEPT !.state = "committing", !.EB_vec_ = << >>].EB_vec_ = << >>
        BY <1>0 DEF TxnType
      <4> QED
        BY <3>1, <4>1 DEF COMMIT
    <3>2. CASE deregisterTransaction(t)
      <4>1. NoTxn.EB_vec_ = << >>
        BY DEF NoTxn
      <4> QED
        BY <3>2, <4>1 DEF deregisterTransaction
    <3> QED
      BY <1>8, <3>1, <3>2
  <2>2. Range(x.EB_vec_) = {}
    BY <2>1 DEF Range
  <2> QED
    BY <2>1, <2>2, HeldUpdated
<1>9. ASSUME UNCHANGED txn PROVE HeldTried'
  BY <1>9 DEF HeldTried
<1>10. ASSUME OpenEpoch \/ Publisher \/ registerROTransaction \/ Reader PROVE UNCHANGED txn
  BY <1>10 DEF OpenEpoch, Publisher, BeginCommit, Publish, Transform, Reader,
     registerROTransaction, deregisterROTransaction, Scan
<1>11. UNCHANGED vars => UNCHANGED txn
  BY DEF vars
<1> QED
  BY <1>1, <1>3, <1>4, <1>5, <1>6, <1>7, <1>8, <1>9, <1>10, <1>11 DEF Next, Step

\* Locks kept until commit, for any number of threads and vertices and any programs: in
\* every circle of waiting somebody has asked for vertices out of order.  (COMMIT, which
\* releases nothing, ends only transactions without calls.)
THEOREM EveryCircleDisordered ==
  ASSUME \A p \in Programs : p.finish = "COMMIT" => p.calls = << >>
  PROVE  Spec => []CirclesDisordered
<1>1. Init => LocksInv /\ HeldTried
  <2> SUFFICES ASSUME Init PROVE HeldTried
    BY LocksInit
  <2>1. \A t \in Threads : txn[t] = NoTxn
    BY DEF Init
  <2> QED
    BY <2>1 DEF HeldTried, NoTxn, Range
<1>2. LocksInv /\ HeldTried /\ [Next]_vars => LocksInv' /\ HeldTried'
  BY LocksStep, HeldStep
<1>3. LocksInv /\ HeldTried => CirclesDisordered
  <2> SUFFICES ASSUME LocksInv, HeldTried, NEW S \in SUBSET Threads, Circle(S),
                      \A t \in S : AsksInOrder(t)
               PROVE  FALSE
    BY DEF CirclesDisordered
  <2> DEFINE V(t) == NextCall(t).v
             A == {V(t) : t \in S}
  <2>0. S # {} /\ \A t \in S : Waiting(t) /\ spin_rw_lock[V(t)] \in S
    BY DEF Circle
  <2>1. \A t \in S : V(t) \in Vertices
    BY <2>0, CallVertex DEF Waiting
  <2>2. A \subseteq Nat /\ A # {}
    <3>1. Vertices \subseteq Nat
      BY TransactionAssumption
    <3> HIDE DEF V
    <3> QED
      BY <2>0, <2>1, <3>1
  <2>3. \E n \in Nat : \A a \in A : a <= n
    <3>1. PICK n \in Nat : \A v \in Vertices : v <= n
      BY FiniteBounded, TransactionAssumption
    <3> QED
      BY <2>1, <3>1
  <2>4. PICK m \in A : \A a \in A : a <= m
    <3> HIDE DEF A
    <3> QED
      BY <2>2, <2>3, NatSetMax
  <2>5. PICK t \in S : m = V(t)
    OBVIOUS
  <2> DEFINE u == spin_rw_lock[V(t)]
  <2>6. u \in S
    BY <2>0
  <2>7. V(t) \in Range(txn[u].tried)
    BY <2>1, <2>6 DEF LocksInv, LocksOwned, HeldTried
  <2>8. V(t) < V(u)
    BY <2>6, <2>7 DEF AsksInOrder
  <2>9. V(u) <= V(t) /\ V(u) \in Nat /\ V(t) \in Nat
    BY <2>2, <2>4, <2>5, <2>6
  <2> QED
    BY <2>8, <2>9
<1> QED
  BY <1>1, <1>2, <1>3, PTL DEF Spec
=============================================================================
