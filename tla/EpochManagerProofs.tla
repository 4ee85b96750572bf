------------------------- MODULE EpochManagerProofs -------------------------
(***************************************************************************)
(* Proofs, for every number of threads, size of the ring and number of     *)
(* epochs, that EpochManager keeps its types (TypeCorrect), never leaves a *)
(* registered writer in a published epoch (Quiescence) and never collects  *)
(* a version block a pinned reader needs (PinsHonoured).                   *)
(*                                                                         *)
(* All three rest on the inductive invariant IInv.  Its parts are proved   *)
(* inductive one lemma each, one step per action; an actor that touches    *)
(* none of a part's variables is dismissed by its frame lemma.             *)
(*                                                                         *)
(* And that opening an epoch never overwrites the VBData of one that is    *)
(* still to be published, that writers, committers and readers hold the    *)
(* VBData they think they hold, that GC gets every epoch once and in       *)
(* order, that FinalizeNoMoreTxn publishes everything, and that            *)
(* EpochManager implements EpochProtocol.  These rest on RingInv, which is *)
(* inductive together with IInv.                                           *)
(***************************************************************************)
EXTENDS EpochManager, TLAPS, FiniteSetTheorems, SequenceTheorems

USE DEF ringVars, publishVars, flagVars, slotVars, gcVars, minVars, writerVars,
        readerVars, scanVars, agentVars, vars, wFrame, rFrame, uFrame, cFrame,
        mFrame

-----------------------------------------------------------------------------
(* Frames.                                                                 *)

\* What no step of a writer changes (AllVBManager.cpp assigns it elsewhere).
LEMMA WriterFrame == \A t \in Threads : WriterStep(t) => UNCHANGED wFrame
BY DEF WriterStep, RegisterTransaction, LoadCur, AwaitRing, StoreActive,
       VerifyCur, TakeVBData, CheckRoom, CasIsCreate, NewVBData, IncCur,
       ReleaseIsCreate, DeregisterTransaction

\* What no step of a reader changes (AllVBManager.cpp assigns it elsewhere).
LEMMA ReaderFrame == \A t \in Threads : ReaderStep(t) => UNCHANGED rFrame
BY DEF ReaderStep, RegisterROTransaction, LoadReadEpoch, StoreActiveRead,
       VerifyReadEpoch, GuardCapture, LoadVBData, DerefVBData,
       DeregisterROTransaction

\* What no step of the updater changes (AllVBManager.cpp assigns it elsewhere).
LEMMA UpdaterFrame == UpdaterStep => UNCHANGED uFrame
BY DEF UpdaterStep, UpdaterLoop, ResetMinRead, ScanRead, LowerMinRead,
       ResetMin, ScanWriters, LowerMin, GC, CommitOrSleep

\* What no step of commitVersionBlock changes (AllVBManager.cpp assigns it elsewhere).
LEMMA CommitFrame == \A a \in Agents : CommitStep(a) => UNCHANGED cFrame
BY DEF CommitStep, CommitLock, CommitTransform, CommitPublish, CommitNext,
       CommitUnlock

\* What no step of the main thread changes (AllVBManager.cpp assigns it elsewhere).
LEMMA MainFrame == MainStep => UNCHANGED mFrame
BY DEF MainStep, CommitManually, NoMoreTxn, FinalizeNoMoreTxn, StopUpdater,
       JoinUpdater, PublishRest

-----------------------------------------------------------------------------
(* The parts of the inductive invariant.                                   *)

\* NoMoreTxn, FinalizeNoMoreTxn and stop keep the two flags Boolean.
LEMMA TypeFlagsStep == IInv /\ [Next]_vars => TypeFlags'
<1> SUFFICES ASSUME IInv, [Next]_vars PROVE TypeFlags'
  OBVIOUS
<1> USE DEF IInv, TypeOK, TypeFlags
<1>1. ASSUME NEW t \in Threads, WriterStep(t) PROVE TypeFlags'
  BY <1>1, WriterFrame
<1>2. ASSUME NEW t \in Threads, ReaderStep(t) PROVE TypeFlags'
  BY <1>2, ReaderFrame
<1>3. ASSUME UpdaterStep PROVE TypeFlags'
  BY <1>3, UpdaterFrame
<1>4. ASSUME NEW a \in Agents, CommitStep(a) PROVE TypeFlags'
  BY <1>4, CommitFrame
<1>5. ASSUME NEW e \in Epochs, CommitManually(e) PROVE TypeFlags'
  BY <1>5 DEF CommitManually
<1>6. ASSUME NoMoreTxn PROVE TypeFlags'
  BY <1>6 DEF NoMoreTxn
<1>7. ASSUME FinalizeNoMoreTxn PROVE TypeFlags'
  BY <1>7 DEF FinalizeNoMoreTxn
<1>8. ASSUME StopUpdater PROVE TypeFlags'
  BY <1>8 DEF StopUpdater
<1>9. ASSUME JoinUpdater PROVE TypeFlags'
  BY <1>9 DEF JoinUpdater
<1>10. ASSUME PublishRest PROVE TypeFlags'
  BY <1>10 DEF PublishRest
<1>11. ASSUME UNCHANGED vars PROVE TypeFlags'
  BY <1>11
<1> QED
  BY <1>1, <1>2, <1>3, <1>4, <1>5, <1>6, <1>7, <1>8, <1>9, <1>10, <1>11
  DEF Next, MainStep

\* The members of AllVBManager keep their types: cur_ is only incremented by an
\* opener below the bound, read_epoch_ only below a target.
LEMMA TypeManagerStep == IInv /\ [Next]_vars => TypeManager'
<1> SUFFICES ASSUME IInv, [Next]_vars PROVE TypeManager'
  OBVIOUS
<1> USE EpochsAssumption DEF IInv, TypeOK, TypeManager, Epochs
<1>1. ASSUME NEW t \in Threads, RegisterTransaction(t) PROVE TypeManager'
  BY <1>1 DEF RegisterTransaction
<1>2. ASSUME NEW t \in Threads, LoadCur(t) PROVE TypeManager'
  BY <1>2 DEF LoadCur
<1>3. ASSUME NEW t \in Threads, AwaitRing(t) PROVE TypeManager'
  BY <1>3 DEF AwaitRing
<1>4. ASSUME NEW t \in Threads, StoreActive(t) PROVE TypeManager'
  BY <1>4 DEF StoreActive, TypeThreads, WriterInv, WriterPCs
<1>5. ASSUME NEW t \in Threads, VerifyCur(t) PROVE TypeManager'
  BY <1>5 DEF VerifyCur
<1>6. ASSUME NEW t \in Threads, TakeVBData(t) PROVE TypeManager'
  BY <1>6 DEF TakeVBData
<1>7. ASSUME NEW t \in Threads, CheckRoom(t) PROVE TypeManager'
  BY <1>7 DEF CheckRoom
<1>8. ASSUME NEW t \in Threads, CasIsCreate(t) PROVE TypeManager'
  BY <1>8 DEF CasIsCreate
<1>9. ASSUME NEW t \in Threads, NewVBData(t) PROVE TypeManager'
  <2>1. cur[t] + 1 \in 0 .. MaxEpoch
    BY <1>9 DEF NewVBData, TypeThreads, CreateInv
  <2>2. active_txns_' \in [0 .. MAXSIMULBATCH - 1 -> 0 .. MaxEpoch]
    BY <1>9, <2>1 DEF NewVBData
  <2> QED
    BY <1>9, <2>2 DEF NewVBData
<1>10. ASSUME NEW t \in Threads, IncCur(t) PROVE TypeManager'
  BY <1>10 DEF IncCur, TypeThreads, CreateInv
<1>11. ASSUME NEW t \in Threads, ReleaseIsCreate(t) PROVE TypeManager'
  BY <1>11 DEF ReleaseIsCreate
<1>12. ASSUME NEW t \in Threads, DeregisterTransaction(t) PROVE TypeManager'
  BY <1>12 DEF DeregisterTransaction
<1>13. ASSUME NEW t \in Threads, RegisterROTransaction(t) PROVE TypeManager'
  BY <1>13 DEF RegisterROTransaction
<1>14. ASSUME NEW t \in Threads, LoadReadEpoch(t) PROVE TypeManager'
  BY <1>14 DEF LoadReadEpoch
<1>15. ASSUME NEW t \in Threads, StoreActiveRead(t) PROVE TypeManager'
  BY <1>15 DEF StoreActiveRead, TypeThreads
<1>16. ASSUME NEW t \in Threads, VerifyReadEpoch(t) PROVE TypeManager'
  BY <1>16 DEF VerifyReadEpoch
<1>17. ASSUME NEW t \in Threads, GuardCapture(t) PROVE TypeManager'
  BY <1>17 DEF GuardCapture
<1>18. ASSUME NEW t \in Threads, LoadVBData(t) PROVE TypeManager'
  BY <1>18 DEF LoadVBData
<1>19. ASSUME NEW t \in Threads, DerefVBData(t) PROVE TypeManager'
  BY <1>19 DEF DerefVBData
<1>20. ASSUME NEW t \in Threads, DeregisterROTransaction(t) PROVE TypeManager'
  BY <1>20 DEF DeregisterROTransaction
<1>21. ASSUME UpdaterLoop PROVE TypeManager'
  BY <1>21 DEF UpdaterLoop
<1>22. ASSUME ResetMinRead PROVE TypeManager'
  BY <1>22 DEF ResetMinRead
<1>23. ASSUME ScanRead PROVE TypeManager'
  BY <1>23 DEF ScanRead
<1>24. ASSUME LowerMinRead PROVE TypeManager'
  BY <1>24 DEF LowerMinRead, TypeAgents, MinOf
<1>25. ASSUME ResetMin PROVE TypeManager'
  BY <1>25 DEF ResetMin
<1>26. ASSUME ScanWriters PROVE TypeManager'
  BY <1>26 DEF ScanWriters
<1>27. ASSUME LowerMin PROVE TypeManager'
  BY <1>27 DEF LowerMin, TypeAgents, Lowered, MinOf
<1>28. ASSUME GC PROVE TypeManager'
  BY <1>28 DEF GC
<1>29. ASSUME CommitOrSleep PROVE TypeManager'
  BY <1>29 DEF CommitOrSleep
<1>30. ASSUME NEW a \in Agents, CommitLock(a) PROVE TypeManager'
  BY <1>30 DEF CommitLock, Agents
<1>31. ASSUME NEW a \in Agents, CommitTransform(a) PROVE TypeManager'
  BY <1>31 DEF CommitTransform
<1>32. ASSUME NEW a \in Agents, CommitPublish(a) PROVE TypeManager'
  BY <1>32 DEF CommitPublish, TypeAgents, CommitInv, OpenInv, CommitPCs
<1>33. ASSUME NEW a \in Agents, CommitNext(a) PROVE TypeManager'
  BY <1>33 DEF CommitNext, NextSlot
<1>34. ASSUME NEW a \in Agents, CommitUnlock(a) PROVE TypeManager'
  BY <1>34 DEF CommitUnlock
<1>35. ASSUME MainStep PROVE TypeManager'
  BY <1>35, MainFrame
<1>36. ASSUME UNCHANGED vars PROVE TypeManager'
  BY <1>36
<1> QED
  BY <1>1, <1>2, <1>3, <1>4, <1>5, <1>6, <1>7, <1>8, <1>9, <1>10, <1>11,
     <1>12, <1>13, <1>14, <1>15, <1>16, <1>17, <1>18, <1>19, <1>20, <1>21,
     <1>22, <1>23, <1>24, <1>25, <1>26, <1>27, <1>28, <1>29, <1>30, <1>31,
     <1>32, <1>33, <1>34, <1>35, <1>36
  DEF Next, WriterStep, ReaderStep, UpdaterStep, CommitStep

\* vb_que_ holds epochs: commitVersionBlock appends one, GC pops a prefix.
LEMMA TypeQueueStep == IInv /\ [Next]_vars => TypeQueue'
<1> SUFFICES ASSUME IInv, [Next]_vars PROVE TypeQueue'
  OBVIOUS
<1> USE EpochsAssumption DEF IInv, TypeOK, TypeQueue
<1>1. ASSUME NEW t \in Threads, WriterStep(t) PROVE TypeQueue'
  BY <1>1, WriterFrame
<1>2. ASSUME NEW t \in Threads, ReaderStep(t) PROVE TypeQueue'
  BY <1>2, ReaderFrame
<1>3. ASSUME UpdaterLoop PROVE TypeQueue'
  BY <1>3 DEF UpdaterLoop
<1>4. ASSUME ResetMinRead PROVE TypeQueue'
  BY <1>4 DEF ResetMinRead
<1>5. ASSUME ScanRead PROVE TypeQueue'
  BY <1>5 DEF ScanRead
<1>6. ASSUME LowerMinRead PROVE TypeQueue'
  BY <1>6 DEF LowerMinRead
<1>7. ASSUME ResetMin PROVE TypeQueue'
  BY <1>7 DEF ResetMin
<1>8. ASSUME ScanWriters PROVE TypeQueue'
  BY <1>8 DEF ScanWriters
<1>9. ASSUME LowerMin PROVE TypeQueue'
  BY <1>9 DEF LowerMin
<1>10. ASSUME GC PROVE TypeQueue'
  <2>1. Popped \subseteq 1 .. Len(vb_que_)
    BY DEF Popped
  <2>2. Cardinality(Popped) \in Nat
    <3>1. IsFiniteSet(1 .. Len(vb_que_))
      BY FS_Interval, LenProperties
    <3> QED
      BY <2>1, <3>1, FS_Subset, FS_CardinalityType
  <2>3. vb_que_' \in Seq(0 .. MaxEpoch)
    BY <1>10, <2>2, SubSeqProperties DEF GC
  <2>4. \A i \in Popped : vb_que_[i] \in 0 .. MaxEpoch
    BY <2>1
  <2> QED
    BY <1>10, <2>3, <2>4 DEF GC
<1>11. ASSUME CommitOrSleep PROVE TypeQueue'
  BY <1>11 DEF CommitOrSleep
<1>12. ASSUME NEW a \in Agents, CommitLock(a) PROVE TypeQueue'
  BY <1>12 DEF CommitLock
<1>13. ASSUME NEW a \in Agents, CommitTransform(a) PROVE TypeQueue'
  BY <1>13 DEF CommitTransform, TypeAgents
<1>14. ASSUME NEW a \in Agents, CommitPublish(a) PROVE TypeQueue'
  BY <1>14 DEF CommitPublish
<1>15. ASSUME NEW a \in Agents, CommitNext(a) PROVE TypeQueue'
  BY <1>15 DEF CommitNext
<1>16. ASSUME NEW a \in Agents, CommitUnlock(a) PROVE TypeQueue'
  BY <1>16 DEF CommitUnlock
<1>17. ASSUME MainStep PROVE TypeQueue'
  BY <1>17, MainFrame
<1>18. ASSUME UNCHANGED vars PROVE TypeQueue'
  BY <1>18
<1> QED
  BY <1>1, <1>2, <1>3, <1>4, <1>5, <1>6, <1>7, <1>8, <1>9, <1>10, <1>11,
     <1>12, <1>13, <1>14, <1>15, <1>16, <1>17, <1>18
  DEF Next, UpdaterStep, CommitStep

\* cur & MODPM is an index of the ring.
LEMMA SlotInRing == \A e \in Nat : Slot(e) \in 0 .. MAXSIMULBATCH - 1
BY EpochsAssumption DEF Slot

\* The locals of the application threads keep their types.
LEMMA TypeThreadsStep == IInv /\ [Next]_vars => TypeThreads'
<1> SUFFICES ASSUME IInv, [Next]_vars PROVE TypeThreads'
  OBVIOUS
<1> USE EpochsAssumption DEF IInv, TypeOK, TypeThreads, Goto, WriterPCs,
            ReaderPCs
<1>1. ASSUME NEW t \in Threads, RegisterTransaction(t) PROVE TypeThreads'
  BY <1>1 DEF RegisterTransaction
<1>2. ASSUME NEW t \in Threads, LoadCur(t) PROVE TypeThreads'
  BY <1>2 DEF LoadCur, TypeManager
<1>3. ASSUME NEW t \in Threads, AwaitRing(t) PROVE TypeThreads'
  BY <1>3 DEF AwaitRing
<1>4. ASSUME NEW t \in Threads, StoreActive(t) PROVE TypeThreads'
  BY <1>4 DEF StoreActive
<1>5. ASSUME NEW t \in Threads, VerifyCur(t) PROVE TypeThreads'
  BY <1>5 DEF VerifyCur
<1>6. ASSUME NEW t \in Threads, TakeVBData(t) PROVE TypeThreads'
  <2>1. PICK label \in {"w_full", "w_run"} : pc' = [pc EXCEPT ![t] = label]
    BY <1>6 DEF TakeVBData
  <2>2. cur[t] \in 0 .. MaxEpoch
    OBVIOUS
  <2>3. Slot(cur[t]) \in 0 .. MAXSIMULBATCH - 1
    BY <2>2, SlotInRing
  <2>4. active_txns_[Slot(cur[t])] \in 0 .. MaxEpoch
    BY <2>3 DEF TypeManager
  <2>5. vb_data' \in [Threads -> 0 .. MaxEpoch]
    BY <1>6, <2>4 DEF TakeVBData
  <2>6. pc' \in [Threads -> {"idle"} \cup WriterPCs \cup ReaderPCs]
    BY <2>1
  <2> QED
    BY <1>6, <2>5, <2>6 DEF TakeVBData
<1>7. ASSUME NEW t \in Threads, CheckRoom(t) PROVE TypeThreads'
  BY <1>7 DEF CheckRoom
<1>8. ASSUME NEW t \in Threads, CasIsCreate(t) PROVE TypeThreads'
  BY <1>8 DEF CasIsCreate
<1>9. ASSUME NEW t \in Threads, NewVBData(t) PROVE TypeThreads'
  BY <1>9 DEF NewVBData
<1>10. ASSUME NEW t \in Threads, IncCur(t) PROVE TypeThreads'
  BY <1>10 DEF IncCur
<1>11. ASSUME NEW t \in Threads, ReleaseIsCreate(t) PROVE TypeThreads'
  BY <1>11 DEF ReleaseIsCreate
<1>12. ASSUME NEW t \in Threads, DeregisterTransaction(t) PROVE TypeThreads'
  BY <1>12 DEF DeregisterTransaction
<1>13. ASSUME NEW t \in Threads, RegisterROTransaction(t) PROVE TypeThreads'
  BY <1>13 DEF RegisterROTransaction
<1>14. ASSUME NEW t \in Threads, LoadReadEpoch(t) PROVE TypeThreads'
  BY <1>14 DEF LoadReadEpoch, TypeManager
<1>15. ASSUME NEW t \in Threads, StoreActiveRead(t) PROVE TypeThreads'
  BY <1>15 DEF StoreActiveRead
<1>16. ASSUME NEW t \in Threads, VerifyReadEpoch(t) PROVE TypeThreads'
  BY <1>16 DEF VerifyReadEpoch
<1>17. ASSUME NEW t \in Threads, GuardCapture(t) PROVE TypeThreads'
  BY <1>17 DEF GuardCapture
<1>18. ASSUME NEW t \in Threads, LoadVBData(t) PROVE TypeThreads'
  BY <1>18 DEF LoadVBData, TypeManager
<1>19. ASSUME NEW t \in Threads, DerefVBData(t) PROVE TypeThreads'
  BY <1>19 DEF DerefVBData
<1>20. ASSUME NEW t \in Threads, DeregisterROTransaction(t) PROVE TypeThreads'
  BY <1>20 DEF DeregisterROTransaction
<1>21. ASSUME UpdaterStep PROVE TypeThreads'
  BY <1>21, UpdaterFrame
<1>22. ASSUME NEW a \in Agents, CommitStep(a) PROVE TypeThreads'
  BY <1>22, CommitFrame
<1>23. ASSUME MainStep PROVE TypeThreads'
  BY <1>23, MainFrame
<1>24. ASSUME UNCHANGED vars PROVE TypeThreads'
  BY <1>24
<1> QED
  BY <1>1, <1>2, <1>3, <1>4, <1>5, <1>6, <1>7, <1>8, <1>9, <1>10, <1>11,
     <1>12, <1>13, <1>14, <1>15, <1>16, <1>17, <1>18, <1>19, <1>20, <1>21,
     <1>22, <1>23, <1>24
  DEF Next, WriterStep, ReaderStep

\* The locals of the updater and of the main thread keep their types.
LEMMA TypeAgentsStep == IInv /\ [Next]_vars => TypeAgents'
<1> SUFFICES ASSUME IInv, [Next]_vars PROVE TypeAgents'
  OBVIOUS
<1> USE EpochsAssumption, ThreadsAssumption DEF IInv, TypeOK, TypeAgents,
            Agents, Epochs, AGoto, UpdaterGoto, UpdaterAt, MainAt, CommitPCs,
            UpdaterPCs, MainPCs
<1>1. ASSUME NEW t \in Threads, WriterStep(t) PROVE TypeAgents'
  BY <1>1, WriterFrame
<1>2. ASSUME NEW t \in Threads, ReaderStep(t) PROVE TypeAgents'
  BY <1>2, ReaderFrame
<1>3. ASSUME UpdaterLoop PROVE TypeAgents'
  BY <1>3 DEF UpdaterLoop
<1>4. ASSUME ResetMinRead PROVE TypeAgents'
  BY <1>4 DEF ResetMinRead
<1>5. ASSUME ScanRead PROVE TypeAgents'
  BY <1>5 DEF ScanRead, TypeManager, MinOf, Threads
<1>6. ASSUME LowerMinRead PROVE TypeAgents'
  BY <1>6 DEF LowerMinRead
<1>7. ASSUME ResetMin PROVE TypeAgents'
  BY <1>7 DEF ResetMin, TypeManager
<1>8. ASSUME ScanWriters PROVE TypeAgents'
  BY <1>8 DEF ScanWriters, TypeManager, MinOf, Threads
<1>9. ASSUME LowerMin PROVE TypeAgents'
  BY <1>9 DEF LowerMin
<1>10. ASSUME GC PROVE TypeAgents'
  BY <1>10 DEF GC
<1>11. ASSUME CommitOrSleep PROVE TypeAgents'
  BY <1>11 DEF CommitOrSleep, TypeManager, PublishTarget
<1>12. ASSUME NEW a \in Agents, CommitLock(a) PROVE TypeAgents'
  BY <1>12 DEF CommitLock, TypeManager
<1>13. ASSUME NEW a \in Agents, CommitTransform(a) PROVE TypeAgents'
  BY <1>13 DEF CommitTransform
<1>14. ASSUME NEW a \in Agents, CommitPublish(a) PROVE TypeAgents'
  BY <1>14 DEF CommitPublish
<1>15. ASSUME NEW a \in Agents, CommitNext(a) PROVE TypeAgents'
  BY <1>15 DEF CommitNext, TypeManager, NextSlot
<1>16. ASSUME NEW a \in Agents, CommitUnlock(a) PROVE TypeAgents'
  BY <1>16 DEF CommitUnlock, ReturnTo
<1>17. ASSUME NEW e \in Epochs, CommitManually(e) PROVE TypeAgents'
  BY <1>17 DEF CommitManually
<1>18. ASSUME NoMoreTxn PROVE TypeAgents'
  BY <1>18 DEF NoMoreTxn
<1>19. ASSUME FinalizeNoMoreTxn PROVE TypeAgents'
  BY <1>19 DEF FinalizeNoMoreTxn
<1>20. ASSUME StopUpdater PROVE TypeAgents'
  BY <1>20 DEF StopUpdater
<1>21. ASSUME JoinUpdater PROVE TypeAgents'
  BY <1>21 DEF JoinUpdater
<1>22. ASSUME PublishRest PROVE TypeAgents'
  BY <1>22 DEF PublishRest, TypeManager, FinalizeTarget
<1>23. ASSUME UNCHANGED vars PROVE TypeAgents'
  BY <1>23
<1> QED
  BY <1>1, <1>2, <1>3, <1>4, <1>5, <1>6, <1>7, <1>8, <1>9, <1>10, <1>11,
     <1>12, <1>13, <1>14, <1>15, <1>16, <1>17, <1>18, <1>19, <1>20, <1>21,
     <1>22, <1>23
  DEF Next, UpdaterStep, CommitStep, MainStep

\* is_create serialises the openers of an epoch: only its holder increments cur_.
LEMMA CreateInvStep == IInv /\ [Next]_vars => CreateInv'
<1> SUFFICES ASSUME IInv, [Next]_vars PROVE CreateInv'
  OBVIOUS
<1> USE EpochsAssumption DEF IInv, TypeOK, TypeThreads, TypeManager,
            CreateInv, Goto, StillOpen
<1>1. ASSUME NEW t \in Threads, RegisterTransaction(t) PROVE CreateInv'
  BY <1>1 DEF RegisterTransaction
<1>2. ASSUME NEW t \in Threads, LoadCur(t) PROVE CreateInv'
  BY <1>2 DEF LoadCur
<1>3. ASSUME NEW t \in Threads, AwaitRing(t) PROVE CreateInv'
  BY <1>3 DEF AwaitRing
<1>4. ASSUME NEW t \in Threads, StoreActive(t) PROVE CreateInv'
  BY <1>4 DEF StoreActive
<1>5. ASSUME NEW t \in Threads, VerifyCur(t) PROVE CreateInv'
  BY <1>5 DEF VerifyCur
<1>6. ASSUME NEW t \in Threads, TakeVBData(t) PROVE CreateInv'
  BY <1>6 DEF TakeVBData
<1>7. ASSUME NEW t \in Threads, CheckRoom(t) PROVE CreateInv'
  BY <1>7 DEF CheckRoom
<1>8. ASSUME NEW t \in Threads, CasIsCreate(t) PROVE CreateInv'
  <2>1. CASE is_create = 0
    <3>1. \A u \in Threads : pc[u] \notin {"w_new", "w_inc", "w_release"}
      BY <2>1
    <3>2. pc' = [pc EXCEPT ![t] = "w_new"] /\ is_create' = 1
      BY <1>8, <2>1 DEF CasIsCreate
    <3> QED
      BY <1>8, <3>1, <3>2 DEF CasIsCreate
  <2>2. CASE is_create # 0
    <3>1. pc' = [pc EXCEPT ![t] = "w_run"] /\ is_create' = is_create
      BY <1>8, <2>2 DEF CasIsCreate
    <3> QED
      BY <1>8, <3>1 DEF CasIsCreate
  <2> QED
    BY <2>1, <2>2
<1>9. ASSUME NEW t \in Threads, NewVBData(t) PROVE CreateInv'
  BY <1>9 DEF NewVBData
<1>10. ASSUME NEW t \in Threads, IncCur(t) PROVE CreateInv'
  BY <1>10 DEF IncCur
<1>11. ASSUME NEW t \in Threads, ReleaseIsCreate(t) PROVE CreateInv'
  BY <1>11 DEF ReleaseIsCreate
<1>12. ASSUME NEW t \in Threads, DeregisterTransaction(t) PROVE CreateInv'
  BY <1>12 DEF DeregisterTransaction
<1>13. ASSUME NEW t \in Threads, RegisterROTransaction(t) PROVE CreateInv'
  BY <1>13 DEF RegisterROTransaction
<1>14. ASSUME NEW t \in Threads, LoadReadEpoch(t) PROVE CreateInv'
  BY <1>14 DEF LoadReadEpoch
<1>15. ASSUME NEW t \in Threads, StoreActiveRead(t) PROVE CreateInv'
  BY <1>15 DEF StoreActiveRead
<1>16. ASSUME NEW t \in Threads, VerifyReadEpoch(t) PROVE CreateInv'
  BY <1>16 DEF VerifyReadEpoch
<1>17. ASSUME NEW t \in Threads, GuardCapture(t) PROVE CreateInv'
  BY <1>17 DEF GuardCapture
<1>18. ASSUME NEW t \in Threads, LoadVBData(t) PROVE CreateInv'
  BY <1>18 DEF LoadVBData
<1>19. ASSUME NEW t \in Threads, DerefVBData(t) PROVE CreateInv'
  BY <1>19 DEF DerefVBData
<1>20. ASSUME NEW t \in Threads, DeregisterROTransaction(t) PROVE CreateInv'
  BY <1>20 DEF DeregisterROTransaction
<1>21. ASSUME UpdaterStep PROVE CreateInv'
  BY <1>21, UpdaterFrame
<1>22. ASSUME NEW a \in Agents, CommitStep(a) PROVE CreateInv'
  BY <1>22, CommitFrame
<1>23. ASSUME MainStep PROVE CreateInv'
  BY <1>23, MainFrame
<1>24. ASSUME UNCHANGED vars PROVE CreateInv'
  BY <1>24
<1> QED
  BY <1>1, <1>2, <1>3, <1>4, <1>5, <1>6, <1>7, <1>8, <1>9, <1>10, <1>11,
     <1>12, <1>13, <1>14, <1>15, <1>16, <1>17, <1>18, <1>19, <1>20, <1>21,
     <1>22, <1>23, <1>24
  DEF Next, WriterStep, ReaderStep

\* Publishing happens under mtx_ and below the target, and the write phase is
\* closed only once no writer is left.
LEMMA CommitInvStep == IInv /\ [Next]_vars => CommitInv'
<1> SUFFICES ASSUME IInv, [Next]_vars PROVE CommitInv'
  OBVIOUS
<1> USE EpochsAssumption DEF IInv, TypeOK, TypeThreads, TypeManager,
            TypeAgents, CommitInv, Committing, Goto, AGoto, UpdaterGoto,
            UpdaterAt, MainAt, CommitPCs, UpdaterPCs, MainPCs, WriterPCs,
            Agents
<1>1. ASSUME NEW t \in Threads, RegisterTransaction(t) PROVE CommitInv'
  BY <1>1 DEF RegisterTransaction
<1>2. ASSUME NEW t \in Threads, LoadCur(t) PROVE CommitInv'
  BY <1>2 DEF LoadCur
<1>3. ASSUME NEW t \in Threads, AwaitRing(t) PROVE CommitInv'
  BY <1>3 DEF AwaitRing
<1>4. ASSUME NEW t \in Threads, StoreActive(t) PROVE CommitInv'
  BY <1>4 DEF StoreActive
<1>5. ASSUME NEW t \in Threads, VerifyCur(t) PROVE CommitInv'
  BY <1>5 DEF VerifyCur
<1>6. ASSUME NEW t \in Threads, TakeVBData(t) PROVE CommitInv'
  BY <1>6 DEF TakeVBData
<1>7. ASSUME NEW t \in Threads, CheckRoom(t) PROVE CommitInv'
  BY <1>7 DEF CheckRoom
<1>8. ASSUME NEW t \in Threads, CasIsCreate(t) PROVE CommitInv'
  BY <1>8 DEF CasIsCreate
<1>9. ASSUME NEW t \in Threads, NewVBData(t) PROVE CommitInv'
  BY <1>9 DEF NewVBData
<1>10. ASSUME NEW t \in Threads, IncCur(t) PROVE CommitInv'
  BY <1>10 DEF IncCur
<1>11. ASSUME NEW t \in Threads, ReleaseIsCreate(t) PROVE CommitInv'
  BY <1>11 DEF ReleaseIsCreate
<1>12. ASSUME NEW t \in Threads, DeregisterTransaction(t) PROVE CommitInv'
  BY <1>12 DEF DeregisterTransaction
<1>13. ASSUME NEW t \in Threads, RegisterROTransaction(t) PROVE CommitInv'
  BY <1>13 DEF RegisterROTransaction
<1>14. ASSUME NEW t \in Threads, LoadReadEpoch(t) PROVE CommitInv'
  BY <1>14 DEF LoadReadEpoch
<1>15. ASSUME NEW t \in Threads, StoreActiveRead(t) PROVE CommitInv'
  BY <1>15 DEF StoreActiveRead
<1>16. ASSUME NEW t \in Threads, VerifyReadEpoch(t) PROVE CommitInv'
  BY <1>16 DEF VerifyReadEpoch
<1>17. ASSUME NEW t \in Threads, GuardCapture(t) PROVE CommitInv'
  BY <1>17 DEF GuardCapture
<1>18. ASSUME NEW t \in Threads, LoadVBData(t) PROVE CommitInv'
  BY <1>18 DEF LoadVBData
<1>19. ASSUME NEW t \in Threads, DerefVBData(t) PROVE CommitInv'
  BY <1>19 DEF DerefVBData
<1>20. ASSUME NEW t \in Threads, DeregisterROTransaction(t) PROVE CommitInv'
  BY <1>20 DEF DeregisterROTransaction
<1>21. ASSUME UpdaterLoop PROVE CommitInv'
  BY <1>21 DEF UpdaterLoop
<1>22. ASSUME ResetMinRead PROVE CommitInv'
  BY <1>22 DEF ResetMinRead
<1>23. ASSUME ScanRead PROVE CommitInv'
  BY <1>23 DEF ScanRead
<1>24. ASSUME LowerMinRead PROVE CommitInv'
  BY <1>24 DEF LowerMinRead
<1>25. ASSUME ResetMin PROVE CommitInv'
  BY <1>25 DEF ResetMin
<1>26. ASSUME ScanWriters PROVE CommitInv'
  BY <1>26 DEF ScanWriters
<1>27. ASSUME LowerMin PROVE CommitInv'
  BY <1>27 DEF LowerMin
<1>28. ASSUME GC PROVE CommitInv'
  BY <1>28 DEF GC
<1>29. ASSUME CommitOrSleep PROVE CommitInv'
  BY <1>29 DEF CommitOrSleep
<1>30. ASSUME NEW a \in Agents, CommitLock(a) PROVE CommitInv'
  BY <1>30 DEF CommitLock
<1>31. ASSUME NEW a \in Agents, CommitTransform(a) PROVE CommitInv'
  BY <1>31 DEF CommitTransform, MoreToPublish
<1>32. ASSUME NEW a \in Agents, CommitPublish(a) PROVE CommitInv'
  BY <1>32 DEF CommitPublish
<1>33. ASSUME NEW a \in Agents, CommitNext(a) PROVE CommitInv'
  BY <1>33 DEF CommitNext
<1>34. ASSUME NEW a \in Agents, CommitUnlock(a) PROVE CommitInv'
  BY <1>34 DEF CommitUnlock, ReturnTo
<1>35. ASSUME NEW e \in Epochs, CommitManually(e) PROVE CommitInv'
  BY <1>35 DEF CommitManually
<1>36. ASSUME NoMoreTxn PROVE CommitInv'
  BY <1>36 DEF NoMoreTxn, WritersJoined
<1>37. ASSUME FinalizeNoMoreTxn PROVE CommitInv'
  BY <1>37 DEF FinalizeNoMoreTxn, WritersJoined
<1>38. ASSUME StopUpdater PROVE CommitInv'
  BY <1>38 DEF StopUpdater
<1>39. ASSUME JoinUpdater PROVE CommitInv'
  BY <1>39 DEF JoinUpdater
<1>40. ASSUME PublishRest PROVE CommitInv'
  BY <1>40 DEF PublishRest
<1>41. ASSUME UNCHANGED vars PROVE CommitInv'
  BY <1>41
<1> QED
  BY <1>1, <1>2, <1>3, <1>4, <1>5, <1>6, <1>7, <1>8, <1>9, <1>10, <1>11,
     <1>12, <1>13, <1>14, <1>15, <1>16, <1>17, <1>18, <1>19, <1>20, <1>21,
     <1>22, <1>23, <1>24, <1>25, <1>26, <1>27, <1>28, <1>29, <1>30, <1>31,
     <1>32, <1>33, <1>34, <1>35, <1>36, <1>37, <1>38, <1>39, <1>40, <1>41
  DEF Next, WriterStep, ReaderStep, UpdaterStep, CommitStep, MainStep

\* No bound of the updater or of commitVersionBlock passes the open epoch.
LEMMA OpenInvStep == IInv /\ [Next]_vars => OpenInv'
<1> SUFFICES ASSUME IInv, [Next]_vars PROVE OpenInv'
  OBVIOUS
<1> USE EpochsAssumption DEF IInv, TypeOK, TypeManager, TypeAgents, OpenInv,
            CommitInv, AGoto, UpdaterGoto, UpdaterAt, MainAt, CommitPCs,
            UpdaterPCs, MainPCs, Agents, Epochs
<1>1. ASSUME NEW t \in Threads, RegisterTransaction(t) PROVE OpenInv'
  BY <1>1 DEF RegisterTransaction
<1>2. ASSUME NEW t \in Threads, LoadCur(t) PROVE OpenInv'
  BY <1>2 DEF LoadCur
<1>3. ASSUME NEW t \in Threads, AwaitRing(t) PROVE OpenInv'
  BY <1>3 DEF AwaitRing
<1>4. ASSUME NEW t \in Threads, StoreActive(t) PROVE OpenInv'
  BY <1>4 DEF StoreActive
<1>5. ASSUME NEW t \in Threads, VerifyCur(t) PROVE OpenInv'
  BY <1>5 DEF VerifyCur
<1>6. ASSUME NEW t \in Threads, TakeVBData(t) PROVE OpenInv'
  BY <1>6 DEF TakeVBData
<1>7. ASSUME NEW t \in Threads, CheckRoom(t) PROVE OpenInv'
  BY <1>7 DEF CheckRoom
<1>8. ASSUME NEW t \in Threads, CasIsCreate(t) PROVE OpenInv'
  BY <1>8 DEF CasIsCreate
<1>9. ASSUME NEW t \in Threads, NewVBData(t) PROVE OpenInv'
  BY <1>9 DEF NewVBData
<1>10. ASSUME NEW t \in Threads, IncCur(t) PROVE OpenInv'
  BY <1>10 DEF IncCur
<1>11. ASSUME NEW t \in Threads, ReleaseIsCreate(t) PROVE OpenInv'
  BY <1>11 DEF ReleaseIsCreate
<1>12. ASSUME NEW t \in Threads, DeregisterTransaction(t) PROVE OpenInv'
  BY <1>12 DEF DeregisterTransaction
<1>13. ASSUME NEW t \in Threads, ReaderStep(t) PROVE OpenInv'
  <2>1. UNCHANGED rFrame
    BY <1>13, ReaderFrame
  <2> QED
    BY <2>1
<1>14. ASSUME UpdaterLoop PROVE OpenInv'
  BY <1>14 DEF UpdaterLoop
<1>15. ASSUME ResetMinRead PROVE OpenInv'
  BY <1>15 DEF ResetMinRead
<1>16. ASSUME ScanRead PROVE OpenInv'
  BY <1>16 DEF ScanRead
<1>17. ASSUME LowerMinRead PROVE OpenInv'
  BY <1>17 DEF LowerMinRead
<1>18. ASSUME ResetMin PROVE OpenInv'
  BY <1>18 DEF ResetMin
<1>19. ASSUME ScanWriters PROVE OpenInv'
  BY <1>19 DEF ScanWriters
<1>20. ASSUME LowerMin PROVE OpenInv'
  BY <1>20 DEF LowerMin, Lowered, MinOf
<1>21. ASSUME GC PROVE OpenInv'
  BY <1>21 DEF GC
<1>22. ASSUME CommitOrSleep PROVE OpenInv'
  BY <1>22 DEF CommitOrSleep, PublishTarget
<1>23. ASSUME NEW a \in Agents, CommitLock(a) PROVE OpenInv'
  BY <1>23 DEF CommitLock
<1>24. ASSUME NEW a \in Agents, CommitTransform(a) PROVE OpenInv'
  BY <1>24 DEF CommitTransform
<1>25. ASSUME NEW a \in Agents, CommitPublish(a) PROVE OpenInv'
  BY <1>25 DEF CommitPublish
<1>26. ASSUME NEW a \in Agents, CommitNext(a) PROVE OpenInv'
  BY <1>26 DEF CommitNext
<1>27. ASSUME NEW a \in Agents, CommitUnlock(a) PROVE OpenInv'
  BY <1>27 DEF CommitUnlock, ReturnTo
<1>28. ASSUME NEW e \in Epochs, CommitManually(e) PROVE OpenInv'
  BY <1>28 DEF CommitManually
<1>29. ASSUME NoMoreTxn PROVE OpenInv'
  BY <1>29 DEF NoMoreTxn
<1>30. ASSUME FinalizeNoMoreTxn PROVE OpenInv'
  BY <1>30 DEF FinalizeNoMoreTxn
<1>31. ASSUME StopUpdater PROVE OpenInv'
  BY <1>31 DEF StopUpdater
<1>32. ASSUME JoinUpdater PROVE OpenInv'
  BY <1>32 DEF JoinUpdater
<1>33. ASSUME PublishRest PROVE OpenInv'
  BY <1>33 DEF PublishRest, FinalizeTarget
<1>34. ASSUME UNCHANGED vars PROVE OpenInv'
  BY <1>34
<1> QED
  BY <1>1, <1>2, <1>3, <1>4, <1>5, <1>6, <1>7, <1>8, <1>9, <1>10, <1>11,
     <1>12, <1>13, <1>14, <1>15, <1>16, <1>17, <1>18, <1>19, <1>20, <1>21,
     <1>22, <1>23, <1>24, <1>25, <1>26, <1>27, <1>28, <1>29, <1>30, <1>31,
     <1>32, <1>33, <1>34
  DEF Next, WriterStep, UpdaterStep, CommitStep, MainStep

\* The handshake: a writer passes the check cur == cur_ with its slot set.
LEMMA WriterInvStep == IInv /\ [Next]_vars => WriterInv'
<1> SUFFICES ASSUME IInv, [Next]_vars PROVE WriterInv'
  OBVIOUS
<1> USE EpochsAssumption DEF IInv, TypeOK, TypeThreads, TypeManager,
            WriterInv, Registered, Goto, WriterPCs
<1>1. ASSUME NEW t \in Threads, RegisterTransaction(t) PROVE WriterInv'
  BY <1>1 DEF RegisterTransaction
<1>2. ASSUME NEW t \in Threads, LoadCur(t) PROVE WriterInv'
  BY <1>2 DEF LoadCur
<1>3. ASSUME NEW t \in Threads, AwaitRing(t) PROVE WriterInv'
  BY <1>3 DEF AwaitRing
<1>4. ASSUME NEW t \in Threads, StoreActive(t) PROVE WriterInv'
  BY <1>4 DEF StoreActive
<1>5. ASSUME NEW t \in Threads, VerifyCur(t) PROVE WriterInv'
  BY <1>5 DEF VerifyCur, StillOpen
<1>6. ASSUME NEW t \in Threads, TakeVBData(t) PROVE WriterInv'
  BY <1>6 DEF TakeVBData
<1>7. ASSUME NEW t \in Threads, CheckRoom(t) PROVE WriterInv'
  BY <1>7 DEF CheckRoom
<1>8. ASSUME NEW t \in Threads, CasIsCreate(t) PROVE WriterInv'
  BY <1>8 DEF CasIsCreate
<1>9. ASSUME NEW t \in Threads, NewVBData(t) PROVE WriterInv'
  BY <1>9 DEF NewVBData
<1>10. ASSUME NEW t \in Threads, IncCur(t) PROVE WriterInv'
  BY <1>10 DEF IncCur
<1>11. ASSUME NEW t \in Threads, ReleaseIsCreate(t) PROVE WriterInv'
  BY <1>11 DEF ReleaseIsCreate
<1>12. ASSUME NEW t \in Threads, DeregisterTransaction(t) PROVE WriterInv'
  BY <1>12 DEF DeregisterTransaction
<1>13. ASSUME NEW t \in Threads, RegisterROTransaction(t) PROVE WriterInv'
  BY <1>13 DEF RegisterROTransaction
<1>14. ASSUME NEW t \in Threads, LoadReadEpoch(t) PROVE WriterInv'
  BY <1>14 DEF LoadReadEpoch
<1>15. ASSUME NEW t \in Threads, StoreActiveRead(t) PROVE WriterInv'
  BY <1>15 DEF StoreActiveRead
<1>16. ASSUME NEW t \in Threads, VerifyReadEpoch(t) PROVE WriterInv'
  BY <1>16 DEF VerifyReadEpoch
<1>17. ASSUME NEW t \in Threads, GuardCapture(t) PROVE WriterInv'
  BY <1>17 DEF GuardCapture
<1>18. ASSUME NEW t \in Threads, LoadVBData(t) PROVE WriterInv'
  BY <1>18 DEF LoadVBData
<1>19. ASSUME NEW t \in Threads, DerefVBData(t) PROVE WriterInv'
  BY <1>19 DEF DerefVBData
<1>20. ASSUME NEW t \in Threads, DeregisterROTransaction(t) PROVE WriterInv'
  BY <1>20 DEF DeregisterROTransaction
<1>21. ASSUME UpdaterStep PROVE WriterInv'
  BY <1>21, UpdaterFrame
<1>22. ASSUME NEW a \in Agents, CommitStep(a) PROVE WriterInv'
  BY <1>22, CommitFrame
<1>23. ASSUME MainStep PROVE WriterInv'
  BY <1>23, MainFrame
<1>24. ASSUME UNCHANGED vars PROVE WriterInv'
  BY <1>24
<1> QED
  BY <1>1, <1>2, <1>3, <1>4, <1>5, <1>6, <1>7, <1>8, <1>9, <1>10, <1>11,
     <1>12, <1>13, <1>14, <1>15, <1>16, <1>17, <1>18, <1>19, <1>20, <1>21,
     <1>22, <1>23, <1>24
  DEF Next, WriterStep, ReaderStep

\* A minimum over one more slot is no larger (update_min_version).
LEMMA MinOfMin ==
  ASSUME NEW a \in Int, NEW b \in Int, NEW c \in Int, NEW d \in Int, MinOf(a, b) <= d
  PROVE  MinOf(a, MinOf(b, c)) <= d
BY DEF MinOf

\* No epoch with a registered writer is published or scheduled to be: a writer
\* that registers during a scan joins the open epoch, which no bound has passed;
\* one that registered before it is seen by the scan.
LEMMA SafeInvStep == IInv /\ [Next]_vars => SafeInv'
<1> SUFFICES ASSUME IInv, [Next]_vars PROVE SafeInv'
  OBVIOUS
<1>1. ASSUME NEW t \in Threads, RegisterTransaction(t) PROVE SafeInv'
  BY <1>1 DEF RegisterTransaction, IInv, TypeOK, TypeThreads, SafeInv,
         SafeEpoch, Registered, Goto
<1>2. ASSUME NEW t \in Threads, LoadCur(t) PROVE SafeInv'
  BY <1>2 DEF LoadCur, IInv, TypeOK, TypeThreads, SafeInv, SafeEpoch,
         Registered, Goto
<1>3. ASSUME NEW t \in Threads, AwaitRing(t) PROVE SafeInv'
  BY <1>3 DEF AwaitRing, IInv, TypeOK, TypeThreads, SafeInv, SafeEpoch,
         Registered, Goto
<1>4. ASSUME NEW t \in Threads, StoreActive(t) PROVE SafeInv'
  BY <1>4 DEF StoreActive, IInv, TypeOK, TypeThreads, SafeInv, SafeEpoch,
         Registered, Goto
<1>5. ASSUME NEW t \in Threads, VerifyCur(t) PROVE SafeInv'
  <2> SUFFICES ASSUME NEW u \in Threads, Registered(u)'
               PROVE  SafeEpoch(cur[u], u)'
    BY <1>5 DEF SafeInv, VerifyCur
  <2>1. CASE u = t
    <3>1. cur[t] = cur_ /\ ~no_more_txn_
      BY <1>5, <2>1 DEF VerifyCur, StillOpen, Goto, IInv, TypeOK, TypeThreads,
         CommitInv, WriterPCs, Registered
    <3>2. SafeEpoch(cur_, t)
      BY <3>1, EpochsAssumption DEF IInv, TypeOK, TypeManager, TypeAgents,
         OpenInv, SafeEpoch, MinOf, Epochs
    <3> QED
      BY <1>5, <2>1, <3>1, <3>2 DEF VerifyCur, SafeEpoch
  <2>2. CASE u # t
    <3>1. Registered(u)
      BY <1>5, <2>2 DEF VerifyCur, Goto, IInv, TypeOK, TypeThreads, Registered
    <3> QED
      BY <1>5, <3>1 DEF VerifyCur, IInv, SafeInv, SafeEpoch
  <2> QED
    BY <2>1, <2>2
<1>6. ASSUME NEW t \in Threads, TakeVBData(t) PROVE SafeInv'
  BY <1>6 DEF TakeVBData, IInv, TypeOK, TypeThreads, SafeInv, SafeEpoch,
         Registered, Goto
<1>7. ASSUME NEW t \in Threads, CheckRoom(t) PROVE SafeInv'
  BY <1>7 DEF CheckRoom, IInv, TypeOK, TypeThreads, SafeInv, SafeEpoch,
         Registered, Goto
<1>8. ASSUME NEW t \in Threads, CasIsCreate(t) PROVE SafeInv'
  BY <1>8 DEF CasIsCreate, IInv, TypeOK, TypeThreads, SafeInv, SafeEpoch,
         Registered, Goto
<1>9. ASSUME NEW t \in Threads, NewVBData(t) PROVE SafeInv'
  BY <1>9 DEF NewVBData, IInv, TypeOK, TypeThreads, SafeInv, SafeEpoch,
         Registered, Goto
<1>10. ASSUME NEW t \in Threads, IncCur(t) PROVE SafeInv'
  BY <1>10 DEF IncCur, IInv, TypeOK, TypeThreads, SafeInv, SafeEpoch,
         Registered, Goto
<1>11. ASSUME NEW t \in Threads, ReleaseIsCreate(t) PROVE SafeInv'
  BY <1>11 DEF ReleaseIsCreate, IInv, TypeOK, TypeThreads, SafeInv, SafeEpoch,
         Registered, Goto
<1>12. ASSUME NEW t \in Threads, DeregisterTransaction(t) PROVE SafeInv'
  BY <1>12 DEF DeregisterTransaction, IInv, TypeOK, TypeThreads, SafeInv,
         SafeEpoch, Registered, Goto
<1>13. ASSUME NEW t \in Threads, RegisterROTransaction(t) PROVE SafeInv'
  BY <1>13 DEF RegisterROTransaction, IInv, TypeOK, TypeThreads, SafeInv,
         SafeEpoch, Registered, Goto
<1>14. ASSUME NEW t \in Threads, LoadReadEpoch(t) PROVE SafeInv'
  BY <1>14 DEF LoadReadEpoch, IInv, TypeOK, TypeThreads, SafeInv, SafeEpoch,
         Registered, Goto
<1>15. ASSUME NEW t \in Threads, StoreActiveRead(t) PROVE SafeInv'
  BY <1>15 DEF StoreActiveRead, IInv, TypeOK, TypeThreads, SafeInv, SafeEpoch,
         Registered, Goto
<1>16. ASSUME NEW t \in Threads, VerifyReadEpoch(t) PROVE SafeInv'
  BY <1>16 DEF VerifyReadEpoch, IInv, TypeOK, TypeThreads, SafeInv, SafeEpoch,
         Registered, Goto
<1>17. ASSUME NEW t \in Threads, GuardCapture(t) PROVE SafeInv'
  BY <1>17 DEF GuardCapture, IInv, TypeOK, TypeThreads, SafeInv, SafeEpoch,
         Registered, Goto
<1>18. ASSUME NEW t \in Threads, LoadVBData(t) PROVE SafeInv'
  BY <1>18 DEF LoadVBData, IInv, TypeOK, TypeThreads, SafeInv, SafeEpoch,
         Registered, Goto
<1>19. ASSUME NEW t \in Threads, DerefVBData(t) PROVE SafeInv'
  BY <1>19 DEF DerefVBData, IInv, TypeOK, TypeThreads, SafeInv, SafeEpoch,
         Registered, Goto
<1>20. ASSUME NEW t \in Threads, DeregisterROTransaction(t) PROVE SafeInv'
  BY <1>20 DEF DeregisterROTransaction, IInv, TypeOK, TypeThreads, SafeInv,
         SafeEpoch, Registered, Goto
<1>21. ASSUME UpdaterLoop PROVE SafeInv'
  BY <1>21 DEF UpdaterLoop, IInv, TypeOK, TypeThreads, SafeInv, SafeEpoch,
         Registered, TypeAgents, MinOf, AGoto, UpdaterGoto, UpdaterAt, MainAt,
         CommitPCs, Agents
<1>22. ASSUME ResetMinRead PROVE SafeInv'
  BY <1>22 DEF ResetMinRead, IInv, TypeOK, TypeThreads, SafeInv, SafeEpoch,
         Registered, TypeAgents, MinOf, AGoto, UpdaterGoto, UpdaterAt, MainAt,
         CommitPCs, Agents
<1>23. ASSUME ScanRead PROVE SafeInv'
  BY <1>23 DEF ScanRead, IInv, TypeOK, TypeThreads, SafeInv, SafeEpoch,
         Registered, TypeAgents, MinOf, AGoto, UpdaterGoto, UpdaterAt, MainAt,
         CommitPCs, Agents
<1>24. ASSUME LowerMinRead PROVE SafeInv'
  BY <1>24 DEF LowerMinRead, IInv, TypeOK, TypeThreads, SafeInv, SafeEpoch,
         Registered, TypeAgents, MinOf, AGoto, UpdaterGoto, UpdaterAt, MainAt,
         CommitPCs, Agents
<1>25. ASSUME ResetMin PROVE SafeInv'
  <2> SUFFICES ASSUME NEW u \in Threads, Registered(u)
               PROVE  SafeEpoch(cur[u], u)'
    BY <1>25 DEF SafeInv, Registered, ResetMin
  <2>0. /\ SafeEpoch(cur[u], u) /\ active_transactions[u] = cur[u]
        /\ cur[u] \in 1 .. cur_ /\ ~no_more_txn_
    BY DEF IInv, SafeInv, WriterInv, CommitInv, Registered, WriterPCs

  <2>1. apc'["updater"] = "u_scan" /\ scan' = 0 /\ last' = min_epoch /\ u >= 0
    BY <1>25, ThreadsAssumption DEF ResetMin, UpdaterGoto, AGoto, IInv, TypeOK,
       TypeAgents, Agents, Threads
  <2>2. min_epoch <= cur[u]
    BY <1>25, <2>0 DEF ResetMin, UpdaterAt, SafeEpoch
  <2>3. \A a \in Agents : apc'[a] \in CommitPCs => target'[a] <= cur[u]
    BY <1>25, <2>0 DEF ResetMin, UpdaterGoto, AGoto, IInv, TypeOK, TypeAgents,
       Agents, SafeEpoch, CommitPCs
  <2> QED
    BY <1>25, <2>0, <2>1, <2>2, <2>3 DEF ResetMin, SafeEpoch, Threads
<1>26. ASSUME ScanWriters PROVE SafeInv'
  <2> SUFFICES ASSUME NEW u \in Threads, Registered(u)
               PROVE  SafeEpoch(cur[u], u)'
    BY <1>26 DEF SafeInv, Registered, ScanWriters
  <2>0. /\ SafeEpoch(cur[u], u) /\ active_transactions[u] = cur[u]
        /\ cur[u] \in 1 .. cur_ /\ ~no_more_txn_
    BY DEF IInv, SafeInv, WriterInv, CommitInv, Registered, WriterPCs

  <2> USE EpochsAssumption DEF IInv, TypeOK, TypeAgents, TypeManager, TypeThreads,
          Epochs
  <2>1. last <= cur[u] /\ (u < scan => MinOf(min_epoch, min12) <= cur[u])
    BY <1>26, <2>0 DEF ScanWriters, UpdaterAt, SafeEpoch
  <2>2. scan \in Threads /\ scan' = scan + 1
        /\ min12' = MinOf(min12, active_transactions[scan])
    BY <1>26, ThreadsAssumption DEF ScanWriters, Threads
  <2>3. CASE u = scan
    <3>1. min12' <= cur[u]
      BY <2>0, <2>2, <2>3 DEF MinOf
    <3> QED
      BY <1>26, <2>0, <2>1, <3>1 DEF ScanWriters, SafeEpoch, UpdaterAt, MinOf
  <2>4. CASE u < scan
    <3>1. /\ min_epoch \in Int /\ min12 \in Int /\ cur[u] \in Int
          /\ active_transactions[scan] \in Int
      BY <2>2
    <3>2. MinOf(min_epoch, min12) <= cur[u]
      BY <2>1, <2>4
    <3>3. MinOf(min_epoch, MinOf(min12, active_transactions[scan])) <= cur[u]
      BY <3>1, <3>2, MinOfMin
    <3>4. MinOf(min_epoch, min12') <= cur[u]
      BY <2>2, <3>3
    <3> QED
      BY <1>26, <2>0, <2>1, <3>4 DEF ScanWriters, SafeEpoch, UpdaterAt
  <2>5. CASE u > scan
    BY <1>26, <2>0, <2>1, <2>2, <2>5 DEF ScanWriters, SafeEpoch, UpdaterAt, Threads
  <2> QED
    BY <2>2, <2>3, <2>4, <2>5, ThreadsAssumption DEF Threads
<1>27. ASSUME LowerMin PROVE SafeInv'
  <2> SUFFICES ASSUME NEW u \in Threads, Registered(u)
               PROVE  SafeEpoch(cur[u], u)'
    BY <1>27 DEF SafeInv, Registered, LowerMin
  <2>0. /\ SafeEpoch(cur[u], u) /\ active_transactions[u] = cur[u]
        /\ cur[u] \in 1 .. cur_ /\ ~no_more_txn_
    BY DEF IInv, SafeInv, WriterInv, CommitInv, Registered, WriterPCs

  <2>1. last <= cur[u] /\ MinOf(min_epoch, min12) <= cur[u]
    BY <1>27, <2>0, ThreadsAssumption DEF LowerMin, UpdaterAt, SafeEpoch, Threads
  <2>2. min_epoch' <= cur[u]
    BY <1>27, <2>1 DEF LowerMin, Lowered
  <2>3. apc'["updater"] = "u_gc"
    BY <1>27 DEF LowerMin, UpdaterGoto, AGoto, IInv, TypeOK, TypeAgents, Agents
  <2>4. \A a \in Agents : apc'[a] \in CommitPCs => target'[a] <= cur[u]
    BY <1>27, <2>0 DEF LowerMin, UpdaterGoto, AGoto, IInv, TypeOK, TypeAgents,
       Agents, SafeEpoch, CommitPCs
  <2> QED
    BY <1>27, <2>0, <2>2, <2>3, <2>4 DEF LowerMin, SafeEpoch
<1>28. ASSUME GC PROVE SafeInv'
  BY <1>28 DEF GC, IInv, TypeOK, TypeThreads, SafeInv, SafeEpoch, Registered,
         TypeAgents, MinOf, AGoto, UpdaterGoto, UpdaterAt, MainAt, CommitPCs,
         Agents
<1>29. ASSUME CommitOrSleep PROVE SafeInv'
  <2> SUFFICES ASSUME NEW u \in Threads, Registered(u)
               PROVE  SafeEpoch(cur[u], u)'
    BY <1>29 DEF SafeInv, Registered, CommitOrSleep
  <2>0. /\ SafeEpoch(cur[u], u) /\ active_transactions[u] = cur[u]
        /\ cur[u] \in 1 .. cur_ /\ ~no_more_txn_
    BY DEF IInv, SafeInv, WriterInv, CommitInv, Registered, WriterPCs

  <2>1. min_epoch <= cur[u] /\ apc'["updater"] # "u_scan"
    BY <1>29, <2>0 DEF CommitOrSleep, UpdaterAt, UpdaterGoto, AGoto, SafeEpoch,
       IInv, TypeOK, TypeAgents, Agents
  <2>2. ASSUME NEW a \in Agents, apc'[a] \in CommitPCs PROVE target'[a] <= cur[u]
    <3>1. CASE a = "updater"
      BY <1>29, <2>0, <2>1, <2>2, <3>1 DEF CommitOrSleep, UpdaterGoto, AGoto,
         PublishTarget, IInv, TypeOK, TypeAgents, Agents, CommitPCs
    <3>2. CASE a # "updater"
      BY <1>29, <2>0, <2>2, <3>2 DEF CommitOrSleep, UpdaterGoto, AGoto, SafeEpoch,
         IInv, TypeOK, TypeAgents
    <3> QED
      BY <3>1, <3>2
  <2> QED
    BY <1>29, <2>0, <2>1, <2>2 DEF CommitOrSleep, SafeEpoch
<1>30. ASSUME NEW a \in Agents, CommitLock(a) PROVE SafeInv'
  BY <1>30 DEF CommitLock, IInv, TypeOK, TypeThreads, SafeInv, SafeEpoch,
         Registered, TypeAgents, AGoto, UpdaterGoto, UpdaterAt, MainAt,
         CommitPCs, Agents
<1>31. ASSUME NEW a \in Agents, CommitTransform(a) PROVE SafeInv'
  BY <1>31 DEF CommitTransform, IInv, TypeOK, TypeThreads, SafeInv, SafeEpoch,
         Registered, TypeAgents, AGoto, UpdaterGoto, UpdaterAt, MainAt,
         CommitPCs, Agents
<1>32. ASSUME NEW a \in Agents, CommitPublish(a) PROVE SafeInv'
  <2> SUFFICES ASSUME NEW u \in Threads, Registered(u)
               PROVE  SafeEpoch(cur[u], u)'
    BY <1>32 DEF SafeInv, Registered, CommitPublish
  <2>0. /\ SafeEpoch(cur[u], u) /\ active_transactions[u] = cur[u]
        /\ cur[u] \in 1 .. cur_ /\ ~no_more_txn_
    BY DEF IInv, SafeInv, WriterInv, CommitInv, Registered, WriterPCs

  <2>1. read_epoch_ + 1 < target[a] /\ target[a] <= cur[u]
    BY <1>32, <2>0 DEF CommitPublish, IInv, CommitInv, SafeEpoch, CommitPCs
  <2>2. read_epoch_' < cur[u]
    BY <1>32, <2>1 DEF CommitPublish, IInv, TypeOK, TypeManager, TypeAgents,
       TypeThreads, Epochs
  <2>3. apc' = [apc EXCEPT ![a] = "c_next"] /\ apc[a] = "c_publish"
    BY <1>32 DEF CommitPublish, AGoto
  <2>4. \A b \in Agents : apc'[b] \in CommitPCs => apc[b] \in CommitPCs
    BY <2>3 DEF IInv, TypeOK, TypeAgents, CommitPCs
  <2>5. apc'["updater"] = "u_scan" <=> apc["updater"] = "u_scan"
    BY <2>3 DEF IInv, TypeOK, TypeAgents, Agents
  <2> QED
    BY <1>32, <2>0, <2>2, <2>4, <2>5 DEF CommitPublish, SafeEpoch, MinOf
<1>33. ASSUME NEW a \in Agents, CommitNext(a) PROVE SafeInv'
  BY <1>33 DEF CommitNext, IInv, TypeOK, TypeThreads, SafeInv, SafeEpoch,
         Registered, TypeAgents, AGoto, UpdaterGoto, UpdaterAt, MainAt,
         CommitPCs, Agents
<1>34. ASSUME NEW a \in Agents, CommitUnlock(a) PROVE SafeInv'
  <2> SUFFICES ASSUME NEW u \in Threads, Registered(u)
               PROVE  SafeEpoch(cur[u], u)'
    BY <1>34 DEF SafeInv, Registered, CommitUnlock
  <2>0. /\ SafeEpoch(cur[u], u) /\ active_transactions[u] = cur[u]
        /\ cur[u] \in 1 .. cur_ /\ ~no_more_txn_
    BY DEF IInv, SafeInv, WriterInv, CommitInv, Registered, WriterPCs

  <2>1. apc' = [apc EXCEPT ![a] = ReturnTo(a)] /\ apc[a] = "c_loop"
    BY <1>34 DEF CommitUnlock, AGoto
  <2>2. \A b \in Agents : apc'[b] \in CommitPCs =>
          apc[b] \in CommitPCs /\ target'[b] = target[b]
    BY <1>34, <2>1 DEF CommitUnlock, ReturnTo, IInv, TypeOK, TypeAgents, CommitPCs
  <2>3. apc'["updater"] = "u_scan" <=> apc["updater"] = "u_scan"
    BY <2>1 DEF ReturnTo, IInv, TypeOK, TypeAgents, Agents
  <2> QED
    BY <1>34, <2>0, <2>2, <2>3 DEF CommitUnlock, SafeEpoch, MinOf
<1>35. ASSUME NEW e \in Epochs, CommitManually(e) PROVE SafeInv'
  BY <1>35 DEF CommitManually, IInv, TypeOK, TypeThreads, SafeInv, SafeEpoch,
         Registered, TypeAgents, AGoto, UpdaterGoto, UpdaterAt, MainAt,
         CommitPCs, Agents
<1>36. ASSUME NoMoreTxn PROVE SafeInv'
  BY <1>36 DEF NoMoreTxn, IInv, TypeOK, TypeThreads, SafeInv, SafeEpoch,
         Registered
<1>37. ASSUME FinalizeNoMoreTxn PROVE SafeInv'
  BY <1>37 DEF FinalizeNoMoreTxn, IInv, TypeOK, TypeThreads, SafeInv,
         SafeEpoch, Registered, TypeAgents, AGoto, UpdaterGoto, UpdaterAt,
         MainAt, CommitPCs, Agents
<1>38. ASSUME StopUpdater PROVE SafeInv'
  BY <1>38 DEF StopUpdater, IInv, TypeOK, TypeThreads, SafeInv, SafeEpoch,
         Registered, TypeAgents, AGoto, UpdaterGoto, UpdaterAt, MainAt,
         CommitPCs, Agents
<1>39. ASSUME JoinUpdater PROVE SafeInv'
  BY <1>39 DEF JoinUpdater, IInv, TypeOK, TypeThreads, SafeInv, SafeEpoch,
         Registered, TypeAgents, AGoto, UpdaterGoto, UpdaterAt, MainAt,
         CommitPCs, Agents
<1>40. ASSUME PublishRest PROVE SafeInv'
  <2>1. no_more_txn_
    BY <1>40 DEF PublishRest, MainAt, IInv, CommitInv, Agents
  <2>2. \A u \in Threads : ~Registered(u)'
    BY <1>40, <2>1 DEF PublishRest, IInv, CommitInv, Registered, WriterPCs
  <2> QED
    BY <2>2 DEF SafeInv
<1>41. ASSUME UNCHANGED vars PROVE SafeInv'
  BY <1>41 DEF IInv, TypeOK, TypeThreads, SafeInv, SafeEpoch, Registered
<1> QED
  BY <1>1, <1>2, <1>3, <1>4, <1>5, <1>6, <1>7, <1>8, <1>9, <1>10, <1>11,
     <1>12, <1>13, <1>14, <1>15, <1>16, <1>17, <1>18, <1>19, <1>20, <1>21,
     <1>22, <1>23, <1>24, <1>25, <1>26, <1>27, <1>28, <1>29, <1>30, <1>31,
     <1>32, <1>33, <1>34, <1>35, <1>36, <1>37, <1>38, <1>39, <1>40, <1>41
  DEF Next, WriterStep, ReaderStep, UpdaterStep, CommitStep, MainStep

\* What update_min_version leaves in min_read_epoch is no later than the epoch of
\* any pinned reader: the reset is seen by the readers that register after it, and
\* the scan sees those that registered before.
LEMMA PinInvStep == IInv /\ [Next]_vars => PinInv'
<1> SUFFICES ASSUME IInv, [Next]_vars PROVE PinInv'
  OBVIOUS
<1>1. ASSUME NEW t \in Threads, RegisterTransaction(t) PROVE PinInv'
  BY <1>1 DEF RegisterTransaction, IInv, TypeOK, TypeThreads, PinInv, Pinned,
         Goto
<1>2. ASSUME NEW t \in Threads, LoadCur(t) PROVE PinInv'
  BY <1>2 DEF LoadCur, IInv, TypeOK, TypeThreads, PinInv, Pinned, Goto
<1>3. ASSUME NEW t \in Threads, AwaitRing(t) PROVE PinInv'
  BY <1>3 DEF AwaitRing, IInv, TypeOK, TypeThreads, PinInv, Pinned, Goto
<1>4. ASSUME NEW t \in Threads, StoreActive(t) PROVE PinInv'
  BY <1>4 DEF StoreActive, IInv, TypeOK, TypeThreads, PinInv, Pinned, Goto
<1>5. ASSUME NEW t \in Threads, VerifyCur(t) PROVE PinInv'
  BY <1>5 DEF VerifyCur, IInv, TypeOK, TypeThreads, PinInv, Pinned, Goto
<1>6. ASSUME NEW t \in Threads, TakeVBData(t) PROVE PinInv'
  BY <1>6 DEF TakeVBData, IInv, TypeOK, TypeThreads, PinInv, Pinned, Goto
<1>7. ASSUME NEW t \in Threads, CheckRoom(t) PROVE PinInv'
  BY <1>7 DEF CheckRoom, IInv, TypeOK, TypeThreads, PinInv, Pinned, Goto
<1>8. ASSUME NEW t \in Threads, CasIsCreate(t) PROVE PinInv'
  BY <1>8 DEF CasIsCreate, IInv, TypeOK, TypeThreads, PinInv, Pinned, Goto
<1>9. ASSUME NEW t \in Threads, NewVBData(t) PROVE PinInv'
  BY <1>9 DEF NewVBData, IInv, TypeOK, TypeThreads, PinInv, Pinned, Goto
<1>10. ASSUME NEW t \in Threads, IncCur(t) PROVE PinInv'
  BY <1>10 DEF IncCur, IInv, TypeOK, TypeThreads, PinInv, Pinned, Goto
<1>11. ASSUME NEW t \in Threads, ReleaseIsCreate(t) PROVE PinInv'
  BY <1>11 DEF ReleaseIsCreate, IInv, TypeOK, TypeThreads, PinInv, Pinned,
         Goto
<1>12. ASSUME NEW t \in Threads, DeregisterTransaction(t) PROVE PinInv'
  BY <1>12 DEF DeregisterTransaction, IInv, TypeOK, TypeThreads, PinInv,
         Pinned, Goto
<1>13. ASSUME NEW t \in Threads, RegisterROTransaction(t) PROVE PinInv'
  BY <1>13 DEF RegisterROTransaction, IInv, TypeOK, TypeThreads, PinInv,
         Pinned, Goto
<1>14. ASSUME NEW t \in Threads, LoadReadEpoch(t) PROVE PinInv'
  BY <1>14 DEF LoadReadEpoch, IInv, TypeOK, TypeThreads, PinInv, Pinned, Goto
<1>15. ASSUME NEW t \in Threads, StoreActiveRead(t) PROVE PinInv'
  BY <1>15 DEF StoreActiveRead, IInv, TypeOK, TypeThreads, PinInv, Pinned,
         TypeManager, Goto
<1>16. ASSUME NEW t \in Threads, VerifyReadEpoch(t) PROVE PinInv'
  <2>1. CASE re[t] < min_read_epoch
    <3>1. pc' = [pc EXCEPT ![t] = "r_load"]
      BY <1>16, <2>1 DEF VerifyReadEpoch, Goto
    <3>2. \A u \in Threads : Pinned(u)' => Pinned(u)
      BY <3>1 DEF IInv, TypeOK, TypeThreads, Pinned
    <3>3. \A u \in Threads : pc'[u] = "r_verify" => pc[u] = "r_verify"
      BY <3>1 DEF IInv, TypeOK, TypeThreads
    <3> QED
      BY <1>16, <3>2, <3>3 DEF VerifyReadEpoch, IInv, PinInv
  <2>2. CASE ~(re[t] < min_read_epoch)
    <3>1. min_read_epoch <= re[t]
      BY <2>2, EpochsAssumption DEF IInv, TypeOK, TypeThreads, TypeManager, Epochs
    <3>2. MinOf(min_read_epoch, min12) <= re[t]
      BY <3>1, EpochsAssumption DEF MinOf, IInv, TypeOK, TypeThreads, TypeManager,
         TypeAgents, Epochs
    <3>3. active_read_epochs[t] = re[t]
      BY <1>16 DEF VerifyReadEpoch, IInv, PinInv
    <3>4. \A u \in Threads : u # t => pc'[u] = pc[u]
      BY <1>16 DEF VerifyReadEpoch, Goto, IInv, TypeOK, TypeThreads
    <3> QED
      BY <1>16, <3>1, <3>2, <3>3, <3>4 DEF VerifyReadEpoch, IInv, PinInv, Pinned
  <2> QED
    BY <2>1, <2>2
<1>17. ASSUME NEW t \in Threads, GuardCapture(t) PROVE PinInv'
  BY <1>17 DEF GuardCapture, IInv, TypeOK, TypeThreads, PinInv, Pinned, Goto
<1>18. ASSUME NEW t \in Threads, LoadVBData(t) PROVE PinInv'
  BY <1>18 DEF LoadVBData, IInv, TypeOK, TypeThreads, PinInv, Pinned, Goto
<1>19. ASSUME NEW t \in Threads, DerefVBData(t) PROVE PinInv'
  BY <1>19 DEF DerefVBData, IInv, TypeOK, TypeThreads, PinInv, Pinned, Goto
<1>20. ASSUME NEW t \in Threads, DeregisterROTransaction(t) PROVE PinInv'
  BY <1>20 DEF DeregisterROTransaction, IInv, TypeOK, TypeThreads, PinInv,
         Pinned, Goto
<1>21. ASSUME UpdaterLoop PROVE PinInv'
  BY <1>21 DEF UpdaterLoop, IInv, TypeOK, TypeThreads, PinInv, Pinned,
         TypeAgents, MinOf, Threads, AGoto, UpdaterGoto, UpdaterAt, MainAt,
         CommitPCs, Agents
<1>22. ASSUME ResetMinRead PROVE PinInv'
  BY <1>22 DEF ResetMinRead, IInv, TypeOK, TypeThreads, PinInv, Pinned,
         TypeAgents, MinOf, Threads, AGoto, UpdaterGoto, UpdaterAt, MainAt,
         CommitPCs, Agents
<1>23. ASSUME ScanRead PROVE PinInv'
  <2> SUFFICES ASSUME NEW u \in Threads, Pinned(u), u < scan'
               PROVE  MinOf(min_read_epoch, min12') <= re[u]
    BY <1>23 DEF ScanRead, UpdaterAt, IInv, PinInv, Pinned
  <2>1. /\ active_read_epochs[u] = re[u]
        /\ u < scan => MinOf(min_read_epoch, min12) <= re[u]
    BY <1>23 DEF ScanRead, UpdaterAt, IInv, PinInv
  <2>2. scan \in Threads /\ scan' = scan + 1
        /\ min12' = MinOf(min12, active_read_epochs[scan])
    BY <1>23, ThreadsAssumption DEF ScanRead, Threads, IInv, TypeOK, TypeAgents
  <2>3. /\ min_read_epoch \in Int /\ min12 \in Int /\ re[u] \in Int
        /\ active_read_epochs[scan] \in Int
    BY <2>2, EpochsAssumption DEF IInv, TypeOK, TypeManager, TypeAgents,
       TypeThreads, Epochs
  <2>4. CASE u = scan
    BY <2>1, <2>2, <2>3, <2>4 DEF MinOf
  <2>5. CASE u < scan
    BY <2>1, <2>2, <2>3, <2>5 DEF MinOf
  <2> QED
    BY <2>2, <2>4, <2>5, ThreadsAssumption DEF Threads
<1>24. ASSUME LowerMinRead PROVE PinInv'
  BY <1>24 DEF LowerMinRead, IInv, TypeOK, TypeThreads, PinInv, Pinned,
         TypeAgents, MinOf, Threads, AGoto, UpdaterGoto, UpdaterAt, MainAt,
         CommitPCs, Agents
<1>25. ASSUME ResetMin PROVE PinInv'
  BY <1>25 DEF ResetMin, IInv, TypeOK, TypeThreads, PinInv, Pinned,
         TypeAgents, MinOf, Threads, AGoto, UpdaterGoto, UpdaterAt, MainAt,
         CommitPCs, Agents
<1>26. ASSUME ScanWriters PROVE PinInv'
  BY <1>26 DEF ScanWriters, IInv, TypeOK, TypeThreads, PinInv, Pinned,
         TypeAgents, MinOf, Threads, AGoto, UpdaterGoto, UpdaterAt, MainAt,
         CommitPCs, Agents
<1>27. ASSUME LowerMin PROVE PinInv'
  BY <1>27 DEF LowerMin, IInv, TypeOK, TypeThreads, PinInv, Pinned,
         TypeAgents, MinOf, Threads, AGoto, UpdaterGoto, UpdaterAt, MainAt,
         CommitPCs, Agents
<1>28. ASSUME GC PROVE PinInv'
  BY <1>28 DEF GC, IInv, TypeOK, TypeThreads, PinInv, Pinned, TypeAgents,
         MinOf, Threads, AGoto, UpdaterGoto, UpdaterAt, MainAt, CommitPCs,
         Agents
<1>29. ASSUME CommitOrSleep PROVE PinInv'
  BY <1>29 DEF CommitOrSleep, IInv, TypeOK, TypeThreads, PinInv, Pinned,
         TypeAgents, MinOf, Threads, AGoto, UpdaterGoto, UpdaterAt, MainAt,
         CommitPCs, Agents
<1>30. ASSUME NEW a \in Agents, CommitLock(a) PROVE PinInv'
  BY <1>30 DEF CommitLock, IInv, TypeOK, TypeThreads, PinInv, Pinned,
         TypeAgents, ReturnTo, AGoto, UpdaterGoto, UpdaterAt, MainAt,
         CommitPCs, Agents
<1>31. ASSUME NEW a \in Agents, CommitTransform(a) PROVE PinInv'
  BY <1>31 DEF CommitTransform, IInv, TypeOK, TypeThreads, PinInv, Pinned,
         TypeAgents, ReturnTo, AGoto, UpdaterGoto, UpdaterAt, MainAt,
         CommitPCs, Agents
<1>32. ASSUME NEW a \in Agents, CommitPublish(a) PROVE PinInv'
  BY <1>32 DEF CommitPublish, IInv, TypeOK, TypeThreads, PinInv, Pinned,
         TypeAgents, ReturnTo, AGoto, UpdaterGoto, UpdaterAt, MainAt,
         CommitPCs, Agents
<1>33. ASSUME NEW a \in Agents, CommitNext(a) PROVE PinInv'
  BY <1>33 DEF CommitNext, IInv, TypeOK, TypeThreads, PinInv, Pinned,
         TypeAgents, ReturnTo, AGoto, UpdaterGoto, UpdaterAt, MainAt,
         CommitPCs, Agents
<1>34. ASSUME NEW a \in Agents, CommitUnlock(a) PROVE PinInv'
  BY <1>34 DEF CommitUnlock, IInv, TypeOK, TypeThreads, PinInv, Pinned,
         TypeAgents, ReturnTo, AGoto, UpdaterGoto, UpdaterAt, MainAt,
         CommitPCs, Agents
<1>35. ASSUME NEW e \in Epochs, CommitManually(e) PROVE PinInv'
  BY <1>35 DEF CommitManually, IInv, TypeOK, TypeThreads, PinInv, Pinned,
         TypeAgents, AGoto, UpdaterGoto, UpdaterAt, MainAt, CommitPCs, Agents
<1>36. ASSUME NoMoreTxn PROVE PinInv'
  BY <1>36 DEF NoMoreTxn, IInv, TypeOK, TypeThreads, PinInv, Pinned,
         TypeAgents, AGoto, UpdaterGoto, UpdaterAt, MainAt, CommitPCs, Agents
<1>37. ASSUME FinalizeNoMoreTxn PROVE PinInv'
  BY <1>37 DEF FinalizeNoMoreTxn, IInv, TypeOK, TypeThreads, PinInv, Pinned,
         TypeAgents, AGoto, UpdaterGoto, UpdaterAt, MainAt, CommitPCs, Agents
<1>38. ASSUME StopUpdater PROVE PinInv'
  BY <1>38 DEF StopUpdater, IInv, TypeOK, TypeThreads, PinInv, Pinned,
         TypeAgents, AGoto, UpdaterGoto, UpdaterAt, MainAt, CommitPCs, Agents
<1>39. ASSUME JoinUpdater PROVE PinInv'
  BY <1>39 DEF JoinUpdater, IInv, TypeOK, TypeThreads, PinInv, Pinned,
         TypeAgents, AGoto, UpdaterGoto, UpdaterAt, MainAt, CommitPCs, Agents
<1>40. ASSUME PublishRest PROVE PinInv'
  BY <1>40 DEF PublishRest, IInv, TypeOK, TypeThreads, PinInv, Pinned,
         TypeAgents, AGoto, UpdaterGoto, UpdaterAt, MainAt, CommitPCs, Agents
<1>41. ASSUME UNCHANGED vars PROVE PinInv'
  BY <1>41 DEF IInv, TypeOK, TypeThreads, PinInv, Pinned
<1> QED
  BY <1>1, <1>2, <1>3, <1>4, <1>5, <1>6, <1>7, <1>8, <1>9, <1>10, <1>11,
     <1>12, <1>13, <1>14, <1>15, <1>16, <1>17, <1>18, <1>19, <1>20, <1>21,
     <1>22, <1>23, <1>24, <1>25, <1>26, <1>27, <1>28, <1>29, <1>30, <1>31,
     <1>32, <1>33, <1>34, <1>35, <1>36, <1>37, <1>38, <1>39, <1>40, <1>41
  DEF Next, WriterStep, ReaderStep, UpdaterStep, CommitStep, MainStep

-----------------------------------------------------------------------------
(* The theorems.                                                           *)

\* A freshly constructed AllVBManager satisfies the inductive invariant.
LEMMA InitInv == Init => IInv
<1> SUFFICES ASSUME Init PROVE IInv
  OBVIOUS
<1>1. TypeManager
  BY EpochsAssumption, SlotInRing DEF Init, TypeManager, Epochs, Slot
<1>2. TypeFlags
  BY DEF Init, TypeFlags
<1>3. TypeQueue
  BY DEF Init, TypeQueue
<1>4. TypeThreads
  BY EpochsAssumption DEF Init, TypeThreads
<1>5. TypeAgents
  BY EpochsAssumption, ThreadsAssumption DEF Init, TypeAgents, Agents, Epochs,
     UpdaterPCs, MainPCs
<1>6. CreateInv /\ WriterInv /\ SafeInv /\ PinInv
  BY DEF Init, CreateInv, WriterInv, SafeInv, PinInv, WriterPCs, Registered,
     Pinned
<1>7. CommitInv
  BY DEF Init, CommitInv, Committing, CommitPCs, UpdaterPCs, MainPCs, WriterPCs,
     Agents
<1>8. OpenInv
  BY DEF Init, OpenInv, CommitPCs, Agents
<1> QED
  BY <1>1, <1>2, <1>3, <1>4, <1>5, <1>6, <1>7, <1>8 DEF IInv, TypeOK

\* The inductive invariant holds in every reachable state of the manager.
THEOREM Invariance == Spec => []IInv
<1>1. IInv /\ [Next]_vars => IInv'
  BY TypeFlagsStep, TypeManagerStep, TypeQueueStep, TypeThreadsStep,
     TypeAgentsStep, CreateInvStep, CommitInvStep, OpenInvStep, WriterInvStep,
     SafeInvStep, PinInvStep DEF IInv, TypeOK
<1> QED
  BY InitInv, <1>1, PTL DEF Spec

\* AllVBManager's members and every thread's locals keep their types, for any
\* number of threads and any ring: no epoch reaches the NO_TRANSACTION sentinel
\* and no ring index leaves active_txns_.
THEOREM TypeCorrect == Spec => []TypeOK
<1>1. IInv => TypeOK
  BY DEF IInv
<1> QED
  BY Invariance, <1>1, PTL

\* registerTransaction against update_min_version and commitVersionBlock: no
\* registered writer is ever in an epoch that is published or already
\* transformed, whatever the interleaving.
THEOREM Quiescence == Spec => []PublishedEpochsQuiescent
<1>1. IInv => PublishedEpochsQuiescent
  <2> SUFFICES ASSUME IInv, NEW t \in Threads, Registered(t)
               PROVE  /\ cur[t] > read_epoch_
                      /\ (\E a \in Agents : apc[a] = "c_publish")
                           => cur[t] > read_epoch_ + 1
    BY DEF PublishedEpochsQuiescent
  <2>1. SafeEpoch(cur[t], t) /\ cur[t] \in Int /\ read_epoch_ \in Int
    BY DEF IInv, SafeInv, TypeOK, TypeThreads, TypeManager
  <2>2. ASSUME NEW a \in Agents, apc[a] = "c_publish" PROVE cur[t] > read_epoch_ + 1
    <3>1. read_epoch_ + 1 < target[a] /\ target[a] <= cur[t] /\ target[a] \in Int
      BY <2>1, <2>2 DEF IInv, CommitInv, SafeEpoch, CommitPCs, TypeOK, TypeAgents,
         Epochs
    <3> QED
      BY <2>1, <3>1
  <2> QED
    BY <2>1, <2>2 DEF SafeEpoch
<1> QED
  BY Invariance, <1>1, PTL

\* GC against registerROTransaction: a step never discards a VBData that a reader
\* past the min_read_epoch check needs at that moment.
THEOREM PinsHonoured == Spec => GCKeepsPinned
<1>1. IInv /\ [Next]_vars => [SparesPinned]_vars
  <2> SUFFICES ASSUME IInv, Next PROVE SparesPinned
    OBVIOUS
  <2>1. CASE GC
    <3> SUFFICES ASSUME NEW t \in Threads, Pinned(t),
                        NEW i \in Popped, vb_que_[i] \in Needed(t)
                 PROVE  FALSE
      BY <2>1 DEF GC, SparesPinned
    <3>1. min_read_epoch <= re[t]
      BY <2>1 DEF GC, UpdaterAt, IInv, PinInv
    <3>2. i \in 1 .. Len(vb_que_) /\ Collectable(vb_que_[i])
      BY DEF Popped
    <3>3. vb_que_[i] \in 0 .. MaxEpoch
      BY <3>2, ElementOfSeq DEF IInv, TypeOK, TypeQueue
    <3>4. vb_que_[i] <= min_read_epoch
      BY <3>2, <3>3, EpochsAssumption DEF Collectable, IInv, TypeOK, TypeManager, Epochs
    <3> QED
      BY <3>1, <3>3, <3>4, EpochsAssumption
      DEF Needed, IInv, TypeOK, TypeManager, TypeThreads, Epochs
  <2>2. CASE ~GC
    <3>1. deleted' = deleted
      BY <2>2, WriterFrame, ReaderFrame, CommitFrame, MainFrame
      DEF Next, UpdaterStep, UpdaterLoop, ResetMinRead, ScanRead, LowerMinRead,
          ResetMin, ScanWriters, LowerMin, CommitOrSleep
    <3> QED
      BY <3>1 DEF SparesPinned
  <2> QED
    BY <2>1, <2>2
<1> QED
  BY Invariance, <1>1, PTL DEF Spec, GCKeepsPinned

-----------------------------------------------------------------------------
(* Arithmetic of the ring.                                                 *)

\* cur & MODPM is a remainder.
LEMMA Division ==
  ASSUME NEW n \in Nat
  PROVE  \E q \in Nat : n = MAXSIMULBATCH * q + Slot(n)
<1>0. MAXSIMULBATCH \in Int /\ MAXSIMULBATCH > 0 /\ n \in Int /\ n >= 0
  BY EpochsAssumption
<1>1. /\ n \div MAXSIMULBATCH \in Int
      /\ n = (MAXSIMULBATCH * (n \div MAXSIMULBATCH)) + (n % MAXSIMULBATCH)
  BY <1>0
<1>2. n \div MAXSIMULBATCH >= 0
  BY <1>0
<1> QED BY <1>1, <1>2 DEF Slot

\* Epochs that are less than the ring apart have slots of their own.
LEMMA SlotsDiffer ==
  ASSUME NEW m \in Nat, NEW n \in Nat, m < n, n - m < MAXSIMULBATCH
  PROVE  Slot(m) # Slot(n)
<1> SUFFICES ASSUME Slot(m) = Slot(n) PROVE FALSE
  OBVIOUS
<1>0. MAXSIMULBATCH \in Int /\ MAXSIMULBATCH > 0 /\ Slot(m) \in Int
  BY EpochsAssumption DEF Slot
<1>1. PICK p \in Nat : m = MAXSIMULBATCH * p + Slot(m)
  BY Division
<1>2. PICK q \in Nat : n = MAXSIMULBATCH * q + Slot(n)
  BY Division
<1>3. n - m = MAXSIMULBATCH * (q - p)
  BY <1>0, <1>1, <1>2
<1>4. CASE q - p >= 1
  <2>1. MAXSIMULBATCH * (q - p) >= MAXSIMULBATCH
    BY <1>0, <1>4
  <2> QED BY <1>0, <1>3, <2>1
<1>5. CASE q - p <= 0
  <2>1. MAXSIMULBATCH * (q - p) <= 0
    BY <1>0, <1>5
  <2> QED BY <1>0, <1>3, <2>1
<1> QED BY <1>4, <1>5

\* The remainder of a multiple and a rest.
LEMMA Remainder ==
  ASSUME NEW m \in Int, m > 0, NEW q \in Int, NEW r \in Int, r >= 0, r < m
  PROVE  ((m * q) + r) % m = r
OBVIOUS

\* read_epoch_cur_ moves to the slot of the next epoch.
LEMMA SlotNext ==
  ASSUME NEW n \in Nat
  PROVE  NextSlot(Slot(n)) = Slot(n + 1)
<1>0. MAXSIMULBATCH \in Int /\ MAXSIMULBATCH > 0 /\ Slot(n) \in 0 .. MAXSIMULBATCH - 1
  BY EpochsAssumption DEF Slot
<1>1. PICK q \in Nat : n = MAXSIMULBATCH * q + Slot(n)
  BY Division
<1>2. CASE Slot(n) = MAXSIMULBATCH - 1
  <2>1. n + 1 = MAXSIMULBATCH * (q + 1)
    BY <1>0, <1>1, <1>2
  <2>2. ((MAXSIMULBATCH * (q + 1)) + 0) % MAXSIMULBATCH = 0
    BY <1>0, Remainder
  <2>3. (n + 1) % MAXSIMULBATCH = 0
    BY <1>0, <2>1, <2>2
  <2> QED BY <1>2, <2>3 DEF Slot, NextSlot
<1>3. CASE Slot(n) # MAXSIMULBATCH - 1
  <2>1. n + 1 = MAXSIMULBATCH * q + (Slot(n) + 1)
    BY <1>0, <1>1
  <2>2. Slot(n) + 1 >= 0 /\ Slot(n) + 1 < MAXSIMULBATCH /\ Slot(n) + 1 \in Int /\ q \in Int
    BY <1>0, <1>3
  <2>3. ((MAXSIMULBATCH * q) + (Slot(n) + 1)) % MAXSIMULBATCH = Slot(n) + 1
    BY <1>0, <2>2, Remainder
  <2>4. (n + 1) % MAXSIMULBATCH = Slot(n) + 1
    BY <2>1, <2>3
  <2> QED BY <1>3, <2>4 DEF Slot, NextSlot
<1> QED BY <1>2, <1>3
-----------------------------------------------------------------------------
(* Who moves.                                                              *)

\* A reader's step moves that reader, among the labels of readers.
LEMMA ReaderMoves ==
  ASSUME IInv, NEW t \in Threads, ReaderStep(t)
  PROVE  /\ pc[t] \in ReaderPCs \cup {"idle"} /\ pc'[t] \in ReaderPCs \cup {"idle"}
         /\ \A u \in Threads : u # t => pc'[u] = pc[u]
BY DEF ReaderStep, RegisterROTransaction, LoadReadEpoch, StoreActiveRead,
       VerifyReadEpoch, GuardCapture, LoadVBData, DerefVBData,
       DeregisterROTransaction, Goto, ReaderPCs, IInv, TypeOK, TypeThreads

\* A writer's step moves that writer, among the labels of writers; the epoch and the
\* VBData of a registered writer that has taken it do not change.
LEMMA WriterMoves ==
  ASSUME IInv, NEW t \in Threads, WriterStep(t)
  PROVE  /\ pc[t] \in WriterPCs \cup {"idle"} /\ pc'[t] \in WriterPCs \cup {"idle"}
         /\ \A u \in Threads : u # t => pc'[u] = pc[u] /\ cur'[u] = cur[u]
                                         /\ vb_data'[u] = vb_data[u]
         /\ Registered(t)' /\ ~VerifyCur(t) => Registered(t) /\ cur'[t] = cur[t]
         /\ Registered(t)' /\ pc'[t] # "w_take" /\ ~TakeVBData(t)
              => pc[t] # "w_take" /\ vb_data'[t] = vb_data[t]
<1> USE DEF Goto, Registered, WriterPCs, IInv, TypeOK, TypeThreads
<1>1. CASE RegisterTransaction(t)
  BY <1>1 DEF RegisterTransaction
<1>2. CASE LoadCur(t)
  BY <1>2 DEF LoadCur
<1>3. CASE AwaitRing(t)
  BY <1>3 DEF AwaitRing
<1>4. CASE StoreActive(t)
  BY <1>4 DEF StoreActive
<1>5. CASE VerifyCur(t)
  BY <1>5 DEF VerifyCur
<1>6. CASE TakeVBData(t)
  BY <1>6 DEF TakeVBData
<1>7. CASE CheckRoom(t)
  BY <1>7 DEF CheckRoom
<1>8. CASE CasIsCreate(t)
  BY <1>8 DEF CasIsCreate
<1>9. CASE NewVBData(t)
  BY <1>9 DEF NewVBData
<1>10. CASE IncCur(t)
  BY <1>10 DEF IncCur
<1>11. CASE ReleaseIsCreate(t)
  BY <1>11 DEF ReleaseIsCreate
<1>12. CASE DeregisterTransaction(t)
  BY <1>12 DEF DeregisterTransaction
<1> QED
  BY <1>1, <1>2, <1>3, <1>4, <1>5, <1>6, <1>7, <1>8, <1>9, <1>10, <1>11, <1>12 DEF WriterStep

\* read_epoch_ only moves in CommitPublish, which moves nothing else of the ring.
LEMMA PublishMoves ==
  ASSUME IInv, [Next]_vars, read_epoch_' # read_epoch_
  PROVE  /\ \E a \in Agents : CommitPublish(a)
         /\ UNCHANGED <<ringVars, pc, writerVars>>
<1>1. ASSUME NEW a \in Agents, CommitStep(a) PROVE CommitPublish(a)
  BY <1>1 DEF CommitStep, CommitLock, CommitTransform, CommitNext, CommitUnlock
<1>2. \E a \in Agents : CommitStep(a)
  BY WriterFrame, ReaderFrame, UpdaterFrame, MainFrame DEF Next
<1> QED
  BY <1>1, <1>2, CommitFrame

-----------------------------------------------------------------------------
(* The parts of RingInv, one lemma each.                                   *)

\* registerTransaction opens the next epoch only with room in the ring, so that the
\* store of the new VBData and the step of cur_ spare the unpublished epochs.
LEMMA RingStep ==
  ASSUME IInv, RingInv, [Next]_vars
  PROVE  RingHoldsUnpublished' /\ RoomInv'
<1> USE EpochsAssumption DEF RingInv, RingHoldsUnpublished, RoomInv
<1>0. /\ cur_ \in Nat /\ read_epoch_ \in Nat /\ MAXSIMULBATCH \in Nat
      /\ DOMAIN active_txns_ = 0 .. MAXSIMULBATCH - 1
      /\ \A u \in Threads : cur[u] \in Nat
  BY DEF IInv, TypeOK, TypeManager, TypeThreads
<1>1. CASE read_epoch_' # read_epoch_
  <2>1. read_epoch_' = read_epoch_ + 1 /\ UNCHANGED <<ringVars, pc, writerVars>>
    BY <1>1, PublishMoves DEF CommitPublish
  <2> QED
    BY <1>0, <2>1
<1>2. ASSUME NEW t \in Threads, WriterStep(t)
      PROVE  RingHoldsUnpublished' /\ RoomInv'
  <2>0. UNCHANGED read_epoch_
    BY <1>2, WriterFrame
  <2>1. \A u \in Threads : u # t => pc'[u] = pc[u] /\ cur'[u] = cur[u]
    BY <1>2, WriterMoves
  <2>2. CASE CheckRoom(t)
    <3>1. read_epoch_ < cur[t] /\ cur[t] <= cur_
      BY <1>0, <2>2 DEF CheckRoom, IInv, SafeInv, SafeEpoch, WriterInv, Registered, WriterPCs
    <3>2. pc'[t] = "w_cas" => cur_ - read_epoch_ < MAXSIMULBATCH
      BY <1>0, <2>2, <3>1 DEF CheckRoom, RoomForNext, USub, Goto, IInv, TypeOK, TypeThreads
    <3>3. pc'[t] \in {"w_cas", "w_run"}
      BY <2>2 DEF CheckRoom, Goto, IInv, TypeOK, TypeThreads
    <3> QED
      BY <1>0, <2>0, <2>1, <2>2, <3>2, <3>3 DEF CheckRoom
  <2>3. CASE NewVBData(t) /\ StillOpen(t)
    <3>1. /\ cur[t] = cur_ /\ cur_ - read_epoch_ < MAXSIMULBATCH
          /\ active_txns_' = [active_txns_ EXCEPT ![Slot(cur_ + 1)] = cur_ + 1]
          /\ cur_' = cur_ /\ pc'[t] = "w_inc"
      BY <2>3 DEF NewVBData, StillOpen, Goto, IInv, TypeOK, TypeThreads
    <3>2. Slot(cur_ + 1) \in DOMAIN active_txns_
      BY <1>0, SlotInRing
    <3>3. \A e \in read_epoch_ + 1 .. cur_ : Slot(e) # Slot(cur_ + 1)
      BY <1>0, <3>1, SlotsDiffer
    <3>4. \A e \in read_epoch_ + 1 .. cur_ : active_txns_'[Slot(e)] = e
      BY <1>0, <3>1, <3>2, <3>3
    <3>5. active_txns_'[Slot(cur_ + 1)] = cur_ + 1
      BY <3>1, <3>2
    <3>6. \A u \in Threads : u # t => pc'[u] # "w_inc"
      BY <2>1, <2>3 DEF NewVBData, IInv, CreateInv
    <3> QED
      BY <1>0, <2>0, <2>1, <3>1, <3>4, <3>5, <3>6
  <2>4. CASE IncCur(t)
    <3>1. /\ cur[t] = cur_ /\ cur_ - read_epoch_ < MAXSIMULBATCH
          /\ active_txns_[Slot(cur_ + 1)] = cur_ + 1
          /\ cur_' = cur_ + 1 /\ active_txns_' = active_txns_ /\ pc'[t] = "w_release"
      BY <2>4 DEF IncCur, Goto, IInv, CreateInv, TypeOK, TypeThreads
    <3>2. \A e \in read_epoch_ + 1 .. cur_ + 1 : active_txns_[Slot(e)] = e
      BY <1>0, <3>1
    <3>3. \A u \in Threads : u # t => pc'[u] \notin {"w_new", "w_inc"}
      BY <2>1, <2>4 DEF IncCur, IInv, CreateInv
    <3>4. \A u \in Threads : u # t /\ pc'[u] = "w_cas" => cur'[u] # cur_'
      BY <1>0, <2>1, <3>1 DEF IInv, WriterInv, WriterPCs
    <3> QED
      BY <1>0, <2>0, <3>1, <3>2, <3>3, <3>4
  <2>5. CASE ~CheckRoom(t) /\ ~(NewVBData(t) /\ StillOpen(t)) /\ ~IncCur(t)
    <3>1. cur_' = cur_ /\ active_txns_' = active_txns_
      BY <1>2, <2>5 DEF WriterStep, RegisterTransaction, LoadCur, AwaitRing,
         StoreActive, VerifyCur, TakeVBData, CasIsCreate, NewVBData,
         ReleaseIsCreate, DeregisterTransaction
    <3>2. /\ pc'[t] \in {"w_cas", "w_new"} => pc[t] \in {"w_cas", "w_new"} /\ cur'[t] = cur[t]
          /\ pc'[t] # "w_inc"
      BY <1>2, <2>5 DEF WriterStep, RegisterTransaction, LoadCur, AwaitRing,
         StoreActive, VerifyCur, TakeVBData, CasIsCreate, NewVBData,
         ReleaseIsCreate, DeregisterTransaction, Goto, IInv, TypeOK, TypeThreads
    <3> QED
      BY <1>0, <2>0, <2>1, <3>1, <3>2
  <2> QED
    BY <2>2, <2>3, <2>4, <2>5
<1>3. ASSUME NEW t \in Threads, ReaderStep(t), UNCHANGED read_epoch_
      PROVE  RingHoldsUnpublished' /\ RoomInv'
  <2>1. UNCHANGED <<ringVars, writerVars>>
    BY <1>3, ReaderFrame
  <2>2. \A u \in Threads : pc'[u] = pc[u] \/ pc'[u] \notin WriterPCs
    BY <1>3, ReaderMoves DEF ReaderPCs, WriterPCs
  <2> QED
    BY <1>3, <2>1, <2>2 DEF WriterPCs
<1>4. ASSUME UNCHANGED <<ringVars, writerVars, pc, read_epoch_>>
      PROVE  RingHoldsUnpublished' /\ RoomInv'
  BY <1>4
<1> QED
  BY <1>1, <1>2, <1>3, <1>4, UpdaterFrame, CommitFrame, MainFrame DEF Next

\* TakeVBData finds the VBData of the writer's epoch in the ring.
LEMMA TakenStep ==
  ASSUME IInv, RingInv, [Next]_vars
  PROVE  TakenInv'
<1> USE DEF TakenInv
<1>1. ASSUME NEW t \in Threads, WriterStep(t) PROVE TakenInv'
  <2>1. \A u \in Threads : u # t => pc'[u] = pc[u] /\ cur'[u] = cur[u]
                                     /\ vb_data'[u] = vb_data[u]
    BY <1>1, WriterMoves
  <2>2. CASE TakeVBData(t)
    <3>1. cur[t] \in read_epoch_ + 1 .. cur_
      BY <2>2 DEF TakeVBData, IInv, SafeInv, SafeEpoch, WriterInv, Registered, WriterPCs,
         TypeOK, TypeThreads, TypeManager
    <3>2. vb_data'[t] = cur[t] /\ cur'[t] = cur[t]
      BY <2>2, <3>1 DEF TakeVBData, RingInv, RingHoldsUnpublished, IInv, TypeOK, TypeThreads
    <3> QED
      BY <2>1, <3>2 DEF RingInv, Registered
  <2>3. CASE ~TakeVBData(t)
    <3>1. Registered(t)' /\ pc'[t] # "w_take" =>
            /\ Registered(t) /\ pc[t] # "w_take"
            /\ vb_data'[t] = vb_data[t] /\ cur'[t] = cur[t]
      BY <1>1, <2>3, WriterMoves DEF VerifyCur, Goto, Registered, IInv, TypeOK, TypeThreads
    <3> QED
      BY <2>1, <3>1 DEF RingInv, Registered
  <2> QED
    BY <2>2, <2>3
<1>2. ASSUME NEW t \in Threads, ReaderStep(t) PROVE TakenInv'
  <2>1. \A u \in Threads : pc'[u] = pc[u] \/ pc'[u] \notin WriterPCs
    BY <1>2, ReaderMoves DEF ReaderPCs, WriterPCs
  <2> QED
    BY <1>2, <2>1, ReaderFrame DEF RingInv, Registered, WriterPCs
<1>3. ASSUME UNCHANGED <<writerVars, pc>> PROVE TakenInv'
  BY <1>3 DEF RingInv, Registered
<1> QED
  BY <1>1, <1>2, <1>3, UpdaterFrame, CommitFrame, MainFrame DEF Next

\* Nobody else is inside commitVersionBlock while an agent is past its lock.
LEMMA OneCommitter ==
  ASSUME IInv, NEW a \in Agents, NEW b \in Agents, a # b,
         Committing(a) \/ (apc[a] = "c_lock" /\ mtx_ = "free")
  PROVE  ~Committing(b)
BY DEF IInv, CommitInv, Agents

\* What a committer that goes on finds in the slot of the first unpublished epoch.
LEMMA FirstUnpublished ==
  ASSUME IInv, RingInv, NEW a \in Agents, apc[a] \in CommitPCs, read_epoch_ + 1 < target[a]
  PROVE  active_txns_[Slot(read_epoch_ + 1)] = read_epoch_ + 1
<1>1. read_epoch_ \in Int /\ target[a] \in Int /\ cur_ \in Int
  BY DEF IInv, TypeOK, TypeManager, TypeAgents, Epochs
<1>2. read_epoch_ + 1 \in read_epoch_ + 1 .. cur_
  BY <1>1 DEF IInv, OpenInv
<1> QED
  BY <1>2 DEF RingInv, RingHoldsUnpublished

\* commitVersionBlock walks the ring slot by slot, epoch by epoch.
LEMMA CommitterStep ==
  ASSUME IInv, RingInv, [Next]_vars
  PROVE  CommitterInv'
<1> USE DEF CommitterInv
<1>0. /\ read_epoch_ \in Nat /\ apc \in [Agents -> CommitPCs \cup UpdaterPCs \cup MainPCs]
      /\ vbdata \in [Agents -> 0 .. MaxEpoch] /\ target \in [Agents -> Epochs]
  BY DEF IInv, TypeOK, TypeManager, TypeAgents
<1>1. ASSUME NEW a \in Agents, CommitLock(a) PROVE CommitterInv'
  <2>1. \A b \in Agents : ~Committing(b)
    BY <1>1, OneCommitter DEF CommitLock, Committing
  <2>2. read_epoch_cur_ = Slot(read_epoch_ + 1)
    BY <2>1 DEF RingInv, Committing
  <2>3. read_epoch_ + 1 < target[a] => vbdata'[a] = read_epoch_ + 1
    BY <1>0, <1>1, <2>2, FirstUnpublished DEF CommitLock, CommitPCs
  <2>4. apc'[a] = "c_loop" /\ \A b \in Agents : b # a => apc'[b] = apc[b]
    BY <1>0, <1>1 DEF CommitLock, AGoto
  <2> QED
    BY <1>1, <2>1, <2>2, <2>3, <2>4 DEF CommitLock, Committing
<1>2. ASSUME NEW a \in Agents, CommitTransform(a) PROVE CommitterInv'
  <2>1. apc'[a] = "c_publish" /\ \A b \in Agents : b # a => apc'[b] = apc[b]
    BY <1>0, <1>2 DEF CommitTransform, AGoto
  <2> QED
    BY <1>2, <2>1 DEF CommitTransform, RingInv
<1>3. ASSUME NEW a \in Agents, CommitPublish(a) PROVE CommitterInv'
  <2>1. \A b \in Agents : b # a => ~Committing(b)
    BY <1>3, OneCommitter DEF CommitPublish, Committing
  <2>2. read_epoch_cur_ = Slot(read_epoch_ + 1)
    BY <1>3, <2>1 DEF RingInv, Committing, CommitPublish
  <2>3. apc'[a] = "c_next" /\ \A b \in Agents : b # a => apc'[b] = apc[b]
    BY <1>0, <1>3 DEF CommitPublish, AGoto
  <2> QED
    BY <1>0, <1>3, <2>1, <2>2, <2>3 DEF CommitPublish, Committing
<1>4. ASSUME NEW a \in Agents, CommitNext(a) PROVE CommitterInv'
  <2>1. \A b \in Agents : b # a => ~Committing(b)
    BY <1>4, OneCommitter DEF CommitNext, Committing
  <2>2. NextSlot(read_epoch_cur_) = Slot(read_epoch_ + 1)
    BY <1>0, <1>4, SlotNext DEF RingInv, CommitNext
  <2>3. read_epoch_ + 1 < target[a] => vbdata'[a] = read_epoch_ + 1
    BY <1>0, <1>4, <2>2, FirstUnpublished DEF CommitNext, CommitPCs
  <2>4. apc'[a] = "c_loop" /\ \A b \in Agents : b # a => apc'[b] = apc[b]
    BY <1>0, <1>4 DEF CommitNext, AGoto
  <2> QED
    BY <1>4, <2>1, <2>2, <2>3, <2>4 DEF CommitNext, Committing
<1>5. ASSUME NEW a \in Agents, CommitUnlock(a) PROVE CommitterInv'
  <2>1. apc'[a] \notin CommitPCs /\ \A b \in Agents : b # a =>
          apc'[b] = apc[b] /\ target'[b] = target[b] /\ vbdata'[b] = vbdata[b]
    BY <1>0, <1>5 DEF CommitUnlock, AGoto, ReturnTo, CommitPCs
  <2>2. apc[a] # "c_next"
    BY <1>5 DEF CommitUnlock
  <2> QED
    BY <1>5, <2>1, <2>2 DEF CommitUnlock, RingInv, CommitPCs
<1>6. ASSUME UNCHANGED <<publishVars, vbdata>>, NEW a \in Agents,
             apc[a] \notin CommitPCs, apc'[a] \notin CommitPCs \ {"c_lock"},
             \A b \in Agents : b # a => apc'[b] = apc[b] /\ target'[b] = target[b]
      PROVE  CommitterInv'
  BY <1>6 DEF RingInv, CommitPCs
<1>7. ASSUME UpdaterStep PROVE CommitterInv'
  <2>1. /\ apc["updater"] \notin CommitPCs /\ apc'["updater"] \notin CommitPCs \ {"c_lock"}
        /\ apc'["main"] = apc["main"] /\ target'["main"] = target["main"]
    BY <1>0, <1>7 DEF UpdaterStep, UpdaterLoop, ResetMinRead, ScanRead, LowerMinRead,
       ResetMin, ScanWriters, LowerMin, GC, CommitOrSleep, UpdaterAt, UpdaterGoto, AGoto,
       CommitPCs, Agents
  <2> QED
    BY <1>6, <1>7, <2>1, UpdaterFrame DEF Agents
<1>8. ASSUME MainStep PROVE CommitterInv'
  <2>1. /\ apc["main"] \notin CommitPCs /\ apc'["main"] \notin CommitPCs \ {"c_lock"}
        /\ apc'["updater"] = apc["updater"] /\ target'["updater"] = target["updater"]
    BY <1>0, <1>8 DEF MainStep, CommitManually, NoMoreTxn, FinalizeNoMoreTxn, StopUpdater,
       JoinUpdater, PublishRest, MainAt, AGoto, CommitPCs, Agents
  <2> QED
    BY <1>6, <1>8, <2>1, MainFrame DEF Agents
<1>9. ASSUME UNCHANGED <<publishVars, agentVars>> PROVE CommitterInv'
  BY <1>9 DEF RingInv
<1> QED
  BY <1>1, <1>2, <1>3, <1>4, <1>5, <1>7, <1>8, <1>9, WriterFrame, ReaderFrame
  DEF Next, CommitStep

\* Below the watermark means: at the front of the queue, which is in order.
LEMMA PoppedIsPrefix ==
  ASSUME IInv, NEW k \in Nat, \A i \in 1 .. Len(vb_que_) : vb_que_[i] = k + i
  PROVE  \E p \in 0 .. Len(vb_que_) : Popped = 1 .. p /\ Cardinality(Popped) = p
<1> DEFINE w == IF FINEGRAIN THEN min_read_epoch - 1 - k ELSE min_read_epoch - k
           p == IF w < 0 THEN 0 ELSE IF w > Len(vb_que_) THEN Len(vb_que_) ELSE w
<1>1. Len(vb_que_) \in Nat /\ min_read_epoch \in Nat
  BY LenProperties, EpochsAssumption DEF IInv, TypeOK, TypeManager, TypeQueue, Epochs
<1>2. w \in Int /\ p \in 0 .. Len(vb_que_)
  BY <1>1, FlagsAssumption
<1>3. \A i \in 1 .. Len(vb_que_) : Collectable(vb_que_[i]) <=> i <= w
  BY <1>1, FlagsAssumption DEF Collectable
<1>4. \A i \in 1 .. Len(vb_que_) : (\A j \in 1 .. i : Collectable(vb_que_[j])) <=> i <= w
  BY <1>1, <1>2, <1>3
<1>5. Popped = 1 .. p
  BY <1>1, <1>2, <1>4 DEF Popped
<1> HIDE DEF w, p
<1>6. p \in Int /\ p >= 0
  BY <1>1, <1>2
<1>7. Cardinality(1 .. p) = IF 1 > p THEN 0 ELSE p - 1 + 1
  BY <1>6, FS_Interval
<1>8. Cardinality(1 .. p) = p
  BY <1>6, <1>7
<1> QED
  BY <1>2, <1>5, <1>8

\* vb_que_ gets every epoch once and in order, and loses what GC deletes.
LEMMA QueueStep ==
  ASSUME IInv, RingInv, [Next]_vars
  PROVE  PublishedOnceInOrder'
<1> DEFINE publishing == \E a \in Agents : apc[a] = "c_publish"
           done == read_epoch_ + (IF publishing THEN 1 ELSE 0)
<1>0. /\ read_epoch_ \in Nat /\ MaxEpoch \in Nat /\ vb_que_ \in Seq(0 .. MaxEpoch)
      /\ apc \in [Agents -> CommitPCs \cup UpdaterPCs \cup MainPCs]
  BY EpochsAssumption DEF IInv, TypeOK, TypeManager, TypeAgents, TypeQueue
<1>1. PICK k \in 0 .. MaxEpoch :
        /\ deleted = 1 .. k
        /\ \A i \in 1 .. Len(vb_que_) : vb_que_[i] = k + i
        /\ k + Len(vb_que_) = done
  BY DEF RingInv, PublishedOnceInOrder
<1>2. Len(vb_que_) \in Nat
  BY <1>0, LenProperties
<1>3. done \in 0 .. MaxEpoch
  <2>1. CASE publishing
    <3>1. PICK a \in Agents : apc[a] = "c_publish"
      BY <2>1
    <3>2. read_epoch_ + 1 < target[a] /\ target[a] <= MaxEpoch + 1 /\ target[a] \in Int
      BY <3>1, EpochsAssumption DEF IInv, CommitInv, TypeOK, TypeAgents, Epochs
    <3> QED
      BY <1>0, <2>1, <3>2
  <2>2. CASE ~publishing
    BY <1>0, <2>2 DEF IInv, TypeOK, TypeManager
  <2> QED
    BY <2>1, <2>2
<1>4. ASSUME GC PROVE PublishedOnceInOrder'
  <2>0. k \in Nat
    BY <1>0
  <2>1. PICK p \in 0 .. Len(vb_que_) : Popped = 1 .. p /\ Cardinality(Popped) = p
    BY <1>1, <2>0, PoppedIsPrefix
  <2>2. deleted' = 1 .. k + p
    <3>0. p \in Nat /\ \A i \in 1 .. p : vb_que_[i] = k + i
      BY <1>1, <1>2
    <3>1. deleted' = (1 .. k) \cup {vb_que_[i] : i \in 1 .. p}
      BY <1>1, <1>4, <2>1 DEF GC
    <3>2. ASSUME NEW e \in k + 1 .. k + p PROVE e \in {vb_que_[i] : i \in 1 .. p}
      <4>1. e - k \in 1 .. p /\ vb_que_[e - k] = e
        BY <2>0, <3>0
      <4> QED
        BY <4>1
    <3>3. ASSUME NEW e \in {vb_que_[i] : i \in 1 .. p} PROVE e \in k + 1 .. k + p
      <4>1. PICK i \in 1 .. p : e = vb_que_[i]
        OBVIOUS
      <4>2. e = k + i
        BY <3>0, <4>1
      <4> QED
        BY <2>0, <3>0, <4>2
    <3>4. {vb_que_[i] : i \in 1 .. p} = k + 1 .. k + p
      BY <3>2, <3>3
    <3>5. (1 .. k) \cup (k + 1 .. k + p) = 1 .. k + p
      BY <2>0, <3>0
    <3> QED
      BY <3>1, <3>4, <3>5
  <2>3. vb_que_' = SubSeq(vb_que_, p + 1, Len(vb_que_))
    BY <1>4, <2>1 DEF GC
  <2>4. /\ Len(vb_que_') = Len(vb_que_) - p
        /\ \A i \in 1 .. Len(vb_que_) - p : vb_que_'[i] = vb_que_[p + i]
    BY <1>0, <1>2, <2>1, <2>3
  <2>5. \A i \in 1 .. Len(vb_que_') : vb_que_'[i] = (k + p) + i
    BY <1>1, <1>2, <2>1, <2>4
  <2>6. (\E a \in Agents : apc'[a] = "c_publish") <=> publishing
    BY <1>0, <1>4 DEF GC, UpdaterAt, UpdaterGoto, AGoto, Agents
  <2>7. read_epoch_' = read_epoch_
    BY <1>4 DEF GC
  <2>8. k + p \in 0 .. MaxEpoch /\ (k + p) + Len(vb_que_') = done
    <3> HIDE DEF done
    <3>1. done \in Int /\ done <= MaxEpoch /\ MaxEpoch \in Int
      BY <1>0, <1>3
    <3>2. k + Len(vb_que_) = done /\ Len(vb_que_') = Len(vb_que_) - p
      BY <1>1, <2>4
    <3>3. p \in Int /\ 0 <= p /\ p <= Len(vb_que_)
      BY <1>2
    <3>4. (k + p) + Len(vb_que_') = done
      BY <1>2, <2>0, <3>2, <3>3
    <3>5. k + p \in Int /\ 0 <= k + p /\ k + p <= done
      BY <1>2, <2>0, <3>2, <3>3
    <3> QED
      BY <3>1, <3>4, <3>5
  <2> QED
    BY <2>2, <2>5, <2>6, <2>7, <2>8 DEF PublishedOnceInOrder
<1>5. ASSUME NEW a \in Agents, CommitTransform(a) PROVE PublishedOnceInOrder'
  <2>1. ~publishing /\ done = read_epoch_
    BY <1>5, <1>0, OneCommitter DEF CommitTransform, Committing
  <2>2. vbdata[a] = read_epoch_ + 1
    BY <1>5 DEF CommitTransform, MoreToPublish, RingInv, CommitterInv
  <2>3. /\ vb_que_' = Append(vb_que_, read_epoch_ + 1) /\ deleted' = deleted
        /\ read_epoch_' = read_epoch_
    BY <1>5, <2>2 DEF CommitTransform
  <2>4. /\ Len(vb_que_') = Len(vb_que_) + 1
        /\ \A i \in 1 .. Len(vb_que_) : vb_que_'[i] = vb_que_[i]
        /\ vb_que_'[Len(vb_que_) + 1] = read_epoch_ + 1
    BY <1>0, <2>3
  <2>5. \A i \in 1 .. Len(vb_que_') : vb_que_'[i] = k + i
    BY <1>1, <1>2, <2>1, <2>4
  <2>6. apc'[a] = "c_publish"
    BY <1>0, <1>5 DEF CommitTransform, AGoto
  <2>7. k + Len(vb_que_') = read_epoch_ + 1
    BY <1>1, <1>2, <2>1, <2>4
  <2> QED
    BY <1>1, <2>3, <2>5, <2>6, <2>7 DEF PublishedOnceInOrder
<1>6. ASSUME NEW a \in Agents, CommitPublish(a) PROVE PublishedOnceInOrder'
  <2>1. publishing /\ done = read_epoch_ + 1
    BY <1>6 DEF CommitPublish
  <2>2. ~(\E b \in Agents : apc'[b] = "c_publish")
    <3>1. \A b \in Agents : b # a => ~Committing(b) /\ apc'[b] = apc[b]
      BY <1>0, <1>6, OneCommitter DEF CommitPublish, Committing, AGoto
    <3>2. apc'[a] = "c_next"
      BY <1>0, <1>6 DEF CommitPublish, AGoto
    <3> QED
      BY <3>1, <3>2 DEF Committing
  <2>3. vb_que_' = vb_que_ /\ deleted' = deleted /\ read_epoch_' = read_epoch_ + 1
    BY <1>6 DEF CommitPublish
  <2> QED
    BY <1>0, <1>1, <2>1, <2>2, <2>3 DEF PublishedOnceInOrder
<1>7. ASSUME UNCHANGED <<vb_que_, deleted, read_epoch_>>,
             (\E a \in Agents : apc'[a] = "c_publish") <=> publishing
      PROVE  PublishedOnceInOrder'
  BY <1>1, <1>7 DEF PublishedOnceInOrder
<1>8. ASSUME UpdaterStep, ~GC PROVE PublishedOnceInOrder'
  <2>1. /\ UNCHANGED <<vb_que_, deleted, read_epoch_>> /\ apc'["main"] = apc["main"]
        /\ apc["updater"] # "c_publish" /\ apc'["updater"] # "c_publish"
    BY <1>0, <1>8 DEF UpdaterStep, UpdaterLoop, ResetMinRead, ScanRead, LowerMinRead,
       ResetMin, ScanWriters, LowerMin, CommitOrSleep, UpdaterAt, UpdaterGoto, AGoto, Agents
  <2> QED
    BY <1>7, <2>1 DEF Agents
<1>9. ASSUME NEW a \in Agents, CommitLock(a) \/ CommitNext(a) \/ CommitUnlock(a)
      PROVE  PublishedOnceInOrder'
  <2>1. /\ UNCHANGED <<vb_que_, deleted, read_epoch_>>
        /\ apc[a] # "c_publish" /\ apc'[a] # "c_publish"
        /\ \A b \in Agents : b # a => apc'[b] = apc[b]
    BY <1>0, <1>9 DEF CommitLock, CommitNext, CommitUnlock, AGoto, ReturnTo
  <2> QED
    BY <1>7, <2>1
<1>10. ASSUME MainStep PROVE PublishedOnceInOrder'
  <2>1. /\ apc["main"] # "c_publish" /\ apc'["main"] # "c_publish"
        /\ apc'["updater"] = apc["updater"]
    BY <1>0, <1>10 DEF MainStep, CommitManually, NoMoreTxn, FinalizeNoMoreTxn, StopUpdater,
       JoinUpdater, PublishRest, MainAt, AGoto, Agents
  <2> QED
    BY <1>7, <1>10, <2>1, MainFrame DEF Agents
<1>11. ASSUME UNCHANGED <<vb_que_, deleted, read_epoch_, apc>> PROVE PublishedOnceInOrder'
  BY <1>7, <1>11
<1> QED
  BY <1>4, <1>5, <1>6, <1>8, <1>9, <1>10, <1>11, WriterFrame, ReaderFrame
  DEF Next, CommitStep

\* min_read_epoch and the readers' epochs are copies of read_epoch_, which only grows.
LEMMA WatermarkStep ==
  ASSUME IInv, RingInv, [Next]_vars
  PROVE  WatermarkInv'
<1> USE DEF WatermarkInv
<1>0. /\ read_epoch_ \in Nat /\ min_read_epoch \in Nat /\ min12 \in Nat
      /\ re \in [Threads -> 0 .. MaxEpoch] /\ MaxEpoch \in Nat
      /\ deleted \subseteq 0 .. MaxEpoch
  BY EpochsAssumption DEF IInv, TypeOK, TypeManager, TypeAgents, TypeThreads, TypeQueue, Epochs
<1>1. ASSUME read_epoch_' # read_epoch_ PROVE WatermarkInv'
  <2>1. /\ read_epoch_' = read_epoch_ + 1 /\ UNCHANGED <<min_read_epoch, re, deleted>>
    BY <1>1, PublishMoves DEF CommitPublish
  <2> QED
    BY <1>0, <2>1 DEF RingInv
<1>2. ASSUME NEW t \in Threads, ReaderStep(t) PROVE WatermarkInv'
  <2>1. \A u \in Threads : re'[u] \in {re[u], read_epoch_, 0}
    BY <1>0, <1>2 DEF ReaderStep, RegisterROTransaction, LoadReadEpoch, StoreActiveRead,
       VerifyReadEpoch, GuardCapture, LoadVBData, DerefVBData, DeregisterROTransaction
  <2>2. UNCHANGED <<read_epoch_, min_read_epoch, deleted>>
    BY <1>2, ReaderFrame
  <2>3. \A u \in Threads : re[u] <= read_epoch_
    BY DEF RingInv
  <2>4. \A u \in Threads : re'[u] <= read_epoch_
    BY <1>0, <2>1, <2>3
  <2> QED
    BY <2>2, <2>4 DEF RingInv
<1>3. ASSUME ResetMinRead \/ LowerMinRead PROVE WatermarkInv'
  <2>1. min_read_epoch' <= read_epoch_ /\ UNCHANGED <<read_epoch_, re, deleted>>
    BY <1>0, <1>3 DEF ResetMinRead, LowerMinRead, MinOf, RingInv
  <2> QED
    BY <2>1 DEF RingInv
<1>4. ASSUME GC PROVE WatermarkInv'
  <2>1. UNCHANGED <<read_epoch_, re, min_read_epoch>>
    BY <1>4 DEF GC
  <2>2. ASSUME FINEGRAIN, NEW e \in deleted' PROVE e < read_epoch_
    <3>1. CASE e \in deleted
      BY <2>2, <3>1 DEF RingInv
    <3>2. CASE e \notin deleted
      <4>1. PICK i \in Popped : e = vb_que_[i]
        BY <1>4, <2>2, <3>2 DEF GC
      <4>2. i \in 1 .. Len(vb_que_) /\ e < min_read_epoch
        BY <2>2, <4>1 DEF Popped, Collectable
      <4>3. e \in Int
        BY <4>1, <4>2, ElementOfSeq, <1>0 DEF IInv, TypeOK, TypeQueue
      <4> QED
        BY <1>0, <4>2, <4>3 DEF RingInv
    <3> QED
      BY <3>1, <3>2
  <2> QED
    BY <2>1, <2>2 DEF RingInv
<1>5. ASSUME UNCHANGED <<read_epoch_, min_read_epoch, re, deleted>> PROVE WatermarkInv'
  BY <1>5 DEF RingInv
<1>6. ASSUME UpdaterStep PROVE WatermarkInv'
  BY <1>3, <1>4, <1>5, <1>6 DEF UpdaterStep, UpdaterLoop, ScanRead, ResetMin, ScanWriters,
     LowerMin, CommitOrSleep
<1>7. ASSUME NEW t \in Threads, WriterStep(t) PROVE WatermarkInv'
  BY <1>5, <1>7, WriterFrame
<1>8. ASSUME NEW a \in Agents, CommitStep(a), read_epoch_' = read_epoch_ PROVE WatermarkInv'
  BY <1>5, <1>8, CommitFrame
<1>9. ASSUME MainStep PROVE WatermarkInv'
  BY <1>5, <1>9, MainFrame
<1> QED
  BY <1>1, <1>2, <1>5, <1>6, <1>7, <1>8, <1>9 DEF Next

\* The write phase is never opened again.
LEMMA ClosedForGood ==
  ASSUME IInv, [Next]_vars, no_more_txn_
  PROVE  no_more_txn_'
BY WriterFrame, ReaderFrame, UpdaterFrame, CommitFrame
DEF Next, MainStep, CommitManually, NoMoreTxn, FinalizeNoMoreTxn, StopUpdater,
    JoinUpdater, PublishRest

\* registerROTransaction's guarded read of the ring, while the write phase is open.
LEMMA CaptureStep ==
  ASSUME IInv, RingInv, [Next]_vars
  PROVE  CaptureInv'
<1> DEFINE Slots == \A a \in Agents : apc[a] = "c_next" =>
                                        active_txns_[read_epoch_cur_] >= read_epoch_
           Build == \A t \in Threads : pc[t] \in {"r_guard", "r_slot", "r_deref"} => FINEGRAIN
           Good(t) == vbdata_ro[t] > 0 /\ vbdata_ro[t] >= re[t] /\ vbdata_ro[t] \notin deleted
           Got == \A t \in Threads : pc[t] = "r_deref" /\ ~no_more_txn_ => Good(t)
<1>0. /\ read_epoch_ \in Nat /\ cur_ \in Nat /\ min_read_epoch \in Nat
      /\ apc \in [Agents -> CommitPCs \cup UpdaterPCs \cup MainPCs]
      /\ re \in [Threads -> Nat] /\ vbdata_ro \in [Threads -> Nat]
      /\ active_txns_ \in [0 .. MAXSIMULBATCH - 1 -> Nat]
      /\ read_epoch_cur_ \in 0 .. MAXSIMULBATCH - 1
      /\ pc \in [Threads -> {"idle"} \cup WriterPCs \cup ReaderPCs]
  BY EpochsAssumption DEF IInv, TypeOK, TypeManager, TypeAgents, TypeThreads, Epochs
<1>1. Slots'
  <2>1. ASSUME NEW a \in Agents, CommitPublish(a) PROVE Slots'
    <3>1. \A b \in Agents : apc[b] # "c_next"
      BY <2>1, OneCommitter DEF CommitPublish, Committing
    <3>2. active_txns_[read_epoch_cur_] = read_epoch_ + 1
      BY <2>1, <3>1, FirstUnpublished
      DEF CommitPublish, RingInv, CommitterInv, IInv, CommitInv, CommitPCs
    <3> QED
      BY <1>0, <2>1, <3>2 DEF CommitPublish
  <2>2. ASSUME NEW t \in Threads, WriterStep(t) PROVE Slots'
    <3>1. UNCHANGED <<publishVars, apc>>
      BY <2>2, WriterFrame
    <3>2. CASE NewVBData(t)
      <4>1. read_epoch_ < cur[t] /\ cur[t] \in Nat
        BY <3>2 DEF NewVBData, IInv, SafeInv, SafeEpoch, Registered, TypeOK, TypeThreads
      <4>2. \A s \in 0 .. MAXSIMULBATCH - 1 : active_txns_'[s] \in {active_txns_[s], cur[t] + 1}
        BY <1>0, <3>2 DEF NewVBData
      <4>3. ASSUME NEW a \in Agents, apc[a] = "c_next"
            PROVE  active_txns_'[read_epoch_cur_] >= read_epoch_
        <5>1. active_txns_[read_epoch_cur_] >= read_epoch_
          BY <4>3 DEF RingInv, CaptureInv
        <5>2. active_txns_'[read_epoch_cur_] \in {active_txns_[read_epoch_cur_], cur[t] + 1}
          BY <1>0, <4>2
        <5>3. cur[t] + 1 >= read_epoch_
          BY <1>0, <4>1
        <5> QED
          BY <5>1, <5>2, <5>3
      <4> QED
        BY <3>1, <4>3
    <3>3. CASE ~NewVBData(t)
      <4>1. UNCHANGED active_txns_
        BY <2>2, <3>3 DEF WriterStep, RegisterTransaction, LoadCur, AwaitRing, StoreActive,
           VerifyCur, TakeVBData, CheckRoom, CasIsCreate, IncCur, ReleaseIsCreate,
           DeregisterTransaction
      <4> QED
        BY <3>1, <4>1 DEF RingInv, CaptureInv
    <3> QED
      BY <3>2, <3>3
  <2>4. ASSUME UNCHANGED <<ringVars, publishVars>>, NEW a \in Agents, apc'[a] # "c_next",
               \A b \in Agents : b # a => apc'[b] = apc[b]
        PROVE  Slots'
    BY <2>4 DEF RingInv, CaptureInv
  <2>5. ASSUME NEW a \in Agents, CommitNext(a) PROVE Slots'
    <3>1. \A b \in Agents : b # a => apc[b] # "c_next" /\ apc'[b] = apc[b]
      BY <1>0, <2>5, OneCommitter DEF CommitNext, Committing, AGoto
    <3>2. apc'[a] = "c_loop"
      BY <1>0, <2>5 DEF CommitNext, AGoto
    <3> QED
      BY <3>1, <3>2
  <2>6. ASSUME NEW a \in Agents, CommitLock(a) \/ CommitTransform(a) \/ CommitUnlock(a)
        PROVE  Slots'
    <3>1. apc'[a] # "c_next" /\ \A b \in Agents : b # a => apc'[b] = apc[b]
      BY <1>0, <2>6 DEF CommitLock, CommitTransform, CommitUnlock, AGoto, ReturnTo
    <3>2. UNCHANGED <<ringVars, publishVars>>
      BY <2>6 DEF CommitLock, CommitTransform, CommitUnlock
    <3> QED
      BY <2>4, <3>1, <3>2
  <2>7. ASSUME UpdaterStep PROVE Slots'
    <3>1. apc'["updater"] # "c_next" /\ apc'["main"] = apc["main"]
      BY <1>0, <2>7 DEF UpdaterStep, UpdaterLoop, ResetMinRead, ScanRead, LowerMinRead,
         ResetMin, ScanWriters, LowerMin, GC, CommitOrSleep, UpdaterAt, UpdaterGoto, AGoto,
         Agents
    <3> QED
      BY <2>4, <2>7, <3>1, UpdaterFrame DEF Agents
  <2>8. ASSUME MainStep PROVE Slots'
    <3>1. apc'["main"] # "c_next" /\ apc'["updater"] = apc["updater"]
      BY <1>0, <2>8 DEF MainStep, CommitManually, NoMoreTxn, FinalizeNoMoreTxn, StopUpdater,
         JoinUpdater, PublishRest, MainAt, AGoto, Agents
    <3> QED
      BY <2>4, <2>8, <3>1, MainFrame DEF Agents
  <2>9. ASSUME UNCHANGED <<ringVars, publishVars, apc>> PROVE Slots'
    BY <2>9 DEF RingInv, CaptureInv
  <2> QED
    BY <2>1, <2>2, <2>5, <2>6, <2>7, <2>8, <2>9, ReaderFrame DEF Next, CommitStep
<1>2. Build'
  <2>1. ASSUME NEW t \in Threads, ReaderStep(t) PROVE Build'
    <3>1. \A u \in Threads : u # t => pc'[u] = pc[u]
      BY <2>1, ReaderMoves
    <3>2. pc'[t] \in {"r_guard", "r_slot", "r_deref"} => FINEGRAIN
      BY <1>0, <2>1 DEF ReaderStep, RegisterROTransaction, LoadReadEpoch, StoreActiveRead,
         VerifyReadEpoch, GuardCapture, LoadVBData, DerefVBData, DeregisterROTransaction,
         Goto, RingInv, CaptureInv
    <3> QED
      BY <3>1, <3>2 DEF RingInv, CaptureInv
  <2>2. ASSUME NEW t \in Threads, WriterStep(t) PROVE Build'
    BY <2>2, WriterMoves DEF WriterPCs, RingInv, CaptureInv
  <2>3. ASSUME UNCHANGED pc PROVE Build'
    BY <2>3 DEF RingInv, CaptureInv
  <2> QED
    BY <2>1, <2>2, <2>3, UpdaterFrame, CommitFrame, MainFrame DEF Next
<1>3. Got'
  <2>0. ~no_more_txn_' => ~no_more_txn_
    BY ClosedForGood
  <2>1. ASSUME NEW t \in Threads, LoadVBData(t), ~no_more_txn_ PROVE Good(t)'
    <3>1. FINEGRAIN /\ re[t] <= read_epoch_ /\ \A e \in deleted : e < read_epoch_
      BY <2>1 DEF LoadVBData, RingInv, CaptureInv, WatermarkInv
    <3>2. /\ vbdata_ro'[t] = active_txns_[read_epoch_cur_] /\ re'[t] = re[t]
          /\ deleted' = deleted
      BY <1>0, <2>1 DEF LoadVBData
    <3>4. active_txns_[read_epoch_cur_] \in Nat
      BY <1>0
    <3>3. active_txns_[read_epoch_cur_] > 0 /\ active_txns_[read_epoch_cur_] >= read_epoch_
      <4>1. CASE \E a \in Agents : apc[a] = "c_next"
        <5>1. read_epoch_ > 0 /\ active_txns_[read_epoch_cur_] >= read_epoch_
          BY <4>1 DEF RingInv, CaptureInv, CommitterInv
        <5> QED
          BY <1>0, <3>4, <5>1
      <4>2. CASE \A a \in Agents : apc[a] # "c_next"
        <5>1. read_epoch_ + 1 \in read_epoch_ + 1 .. cur_
          BY <1>0, <2>1 DEF IInv, OpenInv
        <5>2. active_txns_[read_epoch_cur_] = read_epoch_ + 1
          BY <4>2, <5>1 DEF RingInv, CommitterInv, RingHoldsUnpublished
        <5> QED
          BY <1>0, <5>2
      <4> QED
        BY <4>1, <4>2
    <3>5. active_txns_[read_epoch_cur_] \notin deleted
      BY <1>0, <3>1, <3>3, <3>4
    <3> QED
      BY <1>0, <3>1, <3>2, <3>3, <3>4, <3>5
  <2>2. ASSUME NEW t \in Threads, ReaderStep(t) PROVE Got'
    <3>1. \A u \in Threads : u # t => pc'[u] = pc[u] /\ re'[u] = re[u]
                                       /\ vbdata_ro'[u] = vbdata_ro[u]
      BY <1>0, <2>2, ReaderMoves DEF ReaderStep, RegisterROTransaction, LoadReadEpoch,
         StoreActiveRead, VerifyReadEpoch, GuardCapture, LoadVBData, DerefVBData,
         DeregisterROTransaction
    <3>2. UNCHANGED <<no_more_txn_, deleted>>
      BY <2>2, ReaderFrame
    <3>3. pc'[t] = "r_deref" => LoadVBData(t)
      BY <1>0, <2>2 DEF ReaderStep, RegisterROTransaction, LoadReadEpoch,
         StoreActiveRead, VerifyReadEpoch, GuardCapture, LoadVBData, DerefVBData,
         DeregisterROTransaction, Goto
    <3> QED
      BY <2>1, <3>1, <3>2, <3>3 DEF RingInv, CaptureInv
  <2>3. ASSUME NEW t \in Threads, WriterStep(t) PROVE Got'
    <3>1. UNCHANGED <<no_more_txn_, readerVars, deleted>>
      BY <2>3, WriterFrame
    <3>2. \A u \in Threads : pc'[u] = "r_deref" => pc[u] = "r_deref"
      BY <2>3, WriterMoves DEF WriterPCs
    <3> QED
      BY <3>1, <3>2 DEF RingInv, CaptureInv
  <2>4. ASSUME GC PROVE Got'
    <3> SUFFICES ASSUME NEW t \in Threads, pc[t] = "r_deref", ~no_more_txn_
                 PROVE  vbdata_ro[t] \notin deleted'
      BY <2>4 DEF GC, RingInv, CaptureInv
    <3>1. Good(t) /\ FINEGRAIN
      BY DEF RingInv, CaptureInv
    <3>2. min_read_epoch <= re[t]
      BY <2>4 DEF GC, UpdaterAt, IInv, PinInv, Pinned
    <3>3. \A i \in Popped : vb_que_[i] < min_read_epoch
      BY <3>1 DEF Popped, Collectable
    <3>4. \A i \in Popped : vb_que_[i] # vbdata_ro[t]
      BY <1>0, <3>1, <3>2, <3>3
    <3> QED
      BY <2>4, <3>1, <3>4 DEF GC
  <2>5. ASSUME UNCHANGED <<pc, readerVars, deleted>> PROVE Got'
    BY <2>0, <2>5 DEF RingInv, CaptureInv
  <2>6. ASSUME UpdaterStep, ~GC PROVE Got'
    BY <2>5, <2>6 DEF UpdaterStep, UpdaterLoop, ResetMinRead, ScanRead, LowerMinRead,
       ResetMin, ScanWriters, LowerMin, CommitOrSleep
  <2> QED
    BY <2>2, <2>3, <2>4, <2>5, <2>6, CommitFrame, MainFrame DEF Next
<1> QED
  BY <1>1, <1>2, <1>3 DEF CaptureInv

\* FinalizeNoMoreTxn: once the updater has been stopped, only the main thread publishes,
\* and it does not return before the open epoch is published.
LEMMA FinalStep ==
  ASSUME IInv, RingInv, [Next]_vars
  PROVE  FinalInv'
<1> USE DEF FinalInv
<1>0. /\ read_epoch_ \in Nat /\ cur_ \in Nat /\ target \in [Agents -> Int]
      /\ apc \in [Agents -> CommitPCs \cup UpdaterPCs \cup MainPCs]
      /\ FinalInv
  BY EpochsAssumption DEF IInv, TypeOK, TypeManager, TypeAgents, RingInv, Epochs
<1>1. ASSUME NEW t \in Threads, WriterStep(t) PROVE FinalInv'
  <2>1. pc[t] \in WriterPCs \/ ~no_more_txn_
    BY <1>1 DEF WriterStep, RegisterTransaction, LoadCur, AwaitRing, StoreActive,
       VerifyCur, TakeVBData, CheckRoom, CasIsCreate, NewVBData, IncCur,
       ReleaseIsCreate, DeregisterTransaction, WriterPCs
  <2>2. ~no_more_txn_
    BY <2>1 DEF IInv, CommitInv
  <2>3. ~stopped /\ apc["main"] \notin {"m_join", "m_finalize", "m_done"}
    BY <1>0, <2>2
  <2> QED
    BY <1>1, <2>3, WriterFrame
<1>2. ASSUME UNCHANGED <<flagVars, apc, target, cur_, read_epoch_>> PROVE FinalInv'
  BY <1>0, <1>2
<1>3. ASSUME apc["updater"] # "u_done", apc'["main"] = apc["main"], UNCHANGED flagVars
      PROVE  FinalInv'
  <2>1. ~stopped \/ apc["main"] = "m_join"
    BY <1>0, <1>3
  <2>2. stopped => no_more_txn_ /\ apc["main"] = "m_join"
    BY <1>0, <2>1
  <2>3. apc["main"] # "m_done"
    BY <1>0, <2>1
  <2> QED
    BY <1>0, <1>3, <2>2, <2>3 DEF CommitPCs
<1>4. ASSUME UpdaterStep PROVE FinalInv'
  <2>1. apc["updater"] # "u_done" /\ apc'["main"] = apc["main"]
    BY <1>0, <1>4 DEF UpdaterStep, UpdaterLoop, ResetMinRead, ScanRead, LowerMinRead,
       ResetMin, ScanWriters, LowerMin, GC, CommitOrSleep, UpdaterAt, UpdaterGoto, AGoto,
       Agents
  <2> QED
    BY <1>3, <1>4, <2>1, UpdaterFrame
<1>5. ASSUME CommitStep("updater") PROVE FinalInv'
  <2>1. apc["updater"] # "u_done" /\ apc'["main"] = apc["main"] /\ UNCHANGED flagVars
    BY <1>0, <1>5 DEF CommitStep, CommitLock, CommitTransform, CommitPublish, CommitNext,
       CommitUnlock, AGoto, Agents
  <2> QED
    BY <1>3, <2>1
<1>6. ASSUME CommitStep("main") PROVE FinalInv'
  <2>0. /\ UNCHANGED <<flagVars, cur_>> /\ apc'["updater"] = apc["updater"]
        /\ apc["main"] \in CommitPCs
    BY <1>0, <1>6 DEF CommitStep, CommitLock, CommitTransform, CommitPublish, CommitNext,
       CommitUnlock, AGoto, Agents, CommitPCs
  <2>1. CASE ~CommitUnlock("main")
    <3>1. apc'["main"] \in CommitPCs /\ target' = target
      BY <1>0, <1>6, <2>1 DEF CommitStep, CommitLock, CommitTransform, CommitPublish,
         CommitNext, AGoto, Agents, CommitPCs
    <3> QED
      BY <1>0, <2>0, <3>1 DEF CommitPCs
  <2>2. CASE CommitUnlock("main")
    <3>1. apc'["main"] = (IF stopped THEN "m_done" ELSE "m_idle") /\ read_epoch_' = read_epoch_
      BY <1>0, <2>2 DEF CommitUnlock, AGoto, ReturnTo, Agents
    <3>2. stopped => read_epoch_ = cur_
      <4>1. stopped => target["main"] = cur_ + 1 /\ no_more_txn_
        BY <1>0, <2>0
      <4>2. ~(read_epoch_ + 1 < target["main"])
        BY <2>2 DEF CommitUnlock, MoreToPublish
      <4>3. no_more_txn_ => read_epoch_ < cur_ + 1
        BY DEF IInv, OpenInv
      <4> QED
        BY <1>0, <4>1, <4>2, <4>3
    <3>3. stopped => apc["updater"] = "u_done"
      BY <1>0, <2>0 DEF CommitPCs
    <3> QED
      BY <1>0, <2>0, <3>1, <3>2, <3>3 DEF CommitPCs
  <2> QED
    BY <2>1, <2>2
<1>7. ASSUME MainStep PROVE FinalInv'
  <2>0. UNCHANGED <<cur_, read_epoch_>>
    BY <1>7, MainFrame
  <2>1. ASSUME NEW e \in Epochs, CommitManually(e) PROVE FinalInv'
    <3>1. ~stopped /\ ~stopped' /\ apc'["main"] = "c_lock"
      BY <1>0, <2>1 DEF CommitManually, MainAt, AGoto, Agents, CommitPCs
    <3> QED
      BY <3>1
  <2>2. ASSUME NoMoreTxn PROVE FinalInv'
    <3>1. ~stopped /\ ~stopped' /\ apc'["main"] = "m_idle"
      BY <1>0, <2>2 DEF NoMoreTxn, MainAt, CommitPCs
    <3> QED
      BY <3>1
  <2>3. ASSUME FinalizeNoMoreTxn PROVE FinalInv'
    <3>1. ~stopped /\ ~stopped' /\ apc'["main"] = "m_stop"
      BY <1>0, <2>3 DEF FinalizeNoMoreTxn, MainAt, AGoto, Agents, CommitPCs
    <3> QED
      BY <3>1
  <2>4. ASSUME StopUpdater PROVE FinalInv'
    <3>1. stopped' /\ no_more_txn_' /\ apc'["main"] = "m_join"
      BY <1>0, <2>4 DEF StopUpdater, MainAt, AGoto, Agents, IInv, CommitInv
    <3> QED
      BY <3>1 DEF CommitPCs
  <2>5. ASSUME JoinUpdater PROVE FinalInv'
    <3>1. /\ stopped' /\ no_more_txn_' /\ apc'["main"] = "m_finalize"
          /\ apc'["updater"] = "u_done"
      BY <1>0, <2>5 DEF JoinUpdater, UpdaterAt, MainAt, AGoto, Agents
    <3> QED
      BY <3>1 DEF CommitPCs
  <2>6. ASSUME PublishRest PROVE FinalInv'
    <3>1. stopped' /\ no_more_txn_' /\ apc'["updater"] = "u_done"
      BY <1>0, <2>6 DEF PublishRest, MainAt, AGoto, Agents
    <3>2. CASE read_epoch_ + 1 < FinalizeTarget
      BY <1>0, <2>0, <2>6, <3>1, <3>2
      DEF PublishRest, FinalizeTarget, AGoto, Agents, CommitPCs
    <3>3. CASE ~(read_epoch_ + 1 < FinalizeTarget)
      <4>1. apc'["main"] = "m_done"
        BY <1>0, <2>6, <3>3 DEF PublishRest, AGoto, Agents
      <4>2. read_epoch_ < cur_ + 1
        BY <1>0, <2>6 DEF PublishRest, MainAt, IInv, OpenInv
      <4>3. read_epoch_' = cur_'
        BY <1>0, <2>0, <3>3, <4>2 DEF FinalizeTarget
      <4> QED
        BY <3>1, <4>1, <4>3 DEF CommitPCs
    <3> QED
      BY <3>2, <3>3
  <2> QED
    BY <1>7, <2>1, <2>2, <2>3, <2>4, <2>5, <2>6 DEF MainStep
<1> QED
  BY <1>1, <1>2, <1>4, <1>5, <1>6, <1>7, ReaderFrame DEF Next, Agents

-----------------------------------------------------------------------------
(* RingInv holds always, and what follows from it.                         *)

\* The constructor: one VBData, in the slot of the open epoch 1.
LEMMA RingInit == Init => RingInv
<1> SUFFICES ASSUME Init PROVE RingInv
  OBVIOUS
<1> USE EpochsAssumption
<1>1. RingHoldsUnpublished
  BY SlotInRing DEF Init, RingHoldsUnpublished, Slot
<1>2. RoomInv /\ TakenInv
  BY DEF Init, RoomInv, TakenInv, Registered
<1>3. CommitterInv /\ FinalInv
  BY DEF Init, CommitterInv, FinalInv, CommitPCs, Agents, Slot
<1>4. PublishedOnceInOrder
  <2>1. deleted = 1 .. 0 /\ Len(vb_que_) = 0 /\ 0 \in 0 .. MaxEpoch
    BY DEF Init
  <2>2. (\A a \in Agents : apc[a] # "c_publish") /\ read_epoch_ = 0
    BY DEF Init, Agents
  <2> QED
    BY <2>1, <2>2 DEF PublishedOnceInOrder
<1>5. WatermarkInv /\ CaptureInv
  BY DEF Init, WatermarkInv, CaptureInv, Agents
<1> QED
  BY <1>1, <1>2, <1>3, <1>4, <1>5 DEF RingInv

\* What the ring, GC's queue and the finalizing main thread hold is kept by every
\* step of every thread.
THEOREM RingInvariance == Spec => []RingInv
<1>1. IInv /\ RingInv /\ [Next]_vars => RingInv'
  BY RingStep, TakenStep, CommitterStep, QueueStep, WatermarkStep, CaptureStep,
     FinalStep DEF RingInv
<1> QED
  BY Invariance, RingInit, <1>1, PTL DEF Spec

\* registerTransaction never overwrites the VBData of an epoch that is still to be
\* published, for any ring and any number of concurrent openers.
THEOREM RingKept == Spec => []RingHoldsUnpublished
<1>1. RingInv => RingHoldsUnpublished
  BY DEF RingInv
<1> QED
  BY RingInvariance, <1>1, PTL

\* commitVersionBlock hands every epoch to GC's queue once and in order.
THEOREM QueueInOrder == Spec => []PublishedOnceInOrder
<1>1. RingInv => PublishedOnceInOrder
  BY DEF RingInv
<1> QED
  BY RingInvariance, <1>1, PTL

\* The VBData that registerTransaction returns is the one of the writer's epoch and
\* GC does not delete it before deregisterTransaction.
THEOREM VBDataOwned == Spec => []WriterOwnsVBData
<1>1. IInv /\ RingInv /\ PublishedEpochsQuiescent => WriterOwnsVBData
  <2> SUFFICES ASSUME IInv, RingInv, PublishedEpochsQuiescent,
                      NEW t \in Threads, Registered(t), pc[t] # "w_take"
               PROVE  vb_data[t] = cur[t] /\ vb_data[t] \notin deleted
    BY DEF WriterOwnsVBData
  <2>1. vb_data[t] = cur[t]
    BY DEF RingInv, TakenInv
  <2>2. PICK k \in 0 .. MaxEpoch :
          /\ deleted = 1 .. k
          /\ k + Len(vb_que_) = read_epoch_ +
               (IF \E a \in Agents : apc[a] = "c_publish" THEN 1 ELSE 0)
    BY DEF RingInv, PublishedOnceInOrder
  <2>3. cur[t] \in Nat /\ read_epoch_ \in Nat /\ Len(vb_que_) \in Nat /\ k \in Nat
    BY EpochsAssumption, LenProperties
    DEF IInv, TypeOK, TypeThreads, TypeManager, TypeQueue
  <2>4. /\ cur[t] > read_epoch_
        /\ (\E a \in Agents : apc[a] = "c_publish") => cur[t] > read_epoch_ + 1
    BY DEF PublishedEpochsQuiescent
  <2>5. k < cur[t]
    BY <2>2, <2>3, <2>4
  <2> QED
    BY <2>1, <2>2, <2>3, <2>5
<1> QED
  BY Invariance, RingInvariance, Quiescence, <1>1, PTL

\* registerROTransaction dereferences a constructed and not deleted VBData as long as
\* the write phase is open.
THEOREM CapturesLive == Spec => []CaptureLiveWhileOpen
<1>1. IInv /\ RingInv => CaptureLiveWhileOpen
  BY DEF IInv, TypeOK, TypeThreads, RingInv, CaptureInv, CaptureLiveWhileOpen, CaptureLive
<1> QED
  BY Invariance, RingInvariance, <1>1, PTL

\* registerROTransaction retries only after another publication: the watermark that
\* turns a reader away was itself copied from read_epoch_.
THEOREM RetriesProgress == Spec => ReaderRetryProgresses
<1>1. IInv /\ RingInv /\ [Next]_vars => [RetriesNewer]_vars
  <2> SUFFICES ASSUME IInv, RingInv, Next,
                      NEW t \in Threads, pc[t] = "r_verify", pc'[t] = "r_load"
               PROVE  re[t] < read_epoch_
    BY DEF RetriesNewer
  <2>1. /\ read_epoch_ \in Nat /\ min_read_epoch \in Nat /\ re[t] \in Nat
        /\ min_read_epoch <= read_epoch_
    BY EpochsAssumption
    DEF IInv, TypeOK, TypeManager, TypeThreads, Epochs, RingInv, WatermarkInv
  <2>2. pc' # pc /\ pc'[t] # pc[t] /\ pc[t] \notin WriterPCs \cup {"idle"}
    BY DEF WriterPCs
  <2>3. PICK u \in Threads : WriterStep(u) \/ ReaderStep(u)
    BY <2>2, UpdaterFrame, CommitFrame, MainFrame DEF Next
  <2>4. ~WriterStep(u) /\ u = t
    BY <2>2, <2>3, WriterMoves, ReaderMoves
  <2>5. VerifyReadEpoch(t)
    BY <2>3, <2>4
    DEF ReaderStep, RegisterROTransaction, LoadReadEpoch, StoreActiveRead, GuardCapture,
        LoadVBData, DerefVBData, DeregisterROTransaction
  <2>6. re[t] < min_read_epoch
    BY <2>5 DEF VerifyReadEpoch, Goto, IInv, TypeOK, TypeThreads
  <2> QED
    BY <2>1, <2>6
<1> QED
  BY Invariance, RingInvariance, <1>1, PTL DEF Spec, ReaderRetryProgresses

\* When FinalizeNoMoreTxn returns, the open epoch is published and the background
\* thread has gone.
THEOREM FinalizeComplete == Spec => []FinalizePublishesAll
<1>1. RingInv => FinalizePublishesAll
  BY DEF RingInv, FinalInv, FinalizePublishesAll
<1> QED
  BY RingInvariance, <1>1, PTL

-----------------------------------------------------------------------------
(* EpochManager implements EpochProtocol.                                  *)

\* A step that leaves the labels, the epochs of the writers, cur_, read_epoch_ and
\* no_more_txn_ alone is a stutter of the protocol.
LEMMA Stutters ==
  ASSUME UNCHANGED <<cur_, read_epoch_, no_more_txn_>>,
         \A t \in Threads : /\ Registered(t)' <=> Registered(t)
                            /\ Registered(t) => cur'[t] = cur[t]
  PROVE  UNCHANGED Protocol!vars
BY DEF Protocol!vars

\* What registerTransaction and deregisterTransaction do is, seen from outside, to
\* join the open epoch, to open the next one or to leave.
LEMMA WriterImplements ==
  ASSUME IInv, RingInv, NEW t \in Threads, WriterStep(t)
  PROVE  [Protocol!Next]_(Protocol!vars)
<1> DEFINE mem == [u \in Threads |-> IF Registered(u) THEN cur[u] ELSE 0]
<1>0. /\ cur \in [Threads -> Nat] /\ cur_ \in Nat /\ read_epoch_ \in Nat
      /\ pc \in [Threads -> {"idle"} \cup WriterPCs \cup ReaderPCs]
  BY EpochsAssumption DEF IInv, TypeOK, TypeThreads, TypeManager
<1>1. UNCHANGED <<read_epoch_, no_more_txn_>>
  BY WriterFrame
<1>2. \A u \in Threads : u # t => pc'[u] = pc[u] /\ cur'[u] = cur[u]
  BY WriterMoves
<1>3. CASE VerifyCur(t) /\ StillOpen(t)
  <2>1. ~no_more_txn_ /\ ~Registered(t) /\ UNCHANGED <<cur_, cur>>
    BY <1>3 DEF VerifyCur, IInv, CommitInv, WriterPCs, Registered
  <2>2. pc'[t] = "w_take" /\ cur[t] = cur_
    BY <1>0, <1>3 DEF VerifyCur, Goto, StillOpen
  <2>3. mem[t] = 0 /\ mem' = [mem EXCEPT ![t] = cur_]
    BY <1>2, <2>1, <2>2 DEF Registered
  <2>4. Protocol!Join(t)
    BY <1>1, <2>1, <2>3 DEF Protocol!Join
  <2> QED
    BY <2>4 DEF Protocol!Next
<1>4. CASE DeregisterTransaction(t)
  <2>1. Registered(t) /\ cur[t] # 0 /\ cur_' = cur_
    BY <1>0, <1>4 DEF DeregisterTransaction, IInv, WriterInv, WriterPCs, Registered
  <2>2. pc'[t] = "idle"
    BY <1>0, <1>4 DEF DeregisterTransaction, Goto
  <2>3. mem[t] # 0 /\ mem' = [mem EXCEPT ![t] = 0]
    BY <1>2, <2>1, <2>2 DEF Registered
  <2>4. Protocol!Leave(t)
    BY <1>1, <2>1, <2>3 DEF Protocol!Leave
  <2> QED
    BY <2>4 DEF Protocol!Next
<1>5. CASE IncCur(t)
  <2>1. Registered(t) /\ cur[t] = cur_ /\ cur_ - read_epoch_ < MAXSIMULBATCH
    BY <1>5 DEF IncCur, IInv, CreateInv, RingInv, RoomInv, Registered
  <2>2. cur_' = cur_ + 1 /\ UNCHANGED cur /\ pc'[t] = "w_release"
    BY <1>0, <1>5 DEF IncCur, Goto
  <2>3. mem' = mem /\ mem[t] = cur_
    BY <1>2, <2>1, <2>2 DEF Registered
  <2>4. Protocol!Open
    BY <1>1, <2>1, <2>2, <2>3 DEF Protocol!Open
  <2> QED
    BY <2>4 DEF Protocol!Next
<1>6. CASE ~(VerifyCur(t) /\ StillOpen(t)) /\ ~DeregisterTransaction(t) /\ ~IncCur(t)
  <2>1. cur_' = cur_
    BY <1>6 DEF WriterStep, RegisterTransaction, LoadCur, AwaitRing, StoreActive,
       VerifyCur, TakeVBData, CheckRoom, CasIsCreate, NewVBData, ReleaseIsCreate
  <2>2. /\ Registered(t)' <=> Registered(t)
        /\ Registered(t) => cur'[t] = cur[t]
    BY <1>0, <1>6 DEF WriterStep, RegisterTransaction, LoadCur, AwaitRing, StoreActive,
       VerifyCur, TakeVBData, CheckRoom, CasIsCreate, NewVBData, ReleaseIsCreate,
       Goto, Registered
  <2>3. \A u \in Threads : /\ Registered(u)' <=> Registered(u)
                           /\ Registered(u) => cur'[u] = cur[u]
    BY <1>2, <2>2 DEF Registered
  <2> QED
    BY <1>1, <2>1, <2>3, Stutters
<1> QED
  BY <1>3, <1>4, <1>5, <1>6

\* commitVersionBlock publishes the next epoch, when nobody writes in it any more.
LEMMA PublishImplements ==
  ASSUME IInv, NEW a \in Agents, CommitPublish(a)
  PROVE  Protocol!Next
<1>1. read_epoch_ \in Nat /\ cur_ \in Nat /\ target[a] \in Int
  BY EpochsAssumption DEF IInv, TypeOK, TypeManager, TypeAgents, Epochs
<1>2. read_epoch_ + 1 < target[a] /\ target[a] <= IF no_more_txn_ THEN cur_ + 1 ELSE cur_
  BY DEF CommitPublish, IInv, CommitInv, OpenInv, CommitPCs
<1>3. IF no_more_txn_ THEN read_epoch_ < cur_ ELSE read_epoch_ + 1 < cur_
  BY <1>1, <1>2
<1>4. ASSUME NEW t \in Threads, Registered(t) PROVE cur[t] # read_epoch_ + 1
  <2>1. target[a] <= cur[t] /\ cur[t] \in Int
    BY <1>4 DEF CommitPublish, IInv, SafeInv, SafeEpoch, CommitPCs, TypeOK, TypeThreads
  <2> QED
    BY <1>1, <1>2, <2>1
<1>5. \A t \in Threads : (IF Registered(t) THEN cur[t] ELSE 0) # read_epoch_ + 1
  BY <1>1, <1>4
<1>6. /\ read_epoch_' = read_epoch_ + 1 /\ UNCHANGED <<cur_, no_more_txn_, pc, cur>>
  BY DEF CommitPublish
<1>7. Protocol!Publish
  BY <1>3, <1>5, <1>6 DEF Protocol!Publish, Registered
<1> QED
  BY <1>7 DEF Protocol!Next

\* NoMoreTxn and FinalizeNoMoreTxn close the write phase once all writers have left.
LEMMA CloseImplements ==
  ASSUME IInv, NoMoreTxn \/ FinalizeNoMoreTxn
  PROVE  Protocol!Next
<1>1. \A t \in Threads : ~Registered(t)
  BY DEF NoMoreTxn, FinalizeNoMoreTxn, WritersJoined, WriterPCs, Registered
<1>2. no_more_txn_' = TRUE /\ UNCHANGED <<cur_, read_epoch_, pc, cur>>
  BY DEF NoMoreTxn, FinalizeNoMoreTxn
<1>3. Protocol!Close
  BY <1>1, <1>2 DEF Protocol!Close, Registered
<1> QED
  BY <1>3 DEF Protocol!Next

\* AllVBManager, with its slots, scans, ring and background thread, promises no less
\* than EpochProtocol: writers join only the open epoch, epochs are opened and
\* published one by one, and none is published while somebody may write in it.
THEOREM Refinement == Spec => ImplementsProtocol
<1>1. Init => Protocol!Init
  BY DEF Init, Protocol!Init, Registered
<1>2. IInv /\ RingInv /\ [Next]_vars => [Protocol!Next]_(Protocol!vars)
  <2> SUFFICES ASSUME IInv, RingInv, [Next]_vars
               PROVE  [Protocol!Next]_(Protocol!vars)
    OBVIOUS
  <2> DEFINE Same == UNCHANGED <<cur_, read_epoch_, no_more_txn_, pc, cur>>
  <2>1. ASSUME Same PROVE [Protocol!Next]_(Protocol!vars)
    BY <2>1, Stutters DEF Registered
  <2>2. ASSUME NEW t \in Threads, ReaderStep(t) PROVE [Protocol!Next]_(Protocol!vars)
    <3>1. \A u \in Threads : Registered(u)' <=> Registered(u)
      BY <2>2, ReaderMoves DEF Registered, ReaderPCs
    <3> QED
      BY <2>2, <3>1, ReaderFrame, Stutters
  <2>3. ASSUME NEW a \in Agents, CommitStep(a) PROVE CommitPublish(a) \/ Same
    BY <2>3, CommitFrame DEF CommitStep, CommitLock, CommitTransform, CommitNext,
       CommitUnlock
  <2>4. ASSUME MainStep PROVE NoMoreTxn \/ FinalizeNoMoreTxn \/ Same
    BY <2>4, MainFrame DEF MainStep, CommitManually, StopUpdater, JoinUpdater, PublishRest
  <2> QED
    BY <2>1, <2>2, <2>3, <2>4, WriterImplements, PublishImplements, CloseImplements,
       UpdaterFrame DEF Next
<1> QED
  BY Invariance, RingInvariance, <1>1, <1>2, PTL DEF Spec, ImplementsProtocol, Protocol!Spec
=============================================================================
