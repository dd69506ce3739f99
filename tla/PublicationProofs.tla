------------------------- MODULE PublicationProofs -------------------------
(***************************************************************************)
(* Machine-checked proofs about Publication: every claim here holds for    *)
(* any number of processes, destinations and payloads.                     *)
(***************************************************************************)
EXTENDS Publication, TLAPS

\* A removal of a staging root, finished or not, preserves the types.
LEMMA RemovalTypes ==
  ASSUME TypeOK, NEW d \in Dests,
         RemoveStaging(d) \/ RemoveStagingPartly(d) \/ UNCHANGED stagingVars
  PROVE  /\ entries' \in [Dests -> SUBSET {"root", "tables", "tmp"}]
         /\ txn' \in [Dests -> Phases]
         /\ txnFp' \in [Dests -> Payloads \cup {Partial, None}]
         /\ staged' \in [Dests -> Payloads \cup {Partial, None}]
<1>1. CASE RemoveStaging(d)
  BY <1>1 DEF RemoveStaging, TypeOK, Phases
<1>2. CASE RemoveStagingPartly(d)
  <2>1. entries' \in [Dests -> SUBSET {"root", "tables", "tmp"}]
    <3>1. entries \in [Dests -> SUBSET {"root", "tables", "tmp"}]
      BY DEF TypeOK
    <3>2. PICK rest \in SUBSET entries[d] : entries' = [entries EXCEPT ![d] = rest]
      BY <1>2 DEF RemoveStagingPartly
    <3>3. rest \in SUBSET {"root", "tables", "tmp"}
      BY ONLY <3>1, <3>2
    <3> QED
      BY ONLY <3>1, <3>2, <3>3
  <2>2. txn' \in [Dests -> Phases] /\ txnFp' \in [Dests -> Payloads \cup {Partial, None}]
    BY <1>2 DEF RemoveStagingPartly, TypeOK, Phases
  <2>3. staged' \in [Dests -> Payloads \cup {Partial, None}]
    BY <1>2 DEF RemoveStagingPartly, TypeOK
  <2> QED
    BY <2>1, <2>2, <2>3
<1>3. CASE UNCHANGED stagingVars
  BY <1>3 DEF stagingVars, TypeOK
<1> QED
  BY <1>1, <1>2, <1>3

\* Every step of every process and of the environment preserves the types.
LEMMA TypeStep == TypeOK /\ [Next]_vars => TypeOK'
<1> SUFFICES ASSUME TypeOK, [Next]_vars PROVE TypeOK'
  OBVIOUS
<1> USE SentinelsDistinct DEF TypeOK, vaultVars, stagingVars, residueVars, endVars, ghosts
<1> USE DEF Goto, Advance, RaiseTo, Raise, Refuse, WithFlag, TxnFails, Orphan, ForgetLocals,
        Points, LockPoints, LeasePoints, Classifying, Building, Exposing, Handling,
        Leaving, Phases, Errors, Outcomes, Flags
<1>0. CASE UNCHANGED vars
  BY <1>0 DEF vars
<1>1. ASSUME NEW p \in Procs, OpenVault(p) PROVE TypeOK'
  BY <1>1 DEF OpenVault
<1>2. ASSUME NEW p \in Procs, Lock(p) PROVE TypeOK'
  BY <1>2 DEF Lock
<1>3. ASSUME NEW p \in Procs, ClassifyNew(p) PROVE TypeOK'
  BY <1>3 DEF ClassifyNew
<1>4. ASSUME NEW p \in Procs, ClassifyStarted(p) PROVE TypeOK'
  BY <1>4 DEF ClassifyStarted
<1>5. ASSUME NEW p \in Procs, ClassifyCompleted(p) PROVE TypeOK'
  BY <1>5 DEF ClassifyCompleted
<1>6. ASSUME NEW p \in Procs, Reconcile(p) PROVE TypeOK'
  <2>1. tgt[p] \in Dests
    OBVIOUS
  <2>2. RemoveStaging(tgt[p]) \/ RemoveStagingPartly(tgt[p]) \/ UNCHANGED stagingVars
    BY ONLY <1>6 DEF Reconcile
  <2>3. /\ entries' \in [Dests -> SUBSET {"root", "tables", "tmp"}] /\ txn' \in [Dests -> Phases]
         /\ txnFp' \in [Dests -> Payloads \cup {Partial, None}]
         /\ staged' \in [Dests -> Payloads \cup {Partial, None}]
    BY <2>1, <2>2, RemovalTypes
  <2> QED
    BY ONLY <1>6, <2>3, TypeOK, p \in Procs
       DEF Reconcile, TypeOK, vaultVars, residueVars, endVars, ghosts, Goto, Advance, RaiseTo,
           Refuse, Orphan, ForgetLocals, Points, LockPoints, LeasePoints, Classifying, Building,
           Exposing, Handling, Leaving, Errors, Outcomes, Flags
<1>7. ASSUME NEW p \in Procs, Reuse(p) PROVE TypeOK'
  BY <1>7 DEF Reuse
<1>8. ASSUME NEW p \in Procs, Fresh(p) PROVE TypeOK'
  BY <1>8 DEF Fresh
<1>9. ASSUME NEW p \in Procs, AcquireLease(p) PROVE TypeOK'
  BY <1>9 DEF AcquireLease
<1>10. ASSUME NEW p \in Procs, BeginOperation(p) PROVE TypeOK'
  BY <1>10 DEF BeginOperation
<1>11. ASSUME NEW p \in Procs, CreateRoot(p) PROVE TypeOK'
  BY <1>11 DEF CreateRoot
<1>12. ASSUME NEW p \in Procs, CreateDirectories(p) PROVE TypeOK'
  BY <1>12 DEF CreateDirectories
<1>13. ASSUME NEW p \in Procs, WriteTemporary(p) PROVE TypeOK'
  BY <1>13 DEF WriteTemporary, RecordPoints
<1>14. ASSUME NEW p \in Procs, ReplaceRecord(p) PROVE TypeOK'
  BY SMTT(40), <1>14 DEF ReplaceRecord, RecordPoints, PhaseAt, AfterPhase
<1>15. ASSUME NEW p \in Procs, CreateSpool(p) PROVE TypeOK'
  BY SMTT(40), <1>15 DEF CreateSpool
<1>16. ASSUME NEW p \in Procs, PassOne(p) PROVE TypeOK'
  BY <1>16 DEF PassOne
<1>17. ASSUME NEW p \in Procs, CreateEvidence(p) PROVE TypeOK'
  BY <1>17 DEF CreateEvidence
<1>18. ASSUME NEW p \in Procs, PassTwo(p) PROVE TypeOK'
  BY <1>18 DEF PassTwo
<1>19. ASSUME NEW p \in Procs, RebuildIndexes(p) PROVE TypeOK'
  BY <1>19 DEF RebuildIndexes
<1>20. ASSUME NEW p \in Procs, FingerprintStaged(p) PROVE TypeOK'
  BY <1>20 DEF FingerprintStaged
<1>21. ASSUME NEW p \in Procs, RecordStaged(p) PROVE TypeOK'
  BY SMTT(40), <1>21 DEF RecordStaged
<1>22. ASSUME NEW p \in Procs, PersistPayload(p) PROVE TypeOK'
  BY <1>22 DEF PersistPayload
<1>23. ASSUME NEW p \in Procs, PromoteCheck(p) PROVE TypeOK'
  BY <1>23 DEF PromoteCheck
<1>24. ASSUME NEW p \in Procs, Rename(p) PROVE TypeOK'
  BY SMTT(40), <1>24 DEF Rename
<1>25. ASSUME NEW p \in Procs, SyncRename(p) PROVE TypeOK'
  BY <1>25 DEF SyncRename
<1>26. ASSUME NEW p \in Procs, CompleteOperation(p) PROVE TypeOK'
  <2>1. /\ op' \in [Dests -> {"none", "STARTED", "COMPLETED"}]
        /\ opFp' \in [Dests -> Payloads \cup {Partial, None}]
        /\ pub' \in [Dests -> SUBSET {"STAGED", "PUBLISHED"}]
    BY <1>26 DEF CompleteOperation
  <2>2. pc' \in [Procs -> Points] /\ err' \in [Procs -> Errors] /\ flags' \in [Procs -> SUBSET Flags]
    BY <1>26 DEF CompleteOperation
  <2> QED
    BY <1>26, <2>1, <2>2 DEF CompleteOperation
<1>27. ASSUME NEW p \in Procs, RemoveTables(p) PROVE TypeOK'
  BY <1>27 DEF RemoveTables
<1>28. ASSUME NEW p \in Procs, RemoveRecord(p) PROVE TypeOK'
  BY <1>28 DEF RemoveRecord
<1>29. ASSUME NEW p \in Procs, RemoveRoot(p) PROVE TypeOK'
  BY <1>29 DEF RemoveRoot
<1>30. ASSUME NEW p \in Procs, CleanupStaging(p) PROVE TypeOK'
  <2>1. tgt[p] \in Dests
    OBVIOUS
  <2>2. RemoveStaging(tgt[p]) \/ RemoveStagingPartly(tgt[p]) \/ UNCHANGED stagingVars
    BY ONLY <1>30 DEF CleanupStaging
  <2>3. /\ entries' \in [Dests -> SUBSET {"root", "tables", "tmp"}] /\ txn' \in [Dests -> Phases]
         /\ txnFp' \in [Dests -> Payloads \cup {Partial, None}]
         /\ staged' \in [Dests -> Payloads \cup {Partial, None}]
    BY <2>1, <2>2, RemovalTypes
  <2>4. pc' \in [Procs -> Points] /\ err' \in [Procs -> Errors] /\ outcome' = outcome
    BY ONLY <1>30, TypeOK, p \in Procs
       DEF CleanupStaging, TypeOK, endVars, Goto, Advance, RaiseTo, Points, LockPoints,
           LeasePoints, Handling, Errors
  <2> QED
    BY ONLY <1>30, <2>3, <2>4, TypeOK
       DEF CleanupStaging, TypeOK, vaultVars, residueVars, ghosts
<1>31. ASSUME NEW p \in Procs, CleanupEvidence(p) PROVE TypeOK'
  BY <1>31 DEF CleanupEvidence
<1>32. ASSUME NEW p \in Procs, AbandonOperation(p) PROVE TypeOK'
  <2>1. /\ op' \in [Dests -> {"none", "STARTED", "COMPLETED"}]
        /\ pub' \in [Dests -> SUBSET {"STAGED", "PUBLISHED"}]
    BY <1>32 DEF AbandonOperation
  <2>2. pc' \in [Procs -> Points] /\ err' \in [Procs -> Errors] /\ flags' \in [Procs -> SUBSET Flags]
    BY <1>32 DEF AbandonOperation
  <2> QED
    BY <1>32, <2>1, <2>2 DEF AbandonOperation
<1>33. ASSUME NEW p \in Procs, ReleaseLease(p) PROVE TypeOK'
  BY <1>33 DEF ReleaseLease
<1>34. ASSUME NEW p \in Procs, Unlock(p) PROVE TypeOK'
  BY <1>34 DEF Unlock
<1>35. ASSUME NEW p \in Procs, CleanupSpool(p) PROVE TypeOK'
  BY <1>35 DEF CleanupSpool
<1>36. ASSUME NEW p \in Procs, VerifySpool(p) PROVE TypeOK'
  BY <1>36 DEF VerifySpool
<1>37. ASSUME NEW p \in Procs, CloseVault(p) PROVE TypeOK'
  BY <1>37 DEF CloseVault, Verdict
<1>38. ASSUME NEW p \in Procs, Crash(p) PROVE TypeOK'
  <2>1. tgt[p] \in Dests
    OBVIOUS
  <2>2. RemoveStaging(tgt[p]) \/ RemoveStagingPartly(tgt[p]) \/ UNCHANGED stagingVars
    BY ONLY <1>38 DEF Crash
  <2>3. /\ entries' \in [Dests -> SUBSET {"root", "tables", "tmp"}] /\ txn' \in [Dests -> Phases]
         /\ txnFp' \in [Dests -> Payloads \cup {Partial, None}]
         /\ staged' \in [Dests -> Payloads \cup {Partial, None}]
    BY <2>1, <2>2, RemovalTypes
  <2> QED
    BY ONLY <1>38, <2>3, TypeOK, p \in Procs
       DEF Crash, TypeOK, vaultVars, residueVars, endVars, ghosts, Goto, Advance, RaiseTo,
           Refuse, Orphan, ForgetLocals, Points, LockPoints, LeasePoints, Classifying, Building,
           Exposing, Handling, Leaving, Errors, Outcomes, Flags
<1>39. ASSUME NEW p \in Procs, NEW d \in Dests, Start(p, d) PROVE TypeOK'
  BY <1>39 DEF Start
<1>40. ASSUME NEW d \in Dests, UserChange(d) PROVE TypeOK'
  BY <1>40 DEF UserChange
<1> QED
  BY <1>0, <1>1, <1>2, <1>3, <1>4, <1>5, <1>6, <1>7, <1>8, <1>9, <1>10, <1>11, <1>12, <1>13, <1>14, <1>15, <1>16, <1>17, <1>18, <1>19, <1>20, <1>21, <1>22, <1>23, <1>24, <1>25, <1>26, <1>27, <1>28, <1>29, <1>30, <1>31, <1>32, <1>33, <1>34, <1>35, <1>36, <1>37, <1>38, <1>39, <1>40 DEF Next, Step

(***************************************************************************)
(* Frames: a process touches its own local state and its own destination.  *)
(***************************************************************************)
LocalFrame(q) ==
  pc'[q] = pc[q] /\ tgt'[q] = tgt[q] /\ flags'[q] = flags[q] /\ fp'[q] = fp[q]

DestFrame(d) ==
  /\ op'[d] = op[d] /\ opFp'[d] = opFp[d] /\ pub'[d] = pub[d]
  /\ entries'[d] = entries[d] /\ txn'[d] = txn[d] /\ txnFp'[d] = txnFp[d]
  /\ staged'[d] = staged[d] /\ dest'[d] = dest[d] /\ exposed'[d] = exposed[d]
  /\ (d \in touched') = (d \in touched)

\* A step of p leaves other processes alone, and changes a destination only if
\* it is p's own and p is at a point where it holds the lock.
Framed(p) ==
  /\ \A q \in Procs \ {p} : LocalFrame(q)
  /\ \A d \in Dests : d # tgt[p] \/ pc[p] \notin LockPoints => DestFrame(d)

\* Every step of run_two_pass, and a crash, is framed.
LEMMA StepIsFramed ==
  ASSUME TypeOK, NEW p \in Procs, Step(p) \/ Crash(p)
  PROVE  Framed(p)
<1> USE DEF TypeOK, Framed, LocalFrame, DestFrame, vaultVars, stagingVars, residueVars,
        ghosts, Goto, Advance, RaiseTo, Raise, Refuse, WithFlag, TxnFails, ForgetLocals,
        LockPoints, LeasePoints, Classifying, Building, Exposing, Handling
<1>1. CASE OpenVault(p) \/ Lock(p) \/ ClassifyNew(p) \/ ClassifyStarted(p) \/ ClassifyCompleted(p) \/ Reuse(p) \/ Fresh(p)
  BY <1>1 DEF OpenVault, Lock, ClassifyNew, ClassifyStarted, ClassifyCompleted, Reuse, Fresh
<1>2. CASE AcquireLease(p)
  BY <1>2 DEF AcquireLease
<1>3. CASE BeginOperation(p)
  BY <1>3 DEF BeginOperation
<1>4. CASE CreateRoot(p) \/ CreateDirectories(p)
  BY <1>4 DEF CreateRoot, CreateDirectories
<1>5. CASE WriteTemporary(p) \/ ReplaceRecord(p)
  BY <1>5 DEF WriteTemporary, ReplaceRecord, RecordPoints
<1>6. CASE CreateSpool(p) \/ PassOne(p) \/ CreateEvidence(p)
  BY <1>6 DEF CreateSpool, PassOne, CreateEvidence
<1>7. CASE PassTwo(p) \/ RebuildIndexes(p)
  BY <1>7 DEF PassTwo, RebuildIndexes
<1>8. CASE FingerprintStaged(p) \/ RecordStaged(p)
  BY <1>8 DEF FingerprintStaged, RecordStaged
<1>9. CASE PersistPayload(p) \/ PromoteCheck(p) \/ SyncRename(p)
  BY <1>9 DEF PersistPayload, PromoteCheck, SyncRename
<1>10. CASE Rename(p)
  BY <1>10 DEF Rename
<1>11. CASE CompleteOperation(p)
  BY <1>11 DEF CompleteOperation
<1>12. CASE RemoveTables(p) \/ RemoveRecord(p) \/ RemoveRoot(p)
  BY <1>12 DEF RemoveTables, RemoveRecord, RemoveRoot
<1>13. CASE Reconcile(p) \/ CleanupStaging(p) \/ Crash(p)
  BY <1>13 DEF Reconcile, CleanupStaging, Crash, RemoveStaging, RemoveStagingPartly, Removing
<1>14. CASE CleanupEvidence(p) \/ ReleaseLease(p) \/ Unlock(p) \/ CleanupSpool(p) \/ VerifySpool(p) \/ CloseVault(p)
  BY <1>14 DEF CleanupEvidence, ReleaseLease, Unlock, CleanupSpool, VerifySpool, CloseVault
<1>15. CASE AbandonOperation(p)
  BY <1>15 DEF AbandonOperation
<1> QED
  BY <1>1, <1>2, <1>3, <1>4, <1>5, <1>6, <1>7, <1>8, <1>9, <1>10, <1>11, <1>12, <1>13, <1>14, <1>15 DEF Step

\* What an invocation relies on survives the steps of all others.
LEMMA OthersKeepTheirState ==
  ASSUME SingleWriter, NEW p \in Procs, NEW q \in Procs \ {p},
         Framed(p), TypeOK, KnowsItsState(q)
  PROVE  KnowsItsState(q)'
<1>1. LocalFrame(q)
  BY DEF Framed
<1>2. pc[q] \in LockPoints => DestFrame(tgt[q])
  BY DEF Framed, SingleWriter, HoldsLock, TypeOK
<1>3. CASE pc[q] \in LockPoints
  BY <1>1, <1>2, <1>3 DEF LocalFrame, DestFrame, KnowsItsState, CleanupAllowed
<1>4. CASE pc[q] \notin LockPoints
  BY <1>1, <1>4 DEF LocalFrame, KnowsItsState, LockPoints, LeasePoints, Classifying,
     Building, Exposing, Handling, Complete, Fingerprinted, Recorded, Described
<1> QED
  BY <1>3, <1>4

\* Lock and lease have one owner across every step.
LEMMA WriterStep ==
  ASSUME TypeOK, SingleWriter, NEW p \in Procs, Step(p) \/ Crash(p)
  PROVE  SingleWriter'
<1> USE SentinelsDistinct DEF TypeOK, SingleWriter, HoldsLock, HoldsLease, vaultVars,
        stagingVars, residueVars, ghosts, Goto, Advance, RaiseTo, Raise, Refuse,
        WithFlag, TxnFails, Orphan, ForgetLocals, LockPoints, LeasePoints, Classifying, Building,
        Exposing, Handling
<1>1. CASE OpenVault(p) \/ ClassifyNew(p) \/ ClassifyStarted(p) \/ ClassifyCompleted(p) \/ Reuse(p) \/ Fresh(p)
  BY <1>1 DEF OpenVault, ClassifyNew, ClassifyStarted, ClassifyCompleted, Reuse, Fresh
<1>2. CASE Lock(p)
  BY <1>2 DEF Lock
<1>3. CASE AcquireLease(p)
  <2>1. \A q \in Procs : HoldsLock(q)' => lock'[tgt'[q]] = q
    BY <1>3 DEF AcquireLease
  <2>2. \A q \in Procs \ {p} : pc'[q] = pc[q] /\ (HoldsLease(q) => ~LeaseIsFree)
    BY <1>3 DEF AcquireLease, LeaseIsFree
  <2>3. lease' # lease => LeaseIsFree
    BY <1>3 DEF AcquireLease
  <2>4. HoldsLease(p)' => lease' = p
    BY <1>3 DEF AcquireLease
  <2> QED
    BY <2>1, <2>2, <2>3, <2>4
<1>4. CASE BeginOperation(p) \/ CreateRoot(p) \/ CreateDirectories(p)
  BY <1>4 DEF BeginOperation, CreateRoot, CreateDirectories
<1>5. CASE WriteTemporary(p) \/ ReplaceRecord(p)
  BY <1>5 DEF WriteTemporary, ReplaceRecord, RecordPoints, AfterPhase
<1>6. CASE CreateSpool(p) \/ PassOne(p) \/ CreateEvidence(p) \/ PassTwo(p) \/ RebuildIndexes(p)
  BY <1>6 DEF CreateSpool, PassOne, CreateEvidence, PassTwo, RebuildIndexes
<1>7. CASE FingerprintStaged(p) \/ RecordStaged(p) \/ PersistPayload(p) \/ PromoteCheck(p) \/ Rename(p) \/ SyncRename(p)
  BY <1>7 DEF FingerprintStaged, RecordStaged, PersistPayload, PromoteCheck, Rename, SyncRename
<1>8. CASE CompleteOperation(p)
  BY <1>8 DEF CompleteOperation
<1>9. CASE RemoveTables(p) \/ RemoveRecord(p) \/ RemoveRoot(p)
  BY <1>9 DEF RemoveTables, RemoveRecord, RemoveRoot
<1>10. CASE Reconcile(p)
  BY <1>10 DEF Reconcile
<1>11. CASE CleanupStaging(p)
  BY <1>11 DEF CleanupStaging
<1>12. CASE CleanupEvidence(p) \/ AbandonOperation(p)
  BY <1>12 DEF CleanupEvidence, AbandonOperation
<1>13. CASE ReleaseLease(p)
  BY <1>13 DEF ReleaseLease
<1>14. CASE Unlock(p)
  BY <1>14 DEF Unlock
<1>15. CASE CleanupSpool(p) \/ VerifySpool(p) \/ CloseVault(p)
  BY <1>15 DEF CleanupSpool, VerifySpool, CloseVault
<1>16. CASE Crash(p)
  BY <1>16 DEF Crash
<1> QED
  BY <1>1, <1>2, <1>3, <1>4, <1>5, <1>6, <1>7, <1>8, <1>9, <1>10, <1>11, <1>12, <1>13, <1>14, <1>15, <1>16 DEF Step

(***************************************************************************)
(* The acting process and its destination.                                 *)
(***************************************************************************)
\* The destination-wise part of Inv.
Settled(d) ==
  /\ exposed[d] # None => Owned(d)
  /\ op[d] = "COMPLETED" => TrueReceipt(d)
  /\ "root" \in entries[d] => op[d] # "none"
  /\ DestinationIsConsistent(d)

\* A destination that a step leaves alone stays settled.
LEMMA FrameKeepsSettled ==
  ASSUME NEW d \in Dests, Settled(d), DestFrame(d)
  PROVE  Settled(d)'
BY DEF Settled, DestFrame, Owned, TrueReceipt, DestinationIsConsistent

\* Unless an interrupt arrives inside a step, the acting process knows its state
\* after the step, and its destination is settled.
LEMMA OwnStep ==
  ASSUME TypeOK, SingleWriter, "interrupt" \notin Faults,
         NEW p \in Procs, KnowsItsState(p), Settled(tgt[p]), Step(p) \/ Crash(p)
  PROVE  KnowsItsState(p)' /\ \A d \in Dests : d = tgt[p] => Settled(d)'
<1>0. tgt[p] \in Dests /\ tgt' = tgt
  BY DEF TypeOK, Step, OpenVault, Lock, ClassifyNew, ClassifyStarted, ClassifyCompleted, Reconcile, Reuse, Fresh, AcquireLease, BeginOperation, CreateRoot, CreateDirectories, WriteTemporary, ReplaceRecord, CreateSpool, PassOne, CreateEvidence, PassTwo, RebuildIndexes, FingerprintStaged, RecordStaged, PersistPayload, PromoteCheck, Rename, SyncRename, CompleteOperation, RemoveTables, RemoveRecord, RemoveRoot, CleanupStaging, CleanupEvidence, AbandonOperation, ReleaseLease, Unlock, CleanupSpool, VerifySpool, CloseVault, Crash
<1> USE <1>0, SentinelsDistinct
    DEF TypeOK, KnowsItsState, Settled, Owned, TrueReceipt, DestinationIsConsistent,
        CleanupAllowed, vaultVars, stagingVars, residueVars, ghosts, Goto, Advance,
        RaiseTo, Raise, Refuse, WithFlag, TxnFails, Orphan, ForgetLocals, Classifying, Building,
        Exposing, Handling, Complete, Fingerprinted, Recorded, Described
<1>1. CASE OpenVault(p) \/ Lock(p) \/ ClassifyNew(p) \/ ClassifyStarted(p) \/ ClassifyCompleted(p) \/ Reuse(p) \/ Fresh(p) \/ AcquireLease(p)
  BY <1>1 DEF OpenVault, Lock, ClassifyNew, ClassifyStarted, ClassifyCompleted, Reuse, Fresh, AcquireLease
<1>2. CASE BeginOperation(p)
  BY SMTT(40), <1>2 DEF BeginOperation
<1>3. CASE CreateRoot(p)
  BY <1>3 DEF CreateRoot
<1>4. CASE CreateDirectories(p)
  BY <1>4 DEF CreateDirectories
<1>5. CASE WriteTemporary(p)
  BY <1>5 DEF WriteTemporary, RecordPoints
<1>6. CASE ReplaceRecord(p)
  BY <1>6 DEF ReplaceRecord, RecordPoints, PhaseAt, AfterPhase
<1>7. CASE CreateSpool(p) \/ PassOne(p) \/ CreateEvidence(p)
  BY <1>7 DEF CreateSpool, PassOne, CreateEvidence
<1>8. CASE PassTwo(p) \/ RebuildIndexes(p)
  BY <1>8 DEF PassTwo, RebuildIndexes
<1>9. CASE FingerprintStaged(p) \/ PersistPayload(p) \/ PromoteCheck(p)
  BY <1>9 DEF FingerprintStaged, PersistPayload, PromoteCheck
<1>10. CASE RecordStaged(p)
  BY <1>10 DEF RecordStaged
<1>11. CASE Rename(p)
  BY <1>11 DEF Rename
<1>12. CASE SyncRename(p)
  BY <1>12 DEF SyncRename
<1>13. CASE CompleteOperation(p)
  BY <1>13 DEF CompleteOperation
<1>14. CASE RemoveTables(p)
  BY <1>14 DEF RemoveTables
<1>15. CASE RemoveRecord(p) \/ RemoveRoot(p)
  BY <1>15 DEF RemoveRecord, RemoveRoot
<1>16. CASE Reconcile(p)
  BY <1>16 DEF Reconcile, RemoveStaging, RemoveStagingPartly
<1>17. CASE CleanupStaging(p)
  BY <1>17 DEF CleanupStaging, RemoveStaging, RemoveStagingPartly
<1>18. CASE CleanupEvidence(p) \/ ReleaseLease(p)
  BY <1>18 DEF CleanupEvidence, ReleaseLease
<1>19. CASE AbandonOperation(p)
  BY <1>19 DEF AbandonOperation
<1>20. CASE Unlock(p) \/ CleanupSpool(p) \/ VerifySpool(p) \/ CloseVault(p)
  BY <1>20 DEF Unlock, CleanupSpool, VerifySpool, CloseVault
<1>21. CASE Crash(p)
  BY <1>21 DEF Crash, Removing, RemoveStagingPartly
<1> QED
  BY <1>1, <1>2, <1>3, <1>4, <1>5, <1>6, <1>7, <1>8, <1>9, <1>10, <1>11, <1>12, <1>13, <1>14, <1>15, <1>16, <1>17, <1>18, <1>19, <1>20, <1>21 DEF Step

(***************************************************************************)
(* The inductive invariant.                                                *)
(***************************************************************************)
\* Inv, split by process and by destination.
LEMMA InvParts ==
  Inv <=> /\ TypeOK /\ SingleWriter
          /\ \A p \in Procs : KnowsItsState(p)
          /\ \A d \in Dests : Settled(d)
BY DEF Inv, ExposedIsOwned, ReceiptIsTrue, StagingIsOwned, Settled

\* The initial state satisfies the invariant.
LEMMA InvInit == Init => Inv
<1> SUFFICES ASSUME Init PROVE Inv
  OBVIOUS
<1>1. TypeOK
  BY DEF Init, TypeOK, Points, Phases, Errors, Outcomes, Flags
<1>2. SingleWriter
  BY DEF Init, SingleWriter, HoldsLock, HoldsLease, LockPoints, LeasePoints, Classifying,
     Building, Exposing, Handling
<1>3. \A p \in Procs : KnowsItsState(p)
  BY DEF Init, KnowsItsState, Classifying, Building, Exposing, Complete, Fingerprinted,
     Recorded, Described
<1>4. \A d \in Dests : Settled(d)
  BY SentinelsDistinct DEF Init, TypeOK, Settled, DestinationIsConsistent
<1> QED
  BY <1>1, <1>2, <1>3, <1>4, InvParts

\* Every step preserves it.
LEMMA InvStep ==
  ASSUME "interrupt" \notin Faults, Inv, [Next]_vars
  PROVE  Inv'
<1>1. TypeOK /\ SingleWriter /\ TypeOK'
  BY TypeStep, InvParts
<1>2. /\ \A p \in Procs : KnowsItsState(p)
      /\ \A d \in Dests : Settled(d)
  BY InvParts
<1>3. ASSUME NEW p \in Procs, Step(p) \/ Crash(p) PROVE Inv'
  <2>1. Framed(p)
    BY <1>1, <1>3, StepIsFramed
  <2>2. SingleWriter'
    BY <1>1, <1>3, WriterStep
  <2>3. tgt[p] \in Dests
    BY <1>1 DEF TypeOK
  <2>4. KnowsItsState(p)' /\ \A d \in Dests : d = tgt[p] => Settled(d)'
    BY <1>1, <1>2, <1>3, <2>3, OwnStep
  <2>5. ASSUME NEW q \in Procs PROVE KnowsItsState(q)'
    BY <1>1, <1>2, <2>1, <2>4, OthersKeepTheirState
  <2>6. ASSUME NEW d \in Dests, d # tgt[p] PROVE Settled(d)'
    BY <1>2, <2>1, <2>6, FrameKeepsSettled DEF Framed
  <2>7. \A d \in Dests : Settled(d)'
    BY <2>4, <2>6
  <2> QED
    BY <1>1, <2>2, <2>5, <2>7
       DEF Inv, ExposedIsOwned, ReceiptIsTrue, StagingIsOwned, Settled
<1>4. ASSUME NEW p \in Procs, NEW d \in Dests, Start(p, d) PROVE Inv'
  <2> USE DEF Start, Goto, vaultVars, stagingVars, residueVars, ghosts, TypeOK
  <2>1. SingleWriter'
    BY <1>1, <1>4 DEF SingleWriter, HoldsLock, HoldsLease, LockPoints, LeasePoints,
       Classifying, Building, Exposing, Handling
  <2>2. KnowsItsState(p)'
    BY <1>1, <1>2, <1>4 DEF KnowsItsState, Classifying, Building, Exposing, Complete,
       Fingerprinted, Recorded, Described
  <2>3. ASSUME NEW q \in Procs, q # p PROVE KnowsItsState(q)'
    BY <1>1, <1>2, <1>4, <2>3 DEF KnowsItsState, CleanupAllowed
  <2>4. \A e \in Dests : Settled(e)'
    BY <1>2, <1>4 DEF Settled, Owned, TrueReceipt, DestinationIsConsistent
  <2> QED
    BY ONLY <1>1, <2>1, <2>2, <2>3, <2>4
       DEF Inv, ExposedIsOwned, ReceiptIsTrue, StagingIsOwned, Settled
<1>5. ASSUME NEW d \in Dests, UserChange(d) PROVE Inv'
  <2> USE DEF UserChange, vaultVars, stagingVars, residueVars, endVars, TypeOK
  <2>1. SingleWriter'
    BY <1>1, <1>5 DEF SingleWriter, HoldsLock, HoldsLease
  <2>2. \A p \in Procs : KnowsItsState(p)'
    BY <1>2, <1>5 DEF KnowsItsState, CleanupAllowed
  <2>3. \A e \in Dests : Settled(e)'
    BY <1>1, <1>2, <1>5 DEF Settled, Owned, TrueReceipt, DestinationIsConsistent
  <2> QED
    BY ONLY <1>1, <2>1, <2>2, <2>3
       DEF Inv, ExposedIsOwned, ReceiptIsTrue, StagingIsOwned, Settled
<1>6. CASE UNCHANGED vars
  BY <1>6 DEF vars, vaultVars, stagingVars, residueVars, endVars, ghosts, Inv, TypeOK,
     SingleWriter, HoldsLock, HoldsLease, ExposedIsOwned, Owned, ReceiptIsTrue, TrueReceipt,
     StagingIsOwned, KnowsItsState, CleanupAllowed, DestinationIsConsistent
<1> QED
  BY <1>3, <1>4, <1>5, <1>6 DEF Next

\* The variables of the specification keep their types, faults of every kind
\* and interrupts included.
THEOREM TypeCorrect == Spec => []TypeOK
<1>1. Init => TypeOK
  BY InvInit DEF Inv
<1> QED
  BY <1>1, TypeStep, PTL DEF Spec

\* Ownership, receipts, single writers and staging roots: the inductive
\* invariant holds in every behaviour without interrupts.
THEOREM Safety ==
  ASSUME "interrupt" \notin Faults
  PROVE  Spec => []Inv
<1>1. Inv /\ [Next]_vars => Inv'
  BY InvStep
<1> QED
  BY <1>1, InvInit, PTL DEF Spec

\* Whatever crashes, fails or is cancelled, a dataset that was moved to its
\* destination is described by a receipt or by a STARTED row and a matching
\* crash state.
THEOREM OwnershipTheorem ==
  ASSUME "interrupt" \notin Faults
  PROVE  Spec => []ExposedIsOwned
<1>1. Inv => ExposedIsOwned
  BY DEF Inv
<1> QED
  BY <1>1, Safety, PTL

\* Every completion receipt names the complete dataset that was moved.
THEOREM ReceiptTheorem ==
  ASSUME "interrupt" \notin Faults
  PROVE  Spec => []ReceiptIsTrue
<1>1. Inv => ReceiptIsTrue
  BY DEF Inv
<1> QED
  BY <1>1, Safety, PTL

\* Lock and lease are exclusive, for any number of processes; this needs no
\* assumption about interrupts.
THEOREM SingleWriterTheorem == Spec => []SingleWriter
<1>1. Init => TypeOK /\ SingleWriter
  BY InvInit DEF Inv
<1>2. TypeOK /\ SingleWriter /\ [Next]_vars => (TypeOK /\ SingleWriter)'
  <2> SUFFICES ASSUME TypeOK, SingleWriter, [Next]_vars PROVE TypeOK' /\ SingleWriter'
    OBVIOUS
  <2>1. ASSUME NEW p \in Procs, Step(p) \/ Crash(p) PROVE SingleWriter'
    BY <2>1, WriterStep
  <2>2. ASSUME NEW p \in Procs, NEW d \in Dests, Start(p, d) PROVE SingleWriter'
    BY <2>2 DEF Start, Goto, vaultVars, TypeOK, SingleWriter, HoldsLock, HoldsLease,
       LockPoints, LeasePoints, Classifying, Building, Exposing, Handling
  <2>3. ASSUME NEW d \in Dests, UserChange(d) PROVE SingleWriter'
    BY <2>3 DEF UserChange, vaultVars, SingleWriter, HoldsLock, HoldsLease
  <2>4. ASSUME UNCHANGED vars PROVE SingleWriter'
    BY <2>4 DEF vars, vaultVars, SingleWriter, HoldsLock, HoldsLease
  <2> QED
    BY <2>1, <2>2, <2>3, <2>4, TypeStep DEF Next
<1> QED
  BY <1>1, <1>2, PTL DEF Spec

(***************************************************************************)
(* Answers.                                                                *)
(***************************************************************************)
\* What a step of p leaves alone of another process and of what they share.
AnswerFrame(p) ==
  /\ \A q \in Procs \ {p} : err'[q] = err[q] /\ outcome'[q] = outcome[q] /\ (evidence' = q => evidence = q)
  /\ \A d \in Dests : op[d] = "COMPLETED" => op'[d] = "COMPLETED"

\* No step of p touches the error, the outcome or the evidence of another process,
\* and a completed operation stays completed.
LEMMA StepKeepsAnswers ==
  ASSUME TypeOK, NEW p \in Procs, Step(p) \/ Crash(p)
  PROVE  AnswerFrame(p) /\ tgt' = tgt
<1> USE SentinelsDistinct
    DEF TypeOK, AnswerFrame, vaultVars, residueVars, endVars, Goto, Advance, RaiseTo, Raise, Refuse, Orphan, ForgetLocals
<1>1. CASE OpenVault(p) \/ Lock(p) \/ ClassifyNew(p) \/ ClassifyStarted(p) \/ ClassifyCompleted(p) \/ Reuse(p) \/ Fresh(p)
  BY <1>1 DEF OpenVault, Lock, ClassifyNew, ClassifyStarted, ClassifyCompleted, Reuse, Fresh
<1>2. CASE AcquireLease(p)
  BY <1>2 DEF AcquireLease
<1>3. CASE BeginOperation(p)
  BY <1>3 DEF BeginOperation
<1>4. CASE CreateRoot(p) \/ CreateDirectories(p)
  BY <1>4 DEF CreateRoot, CreateDirectories
<1>5. CASE WriteTemporary(p) \/ ReplaceRecord(p)
  BY <1>5 DEF WriteTemporary, ReplaceRecord
<1>6. CASE CreateSpool(p) \/ PassOne(p) \/ CreateEvidence(p)
  BY <1>6 DEF CreateSpool, PassOne, CreateEvidence
<1>7. CASE PassTwo(p) \/ RebuildIndexes(p)
  BY <1>7 DEF PassTwo, RebuildIndexes
<1>8. CASE FingerprintStaged(p) \/ RecordStaged(p) \/ PersistPayload(p) \/ PromoteCheck(p)
  BY <1>8 DEF FingerprintStaged, RecordStaged, PersistPayload, PromoteCheck
<1>9. CASE Rename(p) \/ SyncRename(p)
  BY <1>9 DEF Rename, SyncRename
<1>10. CASE CompleteOperation(p)
  BY <1>10 DEF CompleteOperation
<1>11. CASE RemoveTables(p) \/ RemoveRecord(p) \/ RemoveRoot(p)
  BY <1>11 DEF RemoveTables, RemoveRecord, RemoveRoot
<1>12. CASE Reconcile(p) \/ CleanupStaging(p)
  BY <1>12 DEF Reconcile, CleanupStaging
<1>13. CASE CleanupEvidence(p)
  BY <1>13 DEF CleanupEvidence
<1>14. CASE AbandonOperation(p)
  BY <1>14 DEF AbandonOperation
<1>15. CASE ReleaseLease(p) \/ Unlock(p) \/ CleanupSpool(p) \/ VerifySpool(p)
  BY <1>15 DEF ReleaseLease, Unlock, CleanupSpool, VerifySpool
<1>16. CASE CloseVault(p)
  BY <1>16 DEF CloseVault
<1>17. CASE Crash(p)
  BY <1>17 DEF Crash
<1> QED
  BY <1>1, <1>2, <1>3, <1>4, <1>5, <1>6, <1>7, <1>8, <1>9, <1>10, <1>11, <1>12, <1>13, <1>14, <1>15, <1>16, <1>17 DEF Step

\* The parts of AnswerIsTrue that concern one process.
CleanFailure(p) ==
  (/\ pc[p] = "release"
   /\ \/ err[p] = "cancelled"
      \/ CleanupAllowed(p) /\ err[p] \notin {"none", "cleanup"})
  => /\ op[tgt[p]] = "none" /\ pub[tgt[p]] = {}
     /\ entries[tgt[p]] = {} /\ evidence # p
     /\ exposed[tgt[p]] = None
DurableSuccess(p) == outcome[p] \in {"published", "reused"} => op[tgt[p]] = "COMPLETED"
Answered(p) == AnswerIsKnown(p) /\ CleanFailure(p) /\ DurableSuccess(p)
Rooted(d) == "root" \in entries[d] \/ entries[d] = {}

LEMMA AnswerParts ==
  AnswerInv <=> (\A p \in Procs : Answered(p)) /\ (\A d \in Dests : Rooted(d))
BY DEF AnswerInv, AnswerIsTrue, FailureIsClean, SuccessIsDurable, StagingIsRooted, Answered,
       CleanFailure, DurableSuccess, Rooted

\* What the other processes have been told stays true.
LEMMA OthersKeepTheirAnswers ==
  ASSUME TypeOK, SingleWriter, NEW p \in Procs, NEW q \in Procs \ {p},
         Framed(p), AnswerFrame(p), Answered(q)
  PROVE  Answered(q)'
<1>1. LocalFrame(q) /\ err'[q] = err[q] /\ outcome'[q] = outcome[q] /\ (evidence' = q => evidence = q)
  BY DEF Framed, AnswerFrame
<1>2. pc[q] \in LockPoints => DestFrame(tgt[q])
  BY DEF Framed, SingleWriter, HoldsLock, TypeOK
<1>3. op[tgt[q]] = "COMPLETED" => op'[tgt[q]] = "COMPLETED"
  BY DEF AnswerFrame, TypeOK
<1>4. AnswerIsKnown(q)' /\ DurableSuccess(q)'
  BY <1>1, <1>3 DEF LocalFrame, Answered, AnswerIsKnown, DurableSuccess, CleanupAllowed
<1>5. CleanFailure(q)'
  BY <1>1, <1>2 DEF LocalFrame, DestFrame, Answered, CleanFailure, CleanupAllowed, LockPoints, LeasePoints
<1> QED
  BY <1>4, <1>5 DEF Answered

\* The acting process is told the truth, and its staging tree stays rooted.
LEMMA OwnAnswer ==
  ASSUME TypeOK, NEW p \in Procs, "interrupt" \notin Faults, KnowsItsState(p),
         Answered(p), Rooted(tgt[p]), Step(p) \/ Crash(p)
  PROVE  Answered(p)' /\ \A d \in Dests : d = tgt[p] => Rooted(d)'
<1>0. tgt[p] \in Dests /\ tgt' = tgt /\ (op[tgt[p]] = "COMPLETED" => op'[tgt[p]] = "COMPLETED")
  BY StepKeepsAnswers DEF TypeOK, AnswerFrame
<1> USE <1>0, SentinelsDistinct
    DEF TypeOK, KnowsItsState, Answered, AnswerIsKnown, CleanFailure, DurableSuccess, Rooted, CleanupAllowed,
        vaultVars, stagingVars, residueVars, endVars, ghosts, Goto, Advance,
        RaiseTo, Raise, Refuse, WithFlag, TxnFails, Orphan, ForgetLocals, Classifying, Building,
        Exposing, Handling, Leaving
<1>1. CASE OpenVault(p) \/ Lock(p) \/ ClassifyNew(p) \/ ClassifyStarted(p) \/ ClassifyCompleted(p)
  BY <1>1 DEF OpenVault, Lock, ClassifyNew, ClassifyStarted, ClassifyCompleted
<1>2. CASE Reuse(p) \/ Fresh(p) \/ AcquireLease(p)
  BY <1>2 DEF Reuse, Fresh, AcquireLease
<1>3. CASE BeginOperation(p)
  BY <1>3 DEF BeginOperation
<1>4. CASE CreateRoot(p) \/ CreateDirectories(p)
  BY <1>4 DEF CreateRoot, CreateDirectories
<1>5. CASE WriteTemporary(p)
  BY <1>5 DEF WriteTemporary, RecordPoints
<1>6. CASE ReplaceRecord(p)
  BY <1>6 DEF ReplaceRecord, RecordPoints, AfterPhase
<1>7. CASE CreateSpool(p) \/ PassOne(p) \/ CreateEvidence(p)
  BY <1>7 DEF CreateSpool, PassOne, CreateEvidence
<1>8. CASE PassTwo(p) \/ RebuildIndexes(p)
  BY <1>8 DEF PassTwo, RebuildIndexes
<1>9. CASE FingerprintStaged(p) \/ RecordStaged(p) \/ PersistPayload(p) \/ PromoteCheck(p)
  BY <1>9 DEF FingerprintStaged, RecordStaged, PersistPayload, PromoteCheck
<1>10. CASE Rename(p) \/ SyncRename(p)
  BY <1>10 DEF Rename, SyncRename
<1>11. CASE CompleteOperation(p)
  BY <1>11 DEF CompleteOperation
<1>12. CASE RemoveTables(p) \/ RemoveRecord(p) \/ RemoveRoot(p)
  BY <1>12 DEF RemoveTables, RemoveRecord, RemoveRoot
<1>13. CASE Reconcile(p)
  BY <1>13 DEF Reconcile, RemoveStaging, RemoveStagingPartly
<1>14. CASE CleanupStaging(p)
  BY <1>14 DEF CleanupStaging, RemoveStaging, RemoveStagingPartly
<1>15. CASE CleanupEvidence(p)
  BY <1>15 DEF CleanupEvidence
<1>16. CASE AbandonOperation(p)
  BY <1>16 DEF AbandonOperation
<1>17. CASE ReleaseLease(p) \/ Unlock(p) \/ CleanupSpool(p) \/ VerifySpool(p)
  BY <1>17 DEF ReleaseLease, Unlock, CleanupSpool, VerifySpool
<1>18. CASE CloseVault(p)
  <2>1. pc[p] = "close" /\ pc'[p] = "idle" /\ err'[p] = "none" /\ evidence' # p
    BY <1>18 DEF CloseVault
  <2>2. UNCHANGED <<op, entries>>
    BY <1>18 DEF CloseVault
  <2>3. outcome'[p] \in {Verdict(p), "failed"}
    BY <1>18 DEF CloseVault
  <2>4. err[p] # "none" => Verdict(p) = err[p]
    BY DEF Verdict
  <2>5. err[p] \in Errors
    OBVIOUS
  <2>6. DurableSuccess(p)'
    BY <2>1, <2>2, <2>3, <2>4, <2>5 DEF Errors
  <2> QED
    BY <2>1, <2>2, <2>6
<1>19. CASE Crash(p)
  BY <1>19 DEF Crash, RemoveStagingPartly
<1> QED
  BY <1>1, <1>2, <1>3, <1>4, <1>5, <1>6, <1>7, <1>8, <1>9, <1>10, <1>11, <1>12, <1>13, <1>14, <1>15, <1>16, <1>17, <1>18, <1>19 DEF Step

\* Whatever run_two_pass tells its caller is true: a failure before the rename has
\* left nothing, a success is durable.
THEOREM AnswerTheorem ==
  ASSUME "interrupt" \notin Faults
  PROVE  Spec => []AnswerIsTrue
<1>1. Init => AnswerInv
  <2> SUFFICES ASSUME Init PROVE AnswerInv
    OBVIOUS
  <2>1. \A p \in Procs : Answered(p)
    BY SentinelsDistinct DEF Init, Answered, AnswerIsKnown, CleanFailure, DurableSuccess, Handling, Leaving
  <2>2. \A d \in Dests : Rooted(d)
    BY DEF Init, Rooted
  <2> QED
    BY <2>1, <2>2, AnswerParts
<1>2. Inv /\ AnswerInv /\ [Next]_vars => AnswerInv'
  <2> SUFFICES ASSUME Inv, AnswerInv, [Next]_vars PROVE AnswerInv'
    OBVIOUS
  <2>0. /\ TypeOK /\ SingleWriter
        /\ \A p \in Procs : KnowsItsState(p) /\ Answered(p)
        /\ \A d \in Dests : Rooted(d)
    BY InvParts, AnswerParts
  <2>1. ASSUME NEW p \in Procs, Step(p) \/ Crash(p) PROVE AnswerInv'
    <3>1. Framed(p) /\ AnswerFrame(p) /\ tgt[p] \in Dests
      BY <2>0, <2>1, StepIsFramed, StepKeepsAnswers DEF TypeOK
    <3>2. Answered(p)' /\ \A d \in Dests : d = tgt[p] => Rooted(d)'
      BY <2>0, <2>1, <3>1, OwnAnswer
    <3>3. \A q \in Procs : Answered(q)'
      BY <2>0, <3>1, <3>2, OthersKeepTheirAnswers
    <3>4. \A d \in Dests : Rooted(d)'
      BY <2>0, <3>1, <3>2 DEF Framed, DestFrame, Rooted
    <3> QED
      BY <3>3, <3>4 DEF AnswerInv, AnswerIsTrue, FailureIsClean, SuccessIsDurable, StagingIsRooted,
                        Answered, CleanFailure, DurableSuccess, Rooted
  <2>2. ASSUME NEW p \in Procs, NEW d \in Dests, Start(p, d) PROVE AnswerInv'
    <3>1. \A q \in Procs : Answered(q)'
      BY <2>0, <2>2 DEF Start, Goto, TypeOK, vaultVars, stagingVars, residueVars, ghosts, Answered,
         AnswerIsKnown, CleanFailure, DurableSuccess, CleanupAllowed, Classifying, Building, Exposing, Handling, Leaving
    <3> QED
      BY <2>0, <2>2, <3>1 DEF Start, stagingVars, AnswerInv, AnswerIsTrue, FailureIsClean, SuccessIsDurable,
                        StagingIsRooted, Answered, CleanFailure, DurableSuccess, Rooted
  <2>3. ASSUME NEW d \in Dests, UserChange(d) PROVE AnswerInv'
    BY <2>3 DEF UserChange, vaultVars, stagingVars, residueVars, endVars, AnswerInv, AnswerIsTrue, FailureIsClean,
                SuccessIsDurable, StagingIsRooted, AnswerIsKnown, CleanupAllowed
  <2>4. CASE UNCHANGED vars
    BY <2>4 DEF vars, vaultVars, stagingVars, residueVars, endVars, ghosts, AnswerInv, AnswerIsTrue, FailureIsClean,
                SuccessIsDurable, StagingIsRooted, AnswerIsKnown, CleanupAllowed
  <2> QED
    BY <2>1, <2>2, <2>3, <2>4 DEF Next
<1>3. AnswerInv => AnswerIsTrue
  BY DEF AnswerInv
<1> QED
  BY Safety, <1>1, <1>2, <1>3, PTL DEF Spec

(***************************************************************************)
(* Sensitive files.                                                        *)
(***************************************************************************)
\* PrivateInv for one process.
Private(p) ==
  /\ "spool" \in flags[p] /\ pc[p] \in LockPoints \cup {"cleanup"} => spool = p
  /\ pc[p] = "pass2" => evidence = p
  /\ pc[p] \in {"idle", "open", "lock"} => "spool" \notin flags[p]

\* A step of p keeps its own files, and takes neither the spool nor, from the
\* holder of the lease, the evidence of another process.
LEMMA StepKeepsFiles ==
  ASSUME TypeOK, SingleWriter, NEW p \in Procs, Private(p), Step(p) \/ Crash(p)
  PROVE  /\ Private(p)'
         /\ \A q \in Procs \ {p} : /\ spool = q => spool' = q
                                   /\ lease = q /\ evidence = q => evidence' = q
<1> USE SentinelsDistinct
    DEF TypeOK, SingleWriter, HoldsLock, HoldsLease, Private, residueVars, Goto, Advance, RaiseTo, Raise, Refuse,
        WithFlag, TxnFails, Orphan, ForgetLocals, LockPoints, LeasePoints, Classifying, Building, Exposing, Handling
<1>1. CASE OpenVault(p) \/ Lock(p) \/ ClassifyNew(p) \/ ClassifyStarted(p) \/ ClassifyCompleted(p) \/ Reuse(p) \/ Fresh(p)
  BY <1>1 DEF OpenVault, Lock, ClassifyNew, ClassifyStarted, ClassifyCompleted, Reuse, Fresh
<1>2. CASE AcquireLease(p) \/ BeginOperation(p)
  BY <1>2 DEF AcquireLease, BeginOperation
<1>3. CASE CreateRoot(p) \/ CreateDirectories(p)
  BY <1>3 DEF CreateRoot, CreateDirectories
<1>4. CASE WriteTemporary(p) \/ ReplaceRecord(p)
  BY <1>4 DEF WriteTemporary, ReplaceRecord, RecordPoints, AfterPhase
<1>5. CASE CreateSpool(p) \/ PassOne(p)
  BY <1>5 DEF CreateSpool, PassOne
<1>6. CASE CreateEvidence(p) \/ PassTwo(p)
  BY <1>6 DEF CreateEvidence, PassTwo
<1>7. CASE RebuildIndexes(p) \/ FingerprintStaged(p) \/ RecordStaged(p) \/ PersistPayload(p) \/ PromoteCheck(p)
  BY <1>7 DEF RebuildIndexes, FingerprintStaged, RecordStaged, PersistPayload, PromoteCheck
<1>8. CASE Rename(p) \/ SyncRename(p) \/ CompleteOperation(p)
  BY <1>8 DEF Rename, SyncRename, CompleteOperation
<1>9. CASE RemoveTables(p) \/ RemoveRecord(p) \/ RemoveRoot(p)
  BY <1>9 DEF RemoveTables, RemoveRecord, RemoveRoot
<1>10. CASE Reconcile(p) \/ CleanupStaging(p)
  BY <1>10 DEF Reconcile, CleanupStaging
<1>11. CASE CleanupEvidence(p) \/ AbandonOperation(p)
  BY <1>11 DEF CleanupEvidence, AbandonOperation
<1>12. CASE ReleaseLease(p) \/ Unlock(p)
  BY <1>12 DEF ReleaseLease, Unlock
<1>13. CASE CleanupSpool(p) \/ VerifySpool(p)
  BY <1>13 DEF CleanupSpool, VerifySpool
<1>14. CASE CloseVault(p) \/ Crash(p)
  BY <1>14 DEF CloseVault, Crash
<1> QED
  BY <1>1, <1>2, <1>3, <1>4, <1>5, <1>6, <1>7, <1>8, <1>9, <1>10, <1>11, <1>12, <1>13, <1>14 DEF Step

\* The spool of a run and the evidence of pass 2 are nobody else's, interrupts
\* included: the finally clause unlinks only what its own run made.
THEOREM PrivateTheorem == Spec => []ResidueIsPrivate
<1>0. PrivateInv <=> \A p \in Procs : Private(p)
  BY DEF PrivateInv, ResidueIsPrivate, Private
<1>1. Init => PrivateInv
  BY DEF Init, PrivateInv, ResidueIsPrivate
<1>2. TypeOK /\ SingleWriter /\ PrivateInv /\ [Next]_vars => PrivateInv'
  <2> SUFFICES ASSUME TypeOK, SingleWriter, PrivateInv, [Next]_vars PROVE \A q \in Procs : Private(q)'
    BY DEF PrivateInv, ResidueIsPrivate, Private
  <2>0. \A q \in Procs : Private(q)
    BY <1>0
  <2>1. ASSUME NEW p \in Procs, Step(p) \/ Crash(p) PROVE \A q \in Procs : Private(q)'
    <3>1. Framed(p)
      BY <2>1, StepIsFramed
    <3>2. /\ Private(p)'
          /\ \A q \in Procs \ {p} : /\ spool = q => spool' = q
                                    /\ lease = q /\ evidence = q => evidence' = q
      BY <2>0, <2>1, StepKeepsFiles
    <3>3. ASSUME NEW q \in Procs \ {p} PROVE Private(q)'
      <4>1. LocalFrame(q)
        BY <3>1 DEF Framed
      <4>2. pc[q] = "pass2" => lease = q
        BY DEF SingleWriter, HoldsLease, LeasePoints, Building
      <4> QED
        BY <2>0, <3>2, <4>1, <4>2 DEF Private, LocalFrame
    <3> QED
      BY <3>2, <3>3
  <2>2. ASSUME NEW p \in Procs, NEW d \in Dests, Start(p, d) PROVE \A q \in Procs : Private(q)'
    BY <2>0, <2>2 DEF Start, Goto, residueVars, Private, TypeOK, LockPoints, LeasePoints, Classifying, Building,
                      Exposing, Handling
  <2>3. ASSUME NEW d \in Dests, UserChange(d) PROVE \A q \in Procs : Private(q)'
    BY <2>0, <2>3 DEF UserChange, residueVars, Private
  <2>4. CASE UNCHANGED vars
    BY <2>0, <2>4 DEF vars, residueVars, Private
  <2> QED
    BY <2>1, <2>2, <2>3, <2>4 DEF Next
<1>3. PrivateInv => ResidueIsPrivate
  BY DEF PrivateInv
<1> QED
  BY TypeCorrect, SingleWriterTheorem, <1>1, <1>2, <1>3, PTL DEF Spec

-----------------------------------------------------------------------------
(***************************************************************************)
(* run_two_pass implements the publication contract, for any number of     *)
(* processes, destinations and payloads.                                   *)
(***************************************************************************)

\* What the contract sees of the state.
Visible == <<op, opFp, dest, exposed>>

\* Only five steps are visible to the contract.
LEMMA QuietStep ==
  ASSUME NEW p \in Procs,
         OpenVault(p) \/ Lock(p) \/ ClassifyNew(p) \/ ClassifyStarted(p) \/
         ClassifyCompleted(p) \/ Reconcile(p) \/ Reuse(p) \/ Fresh(p) \/ AcquireLease(p)
         \/ CreateRoot(p) \/ CreateDirectories(p) \/ WriteTemporary(p) \/
         ReplaceRecord(p) \/ CreateSpool(p) \/ PassOne(p) \/ CreateEvidence(p) \/
         PassTwo(p) \/ RebuildIndexes(p) \/ FingerprintStaged(p) \/ RecordStaged(p) \/
         PersistPayload(p) \/ PromoteCheck(p) \/ SyncRename(p) \/ RemoveTables(p) \/
         RemoveRecord(p) \/ RemoveRoot(p) \/ CleanupStaging(p) \/ CleanupEvidence(p) \/
         ReleaseLease(p) \/ Unlock(p) \/ CleanupSpool(p) \/ VerifySpool(p) \/
         CloseVault(p) \/ Crash(p)
  PROVE  UNCHANGED Visible
BY DEF Visible, vaultVars, stagingVars, ghosts, RemoveStaging, RemoveStagingPartly,
       OpenVault, Lock, ClassifyNew, ClassifyStarted, ClassifyCompleted, Reconcile,
       Reuse, Fresh, AcquireLease, CreateRoot, CreateDirectories, WriteTemporary,
       ReplaceRecord, CreateSpool, PassOne, CreateEvidence, PassTwo, RebuildIndexes,
       FingerprintStaged, RecordStaged, PersistPayload, PromoteCheck, SyncRename,
       RemoveTables, RemoveRecord, RemoveRoot, CleanupStaging, CleanupEvidence,
       ReleaseLease, Unlock, CleanupSpool, VerifySpool, CloseVault, Crash

\* A step that changes nothing visible is a stuttering step of the contract.
LEMMA Stutter ==
  ASSUME UNCHANGED Visible
  PROVE  UNCHANGED Contract!cvars
BY DEF Visible, Contract!cvars, StatusOf

\* A step that changes the row or the output of one destination only.
LEMMA StatusStep ==
  ASSUME NEW d \in Dests, NEW s,
         \A e \in Dests : e # d => op'[e] = op[e] /\ exposed'[e] = exposed[e],
         StatusOf(d)' = s
  PROVE  [e \in Dests |-> StatusOf(e)]' = [[e \in Dests |-> StatusOf(e)] EXCEPT ![d] = s]
BY DEF StatusOf

\* Every step of the program is a step of the contract, or stutters.
LEMMA ContractStep ==
  ASSUME "interrupt" \notin Faults, Inv, [Next]_vars
  PROVE  [Contract!CNext]_Contract!cvars
<1> USE SentinelsDistinct
<1>0. TypeOK
  BY DEF Inv
<1>1. CASE UNCHANGED vars
  BY <1>1, Stutter DEF vars, vaultVars, ghosts, Visible
<1>2. ASSUME NEW p \in Procs, BeginOperation(p) PROVE [Contract!CNext]_Contract!cvars
  <2>1. CASE UNCHANGED op
    BY <1>2, <2>1, Stutter DEF BeginOperation, ghosts, Visible
  <2>2. CASE op[tgt[p]] = "none" /\ op' = [op EXCEPT ![tgt[p]] = "STARTED"]
    <3>1. tgt[p] \in Dests /\ exposed[tgt[p]] = None
      BY <1>0, <2>2 DEF TypeOK, Inv, DestinationIsConsistent
    <3>2. UNCHANGED <<exposed, opFp, dest>>
      BY <1>2 DEF BeginOperation, ghosts
    <3>3. StatusOf(tgt[p]) = "free" /\ op'[tgt[p]] = "STARTED"
      BY <1>0, <2>2, <3>1 DEF StatusOf, TypeOK
    <3>4. \A d \in Dests : d = tgt[p] => StatusOf(d)' = "started"
      BY <3>1, <3>2, <3>3 DEF StatusOf
    <3>5. \A e \in Dests : e # tgt[p] => op'[e] = op[e] /\ exposed'[e] = exposed[e]
      BY <1>0, <2>2, <3>2 DEF TypeOK
    <3>6. \A d \in Dests : d = tgt[p] => Contract!Begin(d)
      BY <3>1, <3>2, <3>3, <3>4, <3>5, StatusStep DEF Contract!Begin
    <3> QED
      BY <3>1, <3>6 DEF Contract!CNext
  <2> QED
    BY <1>2, <2>1, <2>2 DEF BeginOperation
<1>3. ASSUME NEW p \in Procs, Rename(p) PROVE [Contract!CNext]_Contract!cvars
  <2> DEFINE Moved == /\ dest[tgt[p]] \in {None, Empty}
                      /\ dest' = [dest EXCEPT ![tgt[p]] = staged[tgt[p]]]
                      /\ exposed' = [exposed EXCEPT ![tgt[p]] = staged[tgt[p]]]
  <2>1. UNCHANGED <<op, opFp>> /\ (Moved \/ UNCHANGED <<dest, exposed>>)
    BY <1>3 DEF Rename, vaultVars, ghosts
  <2>2. CASE UNCHANGED <<dest, exposed>>
    BY <2>1, <2>2, Stutter DEF Visible
  <2>3. CASE Moved
    <3>1. /\ tgt[p] \in Dests /\ staged[tgt[p]] \in Payloads
          /\ op[tgt[p]] = "STARTED" /\ exposed[tgt[p]] = None
      BY <1>0, <1>3 DEF TypeOK, Rename, Inv, KnowsItsState, Building, Complete
    <3>2. StatusOf(tgt[p]) = "started"
      BY <3>1 DEF StatusOf
    <3>3. \A d \in Dests : d = tgt[p] => StatusOf(d)' = "exposed"
      BY <1>0, <2>1, <2>3, <3>1 DEF StatusOf, TypeOK
    <3>4. \A e \in Dests : e # tgt[p] => op'[e] = op[e] /\ exposed'[e] = exposed[e]
      BY <1>0, <2>1, <2>3 DEF TypeOK
    <3>5. ASSUME NEW d \in Dests, d = tgt[p] PROVE Contract!Expose(d)
      <4>1. [e \in Dests |-> StatusOf(e)]'
              = [[e \in Dests |-> StatusOf(e)] EXCEPT ![d] = "exposed"]
        BY <3>3, <3>4, <3>5, StatusStep
      <4>2. [e \in Dests |-> StatusOf(e)][d] = "started" /\ dest[d] \in {None, Empty}
        BY <2>3, <3>2, <3>5
      <4>3. \E x \in Payloads : exposed' = [exposed EXCEPT ![d] = x]
                               /\ dest' = [dest EXCEPT ![d] = x]
        BY <2>3, <3>1, <3>5
      <4> QED
        BY ONLY <2>1, <4>1, <4>2, <4>3 DEF Contract!Expose
    <3> QED
      BY <3>1, <3>5 DEF Contract!CNext
  <2> QED
    BY <2>1, <2>2, <2>3
<1>4. ASSUME NEW p \in Procs, CompleteOperation(p) PROVE [Contract!CNext]_Contract!cvars
  <2> DEFINE Received == /\ op' = [op EXCEPT ![tgt[p]] = "COMPLETED"]
                         /\ opFp' = [opFp EXCEPT ![tgt[p]] = fp[p]]
  <2>1. UNCHANGED <<dest, exposed>> /\ (Received \/ UNCHANGED <<op, opFp>>)
    BY <1>4 DEF CompleteOperation, ghosts
  <2>2. CASE UNCHANGED <<op, opFp>>
    BY <2>1, <2>2, Stutter DEF Visible
  <2>3. CASE Received
    <3>1. /\ tgt[p] \in Dests /\ exposed[tgt[p]] = fp[p] /\ exposed[tgt[p]] # None
          /\ op[tgt[p]] = "STARTED"
      BY <1>0, <1>4 DEF TypeOK, CompleteOperation, Inv, KnowsItsState
    <3>2. StatusOf(tgt[p]) = "exposed"
      BY <3>1 DEF StatusOf
    <3>3. \A d \in Dests : d = tgt[p] => StatusOf(d)' = "completed"
      BY <1>0, <2>1, <2>3, <3>1 DEF StatusOf, TypeOK
    <3>4. \A e \in Dests : e # tgt[p] => op'[e] = op[e] /\ exposed'[e] = exposed[e]
      BY <1>0, <2>1, <2>3 DEF TypeOK
    <3>5. ASSUME NEW d \in Dests, d = tgt[p] PROVE Contract!Complete(d)
      <4>1. [e \in Dests |-> StatusOf(e)]'
              = [[e \in Dests |-> StatusOf(e)] EXCEPT ![d] = "completed"]
        BY <3>3, <3>4, <3>5, StatusStep
      <4>2. [e \in Dests |-> StatusOf(e)][d] = "exposed"
        BY <3>2, <3>5
      <4>3. opFp' = [opFp EXCEPT ![d] = exposed[d]]
        BY <2>3, <3>1, <3>5
      <4> QED
        BY ONLY <2>1, <4>1, <4>2, <4>3 DEF Contract!Complete
    <3> QED
      BY <3>1, <3>5 DEF Contract!CNext
  <2> QED
    BY <2>1, <2>2, <2>3
<1>5. ASSUME NEW p \in Procs, AbandonOperation(p) PROVE [Contract!CNext]_Contract!cvars
  <2>1. /\ UNCHANGED <<opFp, dest, exposed>>
        /\ op' = [op EXCEPT ![tgt[p]] = "none"] \/ UNCHANGED op
    BY <1>5 DEF AbandonOperation, ghosts
  <2>2. CASE UNCHANGED op
    BY <2>1, <2>2, Stutter DEF Visible
  <2>3. CASE op' = [op EXCEPT ![tgt[p]] = "none"]
    <3>1. tgt[p] \in Dests /\ op[tgt[p]] = "STARTED" /\ exposed[tgt[p]] = None
      BY <1>0, <1>5 DEF TypeOK, AbandonOperation, Inv, KnowsItsState
    <3>2. StatusOf(tgt[p]) = "started"
      BY <3>1 DEF StatusOf
    <3>3. \A d \in Dests : d = tgt[p] => StatusOf(d)' = "free"
      BY <1>0, <2>1, <2>3, <3>1 DEF StatusOf, TypeOK
    <3>4. \A e \in Dests : e # tgt[p] => op'[e] = op[e] /\ exposed'[e] = exposed[e]
      BY <1>0, <2>1, <2>3 DEF TypeOK
    <3>5. \A d \in Dests : d = tgt[p] => Contract!Abandon(d)
      BY <2>1, <2>3, <3>1, <3>2, <3>3, <3>4, StatusStep DEF Contract!Abandon
    <3> QED
      BY <3>1, <3>5 DEF Contract!CNext
  <2> QED
    BY <2>1, <2>2, <2>3
<1>6. ASSUME NEW d \in Dests, UserChange(d) PROVE [Contract!CNext]_Contract!cvars
  <2>1. UNCHANGED <<op, opFp, exposed>>
    BY <1>6 DEF UserChange, vaultVars
  <2>2. \E x \in {None, Empty, Foreign} : dest' = [dest EXCEPT ![d] = x]
    BY <1>6 DEF UserChange
  <2>3. Contract!Tamper(d)
    BY <2>1, <2>2 DEF Contract!Tamper, StatusOf
  <2> QED
    BY <2>3 DEF Contract!CNext
<1>7. ASSUME NEW p \in Procs, NEW d \in Dests, Start(p, d)
      PROVE  [Contract!CNext]_Contract!cvars
  BY <1>7, Stutter DEF Start, vaultVars, ghosts, Visible
<1>8. ASSUME NEW p \in Procs, Step(p) \/ Crash(p) PROVE [Contract!CNext]_Contract!cvars
  BY <1>8, <1>2, <1>3, <1>4, <1>5, QuietStep, Stutter DEF Step
<1> QED
  BY <1>1, <1>6, <1>7, <1>8 DEF Next

\* Without interrupts, every behaviour of run_two_pass keeps the contract: one
\* exposure per destination, never abandoned, and a receipt that names it.
THEOREM Refinement ==
  ASSUME "interrupt" \notin Faults
  PROVE  Spec => KeepsContract
<1>1. Init => Contract!CInit
  BY DEF Init, Contract!CInit, StatusOf
<1>2. Inv /\ [Next]_vars => [Contract!CNext]_Contract!cvars
  BY ContractStep
<1> QED
  BY <1>1, <1>2, Safety, PTL DEF Spec, KeepsContract, Contract!CSpec

=============================================================================
