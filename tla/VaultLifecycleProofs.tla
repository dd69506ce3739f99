------------------------ MODULE VaultLifecycleProofs ------------------------
(***************************************************************************)
(* Proofs about the life of a dictionary database, for every number of     *)
(* processes, files and identities and every combination of faults.        *)
(*                                                                         *)
(* Inv is inductive.  The argument: a new file takes a number that no      *)
(* connection and no reservation knows, so it disturbs no fact about       *)
(* another file; a database is written once, by the transaction of its     *)
(* creation; the program unlinks nothing but its own reservation, which    *)
(* holds no database unless its COMMIT raised or it was shared.            *)
(***************************************************************************)
EXTENDS VaultLifecycle, TLAPS

\* Inv without the types.
Facts ==
  /\ HandlesAreKept /\ ReservationIsKept /\ HeaderIsFirst
  /\ DatabaseIsAttached /\ AcceptedIsAuthentic /\ CommittedIsVisible

\* The invariant is its types and the facts.
LEMMA InvIsFacts == Inv <=> TypeOK /\ Facts
BY DEF Inv, Facts

\* Init establishes the invariant.
LEMMA InitInv == Init => Inv
BY VaultAssumption
   DEF Init, Inv, TypeOK, HandlesAreKept, ReservationIsKept, HeaderIsFirst, DatabaseIsAttached,
       AcceptedIsAuthentic, CommittedIsVisible, Points, Creating, Opening, Tags, Bound

\* No step of a process leaves the types.
LEMMA TypeStep ==
  ASSUME Inv, NEW p \in Procs, Step(p)
  PROVE  TypeOK'
<1> USE VaultAssumption DEF TypeOK, Points, Creating, Opening, Tags, disk, handles, Move
<1>a. TypeOK /\ (pc[p] \in Creating \ {"reserve"} => reserved[p] # None)
  BY DEF Inv, HandlesAreKept
<1>e. ASSUME End(p) PROVE /\ pc' \in [Procs -> Points] /\ want' \in [Procs -> Identities \cup {None}]
                          /\ reserved' \in [Procs -> Files \cup {None}]
                          /\ conn' \in [Procs -> Files \cup {None}] /\ readonly' \in [Procs -> BOOLEAN]
                          /\ signal' \in [Procs -> BOOLEAN]
  BY <1>a, <1>e DEF End
<1>1. CASE \E id \in Identities : BeginCreate(p, id)
  BY <1>a, <1>1 DEF BeginCreate
<1>2. CASE \E id \in Identities : BeginOpen(p, id)
  <2>1. readonly' \in [Procs -> BOOLEAN]
    BY <1>a, <1>2 DEF BeginOpen
  <2>2. pc' \in [Procs -> Points] /\ want' \in [Procs -> Identities \cup {None}]
    BY <1>a, <1>2 DEF BeginOpen
  <2>3. UNCHANGED <<path, db, main, wal, reserved, conn, signal, tags>>
    BY <1>2 DEF BeginOpen
  <2> QED
    BY <1>a, <2>1, <2>2, <2>3
<1>3. CASE Reserve(p)
  BY <1>a, <1>e, <1>3 DEF Reserve, NewFile, Fresh
<1>4. CASE CreationFails(p)
  BY <1>a, <1>4 DEF CreationFails
<1>5. CASE ConnectNew(p)
  BY <1>a, <1>5 DEF ConnectNew, Connect, NewFile, Fresh, Tag
<1>6. CASE ApplyMode(p)
  BY <1>a, <1>6 DEF ApplyMode
<1>7. CASE BeginCreation(p)
  BY <1>a, <1>7 DEF BeginCreation, Touched
<1>8. CASE CommitCreation(p)
  BY <1>a, <1>8 DEF CommitCreation, Committed, Tag
<1>9. CASE AbortClose(p)
  BY <1>a, <1>9 DEF AbortClose, Close
<1>10. CASE AbortStat(p)
  <2>1. CASE End(p)
    BY <1>a, <1>e, <1>10, <2>1 DEF AbortStat, Residue, Tag
  <2>2. CASE ~End(p)
    BY <1>a, <1>10, <2>2 DEF AbortStat, Residue, Tag
  <2> QED
    BY <2>1, <2>2
<1>11. CASE AbortUnlink(p)
  <2>1. CASE End(p)
    BY <1>a, <1>e, <1>11, <2>1 DEF AbortUnlink, Residue, Tag
  <2>2. CASE ~End(p)
    BY <1>a, <1>11, <2>2 DEF AbortUnlink, Residue, Tag
  <2> QED
    BY <2>1, <2>2
<1>12. CASE OpeningFails(p)
  BY <1>a, <1>e, <1>12 DEF OpeningFails, Refuse
<1>13. CASE Probe(p)
  BY <1>a, <1>e, <1>13 DEF Probe, Refuse
<1>14. CASE Sidecars(p)
  BY <1>a, <1>14 DEF Sidecars
<1>15. CASE Validate(p)
  BY <1>a, <1>e, <1>15 DEF Validate, Refuse
<1>16. CASE ConnectExisting(p)
  BY <1>a, <1>16 DEF ConnectExisting, Connect, NewFile, Fresh, Tag
<1>17. CASE RequireMode(p)
  BY <1>a, <1>e, <1>17 DEF RequireMode, Touched, Reject, Close
<1>18. CASE ConnectReader(p)
  BY <1>a, <1>e, <1>18 DEF ConnectReader, Refuse
<1>19. CASE Bind(p)
  BY <1>a, <1>e, <1>19 DEF Bind, Mismatch, Touched, Reject, Close
<1>20. CASE Write(p)
  BY <1>a, <1>20 DEF Write, Committed
<1>21. CASE Checkpoint(p)
  BY <1>a, <1>21 DEF Checkpoint
<1>22. CASE CloseHandle(p)
  BY <1>a, <1>e, <1>22 DEF CloseHandle, Close
<1>23. CASE Crash(p)
  BY <1>a, <1>e, <1>23 DEF Crash
<1>24. CASE CreationIsInterrupted(p)
  BY <1>a, <1>24 DEF CreationIsInterrupted
<1>25. CASE CleanupIsInterrupted(p)
  <2>1. End(p) /\ tags' = [tags EXCEPT ![reserved[p]] = @ \cup {"silent"}]
    BY <1>25 DEF CleanupIsInterrupted, Tag
  <2>2. wal' = "none" \/ wal' = wal
    BY <1>25 DEF CleanupIsInterrupted, Close
  <2>3. UNCHANGED <<path, db>> /\ (UNCHANGED main \/ main' = [main EXCEPT ![conn[p]] = "whole"])
    BY <1>25 DEF CleanupIsInterrupted, Close
  <2>4. wal' \in {"none", "clean", "frames"}
    BY ONLY <1>a, <2>2 DEF TypeOK
  <2>5. main' \in [Files -> {"empty", "header", "whole"}]
    BY ONLY <1>a, <2>3 DEF TypeOK
  <2>6. tags' \in [Files -> SUBSET Tags]
    BY <1>a, <2>1
  <2> QED
    BY <1>a, <1>e, <2>1, <2>3, <2>4, <2>5, <2>6
<1> QED
  BY <1>1, <1>2, <1>3, <1>4, <1>5, <1>6, <1>7, <1>8, <1>9, <1>10, <1>11, <1>12, <1>13, <1>14, <1>15, <1>16, <1>17, <1>18, <1>19, <1>20, <1>21, <1>22, <1>23, <1>24, <1>25 DEF Step

\* Every step of a process keeps the facts.
LEMMA FactsStep ==
  ASSUME Inv, NEW p \in Procs, Step(p)
  PROVE  Facts'
<1> USE VaultAssumption
    DEF Inv, Facts, TypeOK, HandlesAreKept, ReservationIsKept, HeaderIsFirst,
        DatabaseIsAttached, AcceptedIsAuthentic, CommittedIsVisible, Creating, Bound, Detaching, disk, handles, Move
<1>1. CASE \E id \in Identities : BeginCreate(p, id)
  BY <1>1 DEF BeginCreate
<1>2. CASE \E id \in Identities : BeginOpen(p, id)
  BY <1>2 DEF BeginOpen
<1>3. CASE Reserve(p)
  <2>1. CASE End(p) /\ UNCHANGED <<disk, tags>>
    BY <2>1 DEF End
  <2>2. ASSUME NEW f \in Fresh, NewFile(f, {}), path = None, Move(p, "reserve", "connectNew"),
               reserved' = [reserved EXCEPT ![p] = f], UNCHANGED <<want, conn, readonly>>
        PROVE  Facts'
    <3>1. \A q \in Procs : conn[q] # f /\ reserved[q] # f
      BY DEF Fresh
    <3>2. ReservationIsKept' /\ HandlesAreKept'
      BY <2>2, <3>1 DEF NewFile, Fresh
    <3>3. HeaderIsFirst' /\ DatabaseIsAttached' /\ AcceptedIsAuthentic' /\ CommittedIsVisible'
      BY <2>2, <3>1 DEF NewFile, Fresh
    <3> QED
      BY <3>2, <3>3
  <2>3. ASSUME NEW f \in Fresh, NewFile(f, {"orphan"}), path = None, End(p), pc[p] = "reserve"
        PROVE  Facts'
    <3>1. \A q \in Procs : conn[q] # f /\ reserved[q] # f
      BY DEF Fresh
    <3>2. ReservationIsKept' /\ HandlesAreKept'
      BY <2>3, <3>1 DEF NewFile, Fresh, End
    <3>3. HeaderIsFirst' /\ DatabaseIsAttached' /\ AcceptedIsAuthentic' /\ CommittedIsVisible'
      BY <2>3, <3>1 DEF NewFile, Fresh, End
    <3> QED
      BY <3>2, <3>3
  <2> QED
    BY <1>3, <2>1, <2>2, <2>3 DEF Reserve
<1>4. CASE CreationFails(p)
  BY <1>4 DEF CreationFails
<1>5. CASE ConnectNew(p)
  BY <1>5 DEF ConnectNew, Connect, NewFile, Fresh, Tag
<1>6. CASE ApplyMode(p)
  BY <1>6 DEF ApplyMode
<1>7. CASE BeginCreation(p)
  BY <1>7 DEF BeginCreation, Touched
<1>8. CASE CommitCreation(p)
  <2>1. HandlesAreKept'
    BY <1>8 DEF CommitCreation, Committed, Tag
  <2>2. ReservationIsKept'
    <3>1. /\ pc[p] = "commit" /\ conn[p] \in Files
          /\ UNCHANGED <<path, conn>>
          /\ \A q \in Procs \ {p} : reserved'[q] = reserved[q] /\ pc'[q] = pc[q]
          /\ reserved'[p] \in {None, reserved[p]} /\ pc'[p] \in {"bound", "abortClose"}
      BY <1>8 DEF CommitCreation, Committed
    <3>2. /\ \A g \in Files : tags[g] \subseteq tags'[g]
          /\ \A g \in Files \ {conn[p]} : db'[g] = db[g]
      BY <1>8, <3>1 DEF CommitCreation, Tag
    <3>3. \/ reserved'[p] = None
          \/ db'[conn[p]] = db[conn[p]]
          \/ "ambiguous" \in tags'[conn[p]]
      BY <1>8, <3>1 DEF CommitCreation, Tag
    <3>4. conn[p] = reserved[p] \/ "shared" \in tags'[conn[p]]
      BY <3>1, <3>2
    <3>5. ASSUME NEW q \in Procs, reserved'[q] # None
          PROVE  db'[reserved'[q]] = None \/ tags'[reserved'[q]] \cap {"ambiguous", "shared"} # {}
      <4>1. reserved'[q] = reserved[q] /\ reserved[q] \in Files
        BY <3>1, <3>5
      <4>2. db[reserved[q]] = None \/ tags[reserved[q]] \cap {"ambiguous", "shared"} # {}
        BY <3>5, <4>1
      <4>3. CASE reserved[q] # conn[p]
        BY <4>1, <4>2, <4>3, <3>2
      <4>4. CASE reserved[q] = conn[p] /\ conn[p] # reserved[p]
        BY <4>1, <4>4, <3>4
      <4>5. CASE reserved[q] = conn[p] /\ conn[p] = reserved[p]
        <5>1. q = p
          BY <4>1, <4>5, <3>5
        <5> QED
          BY <5>1, <4>1, <4>2, <4>5, <3>2, <3>3, <3>5
      <4> QED
        BY <4>3, <4>4, <4>5
    <3> QED
      BY <3>1, <3>2, <3>5
  <2>3. HeaderIsFirst'
    BY <1>8 DEF CommitCreation, Committed, Tag
  <2>4. DatabaseIsAttached'
    BY <1>8 DEF CommitCreation, Committed, Tag
  <2>5. AcceptedIsAuthentic'
    BY <1>8 DEF CommitCreation, Committed, Tag
  <2>6. CommittedIsVisible'
    BY <1>8 DEF CommitCreation, Committed, Tag
  <2> QED
    BY <2>1, <2>2, <2>3, <2>4, <2>5, <2>6
<1>9. CASE AbortClose(p)
  BY <1>9 DEF AbortClose, Close
<1>10. CASE AbortStat(p)
  <2>1. CASE path = reserved[p] /\ pc' = [pc EXCEPT ![p] = "abortUnlink"] /\ UNCHANGED <<handles, tags>>
    BY <1>10, <2>1 DEF AbortStat
  <2>2. CASE End(p)
    BY <1>10, <2>2 DEF AbortStat, End, Residue, Tag
  <2> QED
    BY <1>10, <2>1, <2>2 DEF AbortStat, Residue
<1>11. CASE AbortUnlink(p)
  <2>1. path = reserved[p] /\ \A q \in Procs \ {p} : reserved[q] # reserved[p]
    BY <1>11 DEF AbortUnlink
  <2>2. db[reserved[p]] = None \/ tags[reserved[p]] \cap Detaching # {}
    BY <1>11 DEF AbortUnlink
  <2>3. ReservationIsKept'
    BY <1>11, <2>1 DEF AbortUnlink, End, Residue, Tag
  <2>4. DatabaseIsAttached'
    BY <1>11, <2>1, <2>2 DEF AbortUnlink, End, Residue, Tag
  <2>5. End(p) /\ path' \in {None, path} /\ UNCHANGED <<db, main, wal>>
    BY <1>11 DEF AbortUnlink, Residue
  <2>6. HandlesAreKept'
    BY <2>5 DEF End
  <2>7. HeaderIsFirst'
    BY <2>5 DEF End
  <2>8. AcceptedIsAuthentic'
    BY <2>5 DEF End
  <2>9. CommittedIsVisible'
    BY <2>5
  <2> QED
    BY <2>3, <2>4, <2>6, <2>7, <2>8, <2>9
<1>12. CASE OpeningFails(p)
  BY <1>12 DEF OpeningFails, Refuse, End
<1>13. CASE Probe(p)
  BY SMTT(40), <1>13 DEF Probe, Refuse, End
<1>14. CASE Sidecars(p)
  BY <1>14 DEF Sidecars
<1>15. CASE Validate(p)
  BY <1>15 DEF Validate, Refuse, End
<1>16. CASE ConnectExisting(p)
  BY <1>16 DEF ConnectExisting, Connect, NewFile, Fresh, Tag
<1>17. CASE RequireMode(p)
  <2>1. HandlesAreKept'
    <3>1. CASE End(p)
      BY <3>1 DEF End
    <3>2. CASE pc[p] = "mode" /\ pc' = [pc EXCEPT ![p] = "bind"] /\ UNCHANGED handles
      BY <3>2
    <3> QED
      BY <1>17, <3>1, <3>2 DEF RequireMode, Reject
  <2>2. ReservationIsKept'
    BY <1>17 DEF RequireMode, Touched, Reject, End, Close
  <2>3. HeaderIsFirst'
    BY <1>17 DEF RequireMode, Touched, Reject, End, Close
  <2>4. DatabaseIsAttached'
    BY <1>17 DEF RequireMode, Touched, Reject, End, Close
  <2>5. AcceptedIsAuthentic'
    BY <1>17 DEF RequireMode, Touched, Reject, End, Close
  <2>6. CommittedIsVisible'
    BY <1>17 DEF RequireMode, Touched, Reject, End, Close
  <2> QED
    BY <2>1, <2>2, <2>3, <2>4, <2>5, <2>6
<1>18. CASE ConnectReader(p)
  BY <1>18 DEF ConnectReader, Refuse, End
<1>19. CASE Bind(p)
  BY SMTT(40), <1>19 DEF Bind, Mismatch, Touched, Reject, End, Close
<1>20. CASE Write(p)
  BY <1>20 DEF Write, Committed
<1>21. CASE Checkpoint(p)
  BY <1>21 DEF Checkpoint
<1>22. CASE CloseHandle(p)
  BY <1>22 DEF CloseHandle, End, Close
<1>23. CASE Crash(p)
  BY <1>23 DEF Crash, End
<1>24. CASE CreationIsInterrupted(p)
  BY <1>24 DEF CreationIsInterrupted
<1>25. CASE CleanupIsInterrupted(p)
  <2>1. CASE UNCHANGED disk
    BY <1>25, <2>1 DEF CleanupIsInterrupted, End, Tag
  <2>2. CASE Close(p)
    <3>1. ReservationIsKept' /\ HandlesAreKept'
      BY <1>25, <2>2 DEF CleanupIsInterrupted, End, Tag, Close
    <3>2. HeaderIsFirst' /\ DatabaseIsAttached' /\ AcceptedIsAuthentic' /\ CommittedIsVisible'
      BY <1>25, <2>2 DEF CleanupIsInterrupted, End, Tag, Close
    <3> QED
      BY <3>1, <3>2
  <2> QED
    BY <1>25, <2>1, <2>2 DEF CleanupIsInterrupted
<1> QED
  BY <1>1, <1>2, <1>3, <1>4, <1>5, <1>6, <1>7, <1>8, <1>9, <1>10, <1>11, <1>12, <1>13, <1>14, <1>15, <1>16, <1>17, <1>18, <1>19, <1>20, <1>21, <1>22, <1>23, <1>24, <1>25 DEF Step

\* So does the operator, who marks the file that is taken away.
LEMMA OperatorStep ==
  ASSUME Inv, OperatorRemoves
  PROVE  Inv'
<1>1. TypeOK'
  BY DEF Inv, TypeOK, Tags, OperatorRemoves, Tag, handles
<1>2. Facts'
  BY VaultAssumption
     DEF Inv, Facts, TypeOK, HandlesAreKept, ReservationIsKept, HeaderIsFirst,
         DatabaseIsAttached, AcceptedIsAuthentic, CommittedIsVisible,
         Creating, Bound, Detaching, OperatorRemoves, Tag, handles
<1> QED
  BY <1>1, <1>2, InvIsFacts DEF Inv, Facts

\* Inv is an invariant of the dictionary's life.
THEOREM Safety == Spec => []Inv
<1>1. Inv /\ [Next]_vars => Inv'
  <2> SUFFICES ASSUME Inv, [Next]_vars PROVE Inv'
    OBVIOUS
  <2>1. ASSUME NEW p \in Procs, Step(p) PROVE Inv'
    BY <2>1, TypeStep, FactsStep DEF Inv, Facts
  <2>2. CASE OperatorRemoves
    BY <2>2, OperatorStep
  <2>3. CASE UNCHANGED vars
    BY <2>3 DEF vars, disk, handles, Inv, TypeOK, HandlesAreKept, ReservationIsKept, HeaderIsFirst,
         DatabaseIsAttached, AcceptedIsAuthentic, CommittedIsVisible, Bound, Detaching
  <2> QED
    BY <2>1, <2>2, <2>3 DEF Next
<1> QED
  BY InitInv, <1>1, PTL DEF Spec

\* A handle that was returned is on the database its caller asked for.
THEOREM AuthenticTheorem == Spec => []AcceptedIsAuthentic
<1>1. Inv => AcceptedIsAuthentic
  BY DEF Inv
<1> QED
  BY Safety, <1>1, PTL

\* And that database is at the dictionary path, but for the ways out that are named.
THEOREM AttachedTheorem == Spec => []AcceptedIsAttached
<1>1. Inv => AcceptedIsAttached
  BY VaultAssumption
     DEF Inv, TypeOK, HandlesAreKept, DatabaseIsAttached, AcceptedIsAuthentic, AcceptedIsAttached, Bound
<1> QED
  BY Safety, <1>1, PTL

\* A committed identity is in the log at the path or in the main file.
THEOREM VisibleTheorem == Spec => []CommittedIsVisible
<1>1. Inv => CommittedIsVisible
  BY DEF Inv
<1> QED
  BY Safety, <1>1, PTL

\* Whoever cleans up after a failed creation has a reservation to look after.
LEMMA CleanerHasReservation ==
  ASSUME Inv, NEW p \in Procs, pc[p] \in {"abortClose", "abortStat", "abortUnlink"}
  PROVE  reserved[p] \in Files /\ tags \in [Files -> SUBSET Tags]
  BY DEF Inv, TypeOK, HandlesAreKept, Creating

\* A tag that somebody accounts for is seen, and takes none away.
LEMMA TagAccounts ==
  ASSUME tags \in [Files -> SUBSET Tags], NEW f \in Files, NEW t \in Accounted,
         tags' = [tags EXCEPT ![f] = @ \cup {t}]
  PROVE  tags'[f] \cap Accounted # {} /\ \A g \in Files : tags[g] \subseteq tags'[g]
  <1>1. t \in tags'[f]
    OBVIOUS
  <1> QED
    BY <1>1

\* No step of a process drops a reservation that is still at the path unreported.
LEMMA HeldStep ==
  ASSUME Inv, ReservationIsHeld, NEW p \in Procs, Step(p)
  PROVE  ReservationIsHeld'
<1> USE VaultAssumption
    DEF Inv, TypeOK, HandlesAreKept, ReservationIsKept, ReservationIsHeld, Creating, Accounted,
        disk, handles, Move
<1>1. CASE \E id \in Identities : BeginCreate(p, id)
  BY <1>1 DEF BeginCreate
<1>2. CASE \E id \in Identities : BeginOpen(p, id)
  BY <1>2 DEF BeginOpen
<1>3. CASE Reserve(p)
  <2>1. ASSUME NEW f \in Fresh, NewFile(f, {}), path = None, Move(p, "reserve", "connectNew"),
               reserved' = [reserved EXCEPT ![p] = f], UNCHANGED <<want, conn, readonly>>
        PROVE  ReservationIsHeld'
    BY <2>1 DEF NewFile, Fresh
  <2>2. ASSUME NEW f \in Fresh, NewFile(f, {"orphan"}), path = None, End(p), pc[p] = "reserve"
        PROVE  ReservationIsHeld'
    <3>1. f \in Files /\ path' = f /\ tags'[f] \cap Accounted # {}
      BY <2>2 DEF NewFile, Fresh
    <3>2. \A q \in Procs : reserved[q] # f
      BY DEF Fresh
    <3>3. /\ \A q \in Procs \ {p} : reserved'[q] = reserved[q] /\ pc'[q] = pc[q] /\ conn'[q] = conn[q]
          /\ reserved'[p] = None /\ pc'[p] = "idle"
      BY <2>2 DEF End
    <3> QED
      BY <3>1, <3>2, <3>3
  <2>3. CASE End(p) /\ UNCHANGED <<disk, tags>> /\ pc[p] = "reserve"
    BY <2>3 DEF End
  <2> QED
    BY <1>3, <2>1, <2>2, <2>3 DEF Reserve
<1>4. CASE CreationFails(p)
  BY <1>4 DEF CreationFails
<1>5. CASE ConnectNew(p)
  <2>1. CASE path # None
    <3>1. UNCHANGED <<disk, reserved>> /\ \E x \in SUBSET {"shared"} : tags' = [tags EXCEPT ![path] = @ \cup x]
      BY <1>5, <2>1 DEF ConnectNew, Connect, Tag
    <3>2. /\ \A q \in Procs \ {p} : pc'[q] = pc[q] /\ conn'[q] = conn[q]
          /\ conn'[p] = path
      BY <1>5, <2>1 DEF ConnectNew, Connect
    <3>3. \A q \in Procs : reserved'[q] # None => pc'[q] \in Creating \ {"reserve"}
      BY <1>5, <3>1 DEF ConnectNew
    <3>4. \A q \in Procs : pc'[q] \in {"applyMode", "begin", "commit"} /\ conn'[q] # reserved'[q] => path' # reserved'[q]
      BY <3>1, <3>2
    <3> QED
      BY <2>1, <3>1, <3>3, <3>4
  <2>2. ASSUME path = None, NEW f \in Fresh, NewFile(f, {"shared"}),
               conn' = [conn EXCEPT ![p] = f], UNCHANGED reserved
        PROVE  ReservationIsHeld'
    <3>1. f \in Files /\ path' = f /\ tags'[f] \cap Accounted # {}
      BY <2>2 DEF NewFile, Fresh
    <3>2. \A q \in Procs : reserved'[q] # f
      BY <2>2 DEF Fresh
    <3>3. \A q \in Procs : reserved'[q] # None => pc'[q] \in Creating \ {"reserve"}
      BY <1>5, <2>2 DEF ConnectNew
    <3> QED
      BY <3>1, <3>2, <3>3
  <2> QED
    BY <1>5, <2>1, <2>2 DEF ConnectNew, Connect
<1>6. CASE ApplyMode(p)
  BY <1>6 DEF ApplyMode
<1>7. CASE BeginCreation(p)
  BY <1>7 DEF BeginCreation, Touched
<1>8. CASE CommitCreation(p)
  BY <1>8 DEF CommitCreation, Committed, Tag
<1>9. CASE AbortClose(p)
  BY <1>9 DEF AbortClose, Close
<1>10. CASE AbortStat(p)
  <2>1. CASE path = reserved[p] /\ pc' = [pc EXCEPT ![p] = "abortUnlink"] /\ UNCHANGED <<handles, tags>>
    BY <1>10, <2>1 DEF AbortStat
  <2>2. CASE path = None /\ End(p) /\ UNCHANGED tags
    BY <1>10, <2>2 DEF AbortStat, End
  <2>3. CASE Residue(p)
    <3>a. reserved[p] \in Files /\ tags \in [Files -> SUBSET Tags]
      BY <1>10, CleanerHasReservation DEF AbortStat
    <3>b. \E t \in Accounted : tags' = [tags EXCEPT ![reserved[p]] = @ \cup {t}]
      BY <2>3 DEF Residue, Tag
    <3>1. reserved[p] \in Files /\ tags'[reserved[p]] \cap Accounted # {}
      BY <3>a, <3>b, TagAccounts
    <3>2. \A f \in Files : tags[f] \subseteq tags'[f]
      BY <3>a, <3>b, TagAccounts
    <3>3. \A q \in Procs \ {p} : reserved'[q] = reserved[q] /\ pc'[q] = pc[q] /\ conn'[q] = conn[q]
      BY <2>3 DEF Residue, End
    <3>4. reserved'[p] = None /\ pc'[p] = "idle"
      BY <2>3 DEF Residue, End
    <3>5. UNCHANGED disk
      BY <1>10 DEF AbortStat
    <3> QED
      BY <3>1, <3>2, <3>3, <3>4, <3>5
  <2> QED
    BY <1>10, <2>1, <2>2, <2>3 DEF AbortStat
<1>11. CASE AbortUnlink(p)
  <2>1. /\ \A q \in Procs \ {p} : reserved'[q] = reserved[q] /\ pc'[q] = pc[q] /\ conn'[q] = conn[q]
        /\ reserved'[p] = None /\ pc'[p] = "idle"
    BY <1>11 DEF AbortUnlink, Residue, End
  <2>2. CASE path' = None
    BY <2>1, <2>2
  <2>3. CASE Residue(p) /\ UNCHANGED path
    <3>a. reserved[p] \in Files /\ tags \in [Files -> SUBSET Tags] /\ path = reserved[p]
      BY <1>11, CleanerHasReservation DEF AbortUnlink
    <3>b. \E t \in Accounted : tags' = [tags EXCEPT ![reserved[p]] = @ \cup {t}]
      BY <2>3 DEF Residue, Tag
    <3>1. path = reserved[p] /\ tags'[path] \cap Accounted # {}
      BY <3>a, <3>b, TagAccounts
    <3> QED
      BY <2>1, <2>3, <3>1
  <2> QED
    BY <1>11, <2>2, <2>3 DEF AbortUnlink
<1>12. CASE OpeningFails(p)
  BY <1>12 DEF OpeningFails, Refuse, End
<1>13. CASE Probe(p)
  BY <1>13 DEF Probe, Refuse, End
<1>14. CASE Sidecars(p)
  BY <1>14 DEF Sidecars
<1>15. CASE Validate(p)
  BY <1>15 DEF Validate, Refuse, End
<1>16. CASE ConnectExisting(p)
  <2>1. CASE path # None
    <3>1. UNCHANGED <<disk, reserved>> /\ \E x \in SUBSET {"shared"} : tags' = [tags EXCEPT ![path] = @ \cup x]
      BY <1>16, <2>1 DEF ConnectExisting, Connect, Tag
    <3>2. /\ \A q \in Procs \ {p} : pc'[q] = pc[q] /\ conn'[q] = conn[q]
          /\ conn'[p] = path
      BY <1>16, <2>1 DEF ConnectExisting, Connect
    <3>3. \A q \in Procs : reserved'[q] # None => pc'[q] \in Creating \ {"reserve"}
      BY <1>16, <3>1 DEF ConnectExisting
    <3>4. \A q \in Procs : pc'[q] \in {"applyMode", "begin", "commit"} /\ conn'[q] # reserved'[q] => path' # reserved'[q]
      BY <3>1, <3>2
    <3> QED
      BY <2>1, <3>1, <3>3, <3>4
  <2>2. ASSUME path = None, NEW f \in Fresh, NewFile(f, {"stray"}),
               conn' = [conn EXCEPT ![p] = f], UNCHANGED reserved
        PROVE  ReservationIsHeld'
    <3>1. f \in Files /\ path' = f /\ tags'[f] \cap Accounted # {}
      BY <2>2 DEF NewFile, Fresh
    <3>2. \A q \in Procs : reserved'[q] # f
      BY <2>2 DEF Fresh
    <3>3. \A q \in Procs : reserved'[q] # None => pc'[q] \in Creating \ {"reserve"}
      BY <1>16, <2>2 DEF ConnectExisting
    <3> QED
      BY <3>1, <3>2, <3>3
  <2> QED
    BY <1>16, <2>1, <2>2 DEF ConnectExisting, Connect
<1>17. CASE RequireMode(p)
  BY <1>17 DEF RequireMode, Touched, Reject, End, Close
<1>18. CASE ConnectReader(p)
  BY <1>18 DEF ConnectReader, Refuse, End
<1>19. CASE Bind(p)
  BY <1>19 DEF Bind, Mismatch, Touched, Reject, End, Close
<1>20. CASE Write(p)
  BY <1>20 DEF Write, Committed
<1>21. CASE Checkpoint(p)
  BY <1>21 DEF Checkpoint
<1>22. CASE CloseHandle(p)
  BY <1>22 DEF CloseHandle, End, Close
<1>23. CASE Crash(p)
  BY SMTT(40), <1>23 DEF Crash, End
<1>24. CASE CreationIsInterrupted(p)
  BY <1>24 DEF CreationIsInterrupted
<1>25. CASE CleanupIsInterrupted(p)
  <2>1. End(p) /\ UNCHANGED <<path, db>> /\ tags' = [tags EXCEPT ![reserved[p]] = @ \cup {"silent"}]
    BY <1>25 DEF CleanupIsInterrupted, Close, Tag
  <2>a. reserved[p] \in Files /\ tags \in [Files -> SUBSET Tags]
    BY <1>25, CleanerHasReservation DEF CleanupIsInterrupted
  <2>b. "silent" \in Accounted
    OBVIOUS
  <2>2. reserved[p] \in Files /\ tags'[reserved[p]] \cap Accounted # {}
    BY <2>1, <2>a, <2>b, TagAccounts
  <2>3. \A f \in Files : tags[f] \subseteq tags'[f]
    BY <2>1, <2>a, <2>b, TagAccounts
  <2>4. \A q \in Procs \ {p} : reserved'[q] = reserved[q] /\ pc'[q] = pc[q] /\ conn'[q] = conn[q]
    BY <2>1 DEF End
  <2>5. reserved'[p] = None /\ pc'[p] = "idle"
    BY <2>1 DEF End
  <2> QED
    BY <2>1, <2>2, <2>3, <2>4, <2>5
<1> QED
  BY <1>1, <1>2, <1>3, <1>4, <1>5, <1>6, <1>7, <1>8, <1>9, <1>10, <1>11, <1>12, <1>13, <1>14, <1>15, <1>16, <1>17, <1>18, <1>19, <1>20, <1>21, <1>22, <1>23, <1>24, <1>25 DEF Step

\* A creation that fails removes its file or reports it, unless an interrupt makes
\* it keep the failure of its clean-up to itself: when nobody is at work, an
\* incomplete file at the path has been accounted for in one of the ways that
\* Accounted names.
THEOREM ResidueTheorem == Spec => []FailureLeavesNothing
<1>1. Init => ReservationIsHeld
  BY DEF Init, ReservationIsHeld
<1>2. Inv /\ ReservationIsHeld /\ [Next]_vars => ReservationIsHeld'
  <2> SUFFICES ASSUME Inv, ReservationIsHeld, [Next]_vars PROVE ReservationIsHeld'
    OBVIOUS
  <2>1. ASSUME NEW p \in Procs, Step(p) PROVE ReservationIsHeld'
    BY <2>1, HeldStep
  <2>2. CASE OperatorRemoves
    BY <2>2, VaultAssumption
       DEF OperatorRemoves, Tag, handles, ReservationIsHeld, Inv, TypeOK, HandlesAreKept, Creating
  <2>3. CASE UNCHANGED vars
    BY <2>3 DEF vars, disk, handles, ReservationIsHeld
  <2> QED
    BY <2>1, <2>2, <2>3 DEF Next
<1>3. Spec => []ReservationIsHeld
  BY Safety, <1>1, <1>2, PTL DEF Spec
<1>4. ReservationIsHeld => FailureLeavesNothing
  BY DEF ReservationIsHeld, FailureLeavesNothing, Creating
<1> QED
  BY <1>3, <1>4, PTL
=============================================================================
