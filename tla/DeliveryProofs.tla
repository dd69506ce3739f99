---------------------------- MODULE DeliveryProofs ----------------------------
(***************************************************************************)
(* Proofs about Delivery, for any number of invocations, destinations,      *)
(* results and user changes and every kind of fault: who may touch a        *)
(* staging tree, who answers for what is left in one, and that recover and  *)
(* create_transfer_bundle implement DeliveryContract.                       *)
(***************************************************************************)
EXTENDS Delivery, TLAPS

Errors == {"none", "failed", "cancelled", "interrupted"}
Outcomes == {"none", "refused", "busy", "stale", "failed", "cancelled", "interrupted",
             "residue", "crashed", "callback", "delivered"}
Places == Kinds \X Dests

TypeOK ==
  /\ pc \in [Procs -> Points]
  /\ kind \in [Procs -> Kinds]
  /\ tgt \in [Procs -> Dests]
  /\ lock \in [Places -> Procs \cup {None}]
  /\ flags \in [Procs -> SUBSET {"created", "renamed"}]
  /\ err \in [Procs -> Errors]
  /\ outcome \in [Procs -> Outcomes]
  /\ DOMAIN todo = Procs
  /\ DOMAIN entries = Procs
  /\ DOMAIN staging = Places
  /\ \A at \in Places : DOMAIN staging[at] = {"root", "phase", "tree"}

\* The kernel lock excludes two invocations of one operation and destination.
LockIsHeld == \A p \in Procs : pc[p] \in Locked => lock[Place(p)] = p

\* A payload lies under a root; there is no root without one who created it.
RootHoldsTheTree == \A at \in Places : ~staging[at].root => staging[at].tree = <<>>

\* What the handlers may conclude from where an invocation stands.
ControlIsKnown ==
  \A p \in Procs :
    /\ pc[p] # "ended" => outcome[p] = "none"
    /\ pc[p] \in Inner \cup {"cleanup"} => "created" \in flags[p] /\ staging[Place(p)].root
    /\ "renamed" \in flags[p] => pc[p] \in {"mark", "remove", "cleanup", "complete"}
    /\ pc[p] \in {"sync", "mark", "remove"} => Staged(p) = <<>>
    /\ pc[p] = "cleanup" /\ "renamed" \in flags[p] => Staged(p) = <<>>
    /\ pc[p] = "cleanup" => err[p] # "none"

StagingInv ==
  TypeOK /\ LockIsHeld /\ RootHoldsTheTree /\ ControlIsKnown /\ StagingIsAccountedFor

-----------------------------------------------------------------------------
LEMMA PlaceType == TypeOK => \A p \in Procs : Place(p) \in Places
  BY DEF TypeOK, Place, Places

\* The names of the points of control are different.
LEMMA PointFacts ==
  /\ Inner \subseteq Points /\ Inner \subseteq Locked /\ Checks \subseteq Points
  /\ "cleanup" \in Locked /\ "create" \in Locked
  /\ {"idle", "lock", "complete", "ended", "create", "cleanup"} \subseteq Points
  /\ {"idle", "lock", "complete", "ended", "create", "cleanup"} \cap Inner = {}
  /\ {"idle", "lock", "complete", "ended"} \cap Locked = {}
  /\ Checks \cap Locked = {}
  BY DEF Inner, Points, Locked, Checks

LEMMA InitStaging == Init => StagingInv
<1> SUFFICES ASSUME Init PROVE StagingInv
  OBVIOUS
<1>1. TypeOK
  BY DEF Init, TypeOK, Places, Points, Kinds, Errors, Outcomes, NoStaging
<1>2. LockIsHeld
  BY DEF Init, LockIsHeld, Locked, Inner
<1>3. RootHoldsTheTree /\ StagingIsAccountedFor
  BY DEF Init, RootHoldsTheTree, StagingIsAccountedFor, Places, NoStaging
<1>4. ControlIsKnown
  BY DEF Init, ControlIsKnown, Inner
<1> QED
  BY <1>1, <1>2, <1>3, <1>4 DEF StagingInv

-----------------------------------------------------------------------------
\* What an invocation does: one of its steps, a fault, or its beginning.
Acts(p) ==
  \/ BeginRecover(p) \/ BeginBundle(p) \/ Step(p) \/ Fail(p) \/ Quit(p) \/ Crash(p)

\* Users touch neither staging trees nor invocations.
UserActs == EditWorking \/ \E d \in Dests : EditDelivered(d)

LEMMA NextCases == Next <=> (\E p \in Procs : Acts(p)) \/ UserActs
  BY DEF Next, Acts, UserActs

\* The shape of every action of one invocation: its own variables, and the
\* staging root and the lock of its own operation and destination.
Local(p) ==
  /\ tgt' = tgt
  /\ UNCHANGED <<result, sensitive, working, dirty>>
  /\ kind'[p] # kind[p] => pc[p] = "idle"
  /\ pc[p] # "ended"
  /\ \A q \in Procs \ {p} :
       /\ pc'[q] = pc[q] /\ kind'[q] = kind[q] /\ flags'[q] = flags[q]
       /\ todo'[q] = todo[q]
       /\ err'[q] = err[q] /\ outcome'[q] = outcome[q]
  /\ \A at \in Places : (at # Place(p) \/ pc[p] \notin Locked) =>
       /\ staging'[at] = staging[at]
       /\ lock'[at] # lock[at] => pc[p] = "lock" /\ lock[at] = None

LEMMA LocalStep ==
  ASSUME NEW p \in Procs, TypeOK, Acts(p)
  PROVE  TypeOK' /\ Local(p)
<1>p. Place(p) \in Places
  BY PlaceType
<1> USE <1>p DEF Local, TypeOK, Goto, Answer, Advance, Raise, Unlock, vars, userVars,
                 fileVars, idVars, memVars, Outcomes, Errors
<1>1. CASE BeginRecover(p)
  BY <1>1, PointFacts DEF BeginRecover, Begin, Kinds, Checks, Inner, Points, Locked
<1>2. CASE BeginBundle(p)
  BY <1>2, PointFacts DEF BeginBundle, Begin, Kinds, Checks, Inner, Points, Locked
<1>3. CASE Check(p)
  BY <1>3, PointFacts DEF Check, Checks, Inner, Points, Locked
<1>4. CASE Fingerprint(p)
  BY <1>4, PointFacts DEF Fingerprint, Checks, Inner, Points, Locked
<1>5. CASE Allow(p)
  BY <1>5, PointFacts DEF Allow, Checks, Inner, Points, Locked
<1>6. CASE Acquire(p)
  BY <1>6, PointFacts DEF Acquire, Checks, Inner, Points, Locked
<1>7. CASE Create(p)
  BY <1>7, PointFacts DEF Create, Checks, Inner, Points, Locked
<1>8. CASE \E path \in todo[p] : CopyArtifact(p, path)
  BY <1>8, PointFacts DEF CopyArtifact, StageFile, Checks, Inner, Points, Locked
<1>9. CASE \E path \in DOMAIN Staged(p) : DescribeArtifact(p, path)
  BY <1>9, PointFacts DEF DescribeArtifact, Checks, Inner, Points, Locked
<1>10. CASE \E t \in todo[p] : RecoverTable(p, t)
  BY <1>10, PointFacts DEF RecoverTable, Checks, Inner, Points, Locked
<1>11. CASE WriteManifest(p)
  BY <1>11, PointFacts DEF WriteManifest, StageFile, Checks, Inner, Points, Locked
<1>12. CASE PersistPayload(p)
  BY <1>12, PointFacts DEF PersistPayload, Checks, Inner, Points, Locked
<1>13. CASE TablesRecovered(p)
  BY <1>13, PointFacts DEF TablesRecovered, Checks, Inner, Points, Locked
<1>14. CASE SelfVerify(p)
  BY <1>14, PointFacts DEF SelfVerify, Checks, Inner, Points, Locked
<1>15. CASE MarkReady(p)
  BY <1>15, PointFacts DEF MarkReady, Checks, Inner, Points, Locked
<1>16. CASE PromoteCheck(p)
  BY <1>16, PointFacts DEF PromoteCheck, Checks, Inner, Points, Locked
<1>17. CASE Rename(p)
  BY <1>17, PointFacts DEF Rename, Checks, Inner, Points, Locked
<1>18. CASE SyncRename(p)
  BY <1>18, PointFacts DEF SyncRename, Checks, Inner, Points, Locked
<1>19. CASE MarkPromoted(p)
  BY <1>19, PointFacts DEF MarkPromoted, Checks, Inner, Points, Locked
<1>20. CASE RemoveMetadata(p)
  BY <1>20, PointFacts DEF RemoveMetadata, NoStaging, Checks, Inner, Points, Locked
<1>21. CASE Complete(p)
  BY <1>21, PointFacts DEF Complete, Checks, Inner, Points, Locked
<1>22. CASE Cleanup(p)
  BY <1>22, PointFacts DEF Cleanup, NoStaging, Checks, Inner, Points, Locked
<1>23. CASE Fail(p)
  BY <1>23, PointFacts DEF Fail, Exception, Checks, Inner, Points, Locked
<1>24. CASE Quit(p)
  BY <1>24, PointFacts DEF Quit, Checks, Inner, Points, Locked
<1>25. CASE Crash(p)
  BY <1>25, PointFacts DEF Crash, Checks, Inner, Points, Locked
<1> QED
  BY <1>1, <1>2, <1>3, <1>4, <1>5, <1>6, <1>7, <1>8, <1>9, <1>10, <1>11, <1>12, <1>13, <1>14, <1>15, <1>16, <1>17, <1>18, <1>19, <1>20, <1>21, <1>22, <1>23, <1>24, <1>25 DEF Acts, Step

-----------------------------------------------------------------------------
\* What an invocation's own action leaves behind.
OwnStep(p) ==
  /\ pc'[p] \in Locked => lock'[Place(p)] = p
  /\ pc'[p] # "ended" => outcome'[p] = "none"
  /\ pc'[p] \in Inner \cup {"cleanup"} => "created" \in flags'[p] /\ staging'[Place(p)].root
  /\ "renamed" \in flags'[p] => pc'[p] \in {"mark", "remove", "cleanup", "complete"}
  /\ pc'[p] \in {"sync", "mark", "remove"} => staging'[Place(p)].tree = <<>>
  /\ pc'[p] = "cleanup" /\ "renamed" \in flags'[p] => staging'[Place(p)].tree = <<>>
  /\ pc'[p] = "cleanup" => err'[p] # "none"
  /\ pc[p] \in Locked => (~staging'[Place(p)].root => staging'[Place(p)].tree = <<>>)
  /\ pc[p] \in Inner \cup {"cleanup"} /\ staging'[Place(p)].tree # <<>> =>
       \/ pc'[p] \in Inner \cup {"cleanup"}
       \/ outcome'[p] \in {"crashed", "residue", "interrupted"}
  /\ pc[p] = "create" /\ staging'[Place(p)].tree # <<>> => staging'[Place(p)] = staging[Place(p)]
  /\ staging[Place(p)].root /\ staging'[Place(p)] # staging[Place(p)] =>
       lock[Place(p)] = p /\ "created" \in flags[p]

LEMMA OwnStepLemma ==
  ASSUME NEW p \in Procs, StagingInv, Acts(p), kind' = kind
  PROVE  OwnStep(p)
<1>p. Place(p) \in Places /\ TypeOK /\ DOMAIN staging[Place(p)] = {"root", "phase", "tree"}
  BY PlaceType DEF StagingInv, TypeOK
<1>l. /\ pc[p] \in Locked => lock[Place(p)] = p
      /\ ~staging[Place(p)].root => staging[Place(p)].tree = <<>>
  BY <1>p DEF StagingInv, LockIsHeld, RootHoldsTheTree
<1>c. /\ pc[p] # "ended" => outcome[p] = "none"
      /\ pc[p] \in Inner \cup {"cleanup"} => "created" \in flags[p] /\ staging[Place(p)].root
      /\ "renamed" \in flags[p] => pc[p] \in {"mark", "remove", "cleanup", "complete"}
      /\ pc[p] \in {"sync", "mark", "remove"} => staging[Place(p)].tree = <<>>
      /\ pc[p] = "cleanup" /\ "renamed" \in flags[p] => staging[Place(p)].tree = <<>>
      /\ pc[p] = "cleanup" => err[p] # "none"
  BY DEF StagingInv, ControlIsKnown, Staged
<1> USE <1>p, <1>l, <1>c DEF OwnStep, TypeOK, Goto, Answer, Advance, Raise, Unlock, userVars,
                 fileVars, idVars, memVars
<1>1. CASE BeginRecover(p)
  BY <1>1, PointFacts DEF BeginRecover, Begin, Kinds, Checks, Inner, Points, Locked
<1>2. CASE BeginBundle(p)
  BY <1>2, PointFacts DEF BeginBundle, Begin, Kinds, Checks, Inner, Points, Locked
<1>3. CASE Check(p)
  BY <1>3, PointFacts DEF Check, Checks, Inner, Points, Locked
<1>4. CASE Fingerprint(p)
  BY <1>4, PointFacts DEF Fingerprint, Checks, Inner, Points, Locked
<1>5. CASE Allow(p)
  BY <1>5, PointFacts DEF Allow, Checks, Inner, Points, Locked
<1>6. CASE Acquire(p)
  BY <1>6, PointFacts DEF Acquire, Checks, Inner, Points, Locked
<1>7. CASE Create(p)
  BY <1>7, PointFacts DEF Create, Checks, Inner, Points, Locked
<1>8. CASE \E path \in todo[p] : CopyArtifact(p, path)
  BY <1>8, PointFacts DEF CopyArtifact, StageFile, Checks, Inner, Points, Locked
<1>9. CASE \E path \in DOMAIN Staged(p) : DescribeArtifact(p, path)
  BY <1>9, PointFacts DEF DescribeArtifact, Checks, Inner, Points, Locked
<1>10. CASE \E t \in todo[p] : RecoverTable(p, t)
  BY <1>10, PointFacts DEF RecoverTable, Checks, Inner, Points, Locked
<1>11. CASE WriteManifest(p)
  BY <1>11, PointFacts DEF WriteManifest, StageFile, Checks, Inner, Points, Locked
<1>12. CASE PersistPayload(p)
  BY <1>12, PointFacts DEF PersistPayload, Checks, Inner, Points, Locked
<1>13. CASE TablesRecovered(p)
  BY <1>13, PointFacts DEF TablesRecovered, Checks, Inner, Points, Locked
<1>14. CASE SelfVerify(p)
  BY <1>14, PointFacts DEF SelfVerify, Checks, Inner, Points, Locked
<1>15. CASE MarkReady(p)
  BY <1>15, PointFacts DEF MarkReady, Checks, Inner, Points, Locked
<1>16. CASE PromoteCheck(p)
  BY <1>16, PointFacts DEF PromoteCheck, Checks, Inner, Points, Locked
<1>17. CASE Rename(p)
  BY <1>17, PointFacts DEF Rename, Checks, Inner, Points, Locked
<1>18. CASE SyncRename(p)
  BY <1>18, PointFacts DEF SyncRename, Checks, Inner, Points, Locked
<1>19. CASE MarkPromoted(p)
  BY <1>19, PointFacts DEF MarkPromoted, Checks, Inner, Points, Locked
<1>20. CASE RemoveMetadata(p)
  BY <1>20, PointFacts DEF RemoveMetadata, NoStaging, Checks, Inner, Points, Locked
<1>21. CASE Complete(p)
  BY <1>21, PointFacts DEF Complete, Checks, Inner, Points, Locked
<1>22. CASE Cleanup(p)
  BY <1>22, PointFacts DEF Cleanup, NoStaging, Checks, Inner, Points, Locked
<1>23. CASE Fail(p)
  BY <1>23, PointFacts DEF Fail, Exception, Checks, Inner, Points, Locked
<1>24. CASE Quit(p)
  BY <1>24, PointFacts DEF Quit, Checks, Inner, Points, Locked
<1>25. CASE Crash(p)
  BY <1>25, PointFacts DEF Crash, Checks, Inner, Points, Locked
<1> QED
  BY <1>1, <1>2, <1>3, <1>4, <1>5, <1>6, <1>7, <1>8, <1>9, <1>10, <1>11, <1>12, <1>13, <1>14, <1>15, <1>16, <1>17, <1>18, <1>19, <1>20, <1>21, <1>22, <1>23, <1>24, <1>25 DEF Acts, Step

-----------------------------------------------------------------------------
\* A beginning leaves files and locks alone, and its invocation holds nothing.
LEMMA BeginKeeps ==
  ASSUME NEW p \in Procs, StagingInv, BeginRecover(p) \/ BeginBundle(p)
  PROVE  StagingInv'
<1>1. TypeOK /\ TypeOK' /\ Local(p)
  BY LocalStep DEF StagingInv, Acts
<1>2. /\ pc[p] = "idle" /\ pc'[p] \in Checks \cup {"ended"}
      /\ pc'[p] # "ended" => outcome'[p] = outcome[p]
      /\ "renamed" \in flags'[p] => "renamed" \in flags[p]
      /\ staging' = staging /\ lock' = lock
  BY <1>1 DEF TypeOK, BeginRecover, BeginBundle, Begin, Answer, Advance, Goto, memVars,
             fileVars, Checks
<1>3. /\ pc'[p] \notin Locked /\ pc[p] # "ended"
      /\ pc'[p] \notin Inner \cup {"cleanup"} /\ pc[p] \notin Inner \cup {"cleanup"}
  BY <1>2, PointFacts DEF Checks, Inner
<1>4. \A q \in Procs \ {p} : Place(q)' = Place(q) /\ Staged(q)' = Staged(q)
  BY <1>1, <1>2 DEF Local, Place, Staged, TypeOK
<1>5. LockIsHeld' /\ RootHoldsTheTree'
  BY <1>1, <1>2, <1>3, <1>4 DEF StagingInv, LockIsHeld, RootHoldsTheTree, Local
<1>6. ControlIsKnown'
  <2> SUFFICES ASSUME NEW q \in Procs
               PROVE  (/\ pc[q] # "ended" => outcome[q] = "none"
                       /\ pc[q] \in Inner \cup {"cleanup"} =>
                            "created" \in flags[q] /\ staging[Place(q)].root
                       /\ "renamed" \in flags[q] =>
                            pc[q] \in {"mark", "remove", "cleanup", "complete"}
                       /\ pc[q] \in {"sync", "mark", "remove"} => Staged(q) = <<>>
                       /\ pc[q] = "cleanup" /\ "renamed" \in flags[q] => Staged(q) = <<>>
                       /\ pc[q] = "cleanup" => err[q] # "none")'
    BY DEF ControlIsKnown
  <2>1. CASE q = p
    BY <2>1, <1>2, <1>3 DEF StagingInv, ControlIsKnown, Inner
  <2>2. CASE q # p
    BY <2>2, <1>1, <1>2, <1>4 DEF StagingInv, ControlIsKnown, Local
  <2> QED
    BY <2>1, <2>2
<1>7. StagingIsAccountedFor'
  <2> SUFFICES ASSUME NEW at \in Places, staging[at].tree # <<>>
               PROVE  \E q \in Procs :
                        /\ Place(q)' = at
                        /\ \/ pc'[q] \in Inner \cup {"cleanup"}
                           \/ outcome'[q] \in {"crashed", "residue", "interrupted"}
    BY <1>2 DEF StagingIsAccountedFor, Places
  <2>1. PICK q \in Procs :
          /\ Place(q) = at
          /\ \/ pc[q] \in Inner \cup {"cleanup"}
             \/ outcome[q] \in {"crashed", "residue", "interrupted"}
    BY DEF StagingInv, StagingIsAccountedFor, Places
  <2>2. q # p
    BY <2>1, <1>2, <1>3 DEF StagingInv, ControlIsKnown
  <2> QED
    BY <2>1, <2>2, <1>1, <1>4 DEF Local
<1> QED
  BY <1>1, <1>5, <1>6, <1>7 DEF StagingInv

LEMMA ActsKeep ==
  ASSUME NEW p \in Procs, StagingInv, Acts(p), ~(BeginRecover(p) \/ BeginBundle(p))
  PROVE  StagingInv' /\ OwnStep(p) /\ kind' = kind
<1>k. kind' = kind /\ tgt' = tgt
  BY DEF Acts, Step, Check, Fingerprint, Allow, Acquire, Create, CopyArtifact, DescribeArtifact,
         RecoverTable, WriteManifest, PersistPayload, TablesRecovered, SelfVerify, MarkReady,
         PromoteCheck, Rename, SyncRename, MarkPromoted, RemoveMetadata, Complete, Cleanup,
         Fail, Quit, Crash, idVars
<1>1. TypeOK /\ TypeOK' /\ Local(p) /\ OwnStep(p)
  BY <1>k, LocalStep, OwnStepLemma DEF StagingInv
<1>p. \A q \in Procs : Place(q)' = Place(q) /\ Place(q) \in Places
  BY <1>k, <1>1, PlaceType DEF Place
<1>s. \A q \in Procs : Staged(q)' = staging'[Place(q)].tree
  BY <1>p DEF Staged
<1>2. \A q \in Procs \ {p} : pc[q] \in Locked /\ pc[p] \in Locked => Place(q) # Place(p)
  BY DEF StagingInv, LockIsHeld
\* Other invocations that hold a lock keep it and their staging tree.
<1>3. \A q \in Procs \ {p} : pc[q] \in Locked =>
        lock'[Place(q)] = lock[Place(q)] /\ staging'[Place(q)] = staging[Place(q)]
  <2> SUFFICES ASSUME NEW q \in Procs \ {p}, pc[q] \in Locked
               PROVE  lock'[Place(q)] = lock[Place(q)] /\ staging'[Place(q)] = staging[Place(q)]
    OBVIOUS
  <2>1. lock[Place(q)] = q /\ q # None
    BY DeliveryAssumption DEF StagingInv, LockIsHeld
  <2> QED
    BY <2>1, <1>1, <1>2, <1>p DEF Local
<1>4. LockIsHeld'
  BY <1>1, <1>3, <1>p DEF StagingInv, LockIsHeld, Local, OwnStep
<1>5. RootHoldsTheTree'
  BY <1>1, <1>p DEF StagingInv, RootHoldsTheTree, Local, OwnStep
<1>6. ControlIsKnown'
  <2> SUFFICES ASSUME NEW q \in Procs
               PROVE  (/\ pc[q] # "ended" => outcome[q] = "none"
                       /\ pc[q] \in Inner \cup {"cleanup"} =>
                            "created" \in flags[q] /\ staging[Place(q)].root
                       /\ "renamed" \in flags[q] =>
                            pc[q] \in {"mark", "remove", "cleanup", "complete"}
                       /\ pc[q] \in {"sync", "mark", "remove"} => Staged(q) = <<>>
                       /\ pc[q] = "cleanup" /\ "renamed" \in flags[q] => Staged(q) = <<>>
                       /\ pc[q] = "cleanup" => err[q] # "none")'
    BY DEF ControlIsKnown
  <2>1. CASE q = p
    BY <2>1, <1>1, <1>p, <1>s DEF OwnStep
  <2>2. CASE q # p
    <3>1. pc[q] \in Inner \cup {"cleanup"} => staging'[Place(q)] = staging[Place(q)]
      BY <2>2, <1>3, PointFacts
    <3> QED
      BY <3>1, <2>2, <1>1, <1>p, <1>s DEF StagingInv, ControlIsKnown, Local, Staged, Inner
  <2> QED
    BY <2>1, <2>2
<1>7. StagingIsAccountedFor'
  <2> SUFFICES ASSUME NEW at \in Places, staging'[at].tree # <<>>
               PROVE  \E q \in Procs :
                        /\ Place(q) = at
                        /\ \/ pc'[q] \in Inner \cup {"cleanup"}
                           \/ outcome'[q] \in {"crashed", "residue", "interrupted"}
    BY <1>p DEF StagingIsAccountedFor, Places
  <2>1. CASE at = Place(p) /\ pc[p] \in Inner \cup {"cleanup"}
    BY <2>1, <1>1 DEF OwnStep
  <2>2. CASE ~(at = Place(p) /\ pc[p] \in Inner \cup {"cleanup"})
    <3>1. staging'[at] = staging[at]
      <4>1. CASE at = Place(p) /\ pc[p] = "create"
        BY <4>1, <1>1 DEF OwnStep
      <4>2. CASE at # Place(p) \/ pc[p] \notin Locked
        BY <4>2, <1>1 DEF Local
      <4> QED
        BY <4>1, <4>2, <2>2 DEF Locked
    <3>2. PICK q \in Procs :
            /\ Place(q) = at
            /\ \/ pc[q] \in Inner \cup {"cleanup"}
               \/ outcome[q] \in {"crashed", "residue", "interrupted"}
      BY <3>1 DEF StagingInv, StagingIsAccountedFor, Places
    <3>3. q # p
      <4>1. pc[p] # "ended" => outcome[p] = "none"
        BY DEF StagingInv, ControlIsKnown
      <4> QED
        BY <4>1, <3>2, <2>2, <1>1 DEF Local
    <3> QED
      BY <3>2, <3>3, <1>1 DEF Local
  <2> QED
    BY <2>1, <2>2
<1> QED
  BY <1>k, <1>1, <1>4, <1>5, <1>6, <1>7 DEF StagingInv

\* Everything a staging tree depends on is in these variables.
stagingVars == <<pc, kind, tgt, lock, flags, err, outcome, todo, entries, staging>>

LEMMA UsersKeep ==
  ASSUME StagingInv, UserActs \/ vars' = vars
  PROVE  StagingInv' /\ staging' = staging
<1>1. stagingVars' = stagingVars
  BY DEF UserActs, EditWorking, EditDelivered, vars, userVars, fileVars, idVars, memVars,
         stagingVars
<1> QED
  BY <1>1 DEF stagingVars, StagingInv, TypeOK, LockIsHeld, RootHoldsTheTree, ControlIsKnown,
              StagingIsAccountedFor, Place, Staged

LEMMA StagingInductive == StagingInv /\ [Next]_vars => StagingInv'
  BY BeginKeeps, ActsKeep, UsersKeep, NextCases

\* The invariant of the staging trees and their owners, for every fault
\* (engine/publication.py 340-583, engine/locking.py).
THEOREM StagingSafety == Spec => []StagingInv
<1>1. Init => StagingInv
  BY InitStaging
<1>2. StagingInv /\ [Next]_vars => StagingInv'
  BY StagingInductive
<1> QED
  BY <1>1, <1>2, PTL DEF Spec

\* No failure and no cancellation leaves a staging tree with payload, original
\* data of a recovery included, behind silently: whoever is responsible is
\* running, has crashed, was interrupted or has said so (recovery.py 330-355).
THEOREM AccountedTheorem == Spec => []StagingIsAccountedFor
  BY StagingSafety, PTL DEF StagingInv

\* An existing staging root is changed only by the invocation that created it,
\* while it holds the lock (engine/publication.py 355-358, 564-583).
THEOREM CreatorTheorem == Spec => OnlyTheCreatorWrites
<1> DEFINE Guarded(at) ==
      staging[at].root /\ staging'[at] # staging[at] =>
        \E p \in Procs : Place(p) = at /\ lock[at] = p /\ "created" \in flags[p]
<1>1. StagingInv /\ [Next]_vars => [\A at \in Kinds \X Dests : Guarded(at)]_vars
  <2> SUFFICES ASSUME StagingInv, [Next]_vars, NEW at \in Places
               PROVE  Guarded(at)
    BY DEF Places
  <2>1. CASE UserActs \/ vars' = vars
    BY <2>1, UsersKeep
  <2>2. ASSUME NEW p \in Procs, BeginRecover(p) \/ BeginBundle(p)
        PROVE  Guarded(at)
    BY <2>2 DEF BeginRecover, BeginBundle, Begin, fileVars
  <2>3. ASSUME NEW p \in Procs, Acts(p), ~(BeginRecover(p) \/ BeginBundle(p))
        PROVE  Guarded(at)
    <3>1. TypeOK /\ Local(p) /\ OwnStep(p)
      BY <2>3, LocalStep, ActsKeep DEF StagingInv
    <3> QED
      BY <3>1 DEF Local, OwnStep
  <2> QED
    BY <2>1, <2>2, <2>3, NextCases
<1> QED
  BY <1>1, StagingSafety, PTL DEF Spec, OnlyTheCreatorWrites

-----------------------------------------------------------------------------
(***************************************************************************)
(* recover and create_transfer_bundle implement DeliveryContract, for any   *)
(* number of invocations, destinations and user changes and every fault;    *)
(* a bundle that standalone verification accepts is the one that was made;  *)
(* and what is answered as delivered is the published dataset.              *)
(*                                                                         *)
(* The contract needs one fact about the constants that a model value has   *)
(* and TLC cannot evaluate: None, an absent directory, is not a directory   *)
(* tree, that is, not a function.                                           *)
(***************************************************************************)

IsTree(x) == x = [q \in DOMAIN x |-> x[q]]

NoneIsNoTree == ~IsTree(None)

\* A whole delivery of operation k, with the file system and the tables given.
IsWhole(k, s, tables, tree) ==
  IF k = "bundle" THEN verify_bundle_core(tree, s) ELSE WholeRecovery(tables, tree)

FilesTyped ==
  /\ DOMAIN dest = Dests /\ DOMAIN delivered = Dests
  /\ origin \in [Dests -> Procs \cup {None}]
  /\ \A at \in Places : IsTree(staging[at].tree)

\* A destination that exists was delivered whole by somebody.
DeliveryHasOwner ==
  \A d \in Dests :
    /\ dest[d] = None <=> origin[d] = None
    /\ origin[d] # None =>
         /\ pc[origin[d]] # "idle"
         /\ IsWhole(kind[origin[d]], sensitive, result.tables, delivered[d])

\* What was verified is still what lies in the staging tree at the rename.
VerifiedStaysWhole ==
  \A p \in Procs : pc[p] \in {"ready", "promote", "rename"} =>
    IsWhole(kind[p], sensitive, result.tables, staging[Place(p)].tree)

\* After its rename an invocation owns its destination.
RenamedOwns ==
  \A p \in Procs : pc[p] \in {"sync", "mark", "remove", "complete"} => origin[tgt[p]] = p

DeliveryInv == FilesTyped /\ DeliveryHasOwner /\ VerifiedStaysWhole /\ RenamedOwns

LEMMA EmptyIsTree == IsTree(<<>>) /\ DOMAIN <<>> = {}
  BY DEF IsTree

LEMMA WithIsTree ==
  ASSUME NEW tree, NEW path, NEW content
  PROVE  IsTree(With(tree, path, content)) /\ IsTree(Without(tree, path))
  BY DEF IsTree, With, Without

LEMMA AgreesIsWhole ==
  ASSUME NEW staged, RecoveryAgrees(staged, working)
  PROVE  WholeRecovery(result.tables, staged)
<1>1. \A t \in result.tables : t \in DOMAIN staged
  <2>1. \A t \in result.tables : t \in FilesOf(t, working)
    BY DEF FilesOf
  <2> QED
    BY <2>1 DEF RecoveryAgrees
<1>2. \A t \in result.tables : staged[t].original.memo = working[t].memo
  <2>1. \A t \in result.tables : staged[t] = Recovered(working[t])
    BY <1>1 DEF RecoveryAgrees
  <2>2. \A t \in result.tables : Recovered(working[t]).original = working[t]
    BY DEF Recovered
  <2> QED
    BY <2>1, <2>2
<1>3. \A t \in result.tables :
        FilesOf(t, working) = {t} \cup (IF staged[t].original.memo THEN {companion(t)} ELSE {})
  BY <1>2 DEF FilesOf
<1> QED
  BY <1>1, <1>3 DEF RecoveryAgrees, WholeRecovery

LEMMA InitDelivery == NoneIsNoTree /\ Init => DeliveryInv
<1> SUFFICES ASSUME NoneIsNoTree, Init PROVE DeliveryInv
  OBVIOUS
<1>1. FilesTyped
  BY EmptyIsTree DEF Init, FilesTyped, NoStaging, Places
<1>2. DeliveryHasOwner /\ VerifiedStaysWhole /\ RenamedOwns
  BY DEF Init, DeliveryHasOwner, VerifiedStaysWhole, RenamedOwns
<1> QED
  BY <1>1, <1>2 DEF DeliveryInv

-----------------------------------------------------------------------------
\* What an action of p does to destinations and to a verified staging tree.
FileStep(p) ==
  /\ ~Rename(p) => UNCHANGED <<dest, origin, delivered>>
  /\ IsTree(staging'[Place(p)].tree)
  /\ DOMAIN staging'[Place(p)].tree
       \subseteq DOMAIN staging[Place(p)].tree \cup DOMAIN working \cup {ManifestPath}
  /\ pc'[p] # "idle"
  /\ pc'[p] \in {"ready", "promote", "rename"} =>
       /\ staging'[Place(p)].tree = staging[Place(p)].tree
       /\ \/ pc[p] \in {"ready", "promote"}
          \/ pc[p] = "selfverify" /\ StagedIsAccepted(p)
  /\ pc'[p] \in {"sync", "mark", "remove", "complete"} =>
       \/ pc[p] \in {"sync", "mark", "remove"}
       \/ Rename(p) /\ dest[tgt[p]] = None

LEMMA FileStepLemma ==
  ASSUME NEW p \in Procs, StagingInv, FilesTyped, Acts(p)
  PROVE  FileStep(p)
<1>p. /\ Place(p) \in Places /\ TypeOK
      /\ DOMAIN staging[Place(p)] = {"root", "phase", "tree"}
      /\ IsTree(staging[Place(p)].tree)
  BY PlaceType DEF StagingInv, TypeOK, FilesTyped
<1> USE <1>p DEF FileStep, TypeOK, Goto, Answer, Advance, Raise, userVars, fileVars, idVars,
                 memVars
<1>1. CASE BeginRecover(p)
  BY <1>1 DEF BeginRecover, Begin, Kinds, Rename, Checks, Inner
<1>2. CASE BeginBundle(p)
  BY <1>2 DEF BeginBundle, Begin, Kinds, Rename, Checks, Inner
<1>3. CASE Check(p)
  BY <1>3 DEF Check, Rename, Checks, Inner
<1>4. CASE Fingerprint(p)
  BY <1>4 DEF Fingerprint, Rename, Checks, Inner
<1>5. CASE Allow(p)
  BY <1>5 DEF Allow, Rename, Checks, Inner
<1>6. CASE Acquire(p)
  BY <1>6 DEF Acquire, Rename, Checks, Inner
<1>7. CASE Create(p)
  BY <1>7, EmptyIsTree DEF Create, Rename, Checks, Inner
<1>8. CASE \E path \in todo[p] : CopyArtifact(p, path)
  <2>1. PICK path \in todo[p] : CopyArtifact(p, path)
    BY <1>8
  <2>2. CASE path \notin DOMAIN working
    BY <2>1, <2>2 DEF CopyArtifact, Rename
  <2>3. CASE path \in DOMAIN working
    <3> DEFINE new == With(staging[Place(p)].tree, path, working[path])
    <3>1. staging'[Place(p)].tree = new
      BY <2>1, <2>3 DEF CopyArtifact, StageFile
    <3>2. IsTree(new)
      BY WithIsTree
    <3>3. DOMAIN new \subseteq DOMAIN staging[Place(p)].tree \cup DOMAIN working
      BY <2>3 DEF With
    <3> HIDE DEF new
    <3> QED
      BY <2>1, <2>3, <3>1, <3>2, <3>3 DEF CopyArtifact, Rename
  <2> QED
    BY <2>2, <2>3
<1>9. CASE \E path \in DOMAIN Staged(p) : DescribeArtifact(p, path)
  BY <1>9 DEF DescribeArtifact, Rename, Checks, Inner
<1>10. CASE \E t \in todo[p] : RecoverTable(p, t)
  <2>1. PICK t \in todo[p] : RecoverTable(p, t)
    BY <1>10
  <2>2. CASE UNCHANGED staging
    BY <2>1, <2>2 DEF RecoverTable, Rename
  <2>3. CASE ~UNCHANGED staging
    <3> DEFINE old == staging[Place(p)].tree
               new == [q \in DOMAIN old \cup FilesOf(t, working) |->
                         IF q \in FilesOf(t, working) THEN Recovered(working[q]) ELSE old[q]]
    <3>1. staging' = [staging EXCEPT ![Place(p)].tree = new]
      BY <2>1, <2>3 DEF RecoverTable
    <3>2. IsTree(new)
      BY DEF IsTree
    <3>3. staging'[Place(p)].tree = new
      BY <3>1
    <3>4. DOMAIN new \subseteq DOMAIN old \cup DOMAIN working
      BY <2>1, <2>3 DEF RecoverTable
    <3> QED
      BY <2>1, <2>3, <3>2, <3>3, <3>4 DEF RecoverTable, Rename
  <2> QED
    BY <2>2, <2>3
<1>11. CASE WriteManifest(p)
  <2> DEFINE new == With(staging[Place(p)].tree, ManifestPath,
                         build_manifest(result.assurance, entries[p]))
  <2>1. staging'[Place(p)].tree = new
    BY <1>11 DEF WriteManifest, StageFile
  <2>2. IsTree(new)
    BY WithIsTree
  <2>3. DOMAIN new \subseteq DOMAIN staging[Place(p)].tree \cup {ManifestPath}
    BY DEF With
  <2> HIDE DEF new
  <2> QED
    BY <1>11, <2>1, <2>2, <2>3 DEF WriteManifest, Rename
<1>12. CASE PersistPayload(p)
  BY <1>12 DEF PersistPayload, Rename, Checks, Inner
<1>13. CASE TablesRecovered(p)
  BY <1>13 DEF TablesRecovered, Rename, Checks, Inner
<1>14. CASE SelfVerify(p)
  BY <1>14 DEF SelfVerify, Rename, Checks, Inner
<1>15. CASE MarkReady(p)
  BY <1>15 DEF MarkReady, Rename, Checks, Inner
<1>16. CASE PromoteCheck(p)
  BY <1>16 DEF PromoteCheck, Rename, Checks, Inner
<1>17. CASE Rename(p)
  BY <1>17, EmptyIsTree DEF Rename, Checks, Inner
<1>18. CASE SyncRename(p)
  BY <1>18 DEF SyncRename, Rename, Checks, Inner
<1>19. CASE MarkPromoted(p)
  BY <1>19 DEF MarkPromoted, Rename, Checks, Inner
<1>20. CASE RemoveMetadata(p)
  BY <1>20, EmptyIsTree DEF RemoveMetadata, NoStaging, Rename, Checks, Inner
<1>21. CASE Complete(p)
  BY <1>21 DEF Complete, Rename, Checks, Inner
<1>22. CASE Cleanup(p)
  BY <1>22, EmptyIsTree DEF Cleanup, NoStaging, Rename, Checks, Inner
<1>23. CASE Fail(p)
  BY <1>23 DEF Fail, Exception, Rename, Checks, Inner
<1>24. CASE Quit(p)
  BY <1>24 DEF Quit, Rename, Checks, Inner
<1>25. CASE Crash(p)
  BY <1>25 DEF Crash, Rename, Checks, Inner
<1> QED
  BY <1>1, <1>2, <1>3, <1>4, <1>5, <1>6, <1>7, <1>8, <1>9, <1>10, <1>11, <1>12, <1>13, <1>14, <1>15, <1>16, <1>17, <1>18, <1>19, <1>20, <1>21, <1>22, <1>23, <1>24, <1>25 DEF Acts, Step

-----------------------------------------------------------------------------
\* An action of an invocation keeps what was delivered and what was verified.
LEMMA ActsDeliver ==
  ASSUME NoneIsNoTree, NEW p \in Procs, StagingInv, DeliveryInv, Acts(p)
  PROVE  DeliveryInv'
<1>1. TypeOK /\ TypeOK' /\ Local(p) /\ FileStep(p) /\ p # None
  BY LocalStep, FileStepLemma, DeliveryAssumption DEF StagingInv, DeliveryInv
<1>p. \A q \in Procs : Place(q) \in Places /\ tgt[q] \in Dests /\ tgt' = tgt
  BY <1>1, PlaceType DEF TypeOK, Local
<1>o. \A q \in Procs : pc[q] # "idle" => kind'[q] = kind[q] /\ Place(q)' = Place(q)
  BY <1>1, <1>p DEF Local, Place
<1>i. \A q \in Procs : pc[q] # "idle" => pc'[q] # "idle"
  BY <1>1 DEF Local, FileStep
\* A rename fills an empty destination with the verified tree.
<1>r. CASE Rename(p) /\ dest[tgt[p]] = None
  <2>1. /\ dest' = [dest EXCEPT ![tgt[p]] = Staged(p)]
        /\ origin' = [origin EXCEPT ![tgt[p]] = p]
        /\ delivered' = [delivered EXCEPT ![tgt[p]] = Staged(p)]
        /\ staging' = [staging EXCEPT ![Place(p)].tree = <<>>]
        /\ pc[p] = "rename" /\ pc' = [pc EXCEPT ![p] = "sync"]
        /\ kind' = kind
    BY <1>r DEF Rename, Advance, Goto, idVars
  <2>2. IsWhole(kind[p], sensitive, result.tables, Staged(p)) /\ Staged(p) # None
    BY <2>1, <1>p DEF DeliveryInv, VerifiedStaysWhole, FilesTyped, Staged, NoneIsNoTree
  <2>3. FilesTyped'
    <3>1. DOMAIN dest' = Dests /\ DOMAIN delivered' = Dests
      BY <2>1 DEF DeliveryInv, FilesTyped
    <3>2. origin' \in [Dests -> Procs \cup {None}]
      BY <2>1, <1>p DEF DeliveryInv, FilesTyped
    <3>3. \A at \in Places : IsTree(staging'[at].tree)
      BY <1>1, <1>p DEF DeliveryInv, FilesTyped, Local, FileStep
    <3> QED
      BY <3>1, <3>2, <3>3 DEF FilesTyped
  <2>4. DeliveryHasOwner'
    <3> SUFFICES ASSUME NEW d \in Dests
                 PROVE  (/\ dest[d] = None <=> origin[d] = None
                         /\ origin[d] # None =>
                              /\ pc[origin[d]] # "idle"
                              /\ IsWhole(kind[origin[d]], sensitive, result.tables,
                                         delivered[d]))'
      BY DEF DeliveryHasOwner
    <3>1. CASE d = tgt[p]
      <4>1. dest'[d] = Staged(p) /\ origin'[d] = p /\ delivered'[d] = Staged(p)
        BY <3>1, <2>1, <1>p DEF DeliveryInv, FilesTyped
      <4> QED
        BY <4>1, <2>1, <2>2, <1>1 DEF Local, TypeOK
    <3>2. CASE d # tgt[p]
      <4>1. dest'[d] = dest[d] /\ origin'[d] = origin[d] /\ delivered'[d] = delivered[d]
        BY <3>2, <2>1, <1>p DEF DeliveryInv, FilesTyped
      <4>2. origin[d] # None => origin[d] \in Procs
        BY DEF DeliveryInv, FilesTyped
      <4> QED
        BY <4>1, <4>2, <1>i, <2>1, <1>1 DEF DeliveryInv, DeliveryHasOwner, Local
    <3> QED
      BY <3>1, <3>2
  <2>5. RenamedOwns'
    <3> SUFFICES ASSUME NEW q \in Procs, pc'[q] \in {"sync", "mark", "remove", "complete"}
                 PROVE  origin'[tgt[q]] = q
      BY <1>p DEF RenamedOwns
    <3>1. CASE q = p
      BY <3>1, <2>1, <1>p DEF DeliveryInv, FilesTyped
    <3>2. CASE q # p
      <4>1. origin[tgt[q]] = q /\ q # None
        BY <3>2, <1>1, DeliveryAssumption DEF DeliveryInv, RenamedOwns, Local
      <4>2. tgt[q] # tgt[p]
        BY <4>1, <1>r, <1>p DEF DeliveryInv, DeliveryHasOwner
      <4> QED
        BY <4>1, <4>2, <2>1, <1>p DEF DeliveryInv, FilesTyped
    <3> QED
      BY <3>1, <3>2
  <2>6. VerifiedStaysWhole'
    <3> SUFFICES ASSUME NEW q \in Procs, pc'[q] \in {"ready", "promote", "rename"}
                 PROVE  IsWhole(kind[q], sensitive, result.tables, staging'[Place(q)].tree)
      BY <2>1, <1>1, <1>p DEF VerifiedStaysWhole, Local, Place
    <3>1. q # p /\ pc[q] = pc'[q]
      BY <2>1, <1>1 DEF Local, TypeOK
    <3>2. Place(q) # Place(p)
      BY <3>1, <2>1 DEF StagingInv, LockIsHeld, Locked, Inner
    <3>3. staging'[Place(q)] = staging[Place(q)]
      BY <3>2, <1>1, <1>p DEF Local
    <3> QED
      BY <3>1, <3>3 DEF DeliveryInv, VerifiedStaysWhole
  <2> QED
    BY <2>3, <2>4, <2>5, <2>6 DEF DeliveryInv
\* Every other action leaves the destinations alone.
<1>q. CASE ~(Rename(p) /\ dest[tgt[p]] = None)
  <2>1. dest' = dest /\ origin' = origin /\ delivered' = delivered
    BY <1>q, <1>1 DEF FileStep, Rename, fileVars
  <2>2. FilesTyped'
    BY <2>1, <1>1, <1>p DEF DeliveryInv, FilesTyped, Local, FileStep
  <2>3. DeliveryHasOwner'
    <3>1. \A d \in Dests : origin[d] # None => origin[d] \in Procs
      BY DEF DeliveryInv, FilesTyped
    <3> QED
      BY <3>1, <2>1, <1>1, <1>o, <1>i DEF DeliveryInv, DeliveryHasOwner, Local
  <2>4. RenamedOwns'
    BY <1>q, <2>1, <1>1, <1>p DEF DeliveryInv, RenamedOwns, Local, FileStep
  <2>5. VerifiedStaysWhole'
    <3> SUFFICES ASSUME NEW q \in Procs, pc'[q] \in {"ready", "promote", "rename"}
                 PROVE  IsWhole(kind'[q], sensitive, result.tables, staging'[Place(q)'].tree)
      BY <1>1 DEF VerifiedStaysWhole, Local
    <3>1. CASE q = p
      <4>1. /\ kind'[p] = kind[p] /\ Place(p)' = Place(p)
            /\ staging'[Place(p)].tree = staging[Place(p)].tree
            /\ \/ pc[p] \in {"ready", "promote"}
               \/ pc[p] = "selfverify" /\ StagedIsAccepted(p)
        BY <3>1, <1>1, <1>o DEF FileStep
      <4>2. CASE pc[p] \in {"ready", "promote"}
        BY <4>1, <4>2, <3>1 DEF DeliveryInv, VerifiedStaysWhole
      <4>3. CASE StagedIsAccepted(p)
        <5>1. IsWhole(kind[p], sensitive, result.tables, Staged(p))
          BY <4>3, AgreesIsWhole DEF StagedIsAccepted, IsWhole
        <5> QED
          BY <5>1, <4>1, <3>1 DEF Staged
      <4> QED
        BY <4>1, <4>2, <4>3
    <3>2. CASE q # p
      <4>1. pc[q] = pc'[q] /\ kind'[q] = kind[q] /\ Place(q)' = Place(q)
        BY <3>2, <1>1, <1>o DEF Local
      <4>2. staging'[Place(q)] = staging[Place(q)]
        <5>1. pc[q] \in Locked /\ pc[q] # "idle"
          BY <4>1 DEF Locked, Inner
        <5>2. pc[p] \in Locked => Place(q) # Place(p)
          BY <5>1, <3>2 DEF StagingInv, LockIsHeld
        <5> QED
          BY <5>2, <1>1, <1>p DEF Local
      <4> QED
        BY <4>1, <4>2 DEF DeliveryInv, VerifiedStaysWhole
    <3> QED
      BY <3>1, <3>2
  <2> QED
    BY <2>2, <2>3, <2>4, <2>5 DEF DeliveryInv
<1> QED
  BY <1>r, <1>q

\* A user changes a tree into another tree.
LEMMA ChangedIsTree ==
  ASSUME NEW tree, NEW t \in ChangedTrees(tree)
  PROVE  IsTree(t)
<1>1. CASE t \in RewrittenTrees(tree)
  <2>1. PICK q \in DOMAIN tree \ {ManifestPath} :
          t \in {With(tree, q, c) : c \in Rewritten(tree[q])}
    BY <1>1 DEF RewrittenTrees
  <2>2. PICK c \in Rewritten(tree[q]) : t = With(tree, q, c)
    BY <2>1
  <2> QED
    BY <2>2, WithIsTree
<1>2. CASE t \in RemovedTrees(tree)
  BY <1>2, WithIsTree DEF RemovedTrees
<1>3. CASE t \in AddedTrees(tree)
  BY <1>3, WithIsTree DEF AddedTrees
<1> QED
  BY <1>1, <1>2, <1>3 DEF ChangedTrees

LEMMA UsersDeliver ==
  ASSUME NoneIsNoTree, DeliveryInv, UserActs \/ vars' = vars
  PROVE  DeliveryInv'
<1>1. /\ UNCHANGED <<pc, kind, tgt, staging, origin, delivered, result, sensitive>>
      /\ \/ dest' = dest
         \/ \E d \in Dests : dest[d] # None /\ \E tree \in ChangedTrees(dest[d]) :
              dest' = [dest EXCEPT ![d] = tree]
  BY DEF UserActs, EditWorking, EditDelivered, vars, userVars, fileVars, idVars, memVars
<1>2. /\ DOMAIN dest' = Dests
      /\ \A d \in Dests : dest'[d] = None <=> dest[d] = None
  BY <1>1, ChangedIsTree DEF DeliveryInv, FilesTyped, NoneIsNoTree
<1> QED
  BY <1>1, <1>2 DEF DeliveryInv, FilesTyped, DeliveryHasOwner, VerifiedStaysWhole, RenamedOwns,
                   Place

LEMMA DeliveryInductive ==
  NoneIsNoTree /\ StagingInv /\ DeliveryInv /\ [Next]_vars => DeliveryInv'
  BY ActsDeliver, UsersDeliver, NextCases

\* What was delivered is whole and owned, and what was verified is not touched
\* before its rename (recovery.py 318-350, transfer_bundle.py 1187-1233).
THEOREM DeliverySafety ==
  ASSUME NoneIsNoTree
  PROVE  Spec => []DeliveryInv
<1>1. Init => DeliveryInv
  BY InitDelivery
<1>2. StagingInv /\ DeliveryInv /\ [Next]_vars => DeliveryInv'
  BY DeliveryInductive
<1> QED
  BY <1>1, <1>2, StagingSafety, PTL DEF Spec

-----------------------------------------------------------------------------
\* What the contract sees of a destination.
LEMMA PlaceCases ==
  ASSUME DeliveryInv, NEW d \in Dests
  PROVE  PlaceOf(d) = IF dest[d] = None THEN "empty"
                      ELSE IF dest[d] = delivered[d] THEN "whole" ELSE "touched"
<1>1. dest[d] # None /\ dest[d] = delivered[d] => Whole(d)
  BY DEF DeliveryInv, DeliveryHasOwner, IsWhole, Whole
<1> QED
  BY <1>1 DEF PlaceOf

\* An action of an invocation that is not its rename answers at most once.
LEMMA AnswersOnce ==
  ASSUME NEW p \in Procs, StagingInv, Acts(p)
  PROVE  /\ outcome[p] = "none"
         /\ outcome'[p] = "delivered" => pc[p] = "complete"
         /\ Rename(p) => outcome' = outcome
<1>1. TypeOK /\ Local(p) /\ outcome[p] = "none"
  BY LocalStep DEF StagingInv, ControlIsKnown, Local
<1>2. pc[p] = "cleanup" => err[p] \in {"failed", "cancelled", "interrupted"}
  BY DEF StagingInv, ControlIsKnown, TypeOK, Errors
<1> USE <1>1, <1>2 DEF TypeOK, Goto, Answer, Advance, Raise, memVars
<1>11. CASE BeginRecover(p)
  BY <1>11 DEF BeginRecover, Begin, Rename
<1>12. CASE BeginBundle(p)
  BY <1>12 DEF BeginBundle, Begin, Rename
<1>13. CASE Check(p)
  BY <1>13 DEF Check, Rename
<1>14. CASE Fingerprint(p)
  BY <1>14 DEF Fingerprint, Rename
<1>15. CASE Allow(p)
  BY <1>15 DEF Allow, Rename
<1>16. CASE Acquire(p)
  BY <1>16 DEF Acquire, Rename
<1>17. CASE Create(p)
  BY <1>17 DEF Create, Rename
<1>18. CASE \E path \in todo[p] : CopyArtifact(p, path)
  BY <1>18 DEF CopyArtifact, Rename
<1>19. CASE \E path \in DOMAIN Staged(p) : DescribeArtifact(p, path)
  BY <1>19 DEF DescribeArtifact, Rename
<1>20. CASE \E t \in todo[p] : RecoverTable(p, t)
  BY <1>20 DEF RecoverTable, Rename
<1>21. CASE WriteManifest(p)
  BY <1>21 DEF WriteManifest, Rename
<1>22. CASE PersistPayload(p)
  BY <1>22 DEF PersistPayload, Rename
<1>23. CASE TablesRecovered(p)
  BY <1>23 DEF TablesRecovered, Rename
<1>24. CASE SelfVerify(p)
  BY <1>24 DEF SelfVerify, Rename
<1>25. CASE MarkReady(p)
  BY <1>25 DEF MarkReady, Rename
<1>26. CASE PromoteCheck(p)
  BY <1>26 DEF PromoteCheck, Rename
<1>27. CASE Rename(p)
  BY <1>27 DEF Rename
<1>28. CASE SyncRename(p)
  BY <1>28 DEF SyncRename, Rename
<1>29. CASE MarkPromoted(p)
  BY <1>29 DEF MarkPromoted, Rename
<1>30. CASE RemoveMetadata(p)
  BY <1>30 DEF RemoveMetadata, Rename
<1>31. CASE Complete(p)
  BY <1>31 DEF Complete, Rename
<1>32. CASE Cleanup(p)
  BY <1>32 DEF Cleanup, Rename
<1>33. CASE Fail(p)
  BY <1>33 DEF Fail, Exception, Rename
<1>34. CASE Quit(p)
  BY <1>34 DEF Quit, Rename
<1>35. CASE Crash(p)
  BY <1>35 DEF Crash, Rename
<1> QED
  BY <1>11, <1>12, <1>13, <1>14, <1>15, <1>16, <1>17, <1>18, <1>19, <1>20, <1>21, <1>22, <1>23, <1>24, <1>25, <1>26, <1>27, <1>28, <1>29, <1>30, <1>31, <1>32, <1>33, <1>34, <1>35 DEF Acts, Step

\* The same destination looks the same to the contract.
LEMMA PlaceKept ==
  ASSUME DeliveryInv, DeliveryInv', NEW d \in Dests,
         dest'[d] = dest[d], delivered'[d] = delivered[d]
  PROVE  PlaceOf(d)' = PlaceOf(d)
<1>1. PlaceOf(d) = IF dest[d] = None THEN "empty"
                   ELSE IF dest[d] = delivered[d] THEN "whole" ELSE "touched"
  BY PlaceCases
<1>2. (PlaceOf(d) = IF dest[d] = None THEN "empty"
                    ELSE IF dest[d] = delivered[d] THEN "whole" ELSE "touched")'
  BY PlaceCases, PTL
<1> QED
  BY <1>1, <1>2

\* A step that leaves the destinations alone, answers included.
LEMMA AnswerStep ==
  ASSUME NEW p \in Procs, StagingInv, DeliveryInv, DeliveryInv', Acts(p),
         UNCHANGED <<dest, origin, delivered>>
  PROVE  [Contract!CNext]_Contract!cvars
<1>1. TypeOK /\ TypeOK' /\ Local(p)
  BY LocalStep DEF StagingInv
<1>2. [d \in Dests |-> PlaceOf(d)]' = [d \in Dests |-> PlaceOf(d)]
  BY PlaceKept
<1> DEFINE A == [q \in Procs |-> IF outcome[q] \in {"none", "delivered"}
                                 THEN outcome[q] ELSE "other"]
<1>3. \A q \in Procs : q # p => A'[q] = A[q]
  BY <1>1 DEF Local
<1>4. CASE outcome'[p] = "none"
  <2>1. A' = A
    BY <1>3, <1>4, AnswersOnce
  <2> QED
    BY <2>1, <1>2 DEF Contract!cvars
<1>5. CASE outcome'[p] = "delivered"
  <2>1. A[p] = "none" /\ A' = [A EXCEPT ![p] = "delivered"]
    BY <1>3, <1>5, AnswersOnce
  <2>2. tgt[p] \in Dests /\ origin[tgt[p]] = p
    BY <1>1, <1>5, AnswersOnce DEF DeliveryInv, RenamedOwns, TypeOK
  <2>3. Contract!CSucceed(p)
    BY <2>1, <2>2, <1>2 DEF Contract!CSucceed
  <2> QED
    BY <2>3 DEF Contract!CNext
<1>6. CASE outcome'[p] \notin {"none", "delivered"}
  <2>1. A[p] = "none" /\ A' = [A EXCEPT ![p] = "other"]
    BY <1>3, <1>6, AnswersOnce
  <2>2. Contract!CFail(p)
    BY <2>1, <1>2 DEF Contract!CFail
  <2> QED
    BY <2>2 DEF Contract!CNext
<1> QED
  BY <1>4, <1>5, <1>6

\* The rename is the delivery.
LEMMA RenameStep ==
  ASSUME NEW p \in Procs, StagingInv, DeliveryInv, DeliveryInv', Acts(p),
         Rename(p), dest[tgt[p]] = None
  PROVE  Contract!CNext
<1>1. TypeOK /\ outcome' = outcome /\ outcome[p] = "none"
  BY AnswersOnce DEF StagingInv
<1>2. /\ tgt[p] \in Dests
      /\ dest' = [dest EXCEPT ![tgt[p]] = Staged(p)]
      /\ origin' = [origin EXCEPT ![tgt[p]] = p]
      /\ delivered' = [delivered EXCEPT ![tgt[p]] = Staged(p)]
  BY <1>1 DEF Rename, TypeOK
<1> DEFINE P == [d \in Dests |-> PlaceOf(d)]
<1>3. \A d \in Dests : d # tgt[p] => PlaceOf(d)' = PlaceOf(d)
  BY <1>2, PlaceKept DEF DeliveryInv, FilesTyped
<1>4. P[tgt[p]] = "empty"
  BY <1>2 DEF PlaceOf
<1>5. \A d \in Dests : d = tgt[p] => PlaceOf(d)' = "whole"
  <2> SUFFICES ASSUME NEW d \in Dests, d = tgt[p]
               PROVE  PlaceOf(d)' = "whole"
    OBVIOUS
  <2>1. (PlaceOf(d) = IF dest[d] = None THEN "empty"
                      ELSE IF dest[d] = delivered[d] THEN "whole" ELSE "touched")'
    BY PlaceCases, PTL
  <2>2. dest'[d] = delivered'[d] /\ origin'[d] # None
    BY <1>2, DeliveryAssumption DEF DeliveryInv, FilesTyped
  <2>3. dest'[d] # None
    BY <2>2 DEF DeliveryInv, DeliveryHasOwner
  <2> QED
    BY <2>1, <2>2, <2>3
<1>6. P' = [P EXCEPT ![tgt[p]] = "whole"]
  BY <1>2, <1>3, <1>5
<1>7. Contract!CDeliver(p, tgt[p])
  BY <1>1, <1>2, <1>4, <1>6 DEF Contract!CDeliver
<1> QED
  BY <1>2, <1>7 DEF Contract!CNext

\* A user's change of a delivered bundle.
LEMMA TouchStep ==
  ASSUME DeliveryInv, DeliveryInv', NEW d \in Dests, EditDelivered(d)
  PROVE  Contract!CNext
<1>1. /\ dest[d] # None
      /\ UNCHANGED <<origin, delivered, outcome>>
      /\ \A e \in Dests : e # d => dest'[e] = dest[e]
  BY DEF EditDelivered, DeliveryInv, FilesTyped
<1>2. dest'[d] # None
  BY <1>1 DEF DeliveryInv, DeliveryHasOwner
<1> DEFINE P == [e \in Dests |-> PlaceOf(e)]
<1>3. P[d] # "empty"
  BY <1>1, PlaceCases
<1>4. PlaceOf(d)' \in {"whole", "touched"}
  <2>1. (PlaceOf(d) = IF dest[d] = None THEN "empty"
                      ELSE IF dest[d] = delivered[d] THEN "whole" ELSE "touched")'
    BY PlaceCases, PTL
  <2> QED
    BY <2>1, <1>2
<1>5. \A e \in Dests : e # d => PlaceOf(e)' = PlaceOf(e)
  BY <1>1, PlaceKept
<1>6. P' = [P EXCEPT ![d] = PlaceOf(d)']
  BY <1>5
<1>7. Contract!CTouch(d)
  BY <1>1, <1>3, <1>4, <1>6 DEF Contract!CTouch
<1> QED
  BY <1>7 DEF Contract!CNext

LEMMA ContractStep ==
  ASSUME StagingInv, DeliveryInv, DeliveryInv', [Next]_vars
  PROVE  [Contract!CNext]_Contract!cvars
<1>1. ASSUME NEW p \in Procs, Acts(p) PROVE [Contract!CNext]_Contract!cvars
  <2>1. CASE Rename(p) /\ dest[tgt[p]] = None
    BY <1>1, <2>1, RenameStep
  <2>2. CASE ~(Rename(p) /\ dest[tgt[p]] = None)
    <3>1. UNCHANGED <<dest, origin, delivered>>
      BY <1>1, <2>2, FileStepLemma DEF DeliveryInv, FileStep, Rename, fileVars
    <3> QED
      BY <1>1, <3>1, AnswerStep
  <2> QED
    BY <2>1, <2>2
<1>2. CASE EditWorking \/ vars' = vars
  <2>1. UNCHANGED <<dest, origin, delivered, outcome>>
    BY <1>2 DEF EditWorking, vars, fileVars
  <2>2. [d \in Dests |-> PlaceOf(d)]' = [d \in Dests |-> PlaceOf(d)]
    BY <2>1, PlaceKept
  <2> QED
    BY <2>1, <2>2 DEF Contract!cvars
<1>3. ASSUME NEW d \in Dests, EditDelivered(d) PROVE [Contract!CNext]_Contract!cvars
  BY <1>3, TouchStep
<1> QED
  BY <1>1, <1>2, <1>3, NextCases DEF UserActs

\* recover and create_transfer_bundle keep the contract under crashes, failures,
\* cancellation, interrupts and users: a destination is filled by one rename with
\* a whole delivery that no other invocation replaces, and success is answered
\* for one's own delivery only (recovery.py 318-364, transfer_bundle.py 1118-1233).
THEOREM DeliveryRefines ==
  ASSUME NoneIsNoTree
  PROVE  Spec => KeepsDelivery
<1>1. Init => Contract!CInit
  BY DEF Init, Contract!CInit, PlaceOf
<1>2. StagingInv /\ DeliveryInv /\ DeliveryInv' /\ [Next]_vars
        => [Contract!CNext]_Contract!cvars
  BY ContractStep
<1> QED
  BY <1>1, <1>2, StagingSafety, DeliverySafety, PTL DEF Spec, KeepsDelivery, Contract!CSpec

-----------------------------------------------------------------------------
(* Standalone verification: a bundle that is accepted under the manifest it  *)
(* was created with has the files it was created with.                       *)

Names == Files \cup {ManifestPath}

\* All trees are made of files with names that can be folded.
NamesInv ==
  /\ result \in Results
  /\ DOMAIN working \subseteq Names
  /\ \A at \in Places : DOMAIN staging[at].tree \subseteq Names
  /\ \A d \in Dests : origin[d] # None =>
       DOMAIN dest[d] \subseteq Names /\ DOMAIN delivered[d] \subseteq Names

LEMMA FoldTwice ==
  ASSUME NEW q \in Names
  PROVE  casefold(casefold(q)) = casefold(q)
  BY FoldIsIdempotent DEF casefold, Names, Files, ManifestPath

\* An accepted tree holds, under every declared name, the bytes of the entry.
LEMMA AcceptedHolds ==
  ASSUME NEW tree, NEW s \in BOOLEAN, verify_bundle_core(tree, s),
         DOMAIN tree \subseteq Names, NEW q \in DOMAIN tree
  PROVE  /\ ManifestPath \in DOMAIN tree
         /\ casefold(q) = ManifestPath => q = ManifestPath
         /\ \A e \in tree[ManifestPath].artifacts :
              casefold(e.path) = casefold(q) => tree[q] = e.digest
<1> DEFINE m == tree[ManifestPath]
<1>1. /\ ManifestPath \in DOMAIN tree
      /\ InventoryIsExact(tree, m)
      /\ \A e \in m.artifacts : ArtifactHolds(tree, e, m, s)
  BY DEF verify_bundle_core
<1>2. \A r \in DOMAIN tree : casefold(r) = casefold(q) => r = q
  BY <1>1 DEF InventoryIsExact, CaseCollision
<1>3. casefold(ManifestPath) = ManifestPath
  BY DEF casefold
<1>4. ASSUME NEW e \in m.artifacts, casefold(e.path) = casefold(q)
      PROVE  tree[q] = e.digest
  <2>1. PICK r \in Opened(tree, e.path, s) : tree[r] = e.digest
    BY <1>1 DEF ArtifactHolds
  <2>2. r \in DOMAIN tree /\ (r = casefold(e.path) \/ casefold(r) = casefold(e.path))
    BY DEF Opened
  <2>3. casefold(r) = casefold(q)
    BY <2>2, <1>4, FoldTwice
  <2> QED
    BY <2>1, <2>2, <2>3, <1>2
<1> QED
  BY <1>1, <1>2, <1>3, <1>4

LEMMA SameManifestSameFiles ==
  ASSUME NEW a, NEW b, NEW s \in BOOLEAN, NEW t \in BOOLEAN,
         verify_bundle_core(a, s), verify_bundle_core(b, t),
         DOMAIN a \subseteq Names, DOMAIN b \subseteq Names,
         a[ManifestPath] = b[ManifestPath]
  PROVE  SameFiles(a, b)
<1> DEFINE m == a[ManifestPath]
<1>1. /\ {casefold(q) : q \in DOMAIN a} = Declared(m) \cup {ManifestPath}
      /\ {casefold(q) : q \in DOMAIN b} = Declared(m) \cup {ManifestPath}
  BY DEF verify_bundle_core, InventoryIsExact
<1>2. ASSUME NEW q \in DOMAIN a, NEW r \in DOMAIN b, casefold(q) = casefold(r)
      PROVE  a[q] = b[r]
  <2>1. CASE casefold(q) = ManifestPath
    <3>1. q = ManifestPath
      BY <2>1, AcceptedHolds
    <3>2. r = ManifestPath
      BY <2>1, <1>2, AcceptedHolds
    <3> QED
      BY <3>1, <3>2
  <2>2. CASE casefold(q) # ManifestPath
    <3>1. PICK e \in m.artifacts : casefold(e.path) = casefold(q)
      BY <1>1, <2>2 DEF Declared
    <3>2. a[q] = e.digest
      BY <3>1, AcceptedHolds
    <3>3. b[r] = e.digest
      BY <3>1, <1>2, AcceptedHolds
    <3> QED
      BY <3>2, <3>3
  <2> QED
    BY <2>1, <2>2
<1> QED
  BY <1>1, <1>2 DEF SameFiles

\* Users add files with ordinary names.
LEMMA ChangedNames ==
  ASSUME NEW tree, DOMAIN tree \subseteq Names, NEW t \in ChangedTrees(tree)
  PROVE  DOMAIN t \subseteq Names
<1>1. CASE t \in RewrittenTrees(tree)
  <2>1. PICK q \in DOMAIN tree \ {ManifestPath} :
          t \in {With(tree, q, c) : c \in Rewritten(tree[q])}
    BY <1>1 DEF RewrittenTrees
  <2>2. PICK c \in Rewritten(tree[q]) : t = With(tree, q, c)
    BY <2>1
  <2> QED
    BY <2>2 DEF With
<1>2. CASE t \in RemovedTrees(tree)
  BY <1>2 DEF RemovedTrees, Without
<1>3. CASE t \in AddedTrees(tree)
  <2>1. PICK q \in Addable(tree) : t = With(tree, q, AddedContent(q))
    BY <1>3 DEF AddedTrees
  <2>2. q \in Names
    BY DEF Addable, Names, Files
  <2> QED
    BY <2>1, <2>2 DEF With
<1> QED
  BY <1>1, <1>2, <1>3 DEF ChangedTrees

LEMMA InitNames == Init => NamesInv
  BY EmptyIsTree, ResultsAssumption DEF Init, NamesInv, NoStaging, Places, Names

LEMMA NamesInductive ==
  StagingInv /\ DeliveryInv /\ NamesInv /\ [Next]_vars => NamesInv'
<1> SUFFICES ASSUME StagingInv, DeliveryInv, NamesInv, [Next]_vars PROVE NamesInv'
  OBVIOUS
<1>1. ASSUME NEW p \in Procs, Acts(p) PROVE NamesInv'
  <2>1. TypeOK /\ Local(p) /\ FileStep(p) /\ Place(p) \in Places /\ tgt[p] \in Dests
    BY <1>1, LocalStep, FileStepLemma, PlaceType DEF StagingInv, DeliveryInv, TypeOK
  <2>2. result' = result /\ working' = working
    BY <2>1 DEF Local
  <2>3. \A at \in Places : DOMAIN staging'[at].tree \subseteq Names
    BY <2>1 DEF Local, FileStep, NamesInv, Names
  <2>4. \A d \in Dests : origin'[d] # None =>
          DOMAIN dest'[d] \subseteq Names /\ DOMAIN delivered'[d] \subseteq Names
    <3>1. CASE Rename(p) /\ dest[tgt[p]] = None
      <4>1. /\ dest' = [dest EXCEPT ![tgt[p]] = Staged(p)]
            /\ origin' = [origin EXCEPT ![tgt[p]] = p]
            /\ delivered' = [delivered EXCEPT ![tgt[p]] = Staged(p)]
        BY <3>1 DEF Rename
      <4>2. DOMAIN Staged(p) \subseteq Names
        BY <2>1 DEF NamesInv, Staged
      <4> QED
        BY <4>1, <4>2 DEF NamesInv, DeliveryInv, FilesTyped
    <3>2. CASE ~(Rename(p) /\ dest[tgt[p]] = None)
      BY <3>2, <2>1 DEF FileStep, Rename, fileVars, NamesInv
    <3> QED
      BY <3>1, <3>2
  <2> QED
    BY <2>2, <2>3, <2>4 DEF NamesInv
<1>2. CASE EditWorking
  BY <1>2, ChangedNames DEF EditWorking, NamesInv, fileVars
<1>3. ASSUME NEW d \in Dests, EditDelivered(d) PROVE NamesInv'
  <2>1. PICK tree \in ChangedTrees(dest[d]) : dest' = [dest EXCEPT ![d] = tree]
    BY <1>3 DEF EditDelivered
  <2>2. dest[d] # None /\ UNCHANGED <<result, working, staging, origin, delivered>>
    BY <1>3 DEF EditDelivered
  <2>3. DOMAIN tree \subseteq Names
    BY <2>2, ChangedNames DEF DeliveryInv, DeliveryHasOwner, NamesInv
  <2> QED
    BY <2>1, <2>2, <2>3 DEF NamesInv, DeliveryInv, FilesTyped
<1>4. CASE vars' = vars
  BY <1>4 DEF vars, userVars, fileVars, NamesInv
<1> QED
  BY <1>1, <1>2, <1>3, <1>4, NextCases DEF UserActs

\* What standalone verification accepts under the manifest of its creation is the
\* bundle that was created, but for the case of names, however often users changed
\* it and on either kind of file system (transfer_bundle.py 872-1000).
THEOREM IntactTheorem ==
  ASSUME NoneIsNoTree
  PROVE  Spec => []AcceptedBundleIsIntact
<1>1. DeliveryInv /\ NamesInv /\ sensitive \in BOOLEAN => AcceptedBundleIsIntact
  <2> SUFFICES ASSUME DeliveryInv, NamesInv, sensitive \in BOOLEAN,
                      NEW d \in Dests, NEW s \in BOOLEAN,
                      dest[d] # None, kind[origin[d]] = "bundle",
                      verify_bundle_core(dest[d], s),
                      dest[d][ManifestPath] = delivered[d][ManifestPath]
               PROVE  SameFiles(dest[d], delivered[d])
    BY DEF AcceptedBundleIsIntact
  <2>1. verify_bundle_core(delivered[d], sensitive)
    BY DEF DeliveryInv, DeliveryHasOwner, IsWhole
  <2>2. DOMAIN dest[d] \subseteq Names /\ DOMAIN delivered[d] \subseteq Names
    BY DEF DeliveryInv, DeliveryHasOwner, NamesInv
  <2> QED
    BY <2>1, <2>2, SameManifestSameFiles
<1>2. Spec => []NamesInv
  BY InitNames, NamesInductive, StagingSafety, DeliverySafety, PTL DEF Spec
<1>3. Spec => [](sensitive \in BOOLEAN)
  <2>1. Init => sensitive \in BOOLEAN
    BY DEF Init
  <2>2. StagingInv /\ sensitive \in BOOLEAN /\ [Next]_vars => (sensitive \in BOOLEAN)'
    BY LocalStep, NextCases
       DEF StagingInv, Local, UserActs, EditWorking, EditDelivered, vars, userVars
  <2> QED
    BY <2>1, <2>2, StagingSafety, PTL DEF Spec
<1> QED
  BY <1>1, <1>2, <1>3, DeliverySafety, PTL

-----------------------------------------------------------------------------
(* The working tree: what is delivered by an invocation during which nobody  *)
(* changed it is the published dataset.                                      *)

PayloadOf(r) == Allowlist(r.tables, r.tree)

ValueOf(r, k, q) == IF k = "bundle" THEN r.tree[q] ELSE Recovered(r.tree[q])

IsPublished(r, k, tree) ==
  /\ DOMAIN tree \ {ManifestPath} = PayloadOf(r)
  /\ \A q \in PayloadOf(r) : tree[q] = ValueOf(r, k, q)

\* The part of the payload that is staged when the artifacts or tables `rest'
\* are still to be written.
IsPublishedBut(r, k, rest, tree) ==
  /\ \A q \in DOMAIN tree : tree[q] = ValueOf(r, k, q)
  /\ k = "bundle" => rest \subseteq PayloadOf(r) /\ DOMAIN tree = PayloadOf(r) \ rest
  /\ k = "recover" =>
       /\ rest \subseteq r.tables
       /\ DOMAIN tree = UNION {FilesOf(t, r.tree) : t \in r.tables \ rest}

\* What an invocation on an untouched working tree has done at each point.
DeliversThePublished(p) ==
  /\ pc[p] \in {"allow", "lock", "create", "copy", "describe"} => working = result.tree
  /\ pc[p] = "allow" => kind[p] = "bundle"
  /\ pc[p] \in {"lock", "create"} => IsPublishedBut(result, kind[p], todo[p], <<>>)
  /\ pc[p] \in {"copy", "describe"} =>
       IsPublishedBut(result, kind[p], todo[p], staging[Place(p)].tree)
  /\ pc[p] \in {"manifest", "selfverify", "ready", "promote", "rename"} =>
       IsPublished(result, kind[p], staging[Place(p)].tree)
  /\ pc[p] \in {"sync", "mark", "remove", "complete"} \/ outcome[p] = "delivered" =>
       origin[tgt[p]] = p /\ IsPublished(result, kind[p], delivered[tgt[p]])

PublishedInv == \A p \in Procs \ dirty : DeliversThePublished(p)

LEMMA PayloadFacts ==
  ASSUME result \in Results
  PROVE  /\ PayloadOf(result) = UNION {FilesOf(t, result.tree) : t \in result.tables}
         /\ ManifestPath \notin PayloadOf(result)
<1>1. PayloadOf(result) = UNION {FilesOf(t, result.tree) : t \in result.tables}
  BY DEF PayloadOf, Allowlist, FilesOf
<1>2. \A t \in result.tables : t[2] = "dbf"
  BY ResultsAssumption
<1>3. \A t \in result.tables : companion(t)[2] = "fpt"
  BY DEF companion
<1>4. ManifestPath[2] = "json"
  BY DEF ManifestPath
<1>5. ManifestPath \notin PayloadOf(result)
  BY <1>2, <1>3, <1>4 DEF PayloadOf, Allowlist
<1> QED
  BY <1>1, <1>5

\* Nothing is left to be written: the payload is complete.
LEMMA NothingLeft ==
  ASSUME result \in Results, NEW k \in Kinds, NEW tree, IsPublishedBut(result, k, {}, tree)
  PROVE  IsPublished(result, k, tree)
<1>1. DOMAIN tree = PayloadOf(result)
  BY PayloadFacts DEF IsPublishedBut, Kinds
<1> QED
  BY <1>1, PayloadFacts DEF IsPublishedBut, IsPublished

\* Everything is left to be written: nothing is staged.
LEMMA AllLeft ==
  /\ IsPublishedBut(result, "bundle", PayloadOf(result), <<>>)
  /\ IsPublishedBut(result, "recover", result.tables, <<>>)
  BY EmptyIsTree DEF IsPublishedBut

LEMMA CopyOne ==
  ASSUME NEW path, NEW rest, path \in rest, NEW tree,
         IsPublishedBut(result, "bundle", rest, tree)
  PROVE  IsPublishedBut(result, "bundle", rest \ {path}, With(tree, path, result.tree[path]))
  BY DEF IsPublishedBut, With, ValueOf

LEMMA RecoverOne ==
  ASSUME NEW t, NEW rest, t \in rest, NEW tree, IsPublishedBut(result, "recover", rest, tree)
  PROVE  IsPublishedBut(result, "recover", rest \ {t},
           [q \in DOMAIN tree \cup FilesOf(t, result.tree) |->
              IF q \in FilesOf(t, result.tree) THEN Recovered(result.tree[q]) ELSE tree[q]])
<1> DEFINE new == [q \in DOMAIN tree \cup FilesOf(t, result.tree) |->
              IF q \in FilesOf(t, result.tree) THEN Recovered(result.tree[q]) ELSE tree[q]]
<1>1. \A q \in DOMAIN new : new[q] = ValueOf(result, "recover", q)
  BY DEF IsPublishedBut, ValueOf
<1>2. DOMAIN new = UNION {FilesOf(u, result.tree) : u \in result.tables \ (rest \ {t})}
  BY DEF IsPublishedBut
<1> HIDE DEF new
<1>3. IsPublishedBut(result, "recover", rest \ {t}, new)
  BY <1>1, <1>2 DEF IsPublishedBut
<1> QED
  BY <1>3 DEF new

\* The manifest is no payload.
LEMMA ManifestApart ==
  ASSUME result \in Results, NEW tree, NEW m, IsPublished(result, "bundle", tree)
  PROVE  IsPublished(result, "bundle", With(tree, ManifestPath, m))
  BY PayloadFacts DEF IsPublished, With

\* An action of an invocation on an untouched working tree keeps its claim.
LEMMA OwnDelivery ==
  ASSUME NEW p \in Procs, StagingInv, DeliveryInv, result \in Results, Acts(p),
         DeliversThePublished(p)
  PROVE  DeliversThePublished(p)'
<1>0. /\ TypeOK /\ TypeOK' /\ Place(p) \in Places /\ Local(p) /\ tgt[p] \in Dests
      /\ kind[p] \in Kinds
      /\ DOMAIN staging[Place(p)] = {"root", "phase", "tree"}
      /\ outcome[p] = "none"
      /\ outcome'[p] = "delivered" => pc[p] = "complete"
      /\ pc[p] = "cleanup" => err[p] \in {"failed", "cancelled", "interrupted"}
  BY LocalStep, PlaceType, AnswersOnce DEF StagingInv, ControlIsKnown, TypeOK, Errors
<1>r. result' = result /\ tgt' = tgt /\ working' = working
  BY <1>0 DEF Local
\* An action that goes nowhere but to its handler or its end has nothing to show.
<1>e. ASSUME pc'[p] \in {"cleanup", "ended"}, outcome'[p] # "delivered"
      PROVE  DeliversThePublished(p)'
  BY <1>e DEF DeliversThePublished
<1>1. CASE BeginRecover(p)
  BY <1>1, <1>0, <1>r DEF BeginRecover, Begin, DeliversThePublished, Goto, Answer, Advance, Raise, userVars, fileVars, idVars, memVars, Place, TypeOK
<1>2. CASE BeginBundle(p)
  BY <1>2, <1>0, <1>r DEF BeginBundle, Begin, DeliversThePublished, Goto, Answer, Advance, Raise, userVars, fileVars, idVars, memVars, Place, TypeOK
<1>3. CASE Check(p)
  BY <1>3, <1>0, <1>r DEF Check, DeliversThePublished, Goto, Answer, Advance, Raise, userVars, fileVars, idVars, memVars, Place, TypeOK
<1>4. CASE Fingerprint(p)
  <2>1. CASE working = result.tree
    BY <1>4, <2>1, <1>0, <1>r, AllLeft
       DEF Fingerprint, DeliversThePublished, Advance, Goto, idVars, Place, TypeOK, Kinds
  <2>2. CASE working # result.tree
    BY <1>4, <2>2, <1>0, <1>e DEF Fingerprint, Answer, Goto, TypeOK
  <2> QED
    BY <2>1, <2>2
<1>5. CASE Allow(p)
  <2>1. CASE pc'[p] = "lock"
    <3>1. kind'[p] = "bundle" /\ todo'[p] = PayloadOf(result) /\ working = result.tree
      BY <1>5, <2>1, <1>0 DEF Allow, DeliversThePublished, Answer, Goto, idVars, TypeOK, PayloadOf
    <3>2. outcome'[p] # "delivered"
      BY <1>5, <1>0 DEF Allow
    <3> QED
      BY <2>1, <3>1, <3>2, <1>r, AllLeft DEF DeliversThePublished
  <2>2. CASE pc'[p] # "lock"
    BY <1>5, <2>2, <1>0, <1>e DEF Allow, Answer, Advance, Goto, TypeOK
  <2> QED
    BY <2>1, <2>2
<1>6. CASE Acquire(p)
  BY <1>6, <1>0, <1>r DEF Acquire, DeliversThePublished, Goto, Answer, Advance, Raise, userVars, fileVars, idVars, memVars, Place, TypeOK
<1>7. CASE Create(p)
  BY <1>7, <1>0, <1>r DEF Create, DeliversThePublished, Goto, Answer, Advance, Raise, userVars, fileVars, idVars, memVars, Place, TypeOK
<1>8. CASE \E path \in todo[p] : CopyArtifact(p, path)
  <2>1. PICK path \in todo[p] : CopyArtifact(p, path)
    BY <1>8
  <2>2. CASE path \notin DOMAIN working
    BY <2>1, <2>2, <1>0, <1>e DEF CopyArtifact, Raise, Goto, TypeOK
  <2>3. CASE path \in DOMAIN working
    <3> DEFINE old == staging[Place(p)].tree
    <3>1. IsPublishedBut(result, "bundle", todo[p], old) /\ working = result.tree
      BY <2>1 DEF CopyArtifact, DeliversThePublished
    <3>2. staging'[Place(p)].tree = With(old, path, result.tree[path])
      BY <2>1, <2>3, <3>1, <1>0 DEF CopyArtifact, StageFile, TypeOK
    <3>3. /\ todo'[p] = todo[p] \ {path} /\ pc'[p] \in {"copy", "describe"}
          /\ kind' = kind /\ kind[p] = "bundle" /\ outcome' = outcome
      BY <2>1, <2>3, <1>0 DEF CopyArtifact, Advance, Goto, idVars, TypeOK
    <3>4. IsPublishedBut(result, "bundle", todo'[p], staging'[Place(p)].tree)
      <4> HIDE DEF old
      <4>1. IsPublishedBut(result, "bundle", todo[p] \ {path}, With(old, path, result.tree[path]))
        BY <3>1, CopyOne, Zenon
      <4> QED
        BY <4>1, <3>2, <3>3
    <3>5. Place(p)' = Place(p)
      BY <3>3, <1>r DEF Place
    <3> QED
      BY <3>1, <3>3, <3>4, <3>5, <1>0, <1>r DEF DeliversThePublished
  <2> QED
    BY <2>2, <2>3
<1>9. CASE \E path \in DOMAIN Staged(p) : DescribeArtifact(p, path)
  BY <1>9, <1>0, <1>r DEF DescribeArtifact, DeliversThePublished, Goto, Answer, Advance, Raise, userVars, fileVars, idVars, memVars, Place, TypeOK
<1>10. CASE \E t \in todo[p] : RecoverTable(p, t)
  <2>1. PICK t \in todo[p] : RecoverTable(p, t)
    BY <1>10
  <2>2. CASE ~(t \in DOMAIN working /\ FilesOf(t, working) \subseteq DOMAIN working)
    BY <2>1, <2>2, <1>0, <1>e DEF RecoverTable, Raise, Goto, TypeOK
  <2>3. CASE t \in DOMAIN working /\ FilesOf(t, working) \subseteq DOMAIN working
    <3> DEFINE old == staging[Place(p)].tree
               new == [q \in DOMAIN old \cup FilesOf(t, result.tree) |->
                         IF q \in FilesOf(t, result.tree)
                         THEN Recovered(result.tree[q]) ELSE old[q]]
    <3>1. IsPublishedBut(result, "recover", todo[p], old) /\ working = result.tree
      BY <2>1 DEF RecoverTable, DeliversThePublished
    <3>2. staging' = [staging EXCEPT ![Place(p)].tree = new]
      BY <2>1, <2>3, <3>1 DEF RecoverTable
    <3>3. /\ todo'[p] = todo[p] \ {t} /\ pc'[p] = "copy"
          /\ kind' = kind /\ kind[p] = "recover" /\ outcome' = outcome
      BY <2>1, <2>3, <1>0 DEF RecoverTable, Advance, Goto, idVars, TypeOK
    <3>4. IsPublishedBut(result, "recover", todo'[p], new)
      <4>1. IsPublishedBut(result, "recover", todo[p] \ {t}, new)
        <5> HIDE DEF old
        <5> QED
          BY <3>1, RecoverOne, Zenon
      <4> QED
        BY <4>1, <3>3
    <3>5. Place(p)' = Place(p) /\ staging'[Place(p)].tree = new
      BY <3>2, <3>3, <1>0, <1>r DEF Place, TypeOK
    <3> HIDE DEF new
    <3> QED
      BY <3>1, <3>3, <3>4, <3>5, <1>0, <1>r DEF DeliversThePublished
  <2> QED
    BY <2>2, <2>3
<1>11. CASE WriteManifest(p)
  <2> DEFINE old == staging[Place(p)].tree
             new == With(old, ManifestPath, build_manifest(result.assurance, entries[p]))
  <2>1. /\ pc[p] = "copy" /\ kind[p] = "bundle" /\ todo[p] = {} /\ kind' = kind
        /\ pc'[p] = "manifest" /\ outcome' = outcome
    BY <1>11, <1>0 DEF WriteManifest, Advance, Goto, idVars, TypeOK
  <2>2. staging'[Place(p)].tree = new
    BY <1>11, <1>0 DEF WriteManifest, StageFile, TypeOK
  <2>3. IsPublished(result, "bundle", old)
    BY <2>1, NothingLeft DEF DeliversThePublished, Kinds
  <2>4. IsPublished(result, "bundle", new)
    BY <2>3, ManifestApart
  <2>5. Place(p)' = Place(p)
    BY <2>1, <1>r DEF Place
  <2> HIDE DEF new
  <2> QED
    BY <2>1, <2>2, <2>4, <2>5, <1>0, <1>r DEF DeliversThePublished
<1>12. CASE PersistPayload(p)
  BY <1>12, <1>0, <1>r DEF PersistPayload, DeliversThePublished, Goto, Answer, Advance, Raise, userVars, fileVars, idVars, memVars, Place, TypeOK
<1>13. CASE TablesRecovered(p)
  <2>1. /\ pc[p] = "copy" /\ kind[p] = "recover" /\ todo[p] = {} /\ kind' = kind
        /\ pc'[p] = "selfverify" /\ outcome' = outcome /\ staging' = staging
    BY <1>13, <1>0 DEF TablesRecovered, Advance, Goto, idVars, fileVars, TypeOK
  <2>2. IsPublished(result, "recover", staging[Place(p)].tree)
    BY <2>1, NothingLeft DEF DeliversThePublished, Kinds
  <2> QED
    BY <2>1, <2>2, <1>0, <1>r DEF DeliversThePublished, Place
<1>14. CASE SelfVerify(p)
  BY <1>14, <1>0, <1>r DEF SelfVerify, DeliversThePublished, Goto, Answer, Advance, Raise, userVars, fileVars, idVars, memVars, Place, TypeOK
<1>15. CASE MarkReady(p)
  BY <1>15, <1>0, <1>r DEF MarkReady, DeliversThePublished, Goto, Answer, Advance, Raise, userVars, fileVars, idVars, memVars, Place, TypeOK
<1>16. CASE PromoteCheck(p)
  BY <1>16, <1>0, <1>r DEF PromoteCheck, DeliversThePublished, Goto, Answer, Advance, Raise, userVars, fileVars, idVars, memVars, Place, TypeOK
<1>17. CASE Rename(p)
  <2>1. CASE dest[tgt[p]] # None
    BY <1>17, <2>1, <1>0, <1>e DEF Rename, Raise, Goto, TypeOK
  <2>2. CASE dest[tgt[p]] = None
    <3>1. /\ pc[p] = "rename" /\ pc'[p] = "sync" /\ kind' = kind /\ outcome' = outcome
          /\ origin'[tgt[p]] = p /\ delivered'[tgt[p]] = staging[Place(p)].tree
      BY <1>17, <2>2, <1>0
         DEF Rename, Advance, Goto, idVars, TypeOK, DeliveryInv, FilesTyped, Staged
    <3>2. IsPublished(result, kind[p], staging[Place(p)].tree)
      BY <3>1 DEF DeliversThePublished
    <3> QED
      BY <3>1, <3>2, <1>0, <1>r DEF DeliversThePublished
  <2> QED
    BY <2>1, <2>2
<1>18. CASE SyncRename(p)
  BY <1>18, <1>0, <1>r DEF SyncRename, DeliversThePublished, Goto, Answer, Advance, Raise, userVars, fileVars, idVars, memVars, Place, TypeOK
<1>19. CASE MarkPromoted(p)
  BY <1>19, <1>0, <1>r DEF MarkPromoted, DeliversThePublished, Goto, Answer, Advance, Raise, userVars, fileVars, idVars, memVars, Place, TypeOK
<1>20. CASE RemoveMetadata(p)
  BY <1>20, <1>0, <1>r DEF RemoveMetadata, NoStaging, DeliversThePublished, Goto, Answer, Advance, Raise, userVars, fileVars, idVars, memVars, Place, TypeOK
<1>21. CASE Complete(p)
  BY <1>21, <1>0, <1>r DEF Complete, DeliversThePublished, Goto, Answer, Advance, Raise, userVars, fileVars, idVars, memVars, Place, TypeOK
<1>22. CASE Cleanup(p)
  BY <1>22, <1>0, <1>r DEF Cleanup, NoStaging, DeliversThePublished, Goto, Answer, Advance, Raise, userVars, fileVars, idVars, memVars, Place, TypeOK
<1>23. CASE Fail(p)
  BY <1>23, <1>0, <1>r DEF Fail, Exception, DeliversThePublished, Goto, Answer, Advance, Raise, userVars, fileVars, idVars, memVars, Place, TypeOK
<1>24. CASE Quit(p)
  BY <1>24, <1>0, <1>r DEF Quit, DeliversThePublished, Goto, Answer, Advance, Raise, userVars, fileVars, idVars, memVars, Place, TypeOK
<1>25. CASE Crash(p)
  BY <1>25, <1>0, <1>r DEF Crash, DeliversThePublished, Goto, Answer, Advance, Raise, userVars, fileVars, idVars, memVars, Place, TypeOK
<1> QED
  BY <1>1, <1>2, <1>3, <1>4, <1>5, <1>6, <1>7, <1>8, <1>9, <1>10, <1>11, <1>12, <1>13, <1>14, <1>15, <1>16, <1>17, <1>18, <1>19, <1>20, <1>21, <1>22, <1>23, <1>24, <1>25 DEF Acts, Step

\* Another invocation's action leaves the claim alone.
LEMMA OtherDelivery ==
  ASSUME NEW p \in Procs, NEW q \in Procs, q # p, StagingInv, DeliveryInv, Acts(p),
         DeliversThePublished(q)
  PROVE  DeliversThePublished(q)'
<1>1. /\ TypeOK /\ Local(p) /\ FileStep(p) /\ tgt[q] \in Dests /\ tgt[p] \in Dests
      /\ Place(q) \in Places /\ q # None
  BY LocalStep, FileStepLemma, PlaceType, DeliveryAssumption DEF StagingInv, DeliveryInv, TypeOK
<1>2. /\ pc'[q] = pc[q] /\ kind'[q] = kind[q] /\ todo'[q] = todo[q]
      /\ outcome'[q] = outcome[q] /\ tgt' = tgt /\ result' = result /\ working' = working
      /\ Place(q)' = Place(q)
  BY <1>1 DEF Local, Place
<1>3. pc[q] \in Locked => staging'[Place(q)] = staging[Place(q)]
  <2>1. pc[q] \in Locked /\ pc[p] \in Locked => Place(q) # Place(p)
    BY DEF StagingInv, LockIsHeld
  <2> QED
    BY <2>1, <1>1 DEF Local
<1>4. origin[tgt[q]] = q => origin'[tgt[q]] = q /\ delivered'[tgt[q]] = delivered[tgt[q]]
  <2>1. CASE Rename(p) /\ dest[tgt[p]] = None
    <3>1. origin[tgt[q]] = q => tgt[q] # tgt[p]
      BY <2>1, <1>1 DEF DeliveryInv, DeliveryHasOwner
    <3> QED
      BY <2>1, <3>1, <1>1 DEF Rename, DeliveryInv, FilesTyped
  <2>2. CASE ~(Rename(p) /\ dest[tgt[p]] = None)
    BY <2>2, <1>1 DEF FileStep, Rename, fileVars
  <2> QED
    BY <2>1, <2>2
<1>5. {"copy", "describe", "manifest", "selfverify", "ready", "promote", "rename"} \subseteq Locked
  BY DEF Locked, Inner
<1> QED
  BY <1>2, <1>3, <1>4, <1>5 DEF DeliversThePublished

LEMMA PublishedInductive ==
  StagingInv /\ DeliveryInv /\ NamesInv /\ PublishedInv /\ [Next]_vars => PublishedInv'
<1> SUFFICES ASSUME StagingInv, DeliveryInv, NamesInv, PublishedInv, [Next]_vars
             PROVE  PublishedInv'
  OBVIOUS
<1>1. ASSUME NEW p \in Procs, Acts(p) PROVE PublishedInv'
  <2>1. dirty' = dirty
    BY <1>1, LocalStep DEF StagingInv, Local
  <2>2. ASSUME NEW q \in Procs \ dirty PROVE DeliversThePublished(q)'
    BY <1>1, <2>2, OwnDelivery, OtherDelivery DEF PublishedInv, NamesInv
  <2> QED
    BY <2>1, <2>2 DEF PublishedInv
\* A user who changes the working tree is noted for everybody who looked at it.
<1>2. CASE EditWorking
  <2>1. /\ UNCHANGED <<result, pc, kind, tgt, outcome, origin, delivered>>
        /\ dirty' = dirty \cup {p \in Procs : pc[p] \in {"allow", "lock", "create"} \cup Inner}
    BY <1>2 DEF EditWorking, fileVars, idVars
  <2> QED
    BY <2>1 DEF PublishedInv, DeliversThePublished, Inner
<1>3. CASE vars' = vars \/ \E d \in Dests : EditDelivered(d)
  <2>1. UNCHANGED <<result, pc, kind, tgt, outcome, origin, delivered, dirty, working,
                    staging, todo>>
    BY <1>3 DEF EditDelivered, vars, userVars, fileVars, idVars, memVars
  <2> QED
    BY <2>1 DEF PublishedInv, DeliversThePublished, Place
<1> QED
  BY <1>1, <1>2, <1>3, NextCases DEF UserActs

\* What is answered as delivered is the published dataset, file by file, unless a
\* user changed the working tree after its fingerprint was compared
\* (transfer_bundle.py 1084-1087, recovery.py 410-545).
THEOREM PublishedTheorem ==
  ASSUME NoneIsNoTree
  PROVE  Spec => []DeliveredIsThePublishedData
<1>1. Init => PublishedInv
  BY DEF Init, PublishedInv, DeliversThePublished
<1>2. PublishedInv => DeliveredIsThePublishedData
  BY DEF PublishedInv, DeliversThePublished, IsPublished, PayloadOf, ValueOf,
         DeliveredIsThePublishedData
<1> QED
  BY <1>1, <1>2, PublishedInductive, InitNames, NamesInductive, StagingSafety, DeliverySafety,
     PTL DEF Spec

=============================================================================
