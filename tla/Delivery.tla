------------------------------- MODULE Delivery -------------------------------
(***************************************************************************)
(* Delivering a published dataset: recover (recovery.py) writes the         *)
(* original tables, create_transfer_bundle (transfer_bundle.py) writes the  *)
(* DATA_ONLY bundle, each into a private staging tree beside its            *)
(* destination that one rename promotes (engine/publication.py              *)
(* DatasetStaging, engine/locking.py DestinationLock).                      *)
(*                                                                         *)
(* Every process is one invocation.  The two operations derive different    *)
(* lock and staging names from the same destination, so a recovery and a    *)
(* bundle of one destination do not exclude each other before the rename.   *)
(* A user may change the working tree at any time and a delivered bundle    *)
(* afterwards; an invocation may crash, be cancelled or interrupted, and    *)
(* any of its file operations may fail.                                     *)
(***************************************************************************)
EXTENDS TransferBundle

CONSTANTS
  Procs, Dests, None,
  Results,        \* the results handed to create_transfer_bundle
  Faults,         \* the kinds of fault that can happen
  MaxChanges,     \* bound on the changes users make
  NewBody         \* a table body that no published output holds

Kinds == {"recover", "bundle"}
FaultKinds == {"crash", "io", "cancel", "interrupt"}

ASSUME DeliveryAssumption ==
  /\ Faults \subseteq FaultKinds
  /\ MaxChanges \in Nat
  /\ None \notin Procs

\* The files of a published dataset and what users put beside them.
Files == Stems \X {"dbf", "fpt", "cdx"}

ASSUME ResultsAssumption ==
  \A r \in Results :
    /\ r.tables \subseteq DOMAIN r.tree /\ DOMAIN r.tree \subseteq Files
    /\ \A t \in r.tables : t[2] = "dbf"

VARIABLES
  result,     \* the PseudonymizationResult: tables, published tree, assurance
  sensitive,  \* whether the file system distinguishes case
  working,    \* the pseudonymized working tree, now
  dest,       \* [Dests -> tree or None]
  staging,    \* [Kinds \X Dests -> staging root: exists, crash-state phase, tree]
  lock,       \* [Kinds \X Dests -> Procs \cup {None}], the kernel locks
  pc, kind, tgt,
  todo,       \* the artifacts an invocation has still to write
  entries,    \* the manifest entries it has collected
  flags,      \* DatasetStaging._created and _renamed
  err,        \* the exception being handled
  outcome,    \* what the invocation answered
  changes,    \* ghost: number of user changes so far
  origin,     \* ghost: whose delivery the destination holds
  delivered,  \* ghost: the tree as it was delivered
  dirty       \* ghost: invocations that worked on a tree that changed meanwhile

fileVars == <<dest, staging, origin, delivered>>
idVars == <<kind, tgt>>
memVars == <<todo, entries, flags>>
userVars == <<result, sensitive, working, changes, dirty>>
vars == <<userVars, fileVars, idVars, memVars, lock, pc, err, outcome>>

NoStaging == [root |-> FALSE, phase |-> "none", tree |-> <<>>]

Checks == {"check", "fingerprint", "allow"}
Inner == {"copy", "describe", "manifest", "selfverify", "ready", "promote", "rename",
          "sync", "mark", "remove"}
\* The points with a cancellation checkpoint, lock and create apart.
Checkpoints == Checks \cup {"copy", "describe", "manifest", "selfverify", "promote"}
Locked == {"create", "cleanup"} \cup Inner
Points == {"idle", "lock", "complete", "ended"} \cup Checks \cup Locked

Place(p) == <<kind[p], tgt[p]>>
Staged(p) == staging[Place(p)].tree

With(tree, path, content) ==
  [q \in DOMAIN tree \cup {path} |-> IF q = path THEN content ELSE tree[q]]
Without(tree, path) == [q \in DOMAIN tree \ {path} |-> tree[q]]

Goto(p, point) == pc' = [pc EXCEPT ![p] = point]

\* The invocation answers; its locals are gone.
Answer(p, o) ==
  /\ Goto(p, "ended")
  /\ outcome' = [outcome EXCEPT ![p] = o]
  /\ err' = [err EXCEPT ![p] = "none"]
  /\ todo' = [todo EXCEPT ![p] = {}]
  /\ entries' = [entries EXCEPT ![p] = {}]
  /\ flags' = [flags EXCEPT ![p] = {}]

\* The end of the lock's with statement.
Unlock(p) == lock' = [lock EXCEPT ![Place(p)] = None]

Raise(p, e) ==
  /\ Goto(p, "cleanup")
  /\ err' = [err EXCEPT ![p] = e]
  /\ UNCHANGED outcome

Advance(p, point) == Goto(p, point) /\ UNCHANGED <<err, outcome>>

Init ==
  /\ result \in Results
  /\ sensitive \in BOOLEAN
  /\ working = result.tree
  /\ dest = [d \in Dests |-> None]
  /\ staging = [k \in Kinds \X Dests |-> NoStaging]
  /\ lock = [k \in Kinds \X Dests |-> None]
  /\ pc = [p \in Procs |-> "idle"]
  /\ kind = [p \in Procs |-> "bundle"]
  /\ tgt \in [Procs -> Dests]
  /\ todo = [p \in Procs |-> {}]
  /\ entries = [p \in Procs |-> {}]
  /\ flags = [p \in Procs |-> {}]
  /\ err = [p \in Procs |-> "none"]
  /\ outcome = [p \in Procs |-> "none"]
  /\ changes = 0
  /\ origin = [d \in Dests |-> None]
  /\ delivered = [d \in Dests |-> None]
  /\ dirty = {}

(***************************************************************************)
(* Preconditions, before the destination's lock.                            *)
(***************************************************************************)
\* An existing destination is refused; overlapping paths are not modelled.
Begin(p, k, point) ==
  /\ pc[p] = "idle"
  /\ kind' = [kind EXCEPT ![p] = k]
  /\ IF dest[tgt[p]] # None
     THEN Answer(p, "refused")
     ELSE Advance(p, point) /\ UNCHANGED memVars
  /\ UNCHANGED <<userVars, fileVars, tgt, lock>>

BeginRecover(p) == Begin(p, "recover", "fingerprint")

BeginBundle(p) == Begin(p, "bundle", "check")

\* The verification core passes a tree that is logically the published one; an
\* unexpected index artifact alone makes the one PARTIAL that is accepted.
LogicallyPublished(tree) ==
  /\ {p \in DOMAIN tree : p[2] # "cdx"} = {p \in DOMAIN result.tree : p[2] # "cdx"}
  /\ \A p \in DOMAIN result.tree \cap DOMAIN tree : tree[p] = result.tree[p]

Check(p) ==
  /\ pc[p] = "check"
  /\ IF LogicallyPublished(working)
     THEN Advance(p, "fingerprint") /\ UNCHANGED memVars
     ELSE Answer(p, "refused")
  /\ UNCHANGED <<userVars, fileVars, idVars, lock>>

\* A mutant that trusts the verification instead of the complete fingerprint.
FingerprintNotCompared(p) ==
  /\ pc[p] = "fingerprint"
  /\ Advance(p, IF kind[p] = "bundle" THEN "allow" ELSE "lock")
  /\ todo' = [todo EXCEPT ![p] = result.tables]
  /\ UNCHANGED <<userVars, fileVars, idVars, entries, flags, lock>>

\* The complete fingerprint of the working tree against the published one:
\* bundle step 2, and the dataset check of _validate_recovery_authority.
Fingerprint(p) ==
  /\ pc[p] = "fingerprint"
  /\ IF working = result.tree
     THEN /\ Advance(p, IF kind[p] = "bundle" THEN "allow" ELSE "lock")
          /\ todo' = [todo EXCEPT ![p] = result.tables]
          /\ UNCHANGED <<entries, flags>>
     ELSE Answer(p, "refused")
  /\ UNCHANGED <<userVars, fileVars, idVars, lock>>

\* The allowlist is read from the working tree; a missing table raises.
Allow(p) ==
  /\ pc[p] = "allow"
  /\ IF /\ result.tables \subseteq DOMAIN working
        /\ ~AllowlistRefused(Allowlist(result.tables, working))
     THEN /\ Advance(p, "lock")
          /\ todo' = [todo EXCEPT ![p] = Allowlist(result.tables, working)]
          /\ UNCHANGED <<entries, flags>>
     ELSE Answer(p, "refused")
  /\ UNCHANGED <<userVars, fileVars, idVars, lock>>

\* The kernel lock does not wait: a held lock is a typed failure.
Acquire(p) ==
  /\ pc[p] = "lock"
  /\ IF lock[Place(p)] = None
     THEN /\ lock' = [lock EXCEPT ![Place(p)] = p]
          /\ Advance(p, "create") /\ UNCHANGED memVars
     ELSE Answer(p, "busy") /\ UNCHANGED lock
  /\ UNCHANGED <<userVars, fileVars, idVars>>

\* DatasetStaging.create, outside the try that cleans up: a create that fails
\* after its first mkdir leaves the root, and whatever root exists is stale.
Create(p) ==
  LET at == Place(p) IN
  /\ pc[p] = "create"
  /\ \/ /\ staging[at].root
        /\ Answer(p, "stale") /\ Unlock(p)
        /\ UNCHANGED staging
     \/ /\ ~staging[at].root
        /\ staging' = [staging EXCEPT ![at] =
                         [root |-> TRUE, phase |-> "RUNNING", tree |-> <<>>]]
        /\ flags' = [flags EXCEPT ![p] = {"created"}]
        /\ Advance(p, "copy")
        /\ UNCHANGED <<todo, entries, lock>>
     \/ /\ ~staging[at].root /\ "io" \in Faults
        /\ \E left \in BOOLEAN : staging' = [staging EXCEPT ![at].root = left]
        /\ Answer(p, "failed") /\ Unlock(p)
  /\ UNCHANGED <<userVars, dest, origin, delivered, idVars>>

(***************************************************************************)
(* Inside the try: write, verify, promote.                                  *)
(***************************************************************************)
\* A file that is missing from the working tree raises.
StageFile(p, path, content) ==
  staging' = [staging EXCEPT ![Place(p)].tree = With(@, path, content)]

\* Bundle: one artifact is copied and digested ...
CopyArtifact(p, path) ==
  /\ pc[p] = "copy" /\ kind[p] = "bundle" /\ path \in todo[p]
  /\ IF path \in DOMAIN working
     THEN /\ StageFile(p, path, working[path])
          /\ todo' = [todo EXCEPT ![p] = @ \ {path}]
          /\ IF path[2] = "dbf"
             THEN /\ Advance(p, "describe") /\ UNCHANGED entries
             ELSE /\ Advance(p, "copy")
                  /\ entries' = [entries EXCEPT ![p] =
                                   @ \cup {Entry(path, working[path], working[path])}]
     ELSE /\ Raise(p, "failed")
          /\ UNCHANGED <<staging, todo, entries>>
  /\ UNCHANGED <<userVars, dest, origin, delivered, idVars, flags, lock>>

\* ... and a table's count and schema are read from the working tree again.
DescribeArtifact(p, path) ==
  /\ pc[p] = "describe"
  /\ path[2] = "dbf" /\ path \in DOMAIN Staged(p)
  /\ path \notin {e.path : e \in entries[p]}
  /\ IF path \in DOMAIN working /\ ~CountRecordsRaises(working[path])
     THEN /\ entries' = [entries EXCEPT ![p] =
                           @ \cup {Entry(path, Staged(p)[path], working[path])}]
          /\ Advance(p, "copy")
     ELSE /\ Raise(p, "failed") /\ UNCHANGED entries
  /\ UNCHANGED <<userVars, fileVars, idVars, todo, flags, lock>>

WriteManifest(p) ==
  /\ pc[p] = "copy" /\ kind[p] = "bundle" /\ todo[p] = {}
  /\ StageFile(p, ManifestPath, build_manifest(result.assurance, entries[p]))
  /\ Advance(p, "manifest")
  /\ UNCHANGED <<userVars, dest, origin, delivered, idVars, memVars, lock>>

\* fsync of every staged file, and the staged fingerprint.
PersistPayload(p) ==
  /\ pc[p] = "manifest"
  /\ Advance(p, "selfverify")
  /\ UNCHANGED <<userVars, fileVars, idVars, memVars, lock>>

\* Recovery: one table is read back through the mappings and written fresh.
Recovered(content) == [original |-> content]

FilesOf(t, tree) == {t} \cup (IF tree[t].memo THEN {companion(t)} ELSE {})

RecoverTable(p, t) ==
  /\ pc[p] = "copy" /\ kind[p] = "recover" /\ t \in todo[p]
  /\ IF t \in DOMAIN working /\ FilesOf(t, working) \subseteq DOMAIN working
     THEN /\ staging' = [staging EXCEPT ![Place(p)].tree =
               [q \in DOMAIN @ \cup FilesOf(t, working) |->
                  IF q \in FilesOf(t, working) THEN Recovered(working[q]) ELSE @[q]]]
          /\ todo' = [todo EXCEPT ![p] = @ \ {t}]
          /\ Advance(p, "copy")
     ELSE Raise(p, "failed") /\ UNCHANGED <<staging, todo>>
  /\ UNCHANGED <<userVars, dest, origin, delivered, idVars, entries, flags, lock>>

TablesRecovered(p) ==
  /\ pc[p] = "copy" /\ kind[p] = "recover" /\ todo[p] = {}
  /\ Advance(p, "selfverify")
  /\ UNCHANGED <<userVars, fileVars, idVars, memVars, lock>>

\* _verify_staged_recovery reads the working tree a second time.
RecoveryAgrees(staged, tree) ==
  /\ result.tables \subseteq DOMAIN tree
  /\ DOMAIN staged = UNION {FilesOf(t, tree) : t \in result.tables}
  /\ \A q \in DOMAIN staged : q \in DOMAIN tree /\ staged[q] = Recovered(tree[q])

StagedIsAccepted(p) ==
  IF kind[p] = "bundle" THEN verify_bundle_core(Staged(p), sensitive)
                        ELSE RecoveryAgrees(Staged(p), working)

SelfVerify(p) ==
  /\ pc[p] = "selfverify"
  /\ IF StagedIsAccepted(p)
     THEN Advance(p, IF kind[p] = "bundle" THEN "ready" ELSE "promote")
     ELSE Raise(p, "failed")
  /\ UNCHANGED <<userVars, fileVars, idVars, memVars, lock>>

\* Only a bundle records READY_TO_PROMOTE and, after the rename, PROMOTED.
MarkReady(p) ==
  /\ pc[p] = "ready"
  /\ staging' = [staging EXCEPT ![Place(p)].phase = "READY_TO_PROMOTE"]
  /\ Advance(p, "promote")
  /\ UNCHANGED <<userVars, dest, origin, delivered, idVars, memVars, lock>>

\* The check of promote, one system call before the rename.
PromoteCheck(p) ==
  /\ pc[p] = "promote"
  /\ IF dest[tgt[p]] = None THEN Advance(p, "rename") ELSE Raise(p, "failed")
  /\ UNCHANGED <<userVars, fileVars, idVars, memVars, lock>>

\* A mutant in which the rename replaces a destination that appeared meanwhile.
RenameReplaces(p) ==
  /\ pc[p] = "rename"
  /\ dest' = [dest EXCEPT ![tgt[p]] = Staged(p)]
  /\ staging' = [staging EXCEPT ![Place(p)].tree = <<>>]
  /\ origin' = [origin EXCEPT ![tgt[p]] = p]
  /\ delivered' = [delivered EXCEPT ![tgt[p]] = Staged(p)]
  /\ Advance(p, "sync")
  /\ UNCHANGED <<userVars, idVars, memVars, lock>>

\* os.replace moves the directory; onto one that is not empty it fails.
Rename(p) ==
  /\ pc[p] = "rename"
  /\ IF dest[tgt[p]] = None
     THEN /\ dest' = [dest EXCEPT ![tgt[p]] = Staged(p)]
          /\ staging' = [staging EXCEPT ![Place(p)].tree = <<>>]
          /\ origin' = [origin EXCEPT ![tgt[p]] = p]
          /\ delivered' = [delivered EXCEPT ![tgt[p]] = Staged(p)]
          /\ Advance(p, "sync")
     ELSE Raise(p, "failed") /\ UNCHANGED fileVars
  /\ UNCHANGED <<userVars, idVars, memVars, lock>>

\* The parent directory is synced and the rename fact recorded; a failed sync
\* records it too, an interrupt in between does not.
SyncRename(p) ==
  /\ pc[p] = "sync"
  /\ flags' = [flags EXCEPT ![p] = @ \cup {"renamed"}]
  /\ \/ Advance(p, IF kind[p] = "bundle" THEN "mark" ELSE "remove")
     \/ "io" \in Faults /\ Raise(p, "failed")
  /\ UNCHANGED <<userVars, fileVars, idVars, todo, entries, lock>>

MarkPromoted(p) ==
  /\ pc[p] = "mark"
  /\ staging' = [staging EXCEPT ![Place(p)].phase = "PROMOTED"]
  /\ Advance(p, "remove")
  /\ UNCHANGED <<userVars, dest, origin, delivered, idVars, memVars, lock>>

\* The record and the empty root go, and with them the lock's with statement.
RemoveMetadata(p) ==
  /\ pc[p] = "remove"
  /\ staging' = [staging EXCEPT ![Place(p)] = NoStaging]
  /\ Unlock(p)
  /\ Advance(p, "complete")
  /\ UNCHANGED <<userVars, dest, origin, delivered, idVars, memVars>>

\* The terminal event is emitted after the delivery and polls no cancellation,
\* but a progress callback that raises there replaces the result.
Complete(p) ==
  /\ pc[p] = "complete"
  /\ \/ Answer(p, "delivered")
     \/ "cancel" \in Faults /\ Answer(p, "callback")
  /\ UNCHANGED <<userVars, fileVars, idVars, lock>>

(***************************************************************************)
(* Failures.                                                                *)
(***************************************************************************)
\* The exception that a fault raises.
Exception == [io |-> "failed", cancel |-> "cancelled", interrupt |-> "interrupted"]

\* A fault at a point of the try; sync handles its own I/O failure.
Fail(p) ==
  /\ pc[p] \in Inner
  /\ \/ pc[p] # "sync" /\ "io" \in Faults /\ Raise(p, Exception["io"])
     \/ pc[p] \in Checkpoints /\ "cancel" \in Faults /\ Raise(p, Exception["cancel"])
     \/ "interrupt" \in Faults /\ Raise(p, Exception["interrupt"])
  /\ UNCHANGED <<userVars, fileVars, idVars, memVars, lock>>

\* Before the try there is nothing to clean but the lock.
Quit(p) ==
  /\ pc[p] \in Checks \cup {"create"}
  /\ "cancel" \in Faults /\ Answer(p, "cancelled")
  /\ IF pc[p] = "create" THEN Unlock(p) ELSE UNCHANGED lock
  /\ UNCHANGED <<userVars, fileVars, idVars>>

\* A mutant of the handler that keeps the staging tree after a cancellation.
CleanupForgetsCancel(p) ==
  /\ pc[p] = "cleanup"
  /\ IF err[p] = "cancelled"
     THEN UNCHANGED staging
     ELSE staging' = [staging EXCEPT ![Place(p)] = NoStaging]
  /\ Unlock(p)
  /\ Answer(p, err[p])
  /\ UNCHANGED <<userVars, dest, origin, delivered, idVars>>

\* cleanup_owned removes the staging tree of this owner unless it was renamed.
\* A cleanup failure is attached to an Exception and swallowed for the others.
Cleanup(p) ==
  /\ pc[p] = "cleanup"
  /\ \/ /\ IF "created" \in flags[p] /\ "renamed" \notin flags[p]
           THEN staging' = [staging EXCEPT ![Place(p)] = NoStaging]
           ELSE UNCHANGED staging
        /\ Answer(p, err[p])
     \/ /\ "io" \in Faults /\ "renamed" \notin flags[p]
        /\ Answer(p, IF err[p] = "interrupted" THEN "interrupted" ELSE "residue")
        /\ UNCHANGED staging
  /\ Unlock(p)
  /\ UNCHANGED <<userVars, dest, origin, delivered, idVars>>

\* A crash releases the kernel lock and leaves the files.
Crash(p) ==
  /\ "crash" \in Faults /\ pc[p] \notin {"idle", "ended"}
  /\ Answer(p, "crashed")
  /\ IF pc[p] \in Locked THEN Unlock(p) ELSE UNCHANGED lock
  /\ UNCHANGED <<userVars, fileVars, idVars>>

(***************************************************************************)
(* Users.                                                                   *)
(***************************************************************************)
\* The other contents a file can be given: another body, another number of
\* records behind the same header, a whole other table.
Rewritten(content) ==
  {[content EXCEPT !.body = NewBody]} \cup
  (IF "memo" \in DOMAIN content
   THEN {[content EXCEPT !.records = @ + 1],
         [content EXCEPT !.records = @ + 1, !.header = @ + 1]}
   ELSE {})

\* A name that differs only by case cannot be added where the file system
\* does not distinguish it.
Addable(tree) ==
  {q \in (Stems \X {"dbf", "cdx"}) \ DOMAIN tree :
     sensitive \/ casefold(q) \notin {casefold(r) : r \in DOMAIN tree}}

\* One file rewritten, removed or added.
RewrittenTrees(tree) ==
  UNION {{With(tree, q, c) : c \in Rewritten(tree[q])} : q \in DOMAIN tree \ {ManifestPath}}

RemovedTrees(tree) == {Without(tree, q) : q \in DOMAIN tree}

AddedContent(path) ==
  IF path[2] = "dbf" THEN TableContent(NewBody, 0, 0, FALSE) ELSE [body |-> NewBody]

AddedTrees(tree) == {With(tree, q, AddedContent(q)) : q \in Addable(tree)}

ChangedTrees(tree) == RewrittenTrees(tree) \cup RemovedTrees(tree) \cup AddedTrees(tree)

EditWorking ==
  /\ changes < MaxChanges
  /\ working' \in ChangedTrees(working)
  /\ changes' = changes + 1
  /\ dirty' = dirty \cup {p \in Procs : pc[p] \in {"allow", "lock", "create"} \cup Inner}
  /\ UNCHANGED <<result, sensitive, fileVars, idVars, memVars, lock, pc, err, outcome>>

\* A bundle is changed where it was delivered, or damaged on its way.
EditDelivered(d) ==
  /\ changes < MaxChanges
  /\ dest[d] # None /\ kind[origin[d]] = "bundle"
  /\ \E tree \in ChangedTrees(dest[d]) : dest' = [dest EXCEPT ![d] = tree]
  /\ changes' = changes + 1
  /\ UNCHANGED <<result, sensitive, working, dirty, staging, origin, delivered, idVars,
                 memVars, lock, pc, err, outcome>>

Step(p) ==
  \/ Check(p) \/ Fingerprint(p) \/ Allow(p) \/ Acquire(p) \/ Create(p)
  \/ \E path \in todo[p] : CopyArtifact(p, path)
  \/ \E path \in DOMAIN Staged(p) : DescribeArtifact(p, path)
  \/ \E t \in todo[p] : RecoverTable(p, t)
  \/ WriteManifest(p) \/ PersistPayload(p) \/ TablesRecovered(p)
  \/ SelfVerify(p) \/ MarkReady(p) \/ PromoteCheck(p) \/ Rename(p) \/ SyncRename(p)
  \/ MarkPromoted(p) \/ RemoveMetadata(p) \/ Complete(p) \/ Cleanup(p)

Next ==
  \/ \E p \in Procs :
       \/ BeginRecover(p) \/ BeginBundle(p)
       \/ Step(p) \/ Fail(p) \/ Quit(p) \/ Crash(p)
  \/ EditWorking
  \/ \E d \in Dests : EditDelivered(d)

Spec == Init /\ [][Next]_vars

(***************************************************************************)
(* Properties.                                                             *)
(***************************************************************************)
\* A complete delivery: a bundle its own core accepts, or every table of the
\* dataset in original form with the companion it needs, and nothing else.
WholeRecovery(tables, tree) ==
  /\ tables \subseteq DOMAIN tree
  /\ DOMAIN tree = UNION {{t} \cup (IF tree[t].original.memo THEN {companion(t)} ELSE {})
                            : t \in tables}

Whole(d) ==
  IF kind[origin[d]] = "bundle" THEN verify_bundle_core(dest[d], sensitive)
                                ELSE WholeRecovery(result.tables, dest[d])

PlaceOf(d) ==
  IF dest[d] = None THEN "empty"
  ELSE IF dest[d] # delivered[d] THEN "touched"
  ELSE IF Whole(d) THEN "whole" ELSE "partial"

Contract == INSTANCE DeliveryContract WITH
  Nobody <- None,
  place <- [d \in Dests |-> PlaceOf(d)],
  owner <- origin,
  answer <- [p \in Procs |-> IF outcome[p] \in {"none", "delivered"} THEN outcome[p] ELSE "other"]

\* Whatever crashes, fails or races, a destination is filled by one rename with
\* a whole delivery, is never replaced by the other operation (which holds
\* another lock), and success is answered only for one's own delivery
\* (recovery.py 318-364, transfer_bundle.py 1118-1233).
KeepsDelivery == Contract!CSpec

\* A staging tree with payload - for a recovery, original data - has a live
\* owner, or an owner that crashed, was interrupted, or reported that its
\* cleanup failed: no failure or cancellation leaves it silently
\* (recovery.py 330-350).
StagingIsAccountedFor ==
  \A at \in Kinds \X Dests : staging[at].tree # <<>> =>
    \E p \in Procs :
      /\ Place(p) = at
      /\ \/ pc[p] \in Inner \cup {"cleanup"}
         \/ outcome[p] \in {"crashed", "residue", "interrupted"}

\* An existing staging root is changed only by the invocation that created it
\* and still holds its lock: what a crashed recovery left is neither reused
\* nor removed by the next one (engine/publication.py 355-358, 564-583).
OnlyTheCreatorWrites ==
  [][\A at \in Kinds \X Dests :
       staging[at].root /\ staging'[at] # staging[at] =>
         \E p \in Procs : Place(p) = at /\ lock[at] = p /\ "created" \in flags[p]]_vars

\* What is answered as delivered is the published dataset, unless a user changed
\* the working tree after its fingerprint was compared: a change between the
\* verification and the fingerprint is always noticed
\* (transfer_bundle.py 1084-1087, recovery.py 410-545).
DeliveredIsThePublishedData ==
  \A p \in Procs : outcome[p] = "delivered" /\ p \notin dirty =>
    LET tree == delivered[tgt[p]]
        payload == Allowlist(result.tables, result.tree) IN
    /\ DOMAIN tree \ {ManifestPath} = payload
    /\ \A q \in payload : tree[q] = IF kind[p] = "bundle" THEN result.tree[q]
                                                        ELSE Recovered(result.tree[q])

\* Two trees with the same files but for the case of their names.
SameFiles(a, b) ==
  /\ {casefold(q) : q \in DOMAIN a} = {casefold(q) : q \in DOMAIN b}
  /\ \A q \in DOMAIN a, r \in DOMAIN b : casefold(q) = casefold(r) => a[q] = b[r]

\* A bundle that standalone verification accepts under its original manifest is
\* the bundle that was created, file by file but for the case of names, on either
\* kind of file system: every change to the payload, an added name that differs
\* only by case included, is noticed (transfer_bundle.py 872-1000).
AcceptedBundleIsIntact ==
  \A d \in Dests, s \in BOOLEAN :
    /\ dest[d] # None /\ kind[origin[d]] = "bundle"
    /\ verify_bundle_core(dest[d], s)
    /\ dest[d][ManifestPath] = delivered[d][ManifestPath]
    => SameFiles(dest[d], delivered[d])

\* An intact bundle is accepted on the file system it was created on and on any
\* other, as a bundle is meant to move between operating systems
\* (transfer_bundle.py 293-301).
BundleIsPortable ==
  \A d \in Dests, s \in BOOLEAN :
    dest[d] # None /\ kind[origin[d]] = "bundle" /\ dest[d] = delivered[d] =>
      verify_bundle_core(dest[d], s)

=============================================================================
