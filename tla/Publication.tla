---------------------------- MODULE Publication ----------------------------
(***************************************************************************)
(* Transactional publication of pseudonymized datasets: the control flow   *)
(* of engine/run.py run_two_pass, with the durable state it moves through  *)
(* (the vault's operation row and writer lease, the private staging root   *)
(* of engine/publication.py DatasetStaging, the Pass-1 spool, the Pass-2   *)
(* evidence root and the final destination).                               *)
(*                                                                         *)
(* Any number of processes run run_two_pass against one vault.  A process  *)
(* can crash between any two steps; each file-system or SQLite step can    *)
(* fail; a user can create, change or delete the destination at any time.  *)
(* Everything durable survives a crash, everything volatile is lost.       *)
(***************************************************************************)
EXTENDS Naturals

CONSTANTS
  Procs,       \* processes that call run_two_pass
  Dests,       \* destination identities; the operation id is derived from it
  Payloads,    \* complete staged dataset trees, identified by fingerprint
  Partial,     \* an incomplete staged dataset tree
  Foreign,     \* destination content that no operation of the vault wrote
  Empty,       \* an empty directory at the destination
  None,        \* absent: no file, no owner, no fingerprint
  Dead,        \* ownership left behind by a process that no longer runs
  Faults       \* the kinds of fault the environment may inject

FaultKinds == {"crash", "io", "vault", "cancel", "user", "interrupt"}

ASSUME SentinelsDistinct ==
  /\ {Partial, Foreign, Empty, None, Dead} \cap (Procs \cup Payloads) = {}
  /\ None \notin {Partial, Foreign, Empty, Dead} /\ Partial \notin {Foreign, Empty}
ASSUME FaultsAreKinds == Faults \subseteq FaultKinds

VARIABLES
  \* durable: the vault
  lease,       \* writer_authority.owner_token
  op,          \* operations.state per destination, "none" without a row
  opFp,        \* operations.output_fingerprint and receipt per destination
  pub,         \* phases of the publication rows per destination
  \* durable: the file system
  entries,     \* what the staging root holds: "root" itself, "tables", "tmp"
  txn,         \* phase of transaction.json, "none" without the file
  txnFp,       \* output_fingerprint of transaction.json
  staged,      \* content of <staging root>/dataset
  dest,        \* content of the destination
  spool,       \* owner of the Pass-1 spool file
  evidence,    \* owner of the Pass-2 evidence root
  \* volatile
  lock,        \* kernel lock per destination (DestinationLock)
  pc,          \* control point of each process: the step it takes next
  tgt,         \* destination of each process
  flags,       \* what each invocation remembers of itself
  fp,          \* output_fingerprint computed by this invocation
  err,         \* class of the exception in flight
  outcome,     \* how the last invocation of the process ended
  \* auxiliary (history only, never read by an action)
  exposed,     \* payload the program itself moved to the destination
  touched      \* destinations a user changed since then

vaultVars == <<lease, op, opFp, pub>>
stagingVars == <<entries, txn, txnFp, staged>>
residueVars == <<spool, evidence>>
endVars == <<err, outcome>>
ghosts == <<exposed, touched>>
vars == <<vaultVars, stagingVars, dest, residueVars, lock, pc, tgt, flags, fp,
          endVars, ghosts>>

(***************************************************************************)
(* Control points.                                                         *)
(***************************************************************************)
\* Under the destination lock, before the writer lease.
Classifying == {"classify", "reconcile", "reuse", "fresh", "lease"}

\* Inside the try block of run_two_pass, up to the atomic rename.
Building == {"begin", "create", "mkdirs", "running", "spool", "pass1", "evidence",
             "pass2", "rebuild", "stage", "record", "persist", "ready", "promote",
             "rename"}

\* Inside the try block, after the atomic rename.
Exposing == {"sync", "mark", "complete", "rmTables", "rmTxn", "rmRoot"}

\* The except clause of run_two_pass.
Handling == {"handler", "dropEvidence", "abandon"}

Leaving == {"cleanup", "verify", "close"}

LeasePoints == Building \cup Exposing \cup Handling \cup {"release"}
LockPoints == Classifying \cup LeasePoints \cup {"unlock"}
Points == {"idle", "open", "lock"} \cup LockPoints \cup Leaving

Phases == {"none", "RUNNING", "READY_TO_PROMOTE", "PROMOTED"}
Errors == {"none", "cancelled", "busy", "conflict", "stale", "staging", "leftover",
           "failed", "cleanup"}
Outcomes == Errors \cup {"published", "reused", "crashed"}

\* operation_started; DatasetStaging._created and ._renamed; a PassOneSpool
\* object and an evidence_root exist; VaultDatabase._poisoned.
Flags == {"started", "created", "renamed", "spool", "evidence", "poisoned"}

HoldsLock(p) == pc[p] \in LockPoints
HoldsLease(p) == pc[p] \in LeasePoints

(***************************************************************************)
(* Helpers.                                                                *)
(***************************************************************************)
Goto(p, point) == pc' = [pc EXCEPT ![p] = point]

Advance(p, point) == Goto(p, point) /\ UNCHANGED endVars

\* An exception of class e; control continues at point.  A later exception
\* replaces the one in flight (raise ... from original).
RaiseTo(p, point, e) ==
  /\ Goto(p, point)
  /\ err' = [err EXCEPT ![p] = e]
  /\ UNCHANGED outcome

\* An exception inside the try block: the except clause runs next.
Raise(p, e) == RaiseTo(p, "handler", e)

\* An exception under the lock but outside the writer lease.
Refuse(p, e) == RaiseTo(p, "unlock", e)

WithFlag(p, f) == [flags EXCEPT ![p] = @ \cup {f}]

\* A vault transaction that raises.  Before COMMIT nothing is written (a failed
\* ROLLBACK poisons the connection); a failed COMMIT poisons it and may or may
\* not have become durable.
TxnFails(p, durable) ==
  /\ "vault" \in Faults
  /\ \/ flags' = WithFlag(p, "poisoned")
     \/ ~durable /\ UNCHANGED flags

\* Ownership a process leaves behind when it dies.
Orphan(owner, p) == IF owner = p THEN Dead ELSE owner

Residue == spool # None \/ evidence # None

\* shutil.rmtree of the staging root of d, completed.
RemoveStaging(d) ==
  /\ entries' = [entries EXCEPT ![d] = {}]
  /\ txn' = [txn EXCEPT ![d] = "none"]
  /\ txnFp' = [txnFp EXCEPT ![d] = None]
  /\ staged' = [staged EXCEPT ![d] = None]

\* shutil.rmtree of the staging root of d, stopped midway: the root remains
\* with any part of what it held.
RemoveStagingPartly(d) ==
  /\ \E rest \in SUBSET entries[d] :
       "root" \in rest /\ entries' = [entries EXCEPT ![d] = rest]
  /\ \/ UNCHANGED <<txn, txnFp>>
     \/ /\ txn' = [txn EXCEPT ![d] = "none"]
        /\ txnFp' = [txnFp EXCEPT ![d] = None]
  /\ \/ UNCHANGED staged
     \/ staged' = [staged EXCEPT ![d] = None]
     \/ staged[d] # None /\ staged' = [staged EXCEPT ![d] = Partial]

Init ==
  /\ lease = None
  /\ op = [d \in Dests |-> "none"]
  /\ opFp = [d \in Dests |-> None]
  /\ pub = [d \in Dests |-> {}]
  /\ entries = [d \in Dests |-> {}]
  /\ txn = [d \in Dests |-> "none"]
  /\ txnFp = [d \in Dests |-> None]
  /\ staged = [d \in Dests |-> None]
  /\ dest = [d \in Dests |-> None]
  /\ spool = None
  /\ evidence = None
  /\ lock = [d \in Dests |-> None]
  /\ pc = [p \in Procs |-> "idle"]
  /\ tgt \in [Procs -> Dests]
  /\ flags = [p \in Procs |-> {}]
  /\ fp = [p \in Procs |-> None]
  /\ err = [p \in Procs |-> "none"]
  /\ outcome = [p \in Procs |-> "none"]
  /\ exposed = [d \in Dests |-> None]
  /\ touched = {}

(***************************************************************************)
(* Entering run_two_pass: open the vault, lock the destination, classify.  *)
(***************************************************************************)
Start(p, d) ==
  /\ pc[p] = "idle"
  /\ Goto(p, "open")
  /\ tgt' = [tgt EXCEPT ![p] = d]
  /\ outcome' = [outcome EXCEPT ![p] = "none"]
  /\ UNCHANGED <<vaultVars, stagingVars, dest, residueVars, lock, flags, fp, err, ghosts>>

\* Revalidating the plan and VaultDatabase.open: nothing is written.  The early
\* refusal of leftovers beside a vault that does not exist yet (run.py 1332) is
\* never met: no vault is lost here, and only a run on a vault leaves any.
OpenVault(p) ==
  /\ pc[p] = "open"
  /\ \/ Advance(p, "lock")
     \/ "cancel" \in Faults /\ RaiseTo(p, "close", "cancelled")
     \/ "vault" \in Faults /\ RaiseTo(p, "close", "failed")
  /\ UNCHANGED <<vaultVars, stagingVars, dest, residueVars, lock, tgt, flags, fp, ghosts>>

\* DestinationLock.__enter__: one non-blocking attempt.
Lock(p) ==
  /\ pc[p] = "lock"
  /\ \/ /\ lock[tgt[p]] = None
        /\ lock' = [lock EXCEPT ![tgt[p]] = p]
        /\ Advance(p, "classify")
     \/ lock[tgt[p]] # None /\ RaiseTo(p, "close", "busy") /\ UNCHANGED lock
     \/ "io" \in Faults /\ RaiseTo(p, "close", "failed") /\ UNCHANGED lock
  /\ UNCHANGED <<vaultVars, stagingVars, dest, residueVars, tgt, flags, fp, ghosts>>

\* _existing_completed_result, up to the reconciliation of residual staging.
ClassifyNew(p) ==
  LET d == tgt[p] IN
  /\ pc[p] = "classify"
  /\ op[d] = "none"
  /\ CASE "root" \in entries[d] -> Refuse(p, "stale")
       [] "root" \notin entries[d] /\ dest[d] # None -> Refuse(p, "conflict")
       [] OTHER -> Advance(p, "fresh")
  /\ UNCHANGED <<vaultVars, stagingVars, dest, residueVars, lock, tgt, flags, fp, ghosts>>

ClassifyStarted(p) ==
  /\ pc[p] = "classify"
  /\ op[tgt[p]] = "STARTED"
  /\ Refuse(p, "stale")
  /\ UNCHANGED <<vaultVars, stagingVars, dest, residueVars, lock, tgt, flags, fp, ghosts>>

\* The completed output as the receipt describes it.
OutputMatches(d) == opFp[d] # None /\ dest[d] = opFp[d]

ClassifyCompleted(p) ==
  LET d == tgt[p] IN
  /\ pc[p] = "classify"
  /\ op[d] = "COMPLETED"
  /\ \/ ~OutputMatches(d) /\ Refuse(p, "failed")
     \/ OutputMatches(d) /\ Advance(p, IF "root" \in entries[d] THEN "reconcile" ELSE "reuse")
     \/ "cancel" \in Faults /\ Refuse(p, "cancelled")
     \/ "io" \in Faults /\ Refuse(p, "failed")
  /\ UNCHANGED <<vaultVars, stagingVars, dest, residueVars, lock, tgt, flags, fp, ghosts>>

\* reconcile_completed_staging_residual: the crash state proves that only the
\* metadata cleanup was left.
ResidualIsCoherent(d) ==
  txn[d] = "PROMOTED" /\ txnFp[d] = opFp[d] /\ staged[d] = None

\* A failed rmtree is ignored.
Reconcile(p) ==
  LET d == tgt[p] IN
  /\ pc[p] = "reconcile"
  /\ \/ ~ResidualIsCoherent(d) /\ Refuse(p, "staging") /\ UNCHANGED stagingVars
     \/ ResidualIsCoherent(d) /\ Advance(p, "reuse") /\ RemoveStaging(d)
     \/ ResidualIsCoherent(d) /\ "io" \in Faults /\ Advance(p, "reuse") /\ RemoveStagingPartly(d)
  /\ UNCHANGED <<vaultVars, dest, residueVars, lock, tgt, flags, fp, ghosts>>

\* refuse_spool_leftovers and refuse_evidence_leftovers, then the stored result.
Reuse(p) ==
  /\ pc[p] = "reuse"
  /\ IF Residue THEN Refuse(p, "leftover") ELSE Advance(p, "unlock")
  /\ UNCHANGED <<vaultVars, stagingVars, dest, residueVars, lock, tgt, flags, fp, ghosts>>

Fresh(p) ==
  /\ pc[p] = "fresh"
  /\ IF Residue THEN Refuse(p, "leftover") ELSE Advance(p, "lease")
  /\ UNCHANGED <<vaultVars, stagingVars, dest, residueVars, lock, tgt, flags, fp, ghosts>>

\* The conditional UPDATE of acquire_writer_lease finds no owner.
LeaseIsFree == lease = None

\* acquire_writer_lease: a failed COMMIT may leave a token nobody holds.
AcquireLease(p) ==
  /\ pc[p] = "lease"
  /\ \/ LeaseIsFree /\ lease' = p /\ Advance(p, "begin") /\ UNCHANGED flags
     \/ ~LeaseIsFree /\ Refuse(p, "busy") /\ UNCHANGED <<lease, flags>>
     \/ \E durable \in BOOLEAN :
          /\ TxnFails(p, durable)
          /\ durable => LeaseIsFree
          /\ lease' = IF durable THEN Dead ELSE lease
          /\ Refuse(p, "failed")
  /\ UNCHANGED <<op, opFp, pub, stagingVars, dest, residueVars, lock, tgt, fp, ghosts>>

(***************************************************************************)
(* Inside the try block: build, stage and promote the dataset.             *)
(***************************************************************************)
\* begin_operation and its COMMIT; operation_started is set afterwards.
BeginOperation(p) ==
  LET d == tgt[p]
      row == [op EXCEPT ![d] = "STARTED"] IN
  /\ pc[p] = "begin"
  /\ \/ op[d] = "none" /\ op' = row /\ flags' = WithFlag(p, "started") /\ Advance(p, "create")
     \/ op[d] # "none" /\ UNCHANGED <<op, flags>> /\ Raise(p, "failed")
     \/ \E durable \in BOOLEAN :
          /\ TxnFails(p, durable)
          /\ durable => op[d] = "none"
          /\ op' = IF durable THEN row ELSE op
          /\ Raise(p, "failed")
     \/ /\ "interrupt" \in Faults
        /\ op[d] = "none" /\ op' = row
        /\ Raise(p, "failed") /\ UNCHANGED flags
  /\ UNCHANGED <<lease, opFp, pub, stagingVars, dest, residueVars, lock, tgt, fp, ghosts>>

\* DatasetStaging.create: the root directory and _created.
CreateRoot(p) ==
  LET d == tgt[p] IN
  /\ pc[p] = "create"
  /\ \/ /\ "root" \notin entries[d]
        /\ entries' = [entries EXCEPT ![d] = {"root"}]
        /\ flags' = WithFlag(p, "created")
        /\ Advance(p, "mkdirs")
     \/ /\ "root" \in entries[d] \/ "io" \in Faults
        /\ Raise(p, "failed")
        /\ UNCHANGED <<entries, flags>>
  /\ UNCHANGED <<vaultVars, txn, txnFp, staged, dest, residueVars, lock, tgt, fp, ghosts>>

\* DatasetStaging.create: tables/ and dataset/.
CreateDirectories(p) ==
  LET d == tgt[p] IN
  /\ pc[p] = "mkdirs"
  /\ \/ /\ entries' = [entries EXCEPT ![d] = @ \cup {"tables"}]
        /\ staged' = [staged EXCEPT ![d] = Partial]
        /\ Advance(p, "running")
     \/ /\ "io" \in Faults
        /\ entries' \in {entries, [entries EXCEPT ![d] = @ \cup {"tables"}]}
        /\ Raise(p, "failed")
        /\ UNCHANGED staged
  /\ UNCHANGED <<vaultVars, txn, txnFp, dest, residueVars, lock, tgt, flags, fp, ghosts>>

\* The phase each write of transaction.json records, and the step that follows.
RecordPoints == {"running", "ready", "mark"}
PhaseAt(point) ==
  CASE point = "running" -> "RUNNING"
    [] point = "ready" -> "READY_TO_PROMOTE"
    [] OTHER -> "PROMOTED"
AfterPhase(point) ==
  CASE point = "running" -> "spool"
    [] point = "ready" -> "promote"
    [] OTHER -> "complete"

\* write_durable_bytes, first half: the temporary file, complete and fsynced.
\* A failure removes it with a best effort.
WriteTemporary(p) ==
  LET d == tgt[p]
      written == [entries EXCEPT ![d] = @ \cup {"tmp"}] IN
  /\ pc[p] \in RecordPoints
  /\ "tmp" \notin entries[d]
  /\ \/ entries' = written /\ Advance(p, pc[p])
     \/ "io" \in Faults /\ entries' \in {entries, written} /\ Raise(p, "failed")
  /\ UNCHANGED <<vaultVars, txn, txnFp, staged, dest, residueVars, lock, tgt, flags, fp, ghosts>>

\* write_durable_bytes, second half: os.replace, then sync_directory, which can
\* fail although the record has been replaced.
ReplaceRecord(p) ==
  LET d == tgt[p] IN
  /\ pc[p] \in RecordPoints
  /\ "tmp" \in entries[d]
  /\ \/ /\ entries' = [entries EXCEPT ![d] = @ \ {"tmp"}]
        /\ txn' = [txn EXCEPT ![d] = PhaseAt(pc[p])]
        /\ txnFp' = [txnFp EXCEPT ![d] = fp[p]]
        /\ \/ Advance(p, AfterPhase(pc[p]))
           \/ "io" \in Faults /\ Raise(p, "failed")
     \/ /\ "io" \in Faults
        /\ entries' \in {entries, [entries EXCEPT ![d] = @ \ {"tmp"}]}
        /\ Raise(p, "failed")
        /\ UNCHANGED <<txn, txnFp>>
  /\ UNCHANGED <<vaultVars, staged, dest, residueVars, lock, tgt, flags, fp, ghosts>>

\* PassOneSpool: O_EXCL creation after the leftover check.  A failed
\* initialization may leave the file behind, owned by nobody.
CreateSpool(p) ==
  /\ pc[p] = "spool"
  /\ \/ spool = None /\ spool' = p /\ flags' = WithFlag(p, "spool") /\ Advance(p, "pass1")
     \/ spool # None /\ Raise(p, "leftover") /\ UNCHANGED <<spool, flags>>
     \/ /\ "io" \in Faults /\ spool = None
        /\ spool' \in {None, Dead}
        /\ Raise(p, "failed") /\ UNCHANGED flags
  /\ UNCHANGED <<vaultVars, stagingVars, dest, evidence, lock, tgt, fp, ghosts>>

\* run_pass_one, run_pass_one_finalize and the registrations: they write
\* mappings to the vault in transactions of their own.
PassOne(p) ==
  /\ pc[p] = "pass1"
  /\ \/ Advance(p, "evidence") /\ UNCHANGED flags
     \/ "cancel" \in Faults /\ Raise(p, "cancelled") /\ UNCHANGED flags
     \/ "io" \in Faults /\ Raise(p, "failed") /\ UNCHANGED flags
     \/ TxnFails(p, TRUE) /\ Raise(p, "failed")
  /\ UNCHANGED <<vaultVars, stagingVars, dest, residueVars, lock, tgt, fp, ghosts>>

CreateEvidence(p) ==
  /\ pc[p] = "evidence"
  /\ \/ /\ evidence = None
        /\ evidence' = p /\ flags' = WithFlag(p, "evidence")
        /\ Advance(p, "pass2")
     \/ evidence # None /\ Raise(p, "leftover") /\ UNCHANGED <<evidence, flags>>
     \/ "io" \in Faults /\ Raise(p, "failed") /\ UNCHANGED <<evidence, flags>>
  /\ UNCHANGED <<vaultVars, stagingVars, dest, spool, lock, tgt, fp, ghosts>>

\* Mutant: a failed worker is not noticed.
PassTwoIgnoresFailure(p) ==
  /\ pc[p] = "pass2"
  /\ \E x \in Payloads \cup {Partial} : staged' = [staged EXCEPT ![tgt[p]] = x]
  /\ evidence' = None
  /\ Advance(p, "rebuild")
  /\ UNCHANGED <<vaultVars, entries, txn, txnFp, dest, spool, lock, tgt, flags, fp, ghosts>>

\* run_pass_two: every table is assembled into the staged dataset and the
\* evidence shards are consumed and removed.
PassTwo(p) ==
  LET d == tgt[p] IN
  /\ pc[p] = "pass2"
  /\ \/ /\ \E x \in Payloads : staged' = [staged EXCEPT ![d] = x]
        /\ evidence' = None
        /\ Advance(p, "rebuild")
     \/ "cancel" \in Faults /\ Raise(p, "cancelled") /\ UNCHANGED <<staged, evidence>>
     \/ /\ "io" \in Faults
        /\ \E x \in Payloads \cup {Partial} : staged' = [staged EXCEPT ![d] = x]
        /\ evidence' \in {evidence, None}
        /\ Raise(p, "failed")
  /\ UNCHANGED <<vaultVars, entries, txn, txnFp, dest, spool, lock, tgt, flags, fp, ghosts>>

\* DATA_ONLY index evidence leaves the dataset alone, and so does VFP_INDEXED
\* without index work; the VFP_INDEXED rebuild adds index files to it.
RebuildIndexes(p) ==
  LET d == tgt[p] IN
  /\ pc[p] = "rebuild"
  /\ \/ UNCHANGED staged /\ Advance(p, "stage")
     \/ \E x \in Payloads : staged' = [staged EXCEPT ![d] = x] /\ Advance(p, "stage")
     \/ "cancel" \in Faults /\ Raise(p, "cancelled") /\ staged' = [staged EXCEPT ![d] = Partial]
     \/ "io" \in Faults /\ Raise(p, "failed") /\ staged' = [staged EXCEPT ![d] = Partial]
  /\ UNCHANGED <<vaultVars, entries, txn, txnFp, dest, residueVars, lock, tgt, flags, fp, ghosts>>

\* fingerprint_dataset of the staged tree.
FingerprintStaged(p) ==
  /\ pc[p] = "stage"
  /\ \/ fp' = [fp EXCEPT ![p] = staged[tgt[p]]] /\ Advance(p, "record")
     \/ "cancel" \in Faults /\ Raise(p, "cancelled") /\ UNCHANGED fp
     \/ "io" \in Faults /\ Raise(p, "failed") /\ UNCHANGED fp
  /\ UNCHANGED <<vaultVars, stagingVars, dest, residueVars, lock, tgt, flags, ghosts>>

\* record_publication "STAGED".
RecordStaged(p) ==
  LET row == [pub EXCEPT ![tgt[p]] = @ \cup {"STAGED"}] IN
  /\ pc[p] = "record"
  /\ \/ pub' = row /\ Advance(p, "persist") /\ UNCHANGED flags
     \/ \E durable \in BOOLEAN :
          /\ TxnFails(p, durable)
          /\ pub' = IF durable THEN row ELSE pub
          /\ Raise(p, "failed")
  /\ UNCHANGED <<lease, op, opFp, stagingVars, dest, residueVars, lock, tgt, fp, ghosts>>

\* persist_payload (fsync_tree) and record_staged_fingerprint.
PersistPayload(p) ==
  /\ pc[p] = "persist"
  /\ \/ Advance(p, "ready")
     \/ "cancel" \in Faults /\ Raise(p, "cancelled")
     \/ "io" \in Faults /\ Raise(p, "failed")
  /\ UNCHANGED <<vaultVars, stagingVars, dest, residueVars, lock, tgt, flags, fp, ghosts>>

\* The last cancellation poll, then the existence check of DatasetStaging.promote.
PromoteCheck(p) ==
  /\ pc[p] = "promote"
  /\ \/ "cancel" \in Faults /\ Raise(p, "cancelled")
     \/ dest[tgt[p]] # None /\ Raise(p, "conflict")
     \/ dest[tgt[p]] = None /\ Advance(p, "rename")
  /\ UNCHANGED <<vaultVars, stagingVars, dest, residueVars, lock, tgt, flags, fp, ghosts>>

\* os.replace of the dataset directory is atomic.  Over a target that appeared
\* since the check the system refuses it, but for an empty directory, which it
\* may replace (POSIX) or refuse (Windows).
Rename(p) ==
  LET d == tgt[p] IN
  /\ pc[p] = "rename"
  /\ \/ /\ dest[d] \in {None, Empty}
        /\ dest' = [dest EXCEPT ![d] = staged[d]]
        /\ staged' = [staged EXCEPT ![d] = None]
        /\ exposed' = [exposed EXCEPT ![d] = staged[d]]
        /\ touched' = touched \ {d}
        /\ Advance(p, "sync")
     \/ /\ dest[d] # None \/ "io" \in Faults
        /\ Raise(p, "failed")
        /\ UNCHANGED <<dest, staged, ghosts>>
  /\ UNCHANGED <<vaultVars, entries, txn, txnFp, residueVars, lock, tgt, flags, fp>>

\* Mutant: a failed directory sync propagates without recording the rename.
SyncForgetsRename(p) ==
  /\ pc[p] = "sync"
  /\ \/ flags' = WithFlag(p, "renamed") /\ Advance(p, "mark")
     \/ "io" \in Faults /\ UNCHANGED flags /\ Raise(p, "failed")
  /\ UNCHANGED <<vaultVars, stagingVars, dest, residueVars, lock, tgt, fp, ghosts>>

\* sync_directory of the destination's parent.  Its failure is a
\* PostRenameDurabilityError, which records the rename before it propagates;
\* an interrupt propagates without recording it.
SyncRename(p) ==
  /\ pc[p] = "sync"
  /\ \/ flags' = WithFlag(p, "renamed") /\ Advance(p, "mark")
     \/ "io" \in Faults /\ flags' = WithFlag(p, "renamed") /\ Raise(p, "failed")
     \/ "interrupt" \in Faults /\ UNCHANGED flags /\ Raise(p, "failed")
  /\ UNCHANGED <<vaultVars, stagingVars, dest, residueVars, lock, tgt, fp, ghosts>>

\* One transaction: the PUBLISHED row and complete_operation with the receipt.
CompleteOperation(p) ==
  LET d == tgt[p]
      Receipt ==
        /\ op[d] = "STARTED"
        /\ op' = [op EXCEPT ![d] = "COMPLETED"]
        /\ opFp' = [opFp EXCEPT ![d] = fp[p]]
        /\ pub' = [pub EXCEPT ![d] = @ \cup {"PUBLISHED"}]
      NoReceipt == UNCHANGED <<op, opFp, pub>>
  IN
  /\ pc[p] = "complete"
  /\ \/ Receipt /\ Advance(p, "rmTables") /\ UNCHANGED flags
     \/ op[d] # "STARTED" /\ NoReceipt /\ Raise(p, "failed") /\ UNCHANGED flags
     \/ TxnFails(p, TRUE) /\ Receipt /\ Raise(p, "failed")
     \/ TxnFails(p, FALSE) /\ NoReceipt /\ Raise(p, "failed")
  /\ UNCHANGED <<lease, stagingVars, dest, residueVars, lock, tgt, fp, ghosts>>

\* remove_metadata_after_promotion, one system call at a time.
RemoveTables(p) ==
  /\ pc[p] = "rmTables"
  /\ \/ entries' = [entries EXCEPT ![tgt[p]] = @ \ {"tables"}] /\ Advance(p, "rmTxn")
     \/ "io" \in Faults /\ Raise(p, "failed") /\ UNCHANGED entries
  /\ UNCHANGED <<vaultVars, txn, txnFp, staged, dest, residueVars, lock, tgt, flags, fp, ghosts>>

RemoveRecord(p) ==
  LET d == tgt[p] IN
  /\ pc[p] = "rmTxn"
  /\ \/ /\ txn' = [txn EXCEPT ![d] = "none"]
        /\ txnFp' = [txnFp EXCEPT ![d] = None]
        /\ Advance(p, "rmRoot")
     \/ "io" \in Faults /\ Raise(p, "failed") /\ UNCHANGED <<txn, txnFp>>
  /\ UNCHANGED <<vaultVars, entries, staged, dest, residueVars, lock, tgt, flags, fp, ghosts>>

RemoveRoot(p) ==
  /\ pc[p] = "rmRoot"
  /\ \/ /\ entries[tgt[p]] = {"root"} /\ staged[tgt[p]] = None
        /\ entries' = [entries EXCEPT ![tgt[p]] = {}]
        /\ Advance(p, "release")
     \/ /\ "io" \in Faults \/ entries[tgt[p]] # {"root"} \/ staged[tgt[p]] # None
        /\ Raise(p, "failed")
        /\ UNCHANGED entries
  /\ UNCHANGED <<vaultVars, txn, txnFp, staged, dest, residueVars, lock, tgt, flags, fp, ghosts>>

(***************************************************************************)
(* The except clause: pre-promotion cleanup only.                          *)
(***************************************************************************)
\* Mutant: the rename is not consulted.
CleanupAlways(p) == "started" \in flags[p]

CleanupAllowed(p) == "started" \in flags[p] /\ "renamed" \notin flags[p]

\* cleanup_owned removes a staging root this invocation created.
CleanupStaging(p) ==
  LET d == tgt[p] IN
  /\ pc[p] = "handler"
  /\ \/ ~CleanupAllowed(p) /\ Advance(p, "release") /\ UNCHANGED stagingVars
     \/ /\ CleanupAllowed(p) /\ "created" \notin flags[p]
        /\ Advance(p, "dropEvidence") /\ UNCHANGED stagingVars
     \/ /\ CleanupAllowed(p) /\ "created" \in flags[p]
        /\ Advance(p, "dropEvidence") /\ RemoveStaging(d)
     \/ /\ CleanupAllowed(p) /\ "created" \in flags[p] /\ "io" \in Faults
        /\ RaiseTo(p, "release", "cleanup") /\ RemoveStagingPartly(d)
  /\ UNCHANGED <<vaultVars, dest, residueVars, lock, tgt, flags, fp, ghosts>>

CleanupEvidence(p) ==
  /\ pc[p] = "dropEvidence"
  /\ \/ "evidence" \notin flags[p] /\ Advance(p, "abandon") /\ UNCHANGED evidence
     \/ /\ "evidence" \in flags[p]
        /\ evidence' = IF evidence = p THEN None ELSE evidence
        /\ Advance(p, "abandon")
     \/ /\ "evidence" \in flags[p] /\ "io" \in Faults
        /\ evidence' = Orphan(evidence, p)
        /\ RaiseTo(p, "release", "cleanup")
  /\ UNCHANGED <<vaultVars, stagingVars, dest, spool, lock, tgt, flags, fp, ghosts>>

\* Mutant: the publication rows stay.
AbandonKeepsPublication(p) ==
  /\ pc[p] = "abandon"
  /\ "poisoned" \notin flags[p]
  /\ op' = [op EXCEPT ![tgt[p]] = "none"] /\ Advance(p, "release")
  /\ UNCHANGED <<lease, opFp, pub, stagingVars, dest, residueVars, lock, tgt, flags, fp, ghosts>>

\* abandon_operation: the publication rows and the STARTED row go together.
AbandonOperation(p) ==
  LET d == tgt[p]
      Forget ==
        /\ "poisoned" \notin flags[p]
        /\ op[d] = "STARTED"
        /\ op' = [op EXCEPT ![d] = "none"]
        /\ pub' = [pub EXCEPT ![d] = {}]
      Keep == UNCHANGED <<op, pub>>
  IN
  /\ pc[p] = "abandon"
  /\ \/ Forget /\ Advance(p, "release") /\ UNCHANGED flags
     \/ /\ "poisoned" \in flags[p] \/ op[d] # "STARTED"
        /\ Keep /\ RaiseTo(p, "release", "cleanup") /\ UNCHANGED flags
     \/ TxnFails(p, TRUE) /\ Forget /\ RaiseTo(p, "release", "cleanup")
     \/ TxnFails(p, FALSE) /\ Keep /\ RaiseTo(p, "release", "cleanup")
  /\ UNCHANGED <<lease, opFp, stagingVars, dest, residueVars, lock, tgt, fp, ghosts>>

(***************************************************************************)
(* Leaving: lease, lock, then the finally clause.                          *)
(***************************************************************************)
\* Mutant: __exit__ does not release.
LeaseIsNotReleased(p) ==
  /\ pc[p] = "release"
  /\ Advance(p, "unlock")
  /\ UNCHANGED <<vaultVars, stagingVars, dest, residueVars, lock, tgt, flags, fp, ghosts>>

\* _WriterLease.__exit__.  A release that fails leaves the token in the vault
\* for good: no later process owns it.
ReleaseLease(p) ==
  /\ pc[p] = "release"
  /\ \/ /\ "poisoned" \notin flags[p] /\ lease = p
        /\ lease' = None
        /\ Advance(p, "unlock") /\ UNCHANGED flags
     \/ /\ "poisoned" \in flags[p] \/ lease # p
        /\ lease' = Orphan(lease, p)
        /\ Refuse(p, "failed") /\ UNCHANGED flags
     \/ \E durable \in BOOLEAN :
          /\ TxnFails(p, durable)
          /\ durable => "poisoned" \notin flags[p] /\ lease = p
          /\ lease' = IF durable THEN None ELSE Orphan(lease, p)
          /\ Refuse(p, "failed")
  /\ UNCHANGED <<op, opFp, pub, stagingVars, dest, residueVars, lock, tgt, fp, ghosts>>

\* Mutant: a failed unlock leaks the stream.
UnlockLeaks(p) ==
  /\ pc[p] = "unlock"
  /\ \/ lock' = [lock EXCEPT ![tgt[p]] = None] /\ Advance(p, "cleanup")
     \/ "io" \in Faults /\ UNCHANGED lock /\ RaiseTo(p, "cleanup", "failed")
  /\ UNCHANGED <<vaultVars, stagingVars, dest, residueVars, tgt, flags, fp, ghosts>>

\* DestinationLock.close: closing the stream frees the lock even when the
\* explicit unlock fails.
Unlock(p) ==
  /\ pc[p] = "unlock"
  /\ lock' = [lock EXCEPT ![tgt[p]] = None]
  /\ \/ Advance(p, "cleanup")
     \/ "io" \in Faults /\ RaiseTo(p, "cleanup", "failed")
  /\ UNCHANGED <<vaultVars, stagingVars, dest, residueVars, tgt, flags, fp, ghosts>>

\* Mutant: the spool artifacts are unlinked by a run that made none, too.
CleanupRemovesAny(p) ==
  /\ pc[p] = "cleanup"
  /\ spool' = None
  /\ Advance(p, "verify")
  /\ UNCHANGED <<vaultVars, stagingVars, dest, evidence, lock, tgt, flags, fp, ghosts>>

\* PassOneSpool.cleanup: unlink every spool artifact of the vault directory...
CleanupSpool(p) ==
  /\ pc[p] = "cleanup"
  /\ \/ "spool" \notin flags[p] /\ Advance(p, "close") /\ UNCHANGED spool
     \/ "spool" \in flags[p] /\ spool' = None /\ Advance(p, "verify")
     \/ /\ "spool" \in flags[p] /\ "io" \in Faults
        /\ spool' \in {None, Orphan(spool, p)}
        /\ RaiseTo(p, "verify", "failed")
  /\ UNCHANGED <<vaultVars, stagingVars, dest, evidence, lock, tgt, flags, fp, ghosts>>

\* ... and verify that none remains.
VerifySpool(p) ==
  /\ pc[p] = "verify"
  /\ IF spool = None THEN Advance(p, "close") ELSE RaiseTo(p, "close", "failed")
  /\ UNCHANGED <<vaultVars, stagingVars, dest, residueVars, lock, tgt, flags, fp, ghosts>>

\* The local variables of an invocation end with it.
ForgetLocals(p) ==
  /\ flags' = [flags EXCEPT ![p] = {}]
  /\ fp' = [fp EXCEPT ![p] = None]
  /\ err' = [err EXCEPT ![p] = "none"]

Verdict(p) ==
  CASE err[p] # "none" -> err[p]
    [] err[p] = "none" /\ "started" \in flags[p] -> "published"
    [] OTHER -> "reused"

\* VaultDatabase.close, then the result or the exception reaches the caller.
CloseVault(p) ==
  /\ pc[p] = "close"
  /\ Goto(p, "idle")
  /\ \/ outcome' = [outcome EXCEPT ![p] = Verdict(p)]
     \/ "vault" \in Faults /\ outcome' = [outcome EXCEPT ![p] = "failed"]
  /\ ForgetLocals(p)
  /\ evidence' = Orphan(evidence, p)
  /\ UNCHANGED <<vaultVars, stagingVars, dest, spool, lock, tgt, ghosts>>

(***************************************************************************)
(* The environment.                                                        *)
(***************************************************************************)
\* Points at which a recursive removal of the staging root is under way.
Removing(p) ==
  \/ pc[p] = "reconcile" /\ ResidualIsCoherent(tgt[p])
  \/ pc[p] = "handler" /\ CleanupAllowed(p) /\ "created" \in flags[p]

\* The process dies: the kernel frees its lock, everything durable stays.
Crash(p) ==
  /\ "crash" \in Faults
  /\ pc[p] # "idle"
  /\ Goto(p, "idle")
  /\ lock' = [d \in Dests |-> IF lock[d] = p THEN None ELSE lock[d]]
  /\ lease' = Orphan(lease, p)
  /\ spool' = Orphan(spool, p)
  /\ evidence' = Orphan(evidence, p)
  /\ ForgetLocals(p)
  /\ outcome' = [outcome EXCEPT ![p] = "crashed"]
  /\ \/ UNCHANGED stagingVars
     \/ Removing(p) /\ RemoveStagingPartly(tgt[p])
  /\ UNCHANGED <<op, opFp, pub, dest, tgt, ghosts>>

\* A user creates, changes or deletes the destination.
UserChange(d) ==
  /\ "user" \in Faults
  /\ \E x \in {None, Empty, Foreign} \ {dest[d]} : dest' = [dest EXCEPT ![d] = x]
  /\ touched' = touched \cup {d}
  /\ UNCHANGED <<vaultVars, stagingVars, residueVars, lock, pc, tgt, flags, fp, endVars, exposed>>

\* One step of run_two_pass in process p.
Step(p) ==
  \/ OpenVault(p) \/ Lock(p)
  \/ ClassifyNew(p) \/ ClassifyStarted(p) \/ ClassifyCompleted(p)
  \/ Reconcile(p) \/ Reuse(p) \/ Fresh(p) \/ AcquireLease(p)
  \/ BeginOperation(p) \/ CreateRoot(p) \/ CreateDirectories(p)
  \/ WriteTemporary(p) \/ ReplaceRecord(p) \/ CreateSpool(p)
  \/ PassOne(p) \/ CreateEvidence(p) \/ PassTwo(p) \/ RebuildIndexes(p)
  \/ FingerprintStaged(p) \/ RecordStaged(p) \/ PersistPayload(p)
  \/ PromoteCheck(p) \/ Rename(p) \/ SyncRename(p) \/ CompleteOperation(p)
  \/ RemoveTables(p) \/ RemoveRecord(p) \/ RemoveRoot(p)
  \/ CleanupStaging(p) \/ CleanupEvidence(p) \/ AbandonOperation(p)
  \/ ReleaseLease(p) \/ Unlock(p)
  \/ CleanupSpool(p) \/ VerifySpool(p) \/ CloseVault(p)

Next ==
  \/ \E p \in Procs : Step(p) \/ Crash(p)
  \/ \E p \in Procs, d \in Dests : Start(p, d)
  \/ \E d \in Dests : UserChange(d)

Spec == Init /\ [][Next]_vars

\* A running process keeps taking steps; nothing obliges it to crash, or a
\* user to call again.
FairSpec == Spec /\ \A p \in Procs : WF_vars(Step(p))

\* Callers that keep asking for every destination.
RetrySpec == FairSpec /\ \A p \in Procs, d \in Dests : SF_vars(Start(p, d))

(***************************************************************************)
(* Properties.                                                             *)
(***************************************************************************)
\* The type of every variable.
TypeOK ==
  /\ lease \in Procs \cup {None, Dead}
  /\ op \in [Dests -> {"none", "STARTED", "COMPLETED"}]
  /\ opFp \in [Dests -> Payloads \cup {Partial, None}]
  /\ pub \in [Dests -> SUBSET {"STAGED", "PUBLISHED"}]
  /\ entries \in [Dests -> SUBSET {"root", "tables", "tmp"}]
  /\ txn \in [Dests -> Phases]
  /\ txnFp \in [Dests -> Payloads \cup {Partial, None}]
  /\ staged \in [Dests -> Payloads \cup {Partial, None}]
  /\ dest \in [Dests -> Payloads \cup {Partial, Foreign, Empty, None}]
  /\ spool \in Procs \cup {None, Dead}
  /\ evidence \in Procs \cup {None, Dead}
  /\ lock \in [Dests -> Procs \cup {None}]
  /\ pc \in [Procs -> Points]
  /\ tgt \in [Procs -> Dests]
  /\ flags \in [Procs -> SUBSET Flags]
  /\ fp \in [Procs -> Payloads \cup {Partial, None}]
  /\ err \in [Procs -> Errors]
  /\ outcome \in [Procs -> Outcomes]
  /\ exposed \in [Dests -> Payloads \cup {Partial, None}]
  /\ touched \in SUBSET Dests

\* Either the receipt describes the dataset at d, or the STARTED row together
\* with the crash state and its fingerprint does.
Owned(d) ==
  \/ op[d] = "COMPLETED" /\ opFp[d] = exposed[d]
  \/ /\ op[d] = "STARTED" /\ "root" \in entries[d]
     /\ txn[d] \in {"READY_TO_PROMOTE", "PROMOTED"} /\ txnFp[d] = exposed[d]

\* A dataset the program moved to its destination always stays owned, so that
\* a retry finds it completed or stale, never unowned (run.py 1539-1547).
ExposedIsOwned == \A d \in Dests : exposed[d] # None => Owned(d)

\* The receipt of d describes the dataset that was moved, whole, and the one at
\* the destination unless a user changed it since.
TrueReceipt(d) ==
  /\ opFp[d] = exposed[d] /\ exposed[d] \in Payloads
  /\ pub[d] = {"STAGED", "PUBLISHED"}
  /\ d \notin touched => dest[d] = opFp[d]

\* Every completion receipt is true (run.py 1519-1530).
ReceiptIsTrue == \A d \in Dests : op[d] = "COMPLETED" => TrueReceipt(d)

\* Between the destination lock and its release, and between lease and release,
\* the process is the owner the vault and the kernel know; so two invocations
\* never build, clean up or reconcile the same staging root (run.py 1351, 1368).
SingleWriter ==
  \A p \in Procs :
    /\ HoldsLock(p) => lock[tgt[p]] = p
    /\ HoldsLease(p) => lease = p

\* The sensitive per-run files belong to the process that uses them: nobody
\* else's spool is read, or unlinked by the finally clause that runs after the
\* lease and the lock are gone (state.py 226-235, 743-785).
ResidueIsPrivate ==
  \A p \in Procs :
    /\ "spool" \in flags[p] /\ pc[p] \in LockPoints \cup {"cleanup"} => spool = p
    /\ pc[p] = "pass2" => evidence = p

\* A staging root exists only under an operation row, so the row is what a
\* retry always finds after a crash: cleanup removes the staging tree before
\* it abandons the row (run.py 1549-1553).
StagingIsOwned == \A d \in Dests : "root" \in entries[d] => op[d] # "none"

\* An invocation that is cancelled, or that fails before the rename, and whose
\* cleanup does not fail, leaves nothing behind when it gives up the lease: no
\* row, no staging root, no evidence and no dataset (run.py 1548-1563).
FailureIsClean ==
  \A p \in Procs :
    (/\ pc[p] = "release"
     /\ \/ err[p] = "cancelled"
        \/ CleanupAllowed(p) /\ err[p] \notin {"none", "cleanup"})
    => /\ op[tgt[p]] = "none" /\ pub[tgt[p]] = {}
       /\ entries[tgt[p]] = {} /\ evidence # p
       /\ exposed[tgt[p]] = None

\* A caller that gets a result gets one whose receipt is durable.
SuccessIsDurable ==
  \A p \in Procs : outcome[p] \in {"published", "reused"} => op[tgt[p]] = "COMPLETED"

\* Every answer is true: a failure before the rename left nothing, a success is
\* durable (run.py 1531-1576).
AnswerIsTrue == FailureIsClean /\ SuccessIsDurable

\* What run.py 1514-1518 says and the code does not keep: once a dataset has been
\* published a retry finds it, as what an interrupted metadata cleanup leaves
\* behind can be reconciled.  A crash between RemoveRecord and RemoveRoot
\* violates it.
CompletedIsRetryable ==
  \A d \in Dests :
    op[d] = "COMPLETED" /\ "root" \in entries[d] /\ lock[d] = None => ResidualIsCoherent(d)

(***************************************************************************)
(* The inductive invariant behind the properties above.  It holds only     *)
(* while interrupts are left out: one between the rename and the flag that *)
(* records it has the handler disown a published dataset.                  *)
(***************************************************************************)
\* Control points from which the staged dataset is complete, fingerprinted,
\* recorded as STAGED, and described by the crash state.
Complete == {"rebuild", "stage", "record", "persist", "ready", "promote", "rename"}
Fingerprinted == Complete \ {"rebuild", "stage"}
Recorded == {"persist", "ready", "promote", "rename", "sync", "mark", "complete"}
Described == {"promote", "rename", "sync", "mark", "complete"}

\* What an invocation that holds the destination lock can rely on.
KnowsItsState(p) ==
  LET d == tgt[p] IN
  /\ pc[p] \in {"idle", "open", "lock", "begin"} \cup Classifying =>
       flags[p] \cap {"started", "created", "renamed"} = {}
  /\ pc[p] \in {"fresh", "lease", "begin"} => op[d] = "none"
  /\ pc[p] \in {"reconcile", "reuse", "rmTables", "rmTxn", "rmRoot"} => op[d] = "COMPLETED"
  /\ pc[p] \in Building \ {"begin"} =>
       /\ op[d] = "STARTED" /\ exposed[d] = None
       /\ "started" \in flags[p] /\ "renamed" \notin flags[p]
  /\ pc[p] = "create" => "created" \notin flags[p] /\ "root" \notin entries[d]
  /\ pc[p] \in Building \ {"begin", "create"} => "created" \in flags[p] /\ "root" \in entries[d]
  /\ pc[p] \in Complete => staged[d] \in Payloads
  /\ pc[p] \in Fingerprinted => fp[p] = staged[d]
  /\ pc[p] \in Recorded => "STAGED" \in pub[d]
  /\ pc[p] \in Described => txnFp[d] = fp[p]
  /\ pc[p] \in Described \ {"complete"} => txn[d] = "READY_TO_PROMOTE"
  /\ pc[p] = "complete" => txn[d] = "PROMOTED"
  /\ pc[p] \in {"sync", "mark", "complete"} =>
       /\ op[d] = "STARTED" /\ "root" \in entries[d]
       /\ exposed[d] = fp[p] /\ exposed[d] \in Payloads
  /\ pc[p] \in Exposing \ {"sync"} => "renamed" \in flags[p]
  /\ pc[p] = "handler" /\ CleanupAllowed(p) =>
       /\ op[d] = "STARTED" /\ exposed[d] = None
       /\ "created" \notin flags[p] => "root" \notin entries[d]
  /\ pc[p] \in {"dropEvidence", "abandon"} =>
       op[d] = "STARTED" /\ exposed[d] = None /\ "root" \notin entries[d]

\* What always holds of a destination, whoever runs.
DestinationIsConsistent(d) ==
  /\ op[d] = "none" => exposed[d] = None /\ pub[d] = {}
  /\ op[d] # "COMPLETED" => opFp[d] = None
  /\ exposed[d] # None /\ d \notin touched => dest[d] = exposed[d]

\* Ownership, receipts, writers and staging roots, together with what makes
\* them inductive (run.py 1213-1576).
Inv ==
  /\ TypeOK /\ SingleWriter /\ ExposedIsOwned /\ ReceiptIsTrue /\ StagingIsOwned
  /\ \A p \in Procs : KnowsItsState(p)
  /\ \A d \in Dests : DestinationIsConsistent(d)

\* What an invocation knows of the exception in flight, and of its evidence root:
\* what AnswerIsTrue needs beyond Inv.
AnswerIsKnown(p) ==
  /\ evidence = p => "evidence" \in flags[p]
  /\ pc[p] = "abandon" => evidence # p
  /\ pc[p] \in {"idle", "open", "lock"} \cup Classifying \cup Building \cup Exposing => err[p] = "none"
  /\ pc[p] \in Handling => err[p] # "none"
  /\ pc[p] = "handler" /\ err[p] = "cancelled" => CleanupAllowed(p)
  /\ pc[p] \in {"release", "unlock"} \cup Leaving /\ err[p] = "none" => op[tgt[p]] = "COMPLETED"

\* Nothing but the root itself holds the files of a staging tree.
StagingIsRooted == \A d \in Dests : "root" \in entries[d] \/ entries[d] = {}

\* The inductive invariants, relative to Inv, behind AnswerIsTrue and ResidueIsPrivate.
AnswerInv == AnswerIsTrue /\ StagingIsRooted /\ \A p \in Procs : AnswerIsKnown(p)
PrivateInv ==
  /\ ResidueIsPrivate
  /\ \A p \in Procs : pc[p] \in {"idle", "open", "lock"} => "spool" \notin flags[p]

\* The contract's view: the operation row, refined by whether the dataset has
\* been moved.
StatusOf(d) ==
  CASE op[d] = "none" -> "free"
    [] op[d] = "STARTED" /\ exposed[d] = None -> "started"
    [] op[d] = "STARTED" /\ exposed[d] # None -> "exposed"
    [] OTHER -> "completed"

Contract == INSTANCE PublicationContract WITH
  status <- [d \in Dests |-> StatusOf(d)],
  output <- exposed,
  receipt <- opFp,
  place <- dest

\* run_two_pass, its crash states, failures and cleanups, implements the
\* publication contract.
KeepsContract == Contract!CSpec

\* Every invocation ends, whatever fails, and then holds no lock, no writer
\* lease and no file of its own: a process is always found there again.
EveryRunEnds ==
  \A p \in Procs :
    []<>(pc[p] = "idle" /\ p \notin {lease, spool, evidence} \cup {lock[d] : d \in Dests})

\* Callers that keep asking for a destination get it published, or are told of a
\* failure again and again, or die again and again: nobody is put off for ever by
\* the lock or the lease of another run, unless that run died with the lease or
\* failed to release it.  Its token is then in the vault for good, as
\* acquire_writer_lease takes over no lease and nothing else clears one
\* (run.py 1351-1576, store.py 954-997).
PublishedOrTold ==
  \A d \in Dests :
    \/ []<>(\/ op[d] = "COMPLETED"
            \/ \E p \in Procs :
                 tgt[p] = d /\ outcome[p] \in (Errors \ {"none", "busy"}) \cup {"crashed"})
    \/ <>[](lease = Dead)

=============================================================================
