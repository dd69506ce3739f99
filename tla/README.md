# A formal model of DBF Anonymizer

DBF Anonymizer replaces the sensitive values of a set of DBF tables by
pseudonyms, consistently over all tables and over repeated runs, and publishes
the result as one transaction.  This directory models the parts of
`src/dbf_anonymizer/` whose correctness is hard to test: what happens when
processes crash, calls fail, users cancel, workers race, sources change between
two readings, and runs are repeated over the state that earlier runs left
behind; and whether what is published, verified, recovered and carried away is
the data it should be.  TLC checks small instances of every module; TLAPS proves
the central safety results for every number of processes, destinations, tables,
workers, files and values.

Paths below are relative to `src/dbf_anonymizer/` of the repository.
`PROJECT.json` maps every definition to the lines it models.

## 1. The system

### Components, their state and their operations

| Component | State it keeps | Operations |
|---|---|---|
| Public API, `api.py` | none that lasts | `build_plan`, `preflight`, `pseudonymize` |
| Planning, `discovery.py`, `policy.py`, `planning.py` | a `Plan`: facts and fingerprints of the source, treatment of every field | walk, pair companions, read schemas, evaluate the policy |
| Preflight, `preflight.py` | a list of errors | paths, destination, vault, capacity scans, disk, backend, relationships |
| Engine, `engine/run.py` | what one invocation remembers: lock, lease, created root, renamed or not | `run_two_pass`: classify an earlier operation, reserve, pass 1, pass 2, stage, promote, complete, clean up |
| Staging and publication, `engine/publication.py`, `durability.py` | a private staging root with `tables/`, `dataset/` and `transaction.json`; the destination directory | create, record a phase, fsync, rename, reconcile a residual, remove |
| Destination lock, `engine/locking.py` | a kernel lock per destination | non-blocking acquire, release |
| Vault store, `vault/store.py`, `vault/transactions.py`, `dictionary_identity.py` | one SQLite dictionary in WAL mode: identity, writer lease, operation and publication rows, mappings, field-policy ledger | create, open, open a live reader, transaction, checkpoint and close |
| Pass 1, `engine/pass1.py`, `engine/text_residual.py` | the protected spool (`engine/state.py`), the mapping rows of the vault | scan and observe; give every new text, numeric key and temporal domain its row, one commit at a time |
| Pass 2, `engine/pass2.py` | futures, a stop flag, an evidence shard and a vault reader per table | transform and write tables with a pool of workers, merge the evidence, assemble the dataset |
| Kernels, `transforms/`; mapping rows, `vault/mappings.py`, `vault/*_allocation.py` | none; rows | ranges, token spaces, gap walk, feasibility of a bijection, shifts, masks |
| Relations, `relationships/` | a parsed document, key evidence before and after | parse, bind, judge compatibility, count, compare, derive the assurance level |
| Verification, `verification.py` | none | independent comparison of source, output, vault and result |
| Recovery, `recovery.py` | a staging root and a destination | check the authority, reverse every value, verify, promote |
| Transfer bundle, `transfer_bundle.py` | a staged bundle with its manifest | allowlist, copy, describe, self-verify, promote; verify a bundle anywhere |
| Index backend, `index_backend.py` | another program's | rebuild, verify and associate index files |
| Progress, `progress.py` | phase, counters, cancelled or not | report, poll for cancellation |

### How they interact

`api.pseudonymize` revalidates the plan, repeats the preflight and calls
`run_two_pass`.  The engine opens the vault, takes the kernel lock of the
destination, looks up the operation row of the destination, and takes the writer
lease, which is one row of the vault for all destinations.  Pass 1 fills the spool
and the mapping rows through the engine's one read/write connection; pass 2 gives
every worker a live read-only connection of its own and collects evidence in shards
that the coordinator merges into the spool.  The staged dataset is renamed to its
destination and only then the operation row is completed.  The `except` and
`finally` clauses of the engine remove what must not stay.  Callbacks (progress,
cancellation, index backend) run inside these steps and may raise.

What was published is input to three more programs: `verify_dataset` reads source,
output and vault; `recover` reads output and vault; `create_transfer_bundle` reads
the output and the result.  The last two publish a tree of their own with the same
staging class, but with lock and staging names of their own.

### What is hard

- *Crashes and failures between steps* of publication: the vault row, the
  staging root, `transaction.json` and the destination are four durable states
  that no single transaction covers.
- *Commits with unknown outcome*: a `COMMIT` that raises may be durable.
- *Concurrent invocations*: two destinations meet only at the writer lease; two
  creators and any number of readers meet at one dictionary path; a recovery and a
  bundle meet only at the rename; the spool is removed after the lease and the
  lock are given back.
- *A pool of workers* that is stopped by failures, cancellation and interrupts.
- *Partial mappings*: pass 1 commits row by row, and every later run has to
  complete what an interrupted one left, with fewer tokens to choose from.
- *Capacity at its limit* in the token domains.
- *Repeated reading*: source, output and bundle are read several times without a
  lock against other programs.
- *Several implementations of one idea*: transformation, verification and recovery
  each know what happens to a value; the engine and the service each count
  relations; preflight and pass 1 each decide capacity.

The list `hazards` of `PROJECT.json` has each of these at its line.

### What makes each component correct

- Publication: what reaches the destination is complete, stays owned by a row or
  a receipt, and is never overwritten or disowned; a receipt is true; a failure
  before the rename leaves nothing; every invocation ends and releases all.
- Pass 2: a result is whole or there is none; the cause reported is the real
  one; nothing outlives the pass.
- Allocation: the rows are an injective map without fixed points whose tokens
  every field of the original can hold; rows are never changed; a run that ends
  well has mapped everything; a run that gives up has to.
- Vault store: a returned handle is on the database that was asked for, that
  database is the one at the path, what was committed is found again, and
  incomplete files are removed or reported.
- Verification and recovery: an untouched dataset is accepted; what is accepted
  hides, keeps and joins as it should and can be recovered; what is recovered is
  the source.
- Recovery and bundle as publications: a destination receives one whole delivery
  or nothing, original data is never left behind silently, an altered bundle is
  refused.
- Relations: evidence counts every occurrence once, both implementations agree,
  and an authoritative assurance is earned.
- Plan, preflight, API: what is published is the source as it was planned, ready
  means that the engine runs, and a call does not misreport its end.

## 2. Modules

| Module | Models | Used by |
|---|---|---|
| `Publication` | `run_two_pass` with staging, locks, lease, rows, spool and evidence | `MCPublication` |
| `PublicationContract` | the abstract promise for one destination | instantiated by `Publication` |
| `PublicationProofs` | proofs | |
| `PassTwo` | `run_pass_two` and its workers | `MCPassTwo` |
| `PassTwoProofs` | proofs about `PassTwo` and about `Assurance` | |
| `NumericKernel` | what `transforms/numeric_keys.py` decides about any members: common tokens, verdict on an original, Hall's condition | `NumericKeys`, `Preflight` |
| `NumericKeys` | the token domain of a relation, the gap walk, the selection of the numeric service | `NumericAllocation` |
| `NumericAllocation`, `NumericAllocationProofs` | the numeric half of pass 1 over several runs; proofs | `MCNumericAllocation` |
| `TextAllocation`, `TextAllocationProofs` | the text half of pass 1 with the residual matching; proofs | `MCTextAllocation` |
| `VaultLifecycle`, `VaultLifecycleProofs` | creation, opening and closing of the dictionary; proofs | `MCVaultLifecycle` |
| `FieldTransforms` | what happens to one value, and its protected rows | `Verification` |
| `Verification` | every finding of `verification.py` | `RecoveryAuthority` |
| `RecoveryAuthority` | what `recover` demands, and the reversal of a value | `RoundTrip` |
| `RoundTrip`, `RoundTripProofs` | pass 1, pass 2, publication, verification, recovery, seen from the data; proofs | `MCRoundTrip` |
| `TransferBundle` | allowlist, manifest and standalone verification of a bundle | `Delivery` |
| `Delivery` | the staged publication of `recover` and `create_transfer_bundle` | `MCDelivery` |
| `DeliveryContract` | what both promise about a destination | instantiated by `Delivery` |
| `DeliveryProofs` | proofs | |
| `Relationships` | parsing, binding, compatibility, comparison, assurance as operators | `Assurance` |
| `Assurance` | one pseudonymization seen from its relationships | `MCAssurance` |
| `Planning` | walks, policy, facts and fingerprints of a plan | `Preflight`, `IndexRebuild` |
| `Preflight` | every check that adds an error, the capacity scans | `Session` |
| `IndexRebuild` | what the engine believes of a backend's answers | `Session` |
| `Session`, `SessionProofs` | calls of the public API over a changing world; proofs | `MCSession` |

Each module opens a step that another one closes.  `Publication` treats each pass as
one step that may succeed, fail or be cancelled; `PassTwo`, `NumericAllocation` and
`TextAllocation` open that step.  They rely on one thing from it, that one process
writes (`SingleWriter`), and give it one thing back, that a pass ends with a whole
result or with an error.  `OpenVault` of `Publication` is what `VaultLifecycle`
opens up; publication and recovery are single steps of `RoundTrip` and open in
`Publication` and `Delivery`; a pass is one step of `Session`.

### Publication

A process has a control point `pc`, a target and a set of `flags` (`started`,
`created`, `renamed`, `spool`, ...), the local variables of `run_two_pass` that
its handlers read.  Durable state is kept per destination: the operation row
(`op`, `opFp`), the publication rows (`pub`), the staging root (`entries`,
`txn`, `txnFp`, `staged`) and the destination (`dest`); the lease, the spool and
the evidence root exist once per vault.  Datasets are model values; an
incomplete tree is `Partial`, what somebody else put at the destination is
`Foreign` or, when it is an empty directory, `Empty`: `os.replace` may go over that one
(POSIX) or refuse (Windows), so a directory that appears between the check and the
rename is replaced.  There is one action per step of the code that changes durable state
(`transaction.json` is written in two: the temporary file and `os.replace`), and
each carries its failures: raising before it acts, raising after it acted (a
commit of unknown outcome, the directory sync after the rename), and the
removal of a directory tree that stops halfway.  `Crash` loses everything
volatile at any control point; a lease whose owner crashed, or whose release failed,
is `Dead` and stays in the vault.  A vault is never lost in this module, so the early
refusal of remains beside a missing one (`engine/run.py:1332`) is in `Session.OpenVault`.  `exposed` and `touched` are history variables
that no action reads.

`PublicationContract` has four states for a destination, free, started, exposed
and completed, and says: exposed only over nothing and only with a complete
dataset, completed only when exposed, abandoned only when not exposed.
`KeepsContract` is the refinement, with the operation row and `exposed` mapped
to the four states.

### PassTwo

`main` is the coordinator, `job[i]` the worker of table i; both step through the
control points at which the code can be overtaken.  A future is `queued`, running,
`ok`, `failed` or `cancelled`.  `Wait` is a slice of the 50 ms poll with
`FIRST_EXCEPTION`; `Drain` the wait for running futures; `Join` the exit of the
executor.  The transformation of rows is abstracted to the table being absent,
partial, written or placed, the evidence to a shard that is open, closed,
merged or orphaned.  The number of workers is a
variable chosen from `WorkerCounts`; with one worker the same steps run inside the
coordinator's thread.

### NumericAllocation and NumericKeys

A member of a relation is a pair of a readable and a writable range.  A source is
any subset of `Occurrences`.  A run scans it, adds the values to the spool,
checks capacity, and then walks the spool in the order of canonical texts
(`TextRank`), which is not the order of numbers.  For each value it looks up the
row, draws a bounded number of random candidates, then walks a bounded number of free
tokens, and commits one row.  A random draw is any free token; that all draws
miss is possible as long as one of them can be refused.  Free tokens are found by
the streaming gap walk, a recursive function over the occupied tokens.
`NumericKeys` also has the candidate selection of the standalone service
(`CompletionWalk`), which allocates in its caller's order and repairs a greedy choice
by an exact walk; `KernelIsExact` holds it against the definition of feasibility.

### TextAllocation

A text is a pair of a length and an ordinal: a token when the ordinal is within
`Base^length`.  The spool keeps the strictest width per text.  The residual
problem is built as in the code: tokens that are texts of the source are reserved
one by one, the rest of a length is a class with a capacity.  The augmenting
search is modelled step by step with the code's tables: the stack of frames with
their cursors, the visited marks, the assignment, and the unwinding after a free
resource is found.  The solved assignment is validated and then materialized one
transaction at a time.

### VaultLifecycle

A file is an inode; the path names at most one, connections keep theirs.  `db[f]`
is the committed identity, `main[f]` what the file holds without its log, `wal`
the sidecar at the path.  `_create` reserves, connects by name, sets the journal
mode and commits schema and identity in one transaction; its failure path closes,
compares the inode and unlinks.  A `KeyboardInterrupt` takes the same path and is
remembered in `signal`: the code then keeps a failure of the clean-up to itself, and an
interrupt inside the clean-up ends it where it is.  `open` decides by the sidecar between the
immutable snapshot and the recovering connection, connects by name again, requires
WAL mode and binds.  What SQLite does on connect, commit, checkpoint and the close
of the last connection is external and was confirmed by running the store.
`tags` records what happened to a file out of the ordinary; no action reads it.

### FieldTransforms, Verification, RecoveryAuthority, RoundTrip

A field is named after its treatment: `text` and `key` are pseudonymized through
rows, `memo` is masked and its original kept in a row by place, `date` is shifted by
the one offset of its domain, `keep` is copied.  `RoundTrip` scans a source record by
record, finalizes the domains, registers the ledger, writes tables, publishes,
verifies and recovers; a run may fail between any two steps and is retried on the
vault it left.  The writer may write something else than it was given, and after
publication somebody may change source, output or a row of the vault (`MaxFaults`).
`Verification` has one operator per function of `verification.py`, which returns the
set of codes that function records.  `RecoveryAuthority` reverses each ledger action.
The nullable receipt column is a set of at most one receipt, and a missing operation row
is `NoOperation`.
Digests are the contents themselves, so a digest that agrees means equal contents.

### TransferBundle, Delivery, DeliveryContract

A path is a stem and an extension, `Fold` is `str.casefold`, a tree a function from
existing paths to contents.  `Delivery` has one invocation per process, of either
operation, with its control points between every two file operations: lock, staging
root, phases of `transaction.json`, payload, verification, rename, removal of the
metadata.  `Fail`, `Quit` and `Crash` are the exceptions, the cancellation or
interrupt, and the death of the process at each point; the handlers and their own
failures are steps like others.  `EditWorking` and `EditDelivered` are users.
`origin`, `delivered` and `changes` are history variables.  `DeliveryContract` has a
destination that is empty, whole or touched by a user: it is filled once, by one step,
and `delivered` is answered only by its owner.

### Relationships, Assurance

Documents are records with what a parser can find wrong in them (versions, duplicate
members, paths, unknown keys, an authority that nobody vouches for).  `Assurance`
parses and binds one, lets preflight judge it, derives the treatment of the fields,
observes records before and after, table by table, compares, and derives the level;
a user may edit the source between the passes.  What a pseudonym is comes from the
constant `Pseudonym`, the outcome of the allocation modules: it is injective on the
texts, and on the integers of every reversible relation (`PseudonymAssumption`).  A
document has the order its author gave it; the relations in effect are a set, because
each is counted and judged by itself.  The histogram of key counts, a sorted stream in
the code, is the multiset it lists.

### Planning, Preflight, IndexRebuild, Session

A world is a source, a destination, a vault and the free space of the disk.  A call is
a sequence of steps (the repeated walks and readings of `build_plan`, the checks of
preflight, the gate and revalidation of `pseudonymize`, the passes, the rebuild of
indexes, publication, giving back what is held, completion), and the world may change
between any two.  Every step may break down, also between the rename and the receipt
(`PublishHalfway`) and behind the receipt (`ReleaseFails`: removal of private metadata,
release of lease and lock, removal of spool and evidence, close of the vault).  What a
failed clean-up leaves in the vault directory is `leftover`; the engine refuses to run
beside it.  The capacity scans are modelled as the streams they are, with their bounds and early ends,
and compared with the definition of an allocation.  The backend answers anything.
`ghost` is a history variable: what was true of the world when a step looked at it, and
whether a call failed behind its receipt (`late`).
The engine's walk is quiet about a directory it cannot list, the plan's is too; only
preflight's is strict.  A directory that becomes unreadable after preflight's walk is
therefore left out without an error, and `PublishedCoversTheSource` promises all tables
only when the engine saw the source that preflight walked (`ghost.walked`).

## 3. Runs

| Run | Instance | Checks |
|---|---|---|
| `publication_faults` | 2 processes, 1 destination, 2 datasets; crashes, I/O and vault failures, cancellation, a user at the destination | `ExposedIsOwned`, `ReceiptIsTrue`, `AnswerIsTrue`, `KeepsContract` |
| `publication_progress` | 2 processes, 1 destination; crashes, I/O and vault failures, cancellation, interrupts; callers that keep asking | `ResidueIsPrivate`, `EveryRunEnds`, `PublishedOrTold` |
| `pass_two` | 3 tables, 1 or 2 workers, every fault | `NoWorkerOutlives`, `CauseIsReported`, `WholeOrNothing`, `PassEnds` |
| `numeric_allocation` | every subset of 7 occurrences, 3 members, 2 runs, every fault | `Inv`, `KernelIsExact`, `CapacityFailureIsReal`, `EventuallyMapped` |
| `text_allocation` | every subset of 8 occurrences over 2 letters, 2 runs, every fault | `MappingIsUsable`, `SearchIsExact`, `RetryStaysFeasible`, `RunEnds` |
| `vault_lifecycle` | 2 processes, 2 files, 2 identities, every fault | `AcceptedIsAuthentic`, `AcceptedIsAttached`, `FailureLeavesNothing` |
| `round_trip` | 5 scenarios of 1 or 2 tables with up to 2 records, 2 runs, 1 fault of the writer or change from outside | `CleanRunVerifies`, `AcceptedIsFaithful`, `VerifiedIsRecoverable`, `RecoveredIsSource`, `JoinIsPreserved` |
| `round_trip_empty` | the same without faults | `EmptyDomainIsValid` is violated |
| `delivery` | 2 invocations of either operation, 1 destination, 2 results, both kinds of file system; crashes, I/O failures, cancellation, interrupts, 1 change by a user | `StagingIsAccountedFor`, `DeliveredIsThePublishedData`, `AcceptedBundleIsIntact`, `KeepsDelivery` |
| `delivery_portable` | 1 invocation, no faults | `BundleIsPortable` is violated |
| `relationships` | documents over 2 tables, 3 schemas, up to 2 records, 1 edit | `EvidenceIsExact`, `KernelsAgree`, `AuthorityIsEarned`, `FaithfulRunIsVerified` |
| `session` | 38 worlds, 3 calls, 2 changes of the world; a failure at every step of a call | `PublishedCoversTheSource`, `IndexEvidenceIsTrue`, `PreflightIsRight`, `CompletedRetryReturns`, `TruthfulEnd` |

Every property of a passing run has a mutant in `PROJECT.json`: a plausible bug in the
modelled code under which TLC finds the property violated.

### Bounds and why they are enough

- *Publication.*  Conflicts are between two invocations for one destination (the
  kernel lock) or for two destinations of one vault (the lease).  Crashed processes
  leave `Dead` owners and start again, so the number of invocations is not bounded.
  Two datasets tell a receipt of the wrong dataset from the right one.  Two
  destinations are covered by the proofs, which hold for any number.
- *PassTwo.*  Three tables in batches of two give a full batch, a last batch that
  is smaller, and siblings inside and across batches.
- *Numeric.*  The members are a narrow one, a wide one and one that reads more than
  it writes.  The domain they share has as many tokens as the sources need at most
  and more than the small ones need, so exhausted and roomy domains both occur.
  `MaxRuns = 2`: the second run meets every set of rows that the first can leave.
- *Text.*  Two tokens of length 1 and four of length 2; texts that are tokens, texts
  that are not, and one text in fields of both widths, so that chains of
  displacement run through classes and reserved tokens of both lengths.
- *VaultLifecycle.*  Two inodes are enough for a path whose file was replaced while
  somebody still has the old one; with fewer free numbers than that a creator
  waits.
- *RoundTrip.*  Two records are one more than verification needs to lose one, and
  give equal and different values in one column; two tables give a join.  One fault at
  a time: every single change is met at every place of verification and recovery.
  Days run from `MinDay` to `MaxDay` = 0..3, so a calendar can have no feasible offset.
- *Delivery.*  Two invocations meet as two of one kind (the lock) and as a recovery
  and a bundle (the rename).  The results differ in case and in having a memo.
- *Assurance.*  One parent and one child table with two records each give missing,
  duplicate, orphaned and NULL keys; documents cover each clause of the parser, and have
  composite keys within one table and across two.
- *Session.*  The worlds are chosen one per check of preflight, on both sides of its
  threshold; two changes let something appear and disappear again between readings.  A
  source root that is gone is a world to start with and not a change; tables that
  disappear from a walk (`Hidden`) or appear in one (`Beside`) are changes.

Deadlock is checked in publication, pass 2 and vault runs.  It is not in the others:
they stop when the bounded number of runs, calls or invocations is over.

### What some properties except

`TruthfulEnd` says that a call that was refused or cancelled left no completed dataset of
its own, and that one that failed left one only when the failure came behind its durable
receipt; no poll of the cancellation and no check of the result comes there.
`CompletedRetryReturns` is the other half: that call is made good by calling again, unless
the clean-up left remains.  `ReadyMeansRuns`, a part of `PreflightIsRight`, has four named
exceptions: an existing empty destination, a completed vault whose output is gone, date
fields without a date, and remains of a failed call.

`FailureLeavesNothing` names who answers for an incomplete file at the dictionary path: a
creator who was told of it or died, a reservation that broke off, an open that recreated
the file, and the creator to whom an interrupt cost the report.  `PublishedOrTold` says
that `busy` is not the last word unless there is a dead lease in the vault for good.

### Times

The longest runs are `publication_progress` (566 thousand states, the liveness check
included, three minutes), `session` (2.9 million states), `publication_faults` (1.3
million) and `vault_lifecycle` (2.1 million), each of the last three in one to three
minutes with two workers.

### Fairness

- Publication: `FairSpec` has weak fairness for the steps of a running process.
  No step waits: the kernel lock and the lease are tried once and refused.
  `RetrySpec` adds strong fairness for starting, callers that keep asking, which is
  an assumption about callers; without it `PublishedOrTold` would say nothing.
  `Start` is enabled whenever a process is idle.
- PassTwo: weak fairness for the coordinator and for each worker thread.  Nobody
  has to cancel.
- Numeric: weak fairness for the steps of a run, and for beginning the next one
  (`EventuallyMapped` is about a caller who asks again).  Text: for the steps of a
  run only.
- The other modules have no liveness property: a handle may stay open for ever, a
  caller may never call again, and each invocation is a finite sequence of steps.

## 4. What is proved

The proofs are checked by TLAPS and hold for all values of the constants that
satisfy the named assumptions of the modules (sentinels differ from values,
faults are of the known kinds, finite bounds are natural numbers).

- **Publication.**  `TypeCorrect` and `SingleWriterTheorem` for every fault.  `Safety`,
  `OwnershipTheorem`, `ReceiptTheorem` and `Refinement` for `Faults` without
  `"interrupt"`, which is a stated hypothesis: with interrupts the claims are
  false (see the observations).  `ExposedIsOwned` is not inductive: whether a handler
  may delete depends on its flags, so `KnowsItsState` ties every control point to
  the row, the staging root, the fingerprint and the flags, and
  `DestinationIsConsistent` says what holds when nobody runs.  A step of one
  process leaves the destinations of others alone because it holds the
  destination's lock; framing lemmas carry that once for all actions.  The
  refinement then has to look at five visible actions; all others stutter.
  `AnswerTheorem` adds `AnswerInv` to this invariant: `AnswerIsKnown` says what each
  point of the handlers has already removed.  `PrivateTheorem` needs no hypothesis on
  interrupts: `PrivateInv` rests on the lease alone.
- **PassTwo.**  `Safety`, `NoWorkerOutlivesTheorem`, `CauseTheorem` and
  `WholeOrNothingTheorem`, for any number of tables and workers.  A worker changes
  only its own entries and sets the stop flag (`WorkerFrame`); `BatchIsKept` says
  what the coordinator knows of the futures at each point, `CauseIsKnown` that the
  flag is never set without a genuine reason that can still be found.  `WorkInv`
  says which files a worker has at each of its steps and that the coordinator has
  accepted a prefix of the plan; `DivBound` does the arithmetic of batches.
- **NumericAllocation.**  `Safety`, `BijectionTheorem`, `CompleteTheorem`,
  `PointsBackTheorem`, `PersistedTheorem`, for every set of members and sources.
  `StreamIsMapped` and `StreamIsOrdered` say where the stream of originals stands.
  These five do not depend on the gap walk: uniqueness in the vault and the refusals of
  the selection carry the argument.  `KernelTheorem` does.  The recursion of the walk is
  shown to have a solution (`WalkIsDefined`) and its loop invariant `Counted` says how
  many free tokens lie behind it, so the j-th free token is the one with j free ones
  below (`JthFreeHasRank`).  Hall's condition is enough because an injection with the
  fewest fixed points has none (`HallIsEnough`).  `CapacityTheorem` needs `CountInv`:
  `occupied` counts the rows, `occupied + remaining` the rows found and the originals, and
  the rows are those of the first originals in text order, so the walk tries more tokens
  than it has to skip.
- **TextAllocation.**  `Invariance`, `RowsAreUsable`, `TheSearchIsExact`,
  `RetryIsFeasible`, for every alphabet, set of occurrences and number of runs.  The
  invariant has one part per structure: `ScanInv` (spool and reuse), `RowsInv` (vault
  rows), `GraphInv` (the tables of the residual problem are the originals left, their
  own tokens and the capacities), `MatchInv` (the assignment is a matching that
  respects capacities), `PathInv` (the stack is an alternating path that repeats
  nobody), `ExploreInv` (what is visited or passed by a cursor is full, and its
  occupants are visited), `WriteInv` and `VerdictInv` (what is left to write is solved;
  a verdict is true).  Unwinding shifts one resource per frame and keeps every count but
  the last (`UnwindShifts`, `ShiftCounts`).  When a search exhausts, the visited
  originals outnumber what they may take: `ExhaustedIsInfeasible` counts it, so a
  missing assignment is shown and not assumed.  `WritingIsFeasible` turns a solved
  assignment of classes into one of tokens for whatever prefix is written.  One
  assumption is arithmetic that the provers do not have: there is a token of every
  length that a field can hold (`Base ^ length > 0`).
- **VaultLifecycle.**  `Safety`, `AuthenticTheorem`, `AttachedTheorem`,
  `VisibleTheorem`, `ResidueTheorem`, for any number of processes, files and
  identities.  A new file has a number that nobody knows; a reservation stays at the
  path unless an operator takes it; a failed creation unlinks only its own
  reservation (`ReservationIsKept`); a database is written once.  `AttachedTheorem`
  follows from `DatabaseIsAttached` and `AcceptedIsAuthentic`; `ResidueTheorem` from
  `ReservationIsHeld`, which says who answers for an incomplete file at each point of a
  creation and its clean-up, interrupts included.
- **Delivery.**  `StagingSafety`, `AccountedTheorem`, `CreatorTheorem`,
  `DeliverySafety`, `DeliveryRefines`, `IntactTheorem` and `PublishedTheorem`, for any number of invocations, destinations
  and changes and every fault, interrupts included.  `StagingInv` ties lock, flags,
  staging root and control point together; a step changes nothing of another
  invocation because staging roots belong to lock holders (the frame `Local`, used
  for every action by `OwnStep`).  For the refinement `DeliveryHasOwner` says that
  what lies at a destination was delivered whole by an invocation that renamed.  It
  has one hypothesis, `NoneIsNoTree`: the sentinel for an absent directory is not a
  function.  A model value satisfies it, but TLC cannot evaluate it as an `ASSUME`.
  `IntactTheorem` is an argument about verification alone, two trees accepted under
  one manifest have the same files but for case, on top of `DeliveryHasOwner`; it holds
  after any number of changes, while TLC makes one.  `PublishedTheorem` follows from
  `DeliversThePublished`, what an invocation on an untouched working tree has staged
  at each of its points.
- **Session.**  `Invariance`, `EndIsTruthful`, `EvidenceIsTrue`, `PublishedIsTheSource`,
  `RetryReturns`, for every set of worlds, policies and backends, any number of calls and changes.
  `Shape` and `EndInv` say what a call has said and done at each point, failures behind the
  receipt included; `EndingStops` and `ReleaseFailsEffect` collect what every way to end
  early leaves alone, above all the receipt (`KeepsVault`).  `PlanInv` and
  `SourceInv` what a plan made, and an engine that checked, on a quiet source know of it;
  `EvidenceInv`, `IndexInv` and `CdxInv` follow the index files through association,
  rebuild and verification, and past the files that a backend leaves beside them.
  `RetryReturns` needs no theory of the capacity scans: a retry asks them about the very
  source that the first call asked about.  `CheckInv` and `EngineInv` collect what a call
  has found out on its way to publication, `ReceiptInv` keeps it for as long as the
  receipt exists, and `RetryInv` follows the second call, whose only error code is the
  taken destination.  The attempt to prove it showed that the first call's own checks
  must have read the plan's source: when somebody changes the source after its second
  walk and changes it back before the engine's (`ghost.racy_check`), the scan has seen
  another source, and the retry of the published dataset can be refused.  TLC finds this
  when the edits of the instance may bring back a source that the scan does not accept.
  `TreesAssumption` says that what a successful walk returns is not the sentinel for none.
- **RoundTrip.**  `Invariance`, `JoinTheorem`, `RecoveryTheorem`, `FaithfulTheorem`,
  `RecoverableTheorem`, `CleanRunTheorem`, for every source, every choice of free
  pseudonyms and of a feasible offset, any number of tables, records, failed runs and
  faults; the run makes one fault.  None of the five properties is inductive: what
  verification finds depends on rows that earlier runs left.  `LooseInv` says what every
  vault looks like, also a changed one; `TightInv` what an untouched one holds after each
  step of pass 1; `MemoInv` that the memo of every record already read has its row,
  whichever run wrote it; `WriteInv` what pass 2 gives to the writer; `PublishedInv` how
  claim, completed row and tree follow from that; `RecoveryInv` that a staged table is a
  table of the source; `VerdictInv` that a verdict is about the present state.  From there
  `ImageIsOneToOne`, `SameProfile` and `SameMatches` give the join and its evidence;
  `ReverseOfImage` undoes pass 2 value by value for recovery, and `CleanValue` shows that
  verification finds nothing in it.  For what verification accepts, `SilentValue` reads
  the finding codes backwards: no failing code means `ValueAgrees` for the cell, and that
  is enough to reverse it (`ReverseOfAccepted`).  That the cell is hidden needs one honest
  party: the tables of an honest writer are hidden because the allocation has no fixed
  point, and an untouched ledger does not say `KEEP` where a value is to be changed.
  Hence the hypothesis of `AcceptedIsFaithful` and `VerifiedIsRecoverable` that not both
  the writer and the vault went wrong; with both, an original left in place passes under
  a row changed to `KEEP`, and dates left in place pass without their offset.  The
  assumptions are `ScenarioAssumption` (the key fields are those of one relation, rows have
  their fields, a date is absent or a day number), `TokenAssumption` (no pseudonym reads as
  an absent or empty value), `NullAssumption` (the absent value is none of the strings it
  is compared with) and natural bounds.
- **Assurance.**  `AssuranceSafety`, `EvidenceTheorem`, `KernelsTheorem`,
  `AuthorityTheorem` and `FaithfulTheorem`, for every set of documents and schemas, any
  number of tables, records and edits; they are in `PassTwoProofs`, beside the pool that
  the passes run in.  Evidence is a recursion over the records of a side in the engine and
  in the service: `ObservedIsCounted` and `AccumulatedIsCounted` show that each has a
  solution and counts every occurrence once (the step of each induction is a lemma; the
  least counterexample, `LeastNatural`, takes the place of the induction theorem).
  `PlanInv` says that document and binding are what the payload gives and that the level
  is derived once.  `EvidenceInv` says whose evidence is in the spool: that of the tables
  a pass has finished, in whatever order, and nothing of the others, which is why
  `EvidenceIsExact` needs every point between the tables and not only the end.
  `SameVerdict` compares the two kernels condition by condition, the orphans included,
  which the engine subtracts from rows and NULLs and the service from the sum of the
  counts.  For `AuthorityIsEarned`, `StrongestLevel` reads the derivation backwards to a
  binding and a verdict per relation, and `BindingIsEarned` reads the binding back to the
  envelope of the payload.  For `FaithfulRunIsVerified`, `FaithInv` follows the records of
  a source that nobody edits through both passes; `TransformIsReplaced` and `KeyIsRenamed`
  show that preflight has left each place of a key one treatment, the same on both sides,
  so that pass 2 renames keys injectively, and a renaming keeps counts, matches and
  orphans (`RenamedIsVerified`).  The assumptions are `PseudonymAssumption` (see above),
  `ValuesAssumption` (a field holds NULL or a value of its type), `DocumentAssumption`
  (groups and members are lists), `SchemaAssumption` (the schema is that of the plan's
  tables), `AbsentAssumption` (a missing level is no level) and natural bounds.

Only model-checked:

- everything with fairness (`EveryRunEnds`, `PublishedOrTold`, `PassEnds`,
  `EventuallyMapped`, `RunEnds`), which the prover does not do;
- `PreflightIsRight` of `session`: the capacity scans are folds over the streams of the
  tables, and what a fold computes for every stream needs induction over data;
- `EmptyDomainIsValid` and `BundleIsPortable`, which are violated.

## 5. Findings and observations

Two runs show that the code does not keep what one of its own documents says.

1. `round_trip_empty`: a table whose date fields hold no date makes pass 2 fail with
   `ENGINE_TEMPORAL_OFFSET_MISSING` (`engine/pass2.py:347`), although
   `vault/temporal_allocation.py:221-222` calls such a domain valid and pass 1
   finalizes it.
2. `delivery_portable`: bundle verification opens the case-folded path
   (`transfer_bundle.py:946`), so an intact bundle with a capital in a file name is
   refused on a file system that distinguishes case, by its own creator too.

What else the models show, at the line where it happens.  The properties name these
cases as exceptions or the models contain them; each can be reproduced as said.

*Publication.*
- A `KeyboardInterrupt` between `os.replace` and the assignment of `_renamed`
  (`engine/publication.py:538`): the handler removes the crash state, abandons the row,
  and the published dataset is unowned.  Add `"interrupt"` to `Faulty.cfg`.
- A crash between the unlinking of `transaction.json` and the removal of its
  directory (`engine/publication.py:559`) leaves a completed operation that every retry
  refuses; `CompletedIsRetryable`, checked with crashes, shows it.
- The writer lease of a run that died, or whose release failed, is never taken over
  (`vault/store.py:954-976`): every later caller of that vault is told busy for ever.
  `PublishedOrTold` names the case.
- Two destinations of one vault share a lease that is tried once and has no queue: a
  caller of one destination can be told busy for ever while the other is served.

*Allocation.*
- A second run over a vault that maps every key asks for a free token per key
  (`engine/pass1.py:465`) and is refused when more than half of the domain is used:
  `ReuseNeedsNoCapacity`.
- A numeric domain whose tokens are all originals passes `plan_numeric_bijection` and
  still cannot be allocated by the engine, which never swaps values.
- A text domain without a text: `_finalize_text` stores no alphabet and verification
  answers `POLICY_BINDING_MISMATCH`.  `CleanRunVerifies` leaves it out.

*Vault.*
- The close of a rejected crash-dirty dictionary checkpoints it (`vault/store.py:738`),
  against the docstring of `_bind`: `RejectedIsUntouched`.
- A creation whose `COMMIT` raised although it was durable unlinks a dictionary that
  another process may have accepted (`AcceptedIsAttached` names the case).
- An interrupt during a creation swallows a failed clean-up (`vault/store.py:575-576`), so
  an incomplete file stays and nobody is told, against the docstring at 601-602 ("never
  silently absorbed").  A reservation that breaks off between the creation of the file
  and the return of its identity (`vault/store.py:629-644`) leaves the file, which the
  failure path does not know of yet.  `FailureLeavesNothing` names both.

*Verification and recovery.*
- The `zip` of `_verify_table` (`verification.py:1197-1216`) takes one source record
  more than it compares, so an output without its last record is accepted:
  `AcceptedIsFaithful` names the case.
- The staging root is created outside the `try`: a failure there leaves an empty root
  that blocks later deliveries as stale.  The root of a crashed recovery holds original
  data until somebody removes it.
- An interrupt during the handler swallows a failed clean-up
  (`recovery.py:351-355`), against the comment at 337-342.
- The working tree is read several times without a lock: an edit between its
  verification and the copy is delivered as the copy saw it (`dirty` in `Delivery`;
  `DeliveredIsThePublishedData` leaves these invocations out).
- A result with index evidence that was omitted passes the output fingerprint only
  when the index files were published.

*Plan, preflight, engine.*
- `build_plan` walks and reads the source several times, partly tolerant of errors, so a
  table can be missing from a plan that looks sound when the source changes meanwhile
  (`ghost.racy_plan`, `ghost.racy_run`).  Preflight walks the source before its capacity
  scans and not after them, so a scan can judge another source than the one that is
  published (`ghost.racy_check`).
- Preflight accepts an existing empty destination; the engine refuses it.  A completed
  operation whose output was lost is ready for preflight and fails in the engine.  A
  completed retry is refused when the disk lacks room for a fresh run.  `ReadyMeansRuns`
  and `CompletedRetryReturns` name these cases.
- A progress callback that raises after publication turns the result into a
  `CallbackError`; the completed retry then returns it.
- A failure behind the durable receipt (`engine/run.py:1531-1576`) is reported like any
  other, so a caller who is told of a failure may have a complete dataset.  (The docstring
  of `cleanup_durable_state`, `engine/publication.py:503-506`, which nobody calls, says that
  callers treat a failed clean-up as not fatal; the clean-up that is called, at line 552,
  raises.)  `TruthfulEnd` names the case,
  and the retry returns the dataset when nothing was left over.
- `_member_range_of` (`engine/run.py:270-278`) looks a field up without its table.
  Composite members that name different tables are read from the table of the first
  (`engine/run.py:430-456`), and nothing refuses them: what is compared then is not the
  declared key, and an unedited source can end `INCOMPLETE`.  `FaithfulRunIsVerified` is
  stated for relations whose sides are of one table each (`OneTablePerRole`); the document
  `Spanning` of the instance breaks it without that condition.  A numeric key with decimals under `IDENTITY` passes
  planning and fails in pass 1 (`engine/pass1.py:271-273`).
- A relation that is not preserved yields the level `INCOMPLETE`, not a failure.
  `validate_document_compatibility` judges all groups, and the key `authority` is ignored
  without an envelope.
- A rebuilt IDX that equals the old one is accepted; a later rebuild may rewrite an IDX
  that was verified before (`engine/run.py:1205-1209`); a backend that changes a staged
  DBF is not noticed (`docs/limits-and-integrity.md:15`).
- Counters of progress restart per table and `CAPACITY_SCAN` is started twice, against
  `progress.py:201-203`; event payloads are not modelled.

## 6. Not modelled

- An explicit `operation_id` chosen by the caller: the identity derived from the
  destination is modelled.
- Edits of a staging root or the spool by a user; power loss, after which unsynced
  directory entries can be gone (a crash is the death of a process).
- An operator acting between the `stat` and the `unlink` of a failed creation; reuse of an inode number while a failed
  creation still remembers it; sidecars that a deleted database with open
  connections leaves under the name of its successor.
- `open` without expected fingerprints, which accepts any identity; the text of the
  SQL schema and the checks of its columns.
- The alphabet derived from code pages, the canonical text of numbers and its parser,
  64-bit clamping in SQLite casts, calendar dates (days are integers), binary formats.
- Sources that change between runs of one vault under the allocation modules: the vault
  is bound to the source's fingerprint, but `PERSISTED_INCOMPATIBLE` of the text
  allocation needs it.
- The collect, finalize, freeze life cycle of the standalone allocation services
  (`vault/text_allocation.py` and its siblings), which the engine does not call, but for
  the numeric selection.
- Payloads of progress events; wording of errors; JSON syntax of policies, documents and
  manifests (one flag each); limits on numbers of tables and index files; warnings of
  preflight; failures of path inspection in the overlap checks.
- A schema without an encoding, which preflight's scan handles apart
  (`preflight.py:844`; the DBF library always names one); a change of the source between
  preflight's text scan and its numeric scan, which are one step here
  (`preflight.py:1377-1382`).  The second hash of a standalone index after its association
  (`engine/run.py:1024`) is not a step of its own; that it fails is `BreakDown`.
- Vault protection, directives, direct I/O, command line, self test, capabilities, tools
  and examples: predicates on paths, tables of constants and adapters without state.

## 7. Plan

Done, in this order: `Publication` with its contract and proofs; `PassTwo`;
`NumericKeys` and `NumericAllocation`; `TextAllocation`; `VaultLifecycle`; then
`FieldTransforms`, `Verification`, `RecoveryAuthority` and `RoundTrip`; `TransferBundle`
and `Delivery` with its contract and proofs; `Relationships` and `Assurance`; `Planning`,
`Preflight`, `IndexRebuild` and `Session`; the proofs of `WholeOrNothing`,
`AnswerIsTrue`, `ResidueIsPrivate`, `FailureLeavesNothing`, `AcceptedBundleIsIntact` and
`DeliveredIsThePublishedData`; and those of the text allocation, of `Session`, of the numeric kernel and
capacity, of `RoundTrip`, and of `Assurance`.

Left:

1. The standalone text service and the life cycle of the allocation services, with the
   planners checked against a reference definition.
2. `ProgressController`: order of phases, monotone counters, one terminal event.
3. A user of the staging root, and power loss, as faults of `Publication`.
