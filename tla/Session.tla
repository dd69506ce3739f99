------------------------------- MODULE Session -------------------------------
(***************************************************************************)
(* A caller's session with the public API: build_plan, then preflight and  *)
(* pseudonymize as often as it likes, over a source, a destination, a      *)
(* vault and a disk that other programs change meanwhile, and with an      *)
(* index backend that is somebody else's code.                             *)
(*                                                                         *)
(* A call is a sequence of steps; between two steps the world may change.  *)
(* The publication protocol inside the engine is the Publication module's: *)
(* here it is the promotion with the receipt, and the release of what the  *)
(* call holds behind the receipt, either of which may fail and leave       *)
(* remains that stop every later call.  The allocation of pseudonyms is    *)
(* that of the allocation modules: a pass is one step, which fails when no *)
(* allocation exists or the second reading of the source brings values the *)
(* first one had not.                                                      *)
(***************************************************************************)
EXTENDS Preflight, IndexRebuild

CONSTANTS
    Starts,       \* [tree, out, vault, disk, setup]: the worlds a session begins in; setup is
                  \* the caller's arguments [paths, policy, capability, associates, numeric]
    Edits,        \* sources another program may leave behind
    Outputs,      \* what may lie at the destination when somebody puts it there
    Disks,        \* free space
    Rebuilds, Verifications, Associations,   \* answers of the backend
    MaxCalls, MaxEdits

ASSUME SessionAssumption == MaxCalls \in Nat /\ MaxEdits \in Nat

\* No call has completed a dataset before the session begins, but a call that
\* failed may have left its remains.
ASSUME StartsAssumption ==
    /\ Absent \notin {"rebuilt", "copy"}
    /\ \A s \in Starts : /\ DOMAIN s.vault = {"kind", "identity", "receipt", "leftover"}
                         /\ s.vault.receipt = Absent /\ s.vault.leftover \in BOOLEAN

\* A walk that succeeds finds something, be it nothing at all.
ASSUME TreesAssumption ==
    \A src \in {s.tree : s \in Starts} \cup Edits :
        /\ enumerate_in_scope_paths(src, FALSE) # Absent
        /\ compute_source_fingerprint(src, FALSE) # Absent

VARIABLES
    tree, out, vault, disk,   \* the world
    setup,
    plan,                     \* the caller's Plan, or Absent
    pc,                       \* the step of the running call, "idle" between calls
    call,                     \* the running or last call
    local,                    \* its local variables
    outcome,                  \* how the last call ended
    completed,                \* COMPLETED events of this call
    calls, edits,
    ghost                     \* what the properties remember

vars == <<tree, out, vault, disk, setup, plan, pc, call, local, outcome, completed,
          calls, edits, ghost>>
world == <<tree, out, vault, disk>>

NoFile == [kind |-> "missing", content |-> Absent]
\* leftover: a STARTED operation, a spool, an evidence root or a staging tree that
\* nobody can reconcile is left from a failed call.
NoVault == [kind |-> "missing", identity |-> Absent, receipt |-> Absent, leftover |-> FALSE]
Nothing == <<>>

With(f, x, y) == [z \in DOMAIN f \cup {x} |-> IF z = x THEN y ELSE f[z]]

\* local.idx, discovered, fingerprint, tables, facts, classes: build_plan
\* local.files, verified, errors, capacity: preflight
\* local.directives, scanned, staged, task, evidence: the engine
NoLocals ==
    [idx |-> {}, discovered |-> Nothing, fingerprint |-> Absent, tables |-> Nothing, facts |-> Nothing, classes |-> {},
     files |-> Absent, verified |-> FALSE, errors |-> {}, capacity |-> Absent,
     directives |-> Nothing, scanned |-> Nothing, staged |-> Absent, task |-> Absent,
     evidence |-> Nothing]

\* racy_plan, racy_check, racy_run: the source changed while the plan was made,
\* while preflight read it, while the engine read it.  steady: since the call began nothing changed and nobody
\* misbehaved.  walked: the source of preflight's second strict walk.
\* seen: the source the engine checked.  ready: the verdict of
\* preflight.  fresh: the vault had no receipt when the call began.  late: the
\* last call failed behind its receipt.
\* published: what the last publication was made of.
Init ==
    /\ \E s \in Starts :
         tree = s.tree /\ out = s.out /\ vault = s.vault /\ disk = s.disk /\ setup = s.setup
    /\ plan = Absent /\ pc = "idle" /\ call = "none" /\ local = NoLocals
    /\ outcome = "none" /\ completed = 0 /\ calls = 0 /\ edits = 0
    /\ ghost = [racy_plan |-> FALSE, racy_check |-> FALSE, racy_run |-> FALSE, steady |-> TRUE,
                walked |-> Absent, seen |-> Absent, ready |-> FALSE,
                fresh |-> TRUE, late |-> FALSE, published |-> Absent]

-----------------------------------------------------------------------------
(* Progress and the end of a call.                                         *)

\* A call that raises emits no terminal event.
Raise(how) ==
    /\ pc' = "idle" /\ outcome' = how /\ local' = NoLocals
    /\ UNCHANGED <<completed, plan>>

\* Mutant: the cancellation is polled whatever the caller asked for.
CompleteAlwaysPolls(check_cancel) ==
    \/ /\ completed' = completed + 1
       /\ outcome' \in {"returned", "callback_failed"}
    \/ /\ completed' = completed
       /\ outcome' = "cancelled"

\* ProgressController.complete: poll, then emit; the callback may raise on
\* the very last event.
complete(check_cancel) ==
    \/ /\ completed' = completed + 1
       /\ outcome' \in {"returned", "callback_failed"}
    \/ /\ check_cancel
       /\ completed' = completed
       /\ outcome' = "cancelled"

\* Every step polls cancel_check and reports progress first, until the dataset
\* has been promoted.
Cancel ==
    /\ pc \notin {"idle", "release", "complete"}
    /\ Raise("cancelled")
    /\ ghost' = [ghost EXCEPT !.steady = FALSE]
    /\ UNCHANGED <<world, setup, call, calls, edits>>

Keep == UNCHANGED <<setup, call, calls, edits>>

\* Between begin_operation and the promotion.
Working == {"pass_one", "pass_two", "data_only", "cdx", "verify_cdx", "idx", "rebuild_idx",
            "verify_idx", "publish"}

\* The remains in the vault are what they were, or there are some now.
MayLeave(left) == vault' = [vault EXCEPT !.leftover = @ \/ left]

\* An error of the disk, the dictionary or the interpreter can end a call at every
\* step.  The handler removes what was staged, unless that fails as well.
BreakDown ==
    /\ pc \notin {"idle", "release", "complete"}
    /\ Raise("failed")
    /\ \E left \in BOOLEAN : (left => pc \in Working) /\ MayLeave(left)
    /\ ghost' = [ghost EXCEPT !.steady = FALSE]
    /\ UNCHANGED <<tree, out, disk>> /\ Keep

Goto(next) == pc' = next /\ UNCHANGED <<outcome, completed, plan>> /\ Keep
Fails == Raise("failed") /\ UNCHANGED <<world, ghost>> /\ Keep

-----------------------------------------------------------------------------
(* build_plan.                                                             *)

CallBuildPlan ==
    /\ pc = "idle" /\ plan = Absent /\ calls < MaxCalls
    /\ pc' = "enumerate" /\ call' = "build_plan" /\ calls' = calls + 1
    /\ local' = NoLocals /\ completed' = 0 /\ outcome' = "running"
    /\ ghost' = [ghost EXCEPT !.racy_plan = FALSE, !.steady = TRUE, !.ready = FALSE, !.late = FALSE]
    /\ UNCHANGED <<world, setup, plan, edits>>

\* The inventory of standalone indexes comes from the first walk.
Enumerate ==
    /\ pc = "enumerate"
    /\ IF ~tree.root THEN Fails
       ELSE /\ Goto("discover")
            /\ local' = [local EXCEPT !.idx = enumerate_in_scope_paths(tree, FALSE).idx]
            /\ UNCHANGED <<world, ghost>>

Discover ==
    /\ pc = "discover"
    /\ LET found == discover_tables(tree) IN
       IF found = Absent THEN Fails
       ELSE IF DOMAIN found = {} THEN Fails
       ELSE /\ Goto("fingerprint")
            /\ local' = [local EXCEPT !.discovered = found]
            /\ UNCHANGED <<world, ghost>>

\* The third walk, and the policy.
Fingerprint ==
    /\ pc = "fingerprint"
    /\ IF resolve_policy(setup.policy) = Absent THEN Fails
       ELSE /\ Goto("schemas")
            /\ local' = [local EXCEPT !.fingerprint = compute_source_fingerprint(tree, FALSE)]
            /\ UNCHANGED <<world, ghost>>

\* The order in which a loop over sorted names takes them.
ComesFirst(x, S) ==
    \A y \in S \ {x} : \E i, j \in DOMAIN Order : Order[i] = x /\ Order[j] = y /\ i < j

KeyFields == {<<m[1], m[2]>> : m \in UNION {Range(g) : g \in Range(setup.numeric)}}

\* The tables the first walk found, read once more one after another.
EvaluateTable ==
    /\ pc = "schemas"
    /\ LET pending == DOMAIN local.discovered \ DOMAIN local.tables
           policy == resolve_policy(setup.policy)
       IN  \E t \in pending :
           /\ ComesFirst(t, pending)
           /\ IF t \notin VisibleTables(tree) THEN Fails
              ELSE IF ~tree.tables[t].readable THEN Fails
              ELSE /\ Goto("schemas")
                   /\ local' = [local EXCEPT
                        !.tables = With(@, t, TablePlan(local.discovered[t], tree.tables[t], policy,
                                                        policy["indexes.profile"])),
                        !.facts = With(@, t, [f \in DOMAIN tree.tables[t].fields |->
                                                tree.tables[t].fields[f].type]),
                        !.classes = @ \cup TransformationClasses(t, tree.tables[t], policy, KeyFields)]
                   /\ UNCHANGED <<world, ghost>>

AssembledPlan(policy) ==
    [fingerprint |-> local.fingerprint, tables |-> local.tables, idx |-> local.idx,
     profile |-> policy["indexes.profile"], policy |-> PolicySummary(policy, local.classes),
     resolved |-> policy, numeric |-> setup.numeric]

\* Every declared key member names a table the scan found and a field of the
\* declared type in the second reading.
MembersAreBound ==
    \A m \in UNION {Range(g) : g \in Range(setup.numeric)} :
        /\ m[1] \in DOMAIN local.facts
        /\ m[2] \in DOMAIN local.facts[m[1]] /\ local.facts[m[1]][m[2]] = m[3]

\* The plan is built, then the single terminal event, then the return.
Assemble ==
    /\ pc = "schemas" /\ DOMAIN local.tables = DOMAIN local.discovered
    /\ IF ~MembersAreBound THEN Fails
       ELSE /\ complete(TRUE)
            /\ plan' = IF outcome' = "returned" THEN AssembledPlan(resolve_policy(setup.policy)) ELSE plan
            /\ pc' = "idle" /\ local' = NoLocals
            /\ UNCHANGED <<world, ghost>> /\ Keep

-----------------------------------------------------------------------------
(* The evaluation that preflight and pseudonymize share.                   *)

Capability == IF plan.profile = "VFP_INDEXED" THEN setup.capability ELSE Absent

\* The handshake with an injected backend is the first thing a call does.
CallWithPlan(operation) ==
    /\ pc = "idle" /\ plan # Absent /\ calls < MaxCalls
    /\ call' = operation /\ calls' = calls + 1 /\ local' = NoLocals /\ completed' = 0
    /\ IF setup.capability # Absent /\ ~CapabilityIsValid(setup.capability, setup.associates)
       THEN pc' = "idle" /\ outcome' = "failed"
       ELSE pc' = "verify_files" /\ outcome' = "running"
    /\ ghost' = [ghost EXCEPT !.racy_check = FALSE, !.racy_run = FALSE, !.steady = TRUE, !.walked = Absent,
                              !.seen = Absent, !.ready = FALSE, !.fresh = (vault.receipt = Absent),
                              !.late = FALSE]
    /\ UNCHANGED <<world, setup, plan, edits>>

CallPreflight == CallWithPlan("preflight")
CallPseudonymize == CallWithPlan("pseudonymize")

AddErrors(codes) == local.errors \cup codes

\* Overlap, and the strict walk.
VerifyFiles ==
    /\ pc = "verify_files"
    /\ LET files == enumerate_in_scope_paths(tree, TRUE) IN
       /\ Goto("verify_source")
       /\ local' = [local EXCEPT
            !.files = files,
            !.errors = Errors(paths_overlap(setup.paths), "PATH_OVERLAP")
                       \cup Errors(files = Absent, "SOURCE_UNAVAILABLE")]
       /\ UNCHANGED <<world, ghost>>

\* A second strict walk hashes what it finds.
VerifySource ==
    /\ pc = "verify_source"
    /\ LET current == compute_source_fingerprint(tree, TRUE) IN
       /\ Goto("destination")
       /\ local' = IF local.files = Absent THEN local
                   ELSE IF current = Absent THEN [local EXCEPT !.errors = AddErrors({"SOURCE_UNAVAILABLE"})]
                   ELSE [local EXCEPT
                           !.errors = AddErrors(Errors(current # plan.fingerprint, "SOURCE_FINGERPRINT_MISMATCH")),
                           !.verified = (current = plan.fingerprint)]
       /\ ghost' = [ghost EXCEPT !.walked = tree]
       /\ UNCHANGED world

CheckDestination ==
    /\ pc = "destination"
    /\ Goto("checks")
    /\ local' = [local EXCEPT
         !.errors = AddErrors(destination_conflict(out.kind, vault.kind)
                              \cup existing_vault(vault.kind, vault.identity, plan))]
    /\ UNCHANGED <<world, ghost>>

CheckPlan ==
    /\ pc = "checks"
    /\ Goto("capacity")
    /\ local' = [local EXCEPT
         !.errors = AddErrors(check_fields(plan.tables) \cup check_policy_consistency(plan)
                              \cup check_capabilities(plan, Capability))]
    /\ UNCHANGED <<world, ghost>>

\* The scans run on a verified source only.  A table that is gone by now, or
\* cannot be read, makes the call raise.
ScanCapacity ==
    /\ pc = "capacity"
    /\ LET scans == local.verified /\ "PSEUDONYMIZE_REVERSIBLE" \in plan.policy.classes
           gone == ~(local.files.tables \subseteq VisibleTables(tree))
           files == Restrict(tree.tables, local.files.tables)
           text == capacity_sufficient(files, plan)
           keys == numeric_relation_capacity(files, plan.numeric)
       IN  IF ~scans
           THEN Goto("storage") /\ UNCHANGED <<world, local, ghost>>
           ELSE IF gone THEN Fails
           ELSE IF text = Absent THEN Fails
           ELSE /\ Goto("storage")
                /\ local' = [local EXCEPT
                     !.capacity = [files |-> files, text |-> text, keys |-> keys],
                     !.errors = AddErrors(CapacityErrors(text) \cup CapacityErrors(keys.outcome)
                                          \cup Errors(keys.unwritable, "NUMERIC_KEY_RECOVERY_UNWRITABLE"))]
                /\ UNCHANGED <<world, ghost>>

CheckStorage ==
    /\ pc = "storage"
    /\ LET codes == AddErrors(storage_errors(tree, local.files, disk, plan.policy.recovery_enabled)) IN
       /\ Goto("verdict")
       /\ local' = [local EXCEPT !.errors = codes]
       /\ ghost' = [ghost EXCEPT !.ready = (codes = {})]
       /\ UNCHANGED world

\* preflight returns its findings.
Verdict ==
    /\ pc = "verdict" /\ call = "preflight"
    /\ complete(TRUE)
    /\ pc' = "idle" /\ local' = NoLocals
    /\ UNCHANGED <<world, plan, ghost>> /\ Keep

\* Mutant: a conflict at the destination is always refused.
RefusesEveryConflict(errors) == FALSE

\* _completed_retry_candidate: a conflict and nothing else, over the form of
\* a completed dataset, may still be a retry.
RetryCandidate(errors) ==
    errors = {"DESTINATION_CONFLICT"} /\ out.kind \in {"empty", "full"} /\ vault.kind = "file"

\* pseudonymize goes on only then.
Gate ==
    /\ pc = "verdict" /\ call = "pseudonymize"
    /\ IF local.errors = {} \/ RetryCandidate(local.errors)
       THEN pc' = "revalidate" /\ UNCHANGED <<local, outcome, completed, plan>>
       ELSE Raise("refused")
    /\ UNCHANGED <<world, ghost>> /\ Keep

-----------------------------------------------------------------------------
(* run_two_pass.                                                           *)

\* Mutant: the engine trusts preflight and does not look at the source again.
RevalidateTrusts ==
    /\ pc = "revalidate"
    /\ Goto("directives")
    /\ ghost' = [ghost EXCEPT !.seen = tree, !.racy_run = FALSE]
    /\ UNCHANGED <<world, local>>

\* _revalidate_execution_identity: the walk that skips what it cannot list.
Revalidate ==
    /\ pc = "revalidate"
    /\ IF \/ compute_source_fingerprint(tree, FALSE) # plan.fingerprint
          \/ paths_overlap(setup.paths)
       THEN Fails
       ELSE /\ Goto("directives")
            /\ ghost' = [ghost EXCEPT !.seen = tree, !.racy_run = FALSE]
            /\ UNCHANGED <<world, local>>

\* build_engine_plan reads every planned table's schema again.
BuildEnginePlan ==
    /\ pc = "directives"
    /\ LET planned == DOMAIN plan.tables
           broken(t) == \/ t \notin VisibleTables(tree) \/ ~tree.tables[t].readable
                        \/ FieldsWith(tree.tables[t], plan.resolved, "UNSAFE") # {}
       IN  IF \E t \in planned : broken(t) THEN Fails
           ELSE /\ Goto("vault")
                /\ local' = [local EXCEPT
                     !.directives = [t \in planned |-> [count |-> Len(tree.tables[t].records),
                                                        cdx |-> tree.tables[t].cdx # "none"]]]
                /\ UNCHANGED <<world, ghost>>

\* A vault is created for this source, unless remains lie where it would be, or
\* opened when it is this source's.
OpenVault ==
    /\ pc = "vault"
    /\ IF \/ vault.kind \notin {"missing", "file"}
          \/ vault.kind = "missing" /\ vault.leftover
          \/ vault.kind = "file" /\ vault.identity # plan.fingerprint
       THEN Fails
       ELSE /\ Goto("existing")
            /\ vault' = IF vault.kind = "file" THEN vault
                        ELSE [NoVault EXCEPT !.kind = "file", !.identity = plan.fingerprint]
            /\ UNCHANGED <<tree, out, disk, local, ghost>>

\* _existing_completed_result and the refusals around it: the receipt and the very
\* output it describes, or nothing at the destination at all, and no remains.
ExistingResult ==
    /\ pc = "existing"
    /\ LET here == IF vault.receipt = Absent THEN NoFile ELSE vault.receipt.output IN
       IF out # here \/ vault.leftover THEN Fails
       ELSE /\ Goto(IF vault.receipt = Absent THEN "pass_one" ELSE "release")
            /\ local' = IF vault.receipt = Absent THEN local
                        ELSE [local EXCEPT !.evidence = vault.receipt.evidence]
            /\ UNCHANGED <<world, ghost>>

-----------------------------------------------------------------------------
(* The passes.  Originals have a pseudonym when Hall's condition holds,    *)
(* which is what the allocation modules establish of pass 1.               *)

TokensUpTo(alphabet, width) == UNION {[1..k -> alphabet] : k \in 1..width}

\* The narrowest width at which each non-empty text original occurs.
TextOriginals(files, policy) ==
    LET cells == UNION {UNION {{[value |-> files[t].records[i][f], width |-> files[t].fields[f].length] :
                                  i \in {j \in DOMAIN files[t].records : f \in DOMAIN files[t].records[j]}} :
                                 f \in TextFields(files[t], policy)} : t \in DOMAIN files}
        values == {c.value : c \in cells} \ {<<>>}
    IN  [v \in values |-> Min({c.width : c \in {d \in cells : d.value = v}})]

TextIsAllocatable(files, policy) ==
    LET originals == TextOriginals(files, policy)
        alphabet == candidate_alphabet({files[t].encoding : t \in
                       {u \in DOMAIN files : TextFields(files[u], policy) # {}}})
    IN  \A S \in SUBSET DOMAIN originals :
            Cardinality(UNION {TokensUpTo(alphabet, originals[v]) \ {v} : v \in S}) >= Cardinality(S)

KeyOriginals(files, group) ==
    UNION {{files[m[1]].records[i][m[2]] :
              i \in {j \in DOMAIN files[m[1]].records : m[2] \in DOMAIN files[m[1]].records[j]}} :
             m \in Range(group)}

KeysAreAllocatable(files, group) ==
    LET originals == KeyOriginals(files, group)
        tokens == {x \in UNION {KeyRange[m[3]].writable : m \in Range(group)} :
                     \A m \in Range(group) : x \in KeyRange[m[3]].writable}
        writable(m, v) == v \in KeyRange[m[3]].writable
    IN  /\ \A m \in Range(group) : \A v \in KeyOriginals(files, <<m>>) : writable(m, v)
        /\ \A S \in SUBSET originals :
              Cardinality(UNION {tokens \ {v} : v \in S}) >= Cardinality(S)

TemporalIsEmpty(files, policy) ==
    LET dated == UNION {{t} \X FieldsWith(files[t], policy, "SHIFT_REVERSIBLE") : t \in DOMAIN files}
    IN  /\ dated # {}
        /\ \A p \in dated : \A i \in DOMAIN files[p[1]].records : p[2] \notin DOMAIN files[p[1]].records[i]

Planned(src) == Restrict(src.tables, DOMAIN plan.tables)
Gone == ~(DOMAIN plan.tables \subseteq VisibleTables(tree))

PassOne ==
    /\ pc = "pass_one"
    /\ IF Gone THEN Fails
       ELSE IF \/ ~TextIsAllocatable(Planned(tree), plan.resolved)
               \/ \E g \in Range(plan.numeric) : ~KeysAreAllocatable(Planned(tree), g)
       THEN Fails
       ELSE /\ Goto("pass_two")
            /\ local' = [local EXCEPT !.scanned = Planned(tree)]
            /\ UNCHANGED <<world, ghost>>

\* What pass 2 needs was recorded by pass 1: a pseudonym for every value,
\* and a shift when there is a date to shift.
NeverScanned(files) ==
    \/ ~(DOMAIN TextOriginals(files, plan.resolved) \subseteq DOMAIN TextOriginals(local.scanned, plan.resolved))
    \/ \E g \in Range(plan.numeric) : ~(KeyOriginals(files, g) \subseteq KeyOriginals(local.scanned, g))
    \/ TemporalIsEmpty(local.scanned, plan.resolved)

PassTwo ==
    /\ pc = "pass_two"
    /\ IF Gone THEN Fails
       ELSE IF NeverScanned(Planned(tree)) THEN Fails
       ELSE /\ Goto(IF plan.profile = "DATA_ONLY" THEN "data_only" ELSE "cdx")
            /\ local' = [local EXCEPT !.staged = [tables |-> Planned(tree), cdx |-> Nothing, idx |-> Nothing]]
            /\ UNCHANGED <<world, ghost>>

\* _data_only_idx_evidence: every inventoried index is still there, and omitted.
DataOnlyEvidence ==
    /\ pc = "data_only"
    /\ IF ~(plan.idx \subseteq DOMAIN tree.idx) THEN Fails
       ELSE /\ Goto("publish")
            /\ local' = [local EXCEPT
                 !.evidence = [i \in plan.idx |-> Evidence("OMITTED_DATA_ONLY", tree.idx[i], Absent, Absent)]]
            /\ UNCHANGED <<world, ghost>>

-----------------------------------------------------------------------------
(* The index stage of a VFP_INDEXED run.  A backend writes the index it is *)
(* asked for, or not, and may leave a copy of another index beside it; it  *)
(* does not rewrite an index the engine has already verified.              *)

Misbehaves ==
    /\ Raise("failed")
    /\ ghost' = [ghost EXCEPT !.steady = FALSE]
    /\ UNCHANGED world /\ Keep

Strays == {{}} \cup {{i} : i \in plan.idx \ DOMAIN local.staged.idx}
Littered(files, strays) ==
    [i \in DOMAIN files \cup strays |-> IF i \in DOMAIN files THEN files[i] ELSE "copy"]

PendingCdx ==
    {t \in DOMAIN local.directives : local.directives[t].cdx} \ DOMAIN local.staged.cdx

\* One structural index: the source table must still be there.
RebuildCdx ==
    /\ pc = "cdx"
    /\ \E t \in PendingCdx :
        /\ ComesFirst(t, PendingCdx)
        /\ IF t \notin VisibleTables(tree) \/ ~BackendServes("cdx", setup.capability)
           THEN Fails
           ELSE \E r \in Rebuilds, present \in BOOLEAN, stray \in Strays :
                  IF ~CdxIsRebuilt(r, present) THEN Misbehaves
                  ELSE /\ Goto("verify_cdx")
                       /\ local' = [local EXCEPT !.task = [table |-> t, tags |-> r.tags],
                                                 !.staged.idx = Littered(@, stray)]
                       /\ UNCHANGED <<world, ghost>>

\* A verification says how many records the index covers: those of the
\* staged table, or not.
Answer(v, t) ==
    [v EXCEPT !.count = Len(local.staged.tables[t].records) + (IF v.count = "right" THEN 0 ELSE 1)]

VerifyCdx ==
    /\ pc = "verify_cdx"
    /\ LET t == local.task.table IN
       \E v \in Verifications :
         IF ~VerificationIsAccepted("cdx", Answer(v, t), local.task.tags, local.directives[t].count)
         THEN Misbehaves
         ELSE /\ Goto("cdx")
              /\ local' = [local EXCEPT !.task = Absent,
                             !.staged.cdx = With(@, t, Answer(v, t).count)]
              /\ UNCHANGED <<world, ghost>>

CdxDone ==
    /\ pc = "cdx"
    /\ PendingCdx = {} /\ Goto(IF plan.idx = {} THEN "publish" ELSE "idx")
    /\ UNCHANGED <<world, local, ghost>>

PendingIdx == plan.idx \ DOMAIN local.evidence

AddEvidence(i, e) == [local EXCEPT !.task = Absent, !.evidence = With(@, i, e)]

\* Whose index it is, only the backend can say.  The index file is hashed before the
\* question and again after the answer (run.py 1012, 1024): one that another program
\* changes meanwhile fails the call, which is BreakDown at this step.
AssociateIdx ==
    /\ pc = "idx"
    /\ \E i \in PendingIdx :
        /\ ComesFirst(i, PendingIdx)
        /\ IF i \notin DOMAIN tree.idx \/ ~BackendServes("idx", setup.capability)
           THEN Fails
           ELSE \E a \in Associations :
                  IF \/ ~run_backend_standalone_idx_association(a, DOMAIN plan.tables) \/ ~Signed(a)
                     \/ a.status = "ASSOCIATED"
                        /\ (a.table \notin VisibleTables(tree) \/ i \in DOMAIN local.staged.idx)
                  THEN Misbehaves
                  ELSE IF a.status = "UNAVAILABLE"
                  THEN /\ Goto("idx")
                       /\ local' = AddEvidence(i, Evidence("OMITTED_UNVERIFIED", tree.idx[i], Absent, Absent))
                       /\ UNCHANGED <<world, ghost>>
                  ELSE /\ Goto("rebuild_idx")
                       /\ local' = [local EXCEPT !.task = [idx |-> i, table |-> a.table, source |-> tree.idx[i]]]
                       /\ UNCHANGED <<world, ghost>>

SourceIsUnchanged == local.task.idx \in DOMAIN tree.idx /\ tree.idx[local.task.idx] = local.task.source

RebuildIdx ==
    /\ pc = "rebuild_idx"
    /\ \E r \in Rebuilds, present \in BOOLEAN, stray \in Strays :
         LET i == local.task.idx
             around == Littered(local.staged.idx, stray)
             files == IF present THEN With(around, i, "rebuilt") ELSE around
             there == i \in DOMAIN files
         IN
         IF ~SourceIsUnchanged \/ ~(IdxIsRefused(r, there) \/ IdxIsRebuilt(r, there))
         THEN Misbehaves
         ELSE /\ UNCHANGED <<world, ghost>>
              /\ IF r.status = "REFUSED"
                 THEN /\ Goto("idx")
                      /\ local' = [AddEvidence(i, Evidence("OMITTED_UNVERIFIED", local.task.source,
                                                           local.task.table, Absent))
                                     EXCEPT !.staged.idx = files]
                 ELSE /\ Goto("verify_idx")
                      /\ local' = [local EXCEPT !.staged.idx = files]

\* The verification may itself rewrite the index.
VerifyIdx ==
    /\ pc = "verify_idx"
    /\ \E v \in Verifications, rewritten \in BOOLEAN :
         LET i == local.task.idx
             t == local.task.table
         IN
         IF \/ ~VerificationIsAccepted("idx", Answer(v, t), {}, local.directives[t].count)
            \/ rewritten \/ ~SourceIsUnchanged
         THEN Misbehaves
         ELSE /\ Goto("idx")
              /\ local' = AddEvidence(i, Evidence("REBUILT_VERIFIED", local.task.source, t,
                                                  local.staged.idx[i]))
              /\ UNCHANGED <<world, ghost>>

\* The last look at the staging, by names.
IdxDone ==
    /\ pc = "idx"
    /\ PendingIdx = {}
    /\ IF ~InventoryIsVerified(local.staged.idx, local.evidence) THEN Misbehaves
       ELSE /\ Goto("publish")
            /\ UNCHANGED <<world, local, ghost>>

-----------------------------------------------------------------------------
(* Publication, the result, and the terminal event.                        *)

Made == [kind |-> "full", content |-> local.staged]

\* The promotion refuses any existing destination and uses the space of the copy.
Promotes ==
    LET used == source_footprint([tables |-> local.staged.tables], DOMAIN local.staged.tables) IN
    /\ out' = Made
    /\ disk' = IF disk = Absent THEN disk ELSE [disk EXCEPT !.output = @ - used]
    /\ UNCHANGED tree

\* The dataset is promoted and its receipt is durable.
Publish ==
    /\ pc = "publish"
    /\ IF out.kind # "missing" THEN Fails
       ELSE /\ Goto("release")
            /\ Promotes
            /\ vault' = [vault EXCEPT !.receipt = [output |-> Made, evidence |-> local.evidence]]
            /\ ghost' = [ghost EXCEPT !.published =
                           [tree |-> ghost.seen, walked |-> ghost.walked,
                            racy |-> ghost.racy_plan \/ ghost.racy_run,
                            hasty |-> ghost.racy_check \/ ghost.racy_run]]
            /\ UNCHANGED local

\* The dataset is promoted and the receipt is not: nothing is taken back, and the
\* STARTED operation stays.
PublishHalfway ==
    /\ pc = "publish" /\ out.kind = "missing"
    /\ Raise("failed") /\ Promotes /\ MayLeave(TRUE)
    /\ ghost' = [ghost EXCEPT !.steady = FALSE]
    /\ Keep

\* Behind the receipt, or behind the one that was found, the call gives back what
\* it holds: private metadata, writer lease, destination lock, spool and vault.
Release ==
    /\ pc = "release" /\ Goto("complete")
    /\ UNCHANGED <<world, local, ghost>>

\* Any of that may raise, or the COMMIT of the receipt may have, although it was
\* durable; what is left over stops later calls, or does not.
ReleaseFails ==
    /\ pc = "release" /\ Raise("failed")
    /\ \E left \in BOOLEAN : MayLeave(left)
    /\ ghost' = [ghost EXCEPT !.steady = FALSE, !.late = TRUE]
    /\ UNCHANGED <<tree, out, disk>> /\ Keep

\* The result object is built, which checks the evidence against the plan,
\* and the terminal event is emitted without another poll.
Complete ==
    /\ pc = "complete" /\ pc' = "idle" /\ local' = NoLocals
    /\ IF DOMAIN local.evidence = plan.idx /\ \A i \in plan.idx : EvidenceIsValid(local.evidence[i])
       THEN complete(FALSE)
       ELSE outcome' = "failed" /\ UNCHANGED completed
    /\ UNCHANGED <<world, plan, ghost>> /\ Keep

-----------------------------------------------------------------------------
(* Everybody else.                                                         *)

Building == pc \in {"discover", "fingerprint", "schemas"}
CheckingSource == pc \in {"verify_source", "destination", "checks", "capacity"}
Reading == pc \in {"directives", "vault", "existing", "pass_one", "pass_two", "data_only"}

Edit ==
    /\ edits < MaxEdits /\ edits' = edits + 1
    /\ UNCHANGED <<setup, plan, pc, call, local, outcome, completed, calls>>

EditSource ==
    /\ Edit /\ tree' \in Edits \ {tree}
    /\ ghost' = [ghost EXCEPT !.steady = FALSE, !.racy_plan = @ \/ Building,
                              !.racy_check = @ \/ CheckingSource, !.racy_run = @ \/ Reading]
    /\ UNCHANGED <<out, vault, disk>>

EditDestination ==
    /\ Edit /\ out' \in ({NoFile} \cup Outputs) \ {out}
    /\ ghost' = [ghost EXCEPT !.steady = FALSE]
    /\ UNCHANGED <<tree, vault, disk>>

\* The vault of a running engine is open; nobody replaces it then.  Whoever takes
\* it away or puts another there may clear the remains beside it, or not.
EditVault ==
    /\ Edit /\ pc \notin {"existing", "pass_one", "pass_two", "data_only", "cdx", "verify_cdx",
                          "idx", "rebuild_idx", "verify_idx", "publish", "release", "complete"}
    /\ \E kind \in {"missing", "file"}, left \in BOOLEAN :
          /\ left => vault.leftover
          /\ vault' = [NoVault EXCEPT !.kind = kind, !.leftover = left]
    /\ vault' # vault
    /\ ghost' = [ghost EXCEPT !.steady = FALSE]
    /\ UNCHANGED <<tree, out, disk>>

EditDisk ==
    /\ Edit /\ disk' \in Disks \ {disk}
    /\ ghost' = [ghost EXCEPT !.steady = FALSE]
    /\ UNCHANGED <<tree, out, vault>>

Next ==
    \/ CallBuildPlan \/ Enumerate \/ Discover \/ Fingerprint \/ EvaluateTable \/ Assemble
    \/ CallPreflight \/ CallPseudonymize \/ VerifyFiles \/ VerifySource \/ CheckDestination
    \/ CheckPlan \/ ScanCapacity \/ CheckStorage \/ Verdict \/ Gate
    \/ Revalidate \/ BuildEnginePlan \/ OpenVault \/ ExistingResult \/ PassOne \/ PassTwo
    \/ DataOnlyEvidence \/ RebuildCdx \/ VerifyCdx \/ CdxDone
    \/ AssociateIdx \/ RebuildIdx \/ VerifyIdx \/ IdxDone
    \/ Publish \/ PublishHalfway \/ Release \/ ReleaseFails \/ Complete
    \/ BreakDown \/ Cancel \/ EditSource \/ EditDestination \/ EditVault \/ EditDisk

Spec == Init /\ [][Next]_vars

-----------------------------------------------------------------------------
(* Properties.                                                             *)

Receipt == vault.receipt
Dataset == Receipt.output.content

\* What is published is the whole source: unless somebody changed it while
\* it was read, every table the engine's walk could list is in the output with
\* the records it had, and every standalone index is accounted for.  The
\* engine's walk is quiet about a directory it cannot list; so is the plan's.
\* Only the strict walk of preflight is not: when the engine saw the source
\* that preflight walked, no table at all is left out.
PublishedCoversTheSource ==
    Receipt # Absent /\ ~ghost.published.racy =>
        LET source == ghost.published.tree IN
        /\ Dataset.tables = Restrict(source.tables, VisibleTables(source))
        /\ ghost.published.walked = source => DOMAIN Dataset.tables = DOMAIN source.tables
        /\ DOMAIN Receipt.evidence = DOMAIN source.idx

\* The index evidence of a completed dataset is true of its files, whatever
\* the backend answered: an index file is there if and only if its evidence
\* says rebuilt and verified, with that content, and in a VFP_INDEXED dataset
\* every table with a structural index has one that covers its records.
IndexEvidenceIsTrue ==
    Receipt # Absent /\ ~ghost.published.racy =>
        /\ DOMAIN Dataset.idx = VerifiedIdx(Receipt.evidence)
        /\ \A i \in DOMAIN Dataset.idx : Receipt.evidence[i].output = Dataset.idx[i]
        /\ plan.profile = "VFP_INDEXED" =>
              \A t \in DOMAIN Dataset.tables :
                 Dataset.tables[t].cdx # "none" =>
                    t \in DOMAIN Dataset.cdx /\ Dataset.cdx[t] = Len(Dataset.tables[t].records)

\* A source preflight calls ready can be pseudonymized: with nothing changed
\* since, and no help from a fault, the engine fails in four known cases only,
\* an existing empty destination, a completed vault whose output is gone, date
\* fields without a single date, and remains of a failed call, which preflight
\* does not look for.
ReadyMeansRuns ==
    pc = "idle" /\ call = "pseudonymize" /\ outcome \in {"refused", "failed"}
    /\ ghost.ready /\ ghost.steady /\ ~ghost.racy_plan =>
        \/ out.kind = "empty" \/ Receipt # Absent \/ vault.leftover
        \/ TemporalIsEmpty(tree.tables, plan.resolved)

\* Calling pseudonymize again on its own completed dataset returns, although
\* preflight finds the destination taken: as long as the source, the output
\* and the vault are what they were, the disk could still hold a fresh run, and no
\* call has left remains behind: this is how a call that failed behind its receipt
\* is made good.
\* A dataset made while somebody changed the source and changed it back is
\* another matter: its capacity or its schemas were never those of the plan's
\* source, and preflight may refuse the retry.
CompletedRetryReturns ==
    pc = "idle" /\ call = "pseudonymize" /\ outcome \in {"refused", "failed"}
    /\ ~ghost.fresh /\ ghost.steady /\ Receipt # Absent =>
        \/ ghost.published.hasty
        \/ vault.leftover
        \/ out # Receipt.output
        \/ compute_source_fingerprint(tree, TRUE) # plan.fingerprint
        \/ storage_errors(tree, enumerate_in_scope_paths(tree, TRUE), disk,
                          plan.policy.recovery_enabled) # {}

\* The capacity scans stream the source with bounded memory and stop early,
\* and still decide exactly whether an allocation exists: OK when and only
\* when every original can get a pseudonym, UNPROVEN only past the bound.
\* Without a common safe alphabet the text scan does not look.
CapacityIsExact ==
    local.capacity # Absent =>
        LET c == local.capacity
            groups == Range(plan.numeric)
            texts == TextOriginals(c.files, plan.resolved)
        IN  /\ c.text = "OK" => TextIsAllocatable(c.files, plan.resolved)
            /\ c.text = "INSUFFICIENT" =>
                  \/ ~TextIsAllocatable(c.files, plan.resolved)
                  \/ \E t \in DOMAIN c.files : c.files[t].encoding \notin SafeEncodings
            /\ c.text = "UNPROVEN" => Cardinality(DOMAIN texts) > MaxExactValues
            /\ c.keys.outcome = "OK" =>
                  (c.keys.unwritable <=> \E g \in groups : ~KeysAreAllocatable(c.files, g))
            /\ c.keys.outcome = "INSUFFICIENT" => \E g \in groups : ~KeysAreAllocatable(c.files, g)
            /\ c.keys.outcome = "UNPROVEN" =>
                  \E g \in groups : Cardinality(KeyOriginals(c.files, g)) > MaxNumericValues

\* Preflight is right: its capacity scans decide exactly, and what it calls
\* ready the engine can run (preflight.py 747-1150, 1402-1460).
PreflightIsRight == CapacityIsExact /\ ReadyMeansRuns

\* A call tells the truth about its end: the terminal event is emitted once,
\* and only by a call that did its work.  A call that began without a completed
\* dataset and was refused or cancelled left none behind, and one that failed left
\* one only if the failure came while it gave back what it held behind the durable
\* receipt (run.py 1531-1576), which the caller cannot tell from any other failure.
\* No poll of cancel_check and no check of the result comes after that
\* (api.py 227-269).
TruthfulEnd ==
    /\ completed <= 1
    /\ pc = "idle" /\ calls > 0 => (completed = 1 <=> outcome \in {"returned", "callback_failed"})
    /\ pc = "idle" /\ call = "pseudonymize" /\ outcome \in {"refused", "failed", "cancelled"}
       /\ ghost.fresh /\ Receipt # Absent => outcome = "failed" /\ ghost.late
=============================================================================
