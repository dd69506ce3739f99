---------------------------- MODULE SessionProofs ----------------------------
(***************************************************************************)
(* Proofs about a session with the public API, for every source, every     *)
(* change of it, every answer of an index backend and any number of calls: *)
(* a call tells the truth about its end, the index evidence of a completed *)
(* dataset is true, what is published is the source that was read, and a   *)
(* completed call can be repeated.                                         *)
(*                                                                         *)
(* The inductive invariant follows a call from step to step.  EndInv knows *)
(* that the terminal event is still to come and that a fresh vault has no  *)
(* receipt; EvidenceInv what the evidence collected so far may say;        *)
(* IndexInv what the staging holds, compared with it; PlanInv and SourceInv*)
(* which readings of the source agree when nobody changed it meanwhile.    *)
(* For a retry, CheckInv and EngineInv follow what the first call found out *)
(* about its plan, ReceiptInv keeps it with the receipt, and RetryInv says  *)
(* that the same checks then give the same answers.                        *)
(***************************************************************************)
EXTENDS Session, TLAPS

BuildingPlan == {"enumerate", "discover", "fingerprint", "schemas"}
Checking == {"verify_files", "verify_source", "destination", "checks", "capacity",
             "storage", "verdict"}
\* The engine before it has staged anything, and afterwards.
Early == {"revalidate", "directives", "vault", "existing", "pass_one", "pass_two"}
Cdx == {"cdx", "verify_cdx"}
Idx == {"idx", "rebuild_idx", "verify_idx"}
Staged == {"data_only", "publish"} \cup Cdx \cup Idx
Engine == Early \cup Staged \cup {"release", "complete"}

Success == {"returned", "callback_failed"}
Clean == ~ghost.racy_plan /\ ~ghost.racy_run

Shape ==
  /\ pc \in {"idle"} \cup BuildingPlan \cup Checking \cup Engine
  /\ DOMAIN local = {"idx", "discovered", "fingerprint", "tables", "facts", "classes",
                     "files", "verified", "errors", "capacity",
                     "directives", "scanned", "staged", "task", "evidence"}
  /\ DOMAIN ghost = {"racy_plan", "racy_check", "racy_run", "steady", "walked", "seen", "ready",
                     "fresh", "late", "published"}
  /\ DOMAIN vault = {"kind", "identity", "receipt", "leftover"}
  /\ pc \in Staged => DOMAIN local.staged = {"tables", "cdx", "idx"}
  /\ ghost.racy_plan \in BOOLEAN /\ ghost.racy_check \in BOOLEAN /\ ghost.racy_run \in BOOLEAN

EndInv ==
  /\ calls \in Nat
  /\ pc # "idle" => completed = 0
  /\ pc = "idle" => completed \in {0, 1}
  /\ pc = "idle" /\ calls > 0 => (completed = 1 <=> outcome \in Success)
  /\ pc \in Engine => call = "pseudonymize"
  /\ ghost.late => pc = "idle" /\ outcome = "failed"
  /\ call = "pseudonymize" /\ ghost.fresh /\ pc \notin {"release", "complete"}
     /\ ~(pc = "idle" /\ (outcome \in Success \/ ghost.late))
       => Receipt = Absent

\* The evidence e accounts for every inventoried index of p.
Accounts(e, p) == DOMAIN e = p.idx /\ \A i \in p.idx : EvidenceIsValid(e[i])

EvidenceInv ==
  /\ pc \in BuildingPlan => plan = Absent
  /\ pc \in Checking \cup Engine => plan # Absent
  /\ Receipt # Absent => plan # Absent /\ Accounts(Receipt.evidence, plan)
  /\ pc \in Checking \cup Early \cup Cdx \cup {"data_only"} => local.evidence = Nothing
  /\ pc \in Idx => /\ DOMAIN local.evidence \subseteq plan.idx
                   /\ \A i \in DOMAIN local.evidence : EvidenceIsValid(local.evidence[i])
  /\ pc \in {"publish", "release", "complete"} => Accounts(local.evidence, plan)
  /\ pc \in Staged => /\ DOMAIN local.staged.idx \subseteq plan.idx
                      /\ \A i \in DOMAIN local.staged.idx : local.staged.idx[i] # Absent
  /\ pc \in {"rebuild_idx", "verify_idx"} =>
       /\ local.task.idx \in plan.idx \ DOMAIN local.evidence
       /\ local.task.table # Absent
  /\ pc = "verify_idx" => local.task.idx \in DOMAIN local.staged.idx

\* A verified index is in the staging with the content the evidence names.
IndexInv ==
  /\ pc \in Idx \cup {"publish"} =>
       \A i \in VerifiedIdx(local.evidence) :
          i \in DOMAIN local.staged.idx /\ local.evidence[i].output = local.staged.idx[i]
  /\ pc = "publish" => DOMAIN local.staged.idx = VerifiedIdx(local.evidence)
  /\ pc = "data_only" => local.staged.idx = Nothing /\ plan.profile = "DATA_ONLY"

\* Structural indexes: what the directives say of the staged tables.
CdxInv ==
  /\ pc \in {"vault", "existing", "pass_one", "pass_two"} \cup Cdx =>
       DOMAIN local.directives = DOMAIN plan.tables
  /\ pc \in {"vault", "existing", "pass_one", "pass_two"} \cup Cdx /\ Clean =>
       \A t \in DOMAIN plan.tables :
          /\ local.directives[t].count = Len(ghost.seen.tables[t].records)
          /\ local.directives[t].cdx <=> ghost.seen.tables[t].cdx # "none"
  /\ pc \in Staged /\ Clean =>
       /\ local.staged.tables = Restrict(ghost.seen.tables, DOMAIN plan.tables)
       /\ \A t \in DOMAIN local.staged.cdx :
             t \in DOMAIN plan.tables /\ local.staged.cdx[t] = Len(ghost.seen.tables[t].records)
  /\ pc = "verify_cdx" => local.task.table \in DOMAIN plan.tables
  /\ pc \in Idx \cup {"publish"} /\ Clean /\ plan.profile # "DATA_ONLY" =>
       \A t \in DOMAIN plan.tables :
          ghost.seen.tables[t].cdx # "none" => t \in DOMAIN local.staged.cdx

\* While nobody changes the source, the readings of build_plan agree.
PlanInv ==
  /\ pc \in {"discover", "fingerprint", "schemas"} /\ ~ghost.racy_plan =>
       local.idx = IF tree.root THEN DOMAIN tree.idx ELSE {}
  /\ pc \in {"fingerprint", "schemas"} => DOMAIN local.discovered # {}
  /\ pc \in {"fingerprint", "schemas"} /\ ~ghost.racy_plan =>
       DOMAIN local.discovered = VisibleTables(tree)
  /\ pc = "schemas" /\ ~ghost.racy_plan =>
       local.fingerprint = compute_source_fingerprint(tree, FALSE)
  /\ plan # Absent /\ ~ghost.racy_plan =>
       /\ DOMAIN plan.tables # {}
       /\ DOMAIN plan.fingerprint.tables = DOMAIN plan.tables
       /\ DOMAIN plan.fingerprint.idx = plan.idx

\* The source of preflight's strict walk, of the engine's quiet one, and now.
SourceInv ==
  /\ pc = "verify_source" /\ local.files = Absent => "SOURCE_UNAVAILABLE" \in local.errors
  /\ pc \in Checking \ {"verify_files", "verify_source"}
     /\ "SOURCE_UNAVAILABLE" \notin local.errors => ~HasHiddenDirectory(ghost.walked)
  /\ pc \in Early \cup Staged => ~HasHiddenDirectory(ghost.walked)
  /\ pc \in (Early \ {"revalidate"}) \cup Staged /\ Clean =>
       /\ VisibleTables(ghost.seen) = DOMAIN plan.tables
       /\ DOMAIN ghost.seen.idx = plan.idx
       /\ ghost.seen.root
  /\ Reading /\ Clean => tree = ghost.seen

Inv ==
  /\ Shape /\ EndInv /\ EvidenceInv /\ IndexInv /\ CdxInv /\ PlanInv /\ SourceInv
  /\ PublishedCoversTheSource /\ IndexEvidenceIsTrue


-----------------------------------------------------------------------------
(* What the steps of the index stage do.                                   *)

\* Only these fields of local change.
Only(F) ==
  /\ DOMAIN local' = DOMAIN local
  /\ \A f \in DOMAIN local \ F : local'[f] = local[f]

\* The vault is what it was, but for the remains in it.
KeepsVault ==
  /\ DOMAIN vault' = DOMAIN vault
  /\ vault'.kind = vault.kind /\ vault'.identity = vault.identity /\ vault'.receipt = vault.receipt

\* A call that raises before its receipt is durable.
Stops ==
  /\ pc \notin {"idle", "release", "complete"} /\ pc' = "idle"
  /\ outcome' \in {"failed", "refused", "cancelled"} /\ local' = NoLocals
  /\ UNCHANGED <<completed, plan, tree, setup, call, calls, edits>>
  /\ KeepsVault
  /\ ghost' \in {ghost, [ghost EXCEPT !.steady = FALSE]}

\* Every failure stops the call.
LEMMA FailureStops == pc \notin {"idle", "release", "complete"} /\ (Fails \/ Misbehaves) => Stops
BY DEF Fails, Misbehaves, Raise, Keep, world, Stops, KeepsVault

\* The vault is created without a receipt, or opened as it is.
LEMMA OpenVaultEffect ==
  ASSUME Shape, OpenVault, ~Stops
  PROVE  /\ pc = "vault" /\ pc' = "existing"
         /\ UNCHANGED <<outcome, completed, plan, tree, out, disk, setup, call, calls, edits, local, ghost>>
         /\ DOMAIN vault' = DOMAIN vault /\ vault'.receipt \in {vault.receipt, Absent}
<1>1. pc = "vault" /\ ~Fails
  BY FailureStops DEF OpenVault
<1>2. /\ Goto("existing") /\ UNCHANGED <<tree, out, disk, local, ghost>>
      /\ vault' = IF vault.kind = "file" THEN vault
                  ELSE [NoVault EXCEPT !.kind = "file", !.identity = plan.fingerprint]
  BY <1>1 DEF OpenVault
<1>3. DOMAIN vault' = DOMAIN vault /\ vault'.receipt \in {vault.receipt, Absent}
  BY <1>2 DEF NoVault, Shape
<1> QED BY <1>1, <1>2, <1>3 DEF Goto, Keep

\* Nobody who replaces the vault brings a receipt.
LEMMA EditVaultEffect ==
  ASSUME Shape, EditVault
  PROVE  /\ UNCHANGED <<tree, out, disk, setup, plan, pc, call, local, outcome, completed, calls>>
         /\ DOMAIN vault' = DOMAIN vault /\ vault'.receipt = Absent
         /\ ghost' = [ghost EXCEPT !.steady = FALSE]
BY DEF EditVault, Edit, NoVault, Shape

\* Remains are all a failure may leave.
LEMMA RemainsOnly == ASSUME Shape, NEW left, MayLeave(left) PROVE KeepsVault
BY DEF Shape, MayLeave, KeepsVault

\* So does a cancellation, an error at any step, and a promotion without a receipt.
LEMMA EndingStops == ASSUME Shape, Cancel \/ BreakDown \/ PublishHalfway PROVE Stops
<1>1. CASE Cancel
  BY <1>1 DEF Cancel, Raise, world, Stops, KeepsVault
<1>2. CASE BreakDown
  <2>1. KeepsVault
    BY <1>2, RemainsOnly DEF BreakDown
  <2> QED BY <1>2, <2>1 DEF BreakDown, Raise, Keep, Stops
<1>3. CASE PublishHalfway
  <2>1. KeepsVault
    BY <1>3, RemainsOnly DEF PublishHalfway
  <2> QED BY <1>3, <2>1 DEF PublishHalfway, Raise, Keep, Promotes, Stops
<1> QED BY <1>1, <1>2, <1>3

\* A failure behind the receipt keeps it.
LEMMA ReleaseFailsEffect ==
  ASSUME Shape, ReleaseFails
  PROVE  /\ pc = "release" /\ pc' = "idle" /\ outcome' = "failed" /\ local' = NoLocals
         /\ UNCHANGED <<completed, plan, tree, out, disk, setup, call, calls, edits>>
         /\ KeepsVault
         /\ ghost' = [ghost EXCEPT !.steady = FALSE, !.late = TRUE]
<1>1. KeepsVault
  BY RemainsOnly DEF ReleaseFails
<1> QED BY <1>1 DEF ReleaseFails, Raise, Keep

Moves(next) ==
  /\ pc' = next
  /\ UNCHANGED <<outcome, completed, plan, tree, out, vault, disk, setup, call, calls, edits, ghost>>

\* The staging differs in its standalone indexes, in its structural ones.
StagesIdx(files) ==
  /\ DOMAIN local'.staged = {"tables", "cdx", "idx"}
  /\ local'.staged.tables = local.staged.tables
  /\ local'.staged.cdx = local.staged.cdx
  /\ local'.staged.idx = files

StagesCdx(counts) ==
  /\ DOMAIN local'.staged = {"tables", "cdx", "idx"}
  /\ local'.staged.tables = local.staged.tables
  /\ local'.staged.cdx = counts
  /\ local'.staged.idx = local.staged.idx

\* A backend wrote i, perhaps, and another index that was not there.
Grown(files, i) ==
  /\ DOMAIN local.staged.idx \subseteq DOMAIN files
  /\ \A j \in DOMAIN local.staged.idx \ {i} : files[j] = local.staged.idx[j]
  /\ \A j \in DOMAIN files :
       \/ j \in DOMAIN local.staged.idx /\ files[j] = local.staged.idx[j]
       \/ j \in plan.idx \cup {i} /\ files[j] \in {"rebuilt", "copy"}

\* A stray index adds to the staging and replaces nothing.
LEMMA StrayGrows ==
  ASSUME NEW stray \in Strays, NEW i
  PROVE  Grown(Littered(local.staged.idx, stray), i)
BY DEF Grown, Littered, Strays

\* The backend's own file comes first, then what was staged, then the stray.
LEMMA RebuildGrows ==
  ASSUME NEW stray \in Strays, NEW i
  PROVE  Grown(With(Littered(local.staged.idx, stray), i, "rebuilt"), i)
<1> DEFINE around == Littered(local.staged.idx, stray)
<1>1. Grown(around, i)
  BY StrayGrows
<1> HIDE DEF around
<1>2. Grown(With(around, i, "rebuilt"), i)
  BY <1>1 DEF Grown, With
<1> QED BY <1>2 DEF around

\* A rebuilt structural index is only a task to verify; the backend may leave a stray.
LEMMA RebuildCdxEffect ==
  ASSUME Shape, RebuildCdx
  PROVE  \/ Stops
         \/ \E t \in PendingCdx, stray \in Strays :
              /\ Moves("verify_cdx") /\ Only({"task", "staged"})
              /\ local'.task.table = t
              /\ StagesIdx(Littered(local.staged.idx, stray))
<1>1. pc = "cdx" /\ pc \in Staged
  BY DEF RebuildCdx, Staged, Cdx
<1>2. PICK t \in PendingCdx :
        IF t \notin VisibleTables(tree) \/ ~BackendServes("cdx", setup.capability)
        THEN Fails
        ELSE \E r \in Rebuilds, present \in BOOLEAN, stray \in Strays :
               IF ~CdxIsRebuilt(r, present) THEN Misbehaves
               ELSE /\ Goto("verify_cdx")
                    /\ local' = [local EXCEPT !.task = [table |-> t, tags |-> r.tags],
                                              !.staged.idx = Littered(@, stray)]
                    /\ UNCHANGED <<world, ghost>>
  BY DEF RebuildCdx
<1>3. CASE Fails \/ Misbehaves
  BY <1>1, <1>3, FailureStops
<1>4. ASSUME NEW r \in Rebuilds, NEW stray \in Strays,
             Goto("verify_cdx"), UNCHANGED <<world, ghost>>,
             local' = [local EXCEPT !.task = [table |-> t, tags |-> r.tags],
                                    !.staged.idx = Littered(@, stray)]
      PROVE  /\ Moves("verify_cdx") /\ Only({"task", "staged"})
             /\ local'.task.table = t
             /\ StagesIdx(Littered(local.staged.idx, stray))
  <2> DEFINE idx == Littered(local.staged.idx, stray)
  <2>1. Moves("verify_cdx")
    BY <1>4 DEF Moves, Goto, Keep, world
  <2>2. local' = [local EXCEPT !.task = [table |-> t, tags |-> r.tags],
                               !.staged = [local.staged EXCEPT !.idx = idx]]
    BY <1>4, <1>1 DEF Shape
  <2> HIDE DEF idx
  <2>3. QED BY <2>1, <2>2, <1>1 DEF Only, Shape, StagesIdx, idx
<1> QED BY <1>2, <1>3, <1>4

\* An accepted verification covers the records the directives counted.
LEMMA VerifyCdxEffect ==
  ASSUME Shape, VerifyCdx
  PROVE  \/ Stops
         \/ /\ Moves("cdx") /\ Only({"task", "staged"})
            /\ StagesCdx(With(local.staged.cdx, local.task.table,
                              local.directives[local.task.table].count))
<1>1. pc = "verify_cdx" /\ pc \in Staged
  BY DEF VerifyCdx, Staged, Cdx
<1> DEFINE t == local.task.table
           n == local.directives[t].count
<1>2. PICK v \in Verifications :
         IF ~VerificationIsAccepted("cdx", Answer(v, t), local.task.tags, n)
         THEN Misbehaves
         ELSE /\ Goto("cdx")
              /\ local' = [local EXCEPT !.task = Absent,
                             !.staged.cdx = With(@, t, Answer(v, t).count)]
              /\ UNCHANGED <<world, ghost>>
  BY DEF VerifyCdx
<1>3. CASE Misbehaves
  BY <1>1, <1>3, FailureStops
<1>4. CASE /\ VerificationIsAccepted("cdx", Answer(v, t), local.task.tags, n)
           /\ Goto("cdx") /\ UNCHANGED <<world, ghost>>
           /\ local' = [local EXCEPT !.task = Absent,
                          !.staged.cdx = With(@, t, Answer(v, t).count)]
  <2>1. Answer(v, t).count = n
    BY <1>4 DEF VerificationIsAccepted
  <2>2. Moves("cdx")
    BY <1>4 DEF Moves, Goto, Keep, world
  <2> DEFINE cdx == With(local.staged.cdx, t, n)
  <2>3. local' = [local EXCEPT !.task = Absent, !.staged = [local.staged EXCEPT !.cdx = cdx]]
    BY <1>4, <1>1, <2>1 DEF Shape
  <2> HIDE DEF cdx, n, t
  <2>4. Only({"task", "staged"}) /\ StagesCdx(cdx)
    BY <2>3, <1>1 DEF Only, Shape, StagesCdx
  <2> QED BY <2>2, <2>4 DEF cdx, t, n
<1> QED BY <1>2, <1>3, <1>4

\* An index nobody claims is omitted, any other becomes a task.
LEMMA AssociateIdxEffect ==
  ASSUME Shape, AssociateIdx
  PROVE  \/ Stops
         \/ \E i \in PendingIdx :
              /\ Moves("idx") /\ Only({"task", "evidence"})
              /\ local'.evidence = With(local.evidence, i,
                    Evidence("OMITTED_UNVERIFIED", tree.idx[i], Absent, Absent))
         \/ \E i \in PendingIdx :
              /\ Moves("rebuild_idx") /\ Only({"task"})
              /\ local'.task.idx = i /\ local'.task.table # Absent
<1>1. PICK i \in PendingIdx :
         IF i \notin DOMAIN tree.idx \/ ~BackendServes("idx", setup.capability)
         THEN Fails
         ELSE \E a \in Associations :
                IF \/ ~run_backend_standalone_idx_association(a, DOMAIN plan.tables) \/ ~Signed(a)
                   \/ a.status = "ASSOCIATED"
                      /\ (a.table \notin VisibleTables(tree) \/ i \in DOMAIN local.staged.idx)
                THEN Misbehaves
                ELSE IF a.status = "UNAVAILABLE"
                THEN /\ Goto("idx")
                     /\ local' = AddEvidence(i, Evidence("OMITTED_UNVERIFIED", tree.idx[i], Absent, Absent))
                     /\ UNCHANGED <<world, ghost>>
                ELSE /\ Goto("rebuild_idx")
                     /\ local' = [local EXCEPT !.task = [idx |-> i, table |-> a.table, source |-> tree.idx[i]]]
                     /\ UNCHANGED <<world, ghost>>
  BY DEF AssociateIdx
<1>2. CASE Fails \/ Misbehaves
  BY <1>2, FailureStops DEF VerifyIdx, AssociateIdx
<1>3. CASE /\ Goto("idx") /\ UNCHANGED <<world, ghost>>
           /\ local' = AddEvidence(i, Evidence("OMITTED_UNVERIFIED", tree.idx[i], Absent, Absent))
  <2> DEFINE e == With(local.evidence, i, Evidence("OMITTED_UNVERIFIED", tree.idx[i], Absent, Absent))
  <2>1. local' = [local EXCEPT !.task = Absent, !.evidence = e]
    BY <1>3 DEF AddEvidence
  <2> HIDE DEF e
  <2>2. Only({"task", "evidence"}) /\ local'.evidence = e
    BY <2>1 DEF Only, Shape
  <2>3. Moves("idx")
    BY <1>3 DEF Moves, Goto, Keep, world
  <2> QED BY <2>2, <2>3 DEF e
<1>4. ASSUME NEW a \in Associations,
             run_backend_standalone_idx_association(a, DOMAIN plan.tables),
             a.status # "UNAVAILABLE",
             Goto("rebuild_idx"), UNCHANGED <<world, ghost>>,
             local' = [local EXCEPT !.task = [idx |-> i, table |-> a.table, source |-> tree.idx[i]]]
      PROVE  /\ Moves("rebuild_idx") /\ Only({"task"})
             /\ local'.task.idx = i /\ local'.task.table # Absent
  <2>1. a.table # Absent
    BY <1>4 DEF run_backend_standalone_idx_association
  <2>2. Moves("rebuild_idx")
    BY <1>4 DEF Moves, Goto, Keep, world
  <2> QED BY <1>4, <2>1, <2>2 DEF Only, Shape
<1> QED BY <1>1, <1>2, <1>3, <1>4

\* A refused index is omitted, a rebuilt one is in the staging.
LEMMA RebuildIdxEffect ==
  ASSUME Shape, RebuildIdx
  PROVE  \/ Stops
         \/ \E files, source, table :
              /\ Moves("idx") /\ Only({"task", "staged", "evidence"})
              /\ local'.evidence = With(local.evidence, local.task.idx,
                    Evidence("OMITTED_UNVERIFIED", source, table, Absent))
              /\ StagesIdx(files) /\ Grown(files, local.task.idx)
         \/ \E files :
              /\ Moves("verify_idx") /\ Only({"staged"})
              /\ StagesIdx(files) /\ Grown(files, local.task.idx)
              /\ local.task.idx \in DOMAIN files
<1>1. pc = "rebuild_idx" /\ pc \in Staged
  BY DEF RebuildIdx, Staged, Idx
<1> DEFINE i == local.task.idx
           Around(stray) == Littered(local.staged.idx, stray)
           Files(present, stray) ==
              IF present THEN With(Around(stray), i, "rebuilt") ELSE Around(stray)
           e == With(local.evidence, i, Evidence("OMITTED_UNVERIFIED", local.task.source,
                                                 local.task.table, Absent))
<1>2. PICK r \in Rebuilds, present \in BOOLEAN, stray \in Strays :
         IF ~SourceIsUnchanged \/ ~(IdxIsRefused(r, i \in DOMAIN Files(present, stray))
                                    \/ IdxIsRebuilt(r, i \in DOMAIN Files(present, stray)))
         THEN Misbehaves
         ELSE /\ UNCHANGED <<world, ghost>>
              /\ IF r.status = "REFUSED"
                 THEN /\ Goto("idx")
                      /\ local' = [AddEvidence(i, Evidence("OMITTED_UNVERIFIED", local.task.source,
                                                           local.task.table, Absent))
                                     EXCEPT !.staged.idx = Files(present, stray)]
                 ELSE /\ Goto("verify_idx")
                      /\ local' = [local EXCEPT !.staged.idx = Files(present, stray)]
  BY DEF RebuildIdx
<1> DEFINE files == Files(present, stray)
<1>3. Grown(files, i)
  BY RebuildGrows, StrayGrows
<1>4. CASE Misbehaves
  BY <1>1, <1>4, FailureStops
<1>5. CASE /\ Goto("idx") /\ UNCHANGED <<world, ghost>>
           /\ local' = [AddEvidence(i, Evidence("OMITTED_UNVERIFIED", local.task.source,
                                                local.task.table, Absent))
                          EXCEPT !.staged.idx = files]
  <2>1. local' = [[local EXCEPT !.task = Absent, !.evidence = e] EXCEPT !.staged.idx = files]
    BY <1>5 DEF AddEvidence
  <2> HIDE DEF files, e
  <2>2. local' = [local EXCEPT !.task = Absent, !.evidence = e,
                               !.staged = [local.staged EXCEPT !.idx = files]]
    BY <2>1, <1>1 DEF Shape
  <2>3. Only({"task", "staged", "evidence"}) /\ StagesIdx(files) /\ local'.evidence = e
    BY <2>2, <1>1 DEF Only, Shape, StagesIdx
  <2>4. Moves("idx")
    BY <1>5 DEF Moves, Goto, Keep, world
  <2> QED BY <2>3, <2>4, <1>3 DEF e
<1>6. CASE /\ Goto("verify_idx") /\ UNCHANGED <<world, ghost>>
           /\ local' = [local EXCEPT !.staged.idx = files]
           /\ i \in DOMAIN files
  <2> HIDE DEF files
  <2>1. local' = [local EXCEPT !.staged = [local.staged EXCEPT !.idx = files]]
    BY <1>6, <1>1 DEF Shape
  <2>2. Only({"staged"}) /\ StagesIdx(files)
    BY <2>1, <1>1 DEF Only, Shape, StagesIdx
  <2>3. Moves("verify_idx")
    BY <1>6 DEF Moves, Goto, Keep, world
  <2> QED BY <2>2, <2>3, <1>3, <1>6
<1>7. CASE ~Misbehaves /\ r.status # "REFUSED"
  <2>1. IdxIsRebuilt(r, i \in DOMAIN files)
    BY <1>2, <1>7 DEF IdxIsRefused
  <2>2. i \in DOMAIN files
    BY <2>1 DEF IdxIsRebuilt
  <2> HIDE DEF i
  <2> QED BY <1>2, <1>6, <1>7, <2>2
<1> HIDE DEF i, e, Files
<1> QED BY <1>2, <1>4, <1>5, <1>7

\* A verified index enters the evidence with its content.
LEMMA VerifyIdxEffect ==
  ASSUME Shape, VerifyIdx
  PROVE  \/ Stops
         \/ /\ Moves("idx") /\ Only({"task", "evidence"})
            /\ local'.evidence = With(local.evidence, local.task.idx,
                 Evidence("REBUILT_VERIFIED", local.task.source, local.task.table,
                          local.staged.idx[local.task.idx]))
<1> DEFINE i == local.task.idx
           new == Evidence("REBUILT_VERIFIED", local.task.source, local.task.table, local.staged.idx[i])
           e == With(local.evidence, i, new)
<1>1. \/ Misbehaves
      \/ Goto("idx") /\ local' = AddEvidence(i, new) /\ UNCHANGED <<world, ghost>>
  BY DEF VerifyIdx
<1>2. CASE Misbehaves
  BY <1>2, FailureStops DEF VerifyIdx, AssociateIdx
<1>3. CASE Goto("idx") /\ local' = AddEvidence(i, new) /\ UNCHANGED <<world, ghost>>
  <2>1. local' = [local EXCEPT !.task = Absent, !.evidence = e]
    BY <1>3 DEF AddEvidence
  <2> HIDE DEF e, new, i
  <2>2. Only({"task", "evidence"}) /\ local'.evidence = e
    BY <2>1 DEF Only, Shape
  <2>3. Moves("idx")
    BY <1>3 DEF Moves, Goto, Keep, world
  <2> QED BY <2>2, <2>3 DEF e, new, i
<1> QED BY <1>1, <1>2, <1>3

-----------------------------------------------------------------------------
(* Evidence.                                                               *)

\* Nothing collected yet.
LEMMA NothingIsEmpty == DOMAIN Nothing = {}
BY DEF Nothing

\* The evidence of an omitted index.
LEMMA OmittedIsValid ==
  ASSUME NEW source, NEW table
  PROVE  /\ EvidenceIsValid(Evidence("OMITTED_UNVERIFIED", source, table, Absent))
         /\ EvidenceIsValid(Evidence("OMITTED_DATA_ONLY", source, Absent, Absent))
BY DEF EvidenceIsValid, Evidence

\* The evidence of a rebuilt one.
LEMMA RebuiltIsValid ==
  ASSUME NEW source, NEW table, NEW output, table # Absent, output # Absent
  PROVE  EvidenceIsValid(Evidence("REBUILT_VERIFIED", source, table, output))
BY DEF EvidenceIsValid, Evidence

\* One more statement keeps the collection valid; it adds a verified index
\* when and only when it says so.
LEMMA WithIsValid ==
  ASSUME NEW f, NEW i, NEW e, EvidenceIsValid(e), \A j \in DOMAIN f : EvidenceIsValid(f[j])
  PROVE  /\ DOMAIN With(f, i, e) = DOMAIN f \cup {i}
         /\ \A j \in DOMAIN With(f, i, e) : EvidenceIsValid(With(f, i, e)[j])
BY DEF With

-----------------------------------------------------------------------------
(* The walks.                                                              *)

Listed(src) == IF src.root THEN DOMAIN src.idx ELSE {}

\* A walk that skips what it cannot list never fails.
LEMMA QuietWalk ==
  ASSUME NEW src
  PROVE  /\ enumerate_in_scope_paths(src, FALSE).tables = VisibleTables(src)
         /\ enumerate_in_scope_paths(src, FALSE).idx = Listed(src)
         /\ compute_source_fingerprint(src, FALSE) =
              [tables |-> Restrict(src.tables, VisibleTables(src)), idx |-> Restrict(src.idx, Listed(src))]
<1>1. ~WalkFails(src, FALSE)
  BY DEF WalkFails
<1> DEFINE paths == enumerate_in_scope_paths(src, FALSE)
<1>2. paths = [tables |-> VisibleTables(src), idx |-> Listed(src)]
  BY <1>1 DEF enumerate_in_scope_paths, Listed
<1>3. compute_source_fingerprint(src, FALSE) =
        [tables |-> Restrict(src.tables, paths.tables), idx |-> Restrict(src.idx, paths.idx)]
  BY <1>1 DEF compute_source_fingerprint
<1> HIDE DEF paths
<1>4. paths.tables = VisibleTables(src) /\ paths.idx = Listed(src)
  BY <1>2
<1>5. compute_source_fingerprint(src, FALSE) =
        [tables |-> Restrict(src.tables, VisibleTables(src)), idx |-> Restrict(src.idx, Listed(src))]
  BY <1>3, <1>4
<1> QED BY <1>4, <1>5 DEF paths

\* A fingerprint names what the walk found.
LEMMA FingerprintNames ==
  ASSUME NEW src
  PROVE  /\ compute_source_fingerprint(src, FALSE).tables = Restrict(src.tables, VisibleTables(src))
         /\ DOMAIN compute_source_fingerprint(src, FALSE).tables = VisibleTables(src)
         /\ DOMAIN compute_source_fingerprint(src, FALSE).idx = Listed(src)
<1> DEFINE print == compute_source_fingerprint(src, FALSE)
<1>1. print = [tables |-> Restrict(src.tables, VisibleTables(src)), idx |-> Restrict(src.idx, Listed(src))]
  BY QuietWalk
<1> HIDE DEF print
<1>2. print.tables = Restrict(src.tables, VisibleTables(src)) /\ print.idx = Restrict(src.idx, Listed(src))
  BY <1>1
<1>3. DOMAIN print.tables = VisibleTables(src) /\ DOMAIN print.idx = Listed(src)
  BY <1>2 DEF Restrict
<1> QED BY <1>2, <1>3 DEF print

\* A call that stops leaves nothing behind but what was published before.
LEMMA StopStep ==
  ASSUME Inv, Stops
  PROVE  Inv'
<1>1. Shape'
  BY DEF Inv, Shape, Stops, KeepsVault, NoLocals, BuildingPlan, Checking, Early, Cdx, Idx, Staged, Engine
<1>2. EndInv'
  BY DEF Inv, Shape, EndInv, Stops, KeepsVault, Receipt, Success, BuildingPlan, Checking, Early, Cdx, Idx, Staged, Engine
<1>3. EvidenceInv'
  BY DEF Inv, EvidenceInv, Stops, KeepsVault, Receipt, BuildingPlan, Checking, Early, Cdx, Idx, Staged, Engine
<1>4. IndexInv' /\ CdxInv'
  BY DEF IndexInv, CdxInv, Stops, Cdx, Idx, Staged
<1>5. PlanInv' /\ SourceInv'
  BY DEF Inv, Shape, PlanInv, SourceInv, Stops, Reading, Checking, Early, Staged, Cdx, Idx
<1>6. PublishedCoversTheSource' /\ IndexEvidenceIsTrue'
  BY DEF Inv, Shape, PublishedCoversTheSource, IndexEvidenceIsTrue, Stops, KeepsVault, Receipt, Dataset
<1> QED BY <1>1, <1>2, <1>3, <1>4, <1>5, <1>6 DEF Inv

\* Every step keeps the shape of the state.
LEMMA ShapeStep ==
  ASSUME Inv, Next, ~Stops
  PROVE  Shape'
<1>1. CASE CallBuildPlan \/ Enumerate \/ Discover \/ Fingerprint
  BY <1>1, FailureStops DEF
     Inv, Shape, BuildingPlan, Checking, Early, Cdx, Idx, Staged, Engine, CallBuildPlan,
     world, NoLocals, Enumerate, Goto, Keep, Discover, Fingerprint
<1>2. CASE EvaluateTable \/ Assemble
  BY <1>2, FailureStops DEF
     Inv, Shape, BuildingPlan, Checking, Early, Cdx, Idx, Staged, Engine, EvaluateTable,
     Goto, Keep, world, Assemble, complete, NoLocals
<1>3. CASE CallPreflight \/ CallPseudonymize
  BY <1>3, FailureStops DEF
     Inv, Shape, BuildingPlan, Checking, Early, Cdx, Idx, Staged, Engine, CallPreflight,
     CallWithPlan, world, NoLocals, CallPseudonymize
<1>4. CASE VerifyFiles
  BY <1>4, FailureStops DEF
     Inv, Shape, BuildingPlan, Checking, Early, Cdx, Idx, Staged, Engine, VerifyFiles,
     Goto, Keep, world
<1>5. CASE VerifySource \/ CheckDestination \/ CheckPlan \/ ScanCapacity
  BY <1>5, FailureStops DEF
     Inv, Shape, BuildingPlan, Checking, Early, Cdx, Idx, Staged, Engine, VerifySource,
     Goto, Keep, world, CheckDestination, CheckPlan, ScanCapacity
<1>6. CASE CheckStorage
  BY <1>6, FailureStops DEF
     Inv, Shape, BuildingPlan, Checking, Early, Cdx, Idx, Staged, Engine, CheckStorage,
     Goto, Keep, world
<1>7. CASE Verdict \/ Gate
  BY <1>7, FailureStops DEF
     Inv, Shape, BuildingPlan, Checking, Early, Cdx, Idx, Staged, Engine, Verdict,
     complete, world, Keep, NoLocals, Gate, Raise, Stops
<1>8. CASE Revalidate \/ BuildEnginePlan
  BY <1>8, FailureStops DEF
     Inv, Shape, BuildingPlan, Checking, Early, Cdx, Idx, Staged, Engine, Revalidate, Goto,
     Keep, world, BuildEnginePlan
<1>9. CASE ExistingResult \/ PassOne \/ PassTwo
  BY <1>9, FailureStops DEF
     Inv, Shape, BuildingPlan, Checking, Early, Cdx, Idx, Staged, Engine, Goto,
     Keep, world, ExistingResult, PassOne, PassTwo
<1>10. CASE DataOnlyEvidence
  BY <1>10, FailureStops DEF
     Inv, Shape, BuildingPlan, Checking, Early, Cdx, Idx, Staged, Engine, DataOnlyEvidence,
     Goto, Keep, world
<1>11. CASE RebuildCdx
  BY <1>11, RebuildCdxEffect DEF
     Inv, Shape, BuildingPlan, Checking, Early, Cdx, Idx, Staged, Engine, Moves, Only,
     StagesIdx, RebuildCdx
<1>12. CASE VerifyCdx
  BY <1>12, VerifyCdxEffect DEF
     Inv, Shape, BuildingPlan, Checking, Early, Cdx, Idx, Staged, Engine, Moves, Only,
     StagesCdx, VerifyCdx
<1>13. CASE CdxDone
  BY <1>13, FailureStops DEF
     Inv, Shape, BuildingPlan, Checking, Early, Cdx, Idx, Staged, Engine, CdxDone, Goto,
     Keep, world
<1>14. CASE AssociateIdx
  BY <1>14, AssociateIdxEffect DEF
     Inv, Shape, BuildingPlan, Checking, Early, Cdx, Idx, Staged, Engine, Moves, Only,
     AssociateIdx
<1>15. CASE RebuildIdx
  BY <1>15, RebuildIdxEffect DEF
     Inv, Shape, BuildingPlan, Checking, Early, Cdx, Idx, Staged, Engine, Moves, Only,
     StagesIdx, RebuildIdx
<1>16. CASE VerifyIdx
  BY <1>16, VerifyIdxEffect DEF
     Inv, Shape, BuildingPlan, Checking, Early, Cdx, Idx, Staged, Engine, Moves, Only,
     VerifyIdx
<1>17. CASE IdxDone
  BY <1>17, FailureStops DEF
     Inv, Shape, BuildingPlan, Checking, Early, Cdx, Idx, Staged, Engine, IdxDone, Goto,
     Keep, world
<1>18. CASE Publish
  BY <1>18, FailureStops DEF
     Inv, Shape, BuildingPlan, Checking, Early, Cdx, Idx, Staged, Engine, Publish, Promotes,
     Made, Goto, Keep, world
<1>19. CASE Complete
  BY <1>19, FailureStops DEF
     Inv, Shape, BuildingPlan, Checking, Early, Cdx, Idx, Staged, Engine, Complete,
     complete, world, Keep, NoLocals
<1>20. CASE Cancel \/ BreakDown \/ PublishHalfway
  BY <1>20, EndingStops DEF Inv
<1>21. CASE EditSource \/ EditDestination
  BY <1>21, FailureStops DEF
     Inv, Shape, BuildingPlan, Checking, Early, Cdx, Idx, Staged, Engine, EditSource, Edit,
     NoVault, EditDestination
<1>22. CASE EditVault \/ EditDisk
  BY <1>22, FailureStops DEF
     Inv, Shape, BuildingPlan, Checking, Early, Cdx, Idx, Staged, Engine, EditVault, Edit,
     NoVault, EditDisk
<1>23. CASE Release
  BY <1>23 DEF
     Inv, Shape, BuildingPlan, Checking, Early, Cdx, Idx, Staged, Engine, Release, Goto,
     Keep, world
<1>24. CASE ReleaseFails
  BY <1>24, ReleaseFailsEffect DEF
     Inv, Shape, BuildingPlan, Checking, Early, Cdx, Idx, Staged, Engine, KeepsVault,
     NoLocals
<1>25. CASE OpenVault
  BY <1>25, OpenVaultEffect DEF
     Inv, Shape, BuildingPlan, Checking, Early, Cdx, Idx, Staged, Engine
<1> QED
  BY <1>1, <1>2, <1>3, <1>4, <1>5, <1>6, <1>7, <1>8, <1>9, <1>10, <1>11, <1>12, <1>13,
     <1>14, <1>15, <1>16, <1>17, <1>18, <1>19, <1>20, <1>21, <1>22, <1>23, <1>24, <1>25 DEF Next

\* One terminal event, and no receipt before the call that began without one completes.
LEMMA EndStep ==
  ASSUME Inv, Next, ~Stops
  PROVE  EndInv'
<1>1. CASE CallBuildPlan
  BY <1>1, FailureStops DEF
     Inv, EndInv, Shape, BuildingPlan, Checking, Early, Cdx, Idx, Staged, Engine, Receipt,
     Success, CallBuildPlan, world, NoLocals
<1>2. CASE Enumerate
  BY <1>2, FailureStops DEF
     Inv, EndInv, Shape, BuildingPlan, Checking, Early, Cdx, Idx, Staged, Engine, Receipt,
     Success, Enumerate, Goto, Keep, world
<1>3. CASE Discover \/ Fingerprint \/ EvaluateTable
  BY <1>3, FailureStops DEF
     Inv, EndInv, Shape, BuildingPlan, Checking, Early, Cdx, Idx, Staged, Engine, Receipt,
     Success, Discover, Goto, Keep, world, Fingerprint, EvaluateTable
<1>4. CASE Assemble
  BY <1>4, FailureStops DEF
     Inv, EndInv, Shape, BuildingPlan, Checking, Early, Cdx, Idx, Staged, Engine, Receipt,
     Success, Assemble, Goto, Keep, world, complete, NoLocals
<1>5. CASE CallPreflight
  BY <1>5, FailureStops DEF
     Inv, EndInv, Shape, BuildingPlan, Checking, Early, Cdx, Idx, Staged, Engine, Receipt,
     Success, CallPreflight, CallWithPlan, world, NoLocals
<1>6. CASE CallPseudonymize
  <2>1. ghost'.fresh <=> vault.receipt = Absent
    BY <1>6 DEF Inv, Shape, CallPseudonymize, CallWithPlan
  <2> QED BY <1>6, <2>1 DEF Inv, EndInv, CallPseudonymize, CallWithPlan, world, Success, Receipt,
       Early, Cdx, Idx, Staged, Engine
<1>7. CASE VerifyFiles
  BY <1>7, FailureStops DEF
     Inv, EndInv, Shape, BuildingPlan, Checking, Early, Cdx, Idx, Staged, Engine, Receipt,
     Success, VerifyFiles, Goto, Keep, world
<1>8. CASE VerifySource \/ CheckDestination \/ CheckPlan \/ ScanCapacity
  BY <1>8, FailureStops DEF
     Inv, EndInv, Shape, BuildingPlan, Checking, Early, Cdx, Idx, Staged, Engine, Receipt,
     Success, VerifySource, Goto, Keep, world, CheckDestination, CheckPlan, ScanCapacity
<1>9. CASE CheckStorage
  BY <1>9, FailureStops DEF
     Inv, EndInv, Shape, BuildingPlan, Checking, Early, Cdx, Idx, Staged, Engine, Receipt,
     Success, CheckStorage, Goto, Keep, world
<1>10. CASE Verdict \/ Gate
  BY <1>10, FailureStops DEF
     Inv, EndInv, Shape, BuildingPlan, Checking, Early, Cdx, Idx, Staged, Engine, Receipt,
     Success, Verdict, complete, world, Keep, NoLocals, Gate, Raise, Stops
<1>11. CASE Revalidate \/ BuildEnginePlan
  BY <1>11, FailureStops DEF
     Inv, EndInv, Shape, BuildingPlan, Checking, Early, Cdx, Idx, Staged, Engine, Receipt,
     Success, Revalidate, Goto, Keep, world, BuildEnginePlan
<1>12. CASE OpenVault \/ ExistingResult \/ PassOne \/ PassTwo
  <2>1. CASE OpenVault
    <3>1. Shape /\ EndInv
      BY DEF Inv
    <3>2. /\ pc = "vault" /\ pc' = "existing"
          /\ UNCHANGED <<outcome, completed, call, calls, ghost>>
          /\ vault'.receipt \in {vault.receipt, Absent}
      BY <2>1, <3>1, OpenVaultEffect
    <3> QED
      BY <3>1, <3>2 DEF EndInv, Early, Cdx, Idx, Staged, Engine, Receipt, Success
  <2>2. CASE ExistingResult
    BY <2>2, FailureStops DEF
       Inv, EndInv, Shape, Early, Cdx, Idx, Staged, Engine, Receipt, Success, ExistingResult,
       Goto, Keep, world
  <2>3. CASE PassOne \/ PassTwo
    BY <2>3, FailureStops DEF
       Inv, EndInv, Shape, Early, Cdx, Idx, Staged, Engine, Receipt, Success, PassOne, PassTwo,
       Goto, Keep, world
  <2> QED
    BY <1>12, <2>1, <2>2, <2>3
<1>13. CASE DataOnlyEvidence
  BY <1>13, FailureStops DEF
     Inv, EndInv, Shape, BuildingPlan, Checking, Early, Cdx, Idx, Staged, Engine, Receipt,
     Success, DataOnlyEvidence, Goto, Keep, world
<1>14. CASE RebuildCdx
  BY <1>14, RebuildCdxEffect DEF
     Inv, EndInv, Shape, BuildingPlan, Checking, Early, Cdx, Idx, Staged, Engine, Receipt,
     Success, Moves, Only, StagesIdx, RebuildCdx
<1>15. CASE VerifyCdx
  BY <1>15, VerifyCdxEffect DEF
     Inv, EndInv, Shape, BuildingPlan, Checking, Early, Cdx, Idx, Staged, Engine, Receipt,
     Success, Moves, Only, StagesCdx, VerifyCdx
<1>16. CASE CdxDone
  BY <1>16, FailureStops DEF
     Inv, EndInv, Shape, BuildingPlan, Checking, Early, Cdx, Idx, Staged, Engine, Receipt,
     Success, CdxDone, Goto, Keep, world
<1>17. CASE AssociateIdx
  BY <1>17, AssociateIdxEffect DEF
     Inv, EndInv, Shape, BuildingPlan, Checking, Early, Cdx, Idx, Staged, Engine, Receipt,
     Success, Moves, Only, AssociateIdx
<1>18. CASE RebuildIdx
  BY <1>18, RebuildIdxEffect DEF
     Inv, EndInv, Shape, BuildingPlan, Checking, Early, Cdx, Idx, Staged, Engine, Receipt,
     Success, Moves, Only, StagesIdx, RebuildIdx
<1>19. CASE VerifyIdx
  BY <1>19, VerifyIdxEffect DEF
     Inv, EndInv, Shape, BuildingPlan, Checking, Early, Cdx, Idx, Staged, Engine, Receipt,
     Success, Moves, Only, VerifyIdx
<1>20. CASE IdxDone
  BY <1>20, FailureStops DEF
     Inv, EndInv, Shape, BuildingPlan, Checking, Early, Cdx, Idx, Staged, Engine, Receipt,
     Success, IdxDone, Goto, Keep, world
<1>21. CASE Publish
  BY <1>21, FailureStops DEF
     Inv, EndInv, Shape, BuildingPlan, Checking, Early, Cdx, Idx, Staged, Engine, Receipt,
     Success, Publish, Promotes, Made, Goto, Keep, world
<1>22. CASE Complete
  <2>1. Accounts(local.evidence, plan)
    BY <1>22 DEF Inv, EvidenceInv, Complete
  <2> QED BY <1>22, <2>1 DEF Inv, EndInv, Accounts, Complete, complete, Keep, world, Success,
       Receipt, Early, Cdx, Idx, Staged, Engine
<1>23. CASE Cancel \/ BreakDown \/ PublishHalfway
  BY <1>23, EndingStops DEF Inv
<1>24. CASE EditSource \/ EditDestination
  BY <1>24, FailureStops DEF
     Inv, EndInv, Shape, BuildingPlan, Checking, Early, Cdx, Idx, Staged, Engine, Receipt,
     Success, EditSource, Edit, NoVault, EditDestination
<1>25. CASE EditVault \/ EditDisk
  BY <1>25, FailureStops DEF
     Inv, EndInv, Shape, BuildingPlan, Checking, Early, Cdx, Idx, Staged, Engine, Receipt,
     Success, EditVault, Edit, NoVault, EditDisk
<1>26. CASE Release
  BY <1>26 DEF
     Inv, EndInv, Shape, BuildingPlan, Checking, Early, Cdx, Idx, Staged, Engine, Receipt,
     Success, Release, Goto, Keep, world
<1>27. CASE ReleaseFails
  <2>1. /\ pc = "release" /\ pc' = "idle" /\ outcome' = "failed"
        /\ UNCHANGED <<completed, calls>> /\ ghost'.late
    BY <1>27, ReleaseFailsEffect DEF Inv, Shape
  <2>2. calls' \in Nat /\ completed' = 0
    BY <2>1 DEF Inv, EndInv
  <2> QED BY <2>1, <2>2 DEF EndInv, Success, Early, Cdx, Idx, Staged, Engine
<1> QED
  BY <1>1, <1>2, <1>3, <1>4, <1>5, <1>6, <1>7, <1>8, <1>9, <1>10, <1>11, <1>12, <1>13,
     <1>14, <1>15, <1>16, <1>17, <1>18, <1>19, <1>20, <1>21, <1>22, <1>23, <1>24, <1>25, <1>26, <1>27 DEF Next

\* What is in the evidence is valid and about the plan's indexes.
LEMMA EvidenceStep ==
  ASSUME Inv, Next, ~Stops
  PROVE  EvidenceInv'
<1>1. CASE CallBuildPlan \/ Enumerate \/ Discover \/ Fingerprint
  BY <1>1, FailureStops DEF
     Inv, EvidenceInv, Shape, BuildingPlan, Checking, Early, Cdx, Idx, Staged, Engine,
     Receipt, Accounts, CallBuildPlan, world, NoLocals, Enumerate, Goto, Keep, Discover,
     Fingerprint
<1>2. CASE EvaluateTable \/ Assemble
  BY <1>2, FailureStops DEF
     Inv, EvidenceInv, Shape, BuildingPlan, Checking, Early, Cdx, Idx, Staged, Engine,
     Receipt, Accounts, EvaluateTable, Goto, Keep, world, Assemble, complete, NoLocals
<1>3. CASE CallPreflight \/ CallPseudonymize
  BY <1>3, FailureStops DEF
     Inv, EvidenceInv, Shape, BuildingPlan, Checking, Early, Cdx, Idx, Staged, Engine,
     Receipt, Accounts, CallPreflight, CallWithPlan, world, NoLocals, CallPseudonymize
<1>4. CASE VerifyFiles
  BY <1>4, FailureStops DEF
     Inv, EvidenceInv, Shape, BuildingPlan, Checking, Early, Cdx, Idx, Staged, Engine,
     Receipt, Accounts, VerifyFiles, Goto, Keep, world
<1>5. CASE VerifySource \/ CheckDestination \/ CheckPlan \/ ScanCapacity
  BY ZenonT(60), <1>5, FailureStops DEF
     Inv, EvidenceInv, Shape, BuildingPlan, Checking, Early, Cdx, Idx, Staged, Engine,
     Receipt, Accounts, VerifySource, Goto, Keep, world, CheckDestination, CheckPlan,
     ScanCapacity
<1>6. CASE CheckStorage
  BY <1>6, FailureStops DEF
     Inv, EvidenceInv, Shape, BuildingPlan, Checking, Early, Cdx, Idx, Staged, Engine,
     Receipt, Accounts, CheckStorage, Goto, Keep, world
<1>7. CASE Verdict \/ Gate
  BY <1>7, FailureStops DEF
     Inv, EvidenceInv, Shape, BuildingPlan, Checking, Early, Cdx, Idx, Staged, Engine,
     Receipt, Accounts, Verdict, complete, world, Keep, NoLocals, Gate, Raise, Stops
<1>8. CASE Revalidate \/ BuildEnginePlan
  BY <1>8, FailureStops DEF
     Inv, EvidenceInv, Shape, BuildingPlan, Checking, Early, Cdx, Idx, Staged, Engine,
     Receipt, Accounts, Revalidate, Goto, Keep, world, BuildEnginePlan
<1>9. CASE ExistingResult \/ PassOne \/ PassTwo
  BY <1>9, FailureStops, NothingIsEmpty DEF
     Inv, EvidenceInv, Shape, BuildingPlan, Checking, Early, Cdx, Idx, Staged, Engine,
     Receipt, Accounts, Goto, Keep, world, ExistingResult, PassOne, PassTwo,
     Planned
<1>10. CASE DataOnlyEvidence
  <2> DEFINE e == [i \in plan.idx |-> Evidence("OMITTED_DATA_ONLY", tree.idx[i], Absent, Absent)]
  <2>1. Goto("publish") /\ UNCHANGED <<world, ghost>> /\ local' = [local EXCEPT !.evidence = e]
    BY <1>10, FailureStops DEF DataOnlyEvidence
  <2>2. Accounts(e, plan)
    BY OmittedIsValid DEF Accounts
  <2> HIDE DEF e
  <2>3. local'.evidence = e /\ local'.staged = local.staged
    BY <2>1 DEF Inv, Shape
  <2>4. plan # Absent /\ pc = "data_only"
    BY <1>10 DEF DataOnlyEvidence, Inv, EvidenceInv, Engine, Staged
  <2> QED BY <2>1, <2>2, <2>3, <2>4 DEF Goto, world, Inv,
       EvidenceInv, Receipt, Accounts, BuildingPlan, Checking, Early, Cdx, Idx, Staged, Engine
<1>11. CASE RebuildCdx
  <2>1. PICK stray \in Strays : Moves("verify_cdx") /\ Only({"task", "staged"})
                              /\ StagesIdx(Littered(local.staged.idx, stray))
    BY <1>11, RebuildCdxEffect DEF Inv
  <2>2. pc = "cdx"
    BY <1>11 DEF RebuildCdx
  <2>3. /\ DOMAIN Littered(local.staged.idx, stray) \subseteq plan.idx
        /\ \A i \in DOMAIN Littered(local.staged.idx, stray) : Littered(local.staged.idx, stray)[i] # Absent
    BY <2>2, StartsAssumption DEF Inv, EvidenceInv, Staged, Cdx, Littered, Strays
  <2>4. local'.evidence = local.evidence
    BY <2>1 DEF Only, Inv, Shape
  <2> QED BY <2>1, <2>2, <2>3, <2>4 DEF Moves, StagesIdx, Inv,
       EvidenceInv, Receipt, Accounts, BuildingPlan, Checking, Early, Cdx, Idx, Staged, Engine
<1>12. CASE VerifyCdx
  BY <1>12, VerifyCdxEffect DEF
     Inv, EvidenceInv, Shape, BuildingPlan, Checking, Early, Cdx, Idx, Staged, Engine,
     Receipt, Accounts, Moves, Only, StagesCdx, VerifyCdx
<1>13. CASE CdxDone
  BY <1>13, FailureStops, NothingIsEmpty DEF
     Inv, EvidenceInv, Shape, BuildingPlan, Checking, Early, Cdx, Idx, Staged, Engine,
     Receipt, Accounts, CdxDone, Goto, Keep, world
<1>14. CASE AssociateIdx
  <2>1. pc = "idx" /\ plan # Absent
    BY <1>14 DEF AssociateIdx, Inv, EvidenceInv, Engine, Staged, Idx
  <2>2. ASSUME NEW i \in PendingIdx, Moves("idx"), Only({"task", "evidence"}),
               local'.evidence = With(local.evidence, i,
                  Evidence("OMITTED_UNVERIFIED", tree.idx[i], Absent, Absent))
        PROVE  EvidenceInv'
    <3>1. local'.staged = local.staged
      BY <2>2 DEF Only, Inv, Shape
    <3>2. /\ DOMAIN local'.evidence \subseteq plan.idx
          /\ \A j \in DOMAIN local'.evidence : EvidenceIsValid(local'.evidence[j])
      <4>1. \A j \in DOMAIN local.evidence : EvidenceIsValid(local.evidence[j])
        BY <2>1 DEF Inv, EvidenceInv, Idx
      <4>2. DOMAIN local.evidence \cup {i} \subseteq plan.idx
        BY <2>1 DEF PendingIdx, Inv, EvidenceInv, Idx
      <4> DEFINE new == Evidence("OMITTED_UNVERIFIED", tree.idx[i], Absent, Absent)
      <4>3. EvidenceIsValid(new)
        BY OmittedIsValid
      <4> HIDE DEF new
      <4>4. /\ DOMAIN With(local.evidence, i, new) = DOMAIN local.evidence \cup {i}
            /\ \A j \in DOMAIN With(local.evidence, i, new) :
                  EvidenceIsValid(With(local.evidence, i, new)[j])
        BY <4>1, <4>3, WithIsValid
      <4> QED BY <2>2, <4>2, <4>4 DEF new
    <3> QED BY <2>1, <2>2, <3>1, <3>2 DEF Moves, Inv,
         EvidenceInv, Receipt, Accounts, BuildingPlan, Checking, Early, Cdx, Idx, Staged, Engine
  <2>3. ASSUME NEW i \in PendingIdx, Moves("rebuild_idx"), Only({"task"}),
               local'.task.idx = i, local'.task.table # Absent
        PROVE  EvidenceInv'
    <3>1. local'.staged = local.staged /\ local'.evidence = local.evidence
      BY <2>3 DEF Only, Inv, Shape
    <3> QED BY <2>1, <2>3, <3>1 DEF Moves, PendingIdx, Inv,
         EvidenceInv, Receipt, Accounts, BuildingPlan, Checking, Early, Cdx, Idx, Staged, Engine
  <2> QED BY <1>14, <2>2, <2>3, AssociateIdxEffect DEF Inv
<1>15. CASE RebuildIdx
  <2>1. pc = "rebuild_idx" /\ plan # Absent
    BY <1>15 DEF RebuildIdx, Inv, EvidenceInv, Engine, Staged, Idx
  <2>2. ASSUME NEW files, Grown(files, local.task.idx)
        PROVE  DOMAIN files \subseteq plan.idx /\ \A i \in DOMAIN files : files[i] # Absent
    BY <2>1, <2>2, StartsAssumption DEF Grown, Inv, EvidenceInv, Staged, Idx
  <2>3. ASSUME NEW files, NEW source, NEW table, Moves("idx"), Only({"task", "staged", "evidence"}),
               local'.evidence = With(local.evidence, local.task.idx,
                  Evidence("OMITTED_UNVERIFIED", source, table, Absent)),
               StagesIdx(files), Grown(files, local.task.idx)
        PROVE  EvidenceInv'
    <3>1. /\ DOMAIN local'.evidence \subseteq plan.idx
          /\ \A j \in DOMAIN local'.evidence : EvidenceIsValid(local'.evidence[j])
      <4>1. \A j \in DOMAIN local.evidence : EvidenceIsValid(local.evidence[j])
        BY <2>1 DEF Inv, EvidenceInv, Idx
      <4>2. DOMAIN local.evidence \cup {local.task.idx} \subseteq plan.idx
        BY <2>1 DEF Inv, EvidenceInv, Idx
      <4> DEFINE new == Evidence("OMITTED_UNVERIFIED", source, table, Absent)
      <4>3. EvidenceIsValid(new)
        BY OmittedIsValid
      <4> HIDE DEF new
      <4>4. /\ DOMAIN With(local.evidence, local.task.idx, new) = DOMAIN local.evidence \cup {local.task.idx}
            /\ \A j \in DOMAIN With(local.evidence, local.task.idx, new) :
                  EvidenceIsValid(With(local.evidence, local.task.idx, new)[j])
        BY <4>1, <4>3, WithIsValid
      <4> QED BY <2>3, <4>2, <4>4 DEF new
    <3> QED BY <2>1, <2>2, <2>3, <3>1 DEF Moves, StagesIdx, Inv,
         EvidenceInv, Receipt, Accounts, BuildingPlan, Checking, Early, Cdx, Idx, Staged, Engine
  <2>4. ASSUME NEW files, Moves("verify_idx"), Only({"staged"}),
               StagesIdx(files), Grown(files, local.task.idx), local.task.idx \in DOMAIN files
        PROVE  EvidenceInv'
    <3>1. local'.task = local.task /\ local'.evidence = local.evidence
      BY <2>4 DEF Only, Inv, Shape
    <3> QED BY <2>1, <2>2, <2>4, <3>1 DEF Moves, StagesIdx, Inv,
         EvidenceInv, Receipt, Accounts, BuildingPlan, Checking, Early, Cdx, Idx, Staged, Engine
  <2> QED BY <1>15, <2>3, <2>4, RebuildIdxEffect DEF Inv
<1>16. CASE VerifyIdx
  <2>1. pc = "verify_idx" /\ plan # Absent
    BY <1>16 DEF VerifyIdx, Inv, EvidenceInv, Engine, Staged, Idx
  <2> DEFINE new == Evidence("REBUILT_VERIFIED", local.task.source, local.task.table,
                             local.staged.idx[local.task.idx])
  <2>2. Moves("idx") /\ Only({"task", "evidence"}) /\ local'.evidence = With(local.evidence, local.task.idx, new)
    BY <1>16, VerifyIdxEffect DEF Inv
  <2>3. EvidenceIsValid(new)
    BY <2>1, RebuiltIsValid DEF Inv, EvidenceInv, Staged, Idx
  <2> HIDE DEF new
  <2>4. /\ DOMAIN local'.evidence \subseteq plan.idx
        /\ \A j \in DOMAIN local'.evidence : EvidenceIsValid(local'.evidence[j])
    <3>1. \A j \in DOMAIN local.evidence : EvidenceIsValid(local.evidence[j])
      BY <2>1 DEF Inv, EvidenceInv, Idx
    <3>2. DOMAIN local.evidence \cup {local.task.idx} \subseteq plan.idx
      BY <2>1 DEF Inv, EvidenceInv, Idx
    <3>3. /\ DOMAIN With(local.evidence, local.task.idx, new) = DOMAIN local.evidence \cup {local.task.idx}
          /\ \A j \in DOMAIN With(local.evidence, local.task.idx, new) :
                EvidenceIsValid(With(local.evidence, local.task.idx, new)[j])
      BY <2>3, <3>1, WithIsValid
    <3> QED BY <2>2, <3>2, <3>3
  <2>5. local'.staged = local.staged
    BY <2>2 DEF Only, Inv, Shape
  <2> QED BY <2>1, <2>2, <2>4, <2>5 DEF Moves, Inv,
       EvidenceInv, Receipt, Accounts, BuildingPlan, Checking, Early, Cdx, Idx, Staged, Engine
<1>17. CASE IdxDone
  BY <1>17, FailureStops DEF
     Inv, EvidenceInv, Shape, BuildingPlan, Checking, Early, Cdx, Idx, Staged, Engine,
     Receipt, Accounts, IdxDone, Goto, Keep, world, PendingIdx
<1>18. CASE Publish
  BY <1>18, FailureStops DEF
     Inv, EvidenceInv, Shape, BuildingPlan, Checking, Early, Cdx, Idx, Staged, Engine,
     Receipt, Accounts, Publish, Promotes, Made, Goto, Keep, world
<1>19. CASE Complete
  BY <1>19, FailureStops DEF
     Inv, EvidenceInv, Shape, BuildingPlan, Checking, Early, Cdx, Idx, Staged, Engine,
     Receipt, Accounts, Complete, complete, world, Keep, NoLocals
<1>20. CASE Cancel \/ BreakDown \/ PublishHalfway
  BY <1>20, EndingStops DEF Inv
<1>21. CASE EditSource \/ EditDestination
  BY <1>21, FailureStops DEF
     Inv, EvidenceInv, Shape, BuildingPlan, Checking, Early, Cdx, Idx, Staged, Engine,
     Receipt, Accounts, EditSource, Edit, NoVault, EditDestination
<1>22. CASE EditVault \/ EditDisk
  BY <1>22, FailureStops DEF
     Inv, EvidenceInv, Shape, BuildingPlan, Checking, Early, Cdx, Idx, Staged, Engine,
     Receipt, Accounts, EditVault, Edit, NoVault, EditDisk
<1>23. CASE Release
  BY <1>23 DEF
     Inv, EvidenceInv, Shape, BuildingPlan, Checking, Early, Cdx, Idx, Staged, Engine,
     Receipt, Accounts, Release, Goto, Keep, world
<1>24. CASE ReleaseFails
  BY <1>24, ReleaseFailsEffect DEF
     Inv, EvidenceInv, Shape, BuildingPlan, Checking, Early, Cdx, Idx, Staged, Engine,
     Receipt, Accounts, KeepsVault, NoLocals
<1>25. CASE OpenVault
  BY <1>25, OpenVaultEffect DEF
     Inv, EvidenceInv, BuildingPlan, Checking, Early, Cdx, Idx, Staged, Engine, Receipt, Accounts
<1> QED
  BY <1>1, <1>2, <1>3, <1>4, <1>5, <1>6, <1>7, <1>8, <1>9, <1>10, <1>11, <1>12, <1>13,
     <1>14, <1>15, <1>16, <1>17, <1>18, <1>19, <1>20, <1>21, <1>22, <1>23, <1>24, <1>25 DEF Next

\* What the evidence calls verified is what the staging holds.
LEMMA IndexStep ==
  ASSUME Inv, Next, ~Stops
  PROVE  IndexInv'
<1>1. CASE CallBuildPlan \/ Enumerate \/ Discover \/ Fingerprint
  BY <1>1, FailureStops DEF
     Inv, IndexInv, Shape, EvidenceInv, BuildingPlan, Checking, Early, Cdx, Idx, Staged,
     Engine, CallBuildPlan, world, NoLocals, Enumerate, Goto, Keep, Discover, Fingerprint
<1>2. CASE EvaluateTable \/ Assemble
  BY <1>2, FailureStops DEF
     Inv, IndexInv, Shape, EvidenceInv, BuildingPlan, Checking, Early, Cdx, Idx, Staged,
     Engine, EvaluateTable, Goto, Keep, world, Assemble, complete, NoLocals
<1>3. CASE CallPreflight \/ CallPseudonymize
  BY <1>3, FailureStops DEF
     Inv, IndexInv, Shape, EvidenceInv, BuildingPlan, Checking, Early, Cdx, Idx, Staged,
     Engine, CallPreflight, CallWithPlan, world, NoLocals, CallPseudonymize
<1>4. CASE VerifyFiles
  BY <1>4, FailureStops DEF
     Inv, IndexInv, Shape, EvidenceInv, BuildingPlan, Checking, Early, Cdx, Idx, Staged,
     Engine, VerifyFiles, Goto, Keep, world
<1>5. CASE VerifySource \/ CheckDestination \/ CheckPlan \/ ScanCapacity
  BY <1>5, FailureStops DEF
     Inv, IndexInv, Shape, EvidenceInv, BuildingPlan, Checking, Early, Cdx, Idx, Staged,
     Engine, VerifySource, Goto, Keep, world, CheckDestination, CheckPlan, ScanCapacity
<1>6. CASE CheckStorage
  BY <1>6, FailureStops DEF
     Inv, IndexInv, Shape, EvidenceInv, BuildingPlan, Checking, Early, Cdx, Idx, Staged,
     Engine, CheckStorage, Goto, Keep, world
<1>7. CASE Verdict \/ Gate
  BY <1>7, FailureStops DEF
     Inv, IndexInv, Shape, EvidenceInv, BuildingPlan, Checking, Early, Cdx, Idx, Staged,
     Engine, Verdict, complete, world, Keep, NoLocals, Gate, Raise, Stops
<1>8. CASE Revalidate \/ BuildEnginePlan
  BY <1>8, FailureStops DEF
     Inv, IndexInv, Shape, EvidenceInv, BuildingPlan, Checking, Early, Cdx, Idx, Staged,
     Engine, Revalidate, Goto, Keep, world, BuildEnginePlan
<1>9. CASE OpenVault \/ ExistingResult \/ PassOne \/ PassTwo
  BY <1>9, FailureStops, NothingIsEmpty DEF
     Inv, IndexInv, Shape, EvidenceInv, BuildingPlan, Checking, Early, Cdx, Idx, Staged,
     Engine, OpenVault, NoVault, Goto, Keep, world, ExistingResult, PassOne, PassTwo, VerifiedIdx
<1>10. CASE DataOnlyEvidence
  BY <1>10, FailureStops, NothingIsEmpty DEF
     Inv, IndexInv, Shape, EvidenceInv, BuildingPlan, Checking, Early, Cdx, Idx, Staged,
     Engine, DataOnlyEvidence, Goto, Keep, world, VerifiedIdx, Evidence
<1>11. CASE RebuildCdx
  BY <1>11, RebuildCdxEffect DEF
     Inv, IndexInv, Shape, EvidenceInv, BuildingPlan, Checking, Early, Cdx, Idx, Staged,
     Engine, Moves, Only, StagesIdx, RebuildCdx
<1>12. CASE VerifyCdx
  BY <1>12, VerifyCdxEffect DEF
     Inv, IndexInv, Shape, EvidenceInv, BuildingPlan, Checking, Early, Cdx, Idx, Staged,
     Engine, Moves, Only, StagesCdx, VerifyCdx
<1>13. CASE CdxDone
  BY <1>13, FailureStops, NothingIsEmpty DEF
     Inv, IndexInv, Shape, EvidenceInv, BuildingPlan, Checking, Early, Cdx, Idx, Staged,
     Engine, CdxDone, Goto, Keep, world, VerifiedIdx
<1>14. CASE AssociateIdx
  <2>1. pc = "idx"
    BY <1>14 DEF AssociateIdx
  <2>2. ASSUME NEW i \in PendingIdx, Moves("idx"), Only({"task", "evidence"}),
               local'.evidence = With(local.evidence, i,
                  Evidence("OMITTED_UNVERIFIED", tree.idx[i], Absent, Absent))
        PROVE  IndexInv'
    <3>1. local'.staged = local.staged
      BY <2>2 DEF Only, Inv, Shape
    <3>2. \A j \in VerifiedIdx(local'.evidence) :
             j \in VerifiedIdx(local.evidence) /\ local'.evidence[j] = local.evidence[j]
      BY <2>2 DEF With, Evidence, VerifiedIdx
    <3> QED BY <2>1, <2>2, <3>1, <3>2 DEF Moves, Inv, IndexInv, Idx
  <2>3. ASSUME Moves("rebuild_idx"), Only({"task"})
        PROVE  IndexInv'
    <3>1. local'.staged = local.staged /\ local'.evidence = local.evidence
      BY <2>3 DEF Only, Inv, Shape
    <3> QED BY <2>1, <2>3, <3>1 DEF Moves, Inv, IndexInv, Idx
  <2> QED BY <1>14, <2>2, <2>3, AssociateIdxEffect DEF Inv
<1>15. CASE RebuildIdx
  <2>1. pc = "rebuild_idx"
    BY <1>15 DEF RebuildIdx
  <2>2. \A j \in VerifiedIdx(local.evidence) :
           j \in DOMAIN local.staged.idx \ {local.task.idx} /\ local.evidence[j].output = local.staged.idx[j]
    BY <2>1 DEF Inv, IndexInv, EvidenceInv, VerifiedIdx, Idx
  <2>3. ASSUME NEW files, NEW source, NEW table, Moves("idx"),
               local'.evidence = With(local.evidence, local.task.idx,
                  Evidence("OMITTED_UNVERIFIED", source, table, Absent)),
               StagesIdx(files), Grown(files, local.task.idx)
        PROVE  IndexInv'
    <3>1. \A j \in VerifiedIdx(local'.evidence) :
             j \in VerifiedIdx(local.evidence) /\ local'.evidence[j] = local.evidence[j]
      BY <2>3 DEF With, Evidence, VerifiedIdx
    <3>2. \A j \in VerifiedIdx(local'.evidence) :
             j \in DOMAIN local'.staged.idx /\ local'.evidence[j].output = local'.staged.idx[j]
      BY <2>2, <2>3, <3>1 DEF StagesIdx, Grown
    <3> QED BY <2>3, <3>2 DEF Moves, IndexInv
  <2>4. ASSUME NEW files, Moves("verify_idx"), Only({"staged"}),
               StagesIdx(files), Grown(files, local.task.idx)
        PROVE  IndexInv'
    <3>1. local'.evidence = local.evidence
      BY <2>4 DEF Only, Inv, Shape
    <3>2. \A j \in VerifiedIdx(local'.evidence) :
             j \in DOMAIN local'.staged.idx /\ local'.evidence[j].output = local'.staged.idx[j]
      BY <2>2, <2>4, <3>1 DEF StagesIdx, Grown
    <3> QED BY <2>4, <3>2 DEF Moves, IndexInv
  <2> QED BY <1>15, <2>3, <2>4, RebuildIdxEffect DEF Inv
<1>16. CASE VerifyIdx
  BY <1>16, VerifyIdxEffect DEF
     Inv, IndexInv, Shape, EvidenceInv, BuildingPlan, Checking, Early, Cdx, Idx, Staged,
     Engine, Moves, Only, VerifyIdx, VerifiedIdx, With, Evidence
<1>17. CASE IdxDone
  BY <1>17, FailureStops DEF
     Inv, IndexInv, Shape, EvidenceInv, BuildingPlan, Checking, Early, Cdx, Idx, Staged,
     Engine, IdxDone, Goto, Keep, world, InventoryIsVerified, VerifiedIdx
<1>18. CASE Publish
  BY <1>18, FailureStops DEF
     Inv, IndexInv, Shape, EvidenceInv, BuildingPlan, Checking, Early, Cdx, Idx, Staged,
     Engine, Publish, Promotes, Made, Goto, Keep, world
<1>19. CASE Complete
  BY <1>19, FailureStops DEF
     Inv, IndexInv, Shape, EvidenceInv, BuildingPlan, Checking, Early, Cdx, Idx, Staged,
     Engine, Complete, complete, world, Keep, NoLocals
<1>20. CASE Cancel \/ BreakDown \/ PublishHalfway
  BY <1>20, EndingStops DEF Inv
<1>21. CASE EditSource \/ EditDestination
  BY <1>21, FailureStops DEF
     Inv, IndexInv, Shape, EvidenceInv, BuildingPlan, Checking, Early, Cdx, Idx, Staged,
     Engine, EditSource, Edit, NoVault, EditDestination
<1>22. CASE EditVault \/ EditDisk
  BY <1>22, FailureStops DEF
     Inv, IndexInv, Shape, EvidenceInv, BuildingPlan, Checking, Early, Cdx, Idx, Staged,
     Engine, EditVault, Edit, NoVault, EditDisk
<1>23. CASE Release
  BY <1>23 DEF
     Inv, IndexInv, Shape, EvidenceInv, BuildingPlan, Checking, Early, Cdx, Idx, Staged,
     Engine, Release, Goto, Keep, world
<1>24. CASE ReleaseFails
  BY <1>24, ReleaseFailsEffect DEF
     Inv, IndexInv, Shape, EvidenceInv, BuildingPlan, Checking, Early, Cdx, Idx, Staged,
     Engine, KeepsVault, NoLocals
<1> QED
  BY <1>1, <1>2, <1>3, <1>4, <1>5, <1>6, <1>7, <1>8, <1>9, <1>10, <1>11, <1>12, <1>13,
     <1>14, <1>15, <1>16, <1>17, <1>18, <1>19, <1>20, <1>21, <1>22, <1>23, <1>24 DEF Next

\* The structural indexes follow the records the engine saw.
LEMMA CdxStep ==
  ASSUME Inv, Next, ~Stops
  PROVE  CdxInv'
<1>1. CASE CallBuildPlan \/ Enumerate \/ Discover \/ Fingerprint
  BY <1>1, FailureStops DEF
     Inv, CdxInv, Shape, BuildingPlan, Checking, Early, Cdx, Idx, Staged, Engine, Clean,
     CallBuildPlan, world, NoLocals, Enumerate, Goto, Keep, Discover, Fingerprint
<1>2. CASE EvaluateTable \/ Assemble
  BY <1>2, FailureStops DEF
     Inv, CdxInv, Shape, BuildingPlan, Checking, Early, Cdx, Idx, Staged, Engine, Clean,
     EvaluateTable, Goto, Keep, world, Assemble, complete, NoLocals
<1>3. CASE CallPreflight \/ CallPseudonymize
  BY <1>3, FailureStops DEF
     Inv, CdxInv, Shape, BuildingPlan, Checking, Early, Cdx, Idx, Staged, Engine, Clean,
     CallPreflight, CallWithPlan, world, NoLocals, CallPseudonymize
<1>4. CASE VerifyFiles
  BY <1>4, FailureStops DEF
     Inv, CdxInv, Shape, BuildingPlan, Checking, Early, Cdx, Idx, Staged, Engine, Clean,
     VerifyFiles, Goto, Keep, world
<1>5. CASE VerifySource \/ CheckDestination \/ CheckPlan \/ ScanCapacity
  BY <1>5, FailureStops DEF
     Inv, CdxInv, Shape, BuildingPlan, Checking, Early, Cdx, Idx, Staged, Engine, Clean,
     VerifySource, Goto, Keep, world, CheckDestination, CheckPlan, ScanCapacity
<1>6. CASE CheckStorage
  BY <1>6, FailureStops DEF
     Inv, CdxInv, Shape, BuildingPlan, Checking, Early, Cdx, Idx, Staged, Engine, Clean,
     CheckStorage, Goto, Keep, world
<1>7. CASE Verdict \/ Gate
  BY <1>7, FailureStops DEF
     Inv, CdxInv, Shape, BuildingPlan, Checking, Early, Cdx, Idx, Staged, Engine, Clean,
     Verdict, complete, world, Keep, NoLocals, Gate, Raise, Stops
<1>8. CASE Revalidate
  BY <1>8, FailureStops DEF
     Inv, CdxInv, Shape, BuildingPlan, Checking, Early, Cdx, Idx, Staged, Engine, Clean,
     Revalidate, Goto, Keep, world
<1>9. CASE BuildEnginePlan
  <2> DEFINE D == [t \in DOMAIN plan.tables |-> [count |-> Len(tree.tables[t].records),
                                                cdx |-> tree.tables[t].cdx # "none"]]
  <2>1. Goto("vault") /\ UNCHANGED <<world, ghost>> /\ local' = [local EXCEPT !.directives = D]
    BY <1>9, FailureStops DEF BuildEnginePlan
  <2>2. DOMAIN D = DOMAIN plan.tables /\ \A t \in DOMAIN plan.tables :
           D[t].count = Len(tree.tables[t].records) /\ (D[t].cdx <=> tree.tables[t].cdx # "none")
    OBVIOUS
  <2>3. Clean => tree = ghost.seen
    BY <1>9 DEF BuildEnginePlan, Inv, SourceInv, Reading
  <2> HIDE DEF D
  <2>4. local'.directives = D
    BY <2>1 DEF Inv, Shape
  <2> QED BY <2>1, <2>2, <2>3, <2>4 DEF Goto, CdxInv, Clean, Cdx, Idx, Staged
<1>10. CASE OpenVault \/ ExistingResult \/ PassOne \/ PassTwo
  BY <1>10, FailureStops, NothingIsEmpty DEF
     Inv, CdxInv, Shape, BuildingPlan, Checking, Early, Cdx, Idx, Staged, Engine, Clean,
     OpenVault, NoVault, Goto, Keep, world, ExistingResult, EvidenceInv, PassOne, PassTwo, Planned,
     SourceInv, Reading
<1>11. CASE DataOnlyEvidence
  BY <1>11, FailureStops DEF
     Inv, CdxInv, Shape, BuildingPlan, Checking, Early, Cdx, Idx, Staged, Engine, Clean,
     DataOnlyEvidence, Goto, Keep, world, IndexInv
<1>12. CASE RebuildCdx
  <2>1. PICK t \in PendingCdx, stray \in Strays :
           /\ Moves("verify_cdx") /\ Only({"task", "staged"}) /\ local'.task.table = t
           /\ StagesIdx(Littered(local.staged.idx, stray))
    BY <1>12, RebuildCdxEffect DEF Inv
  <2>2. pc = "cdx"
    BY <1>12 DEF RebuildCdx
  <2>3. local'.directives = local.directives
    BY <2>1 DEF Only, Inv, Shape
  <2>4. t \in DOMAIN plan.tables
    BY <2>2 DEF PendingCdx, Inv, CdxInv, Cdx
  <2> QED BY <2>1, <2>2, <2>3, <2>4 DEF Moves, StagesIdx, Inv, CdxInv, Clean, Cdx, Idx, Staged
<1>13. CASE VerifyCdx
  <2> DEFINE t == local.task.table
             n == local.directives[t].count
  <2>1. Moves("cdx") /\ Only({"task", "staged"}) /\ StagesCdx(With(local.staged.cdx, t, n))
    BY <1>13, VerifyCdxEffect DEF Inv
  <2>2. pc = "verify_cdx"
    BY <1>13 DEF VerifyCdx
  <2>3. local'.directives = local.directives
    BY <2>1 DEF Only, Inv, Shape
  <2>4. t \in DOMAIN plan.tables /\ (Clean => n = Len(ghost.seen.tables[t].records))
    BY <2>2 DEF Inv, CdxInv, Cdx
  <2> HIDE DEF t, n
  <2>5. Clean => \A u \in DOMAIN With(local.staged.cdx, t, n) :
           /\ u \in DOMAIN plan.tables
           /\ With(local.staged.cdx, t, n)[u] = Len(ghost.seen.tables[u].records)
    BY <2>2, <2>4 DEF With, Inv, CdxInv, Cdx, Staged
  <2> QED BY <2>1, <2>2, <2>3, <2>5 DEF Moves, StagesCdx, Inv, CdxInv, Clean, Cdx, Idx, Staged
<1>14. CASE CdxDone
  BY <1>14, FailureStops, NothingIsEmpty DEF
     Inv, CdxInv, Shape, BuildingPlan, Checking, Early, Cdx, Idx, Staged, Engine, Clean,
     CdxDone, Goto, Keep, world, PendingCdx, EvidenceInv
<1>15. CASE AssociateIdx
  BY <1>15, AssociateIdxEffect DEF
     Inv, CdxInv, Shape, BuildingPlan, Checking, Early, Cdx, Idx, Staged, Engine, Clean,
     Moves, Only, AssociateIdx
<1>16. CASE RebuildIdx
  BY <1>16, RebuildIdxEffect DEF
     Inv, CdxInv, Shape, BuildingPlan, Checking, Early, Cdx, Idx, Staged, Engine, Clean,
     Moves, Only, StagesIdx, RebuildIdx
<1>17. CASE VerifyIdx
  BY <1>17, VerifyIdxEffect DEF
     Inv, CdxInv, Shape, BuildingPlan, Checking, Early, Cdx, Idx, Staged, Engine, Clean,
     Moves, Only, VerifyIdx
<1>18. CASE IdxDone
  BY <1>18, FailureStops DEF
     Inv, CdxInv, Shape, BuildingPlan, Checking, Early, Cdx, Idx, Staged, Engine, Clean,
     IdxDone, Goto, Keep, world
<1>19. CASE Publish
  BY <1>19, FailureStops DEF
     Inv, CdxInv, Shape, BuildingPlan, Checking, Early, Cdx, Idx, Staged, Engine, Clean,
     Publish, Promotes, Made, Goto, Keep, world
<1>20. CASE Complete
  BY <1>20, FailureStops DEF
     Inv, CdxInv, Shape, BuildingPlan, Checking, Early, Cdx, Idx, Staged, Engine, Clean,
     Complete, complete, world, Keep, NoLocals
<1>21. CASE Cancel \/ BreakDown \/ PublishHalfway
  BY <1>21, EndingStops DEF Inv
<1>22. CASE EditSource \/ EditDestination
  BY ZenonT(60), <1>22, FailureStops DEF
     Inv, CdxInv, Shape, BuildingPlan, Checking, Early, Cdx, Idx, Staged, Engine, Clean,
     EditSource, Edit, NoVault, Reading, EditDestination
<1>23. CASE EditVault \/ EditDisk
  BY <1>23, FailureStops DEF
     Inv, CdxInv, Shape, BuildingPlan, Checking, Early, Cdx, Idx, Staged, Engine, Clean,
     EditVault, Edit, NoVault, EditDisk
<1>24. CASE Release
  BY <1>24 DEF
     Inv, CdxInv, Shape, BuildingPlan, Checking, Early, Cdx, Idx, Staged, Engine, Clean,
     Release, Goto, Keep, world
<1>25. CASE ReleaseFails
  BY <1>25, ReleaseFailsEffect DEF
     Inv, CdxInv, Shape, BuildingPlan, Checking, Early, Cdx, Idx, Staged, Engine, Clean,
     KeepsVault, NoLocals
<1> QED
  BY <1>1, <1>2, <1>3, <1>4, <1>5, <1>6, <1>7, <1>8, <1>9, <1>10, <1>11, <1>12, <1>13,
     <1>14, <1>15, <1>16, <1>17, <1>18, <1>19, <1>20, <1>21, <1>22, <1>23, <1>24, <1>25 DEF Next

\* The plan follows the source while nobody changes it.
LEMMA PlanStep ==
  ASSUME Inv, Next, ~Stops
  PROVE  PlanInv'
<1>1. CASE CallBuildPlan
  BY <1>1, FailureStops DEF
     Inv, PlanInv, Shape, BuildingPlan, Checking, Early, Cdx, Idx, Staged, Engine,
     CallBuildPlan, world, NoLocals
<1>2. CASE Enumerate
  <2>1. pc' = "discover" /\ UNCHANGED <<plan, tree, ghost>> /\ local' = [local EXCEPT !.idx = enumerate_in_scope_paths(tree, FALSE).idx]
    BY <1>2, FailureStops DEF Enumerate, Goto, world
  <2>2. local'.idx = Listed(tree)
    BY <2>1, QuietWalk DEF Inv, Shape
  <2> QED BY <2>1, <2>2 DEF Inv, PlanInv, Listed
<1>3. CASE Discover
  <2> DEFINE found == discover_tables(tree)
  <2>1. /\ pc' = "fingerprint" /\ UNCHANGED <<plan, tree, ghost>>
        /\ found # Absent /\ DOMAIN found # {} /\ local' = [local EXCEPT !.discovered = found]
    BY <1>3, FailureStops DEF Discover, Goto, world
  <2>2. DOMAIN found = VisibleTables(tree)
    BY <2>1 DEF discover_tables
  <2> HIDE DEF found
  <2>3. local'.discovered = found /\ local'.idx = local.idx
    BY <2>1 DEF Inv, Shape
  <2>4. pc = "discover"
    BY <1>3 DEF Discover
  <2> QED BY <2>1, <2>2, <2>3, <2>4 DEF Inv, PlanInv
<1>4. CASE Fingerprint
  <2>1. pc' = "schemas" /\ UNCHANGED <<plan, tree, ghost>> /\ 
           local' = [local EXCEPT !.fingerprint = compute_source_fingerprint(tree, FALSE)]
    BY <1>4, FailureStops DEF Fingerprint, Goto, world
  <2>2. /\ local'.fingerprint = compute_source_fingerprint(tree, FALSE)
        /\ local'.discovered = local.discovered /\ local'.idx = local.idx
    BY <2>1 DEF Inv, Shape
  <2>3. pc = "fingerprint"
    BY <1>4 DEF Fingerprint
  <2> QED BY <2>1, <2>2, <2>3 DEF Inv, PlanInv
<1>5. CASE EvaluateTable
  <2>1. PICK tables, facts, classes :
          /\ pc' = "schemas" /\ UNCHANGED <<plan, tree, ghost>>
          /\ local' = [local EXCEPT !.tables = tables, !.facts = facts, !.classes = classes]
    BY <1>5, FailureStops DEF EvaluateTable, Goto, world
  <2>2. /\ local'.fingerprint = local.fingerprint
        /\ local'.discovered = local.discovered /\ local'.idx = local.idx
    BY <2>1 DEF Inv, Shape
  <2>3. pc = "schemas"
    BY <1>5 DEF EvaluateTable
  <2> QED BY <2>1, <2>2, <2>3 DEF Inv, PlanInv
<1>6. CASE Assemble
  <2> DEFINE made == AssembledPlan(resolve_policy(setup.policy))
  <2>1. /\ pc = "schemas" /\ pc' = "idle" /\ DOMAIN local.tables = DOMAIN local.discovered
        /\ UNCHANGED <<tree, ghost>> /\ plan' \in {plan, made}
    BY <1>6, FailureStops DEF Assemble, world
  <2>2. ~ghost.racy_plan =>
           /\ DOMAIN made.tables # {}
           /\ DOMAIN made.fingerprint.tables = DOMAIN made.tables
           /\ DOMAIN made.fingerprint.idx = made.idx
    <3>1. made.tables = local.tables /\ made.fingerprint = local.fingerprint /\ made.idx = local.idx
      BY DEF AssembledPlan
    <3> HIDE DEF made
    <3>2. ASSUME ~ghost.racy_plan
          PROVE  /\ DOMAIN local.discovered # {} /\ DOMAIN local.discovered = VisibleTables(tree)
                 /\ local.fingerprint = compute_source_fingerprint(tree, FALSE)
                 /\ local.idx = Listed(tree)
      BY <2>1, <3>2 DEF Inv, PlanInv, Listed
    <3>3. ASSUME ~ghost.racy_plan
          PROVE  /\ DOMAIN local.fingerprint.tables = VisibleTables(tree)
                 /\ DOMAIN local.fingerprint.idx = Listed(tree)
      BY <3>2, <3>3, FingerprintNames
    <3> QED BY <2>1, <3>1, <3>2, <3>3
  <2> HIDE DEF made
  <2> QED BY <2>1, <2>2 DEF Inv, PlanInv
<1>7. CASE CallPreflight \/ CallPseudonymize
  BY <1>7, FailureStops DEF
     Inv, PlanInv, Shape, BuildingPlan, Checking, Early, Cdx, Idx, Staged, Engine,
     CallPreflight, CallWithPlan, world, NoLocals, CallPseudonymize
<1>8. CASE VerifyFiles
  BY <1>8, FailureStops DEF
     Inv, PlanInv, Shape, BuildingPlan, Checking, Early, Cdx, Idx, Staged, Engine,
     VerifyFiles, Goto, Keep, world
<1>9. CASE VerifySource \/ CheckDestination \/ CheckPlan \/ ScanCapacity
  BY <1>9, FailureStops DEF
     Inv, PlanInv, Shape, BuildingPlan, Checking, Early, Cdx, Idx, Staged, Engine,
     VerifySource, Goto, Keep, world, CheckDestination, CheckPlan, ScanCapacity
<1>10. CASE CheckStorage
  BY <1>10, FailureStops DEF
     Inv, PlanInv, Shape, BuildingPlan, Checking, Early, Cdx, Idx, Staged, Engine,
     CheckStorage, Goto, Keep, world
<1>11. CASE Verdict \/ Gate
  BY <1>11, FailureStops DEF
     Inv, PlanInv, Shape, BuildingPlan, Checking, Early, Cdx, Idx, Staged, Engine, Verdict,
     complete, world, Keep, NoLocals, Gate, Raise, Stops
<1>12. CASE Revalidate \/ BuildEnginePlan
  BY <1>12, FailureStops DEF
     Inv, PlanInv, Shape, BuildingPlan, Checking, Early, Cdx, Idx, Staged, Engine,
     Revalidate, Goto, Keep, world, BuildEnginePlan
<1>13. CASE OpenVault \/ ExistingResult \/ PassOne \/ PassTwo
  BY <1>13, FailureStops DEF
     Inv, PlanInv, Shape, BuildingPlan, Checking, Early, Cdx, Idx, Staged, Engine,
     OpenVault, NoVault, Goto, Keep, world, ExistingResult, PassOne, PassTwo
<1>14. CASE DataOnlyEvidence
  BY <1>14, FailureStops DEF
     Inv, PlanInv, Shape, BuildingPlan, Checking, Early, Cdx, Idx, Staged, Engine,
     DataOnlyEvidence, Goto, Keep, world
<1>15. CASE RebuildCdx
  BY <1>15, RebuildCdxEffect DEF
     Inv, PlanInv, Shape, BuildingPlan, Checking, Early, Cdx, Idx, Staged, Engine, Moves,
     Only, StagesIdx, RebuildCdx
<1>16. CASE VerifyCdx
  BY <1>16, VerifyCdxEffect DEF
     Inv, PlanInv, Shape, BuildingPlan, Checking, Early, Cdx, Idx, Staged, Engine, Moves,
     Only, StagesCdx, VerifyCdx
<1>17. CASE CdxDone
  BY <1>17, FailureStops DEF
     Inv, PlanInv, Shape, BuildingPlan, Checking, Early, Cdx, Idx, Staged, Engine, CdxDone,
     Goto, Keep, world
<1>18. CASE AssociateIdx
  BY <1>18, AssociateIdxEffect DEF
     Inv, PlanInv, Shape, BuildingPlan, Checking, Early, Cdx, Idx, Staged, Engine, Moves,
     Only, AssociateIdx
<1>19. CASE RebuildIdx
  BY <1>19, RebuildIdxEffect DEF
     Inv, PlanInv, Shape, BuildingPlan, Checking, Early, Cdx, Idx, Staged, Engine, Moves,
     Only, StagesIdx, RebuildIdx
<1>20. CASE VerifyIdx
  BY <1>20, VerifyIdxEffect DEF
     Inv, PlanInv, Shape, BuildingPlan, Checking, Early, Cdx, Idx, Staged, Engine, Moves,
     Only, VerifyIdx
<1>21. CASE IdxDone
  BY <1>21, FailureStops DEF
     Inv, PlanInv, Shape, BuildingPlan, Checking, Early, Cdx, Idx, Staged, Engine, IdxDone,
     Goto, Keep, world
<1>22. CASE Publish
  BY <1>22, FailureStops DEF
     Inv, PlanInv, Shape, BuildingPlan, Checking, Early, Cdx, Idx, Staged, Engine, Publish,
     Goto, Keep, world
<1>23. CASE Complete
  BY <1>23, FailureStops DEF
     Inv, PlanInv, Shape, BuildingPlan, Checking, Early, Cdx, Idx, Staged, Engine,
     Complete, complete, world, Keep, NoLocals
<1>24. CASE Cancel \/ BreakDown \/ PublishHalfway
  BY <1>24, EndingStops DEF Inv
<1>25. CASE EditSource \/ EditDestination
  BY <1>25, FailureStops DEF
     Inv, PlanInv, Shape, BuildingPlan, Checking, Early, Cdx, Idx, Staged, Engine,
     EditSource, Edit, NoVault, Building, EditDestination
<1>26. CASE EditVault \/ EditDisk
  BY <1>26, FailureStops DEF
     Inv, PlanInv, Shape, BuildingPlan, Checking, Early, Cdx, Idx, Staged, Engine,
     EditVault, Edit, NoVault, EditDisk
<1>27. CASE Release
  BY <1>27 DEF
     Inv, PlanInv, Shape, BuildingPlan, Checking, Early, Cdx, Idx, Staged, Engine, Release,
     Goto, Keep, world
<1>28. CASE ReleaseFails
  BY <1>28, ReleaseFailsEffect DEF
     Inv, PlanInv, Shape, BuildingPlan, Checking, Early, Cdx, Idx, Staged, Engine,
     KeepsVault, NoLocals
<1> QED
  BY <1>1, <1>2, <1>3, <1>4, <1>5, <1>6, <1>7, <1>8, <1>9, <1>10, <1>11, <1>12, <1>13,
     <1>14, <1>15, <1>16, <1>17, <1>18, <1>19, <1>20, <1>21, <1>22, <1>23, <1>24, <1>25,
     <1>26, <1>27, <1>28 DEF Next

\* The engine saw the planned source, and preflight's walk left nothing out.
LEMMA SourceStep ==
  ASSUME Inv, Next, ~Stops
  PROVE  SourceInv'
<1>1. CASE CallBuildPlan \/ Enumerate \/ Discover \/ Fingerprint
  BY <1>1, FailureStops DEF
     Inv, SourceInv, Shape, BuildingPlan, Checking, Early, Cdx, Idx, Staged, Engine, Clean,
     Reading, CallBuildPlan, world, NoLocals, Enumerate, Goto, Keep, Discover, Fingerprint
<1>2. CASE EvaluateTable \/ Assemble
  BY <1>2, FailureStops DEF
     Inv, SourceInv, Shape, BuildingPlan, Checking, Early, Cdx, Idx, Staged, Engine, Clean,
     Reading, EvaluateTable, Goto, Keep, world, Assemble, complete, NoLocals
<1>3. CASE CallPreflight \/ CallPseudonymize
  BY <1>3, FailureStops DEF
     Inv, SourceInv, Shape, BuildingPlan, Checking, Early, Cdx, Idx, Staged, Engine, Clean,
     Reading, CallPreflight, CallWithPlan, world, NoLocals, CallPseudonymize
<1>4. CASE VerifyFiles
  BY <1>4, FailureStops DEF
     Inv, SourceInv, Shape, BuildingPlan, Checking, Early, Cdx, Idx, Staged, Engine, Clean,
     Reading, VerifyFiles, Goto, Keep, world, WalkFails, enumerate_in_scope_paths, Errors
<1>5. CASE VerifySource
  BY <1>5, FailureStops DEF
     Inv, SourceInv, Shape, BuildingPlan, Checking, Early, Cdx, Idx, Staged, Engine, Clean,
     Reading, VerifySource, Goto, Keep, world, WalkFails, compute_source_fingerprint,
     AddErrors
<1>6. CASE CheckDestination \/ CheckPlan
  BY <1>6, FailureStops DEF
     Inv, SourceInv, Shape, BuildingPlan, Checking, Early, Cdx, Idx, Staged, Engine, Clean,
     Reading, CheckDestination, Goto, Keep, world, AddErrors, CheckPlan
<1>7. CASE ScanCapacity
  <2>1. PICK capacity, codes :
          /\ pc = "capacity" /\ pc' = "storage" /\ UNCHANGED <<tree, plan, ghost>>
          /\ \/ local' = local
             \/ local' = [local EXCEPT !.capacity = capacity, !.errors = AddErrors(codes)]
    BY <1>7, FailureStops DEF ScanCapacity, Goto, world
  <2>2. local'.errors = local.errors \/ local'.errors = AddErrors(codes)
    BY <2>1 DEF Inv, Shape
  <2> QED BY <2>1, <2>2 DEF AddErrors, Inv, SourceInv, Checking, Early, Staged, Cdx, Idx, Reading
<1>8. CASE CheckStorage
  BY <1>8, FailureStops DEF
     Inv, SourceInv, Shape, BuildingPlan, Checking, Early, Cdx, Idx, Staged, Engine, Clean,
     Reading, CheckStorage, Goto, Keep, world, AddErrors
<1>9. CASE Verdict \/ Gate
  BY <1>9, FailureStops DEF
     Inv, SourceInv, Shape, BuildingPlan, Checking, Early, Cdx, Idx, Staged, Engine, Clean,
     Reading, Verdict, complete, world, Keep, NoLocals, Gate, Raise, Stops, RetryCandidate
<1>10. CASE Revalidate
  <2>1. /\ pc = "revalidate" /\ pc' = "directives" /\ UNCHANGED <<tree, plan, local>>
        /\ compute_source_fingerprint(tree, FALSE) = plan.fingerprint
        /\ ghost' = [ghost EXCEPT !.seen = tree, !.racy_run = FALSE]
    BY <1>10, FailureStops DEF Revalidate, Goto, world
  <2>2. ghost'.seen = tree /\ ghost'.racy_plan = ghost.racy_plan /\ ghost'.walked = ghost.walked
    BY <2>1 DEF Inv, Shape
  <2>3. ASSUME ~ghost.racy_plan
        PROVE  VisibleTables(tree) = DOMAIN plan.tables /\ DOMAIN tree.idx = plan.idx /\ tree.root
    <3>1. /\ DOMAIN plan.tables # {} /\ DOMAIN plan.fingerprint.tables = DOMAIN plan.tables
          /\ DOMAIN plan.fingerprint.idx = plan.idx
      BY <2>1, <2>3 DEF Inv, EvidenceInv, PlanInv, Engine, Early
    <3>2. DOMAIN plan.fingerprint.tables = VisibleTables(tree) /\ DOMAIN plan.fingerprint.idx = Listed(tree)
      BY <2>1, FingerprintNames
    <3>3. tree.root
      BY <3>1, <3>2 DEF VisibleTables
    <3> QED BY <3>1, <3>2, <3>3 DEF Listed
  <2> QED BY <2>1, <2>2, <2>3 DEF Inv, SourceInv, Clean, Reading, Checking, Early, Staged, Cdx, Idx
<1>11. CASE BuildEnginePlan
  BY <1>11, FailureStops DEF
     Inv, SourceInv, Shape, BuildingPlan, Checking, Early, Cdx, Idx, Staged, Engine, Clean,
     Reading, BuildEnginePlan, Goto, Keep, world
<1>12. CASE OpenVault \/ ExistingResult \/ PassOne \/ PassTwo
  BY <1>12, FailureStops DEF
     Inv, SourceInv, Shape, BuildingPlan, Checking, Early, Cdx, Idx, Staged, Engine, Clean,
     Reading, OpenVault, NoVault, Goto, Keep, world, ExistingResult, PassOne, PassTwo
<1>13. CASE DataOnlyEvidence
  BY <1>13, FailureStops DEF
     Inv, SourceInv, Shape, BuildingPlan, Checking, Early, Cdx, Idx, Staged, Engine, Clean,
     Reading, DataOnlyEvidence, Goto, Keep, world
<1>14. CASE RebuildCdx
  BY <1>14, RebuildCdxEffect DEF
     Inv, SourceInv, Shape, BuildingPlan, Checking, Early, Cdx, Idx, Staged, Engine, Clean,
     Reading, Moves, Only, StagesIdx, RebuildCdx
<1>15. CASE VerifyCdx
  BY <1>15, VerifyCdxEffect DEF
     Inv, SourceInv, Shape, BuildingPlan, Checking, Early, Cdx, Idx, Staged, Engine, Clean,
     Reading, Moves, Only, StagesCdx, VerifyCdx
<1>16. CASE CdxDone
  BY <1>16, FailureStops DEF
     Inv, SourceInv, Shape, BuildingPlan, Checking, Early, Cdx, Idx, Staged, Engine, Clean,
     Reading, CdxDone, Goto, Keep, world
<1>17. CASE AssociateIdx
  BY <1>17, AssociateIdxEffect DEF
     Inv, SourceInv, Shape, BuildingPlan, Checking, Early, Cdx, Idx, Staged, Engine, Clean,
     Reading, Moves, Only, AssociateIdx
<1>18. CASE RebuildIdx
  BY <1>18, RebuildIdxEffect DEF
     Inv, SourceInv, Shape, BuildingPlan, Checking, Early, Cdx, Idx, Staged, Engine, Clean,
     Reading, Moves, Only, StagesIdx, RebuildIdx
<1>19. CASE VerifyIdx
  BY <1>19, VerifyIdxEffect DEF
     Inv, SourceInv, Shape, BuildingPlan, Checking, Early, Cdx, Idx, Staged, Engine, Clean,
     Reading, Moves, Only, VerifyIdx
<1>20. CASE IdxDone
  BY <1>20, FailureStops DEF
     Inv, SourceInv, Shape, BuildingPlan, Checking, Early, Cdx, Idx, Staged, Engine, Clean,
     Reading, IdxDone, Goto, Keep, world
<1>21. CASE Publish
  BY <1>21, FailureStops DEF
     Inv, SourceInv, Shape, BuildingPlan, Checking, Early, Cdx, Idx, Staged, Engine, Clean,
     Reading, Publish, Promotes, Made, Goto, Keep, world
<1>22. CASE Complete
  BY <1>22, FailureStops DEF
     Inv, SourceInv, Shape, BuildingPlan, Checking, Early, Cdx, Idx, Staged, Engine, Clean,
     Reading, Complete, complete, world, Keep, NoLocals
<1>23. CASE Cancel \/ BreakDown \/ PublishHalfway
  BY <1>23, EndingStops DEF Inv
<1>24. CASE EditSource \/ EditDestination
  BY ZenonT(60), <1>24, FailureStops DEF
     Inv, SourceInv, Shape, BuildingPlan, Checking, Early, Cdx, Idx, Staged, Engine, Clean,
     Reading, EditSource, Edit, NoVault, EditDestination
<1>25. CASE EditVault \/ EditDisk
  BY <1>25, FailureStops DEF
     Inv, SourceInv, Shape, BuildingPlan, Checking, Early, Cdx, Idx, Staged, Engine, Clean,
     Reading, EditVault, Edit, NoVault, EditDisk
<1>26. CASE Release
  BY <1>26 DEF
     Inv, SourceInv, Shape, BuildingPlan, Checking, Early, Cdx, Idx, Staged, Engine, Clean,
     Reading, Release, Goto, Keep, world
<1>27. CASE ReleaseFails
  BY <1>27, ReleaseFailsEffect DEF
     Inv, SourceInv, Shape, BuildingPlan, Checking, Early, Cdx, Idx, Staged, Engine, Clean,
     Reading, KeepsVault, NoLocals
<1> QED
  BY <1>1, <1>2, <1>3, <1>4, <1>5, <1>6, <1>7, <1>8, <1>9, <1>10, <1>11, <1>12, <1>13,
     <1>14, <1>15, <1>16, <1>17, <1>18, <1>19, <1>20, <1>21, <1>22, <1>23, <1>24, <1>25, <1>26, <1>27 DEF Next

\* Publish makes the dataset of what the engine saw; nothing else touches it.
LEMMA CoverStep ==
  ASSUME Inv, Next, ~Stops
  PROVE  PublishedCoversTheSource'
<1>1. CASE CallBuildPlan \/ Enumerate \/ Discover \/ Fingerprint
  BY <1>1, FailureStops DEF
     Inv, PublishedCoversTheSource, Shape, Receipt, Dataset, CallBuildPlan, world,
     NoLocals, Enumerate, Goto, Keep, Discover, Fingerprint
<1>2. CASE EvaluateTable \/ Assemble
  BY <1>2, FailureStops DEF
     Inv, PublishedCoversTheSource, Shape, Receipt, Dataset, EvaluateTable, Goto, Keep,
     world, Assemble, complete, NoLocals, EvidenceInv, BuildingPlan
<1>3. CASE CallPreflight \/ CallPseudonymize
  BY <1>3, FailureStops DEF
     Inv, PublishedCoversTheSource, Shape, Receipt, Dataset, CallPreflight, CallWithPlan,
     world, NoLocals, CallPseudonymize
<1>4. CASE VerifyFiles
  BY <1>4, FailureStops DEF
     Inv, PublishedCoversTheSource, Shape, Receipt, Dataset, VerifyFiles, Goto, Keep, world
<1>5. CASE VerifySource \/ CheckDestination \/ CheckPlan \/ ScanCapacity
  BY <1>5, FailureStops DEF
     Inv, PublishedCoversTheSource, Shape, Receipt, Dataset, VerifySource, Goto, Keep,
     world, CheckDestination, CheckPlan, ScanCapacity
<1>6. CASE CheckStorage
  BY <1>6, FailureStops DEF
     Inv, PublishedCoversTheSource, Shape, Receipt, Dataset, CheckStorage, Goto, Keep,
     world
<1>7. CASE Verdict \/ Gate
  BY <1>7, FailureStops DEF
     Inv, PublishedCoversTheSource, Shape, Receipt, Dataset, Verdict, complete, world,
     Keep, NoLocals, Gate, Raise, Stops
<1>8. CASE Revalidate \/ BuildEnginePlan
  BY <1>8, FailureStops DEF
     Inv, PublishedCoversTheSource, Shape, Receipt, Dataset, Revalidate, Goto, Keep, world,
     BuildEnginePlan
<1>9. CASE OpenVault \/ ExistingResult \/ PassOne \/ PassTwo
  BY <1>9, FailureStops DEF
     Inv, PublishedCoversTheSource, Shape, Receipt, Dataset, OpenVault, NoVault, Goto, Keep, world,
     ExistingResult, PassOne, PassTwo
<1>10. CASE DataOnlyEvidence
  BY <1>10, FailureStops DEF
     Inv, PublishedCoversTheSource, Shape, Receipt, Dataset, DataOnlyEvidence, Goto, Keep,
     world
<1>11. CASE RebuildCdx
  <2>1. UNCHANGED <<vault, ghost, plan>>
    BY <1>11, RebuildCdxEffect DEF Inv, Moves
  <2> QED BY <2>1 DEF Inv, PublishedCoversTheSource, Receipt, Dataset
<1>12. CASE VerifyCdx
  BY <1>12, VerifyCdxEffect DEF
     Inv, PublishedCoversTheSource, Shape, Receipt, Dataset, Moves, Only, StagesCdx,
     VerifyCdx
<1>13. CASE CdxDone
  BY <1>13, FailureStops DEF
     Inv, PublishedCoversTheSource, Shape, Receipt, Dataset, CdxDone, Goto, Keep, world
<1>14. CASE AssociateIdx
  BY <1>14, AssociateIdxEffect DEF
     Inv, PublishedCoversTheSource, Shape, Receipt, Dataset, Moves, Only, AssociateIdx
<1>15. CASE RebuildIdx
  <2>1. UNCHANGED <<vault, ghost, plan>>
    BY <1>15, RebuildIdxEffect DEF Inv, Moves
  <2> QED BY <2>1 DEF Inv, PublishedCoversTheSource, Receipt, Dataset
<1>16. CASE VerifyIdx
  BY <1>16, VerifyIdxEffect DEF
     Inv, PublishedCoversTheSource, Shape, Receipt, Dataset, Moves, Only, VerifyIdx
<1>17. CASE IdxDone
  BY <1>17, FailureStops DEF
     Inv, PublishedCoversTheSource, Shape, Receipt, Dataset, IdxDone, Goto, Keep, world
<1>18. CASE Publish
  <2>1. /\ pc = "publish" /\ UNCHANGED plan
        /\ vault' = [vault EXCEPT !.receipt = [output |-> [kind |-> "full", content |-> local.staged],
                                              evidence |-> local.evidence]]
        /\ ghost' = [ghost EXCEPT !.published =
             [tree |-> ghost.seen, walked |-> ghost.walked, racy |-> ghost.racy_plan \/ ghost.racy_run,
              hasty |-> ghost.racy_check \/ ghost.racy_run]]
    BY <1>18, FailureStops DEF Publish, Made, Goto
  <2>2. Receipt' = [output |-> [kind |-> "full", content |-> local.staged], evidence |-> local.evidence]
    BY <2>1 DEF Inv, Shape, Receipt
  <2>3. Dataset' = local.staged /\ Receipt'.evidence = local.evidence
    BY <2>2 DEF Dataset
  <2>4. /\ ghost'.published.tree = ghost.seen /\ ghost'.published.walked = ghost.walked
        /\ ~ghost'.published.racy => Clean
    BY <2>1 DEF Inv, Shape, Clean
  <2>5. ASSUME Clean
        PROVE  /\ local.staged.tables = Restrict(ghost.seen.tables, VisibleTables(ghost.seen))
               /\ DOMAIN local.evidence = DOMAIN ghost.seen.idx
               /\ ghost.seen.root
    BY <2>1, <2>5 DEF Inv, CdxInv, SourceInv, EvidenceInv, Accounts, Staged
  <2>6. ASSUME Clean, ghost.walked = ghost.seen
        PROVE  DOMAIN local.staged.tables = DOMAIN ghost.seen.tables
    <3>1. ~HasHiddenDirectory(ghost.seen)
      BY <2>1, <2>6 DEF Inv, SourceInv, Staged
    <3> QED BY <2>5, <2>6, <3>1 DEF HasHiddenDirectory, VisibleTables, Restrict
  <2> QED BY <2>3, <2>4, <2>5, <2>6 DEF PublishedCoversTheSource
<1>19. CASE Complete
  BY <1>19, FailureStops DEF
     Inv, PublishedCoversTheSource, Shape, Receipt, Dataset, Complete, complete, world,
     Keep, NoLocals
<1>20. CASE Cancel \/ BreakDown \/ PublishHalfway
  BY <1>20, EndingStops DEF Inv
<1>21. CASE EditSource \/ EditDestination
  BY <1>21, FailureStops DEF
     Inv, PublishedCoversTheSource, Shape, Receipt, Dataset, EditSource, Edit, NoVault,
     EditDestination
<1>22. CASE EditVault \/ EditDisk
  BY <1>22, FailureStops DEF
     Inv, PublishedCoversTheSource, Shape, Receipt, Dataset, EditVault, Edit, NoVault,
     EditDisk
<1>23. CASE Release
  BY <1>23 DEF
     Inv, PublishedCoversTheSource, Shape, Receipt, Dataset, Release, Goto, Keep, world
<1>24. CASE ReleaseFails
  BY <1>24, ReleaseFailsEffect DEF
     Inv, PublishedCoversTheSource, Shape, Receipt, Dataset, KeepsVault, NoLocals
<1> QED
  BY <1>1, <1>2, <1>3, <1>4, <1>5, <1>6, <1>7, <1>8, <1>9, <1>10, <1>11, <1>12, <1>13,
     <1>14, <1>15, <1>16, <1>17, <1>18, <1>19, <1>20, <1>21, <1>22, <1>23, <1>24 DEF Next

\* Publish makes the evidence durable with the files it is about.
LEMMA TrueEvidenceStep ==
  ASSUME Inv, Next, ~Stops
  PROVE  IndexEvidenceIsTrue'
<1>1. CASE CallBuildPlan \/ Enumerate \/ Discover \/ Fingerprint
  BY <1>1, FailureStops DEF
     Inv, IndexEvidenceIsTrue, Shape, Receipt, Dataset, CallBuildPlan, world, NoLocals,
     Enumerate, Goto, Keep, Discover, Fingerprint
<1>2. CASE EvaluateTable \/ Assemble
  BY <1>2, FailureStops DEF
     Inv, IndexEvidenceIsTrue, Shape, Receipt, Dataset, EvaluateTable, Goto, Keep, world,
     Assemble, complete, NoLocals, EvidenceInv, BuildingPlan
<1>3. CASE CallPreflight \/ CallPseudonymize
  BY <1>3, FailureStops DEF
     Inv, IndexEvidenceIsTrue, Shape, Receipt, Dataset, CallPreflight, CallWithPlan, world,
     NoLocals, CallPseudonymize
<1>4. CASE VerifyFiles
  BY <1>4, FailureStops DEF
     Inv, IndexEvidenceIsTrue, Shape, Receipt, Dataset, VerifyFiles, Goto, Keep, world
<1>5. CASE VerifySource \/ CheckDestination \/ CheckPlan \/ ScanCapacity
  BY <1>5, FailureStops DEF
     Inv, IndexEvidenceIsTrue, Shape, Receipt, Dataset, VerifySource, Goto, Keep, world,
     CheckDestination, CheckPlan, ScanCapacity
<1>6. CASE CheckStorage
  BY <1>6, FailureStops DEF
     Inv, IndexEvidenceIsTrue, Shape, Receipt, Dataset, CheckStorage, Goto, Keep, world
<1>7. CASE Verdict \/ Gate
  BY <1>7, FailureStops DEF
     Inv, IndexEvidenceIsTrue, Shape, Receipt, Dataset, Verdict, complete, world, Keep,
     NoLocals, Gate, Raise, Stops
<1>8. CASE Revalidate \/ BuildEnginePlan
  BY <1>8, FailureStops DEF
     Inv, IndexEvidenceIsTrue, Shape, Receipt, Dataset, Revalidate, Goto, Keep, world,
     BuildEnginePlan
<1>9. CASE ExistingResult \/ PassOne \/ PassTwo
  BY SMTT(40), <1>9, FailureStops DEF
     Inv, IndexEvidenceIsTrue, Shape, Receipt, Dataset, Goto, Keep, world,
     ExistingResult, PassOne, PassTwo
<1>10. CASE DataOnlyEvidence
  BY <1>10, FailureStops DEF
     Inv, IndexEvidenceIsTrue, Shape, Receipt, Dataset, DataOnlyEvidence, Goto, Keep, world
<1>11. CASE RebuildCdx
  <2>1. UNCHANGED <<vault, ghost, plan>>
    BY <1>11, RebuildCdxEffect DEF Inv, Moves
  <2> QED BY <2>1 DEF Inv, IndexEvidenceIsTrue, Receipt, Dataset
<1>12. CASE VerifyCdx
  BY ZenonT(60), <1>12, VerifyCdxEffect DEF
     Inv, IndexEvidenceIsTrue, Shape, Receipt, Dataset, Moves, Only, StagesCdx, VerifyCdx
<1>13. CASE CdxDone
  BY <1>13, FailureStops DEF
     Inv, IndexEvidenceIsTrue, Shape, Receipt, Dataset, CdxDone, Goto, Keep, world
<1>14. CASE AssociateIdx
  BY <1>14, AssociateIdxEffect DEF
     Inv, IndexEvidenceIsTrue, Shape, Receipt, Dataset, Moves, Only, AssociateIdx
<1>15. CASE RebuildIdx
  <2>1. UNCHANGED <<vault, ghost, plan>>
    BY <1>15, RebuildIdxEffect DEF Inv, Moves
  <2> QED BY <2>1 DEF Inv, IndexEvidenceIsTrue, Receipt, Dataset
<1>16. CASE VerifyIdx
  BY <1>16, VerifyIdxEffect DEF
     Inv, IndexEvidenceIsTrue, Shape, Receipt, Dataset, Moves, Only, VerifyIdx
<1>17. CASE IdxDone
  BY <1>17, FailureStops DEF
     Inv, IndexEvidenceIsTrue, Shape, Receipt, Dataset, IdxDone, Goto, Keep, world
<1>18. CASE Publish
  <2>1. /\ pc = "publish" /\ UNCHANGED plan
        /\ vault' = [vault EXCEPT !.receipt = [output |-> [kind |-> "full", content |-> local.staged],
                                              evidence |-> local.evidence]]
        /\ ghost' = [ghost EXCEPT !.published =
             [tree |-> ghost.seen, walked |-> ghost.walked, racy |-> ghost.racy_plan \/ ghost.racy_run,
              hasty |-> ghost.racy_check \/ ghost.racy_run]]
    BY <1>18, FailureStops DEF Publish, Made, Goto
  <2>2. Receipt' = [output |-> [kind |-> "full", content |-> local.staged], evidence |-> local.evidence]
    BY <2>1 DEF Inv, Shape, Receipt
  <2>3. Dataset' = local.staged /\ Receipt'.evidence = local.evidence
    BY <2>2 DEF Dataset
  <2>4. /\ ghost'.published.tree = ghost.seen /\ ghost'.published.walked = ghost.walked
        /\ ~ghost'.published.racy => Clean
    BY <2>1 DEF Inv, Shape, Clean
  <2>5. /\ DOMAIN local.staged.idx = VerifiedIdx(local.evidence)
        /\ \A i \in DOMAIN local.staged.idx : local.evidence[i].output = local.staged.idx[i]
    BY <2>1 DEF Inv, IndexInv
  <2>6. ASSUME Clean, plan.profile = "VFP_INDEXED", NEW t \in DOMAIN local.staged.tables,
               local.staged.tables[t].cdx # "none"
        PROVE  /\ t \in DOMAIN local.staged.cdx
               /\ local.staged.cdx[t] = Len(local.staged.tables[t].records)
    <3>1. t \in DOMAIN plan.tables /\ local.staged.tables[t] = ghost.seen.tables[t]
      BY <2>1, <2>6 DEF Inv, CdxInv, Staged, Restrict
    <3> QED BY <2>1, <2>6, <3>1 DEF Inv, CdxInv, Staged
  <2> QED BY <2>1, <2>3, <2>4, <2>5, <2>6 DEF IndexEvidenceIsTrue
<1>19. CASE Complete
  BY <1>19, FailureStops DEF
     Inv, IndexEvidenceIsTrue, Shape, Receipt, Dataset, Complete, complete, world, Keep,
     NoLocals
<1>20. CASE Cancel \/ BreakDown \/ PublishHalfway
  BY <1>20, EndingStops DEF Inv
<1>21. CASE EditSource \/ EditDestination
  BY <1>21, FailureStops DEF
     Inv, IndexEvidenceIsTrue, Shape, Receipt, Dataset, EditSource, Edit, NoVault,
     EditDestination
<1>22. CASE EditDisk
  BY <1>22 DEF
     Inv, IndexEvidenceIsTrue, Shape, Receipt, Dataset, Edit, EditDisk
<1>23. CASE Release
  BY <1>23 DEF
     Inv, IndexEvidenceIsTrue, Shape, Receipt, Dataset, Release, Goto, Keep, world
<1>24. CASE ReleaseFails
  BY <1>24, ReleaseFailsEffect DEF
     Inv, IndexEvidenceIsTrue, Shape, Receipt, Dataset, KeepsVault, NoLocals
<1>25. CASE OpenVault
  BY <1>25, OpenVaultEffect DEF Inv, IndexEvidenceIsTrue, Receipt, Dataset
<1>26. CASE EditVault
  BY <1>26, EditVaultEffect DEF Inv, IndexEvidenceIsTrue, Receipt
<1> QED
  BY <1>1, <1>2, <1>3, <1>4, <1>5, <1>6, <1>7, <1>8, <1>9, <1>10, <1>11, <1>12, <1>13,
     <1>14, <1>15, <1>16, <1>17, <1>18, <1>19, <1>20, <1>21, <1>22, <1>23, <1>24, <1>25, <1>26 DEF Next

-----------------------------------------------------------------------------
(* The theorems.                                                           *)

\* Before the first call.
LEMMA Initially == Init => Inv
<1> SUFFICES ASSUME Init PROVE Inv
  OBVIOUS
<1>1. vault.receipt = Absent /\ DOMAIN vault = {"kind", "identity", "receipt", "leftover"}
  BY StartsAssumption DEF Init
<1>2. Shape
  BY <1>1 DEF Init, Shape, NoLocals, Staged, Cdx, Idx
<1>3. EndInv /\ EvidenceInv /\ IndexInv
  BY <1>1 DEF Init, EndInv, EvidenceInv, IndexInv, Receipt, BuildingPlan, Checking, Early, Cdx, Idx,
     Staged, Engine, Success
<1>4. CdxInv /\ PlanInv /\ SourceInv
  BY <1>1 DEF Init, CdxInv, PlanInv, SourceInv, Reading, Checking, Early, Cdx, Idx, Staged
<1>5. PublishedCoversTheSource /\ IndexEvidenceIsTrue
  BY <1>1 DEF PublishedCoversTheSource, IndexEvidenceIsTrue, Receipt
<1> QED BY <1>2, <1>3, <1>4, <1>5 DEF Inv

\* Nothing else is looked at.
LEMMA Stutter == ASSUME Inv, UNCHANGED vars PROVE Inv'
<1>1. Shape' /\ EndInv'
  BY DEF Inv, Shape, EndInv, vars, Receipt
<1>2. EvidenceInv' /\ IndexInv'
  BY DEF Inv, EvidenceInv, IndexInv, vars, Receipt
<1>3. CdxInv'
  BY DEF Inv, CdxInv, vars, Clean
<1>5. PlanInv'
  BY DEF Inv, PlanInv, vars
<1>6. SourceInv'
  BY DEF Inv, SourceInv, vars, Clean, Reading
<1>4. PublishedCoversTheSource' /\ IndexEvidenceIsTrue'
  BY DEF Inv, PublishedCoversTheSource, IndexEvidenceIsTrue, vars, Receipt, Dataset
<1> QED BY <1>1, <1>2, <1>3, <1>4, <1>5, <1>6 DEF Inv

\* The invariant is inductive (api.py, planning.py, preflight.py and
\* engine/run.py step by step).
THEOREM Invariance == Spec => []Inv
<1>1. Init => Inv
  BY Initially
<1>2. Inv /\ [Next]_vars => Inv'
  <2>1. CASE Stops /\ Inv
    BY <2>1, StopStep
  <2>2. CASE Inv /\ Next /\ ~Stops
    BY <2>2, ShapeStep, EndStep, EvidenceStep, IndexStep, CdxStep, PlanStep, SourceStep, CoverStep,
       TrueEvidenceStep DEF Inv
  <2>3. CASE Inv /\ UNCHANGED vars
    BY <2>3, Stutter
  <2> QED BY <2>1, <2>2, <2>3
<1> QED BY <1>1, <1>2, PTL DEF Spec

\* A call tells the truth about its end, whatever the source, the caller's
\* arguments, the backend and the other programs do: the terminal event of
\* ProgressController.complete is emitted once, by a call that did its work, a call
\* that was refused or cancelled left no completed dataset behind, and one that
\* failed left one only if it failed behind its durable receipt (run.py 1531-1576).
THEOREM EndIsTruthful == Spec => []TruthfulEnd
<1>1. Inv => TruthfulEnd
  BY DEF Inv, Shape, EndInv, TruthfulEnd, Success, BuildingPlan, Checking, Early, Cdx, Idx, Staged, Engine
<1> QED BY <1>1, Invariance, PTL

\* Whatever an index backend answers, the evidence of a published dataset is
\* true of the files in it (_run_vfp_indexed_rebuild_and_verify).
THEOREM EvidenceIsTrue == Spec => []IndexEvidenceIsTrue
<1>1. Inv => IndexEvidenceIsTrue
  BY DEF Inv
<1> QED BY <1>1, Invariance, PTL

\* What is published is the whole source the engine checked
\* (_revalidate_execution_identity, build_engine_plan, PassTwo).
THEOREM PublishedIsTheSource == Spec => []PublishedCoversTheSource
<1>1. Inv => PublishedCoversTheSource
  BY DEF Inv
<1> QED BY <1>1, Invariance, PTL

-----------------------------------------------------------------------------
(* A retry of a completed call.  Its preflight sees what the first call's  *)
(* saw, and the engine finds its own receipt.                              *)

CapabilityFits ==
  setup.capability = Absent \/ CapabilityIsValid(setup.capability, setup.associates)

\* The checks that look at the plan and the backend alone.
PlanPasses ==
  /\ check_fields(plan.tables) = {}
  /\ check_policy_consistency(plan) = {}
  /\ check_capabilities(plan, Capability) = {}

\* What the capacity scans say of the source the plan was made for.
CapacityPasses ==
  "PSEUDONYMIZE_REVERSIBLE" \in plan.policy.classes =>
    LET text == capacity_sufficient(plan.fingerprint.tables, plan)
        keys == numeric_relation_capacity(plan.fingerprint.tables, plan.numeric)
    IN  /\ text # Absent
        /\ CapacityErrors(text) = {}
        /\ CapacityErrors(keys.outcome) = {}
        /\ ~keys.unwritable

\* The schemas of that source can be read once more.
SchemasPass ==
  \A t \in DOMAIN plan.tables :
     /\ t \in DOMAIN plan.fingerprint.tables
     /\ plan.fingerprint.tables[t].readable
     /\ FieldsWith(plan.fingerprint.tables[t], plan.resolved, "UNSAFE") = {}

Conflict == {"DESTINATION_CONFLICT"}

\* The strict walk succeeds and finds what the plan was made for.
SourceIsPlanned ==
  ~WalkFails(tree, TRUE) /\ compute_source_fingerprint(tree, TRUE) = plan.fingerprint

WalkedFiles == enumerate_in_scope_paths(tree, TRUE)

\* What preflight has established when it found nothing wrong but the destination.
CheckInv ==
  /\ tree \in {s.tree : s \in Starts} \cup Edits
  /\ pc \in Checking \cup Engine => CapabilityFits
  /\ pc = "verify_source" /\ ~ghost.racy_check => local.files = WalkedFiles
  /\ pc \in {"destination", "checks", "capacity"} /\ local.errors \subseteq Conflict =>
       /\ local.verified
       /\ ~ghost.racy_check => local.files = WalkedFiles /\ SourceIsPlanned
  /\ pc \in {"capacity", "storage", "verdict"} /\ local.errors \subseteq Conflict => PlanPasses
  /\ pc \in {"storage", "verdict"} /\ local.errors \subseteq Conflict =>
       ghost.racy_check \/ CapacityPasses
  /\ pc \in Early \cup Staged => PlanPasses /\ (ghost.racy_check \/ CapacityPasses)

\* What the engine has established when it comes to publish.
EngineInv ==
  /\ pc \in Engine \ {"revalidate"} => ~paths_overlap(setup.paths)
  /\ pc \in (Early \ {"revalidate"}) \cup Staged =>
       /\ compute_source_fingerprint(ghost.seen, FALSE) = plan.fingerprint
       /\ plan.fingerprint # Absent
  /\ Reading /\ ~ghost.racy_run => tree = ghost.seen
  /\ pc \in (Early \ {"revalidate", "directives"}) \cup Staged => ghost.racy_run \/ SchemasPass
  /\ pc \in {"existing", "pass_one", "pass_two"} \cup Staged =>
       vault.kind = "file" /\ vault.identity = plan.fingerprint
  /\ pc \in {"pass_one", "pass_two"} \cup Staged => Receipt = Absent

\* A receipt stands for a call that passed all of this.
ReceiptInv ==
  Receipt # Absent =>
    /\ vault.kind = "file" /\ vault.identity = plan.fingerprint /\ plan.fingerprint # Absent
    /\ Receipt.output.kind = "full"
    /\ CapabilityFits /\ ~paths_overlap(setup.paths) /\ PlanPasses
    /\ ~ghost.published.hasty => CapacityPasses /\ SchemasPass

\* The world of a retry that has nothing to complain of.
Undisturbed ==
  /\ call = "pseudonymize" /\ ghost.steady /\ Receipt # Absent /\ ~ghost.published.hasty
  /\ out = Receipt.output /\ ~vault.leftover
  /\ SourceIsPlanned
  /\ storage_errors(tree, WalkedFiles, disk, plan.policy.recovery_enabled) = {}

RetryInv ==
  Undisturbed =>
    /\ pc \in Checking \ {"verify_files"} => local.files = WalkedFiles
    /\ pc \in Checking \ {"verify_files", "verify_source"} => local.verified
    /\ pc \in {"verify_source", "destination"} => local.errors = {}
    /\ pc \in {"checks", "capacity", "storage", "verdict"} => local.errors = Conflict
    /\ pc = "idle" => outcome \notin {"refused", "failed"}

\* Nobody but build_plan makes a plan, and nobody changes the arguments.
LEMMA Frame ==
  ASSUME Inv, Next
  PROVE  /\ setup' = setup
         /\ plan' = plan \/ (Assemble /\ plan = Absent)
         /\ tree' = tree \/ EditSource
<1>1. CASE RebuildCdx \/ VerifyCdx \/ AssociateIdx \/ RebuildIdx \/ VerifyIdx
  BY <1>1, RebuildCdxEffect, VerifyCdxEffect, AssociateIdxEffect, RebuildIdxEffect, VerifyIdxEffect
     DEF Inv, Moves, Stops
<1>2. CASE Assemble
  BY <1>2 DEF Assemble, Fails, Raise, Keep, world, Inv, EvidenceInv, BuildingPlan
<1>3. CASE CallBuildPlan \/ Enumerate \/ Discover \/ Fingerprint \/ EvaluateTable
  BY <1>3 DEF CallBuildPlan, Enumerate, Discover, Fingerprint, EvaluateTable, Fails, Raise, Goto, Keep,
     world
<1>4. CASE CallPreflight \/ CallPseudonymize \/ VerifyFiles \/ VerifySource \/ CheckDestination \/ CheckPlan
  BY <1>4 DEF CallPreflight, CallPseudonymize, CallWithPlan, VerifyFiles, VerifySource, CheckDestination,
     CheckPlan, Goto, Keep, world
<1>5. CASE ScanCapacity \/ CheckStorage \/ Verdict \/ Gate
  BY <1>5 DEF ScanCapacity, CheckStorage, Verdict, Gate, Fails, Raise, Goto, Keep, world, complete
<1>6. CASE Revalidate \/ BuildEnginePlan \/ OpenVault \/ ExistingResult \/ PassOne \/ PassTwo
  BY <1>6 DEF Revalidate, BuildEnginePlan, OpenVault, ExistingResult, PassOne, PassTwo, Fails, Raise, Goto,
     Keep, world
<1>7. CASE DataOnlyEvidence \/ CdxDone \/ IdxDone \/ Publish \/ Release \/ Complete
  BY <1>7 DEF DataOnlyEvidence, CdxDone, IdxDone, Publish, Promotes, Release, Complete, Fails, Misbehaves,
     Raise, Goto, Keep, world, complete
<1>8. CASE EditSource \/ EditDestination \/ EditVault \/ EditDisk
  BY <1>8 DEF EditSource, EditDestination, EditVault, EditDisk, Edit
<1>9. CASE Cancel \/ BreakDown \/ PublishHalfway \/ ReleaseFails
  BY <1>9, EndingStops, ReleaseFailsEffect DEF Inv, Stops
<1> QED BY <1>1, <1>2, <1>3, <1>4, <1>5, <1>6, <1>7, <1>8, <1>9 DEF Next

\* What is said of the plan and the arguments alone stays true of them.
LEMMA PlanFacts ==
  ASSUME UNCHANGED <<plan, setup>>
  PROVE  /\ CapabilityFits' <=> CapabilityFits
         /\ PlanPasses' <=> PlanPasses
         /\ CapacityPasses' <=> CapacityPasses
         /\ SchemasPass' <=> SchemasPass
BY DEF CapabilityFits, PlanPasses, Capability, CapacityPasses, SchemasPass

\* The strict walk finds what the quiet one does, or fails.
LEMMA StrictWalk ==
  ASSUME NEW src, ~WalkFails(src, TRUE)
  PROVE  /\ enumerate_in_scope_paths(src, TRUE) = enumerate_in_scope_paths(src, FALSE)
         /\ enumerate_in_scope_paths(src, TRUE).tables = VisibleTables(src)
         /\ compute_source_fingerprint(src, TRUE) = compute_source_fingerprint(src, FALSE)
         /\ compute_source_fingerprint(src, TRUE).tables = Restrict(src.tables, VisibleTables(src))
<1>1. ~WalkFails(src, FALSE)
  BY DEF WalkFails
<1>2. enumerate_in_scope_paths(src, TRUE) = enumerate_in_scope_paths(src, FALSE)
  BY <1>1 DEF enumerate_in_scope_paths
<1>3. compute_source_fingerprint(src, TRUE) = compute_source_fingerprint(src, FALSE)
  BY <1>1, <1>2 DEF compute_source_fingerprint
<1>4. /\ enumerate_in_scope_paths(src, FALSE).tables = VisibleTables(src)
      /\ compute_source_fingerprint(src, FALSE).tables = Restrict(src.tables, VisibleTables(src))
  BY QuietWalk, FingerprintNames
<1> QED BY <1>2, <1>3, <1>4

\* The checks of the plan and the scans have error codes of their own.
LEMMA OtherCodes ==
  /\ \A tables : check_fields(tables) \cap Conflict = {}
  /\ \A p : check_policy_consistency(p) \cap Conflict = {}
  /\ \A p, capability : check_capabilities(p, capability) \cap Conflict = {}
  /\ \A end : CapacityErrors(end) \cap Conflict = {}
<1>1. \A tables : check_fields(tables) \cap Conflict = {}
  BY DEF check_fields, Errors, Conflict
<1>2. \A p : check_policy_consistency(p) \cap Conflict = {}
  BY DEF check_policy_consistency, Errors, Conflict
<1>3. \A p, capability : check_capabilities(p, capability) \cap Conflict = {}
  BY DEF check_capabilities, Errors, Conflict
<1>4. \A end : CapacityErrors(end) \cap Conflict = {}
  BY DEF CapacityErrors, Errors, Conflict
<1> QED BY <1>1, <1>2, <1>3, <1>4

\* The passes and the index stage, and what they leave alone.
PassStep ==
  PassOne \/ PassTwo \/ DataOnlyEvidence \/ RebuildCdx \/ VerifyCdx \/ CdxDone \/ AssociateIdx
  \/ RebuildIdx \/ VerifyIdx \/ IdxDone

LEMMA PassMoves ==
  ASSUME Inv, PassStep, ~Stops
  PROVE  /\ pc \in {"pass_one", "pass_two"} \cup Staged /\ pc' \in {"pass_two"} \cup Staged
         /\ UNCHANGED <<tree, out, vault, disk, setup, plan, call, ghost, outcome>>
<1>1. CASE RebuildCdx
  BY <1>1, RebuildCdxEffect DEF Inv, Moves, RebuildCdx, Staged, Cdx
<1>2. CASE VerifyCdx
  BY <1>2, VerifyCdxEffect DEF Inv, Moves, VerifyCdx, Staged, Cdx
<1>3. CASE AssociateIdx
  BY <1>3, AssociateIdxEffect DEF Inv, Moves, AssociateIdx, Staged, Idx
<1>4. CASE RebuildIdx
  BY <1>4, RebuildIdxEffect DEF Inv, Moves, RebuildIdx, Staged, Idx
<1>5. CASE VerifyIdx
  BY <1>5, VerifyIdxEffect DEF Inv, Moves, VerifyIdx, Staged, Idx
<1>6. CASE PassOne \/ PassTwo \/ DataOnlyEvidence
  BY <1>6, FailureStops DEF PassOne, PassTwo, DataOnlyEvidence, Goto, Keep, world, Staged, Cdx
<1>7. CASE CdxDone \/ IdxDone
  BY <1>7, FailureStops DEF CdxDone, IdxDone, Goto, Keep, world, Staged, Cdx, Idx
<1> QED BY <1>1, <1>2, <1>3, <1>4, <1>5, <1>6, <1>7 DEF PassStep

\* The scans add a capacity and error codes.
LEMMA Scanned ==
  ASSUME Shape, NEW c, NEW codes, local' = [local EXCEPT !.capacity = c, !.errors = AddErrors(codes)]
  PROVE  /\ local'.files = local.files /\ local'.verified = local.verified
         /\ local'.errors = local.errors \cup codes
<1> DEFINE e == AddErrors(codes)
<1>1. local' = [local EXCEPT !.capacity = c, !.errors = e]
  OBVIOUS
<1>2. {"files", "verified", "errors", "capacity"} \subseteq DOMAIN local
  BY DEF Shape
<1> HIDE DEF e
<1>3. local'.files = local.files /\ local'.verified = local.verified /\ local'.errors = e
  BY <1>1, <1>2
<1> QED BY <1>3 DEF e, AddErrors

\* Preflight collects what it establishes, one check after another.
LEMMA CheckStep ==
  ASSUME Inv, CheckInv, Next, ~Stops
  PROVE  CheckInv'
<1> DEFINE Trees == {s.tree : s \in Starts} \cup Edits
<1>0. tree' \in Trees /\ setup' = setup /\ (plan' = plan \/ (Assemble /\ plan = Absent))
  BY Frame DEF CheckInv, EditSource
<1> HIDE DEF Trees
<1>1. CASE pc' \notin Checking \cup Engine
  BY <1>0, <1>1 DEF CheckInv, Trees, Checking, Early, Staged, Engine
<1>2. CASE CallBuildPlan \/ Enumerate \/ Discover \/ Fingerprint \/ EvaluateTable \/ Assemble \/ Verdict
           \/ Complete \/ Cancel \/ BreakDown \/ PublishHalfway \/ ReleaseFails
  BY <1>1, <1>2, FailureStops, EndingStops, ReleaseFailsEffect DEF Inv, CallBuildPlan, Enumerate, Discover,
     Fingerprint, EvaluateTable, Assemble, Verdict, Complete, Goto, Checking, Engine, Early, Staged, Cdx, Idx
<1>3. CASE CallPreflight \/ CallPseudonymize
  <2>1. pc' \in {"idle", "verify_files"} /\ (pc' = "verify_files" => CapabilityFits')
    BY <1>3, <1>0 DEF CallPreflight, CallPseudonymize, CallWithPlan, CapabilityFits
  <2> QED BY <2>1, <1>0 DEF CheckInv, Trees, Checking, Engine, Early, Staged, Cdx, Idx
<1> SUFFICES ASSUME pc \in Checking \cup Engine, UNCHANGED <<plan, setup>>
             PROVE  CheckInv'
  <2>1. CASE EditSource \/ EditDestination \/ EditVault \/ EditDisk
    BY <2>1, <1>1 DEF EditSource, EditDestination, EditVault, EditDisk, Edit
  <2> QED
  BY <1>0, <1>1, <1>2, <1>3, <2>1 DEF Next, VerifyFiles, VerifySource, CheckDestination, CheckPlan, ScanCapacity,
     CheckStorage, Gate, Revalidate, BuildEnginePlan, OpenVault, ExistingResult, PassOne, PassTwo,
     DataOnlyEvidence, RebuildCdx, VerifyCdx, CdxDone, AssociateIdx, RebuildIdx, VerifyIdx, IdxDone, Publish,
     Release, Assemble, Checking, Engine, Early, Staged, Cdx, Idx
<1>4. /\ CapabilityFits' <=> CapabilityFits
      /\ PlanPasses' <=> PlanPasses
      /\ CapacityPasses' <=> CapacityPasses
  BY PlanFacts
<1>5. CapabilityFits'
  BY <1>4 DEF CheckInv
<1>6. CASE VerifyFiles
  <2>1. pc' = "verify_source" /\ tree' = tree /\ local'.files = WalkedFiles
    BY <1>6 DEF VerifyFiles, Goto, world, Inv, Shape, WalkedFiles
  <2> QED BY <2>1, <1>0, <1>5 DEF CheckInv, Trees, WalkedFiles, Early, Staged, Cdx, Idx
<1>7. CASE VerifySource
  <2> DEFINE current == compute_source_fingerprint(tree, TRUE)
  <2>1. /\ pc = "verify_source" /\ pc' = "destination" /\ tree' = tree
        /\ ghost'.racy_check = ghost.racy_check
    BY <1>7 DEF VerifySource, Goto, world, Inv, Shape
  <2>2. local' = IF local.files = Absent THEN local
                 ELSE IF current = Absent THEN [local EXCEPT !.errors = AddErrors({"SOURCE_UNAVAILABLE"})]
                 ELSE [local EXCEPT
                   !.errors = AddErrors(Errors(current # plan.fingerprint, "SOURCE_FINGERPRINT_MISMATCH")),
                   !.verified = (current = plan.fingerprint)]
    BY <1>7 DEF VerifySource
  <2> HIDE DEF current
  <2>3. local'.errors \subseteq Conflict =>
          current # Absent /\ current = plan.fingerprint /\ local'.verified
    BY <2>1, <2>2 DEF Inv, SourceInv, Shape, AddErrors, Errors, Conflict
  <2>4. current # Absent => ~WalkFails(tree, TRUE)
    BY DEF current, compute_source_fingerprint
  <2>5. local'.files = local.files
    BY <2>2 DEF Inv, Shape
  <2>6. ~ghost.racy_check => local.files = WalkedFiles
    BY <2>1 DEF CheckInv
  <2> QED BY <2>1, <2>3, <2>4, <2>5, <2>6, <1>0, <1>5 DEF CheckInv, Trees, WalkedFiles, SourceIsPlanned, current,
       Early, Staged, Cdx, Idx
<1>8. CASE CheckDestination
  <2>1. /\ pc = "destination" /\ pc' = "checks" /\ tree' = tree /\ ghost' = ghost
        /\ local'.files = local.files /\ local'.verified = local.verified
        /\ local.errors \subseteq local'.errors
    BY <1>8 DEF CheckDestination, Goto, world, Inv, Shape, AddErrors
  <2> QED BY <2>1, <1>0, <1>5 DEF CheckInv, Trees, WalkedFiles, SourceIsPlanned, Early, Staged, Cdx, Idx
<1>9. CASE CheckPlan
  <2> DEFINE found == check_fields(plan.tables) \cup check_policy_consistency(plan)
                      \cup check_capabilities(plan, Capability)
  <2>1. /\ pc = "checks" /\ pc' = "capacity" /\ tree' = tree /\ ghost' = ghost
        /\ local'.files = local.files /\ local'.verified = local.verified
        /\ local'.errors = local.errors \cup found
    BY <1>9 DEF CheckPlan, Goto, world, Inv, Shape, AddErrors
  <2>2. found \cap Conflict = {}
    BY OtherCodes
  <2>3. local'.errors \subseteq Conflict => found = {}
    BY <2>1, <2>2
  <2>4. local'.errors \subseteq Conflict => PlanPasses
    BY <2>3 DEF PlanPasses
  <2> HIDE DEF found
  <2> QED BY <2>1, <2>4, <1>0, <1>4, <1>5 DEF CheckInv, Trees, WalkedFiles, SourceIsPlanned, Early, Staged, Cdx,
       Idx
<1>10. CASE ScanCapacity
  <2> DEFINE files == Restrict(tree.tables, local.files.tables)
             text == capacity_sufficient(files, plan)
             keys == numeric_relation_capacity(files, plan.numeric)
             found == CapacityErrors(text) \cup CapacityErrors(keys.outcome)
                      \cup Errors(keys.unwritable, "NUMERIC_KEY_RECOVERY_UNWRITABLE")
  <2>1. pc = "capacity" /\ pc' = "storage" /\ tree' = tree /\ ghost' = ghost
    BY <1>10, FailureStops DEF ScanCapacity, Goto, world
  <2>2. \/ local' = local /\ ~(local.verified /\ "PSEUDONYMIZE_REVERSIBLE" \in plan.policy.classes)
        \/ text # Absent /\ local' = [local EXCEPT !.capacity = [files |-> files, text |-> text, keys |-> keys],
                                                   !.errors = AddErrors(found)]
    BY <1>10, FailureStops, <2>1 DEF ScanCapacity
  <2>3. local.errors \subseteq local'.errors
    <3> DEFINE capacity == [files |-> files, text |-> text, keys |-> keys]
    <3>1. local' = local \/ local' = [local EXCEPT !.capacity = capacity, !.errors = AddErrors(found)]
      BY <2>2
    <3> HIDE DEF capacity, found
    <3> QED BY <3>1, Scanned DEF Inv
  <2>4. ASSUME local'.errors \subseteq Conflict, ~ghost.racy_check PROVE CapacityPasses
    <3>1. local.verified /\ local.files = WalkedFiles /\ SourceIsPlanned
      BY <2>1, <2>3, <2>4 DEF CheckInv
    <3>2. files = plan.fingerprint.tables
      BY <3>1, StrictWalk DEF SourceIsPlanned, WalkedFiles
    <3>3. CASE "PSEUDONYMIZE_REVERSIBLE" \in plan.policy.classes
      <4>1. text # Absent /\ local'.errors = local.errors \cup found
        <5> HIDE DEF files, text, keys, found
        <5>1. text # Absent
          BY <2>2, <3>1, <3>3
        <5>2. local' = [local EXCEPT !.capacity = [files |-> files, text |-> text, keys |-> keys],
                                     !.errors = AddErrors(found)]
          BY <2>2, <3>1, <3>3
        <5> DEFINE capacity == [files |-> files, text |-> text, keys |-> keys]
        <5>3. local' = [local EXCEPT !.capacity = capacity, !.errors = AddErrors(found)]
          BY <5>2
        <5> HIDE DEF capacity
        <5> QED BY <5>1, <5>3, Scanned DEF Inv
      <4>2. found \cap Conflict = {}
        BY OtherCodes DEF Errors, Conflict
      <4>3. found = {}
        BY <4>1, <4>2, <2>4
      <4>4. CapacityErrors(text) = {} /\ CapacityErrors(keys.outcome) = {} /\ ~keys.unwritable
        BY <4>3 DEF Errors
      <4> HIDE DEF files, found
      <4> QED BY <3>2, <4>1, <4>4 DEF CapacityPasses
    <3>4. CASE "PSEUDONYMIZE_REVERSIBLE" \notin plan.policy.classes
      BY <3>4 DEF CapacityPasses
    <3> QED BY <3>3, <3>4
  <2>5. local'.errors \subseteq Conflict => PlanPasses
    BY <2>1, <2>3 DEF CheckInv
  <2> HIDE DEF files, text, keys, found
  <2> QED BY <2>1, <2>4, <2>5, <1>0, <1>4, <1>5 DEF CheckInv, Trees, Early, Staged, Cdx, Idx
<1>11. CASE CheckStorage
  <2>1. /\ pc = "storage" /\ pc' = "verdict" /\ tree' = tree /\ local.errors \subseteq local'.errors
        /\ ghost'.racy_check = ghost.racy_check
    BY <1>11 DEF CheckStorage, Goto, world, Inv, Shape, AddErrors
  <2> QED BY <2>1, <1>0, <1>4, <1>5 DEF CheckInv, Trees, Early, Staged, Cdx, Idx
<1>12. CASE Gate
  <2>1. pc = "verdict" /\ pc' \in {"idle", "revalidate"} /\ UNCHANGED <<tree, ghost>>
    BY <1>12 DEF Gate, Raise, world
  <2>2. pc' = "revalidate" => local.errors \subseteq Conflict
    BY <1>12 DEF Gate, Raise, RetryCandidate, Conflict
  <2> QED BY <2>1, <2>2, <1>0, <1>1, <1>4, <1>5 DEF CheckInv, Trees, Early, Staged, Cdx, Idx
<1>13. CASE Revalidate \/ BuildEnginePlan \/ OpenVault \/ ExistingResult \/ Publish \/ PassStep
  <2>1. /\ pc \in Early \cup Staged /\ pc' \in Engine
        /\ pc' \notin Checking /\ ghost'.racy_check = ghost.racy_check
    <3>1. CASE PassStep
      BY <3>1, PassMoves DEF Early, Engine, Checking, Staged, Cdx, Idx
    <3>2. CASE Revalidate \/ BuildEnginePlan \/ OpenVault \/ ExistingResult \/ Publish
      BY <3>2, FailureStops DEF Revalidate, BuildEnginePlan, OpenVault, ExistingResult, Publish, Goto, world,
         Inv, Shape, Early, Engine, Checking, Staged, Cdx, Idx
    <3> QED BY <1>13, <3>1, <3>2
  <2>2. PlanPasses /\ (ghost.racy_check \/ CapacityPasses)
    BY <2>1 DEF CheckInv
  <2> QED BY <2>1, <2>2, <1>0, <1>4, <1>5 DEF CheckInv, Trees, Checking
<1>14. CASE EditSource \/ EditDestination \/ EditVault \/ EditDisk
  <2>1. /\ pc' = pc /\ local' = local
        /\ ghost.racy_check => ghost'.racy_check
        /\ tree' = tree \/ (CheckingSource => ghost'.racy_check)
    BY <1>14 DEF EditSource, EditDestination, EditVault, EditDisk, Edit, Inv, Shape
  <2> QED BY <2>1, <1>0, <1>4, <1>5 DEF CheckInv, Trees, WalkedFiles, SourceIsPlanned, CheckingSource
<1>15. CASE Release
  <2>1. pc' = "complete"
    BY <1>15 DEF Release, Goto
  <2> QED BY <2>1, <1>0, <1>5 DEF CheckInv, Trees, Checking, Early, Staged, Cdx, Idx
<1> QED BY <1>2, <1>3, <1>6, <1>7, <1>8, <1>9, <1>10, <1>11, <1>12, <1>13, <1>14, <1>15 DEF Next, PassStep

\* The engine looks at the source again, opens its vault, and goes on.
LEMMA EngineStep ==
  ASSUME Inv, CheckInv, EngineInv, Next, ~Stops
  PROVE  EngineInv'
<1>1. CASE pc' \notin Engine
  BY <1>1 DEF EngineInv, Reading, Engine, Early, Staged
<1>2. CASE CallBuildPlan \/ Enumerate \/ Discover \/ Fingerprint \/ EvaluateTable \/ Assemble \/ Verdict
           \/ Complete \/ Cancel \/ BreakDown \/ PublishHalfway \/ ReleaseFails
  BY <1>1, <1>2, FailureStops, EndingStops, ReleaseFailsEffect DEF Inv, CallBuildPlan, Enumerate, Discover,
     Fingerprint, EvaluateTable, Assemble, Verdict, Complete, Goto, Engine, Early, Staged, Cdx, Idx
<1>3. CASE CallPreflight \/ CallPseudonymize \/ VerifyFiles \/ VerifySource \/ CheckDestination \/ CheckPlan
           \/ ScanCapacity \/ CheckStorage
  BY <1>1, <1>3, FailureStops DEF CallPreflight, CallPseudonymize, CallWithPlan, VerifyFiles, VerifySource,
     CheckDestination, CheckPlan, ScanCapacity, CheckStorage, Goto, Engine, Early, Staged, Cdx, Idx
<1>4. CASE Gate
  <2>1. pc' \in {"idle", "revalidate"}
    BY <1>4 DEF Gate, Raise
  <2> QED BY <2>1 DEF EngineInv, Reading, Engine, Early, Staged, Cdx, Idx
<1>5. CASE Revalidate
  <2>1. /\ pc' = "directives" /\ ~paths_overlap(setup.paths)
        /\ compute_source_fingerprint(tree, FALSE) = plan.fingerprint
        /\ UNCHANGED <<tree, plan, setup>> /\ ghost'.seen = tree /\ ~ghost'.racy_run
    BY <1>5, FailureStops DEF Revalidate, Goto, Keep, world, Inv, Shape
  <2>2. plan.fingerprint # Absent
    BY <2>1, TreesAssumption DEF CheckInv
  <2> QED BY <2>1, <2>2 DEF EngineInv, Early, Staged, Cdx, Idx
<1>6. CASE BuildEnginePlan
  <2>1. /\ pc = "directives" /\ pc' = "vault" /\ UNCHANGED <<tree, plan, setup, ghost, vault>>
        /\ \A t \in DOMAIN plan.tables :
              /\ t \in VisibleTables(tree) /\ tree.tables[t].readable
              /\ FieldsWith(tree.tables[t], plan.resolved, "UNSAFE") = {}
    BY <1>6, FailureStops DEF BuildEnginePlan, Goto, Keep, world
  <2>2. /\ compute_source_fingerprint(ghost.seen, FALSE) = plan.fingerprint
        /\ ~paths_overlap(setup.paths) /\ plan.fingerprint # Absent
        /\ ~ghost.racy_run => tree = ghost.seen
    BY <2>1 DEF EngineInv, Engine, Early, Reading
  <2>3. ghost.racy_run \/ SchemasPass
    <3> SUFFICES ASSUME ~ghost.racy_run PROVE SchemasPass
      OBVIOUS
    <3>1. plan.fingerprint.tables = Restrict(tree.tables, VisibleTables(tree))
      BY <2>2, FingerprintNames
    <3>2. \A t \in VisibleTables(tree) :
             t \in DOMAIN plan.fingerprint.tables /\ plan.fingerprint.tables[t] = tree.tables[t]
      BY <3>1 DEF Restrict
    <3> QED BY <2>1, <3>2 DEF SchemasPass
  <2>4. SchemasPass' <=> SchemasPass
    BY <2>1, PlanFacts
  <2> QED BY <2>1, <2>2, <2>3, <2>4 DEF EngineInv, Reading, Early, Staged, Cdx, Idx
<1>7. CASE OpenVault
  <2>1. /\ pc = "vault" /\ pc' = "existing" /\ UNCHANGED <<tree, plan, setup, ghost>>
        /\ vault'.kind = "file" /\ vault'.identity = plan.fingerprint
    BY <1>7, FailureStops DEF OpenVault, NoVault, Goto, Keep
  <2>2. SchemasPass' <=> SchemasPass
    BY <2>1, PlanFacts
  <2> QED BY <2>1, <2>2 DEF EngineInv, Reading, Engine, Early, Staged, Cdx, Idx
<1>8. CASE ExistingResult
  <2>1. /\ pc = "existing" /\ UNCHANGED <<tree, plan, setup, ghost, vault>>
        /\ pc' = IF Receipt = Absent THEN "pass_one" ELSE "release"
    BY <1>8, FailureStops DEF ExistingResult, Goto, Keep, world, Receipt
  <2>2. SchemasPass' <=> SchemasPass
    BY <2>1, PlanFacts
  <2> QED BY <2>1, <2>2 DEF EngineInv, Receipt, Reading, Engine, Early, Staged, Cdx, Idx
<1>9. CASE PassStep
  <2>1. /\ pc \in {"pass_one", "pass_two"} \cup Staged /\ pc' \in {"pass_two"} \cup Staged
        /\ UNCHANGED <<tree, setup, plan, vault, ghost>>
    BY <1>9, PassMoves
  <2>2. SchemasPass' <=> SchemasPass
    BY <2>1, PlanFacts
  <2>3. Reading' => Reading
    BY <1>9, <2>1, FailureStops DEF PassStep, PassOne, PassTwo, DataOnlyEvidence, RebuildCdx, VerifyCdx, CdxDone,
       AssociateIdx, RebuildIdx, VerifyIdx, IdxDone, Goto, Reading, Staged, Cdx, Idx
  <2> QED BY <2>1, <2>2, <2>3 DEF EngineInv, Receipt, Engine, Early, Staged, Cdx, Idx
<1>10. CASE Publish
  <2>1. pc = "publish" /\ pc' = "release" /\ setup' = setup
    BY <1>10, FailureStops DEF Publish, Goto, Keep
  <2> QED BY <2>1 DEF EngineInv, Reading, Engine, Early, Staged, Cdx, Idx
<1>11. CASE EditSource
  <2>1. /\ UNCHANGED <<pc, setup, plan, vault>> /\ ghost'.seen = ghost.seen
        /\ ghost'.racy_run = (ghost.racy_run \/ Reading)
    BY <1>11 DEF EditSource, Edit, Inv, Shape
  <2>2. SchemasPass' <=> SchemasPass
    BY <2>1, PlanFacts
  <2> QED BY <2>1, <2>2 DEF EngineInv, Reading, Receipt
<1>12. CASE EditDestination \/ EditDisk
  <2>1. /\ UNCHANGED <<pc, setup, plan, vault, tree>> /\ ghost'.seen = ghost.seen
        /\ ghost'.racy_run = ghost.racy_run
    BY <1>12 DEF EditDestination, EditDisk, Edit, Inv, Shape
  <2>2. SchemasPass' <=> SchemasPass
    BY <2>1, PlanFacts
  <2> QED BY <2>1, <2>2 DEF EngineInv, Reading, Receipt
<1>13. CASE EditVault
  <2>1. /\ UNCHANGED <<pc, setup, plan, tree>> /\ ghost'.seen = ghost.seen
        /\ ghost'.racy_run = ghost.racy_run
        /\ pc \notin {"existing", "pass_one", "pass_two"} \cup Staged
    BY <1>13 DEF EditVault, Edit, Inv, Shape, Staged, Cdx, Idx
  <2>2. SchemasPass' <=> SchemasPass
    BY <2>1, PlanFacts
  <2> QED BY <2>1, <2>2 DEF EngineInv, Reading
<1>14. CASE Release
  <2>1. pc = "release" /\ pc' = "complete" /\ setup' = setup
    BY <1>14 DEF Release, Goto, Keep
  <2> QED BY <2>1 DEF EngineInv, Reading, Engine, Early, Staged, Cdx, Idx
<1> QED BY <1>2, <1>3, <1>4, <1>5, <1>6, <1>7, <1>8, <1>9, <1>10, <1>11, <1>12, <1>13, <1>14 DEF Next, PassStep

\* Steps that leave the plan, the last publication and the vault alone, but for remains.
LEMMA ReceiptStays ==
  ASSUME ReceiptInv, KeepsVault \/ UNCHANGED vault, UNCHANGED <<plan, setup>>,
         ghost'.published = ghost.published
  PROVE  ReceiptInv'
<1>1. /\ CapabilityFits' <=> CapabilityFits
      /\ PlanPasses' <=> PlanPasses
      /\ CapacityPasses' <=> CapacityPasses
      /\ SchemasPass' <=> SchemasPass
  BY PlanFacts
<1>2. Receipt' = Receipt /\ vault'.kind = vault.kind /\ vault'.identity = vault.identity
  BY DEF Receipt, KeepsVault
<1> QED BY <1>1, <1>2 DEF ReceiptInv

\* Publish makes the receipt of a call that passed every check.
LEMMA ReceiptStep ==
  ASSUME Inv, CheckInv, EngineInv, ReceiptInv, Next
  PROVE  ReceiptInv'
<1>1. CASE Stops
  <2>1. KeepsVault /\ UNCHANGED <<plan, setup>> /\ ghost'.published = ghost.published
    BY <1>1 DEF Stops, Inv, Shape
  <2> QED BY <2>1, ReceiptStays
<1> SUFFICES ASSUME ~Stops PROVE ReceiptInv'
  BY <1>1
<1>2. CASE PassStep
  BY <1>2, PassMoves, ReceiptStays
<1>3. CASE CallBuildPlan \/ Enumerate \/ Discover \/ Fingerprint \/ EvaluateTable \/ CallPreflight
           \/ CallPseudonymize \/ VerifyFiles \/ VerifySource \/ CheckDestination \/ CheckPlan
  <2>1. UNCHANGED <<vault, plan, setup>> /\ ghost'.published = ghost.published
    BY <1>3, FailureStops DEF CallBuildPlan, Enumerate, Discover, Fingerprint, EvaluateTable, CallPreflight,
       CallPseudonymize, CallWithPlan, VerifyFiles, VerifySource, CheckDestination, CheckPlan, Goto, Keep, world,
       Inv, Shape
  <2> QED BY <2>1, ReceiptStays
<1>4. CASE ScanCapacity \/ CheckStorage \/ Verdict \/ Gate \/ Revalidate \/ BuildEnginePlan \/ ExistingResult
           \/ Release \/ Complete
  <2>1. UNCHANGED <<vault, plan, setup>> /\ ghost'.published = ghost.published
    BY <1>4, FailureStops DEF ScanCapacity, CheckStorage, Verdict, Gate, Revalidate, BuildEnginePlan,
       ExistingResult, Release, Complete, complete, Raise, Goto, Keep, world, Inv, Shape
  <2> QED BY <2>1, ReceiptStays
<1>5. CASE Assemble
  <2>1. Receipt' = Absent
    BY <1>5, FailureStops DEF Assemble, world, Inv, EvidenceInv, Receipt, BuildingPlan
  <2> QED BY <2>1 DEF ReceiptInv
<1>6. CASE OpenVault
  <2>1. /\ UNCHANGED <<plan, setup, ghost>>
        /\ vault' = IF vault.kind = "file" THEN vault
                    ELSE [NoVault EXCEPT !.kind = "file", !.identity = plan.fingerprint]
    BY <1>6, FailureStops DEF OpenVault, Goto, Keep
  <2>2. CASE vault' = vault
    BY <2>1, <2>2, ReceiptStays
  <2>3. CASE vault'.receipt = Absent
    BY <2>3 DEF ReceiptInv, Receipt
  <2> QED BY <2>1, <2>2, <2>3 DEF NoVault
<1>7. CASE Publish
  <2>1. /\ pc = "publish" /\ UNCHANGED <<plan, setup>>
        /\ vault' = [vault EXCEPT !.receipt = [output |-> [kind |-> "full", content |-> local.staged],
                                              evidence |-> local.evidence]]
        /\ ghost' = [ghost EXCEPT !.published =
             [tree |-> ghost.seen, walked |-> ghost.walked, racy |-> ghost.racy_plan \/ ghost.racy_run,
              hasty |-> ghost.racy_check \/ ghost.racy_run]]
    BY <1>7, FailureStops DEF Publish, Made, Goto, Keep
  <2>2. Receipt'.output.kind = "full" /\ vault'.kind = vault.kind /\ vault'.identity = vault.identity
    BY <2>1 DEF Inv, Shape, Receipt
  <2>3. ghost'.published.hasty = (ghost.racy_check \/ ghost.racy_run)
    BY <2>1 DEF Inv, Shape
  <2>4. vault.kind = "file" /\ vault.identity = plan.fingerprint /\ plan.fingerprint # Absent
        /\ ~paths_overlap(setup.paths) /\ (ghost.racy_run \/ SchemasPass)
    BY <2>1 DEF EngineInv, Engine, Early, Staged
  <2>5. CapabilityFits /\ PlanPasses /\ (ghost.racy_check \/ CapacityPasses)
    BY <2>1 DEF CheckInv, Engine, Staged
  <2>6. /\ CapabilityFits' <=> CapabilityFits
        /\ PlanPasses' <=> PlanPasses
        /\ CapacityPasses' <=> CapacityPasses
        /\ SchemasPass' <=> SchemasPass
    BY <2>1, PlanFacts
  <2> QED BY <2>1, <2>2, <2>3, <2>4, <2>5, <2>6 DEF ReceiptInv
<1>8. CASE EditSource \/ EditDestination \/ EditDisk
  <2>1. UNCHANGED <<vault, plan, setup>> /\ ghost'.published = ghost.published
    BY <1>8 DEF EditSource, EditDestination, EditDisk, Edit, Inv, Shape
  <2> QED BY <2>1, ReceiptStays
<1>9. CASE EditVault
  BY <1>9 DEF EditVault, NoVault, ReceiptInv, Receipt
<1>10. CASE Cancel \/ BreakDown \/ PublishHalfway
  BY <1>10, EndingStops DEF Inv
<1>11. CASE ReleaseFails
  <2>1. KeepsVault /\ UNCHANGED <<plan, setup>> /\ ghost'.published = ghost.published
    BY <1>11, ReleaseFailsEffect DEF Inv, Shape
  <2> QED BY <2>1, ReceiptStays
<1> QED BY <1>2, <1>3, <1>4, <1>5, <1>6, <1>7, <1>8, <1>9, <1>10, <1>11 DEF Next, PassStep

\* Steps that leave the world alone.
LEMMA UndisturbedStays ==
  ASSUME UNCHANGED <<tree, out, vault, disk, plan, call>>,
         ghost'.steady = ghost.steady, ghost'.published = ghost.published
  PROVE  Undisturbed' <=> Undisturbed
BY DEF Undisturbed, Receipt, SourceIsPlanned, WalkedFiles

\* Preflight of a retry finds the destination taken and nothing else, and no
\* step of it or of the engine fails.
LEMMA RetryStep ==
  ASSUME Inv, CheckInv, EngineInv, ReceiptInv, RetryInv, Next
  PROVE  RetryInv'
<1> SUFFICES ASSUME Undisturbed'
             PROVE  /\ pc' \in Checking \ {"verify_files"} => local'.files = WalkedFiles'
                    /\ pc' \in Checking \ {"verify_files", "verify_source"} => local'.verified
                    /\ pc' \in {"verify_source", "destination"} => local'.errors = {}
                    /\ pc' \in {"checks", "capacity", "storage", "verdict"} => local'.errors = Conflict
                    /\ pc' = "idle" => outcome' \notin {"refused", "failed"}
  BY DEF RetryInv
<1> DEFINE Quiet == UNCHANGED <<tree, out, vault, disk, plan, call>>
                    /\ ghost'.steady = ghost.steady /\ ghost'.published = ghost.published
<1> HIDE DEF Quiet
<1>a. ASSUME Quiet
      PROVE  /\ Undisturbed /\ SourceIsPlanned /\ Receipt # Absent
             /\ storage_errors(tree, WalkedFiles, disk, plan.policy.recovery_enabled) = {}
             /\ ~ghost.published.hasty /\ out = Receipt.output /\ ~vault.leftover
             /\ WalkedFiles' = WalkedFiles
  <2>1. Undisturbed
    BY <1>a, UndisturbedStays DEF Quiet
  <2> QED BY <1>a, <2>1 DEF Undisturbed, Quiet, WalkedFiles
<1>b. ASSUME Quiet
      PROVE  /\ vault.kind = "file" /\ vault.identity = plan.fingerprint /\ out.kind = "full"
             /\ CapabilityFits /\ ~paths_overlap(setup.paths) /\ PlanPasses /\ CapacityPasses /\ SchemasPass
             /\ plan # Absent
  BY <1>a, <1>b DEF ReceiptInv, Inv, EvidenceInv
<1>1. ASSUME ghost'.steady = FALSE PROVE FALSE
  BY <1>1 DEF Undisturbed
<1>2. CASE CallBuildPlan \/ Enumerate \/ Discover \/ Fingerprint \/ EvaluateTable \/ Assemble
  <2>1. vault' = vault /\ plan = Absent
    BY <1>2, FailureStops DEF CallBuildPlan, Enumerate, Discover, Fingerprint, EvaluateTable, Assemble, Fails,
       Inv, EvidenceInv, BuildingPlan, world
  <2>2. Receipt' = Absent
    BY <2>1 DEF Inv, EvidenceInv, Receipt
  <2> QED BY <2>2 DEF Undisturbed
<1>3. CASE CallPreflight
  BY <1>3 DEF CallPreflight, CallWithPlan, Undisturbed
<1>4. CASE CallPseudonymize
  <2>1. UNCHANGED <<vault, setup>> /\ Receipt' # Absent
    BY <1>4 DEF CallPseudonymize, CallWithPlan, world, Undisturbed
  <2>2. CapabilityFits
    BY <2>1 DEF ReceiptInv, Receipt
  <2>3. pc' = "verify_files"
    BY <1>4, <2>2 DEF CallPseudonymize, CallWithPlan, CapabilityFits
  <2> QED BY <2>3
<1>5. CASE VerifyFiles
  <2>1. Quiet /\ pc' = "verify_source"
    BY <1>5 DEF Quiet, VerifyFiles, Goto, Keep, world
  <2>2. /\ local'.files = WalkedFiles
        /\ local'.errors = Errors(paths_overlap(setup.paths), "PATH_OVERLAP")
                           \cup Errors(WalkedFiles = Absent, "SOURCE_UNAVAILABLE")
    BY <1>5 DEF VerifyFiles, WalkedFiles, Inv, Shape
  <2>3. WalkedFiles # Absent
    BY <1>a, <2>1, StrictWalk, TreesAssumption DEF WalkedFiles, SourceIsPlanned, CheckInv
  <2>4. local'.errors = {}
    BY <1>b, <2>1, <2>2, <2>3 DEF Errors
  <2> QED BY <1>a, <2>1, <2>2, <2>4
<1>6. CASE VerifySource
  <2> DEFINE current == compute_source_fingerprint(tree, TRUE)
  <2>1. Quiet /\ pc = "verify_source" /\ pc' = "destination"
    BY <1>6 DEF Quiet, VerifySource, Goto, Keep, world, Inv, Shape
  <2>2. local' = IF local.files = Absent THEN local
                 ELSE IF current = Absent THEN [local EXCEPT !.errors = AddErrors({"SOURCE_UNAVAILABLE"})]
                 ELSE [local EXCEPT
                   !.errors = AddErrors(Errors(current # plan.fingerprint, "SOURCE_FINGERPRINT_MISMATCH")),
                   !.verified = (current = plan.fingerprint)]
    BY <1>6 DEF VerifySource
  <2>3. local.files = WalkedFiles /\ local.errors = {}
    BY <1>a, <2>1 DEF RetryInv, Checking
  <2>4. WalkedFiles # Absent
    BY <1>a, <2>1, StrictWalk, TreesAssumption DEF WalkedFiles, SourceIsPlanned, CheckInv
  <2>5. current = plan.fingerprint /\ current # Absent
    BY <1>a, <2>1 DEF SourceIsPlanned, ReceiptInv
  <2> HIDE DEF current
  <2>6. local'.files = local.files /\ local'.verified /\ local'.errors = {}
    BY <2>2, <2>3, <2>4, <2>5 DEF Inv, Shape, AddErrors, Errors
  <2> QED BY <1>a, <2>1, <2>3, <2>6
<1>7. CASE CheckDestination
  <2>1. Quiet /\ pc = "destination" /\ pc' = "checks"
    BY <1>7 DEF Quiet, CheckDestination, Goto, Keep, world
  <2>2. local.files = WalkedFiles /\ local.errors = {} /\ local.verified
    BY <1>a, <2>1 DEF RetryInv, Checking
  <2>3. /\ local'.files = local.files /\ local'.verified = local.verified
        /\ local'.errors = local.errors \cup (destination_conflict(out.kind, vault.kind)
                                              \cup existing_vault(vault.kind, vault.identity, plan))
    BY <1>7 DEF CheckDestination, AddErrors, Inv, Shape
  <2>4. /\ destination_conflict(out.kind, vault.kind) = Conflict
        /\ existing_vault(vault.kind, vault.identity, plan) = {}
    BY <1>b, <2>1 DEF destination_conflict, existing_vault, Conflict
  <2> QED BY <1>a, <2>1, <2>2, <2>3, <2>4
<1>8. CASE CheckPlan
  <2>1. Quiet /\ pc = "checks" /\ pc' = "capacity"
    BY <1>8 DEF Quiet, CheckPlan, Goto, Keep, world
  <2>2. local.files = WalkedFiles /\ local.errors = Conflict /\ local.verified
    BY <1>a, <2>1 DEF RetryInv, Checking
  <2>3. /\ local'.files = local.files /\ local'.verified = local.verified
        /\ local'.errors = local.errors \cup (check_fields(plan.tables) \cup check_policy_consistency(plan)
                                              \cup check_capabilities(plan, Capability))
    BY <1>8 DEF CheckPlan, AddErrors, Inv, Shape
  <2>4. local'.errors = Conflict
    BY <1>b, <2>1, <2>2, <2>3 DEF PlanPasses
  <2> QED BY <1>a, <2>1, <2>2, <2>3, <2>4
<1>9. CASE ScanCapacity
  <2> DEFINE scans == local.verified /\ "PSEUDONYMIZE_REVERSIBLE" \in plan.policy.classes
             files == Restrict(tree.tables, local.files.tables)
             text == capacity_sufficient(files, plan)
             keys == numeric_relation_capacity(files, plan.numeric)
             found == CapacityErrors(text) \cup CapacityErrors(keys.outcome)
                      \cup Errors(keys.unwritable, "NUMERIC_KEY_RECOVERY_UNWRITABLE")
  <2>1. Quiet /\ pc = "capacity"
    BY <1>9 DEF Quiet, ScanCapacity, Fails, Raise, Goto, Keep, world
  <2>2. local.files = WalkedFiles /\ local.errors = Conflict /\ local.verified
    BY <1>a, <2>1 DEF RetryInv, Checking
  <2>3. local.files.tables = VisibleTables(tree) /\ files = plan.fingerprint.tables
    BY <1>a, <2>1, <2>2, StrictWalk DEF SourceIsPlanned, WalkedFiles
  <2>4. scans => text # Absent /\ found = {}
    BY <1>b, <2>1, <2>3 DEF CapacityPasses, Errors
  <2>5. \/ Goto("storage") /\ local' = local /\ ~scans
        \/ Goto("storage") /\ scans
           /\ local' = [local EXCEPT !.capacity = [files |-> files, text |-> text, keys |-> keys],
                                     !.errors = AddErrors(found)]
    BY <1>9, <2>3, <2>4 DEF ScanCapacity
  <2>6. pc' = "storage" /\ local'.files = local.files /\ local'.verified = local.verified
        /\ local'.errors = Conflict
    <3> DEFINE capacity == [files |-> files, text |-> text, keys |-> keys]
    <3>1. pc' = "storage" /\ (local' = local
                              \/ local' = [local EXCEPT !.capacity = capacity, !.errors = AddErrors({})])
      BY <2>4, <2>5 DEF Goto
    <3> HIDE DEF capacity
    <3>2. CASE local' = local
      BY <2>2, <3>1, <3>2
    <3>3. CASE local' = [local EXCEPT !.capacity = capacity, !.errors = AddErrors({})]
      <4>1. local'.files = local.files /\ local'.verified = local.verified /\ local'.errors = local.errors \cup {}
        BY <3>3, Scanned DEF Inv
      <4> QED BY <2>2, <3>1, <4>1
    <3> QED BY <3>1, <3>2, <3>3
  <2> QED BY <1>a, <2>1, <2>2, <2>6
<1>10. CASE CheckStorage
  <2>1. Quiet /\ pc = "storage" /\ pc' = "verdict"
    BY <1>10 DEF Quiet, CheckStorage, Goto, Keep, world, Inv, Shape
  <2>2. local.files = WalkedFiles /\ local.errors = Conflict /\ local.verified
    BY <1>a, <2>1 DEF RetryInv, Checking
  <2>3. /\ local'.files = local.files /\ local'.verified = local.verified
        /\ local'.errors = local.errors \cup
                           storage_errors(tree, local.files, disk, plan.policy.recovery_enabled)
    BY <1>10 DEF CheckStorage, AddErrors, Inv, Shape
  <2> QED BY <1>a, <2>1, <2>2, <2>3
<1>11. CASE Verdict
  BY <1>11 DEF Verdict, Undisturbed, Keep
<1>12. CASE Gate
  <2>1. Quiet /\ pc = "verdict"
    BY <1>12 DEF Quiet, Gate, Raise, Keep, world
  <2>2. local.errors = Conflict
    BY <1>a, <2>1 DEF RetryInv
  <2>3. RetryCandidate(local.errors)
    BY <1>b, <2>1, <2>2 DEF RetryCandidate, Conflict
  <2>4. pc' = "revalidate"
    BY <1>12, <2>3 DEF Gate
  <2> QED BY <2>4 DEF Checking
<1>13. CASE Revalidate
  <2>1. Quiet
    BY <1>13 DEF Quiet, Revalidate, Fails, Raise, Goto, Keep, world, Inv, Shape
  <2>2. compute_source_fingerprint(tree, FALSE) = plan.fingerprint /\ ~paths_overlap(setup.paths)
    BY <1>a, <1>b, <2>1, StrictWalk DEF SourceIsPlanned
  <2>3. pc' = "directives"
    BY <1>13, <2>2 DEF Revalidate, Goto
  <2> QED BY <2>3 DEF Checking
<1>14. CASE BuildEnginePlan
  <2>1. Quiet
    BY <1>14 DEF Quiet, BuildEnginePlan, Fails, Raise, Goto, Keep, world
  <2>2. plan.fingerprint.tables = Restrict(tree.tables, VisibleTables(tree))
    BY <1>a, <2>1, StrictWalk DEF SourceIsPlanned
  <2>3. \A t \in DOMAIN plan.fingerprint.tables :
           t \in VisibleTables(tree) /\ plan.fingerprint.tables[t] = tree.tables[t]
    BY <2>2 DEF Restrict
  <2>4. \A t \in DOMAIN plan.tables :
           /\ t \in VisibleTables(tree) /\ tree.tables[t].readable
           /\ FieldsWith(tree.tables[t], plan.resolved, "UNSAFE") = {}
    BY <1>b, <2>1, <2>3 DEF SchemasPass
  <2>5. pc' = "vault"
    BY <1>14, <2>4 DEF BuildEnginePlan, Goto
  <2> QED BY <2>5 DEF Checking
<1>15. CASE OpenVault
  <2>1. CASE vault.kind = "file"
    <3>1. Quiet
      BY <1>15, <2>1 DEF Quiet, OpenVault, Fails, Raise, Goto, Keep, world
    <3>2. pc' = "existing"
      BY <1>15, <1>b, <3>1 DEF OpenVault, Goto
    <3> QED BY <3>2 DEF Checking
  <2>2. CASE vault.kind # "file"
    <3>1. vault' = vault \/ vault'.receipt = Absent
      BY <1>15, <2>2 DEF OpenVault, NoVault, Fails, world
    <3>2. Receipt' = Absent
      BY <2>2, <3>1 DEF ReceiptInv, Receipt
    <3> QED BY <3>2 DEF Undisturbed
  <2> QED BY <2>1, <2>2
<1>16. CASE ExistingResult
  <2>1. Quiet
    BY <1>16 DEF Quiet, ExistingResult, Fails, Raise, Goto, Keep, world
  <2>2. vault.receipt # Absent /\ out = vault.receipt.output /\ ~vault.leftover
    BY <1>a, <2>1 DEF Receipt
  <2>3. pc' = "release"
    BY <1>16, <2>2 DEF ExistingResult, Goto
  <2> QED BY <2>3 DEF Checking
<1>17. CASE PassStep
  <2>1. pc \in {"pass_one", "pass_two"} \cup Staged /\ vault'.receipt = vault.receipt
    BY <1>17, PassMoves DEF PassStep, PassOne, PassTwo, DataOnlyEvidence, RebuildCdx, VerifyCdx, CdxDone,
       AssociateIdx, RebuildIdx, VerifyIdx, IdxDone, Staged, Cdx, Idx, Stops, KeepsVault
  <2>2. Receipt' = Absent
    BY <2>1 DEF EngineInv, Receipt
  <2> QED BY <2>2 DEF Undisturbed
<1>18. CASE Publish
  <2>1. CASE pc' = "release"
    BY <2>1 DEF Checking
  <2>2. CASE pc' # "release"
    <3>1. pc = "publish" /\ vault' = vault
      BY <1>18, <2>2 DEF Publish, Fails, Goto, world
    <3>2. Receipt' = Absent
      BY <3>1 DEF EngineInv, Receipt, Staged
    <3> QED BY <3>2 DEF Undisturbed
  <2> QED BY <2>1, <2>2
<1>19. CASE Complete
  <2>1. pc = "complete" /\ Accounts(local.evidence, plan)
    BY <1>19 DEF Complete, Inv, EvidenceInv
  <2>2. pc' = "idle" /\ outcome' \in {"returned", "callback_failed"}
    BY <1>19, <2>1 DEF Complete, complete, Accounts
  <2> QED BY <2>2 DEF Checking
<1>20. CASE \/ Cancel \/ BreakDown \/ PublishHalfway \/ ReleaseFails
            \/ EditSource \/ EditDestination \/ EditVault \/ EditDisk
  <2>1. ghost'.steady = FALSE
    BY <1>20 DEF Cancel, BreakDown, PublishHalfway, ReleaseFails, EditSource, EditDestination, EditVault,
       EditDisk, Inv, Shape
  <2> QED BY <1>1, <2>1
<1>21. CASE Release
  <2>1. pc' = "complete"
    BY <1>21 DEF Release, Goto
  <2> QED BY <2>1 DEF Checking
<1> QED BY <1>2, <1>3, <1>4, <1>5, <1>6, <1>7, <1>8, <1>9, <1>10, <1>11, <1>12, <1>13, <1>14, <1>15, <1>16, <1>17,
       <1>18, <1>19, <1>20, <1>21 DEF Next, PassStep

\* With Inv, the inductive invariant of a retry.
RetryInvs == CheckInv /\ EngineInv /\ ReceiptInv /\ RetryInv

\* Calling pseudonymize again on its own completed dataset returns
\* (_completed_retry_candidate of api.py, _existing_completed_result of
\* engine/run.py), for every source, backend, disk and number of calls.
THEOREM RetryReturns == Spec => []CompletedRetryReturns
<1>1. Init => RetryInvs
  <2> SUFFICES ASSUME Init PROVE RetryInvs
    OBVIOUS
  <2>1. pc = "idle" /\ Receipt = Absent /\ tree \in {s.tree : s \in Starts}
    BY StartsAssumption DEF Init, Receipt
  <2>2. CheckInv
    BY <2>1 DEF CheckInv, Checking, Engine, Early, Staged, Cdx, Idx
  <2>3. EngineInv
    BY <2>1 DEF EngineInv, Reading, Engine, Early, Staged, Cdx, Idx
  <2>4. ReceiptInv /\ RetryInv
    BY <2>1 DEF ReceiptInv, RetryInv, Undisturbed
  <2> QED BY <2>2, <2>3, <2>4 DEF RetryInvs
<1>2. Inv /\ RetryInvs /\ [Next]_vars => RetryInvs'
  <2> SUFFICES ASSUME Inv, RetryInvs, [Next]_vars PROVE RetryInvs'
    OBVIOUS
  <2>1. CASE Next
    <3>1. CheckInv' /\ EngineInv'
      <4>1. CASE Stops
        BY <4>1 DEF Stops, KeepsVault, RetryInvs, CheckInv, EngineInv, Checking, Engine, Early, Staged, Cdx, Idx, Reading
      <4>2. CASE ~Stops
        BY <2>1, <4>2, CheckStep, EngineStep DEF RetryInvs
      <4> QED BY <4>1, <4>2
    <3> QED BY <2>1, <3>1, ReceiptStep, RetryStep DEF RetryInvs
  <2>2. CASE UNCHANGED vars
    <3>1. /\ PlanPasses' <=> PlanPasses
          /\ CapabilityFits' <=> CapabilityFits
          /\ CapacityPasses' <=> CapacityPasses
          /\ SchemasPass' <=> SchemasPass
      BY <2>2, PlanFacts DEF vars
    <3>2. CheckInv'
      BY <2>2, <3>1 DEF vars, RetryInvs, CheckInv, WalkedFiles, SourceIsPlanned
    <3>3. EngineInv'
      BY <2>2, <3>1 DEF vars, RetryInvs, EngineInv, Reading, Receipt
    <3>4. ReceiptInv'
      BY <2>2, ReceiptStays DEF vars, RetryInvs
    <3>5. Undisturbed' <=> Undisturbed
      BY <2>2, UndisturbedStays DEF vars
    <3>6. RetryInv'
      BY <2>2, <3>5 DEF vars, RetryInvs, RetryInv, WalkedFiles
    <3> QED BY <3>2, <3>3, <3>4, <3>6 DEF RetryInvs
  <2> QED BY <2>1, <2>2
<1>3. Inv /\ RetryInvs => CompletedRetryReturns
  <2> SUFFICES ASSUME RetryInvs, pc = "idle", call = "pseudonymize", outcome \in {"refused", "failed"},
                      ghost.steady, Receipt # Absent, ~ghost.published.hasty, out = Receipt.output,
                      ~vault.leftover,
                      compute_source_fingerprint(tree, TRUE) = plan.fingerprint,
                      storage_errors(tree, WalkedFiles, disk, plan.policy.recovery_enabled) = {}
               PROVE  FALSE
    BY DEF CompletedRetryReturns, WalkedFiles
  <2>1. plan.fingerprint # Absent
    BY DEF RetryInvs, ReceiptInv
  <2>2. SourceIsPlanned
    BY <2>1 DEF SourceIsPlanned, compute_source_fingerprint
  <2> QED BY <2>2 DEF RetryInvs, RetryInv, Undisturbed
<1> QED BY <1>1, <1>2, <1>3, Invariance, PTL DEF Spec

=============================================================================
