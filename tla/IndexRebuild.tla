---------------------------- MODULE IndexRebuild ----------------------------
(***************************************************************************)
(* What the engine makes of an index backend's answers (index_backend.py   *)
(* and _run_vfp_indexed_rebuild_and_verify of engine/run.py).  The backend *)
(* is somebody else's code: it raises, answers something else, refuses, or *)
(* claims what is not so, and the engine believes only what it can check.  *)
(*                                                                         *)
(* An answer is a record.  echo: the call returned an object of the right  *)
(* class that repeats the request's version, class and paths; backend: the *)
(* id it signs with; status; tags, the index tags it names; and for a      *)
(* verification opened and count, for an association table.                *)
(***************************************************************************)
EXTENDS Planning

CONSTANT BackendId

\* validate_backend_capabilities: a capability statement is a set of what
\* is supported, or "malformed".
CapabilityIsValid(capability, associates) ==
    capability # {"malformed"} /\ ("idx" \in capability => associates)

\* require_backend_support, _verification and _runtime.
BackendServes(class, capability) == {class, "verification", "runtime"} \subseteq capability

\* The constructors of the two outcome classes.
RebuildIsWellFormed(class, r) ==
    /\ r.status \in {"REBUILT", "REFUSED", "FAILED"}
    /\ (class = "cdx" /\ r.status = "REBUILT") <=> r.tags # {}

VerificationIsWellFormed(class, v) ==
    /\ v.status \in {"VERIFIED", "MISMATCH", "FAILED"}
    /\ class = "idx" => v.tags = {}
    /\ class = "cdx" /\ v.status = "VERIFIED" => v.tags # {}
    /\ v.status \in {"VERIFIED", "MISMATCH"} => v.opened

run_backend_rebuild(class, r) == r.echo /\ RebuildIsWellFormed(class, r)

run_backend_verification(class, v) == v.echo /\ VerificationIsWellFormed(class, v)

\* ASSOCIATED names a table of the plan, UNAVAILABLE none.
run_backend_standalone_idx_association(a, tables) ==
    /\ a.echo
    /\ a.status \in {"ASSOCIATED", "UNAVAILABLE"}
    /\ (a.status = "ASSOCIATED") <=> (a.table # Absent)
    /\ a.table # Absent => a.table \in tables

\* The rebuilt index opens, with as many records as the schema said and, for
\* a structural index, the tags the rebuild announced.
VerificationIsAccepted(class, v, expected, record_count) ==
    /\ run_backend_verification(class, v) /\ v.backend = BackendId
    /\ v.status = "VERIFIED" /\ v.opened
    /\ v.count = record_count
    /\ class = "cdx" => v.tags = expected

Signed(answer) == answer.backend = BackendId

\* A structural index must be rebuilt, and its file must be there.
CdxIsRebuilt(r, present) ==
    run_backend_rebuild("cdx", r) /\ Signed(r) /\ r.status = "REBUILT" /\ present

\* A standalone index may be refused, and then nothing may lie in its place.
IdxIsRefused(r, present) ==
    run_backend_rebuild("idx", r) /\ Signed(r) /\ r.status = "REFUSED" /\ ~present

IdxIsRebuilt(r, present) ==
    run_backend_rebuild("idx", r) /\ Signed(r) /\ r.status = "REBUILT" /\ present

Evidence(status, source, table, output) ==
    [status |-> status, source |-> source, table |-> table, output |-> output]

\* The index files left in the staging are the verified ones.
VerifiedIdx(evidence) == {i \in DOMAIN evidence : evidence[i].status = "REBUILT_VERIFIED"}

\* Mutant: the verified files are there, whatever else is.
InventoryCovers(staged, evidence) == VerifiedIdx(evidence) \subseteq DOMAIN staged

InventoryIsVerified(staged, evidence) == DOMAIN staged = VerifiedIdx(evidence)

\* What the constructor of StandaloneIdxEvidence accepts; only the first
\* status claims no backend.
EvidenceIsValid(e) ==
    CASE e.status = "OMITTED_DATA_ONLY" -> e.table = Absent /\ e.output = Absent
      [] e.status = "OMITTED_UNVERIFIED" -> e.output = Absent
      [] e.status = "REBUILT_VERIFIED" -> e.table # Absent /\ e.output # Absent
=============================================================================
