------------------------------ MODULE Planning ------------------------------
(***************************************************************************)
(* The pure parts of discovery.py, policy.py and planning.py: what a walk  *)
(* over the source finds, what a policy does to a field, and what a plan   *)
(* says about a table.                                                     *)
(*                                                                         *)
(* A source is a record: root (the directory exists), tables (files by     *)
(* name) and idx (contents of the standalone IDX files by name).  A table  *)
(* file is readable or not, may lie in a directory nobody can list         *)
(* (hidden), has fields, records (a NULL is a field the record has no      *)
(* value for), a memo companion and a structural index that are "none",    *)
(* "present" or "missing".  A text value is the sequence of its            *)
(* characters.                                                             *)
(***************************************************************************)
EXTENDS Integers, FiniteSets, Sequences, SequencesExt, Functions, TLC

CONSTANT Absent   \* no value, no plan, no answer

-----------------------------------------------------------------------------
(* discovery.py                                                            *)

\* os.walk reports a directory it cannot list to onerror: a strict walk
\* raises, the other one goes on without it.
HasHiddenDirectory(tree) == \E t \in DOMAIN tree.tables : tree.tables[t].hidden
VisibleTables(tree) ==
    IF tree.root THEN {t \in DOMAIN tree.tables : ~tree.tables[t].hidden} ELSE {}

WalkFails(tree, strict) == strict /\ (~tree.root \/ HasHiddenDirectory(tree))

enumerate_in_scope_paths(tree, strict) ==
    IF WalkFails(tree, strict) THEN Absent
    ELSE [tables |-> VisibleTables(tree), idx |-> IF tree.root THEN DOMAIN tree.idx ELSE {}]

\* A digest of the names and contents of everything the walk found.
compute_source_fingerprint(tree, strict) ==
    LET paths == enumerate_in_scope_paths(tree, strict) IN
    IF WalkFails(tree, strict) THEN Absent
    ELSE [tables |-> Restrict(tree.tables, paths.tables), idx |-> Restrict(tree.idx, paths.idx)]

\* Absent: read_schema_failed.
discover_tables(tree) ==
    LET found == VisibleTables(tree) IN
    IF \E t \in found : ~tree.tables[t].readable THEN Absent
    ELSE [t \in found |->
            [record_count   |-> Len(tree.tables[t].records),
             structural_cdx |-> tree.tables[t].cdx # "none",
             dbc_bound      |-> tree.tables[t].dbc]]

-----------------------------------------------------------------------------
(* policy.py                                                               *)

DefaultPolicy ==
    ("schema_version" :> "1") @@ ("profile" :> "SAFE_TRANSFER")
    @@ ("text.default_action" :> "PSEUDONYMIZE_REVERSIBLE") @@ ("text.domain" :> "GLOBAL_TEXT")
    @@ ("memo.text" :> "MASK_REVERSIBLE") @@ ("memo.binary" :> "MASK_REVERSIBLE")
    @@ ("temporal.date" :> "SHIFT_REVERSIBLE") @@ ("temporal.datetime" :> "SHIFT_REVERSIBLE")
    @@ ("numeric.default_action" :> "KEEP") @@ ("relationships.metadata_file" :> "none")
    @@ ("indexes.profile" :> "DATA_ONLY")

Allowed(key) ==
    {DefaultPolicy[key]}
    \cup (IF key = "indexes.profile" THEN {"VFP_INDEXED"} ELSE {})
    \cup (IF key \in {"text.default_action", "memo.text", "memo.binary",
                      "temporal.date", "temporal.datetime"} THEN {"KEEP"} ELSE {})

validate_policy(merged) ==
    DOMAIN merged \subseteq DOMAIN DefaultPolicy /\ \A k \in DOMAIN merged : merged[k] \in Allowed(k)

\* The caller's keys win over the defaults; Absent: the policy is rejected.
resolve_policy(policy) ==
    LET merged == policy @@ DefaultPolicy IN
    IF validate_policy(merged) THEN merged ELSE Absent

\* The rows of the matrix that are transformed; N, F, I, Y, B and L are kept.
Rule(key, binary, nocptrans) == [key |-> key, binary |-> binary, nocptrans |-> nocptrans]
FIELD_CAPABILITY_MATRIX ==
    [x \in {"C", "V"} |-> Rule("text.default_action", FALSE, FALSE)]
    @@ ("M" :> Rule("memo.text", FALSE, FALSE))
    @@ [x \in {"G", "P"} |-> Rule("memo.binary", TRUE, TRUE)]
    @@ ("D" :> Rule("temporal.date", FALSE, TRUE)) @@ ("T" :> Rule("temporal.datetime", FALSE, TRUE))
    @@ [x \in {"N", "F", "I", "Y", "B", "L"} |-> Rule("numeric.default_action", FALSE, TRUE)]

\* An action, "KEEP", "UNSAFE" or "SYSTEM".
classify_field_capability(name, field, policy) ==
    CASE field.type = "0" /\ field.system /\ name = "_NULLFLAGS" -> "SYSTEM"
      [] field.system \/ ~field.supported
         \/ field.type \notin DOMAIN FIELD_CAPABILITY_MATRIX -> "UNSAFE"
      [] OTHER ->
           LET rule == FIELD_CAPABILITY_MATRIX[field.type] IN
           IF (field.binary /\ ~rule.binary) \/ (field.nocptrans /\ ~rule.nocptrans)
           THEN "UNSAFE" ELSE policy[rule.key]

Transforms == {"PSEUDONYMIZE_REVERSIBLE", "MASK_REVERSIBLE", "SHIFT_REVERSIBLE"}

FieldsWith(file, policy, class) ==
    {f \in DOMAIN file.fields : classify_field_capability(f, file.fields[f], policy) = class}

-----------------------------------------------------------------------------
(* planning.py                                                             *)

\* The classes one table adds to the plan: the actions of its fields, and
\* the declared reversible numeric key members among the kept ones.
TransformationClasses(t, file, policy, reversible) ==
    ({classify_field_capability(f, file.fields[f], policy) : f \in DOMAIN file.fields} \cap Transforms)
    \cup {"PSEUDONYMIZE_REVERSIBLE" :
            f \in {g \in FieldsWith(file, policy, "KEEP") : <<t, g>> \in reversible}}

\* The counts of the scan mixed with the companions and the fields of a
\* second reading of the schema.
TablePlan(discovered, file, policy, profile) ==
    [record_count   |-> discovered.record_count,
     structural_cdx |-> discovered.structural_cdx,
     dbc_bound      |-> discovered.dbc_bound,
     index_strategy |-> IF profile = "VFP_INDEXED" /\ discovered.structural_cdx
                        THEN "VFP_INDEXED" ELSE "DATA_ONLY",
     memo_missing   |-> file.memo = "missing",
     cdx_present    |-> file.cdx = "present",
     unsupported    |-> \E f \in DOMAIN file.fields :
                           /\ ~file.fields[f].supported
                           /\ classify_field_capability(f, file.fields[f], policy) # "SYSTEM",
     unsafe         |-> FieldsWith(file, policy, "UNSAFE") # {}]

PolicySummary(policy, classes) ==
    [schema_version |-> policy["schema_version"], classes |-> classes,
     recovery_enabled |-> classes # {},
     vault_strategy |-> IF classes # {} THEN "SINGLE_DATASET_SQLITE" ELSE "NONE"]
=============================================================================
