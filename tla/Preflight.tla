------------------------------ MODULE Preflight ------------------------------
(***************************************************************************)
(* The checks of preflight.py, each the set of error codes it adds.        *)
(* Warnings and check codes change no decision and are left out, and so is *)
(* the relationship check, which the Assurance module has.                 *)
(*                                                                         *)
(* The two capacity scans decide, without a vault, whether pass 1 will be  *)
(* able to give every original a pseudonym of its own.  They stream the    *)
(* occurrences in table and field order and stop at the first verdict.     *)
(***************************************************************************)
EXTENDS Planning, NumericKernel, FiniteSetsExt

CONSTANTS
    Alphabet,         \* the safe characters
    SafeEncodings,    \* encodings that hold every safe character in one byte
    Order,            \* table and field names in their sorted order
    KeyRange,         \* by field type: the integers a key member reads and writes back
    MaxExactValues,   \* _MAX_EXACT_VALUES
    MaxNumericValues, \* _MAX_NUMERIC_EXACT_VALUES
    StagingFactor, SpoolReserve, VaultFactor, VaultReserve

ASSUME CapacityAssumption ==
    /\ IsFiniteSet(Alphabet)
    /\ {MaxExactValues, MaxNumericValues, StagingFactor, SpoolReserve,
        VaultFactor, VaultReserve} \subseteq Nat

Sorted(S) == SelectSeq(Order, LAMBDA x : x \in S)

-----------------------------------------------------------------------------
(* Paths and destinations.  A path is the sequence of its components.      *)

paths_overlap(p) ==
    LET within(a, b) == IsPrefix(b, a) IN
    \E pair \in {<<p.source, p.output>>, <<p.source, p.vault>>, <<p.output, p.vault>>} :
        within(pair[1], pair[2]) \/ within(pair[2], pair[1])

\* An output is "missing", "empty", "full" (a directory with something in
\* it), "file", "blocked" (something on the way to it is no directory) or
\* "unreadable"; a vault is "missing", "file", "directory", "blocked" or
\* "unreadable".
destination_conflict(out, vault) ==
    IF out = "unreadable" THEN {"PATH_INSPECTION_UNAVAILABLE"}
    ELSE IF out \in {"file", "blocked", "full"} THEN {"DESTINATION_CONFLICT"}
    ELSE IF vault = "unreadable" THEN {"PATH_INSPECTION_UNAVAILABLE"}
    ELSE IF vault \notin {"missing", "file"} THEN {"DESTINATION_CONFLICT"} ELSE {}

\* Every existing vault file is checked, whatever the destination is.
existing_vault(kind, identity, plan) ==
    IF kind = "file" /\ identity # plan.fingerprint THEN {"VAULT_REUSE_INCOMPATIBLE"} ELSE {}

-----------------------------------------------------------------------------
(* The plan.                                                               *)

Errors(condition, code) == IF condition THEN {code} ELSE {}

check_fields(tables) ==
    UNION {Errors(tables[t].unsupported, "UNSUPPORTED_FIELD")
           \cup Errors(tables[t].unsafe, "UNSAFE_FIELD")
           \cup Errors(tables[t].memo_missing, "MISSING_MEMO_COMPANION")
           \cup Errors(tables[t].structural_cdx /\ ~tables[t].cdx_present,
                       "MISSING_STRUCTURAL_INDEX") : t \in DOMAIN tables}

check_policy_consistency(plan) ==
    LET p == plan.policy IN
    Errors(\/ p.schema_version # "1"
           \/ ~(p.classes \subseteq Transforms)
           \/ p.recovery_enabled # (p.classes # {})
           \/ p.vault_strategy # (IF p.recovery_enabled THEN "SINGLE_DATASET_SQLITE" ELSE "NONE")
           \/ \E t \in DOMAIN plan.tables :
                 \/ plan.tables[t].index_strategy \notin {"DATA_ONLY", "VFP_INDEXED"}
                 \/ /\ plan.profile = "DATA_ONLY"
                    /\ plan.tables[t].index_strategy = "VFP_INDEXED",
           "POLICY_INCONSISTENT")

\* A backend states what it supports: "cdx", "idx", "verification", "runtime".
check_capabilities(plan, capability) ==
    Errors(/\ plan.profile = "VFP_INDEXED"
           /\ \/ capability = Absent
              \/ ~({"verification", "runtime"} \subseteq capability)
              \/ "cdx" \notin capability /\ \E t \in DOMAIN plan.tables : plan.tables[t].structural_cdx
              \/ "idx" \notin capability /\ plan.idx # {},
           "CAPABILITY_MISSING")

-----------------------------------------------------------------------------
(* Capacity of the text domain.                                            *)

candidate_alphabet(encodings) == IF encodings \subseteq SafeEncodings THEN Alphabet ELSE {}

token_space_at_least(width, base, needed) ==
    FoldSet(LAMBDA k, sum : base^k + sum, 0, 1..width) >= needed

TextFields(file, policy) == FieldsWith(file, policy, "PSEUDONYMIZE_REVERSIBLE")

\* What one table streams: the non-empty values of its narrow text fields.
TextOccurrences(file, policy, widest) ==
    LET narrow == Sorted({f \in TextFields(file, policy) : file.fields[f].length <= widest})
        cells(record) ==
            SelectSeq([i \in DOMAIN narrow |->
                         [value |-> IF narrow[i] \in DOMAIN record THEN record[narrow[i]] ELSE <<>>,
                          width |-> file.fields[narrow[i]].length]],
                      LAMBDA c : c.value # <<>>)
    IN  FlattenSeq([i \in DOMAIN file.records |-> cells(file.records[i])])

\* The widths whose token space a bound from the record counts does not
\* already cover.
TightWidths(files, policy, base) ==
    LET upper_bound(w) ==
            FoldSet(LAMBDA t, sum :
                      sum + Len(files[t].records)
                            * Cardinality({f \in TextFields(files[t], policy) :
                                             files[t].fields[f].length <= w}), 0, DOMAIN files)
        widths == UNION {{files[t].fields[f].length : f \in TextFields(files[t], policy)} :
                         t \in DOMAIN files}
    IN  {w \in widths : ~token_space_at_least(w, base, upper_bound(w))}
        \cup (IF base = 1 /\ widths # {} THEN {1} ELSE {})

\* Mutant: a value seen again in a narrower field keeps its width.
NoteFirstWidth(tight, base, scan, cell) ==
    LET tracker == scan.tracker @@ (cell.value :> cell.width)
        fits(w) == token_space_at_least(w, base, Cardinality({v \in DOMAIN tracker : tracker[v] <= w}))
    IN  IF scan.outcome # "OK" \/ cell.value \in DOMAIN scan.tracker THEN scan
        ELSE IF Cardinality(DOMAIN scan.tracker) >= MaxExactValues
        THEN [scan EXCEPT !.outcome = "UNPROVEN"]
        ELSE [tracker |-> tracker,
              outcome |-> IF \E w \in tight : w >= cell.width /\ ~fits(w) THEN "INSUFFICIENT" ELSE "OK"]

\* One occurrence: a value is tracked once, at the narrowest width met so far.
note_strictest(tight, base, scan, cell) ==
    LET known == cell.value \in DOMAIN scan.tracker
        tracker == (cell.value :> cell.width) @@ scan.tracker
        fits(w) == token_space_at_least(w, base, Cardinality({v \in DOMAIN tracker : tracker[v] <= w}))
    IN  IF scan.outcome # "OK" \/ (known /\ scan.tracker[cell.value] <= cell.width) THEN scan
        ELSE IF ~known /\ Cardinality(DOMAIN scan.tracker) >= MaxExactValues
        THEN [scan EXCEPT !.outcome = "UNPROVEN"]
        ELSE [tracker |-> tracker,
              outcome |-> IF \E w \in tight : w >= cell.width /\ ~fits(w) THEN "INSUFFICIENT" ELSE "OK"]

\* Absent: a schema or a record cannot be read, and the call raises.
capacity_sufficient(files, plan) ==
    LET policy == plan.resolved
        sensitive == {t \in DOMAIN files : TextFields(files[t], policy) # {}}
        texts == Restrict(files, sensitive)
        alphabet == candidate_alphabet({files[t].encoding : t \in sensitive})
        base == Cardinality(alphabet)
        tight == TightWidths(texts, policy, base)
        order == Sorted(sensitive)
        cells == FlattenSeq([i \in DOMAIN order |->
                               TextOccurrences(texts[order[i]], policy, Max(tight))])
        scan == FoldLeft(LAMBDA s, c : note_strictest(tight, base, s, c),
                         [tracker |-> <<>>, outcome |-> "OK"], cells)
        single == {v \in DOMAIN scan.tracker : scan.tracker[v] = 1}
    IN  IF \E t \in DOMAIN files : ~files[t].readable THEN Absent
        ELSE IF sensitive = {} THEN "OK"
        ELSE IF alphabet = {} THEN "INSUFFICIENT"
        ELSE IF tight = {} THEN "OK"
        ELSE IF scan.outcome = "OK" /\ base = 1 /\ single = {<<CHOOSE c \in alphabet : TRUE>>}
        THEN "INSUFFICIENT" ELSE scan.outcome

-----------------------------------------------------------------------------
(* Capacity of the numeric key domains.  A group is the sequence of its    *)
(* key fields <<table, field, type>>, the type being the one bound when    *)
(* the plan was made.                                                      *)

Members(group) == {KeyRange[m[3]] : m \in Range(group)}

\* The keys of one field, or one cell that says its table is gone.
KeyCells(files, m) ==
    IF m[1] \notin DOMAIN files
    THEN <<[member |-> KeyRange[m[3]], missing |-> TRUE, value |-> 0]>>
    ELSE LET keyed == SelectSeq(files[m[1]].records, LAMBDA r : m[2] \in DOMAIN r)
         IN  [j \in DOMAIN keyed |->
                [member |-> KeyRange[m[3]], missing |-> FALSE, value |-> keyed[j][m[2]]]]

\* A value outside its member's range stands for one that is no integer too.
NoteKey(scan, cell) ==
    LET verdict == ClassifyMemberOriginal(cell.member, cell.value) IN
    CASE scan.outcome # "OK" -> scan
      [] scan.outcome = "OK" /\ cell.missing -> [scan EXCEPT !.outcome = "UNPROVEN"]
      [] OTHER ->
           CASE verdict = "OUT_OF_MEMBER_RANGE" -> [scan EXCEPT !.outcome = "INSUFFICIENT"]
             [] verdict = "RECOVERY_UNWRITABLE" -> [scan EXCEPT !.unwritable = TRUE]
             [] verdict = "REVERSIBLE" ->
                  IF Cardinality(scan.distinct) >= MaxNumericValues /\ cell.value \notin scan.distinct
                  THEN [scan EXCEPT !.outcome = "UNPROVEN"]
                  ELSE [scan EXCEPT !.distinct = @ \cup {cell.value}]

GroupCapacity(files, group, scan) ==
    LET end == FoldLeft(NoteKey, [scan EXCEPT !.distinct = {}],
                        FlattenSeq([i \in DOMAIN group |-> KeyCells(files, group[i])]))
    IN  IF scan.outcome # "OK" THEN scan
        ELSE IF end.outcome = "OK" /\ ~BijectionExists(end.distinct, CommonTokens(Members(group)))
        THEN [end EXCEPT !.outcome = "INSUFFICIENT"] ELSE end

numeric_relation_capacity(files, groups) ==
    LET start == [outcome |-> "OK", unwritable |-> FALSE, distinct |-> {}] IN
    IF \E g \in Range(groups) : CommonTokens(Members(g)) = {}
    THEN [start EXCEPT !.outcome = "INSUFFICIENT"]
    ELSE FoldLeft(LAMBDA s, g : GroupCapacity(files, g, s), start, groups)

CapacityErrors(outcome) ==
    Errors(outcome = "INSUFFICIENT", "PSEUDONYM_CAPACITY_INSUFFICIENT")
    \cup Errors(outcome = "UNPROVEN", "PSEUDONYM_CAPACITY_UNPROVEN")

-----------------------------------------------------------------------------
(* Storage.                                                                *)

source_footprint(tree, tables) ==
    FoldSet(LAMBDA t, sum : sum + (IF tree.tables[t].memo = "present" THEN 2 ELSE 1), 0, tables)

\* A disk is the free space at the two targets and whether they share it;
\* Absent: it cannot be asked.  A file that went away has no size either.
storage_errors(tree, enumerated, disk, recovery) ==
    LET known == /\ enumerated # Absent /\ disk # Absent
                 /\ enumerated.tables \subseteq VisibleTables(tree)
        footprint == source_footprint(tree, enumerated.tables)
        output == footprint * StagingFactor + SpoolReserve
        vault == IF recovery THEN VaultFactor * footprint + VaultReserve ELSE 0
    IN  IF ~known THEN {"STORAGE_ESTIMATE_UNAVAILABLE"}
        ELSE Errors(IF disk.same THEN disk.output < output + vault
                    ELSE disk.output < output \/ disk.vault < vault,
                    "STORAGE_SPACE_INSUFFICIENT")
=============================================================================
