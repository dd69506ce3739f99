---------------------------- MODULE Verification ----------------------------
(* verification.py: the verdict of verify_dataset on a source, an output   *)
(* tree, a vault and the result that claims them.  Every operator returns  *)
(* the set of finding codes the function of its name would record; a code  *)
(* of Unverifiable stands for the exception raised instead of a verdict.   *)
(*                                                                         *)
(* A tree is [tables, fields, files, coupled, odd]: the records and the    *)
(* fields of its tables, its inventory, the tables bound to a DBC and the  *)
(* tables whose logical schema differs from the planned one; a source has  *)
(* the first two.  The digest of a tree is the tree itself.                *)
EXTENDS FieldTransforms, FiniteSetsExt

Unverifiable == {"VAULT_UNREADABLE", "OUTPUT_UNREADABLE"}

PartialCodes == {"INDEX_ARTIFACT_UNVERIFIED", "STANDALONE_IDX_DEFINITION_UNAVAILABLE"}

If(condition, code) == IF condition THEN {code} ELSE {}

(***************************************************************************)
(* Values.                                                                 *)
(***************************************************************************)
VerifyText(vault, d, sv, ov) ==
    IF sv \in {Null, ""} THEN If(ov # sv, "NULL_SEMANTICS_MISMATCH")
    ELSE IF ov = Null THEN {"NULL_SEMANTICS_MISMATCH"}
    ELSE IF ov = sv THEN {"ORIGINAL_VALUE_SURVIVED"}
    ELSE If(text_original(vault, d, ov) # sv, "TEXT_MAPPING_MISMATCH")

VerifyNumeric(vault, d, sv, ov) ==
    IF sv = Null THEN If(ov # Null, "NULL_SEMANTICS_MISMATCH")
    ELSE IF ov = Null THEN {"NULL_SEMANTICS_MISMATCH"}
    ELSE IF ov = sv THEN {"ORIGINAL_VALUE_SURVIVED"}
    ELSE If(numeric_original(vault, d, ov) # sv, "NUMERIC_MAPPING_MISMATCH")

VerifyMemoMaskOnly(vault, t, i, sv, ov) ==
    IF sv = Null THEN If(ov # Null, "NULL_SEMANTICS_MISMATCH")
    ELSE IF ov = Null THEN {"NULL_SEMANTICS_MISMATCH"}
    ELSE LET payload == memo_recovery_row(vault, t, i)
         IN IF payload = Null THEN {"MEMO_RECOVERY_ROW_MISSING"}
            ELSE If(ov # memo_safe_mask(payload), "MEMO_PAYLOAD_MISMATCH")

VerifyMemo(vault, t, i, sv, ov) ==
    IF sv = Null THEN If(ov # Null, "NULL_SEMANTICS_MISMATCH")
    ELSE IF ov = Null THEN {"NULL_SEMANTICS_MISMATCH"}
    ELSE LET payload == memo_recovery_row(vault, t, i)
         IN IF payload = Null THEN {"MEMO_RECOVERY_ROW_MISSING"}
            ELSE If(payload # sv \/ ov = payload \/ ov # memo_safe_mask(payload),
                    "MEMO_PAYLOAD_MISMATCH")

VerifyTemporal(vault, d, sv, ov) ==
    LET offset == temporal_offset(vault, d)
    IN IF offset = 0 THEN {"VAULT_UNREADABLE"}
       ELSE IF offset = Null THEN If(ov # sv, "TEMPORAL_VALUE_MISMATCH")
       ELSE If(ov # temporal_shift(sv, offset), "TEMPORAL_VALUE_MISMATCH")

\* One field of one record pair, as its ledger row prescribes.
VerifyValue(vault, t, i, f, sv, ov) ==
    IF <<t, f>> \notin DOMAIN vault.ledger THEN {"POLICY_BINDING_MISSING"}
    ELSE LET row == vault.ledger[<<t, f>>]
         IN CASE row.action = "KEEP" -> If(ov # sv, "IDENTITY_VALUE_MISMATCH")
              [] row.action = "MASK_REVERSIBLE" -> VerifyMemo(vault, t, i, sv, ov)
              [] row.action = "SHIFT_REVERSIBLE" ->
                    VerifyTemporal(vault, row.domain, sv, ov)
              [] row.action = "PSEUDONYMIZE_REVERSIBLE" ->
                    IF domain_kind(vault, row.domain) = "NUMERIC_KEY"
                      THEN VerifyNumeric(vault, row.domain, sv, ov)
                      ELSE VerifyText(vault, row.domain, sv, ov)
              [] OTHER -> {"POLICY_BINDING_MISMATCH"}

(***************************************************************************)
(* The field-policy ledger of one table.                                   *)
(***************************************************************************)
BindingIsCoherent(vault, row) ==
    LET kind == IF row.domain = Null THEN Null ELSE domain_kind(vault, row.domain)
    IN /\ row.factsAgree
       /\ CASE row.action \in {"KEEP", "MASK_REVERSIBLE"} -> row.domain = Null
            [] row.action = "PSEUDONYMIZE_REVERSIBLE" ->
                  row.domain # Null /\ kind \in {"TEXT", "NUMERIC_KEY"}
            [] row.action = "SHIFT_REVERSIBLE" ->
                  row.domain = Null \/ kind = "TEMPORAL"
            [] OTHER -> FALSE

VerifyLedger(vault, t, fields) ==
    If(\E f \in fields : <<t, f>> \notin DOMAIN vault.ledger, "POLICY_BINDING_MISSING")
    \cup If(\E f \in fields : /\ <<t, f>> \in DOMAIN vault.ledger
                              /\ ~BindingIsCoherent(vault, vault.ledger[<<t, f>>]),
            "POLICY_BINDING_MISMATCH")

(***************************************************************************)
(* One table: schema facts, then both record streams in lockstep.  zip     *)
(* takes a source record before it finds the output exhausted, so the      *)
(* first record the output lacks is never counted as an extra one.         *)
(***************************************************************************)
MinOf(m, n) == IF m <= n THEN m ELSE n

Scanned(sourceRecords, outputRecords) == MinOf(Len(sourceRecords), Len(outputRecords))

ExtraRecordsOfOutput(sourceRecords, outputRecords) ==
    Len(outputRecords) > Len(sourceRecords)

ExtraRecords(sourceRecords, outputRecords) ==
    \/ Len(sourceRecords) > Len(outputRecords) + 1
    \/ Len(outputRecords) > Len(sourceRecords)

TableIsComparable(vault, t, output) ==
    t \notin output.coupled /\ t \notin output.odd /\ t \in vault.tables

VerifyTable(vault, t, source, output) ==
    LET s == source.tables[t]
        o == output.tables[t]
    IN IF t \in output.coupled THEN {"OUTPUT_DBC_COUPLING_PRESENT"}
       ELSE IF t \in output.odd THEN {"SCHEMA_MISMATCH"}
       ELSE IF t \notin vault.tables THEN {"POLICY_BINDING_MISSING"}
       ELSE VerifyLedger(vault, t, source.fields[t])
            \cup If(\E i \in 1..Scanned(s, o) : s[i].deleted # o[i].deleted,
                    "DELETED_MARKER_MISMATCH")
            \cup (UNION {UNION {VerifyValue(vault, t, i, f, s[i].values[f], o[i].values[f]) :
                                   f \in source.fields[t]} : i \in 1..Scanned(s, o)})
            \cup If(ExtraRecords(s, o), "RECORD_COUNT_MISMATCH")

\* The records of a table that the verifier counts as verified.
CountedRecords(vault, t, source, output) ==
    IF TableIsComparable(vault, t, output)
      THEN Scanned(source.tables[t], output.tables[t])
      ELSE 0

(***************************************************************************)
(* Topology and index evidence.                                            *)
(***************************************************************************)
DbfFile(t) == <<t, "dbf">>
FptFile(t) == <<t, "fpt">>
IdxFile == <<"standalone", "idx">>
CdxFile == <<"structural", "cdx">>
OtherFile == <<"other", "txt">>

ExpectedInventory(source, claim) ==
    {DbfFile(t) : t \in DOMAIN source.tables}
    \cup {FptFile(t) : t \in {u \in DOMAIN source.tables : "memo" \in source.fields[u]}}
    \cup IF claim.index = "REBUILT_VERIFIED" THEN {IdxFile} ELSE {}

VerifyTopology(source, output, claim) ==
    LET expected == ExpectedInventory(source, claim)
        missing == expected \ output.files
        surplus == output.files \ expected
    IN If(\E t \in DOMAIN source.tables : FptFile(t) \in missing, "MEMO_COMPANION_MISSING")
       \cup If(IdxFile \in missing \cup surplus, "STANDALONE_IDX_EVIDENCE_MISMATCH")
       \cup If(\E t \in DOMAIN source.tables : DbfFile(t) \in missing, "TABLE_MISSING")
       \cup If(CdxFile \in surplus, "INDEX_ARTIFACT_UNVERIFIED")
       \cup If(surplus \ {IdxFile, CdxFile} # {}, "UNEXPECTED_OUTPUT_ARTIFACT")
       \cup If(claim.index = "OMITTED_UNVERIFIED", "STANDALONE_IDX_DEFINITION_UNAVAILABLE")

(***************************************************************************)
(* Durable state: identities, receipt, assurance and mapping domains.      *)
(***************************************************************************)
\* engine/publication.py: the derived identities, as the tuples they hash.
OperationId(dataset, place) == <<"operation", dataset, place>>
VaultFingerprint(vault) == <<"vault", vault.id, vault.dataset>>
BindingFingerprint(vault, place) ==
    <<"binding", vault.dataset, VaultFingerprint(vault), place>>

NoOperation == [state |-> "NONE"]

completed_operation(vault, id) ==
    IF vault.operation.state # "NONE" /\ vault.operation.id = id
      THEN vault.operation ELSE NoOperation

IdentitiesAgree(vault, op, place) ==
    /\ op.dataset = vault.dataset
    /\ op.vault = VaultFingerprint(vault)
    /\ op.place = place
    /\ op.binding = BindingFingerprint(vault, place)

\* relationships/assurance.py: the level a set of relation summaries earns.
AssuranceOf(relations, authority) ==
    [evidence |-> relations,
     level |-> IF relations = {} THEN "GLOBAL_EXACT_VALUE"
               ELSE IF \A r \in relations : r.verified
                    THEN IF authority THEN "VFP_METADATA_VERIFIED"
                                      ELSE "DECLARED_RELATIONS_VERIFIED"
               ELSE "INCOMPLETE"]

VerifyAssurance(claim, relations) ==
    If(\/ claim.assurance.evidence # relations
       \/ claim.assurance.level \notin
            IF relations = {} THEN {"GLOBAL_EXACT_VALUE"}
            ELSE IF \A r \in relations : r.verified
                 THEN {"DECLARED_RELATIONS_VERIFIED"}
                      \cup IF claim.authority THEN {"VFP_METADATA_VERIFIED"} ELSE {}
            ELSE {"INCOMPLETE"},
       "ASSURANCE_EVIDENCE_MISMATCH")

VerifyDomain(vault, d) ==
    CASE vault.domains[d] = "TEXT" ->
            If(~IsBijection(vault.text) \/ \E r \in vault.text : r[1] = "",
               "VAULT_MAPPING_INVALID")
      [] vault.domains[d] = "NUMERIC_KEY" ->
            If(~IsBijection(vault.key), "VAULT_MAPPING_INVALID")
      [] vault.domains[d] = "TEMPORAL" ->
            If(temporal_offset(vault, d) = 0, "VAULT_UNREADABLE")
      [] OTHER -> {"VAULT_MAPPING_INVALID"}

\* The nullable receipt column is the set of the receipts it holds.
VerifyReceipt(vault, claim, receipt) ==
    IF receipt = {} THEN {"RECEIPT_IDENTITY_MISMATCH"}
    ELSE (UNION {If(r.operation # claim.operation \/ r.index # claim.index,
                    "RECEIPT_IDENTITY_MISMATCH")
                 \cup If(r.output # claim.output, "RECEIPT_FINGERPRINT_MISMATCH")
                 \cup VerifyAssurance(claim, r.relations) : r \in receipt})
         \cup UNION {VerifyDomain(vault, d) : d \in DOMAIN vault.domains}

VerifyVault(vault, claim) ==
    LET op == completed_operation(vault, claim.operation)
    IN If(vault.dataset.source # claim.source, "VAULT_IDENTITY_MISMATCH")
       \cup IF op.state # "COMPLETED" THEN {"OPERATION_NOT_COMPLETED"}
            ELSE If(\/ ~IdentitiesAgree(vault, op, claim.place)
                    \/ op.output # claim.output, "VAULT_IDENTITY_MISMATCH")
                 \cup VerifyReceipt(vault, claim, op.receipt)

(***************************************************************************)
(* The whole verification.                                                 *)
(***************************************************************************)
\* A table without its DBF or FPT is not scanned.
ScannableTables(source, output) ==
    {t \in DOMAIN source.tables :
        /\ DbfFile(t) \in output.files
        /\ "memo" \in source.fields[t] => FptFile(t) \in output.files}

\* The records of all tables, from the records of each.
RecordTotal(lengths) == MapThenSumSet(LAMBDA t : lengths[t], DOMAIN lengths)

Verify(vault, source, output, claim) ==
    LET scanned == ScannableTables(source, output)
        counted == [t \in scanned |-> CountedRecords(vault, t, source, output)]
    IN If(source # claim.source, "SOURCE_FINGERPRINT_MISMATCH")
       \cup VerifyTopology(source, output, claim)
       \cup VerifyVault(vault, claim)
       \cup (UNION {VerifyTable(vault, t, source, output) : t \in scanned})
       \cup If(output # claim.output, "OUTPUT_FINGERPRINT_MISMATCH")
       \cup If(\/ scanned # DOMAIN source.tables
               \/ RecordTotal(counted) # claim.records, "RECORD_COUNT_MISMATCH")

Verdict(codes) ==
    IF codes \cap Unverifiable # {} THEN "ERROR"
    ELSE IF codes \ PartialCodes # {} THEN "FAIL"
    ELSE IF codes # {} THEN "PARTIAL"
    ELSE "PASS"
=============================================================================
