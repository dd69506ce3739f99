------------------------- MODULE RecoveryAuthority -------------------------
(* recovery.py, the part that reads: what recover() demands of the vault   *)
(* and of the pseudonymized tree before it creates anything, the reverse   *)
(* of every ledger action, and the comparison of the staged tables with    *)
(* the tree they were made from.  Staging and promotion are in Delivery.   *)
EXTENDS Verification

CONSTANT Irreversible    \* the exception of a value without its protected row

\* Whether the domains of the vault can be reversed.
DomainIsReversible(vault, d) ==
    /\ VerifyDomain(vault, d) = {}
    /\ vault.domains[d] = "TEMPORAL" => temporal_offset(vault, d) # Null

\* _validate_recovery_authority: every identity is derived from the path of
\* the tree and the rows of the vault.
AuthorityWithoutFingerprint(vault, output, place) ==
    LET id == OperationId(vault.dataset, place)
        op == completed_operation(vault, id)
    IN /\ op.state = "COMPLETED"
       /\ IdentitiesAgree(vault, op, place)
       /\ op.receipt # {}
       /\ \A d \in DOMAIN vault.domains : DomainIsReversible(vault, d)
       /\ \A t \in vault.tables : VerifyLedger(vault, t, output.fields[t]) = {}

AuthorityHolds(vault, output, place) ==
    LET id == OperationId(vault.dataset, place)
        op == completed_operation(vault, id)
    IN /\ op.state = "COMPLETED"
       /\ IdentitiesAgree(vault, op, place)
       /\ \E r \in op.receipt : r.operation = id /\ r.output = op.output
       /\ output = op.output
       /\ \A d \in DOMAIN vault.domains : DomainIsReversible(vault, d)
       /\ \A t \in vault.tables : VerifyLedger(vault, t, output.fields[t]) = {}

(***************************************************************************)
(* _reverse_value: the original of a pseudonymized value.  A value that    *)
(* cannot be reversed is Irreversible: the stream of records raises.       *)
(***************************************************************************)
OrIrreversible(v) == IF v = Null THEN Irreversible ELSE v

ReverseValue(vault, t, i, row, pv) ==
    CASE row.action = "KEEP" -> pv
      [] row.action = "MASK_REVERSIBLE" ->
            IF pv = Null THEN Null ELSE OrIrreversible(memo_recovery_row(vault, t, i))
      [] row.action = "SHIFT_REVERSIBLE" ->
            LET offset == IF row.domain = Null THEN Null
                          ELSE temporal_offset(vault, row.domain)
            IN IF offset = Null THEN Null ELSE temporal_shift(pv, -offset)
      [] row.action = "PSEUDONYMIZE_REVERSIBLE" ->
            IF pv = Null THEN Null
            ELSE IF domain_kind(vault, row.domain) = "NUMERIC_KEY"
                 THEN OrIrreversible(numeric_original(vault, row.domain, pv))
            ELSE IF pv = "" THEN pv
            ELSE OrIrreversible(text_original(vault, row.domain, pv))
      [] OTHER -> Irreversible

\* _recovered_records
RecoveredRecords(vault, t, output) ==
    [i \in 1..Len(output.tables[t]) |->
        [deleted |-> output.tables[t][i].deleted,
         values |-> [f \in output.fields[t] |->
                        ReverseValue(vault, t, i, vault.ledger[<<t, f>>],
                                     output.tables[t][i].values[f])]]]

RecoveryRaises(records) ==
    \E i \in 1..Len(records) : \E f \in DOMAIN records[i].values :
        records[i].values[f] = Irreversible

(***************************************************************************)
(* _verify_staged_table: the staged table agrees with the tree as it is    *)
(* read again.                                                             *)
(***************************************************************************)
ReverseAgrees(vault, row, staged, pv) ==
    IF pv = Null THEN staged = Null
    ELSE IF domain_kind(vault, row.domain) = "NUMERIC_KEY"
         THEN staged # Null /\ numeric_original(vault, row.domain, pv) = staged
    ELSE IF pv = "" THEN staged = ""
    ELSE staged # Null /\ text_original(vault, row.domain, pv) = staged

StagedValueAgrees(vault, t, i, row, staged, pv) ==
    CASE row.action = "KEEP" -> staged = pv
      [] row.action = "MASK_REVERSIBLE" ->
            IF pv = Null THEN staged = Null
            ELSE LET payload == memo_recovery_row(vault, t, i)
                 IN payload # Null /\ staged = payload
      [] row.action = "SHIFT_REVERSIBLE" ->
            LET offset == IF row.domain = Null THEN Null
                          ELSE temporal_offset(vault, row.domain)
            IN staged = IF offset = Null THEN pv ELSE temporal_shift(pv, -offset)
      [] row.action = "PSEUDONYMIZE_REVERSIBLE" ->
            ReverseAgrees(vault, row, staged, pv)
      [] OTHER -> FALSE

\* zip again: one pseudonymized record more than staged ones is not an extra.
StagedTableAgrees(vault, t, staged, output) ==
    LET p == output.tables[t]
    IN /\ t \notin output.odd
       /\ \A i \in 1..MinOf(Len(p), Len(staged)) :
             /\ p[i].deleted = staged[i].deleted
             /\ \A f \in output.fields[t] :
                   StagedValueAgrees(vault, t, i, vault.ledger[<<t, f>>],
                                     staged[i].values[f], p[i].values[f])
       /\ ~ExtraRecords(p, staged)
=============================================================================
