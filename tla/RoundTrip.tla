----------------------------- MODULE RoundTrip -----------------------------
(* The way of the data: run_two_pass observes every record of a source,    *)
(* allocates the protected rows, registers the field-policy ledger and     *)
(* writes the transformed tables; verify_dataset checks them against the   *)
(* source; recover() brings the source back from the output and the vault. *)
(*                                                                         *)
(* A run can fail between any two steps and is then retried with the same  *)
(* vault.  The writer of dbfbridge may write something else than it was    *)
(* given, and after publication somebody may change a file or a row of the *)
(* vault; MaxFaults bounds how often.  The transactional publication of    *)
(* the tree is module Publication and the staged publication of a recovery *)
(* module Delivery: here each is one step.                                 *)
EXTENDS RecoveryAuthority, SequencesExt

CONSTANTS Scenarios,   \* [tables: Seq of names, fields, index, authority]
          RowsOf(_),   \* the rows a table with these fields may hold
          ValuesOf,    \* [Fields -> the values of a field]
          TokensOf,    \* [{"text", "key"} -> tokens a pseudonym is drawn from]
          MaxRecords,  \* records of a source table
          MaxRuns,     \* runs of the engine on one vault
          MaxFaults    \* defects of the writer plus changes from outside

\* The key fields are those of the one relation, whose parent is the first
\* table and whose foreign side is the second; a row has a value of the
\* right kind for every field of its table.
ASSUME ScenarioAssumption ==
    \A c \in Scenarios :
        /\ c.tables \in Seq(Range(c.tables))
        /\ c.fields \in [Range(c.tables) -> (SUBSET Fields) \ {{}}]
        /\ LET keyed == {t \in Range(c.tables) : "key" \in c.fields[t]}
           IN keyed # {} => /\ Len(c.tables) >= 2 /\ c.tables[1] # c.tables[2]
                            /\ keyed = {c.tables[1], c.tables[2]}
        /\ \A t \in Range(c.tables) : \A r \in RowsOf(c.fields[t]) :
              /\ r = [f \in c.fields[t] |-> r[f]]
              /\ "date" \in c.fields[t] => r["date"] = Null \/ r["date"] \in Int

\* No pseudonym reads as an absent or an empty value.
ASSUME TokenAssumption ==
    /\ Null \notin TokensOf["text"] \cup TokensOf["key"]
    /\ "" \notin TokensOf["text"]

ASSUME BoundsAssumption == MaxRecords \in Nat /\ MaxRuns \in Nat /\ MaxFaults \in Nat

VARIABLES case,      \* the scenario
          source,    \* the source dataset, as it is now
          vault,     \* committed rows
          output,    \* the published tree, or Null
          claim,     \* the PseudonymizationResult, or Null
          pc,        \* the next step of the engine, of verify or of recover
          seen,      \* records pass 1 has read, per table
          spool,     \* observations of this run: texts, keys, days
          written,   \* tables pass 2 has staged
          given,     \* what pass 2 gave to the writer (relation evidence)
          verdict,   \* of verify_dataset on the present state, or Null
          staged,    \* tables recover() has staged
          recovered, \* the dataset recover() promoted, Null without one
          runs,      \* runs of the engine so far
          faults     \* the kinds of fault that have happened

engine == <<pc, seen, spool, written, given, runs>>
outcome == <<verdict, staged, recovered>>
vars == <<case, source, vault, output, claim, engine, outcome, faults>>

Tables == Range(case.tables)
HasRelation == Cardinality({t \in Tables : "key" \in case.fields[t]}) = 2
Place == "home"

\* Deleted records travel like the others: the second record of a table is
\* a deleted one.
Records(fields) ==
    {[i \in DOMAIN rows |-> [deleted |-> i = 2, values |-> rows[i]]] :
        rows \in BoundedSeq(RowsOf(fields), MaxRecords)}

Datasets(c) ==
    {d \in [Range(c.tables) -> UNION {Records(c.fields[t]) : t \in Range(c.tables)}] :
        \A t \in Range(c.tables) : d[t] \in Records(c.fields[t])}

NewVault(s) ==
    [id |-> "vault", dataset |-> [source |-> s, policy |-> "policy"],
     tables |-> {}, ledger |-> EmptyFunction, domains |-> EmptyFunction,
     text |-> {}, key |-> {}, memo |-> EmptyFunction, offset |-> Null,
     operation |-> NoOperation]

NoObservations == [text |-> {}, key |-> {}, days |-> {}]

Init ==
    /\ case \in Scenarios
    /\ \E d \in Datasets(case) :
          source = [tables |-> d, fields |-> case.fields]
    /\ vault = NewVault(source)
    /\ output = Null /\ claim = Null
    /\ pc = "structure"
    /\ seen = [t \in Tables |-> 0]
    /\ spool = NoObservations
    /\ written = EmptyFunction /\ given = EmptyFunction
    /\ verdict = Null
    /\ staged = EmptyFunction /\ recovered = Null
    /\ runs = 1 /\ faults = {}

\* One more fault of a kind, while the bound allows it.
Fault(kind) ==
    /\ kind \notin faults /\ Cardinality(faults) < MaxFaults
    /\ faults' = faults \cup {kind}

(***************************************************************************)
(* Pass 1.                                                                 *)
(***************************************************************************)
LedgerRow(v, f) ==
    [action |-> Action(f), domain |-> DirectiveDomain(v, f), factsAgree |-> TRUE]

\* Existing rows are revalidated, never replaced; a difference ends the run.
Register(v, pairs) ==
    [v EXCEPT !.tables = @ \cup {p[1] : p \in pairs},
              !.ledger = [p \in DOMAIN @ \cup pairs |->
                            IF p \in DOMAIN @ THEN @[p] ELSE LedgerRow(v, p[2])]]

RegistersAgree(v, pairs) ==
    \A p \in pairs \cap DOMAIN v.ledger : v.ledger[p] = LedgerRow(v, p[2])

Pairs == {p \in Tables \X Fields : p[2] \in case.fields[p[1]]}
MemoPairs == {p \in Pairs : p[2] = "memo"}

\* Memo rows refer to their field, so memo fields are registered first.
RegisterMemoStructure ==
    /\ pc = "structure"
    /\ vault' = Register(vault, MemoPairs)
    /\ pc' = IF RegistersAgree(vault, MemoPairs) THEN "scan" ELSE "failed"
    /\ UNCHANGED <<case, source, output, claim, seen, spool, written, given, runs,
                   outcome, faults>>

\* persist_memo_recovery: idempotent for the same payload, refused otherwise.
MemoConflicts(t, i, payload) ==
    memo_recovery_row(vault, t, i) \notin {Null, payload}

PersistMemoOfNewTables(t, i, payload) ==
    IF payload = Null \/ (\E x \in DOMAIN vault.memo : x[1] = t) THEN vault
    ELSE [vault EXCEPT !.memo = [x \in DOMAIN @ \cup {<<t, i>>} |->
                                   IF x \in DOMAIN @ THEN @[x] ELSE payload]]

PersistMemo(t, i, payload) ==
    IF payload = Null \/ <<t, i>> \in DOMAIN vault.memo THEN vault
    ELSE [vault EXCEPT !.memo = [x \in DOMAIN @ \cup {<<t, i>>} |->
                                   IF x \in DOMAIN @ THEN @[x] ELSE payload]]

Observed(values) ==
    LET Value(f) == IF f \in DOMAIN values THEN {values[f]} \ {Null} ELSE {}
    IN [text |-> spool.text \cup (Value("text") \ {""}),
        key |-> spool.key \cup Value("key"),
        days |-> spool.days \cup Value("date")]

CurrentTable == SelectInSeq(case.tables, LAMBDA t : seen[t] < Len(source.tables[t]))

ObserveRecord ==
    /\ pc = "scan" /\ CurrentTable # 0
    /\ LET t == case.tables[CurrentTable]
           i == seen[t] + 1
           values == source.tables[t][i].values
           payload == IF "memo" \in DOMAIN values THEN values["memo"] ELSE Null
       IN IF MemoConflicts(t, i, payload)
            THEN pc' = "failed" /\ UNCHANGED <<vault, spool, seen>>
            ELSE /\ vault' = PersistMemo(t, i, payload)
                 /\ spool' = Observed(values)
                 /\ seen' = [seen EXCEPT ![t] = i]
                 /\ pc' = pc
    /\ UNCHANGED <<case, source, output, claim, written, given, runs, outcome, faults>>

ScanEnds ==
    /\ pc = "scan" /\ CurrentTable = 0
    /\ pc' = "text"
    /\ UNCHANGED <<case, source, vault, output, claim, seen, spool, written, given,
                   runs, outcome, faults>>

AddDomain(v, d, kind) ==
    [v EXCEPT !.domains = [x \in DOMAIN @ \cup {d} |-> IF x = d THEN kind ELSE @[x]]]

\* A free token that is not the original itself; modules TextAllocation and
\* NumericAllocation say how it is found.
FreeTokensReused(rows, tokens, original) == tokens \ {original}

FreeTokens(rows, tokens, original) ==
    {p \in tokens \ {original} : \A r \in rows : r[2] # p}

Unmapped(rows, originals) == {o \in originals : \A r \in rows : r[1] # o}

\* Without a text observation there is no encoding and the domain is not made.
FinalizeText ==
    /\ pc = "text"
    /\ LET open == Unmapped(vault.text, spool.text)
       IN \/ /\ spool.text # {} /\ TextDomain \notin DOMAIN vault.domains
             /\ vault' = AddDomain(vault, TextDomain, "TEXT") /\ pc' = pc
          \/ /\ open # {} /\ TextDomain \in DOMAIN vault.domains
             /\ \E o \in open : \E p \in FreeTokens(vault.text, TokensOf["text"], o) :
                   vault' = [vault EXCEPT !.text = @ \cup {<<o, p>>}]
             /\ pc' = pc
          \/ /\ open = {} /\ (spool.text = {} \/ TextDomain \in DOMAIN vault.domains)
             /\ vault' = vault /\ pc' = "key"
    /\ UNCHANGED <<case, source, output, claim, seen, spool, written, given, runs,
                   outcome, faults>>

FinalizeNumeric ==
    /\ pc = "key"
    /\ LET open == Unmapped(vault.key, spool.key)
       IN \/ /\ HasRelation /\ KeyDomain \notin DOMAIN vault.domains
             /\ vault' = AddDomain(vault, KeyDomain, "NUMERIC_KEY") /\ pc' = pc
          \/ /\ open # {} /\ KeyDomain \in DOMAIN vault.domains
             /\ \E o \in open : \E p \in FreeTokens(vault.key, TokensOf["key"], o) :
                   vault' = [vault EXCEPT !.key = @ \cup {<<o, p>>}]
             /\ pc' = pc
          \/ /\ open = {} /\ (~HasRelation \/ KeyDomain \in DOMAIN vault.domains)
             /\ vault' = vault /\ pc' = "temporal"
    /\ UNCHANGED <<case, source, output, claim, seen, spool, written, given, runs,
                   outcome, faults>>

\* TemporalShiftDomain.finalize: no day, no parameter; the persisted offset
\* is reused; otherwise any feasible non-zero one is drawn.
TemporalPresent == \E t \in Tables : "date" \in case.fields[t]

FinalizeTemporal ==
    /\ pc = "temporal"
    /\ LET feasible == FeasibleOffsets(Min(spool.days), Max(spool.days))
       IN IF ~TemporalPresent \/ spool.days = {}
            THEN vault' = vault /\ pc' = "ledger"
          ELSE IF feasible = {} THEN vault' = vault /\ pc' = "refused"
          ELSE IF vault.offset # Null
            THEN vault' = vault /\ pc' = IF vault.offset \in feasible THEN "ledger" ELSE "refused"
          ELSE \E offset \in feasible :
                  /\ vault' = [AddDomain(vault, TemporalDomain, "TEMPORAL")
                                 EXCEPT !.offset = offset]
                  /\ pc' = "ledger"
    /\ UNCHANGED <<case, source, output, claim, seen, spool, written, given, runs,
                   outcome, faults>>

RegisterTransformFields ==
    /\ pc = "ledger"
    /\ vault' = Register(vault, Pairs)
    /\ pc' = IF RegistersAgree(vault, Pairs) THEN "offset" ELSE "failed"
    /\ UNCHANGED <<case, source, output, claim, seen, spool, written, given, runs,
                   outcome, faults>>

(***************************************************************************)
(* Pass 2.                                                                 *)
(***************************************************************************)
\* _persisted_temporal_offset, before the first table.
PersistedOffset ==
    /\ pc = "offset"
    /\ pc' = IF TemporalPresent /\ vault.offset = Null THEN "refused" ELSE "write"
    /\ UNCHANGED <<case, source, vault, output, claim, seen, spool, written, given,
                   runs, outcome, faults>>

Transformed(t) ==
    [i \in 1..Len(source.tables[t]) |->
        [deleted |-> source.tables[t][i].deleted,
         values |-> [f \in case.fields[t] |->
                        Image(vault, f, source.tables[t][i].values[f])]]]

TransformRaises(t) ==
    \E i \in 1..Len(source.tables[t]) : \E f \in case.fields[t] :
        MappingMissing(vault, f, source.tables[t][i].values[f])

\* What a faulty writer may leave of a table: a record lost, a marker
\* changed, two records exchanged, or one value replaced by another.
Damaged(records) ==
    LET n == Len(records)
    IN {SubSeq(records, 1, k) : k \in 0..(n - 1)}
       \cup {[records EXCEPT ![i].deleted = ~@] : i \in 1..n}
       \cup {[records EXCEPT ![1] = records[2], ![2] = records[1]] : k \in {2} \cap 1..n}
       \cup UNION {UNION {{[records EXCEPT ![i].values[f] = v] : v \in ValuesOf[f]} :
                            f \in DOMAIN records[i].values} : i \in 1..n}

\* One more table of a staging directory.
With(tables, t, records) ==
    [u \in DOMAIN tables \cup {t} |-> IF u = t THEN records ELSE tables[u]]

WriteTable(t) ==
    /\ pc = "write" /\ t \in Tables \ DOMAIN written
    /\ IF TransformRaises(t)
         THEN pc' = "failed" /\ UNCHANGED <<written, given, faults>>
         ELSE /\ pc' = pc
              /\ given' = With(given, t, Transformed(t))
              /\ \/ written' = With(written, t, Transformed(t)) /\ faults' = faults
                 \/ /\ Fault("writer")
                    /\ \E records \in Damaged(Transformed(t)) \ {Transformed(t)} :
                          written' = With(written, t, records)
    /\ UNCHANGED <<case, source, vault, output, claim, seen, spool, runs, outcome>>

(***************************************************************************)
(* Relation evidence: rows, NULL tuples and key multiplicities of the two  *)
(* sides, before and after.                                                *)
(***************************************************************************)
Parent == case.tables[1]
Foreign == case.tables[2]

KeysOf(records) == [i \in 1..Len(records) |-> records[i].values["key"]]
Nulls(keys) == Cardinality({i \in DOMAIN keys : keys[i] = Null})
Occurrences(keys, k) == Cardinality({i \in DOMAIN keys : keys[i] = k})
Distinct(keys) == Range(keys) \ {Null}

\* The multiset of multiplicities, as the number of keys per multiplicity.
Profile(keys) ==
    [n \in 1..MaxRecords |-> Cardinality({k \in Distinct(keys) : Occurrences(keys, k) = n})]

Matched(parents, foreigns) ==
    Cardinality({i \in DOMAIN foreigns : /\ foreigns[i] # Null
                                         /\ foreigns[i] \in Range(parents)})

Orphans(parents, foreigns) ==
    (Len(foreigns) - Nulls(foreigns)) - Matched(parents, foreigns)

Summary(before, after) ==
    LET bp == KeysOf(before[Parent])   ap == KeysOf(after[Parent])
        bf == KeysOf(before[Foreign])  af == KeysOf(after[Foreign])
    IN [verified |-> /\ Profile(bp) = Profile(ap) /\ Profile(bf) = Profile(af)
                     /\ Matched(bp, bf) = Matched(ap, af)
                     /\ Orphans(bp, bf) = Orphans(ap, af)
                     /\ Nulls(bp) = Nulls(ap) /\ Nulls(bf) = Nulls(af),
        rows |-> Len(ap) + Len(af), matched |-> Matched(ap, af)]

compare_relations ==
    IF HasRelation THEN {Summary(source.tables, given)} ELSE {}

(***************************************************************************)
(* Publication, reduced to its effect: tree, completed row, receipt.  The  *)
(* record total is what the writer reports: a writer that loses a record   *)
(* may have counted it or not.                                             *)
(***************************************************************************)
TreeOf(tables) ==
    [tables |-> tables, fields |-> case.fields,
     files |-> {DbfFile(t) : t \in Tables}
               \cup {FptFile(t) : t \in {u \in Tables : "memo" \in case.fields[u]}}
               \cup IF case.index = "REBUILT_VERIFIED" THEN {IdxFile} ELSE {},
     coupled |-> {}, odd |-> {}]

Lengths(tables) == [t \in DOMAIN tables |-> Len(tables[t])]

Publish ==
    /\ pc = "write" /\ DOMAIN written = Tables
    /\ LET tree == TreeOf(written)
           id == OperationId(vault.dataset, Place)
           relations == compare_relations
       IN \E records \in {RecordTotal(Lengths(written)), RecordTotal(Lengths(given))} :
          /\ output' = tree
          /\ vault' = [vault EXCEPT !.operation =
                [id |-> id, state |-> "COMPLETED", dataset |-> vault.dataset,
                 vault |-> VaultFingerprint(vault), place |-> Place,
                 binding |-> BindingFingerprint(vault, Place), output |-> tree,
                 receipt |-> {[operation |-> id, output |-> tree, records |-> records,
                               relations |-> relations, index |-> case.index]}]]
          /\ claim' = [source |-> source, operation |-> id, place |-> Place,
                       output |-> tree, records |-> records, index |-> case.index,
                       authority |-> case.authority,
                       assurance |-> AssuranceOf(relations, case.authority)]
    /\ pc' = "published"
    /\ UNCHANGED <<case, source, seen, spool, written, given, runs, outcome, faults>>

\* A cancellation, an I/O error or a crash between two steps of the engine.
\* The spool and the collector of days die with the run.
EngineSteps == {"structure", "scan", "text", "key", "temporal", "ledger", "offset", "write"}

RunFails ==
    /\ pc \in EngineSteps
    /\ pc' = "failed"
    /\ UNCHANGED <<case, source, vault, output, claim, seen, spool, written, given,
                   runs, outcome, faults>>

Retry ==
    /\ pc = "failed" /\ runs < MaxRuns
    /\ runs' = runs + 1
    /\ pc' = "structure"
    /\ seen' = [t \in Tables |-> 0]
    /\ spool' = NoObservations
    /\ written' = EmptyFunction /\ given' = EmptyFunction
    /\ UNCHANGED <<case, source, vault, output, claim, outcome, faults>>

(***************************************************************************)
(* Changes from outside, after publication.                                *)
(***************************************************************************)
SourceChanges ==
    {[source EXCEPT !.tables[t] = Append(@, [deleted |-> FALSE,
                                             values |-> [f \in case.fields[t] |-> Null]])] :
        t \in Tables}

OutputChanges ==
    (UNION {{[output EXCEPT !.tables[t] = r] : r \in Damaged(output.tables[t])} : t \in Tables})
    \cup {[output EXCEPT !.files = @ \ {f}] : f \in output.files}
    \cup {[output EXCEPT !.files = @ \cup {f}] : f \in {CdxFile, IdxFile, OtherFile}}
    \cup {[output EXCEPT !.coupled = {t}] : t \in Tables}
    \cup {[output EXCEPT !.odd = {t}] : t \in Tables}

LedgerChanges ==
    {[vault EXCEPT !.ledger = [q \in DOMAIN @ \ {p} |-> @[q]]] : p \in DOMAIN vault.ledger}
    \cup {[vault EXCEPT !.ledger[p].factsAgree = FALSE] : p \in DOMAIN vault.ledger}
    \cup {[vault EXCEPT !.ledger[p] = [@ EXCEPT !.action = "KEEP", !.domain = Null]] :
            p \in DOMAIN vault.ledger}

MappingChanges ==
    {[vault EXCEPT !.domains[d] = "BOGUS"] : d \in DOMAIN vault.domains}
    \cup (UNION {{[vault EXCEPT !.text = {IF r = q THEN <<o, q[2]>> ELSE r : r \in @}] :
                    q \in vault.text} : o \in TokensOf["text"] \cup {""}})
    \cup {[vault EXCEPT !.key = @ \ {r}] : r \in vault.key}
    \cup {[vault EXCEPT !.offset = o] :
            o \in IF vault.offset = Null THEN {} ELSE {Null, 0, 1}}

MemoChanges ==
    {[vault EXCEPT !.memo[x] = "other"] : x \in DOMAIN vault.memo}
    \cup {[vault EXCEPT !.memo = [y \in DOMAIN @ \ {x} |-> @[y]]] : x \in DOMAIN vault.memo}

OperationChanges ==
    LET row == vault.operation
        Receipts(r) == [row EXCEPT !.receipt = r]
    IN {[vault EXCEPT !.operation = r] : r \in
          {[row EXCEPT !.state = "STARTED"], [row EXCEPT !.dataset.policy = "other"],
           Receipts({}),
           Receipts({[r EXCEPT !.operation = OperationId(vault.dataset, "copy")] : r \in row.receipt}),
           Receipts({[r EXCEPT !.records = @ + 1] : r \in row.receipt}),
           Receipts({[r EXCEPT !.relations = {[s EXCEPT !.verified = ~@] : s \in @}] :
                       r \in row.receipt})}}

VaultChanges == LedgerChanges \cup MappingChanges \cup MemoChanges \cup OperationChanges

Recovering == {"staging", "checking", "promoting"}

ChangeOutside ==
    /\ pc \in {"published"} \cup Recovering
    /\ \/ /\ Fault("source")
          /\ source' \in SourceChanges
          /\ UNCHANGED <<vault, output>>
       \/ /\ Fault(IF pc = "published" THEN "tree" ELSE "race")
          /\ output' \in OutputChanges \ {output}
          /\ UNCHANGED <<source, vault>>
       \/ /\ pc = "published" /\ Fault("vault")
          /\ vault' \in VaultChanges \ {vault}
          /\ UNCHANGED <<source, output>>
    /\ verdict' = Null
    /\ UNCHANGED <<case, claim, engine, staged, recovered>>

(***************************************************************************)
(* verify_dataset and recover.                                             *)
(***************************************************************************)
VerifyDataset ==
    /\ pc = "published" /\ verdict = Null
    /\ verdict' = Verdict(Verify(vault, source, output, claim))
    /\ UNCHANGED <<case, source, vault, output, claim, engine, staged, recovered, faults>>

\* recover() on the tree where it was published or on a copy elsewhere.
ValidateAuthority(place) ==
    /\ pc = "published" /\ recovered = Null
    /\ pc' = IF AuthorityHolds(vault, output, place) THEN "staging" ELSE "recoveryRefused"
    /\ staged' = EmptyFunction
    /\ UNCHANGED <<case, source, vault, output, claim, seen, spool, written, given, runs,
                   verdict, recovered, faults>>

\* The record total of the receipt.
ReceiptSays(total) == \E r \in vault.operation.receipt : r.records = total

RecoverTable(t) ==
    /\ pc = "staging" /\ t \in vault.tables \ DOMAIN staged
    /\ LET records == RecoveredRecords(vault, t, output)
       IN IF DbfFile(t) \notin output.files \/ RecoveryRaises(records)
            THEN pc' = "recoveryRefused" /\ staged' = staged
            ELSE pc' = pc /\ staged' = With(staged, t, records)
    /\ UNCHANGED <<case, source, vault, output, claim, seen, spool, written, given, runs,
                   verdict, recovered, faults>>

TablesRecovered ==
    /\ pc = "staging" /\ DOMAIN staged = vault.tables
    /\ pc' = IF ReceiptSays(RecordTotal(Lengths(staged))) THEN "checking"
             ELSE "recoveryRefused"
    /\ UNCHANGED <<case, source, vault, output, claim, seen, spool, written, given, runs,
                   outcome, faults>>

VerifyStaged ==
    /\ pc = "checking"
    /\ LET compared == {t \in vault.tables : DbfFile(t) \in output.files}
           counts == [t \in compared |-> MinOf(Len(staged[t]), Len(output.tables[t]))]
       IN pc' = IF /\ compared = vault.tables
                   /\ \A t \in compared : StagedTableAgrees(vault, t, staged[t], output)
                   /\ ReceiptSays(RecordTotal(counts))
                THEN "promoting" ELSE "recoveryRefused"
    /\ UNCHANGED <<case, source, vault, output, claim, seen, spool, written, given, runs,
                   outcome, faults>>

PromoteRecovery ==
    /\ pc = "promoting"
    /\ recovered' = staged
    /\ pc' = "published"
    /\ UNCHANGED <<case, source, vault, output, claim, seen, spool, written, given, runs,
                   verdict, staged, faults>>

Next ==
    \/ RegisterMemoStructure \/ ObserveRecord \/ ScanEnds
    \/ FinalizeText \/ FinalizeNumeric \/ FinalizeTemporal \/ RegisterTransformFields
    \/ PersistedOffset \/ (\E t \in Tables : WriteTable(t)) \/ Publish
    \/ RunFails \/ Retry \/ ChangeOutside \/ VerifyDataset
    \/ (\E place \in {Place, "copy"} : ValidateAuthority(place))
    \/ (\E t \in Tables : RecoverTable(t)) \/ TablesRecovered \/ VerifyStaged
    \/ PromoteRecovery

Spec == Init /\ [][Next]_vars

(***************************************************************************)
(* Properties.                                                             *)
(***************************************************************************)
Source == vault.dataset.source.tables
Accepted == verdict \in {"PASS", "PARTIAL"}

\* The values that no transformation touches.
CopiedAsIs(f) == {Null} \cup IF f = "text" THEN {""} ELSE {}

\* No value of this kind is in the source, although a field for it is.
NothingToMap(f) ==
    /\ \E t \in Tables : f \in case.fields[t]
    /\ \A t \in Tables : f \in case.fields[t] =>
          \A i \in 1..Len(Source[t]) : Source[t][i].values[f] \in CopiedAsIs(f)

\* A dataset that the engine published, after any number of failed runs on
\* the same vault, passes verify_dataset as long as nobody touches it: what
\* pass 1 persists, the ledger of run.py and what pass 2 writes agree with
\* what verification.py expects.  Datasets whose text fields are all empty
\* are left out: see the README.
CleanRunVerifies ==
    faults = {} /\ verdict # Null /\ ~NothingToMap("text") =>
        verdict = IF case.index = "OMITTED_UNVERIFIED" THEN "PARTIAL" ELSE "PASS"

\* The finalize of TemporalShiftDomain calls a dataset without a single day
\* a valid one; the run refuses only calendars without a feasible offset.
EmptyDomainIsValid == pc = "refused" => spool.days # {}

\* What verify_dataset accepts hides every original, keeps what is to be
\* kept, and maps equal texts and keys to equal ones across all tables and
\* different ones to different ones, whatever the writer wrote and whatever
\* changed after publication, unless both went wrong: an original that the
\* writer left in place passes when the ledger was changed to KEEP.  The
\* last record of a table may be missing: _verify_table's zip drops the
\* first source record without a partner.
AcceptedIsFaithful ==
    Accepted /\ ~({"writer", "vault"} \subseteq faults) =>
        /\ \A t \in Tables :
              Len(output.tables[t]) \in {Len(source.tables[t]) - 1, Len(source.tables[t])}
        /\ LET Cells(f) == {c \in Tables \X (1..MaxRecords) :
                              f \in case.fields[c[1]] /\ c[2] <= Len(output.tables[c[1]])}
               In(c, f) == source.tables[c[1]][c[2]].values[f]
               Out(c, f) == output.tables[c[1]][c[2]].values[f]
           IN /\ \A f \in {"text", "key", "memo", "date"} : \A c \in Cells(f) :
                    IF In(c, f) \in CopiedAsIs(f) THEN Out(c, f) = In(c, f)
                                               ELSE Out(c, f) # In(c, f)
              /\ \A c \in Cells("keep") : Out(c, "keep") = In(c, "keep")
              /\ \A f \in {"text", "key"} : \A c, d \in Cells(f) :
                    (In(c, f) = In(d, f)) = (Out(c, f) = Out(d, f))

\* A dataset that verify_dataset accepts can be recovered: the authority of
\* recovery.py holds, and reversing the tree gives the source, record for
\* record.  Not so when both the writer and the vault went wrong: dates left
\* in place pass without the offset of their domain.
VerifiedIsRecoverable ==
    Accepted /\ ~({"writer", "vault"} \subseteq faults) =>
        /\ AuthorityHolds(vault, output, Place)
        /\ \A t \in Tables :
              RecoveredRecords(vault, t, output) =
                  SubSeq(source.tables[t], 1, Len(output.tables[t]))

\* The dataset that recover() promotes is the source the vault was made for,
\* even when the tree was changed after publication and never verified: the
\* changed tree is refused.  A change of the tree while recover() reads it,
\* a defect of the writer and a change of the vault are not covered.
RecoveredIsSource ==
    recovered # Null /\ faults \cap {"writer", "race", "vault"} = {} => recovered = Source

\* Two records of the two sides of a relation have equal keys in the
\* published tables exactly when they have in the source, and the evidence
\* of pass 2 says so.
JoinIsPreserved ==
    claim # Null /\ HasRelation /\ "writer" \notin faults =>
        /\ claim.assurance.level # "INCOMPLETE"
        /\ \A i \in 1..Len(Source[Parent]), j \in 1..Len(Source[Foreign]) :
              (Source[Parent][i].values["key"] = Source[Foreign][j].values["key"]) =
              (claim.output.tables[Parent][i].values["key"] =
                  claim.output.tables[Foreign][j].values["key"])
=============================================================================
