------------------------------ MODULE Assurance ------------------------------
(***************************************************************************)
(* One pseudonymization seen from its declared relationships: the document *)
(* is parsed and bound when the plan is built, judged by preflight, turned *)
(* into the treatment of every field, observed record by record before and *)
(* after the transformation, compared, and condensed to the assurance      *)
(* level of the result. Between the two passes somebody may change the     *)
(* source. What a field's pseudonyms are is Pseudonym, the outcome of the  *)
(* allocation modules.                                                     *)
(***************************************************************************)
EXTENDS Relationships

CONSTANTS
    Payloads,          \* documents a caller may pass, Absent for none
    TableOrder,        \* the tables, in plan order
    SchemaFacts,       \* possible schemas: functions from <<table, field>> to facts
    Texts, Numbers,    \* the texts and the integers a record may hold
    Values(_, _),      \* Values(facts, place): the values a field may hold
    Pseudonym(_, _),   \* Pseudonym(domain, v)
    MaxRows,           \* records of a table
    MaxEdits           \* changes of the source between the passes

ASSUME BoundsAssumption == MaxRows \in Nat /\ MaxEdits \in Nat

VARIABLES
    phase,     \* what the caller is waiting for
    payload,   \* the document passed to build_plan
    facts,     \* the source schema
    doc,       \* the parsed document, or Absent
    meta,      \* plan.relationships
    binding,   \* the in-process authority binding, or Absent
    source,    \* the records of every table
    scanned,   \* the source as pass 1 read it
    todo,      \* tables the running pass has not finished
    spool,     \* relation evidence, by side, relation and role
    output,    \* the records written
    level,     \* the assurance level of the result
    edits

assurance_vars ==
    <<phase, payload, facts, doc, meta, binding, source, scanned, todo, spool, output, level,
      edits>>

PlanTables == Elements(TableOrder)
SchemaFields(f, t) == {p[2] : p \in {q \in DOMAIN f : q[1] = t}}

Relations == IF doc = Absent THEN {} ELSE effective_groups(doc)

-----------------------------------------------------------------------------
(* The engine plan.                                                        *)

\* The first effective reversible group a numeric field belongs to.
numeric_member_of(t, f) ==
    LET having == {i \in DOMAIN doc.groups :
                     /\ IsEffective(doc, doc.groups[i])
                     /\ doc.groups[i].strategy = "REVERSIBLE_BIJECTIVE"
                     /\ \E m \in Elements(doc.groups[i].members) :
                           is_numeric_member(m) /\ Place(m) = <<t, f>>}
    IN  IF doc = Absent \/ having = {} THEN Absent
        ELSE <<relationship_fingerprint(doc), doc.groups[Min(having)].id>>

\* GLOBAL_TEXT_DOMAIN_ID: no relation of a document has the number 0.
GlobalText == <<Absent, 0>>

\* A domain's mapping: injective and within the kind of the values, which is
\* what the allocation of pass 1 guarantees.
IsReplacement(domain, kind) ==
    /\ domain # Absent
    /\ \A v \in kind : Pseudonym(domain, v) \in kind
    /\ \A v, w \in kind : Pseudonym(domain, v) = Pseudonym(domain, w) => v = w

ASSUME PseudonymAssumption ==
    /\ IsReplacement(GlobalText, Texts \ {""})
    /\ \A d \in Payloads \ {Absent} : \A g \in Elements(ParsedDocument(d).groups) :
          g.strategy = "REVERSIBLE_BIJECTIVE" =>
              IsReplacement(resolved_numeric_domain(ParsedDocument(d), g), Numbers)

\* A field holds NULL or a value of its type; a number may have a fraction.
ASSUME ValuesAssumption ==
    /\ Texts \cap Numbers = {} /\ "" \in Texts /\ Absent \notin Texts \cup Numbers
    /\ \A f \in SchemaFacts : \A p \in DOMAIN f :
          /\ f[p].type \in {"C", "V"} => Values(f, p) \subseteq Texts \cup {Absent}
          /\ f[p].type \in {"I", "N"} => Values(f, p) \subseteq Numbers \cup {Absent, "fraction"}

\* Payloads are lists of groups of lists of members.
ASSUME DocumentAssumption ==
    \A d \in Payloads \ {Absent} :
        /\ d.groups \in Seq(Elements(d.groups))
        /\ \A g \in Elements(d.groups) : g.members \in Seq(Elements(g.members))

\* The schema is that of the plan's tables.
ASSUME SchemaAssumption ==
    \A f \in SchemaFacts : \A p \in DOMAIN f : p[1] \in PlanTables

\* A missing level is no level.
ASSUME AbsentAssumption == Absent # "VFP_METADATA_VERIFIED"

\* The domain whose pseudonyms replace a field's values; Absent: kept.
Treatment(t, f) ==
    IF numeric_member_of(t, f) # Absent THEN numeric_member_of(t, f)
    ELSE IF facts[<<t, f>>].type \in {"C", "V"} THEN GlobalText ELSE Absent

\* RelationDirective: one table per side, that of the side's first member.
RelationDirective(g) ==
    [parent  |-> [table  |-> parent_members(g)[1].table,
                  fields |-> [i \in DOMAIN parent_members(g) |-> parent_members(g)[i].field]],
     foreign |-> [table  |-> foreign_members(g)[1].table,
                  fields |-> [i \in DOMAIN foreign_members(g) |-> foreign_members(g)[i].field]]]

Sides == {"parent", "foreign"}

\* The key tuple of one record: a field the record lacks is read as NULL.
KeyOf(side, record) ==
    [i \in DOMAIN side.fields |->
        IF side.fields[i] \in DOMAIN record THEN record[side.fields[i]] ELSE Absent]

KeyStream(side, records) == [i \in DOMAIN records |-> KeyOf(side, records[i])]

\* A component that is neither text nor an integer stops the pass.
Unsupported(side, record) == "fraction" \in Elements(KeyOf(side, record))

\* The shard of one table: evidence of its records for the sides it holds.
TableEvidence(g, role, t, records) ==
    LET side == RelationDirective(g)[role]
    IN  IF side.table = t
        THEN Observed(KeyStream(side, records))
        ELSE NoEvidence

ObservationFails(t, records) ==
    \E g \in Relations, role \in Sides : \E i \in DOMAIN records :
        LET side == RelationDirective(g)[role]
        IN  side.table = t /\ Unsupported(side, records[i])

transform_value(t, f, v) ==
    IF v \in {Absent, ""} \/ Treatment(t, f) = Absent THEN v ELSE Pseudonym(Treatment(t, f), v)

Transformed(t, record) == [f \in DOMAIN record |-> transform_value(t, f, record[f])]

\* A value pass 1 did not see has no mapping when pass 2 needs it.
MappingMissing(t, record) ==
    \E f \in DOMAIN record :
        /\ Treatment(t, f) # Absent
        /\ record[f] \notin {Absent, ""}
        /\ ~ \E p \in DOMAIN facts :
                /\ Treatment(p[1], p[2]) = Treatment(t, f)
                /\ \E i \in DOMAIN scanned[p[1]] : scanned[p[1]][i][p[2]] = record[f]

-----------------------------------------------------------------------------

\* The records a table may hold. Fields no relation mentions hold NULL.
Keyed(f) ==
    {p \in DOMAIN f : payload # Absent /\ \E g \in Elements(payload.groups) :
        \E m \in Elements(g.members) : p[2] = m.field}

RecordsOf(t) ==
    {r \in [SchemaFields(facts, t) -> UNION {Values(facts, p) : p \in DOMAIN facts}] :
        \A f \in DOMAIN r :
            r[f] \in (IF <<t, f>> \in Keyed(facts) THEN Values(facts, <<t, f>>) ELSE {Absent})}

AssuranceInit ==
    /\ phase = "plan"
    /\ payload \in Payloads
    /\ facts \in SchemaFacts
    /\ doc = Absent /\ meta = Absent /\ binding = Absent
    /\ source = <<>> /\ scanned = <<>>
    /\ todo = {}
    /\ spool = [side \in {"before", "after"} |-> <<>>]
    /\ output = <<>>
    /\ level = Absent
    /\ edits = 0

\* build_plan refuses a document it cannot parse or bind.
Refused ==
    /\ payload # Absent
    /\ \/ ~ parse_relationship_document(payload)
       \/ LET d == ParsedDocument(payload)
          IN  ~ DocumentBinds(facts, d)

\* Minting without the envelope.
MintsForAnyDocument(d) == AuthoritativeIsAccepted(d)

\* A binding is minted only for effective claims that came in an envelope.
MintsBinding(d) == effective_groups(d) # {} /\ d.external

BuildPlan ==
    /\ phase = "plan"
    /\ IF Refused
       THEN phase' = "refused" /\ UNCHANGED <<doc, meta, binding>>
       ELSE /\ phase' = "preflight"
            /\ IF payload = Absent
               THEN /\ doc' = Absent /\ binding' = Absent
                    /\ meta' = [provenance |-> "NONE", fingerprint |-> Absent, count |-> 0,
                                authoritative |-> FALSE]
               ELSE LET d == ParsedDocument(payload)
                    IN  /\ doc' = d
                        /\ meta' = IF MintsBinding(d)
                                   THEN authoritative_vfp_metadata_from_document(d)
                                   ELSE relationship_metadata_from_document(d)
                        /\ binding' = IF MintsBinding(d) THEN AuthoritativeVFPBinding(d)
                                      ELSE Absent
    /\ UNCHANGED <<payload, facts, source, scanned, todo, spool, output, level, edits>>

check_relationships ==
    doc # Absent => /\ validate_document_compatibility(doc)
                    /\ \A g \in Elements(doc.groups) : \A m \in Elements(g.members) :
                          MemberBinds(facts, g, m)

\* Preflight, and the source the run starts from.
Preflight ==
    /\ phase = "preflight"
    /\ IF check_relationships
       THEN /\ phase' = "pass1"
            /\ \E rows \in [PlanTables -> UNION {[1..n -> UNION {RecordsOf(t) : t \in PlanTables}] :
                                                n \in 0..MaxRows}] :
                  /\ \A t \in PlanTables : \A i \in DOMAIN rows[t] : rows[t][i] \in RecordsOf(t)
                  /\ source' = rows
            /\ todo' = PlanTables
            /\ spool' = [side \in {"before", "after"} |->
                            [id \in {g.id : g \in Relations} |->
                                [role \in Sides |-> NoEvidence]]]
            /\ scanned' = [t \in PlanTables |-> <<>>]
            /\ output' = [t \in PlanTables |-> <<>>]
       ELSE phase' = "refused" /\ UNCHANGED <<source, scanned, todo, spool, output>>
    /\ UNCHANGED <<payload, facts, doc, meta, binding, level, edits>>

Merged(side, t, records) ==
    [id \in DOMAIN spool[side] |->
        LET g == CHOOSE h \in Relations : h.id = id
        IN  [role \in Sides |->
                merge_relation_shard(spool[side][id][role],
                                     TableEvidence(g, role, t, records))]]

\* The first table in plan order that the pass has not finished.
IsNextTable(t) ==
    \E i \in DOMAIN TableOrder :
        /\ TableOrder[i] = t /\ t \in todo
        /\ \A j \in 1..(i - 1) : TableOrder[j] \notin todo

\* Pass 1 over one table, in plan order.
PassOneTable(t) ==
    /\ phase = "pass1"
    /\ IsNextTable(t)
    /\ IF ObservationFails(t, source[t])
       THEN phase' = "failed" /\ UNCHANGED <<scanned, todo, spool>>
       ELSE /\ spool' = [spool EXCEPT !["before"] = Merged("before", t, source[t])]
            /\ scanned' = [scanned EXCEPT ![t] = source[t]]
            /\ IF todo = {t} THEN phase' = "pass2" /\ todo' = PlanTables
               ELSE todo' = todo \ {t} /\ UNCHANGED phase
    /\ UNCHANGED <<payload, facts, doc, meta, binding, source, output, level, edits>>

\* Pass 2 over one table, in any order: the pool decides.
PassTwoTable(t) ==
    /\ phase = "pass2"
    /\ t \in todo
    /\ IF \/ \E i \in DOMAIN source[t] : MappingMissing(t, source[t][i])
          \/ ObservationFails(t, [i \in DOMAIN source[t] |-> Transformed(t, source[t][i])])
       THEN phase' = "failed" /\ UNCHANGED <<todo, spool, output>>
       ELSE LET written == [i \in DOMAIN source[t] |-> Transformed(t, source[t][i])]
            IN  /\ output' = [output EXCEPT ![t] = written]
                /\ spool' = [spool EXCEPT !["after"] = Merged("after", t, written)]
                /\ todo' = todo \ {t}
                /\ phase' = IF todo = {t} THEN "derive" ELSE phase
    /\ UNCHANGED <<payload, facts, doc, meta, binding, source, scanned, level, edits>>

Verdicts ==
    [id \in DOMAIN spool["before"] |->
        RelationIsVerified(spool["before"][id], spool["after"][id])]

\* pseudonymize derives the level after the publication.
Derive ==
    /\ phase = "derive"
    /\ level' = DerivedFromBoundedEvidence(meta, Verdicts, binding)
    /\ phase' = IF level' = "refused" THEN "failed" ELSE "done"
    /\ UNCHANGED <<payload, facts, doc, meta, binding, source, scanned, todo, spool, output,
                   edits>>

\* Somebody drops a record of the source, or adds one, between the passes. A
\* change before pass 1 reads a table is another source, and one after pass 2
\* wrote it is not seen.
EditSource(t) ==
    /\ phase = "pass2"
    /\ t \in todo
    /\ edits < MaxEdits
    /\ \/ source[t] # <<>> /\ source' = [source EXCEPT ![t] = Tail(@)]
       \/ \E r \in RecordsOf(t) : source' = [source EXCEPT ![t] = Append(@, r)]
    /\ edits' = edits + 1
    /\ UNCHANGED <<phase, payload, facts, doc, meta, binding, scanned, todo, spool, output,
                   level>>

AssuranceNext ==
    \/ BuildPlan
    \/ Preflight
    \/ \E t \in PlanTables : PassOneTable(t)
    \/ \E t \in PlanTables : PassTwoTable(t)
    \/ Derive
    \/ \E t \in PlanTables : EditSource(t)

AssuranceSpec == AssuranceInit /\ [][AssuranceNext]_assurance_vars

-----------------------------------------------------------------------------
(* Properties.                                                             *)

\* A reference for the evidence: the records of a side, counted at once.
ReferenceSide(g, role, tables) ==
    LET side == RelationDirective(g)[role]
        rs   == tables[side.table]
        full == {i \in DOMAIN rs : Absent \notin Elements(KeyOf(side, rs[i]))}
    IN  [rows  |-> Len(rs),
         nulls |-> Len(rs) - Cardinality(full),
         keys  |-> [k \in {KeyOf(side, rs[i]) : i \in full} |->
                       Cardinality({i \in full : KeyOf(side, rs[i]) = k})]]

\* The evidence the engine compares is exact: once both passes are over, the
\* spool holds, for every relation and role, the counts of the records pass 1
\* read and of the records pass 2 wrote, whatever the order of the workers'
\* shards (pass1._observe_relation_side, pass2._observe_after_side,
\* state.merge_relation_shard).
EvidenceIsExact ==
    phase \in {"derive", "done"} =>
        \A g \in Relations, role \in Sides :
            /\ spool["before"][g.id][role] = ReferenceSide(g, role, scanned)
            /\ spool["after"][g.id][role] = ReferenceSide(g, role, output)

\* The two implementations of the one invariant rule agree: the SQL evidence
\* of production (pass2._compare_relations) and the public in-memory kernel
\* (relationships/verification.py), fed with the same records, give the same
\* verdicts, and the two derivations the same level.
Stream(g, role, tables) ==
    LET side == RelationDirective(g)[role]
    IN  KeyStream(side, tables[side.table])

Counts(g, tables) ==
    build(AccumulatedSide(Stream(g, "parent", tables)),
          AccumulatedSide(Stream(g, "foreign", tables)))

Statuses ==
    [id \in DOMAIN spool["before"] |->
        LET g == CHOOSE h \in Relations : h.id = id
        IN  IF compare_relation_metrics(Counts(g, scanned), Counts(g, output))
            THEN "VERIFIED" ELSE "FAILED"]

KernelsAgree ==
    phase = "done" =>
        level = derive_relational_assurance(
                    meta, [fingerprint |-> meta.fingerprint, statuses |-> Statuses], binding)

\* The strongest level is earned: VFP_METADATA_VERIFIED is reported only for
\* a document that came with a complete envelope, whose every effective claim
\* was authoritative, verified and of an authoritative provenance, and when
\* every key of every relation is as often in the output as in the source.
AuthorityIsEarned ==
    level = "VFP_METADATA_VERIFIED" =>
        /\ Required \subseteq payload.envelope
        /\ \E g \in Elements(payload.groups) : IsAuthoritative(g)
        /\ \A g \in Elements(payload.groups) :
              IsAuthoritative(g) => g.provenance # "POLICY_FILE"
        /\ \A g \in Relations, role \in Sides :
              LET b == ReferenceSide(g, role, scanned)
                  a == ReferenceSide(g, role, output)
              IN  /\ b.rows = a.rows /\ b.nulls = a.nulls
                  /\ Cardinality(DOMAIN b.keys) = Cardinality(DOMAIN a.keys)

\* Preflight accepts only documents that survive: a run it accepted, whose
\* source nobody changed, gives both sides of every relation the same
\* pseudonyms, so the derived level is never INCOMPLETE. One field cannot be
\* kept by one relation and replaced by another. The engine reads a side in
\* the table of its first member, so this is for sides of one table; nothing
\* refuses a side of two.
OneTablePerRole(g) ==
    \A m, n \in Elements(g.members) : m.role = n.role => m.table = n.table

FaithfulRunIsVerified ==
    phase = "done" /\ edits = 0 /\ (\A g \in Relations : OneTablePerRole(g)) =>
        level # "INCOMPLETE"
=============================================================================
