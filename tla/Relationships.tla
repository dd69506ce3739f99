---------------------------- MODULE Relationships ----------------------------
(***************************************************************************)
(* The declared relationships of a dataset, as pure operators: what a      *)
(* document must look like to be parsed (relationships/models.py,          *)
(* document.py, external_metadata.py), to be bound to the source schema    *)
(* (planning.py) and to be accepted by preflight (compatibility.py), and   *)
(* how an assurance level is derived from evidence (assurance.py).         *)
(*                                                                         *)
(* A member is a record [table, form, field, role, ordinal, type, width,   *)
(* encoding, nullable]; form is the way its path is written. A group is    *)
(* [id, members, comparison, provenance, strategy, assurance, authority]   *)
(* and a document payload [version, groups, envelope, indexes], envelope   *)
(* being the set of envelope keys that are present. An optional key that   *)
(* is missing is Absent.                                                   *)
(***************************************************************************)
EXTENDS Integers, Sequences, FiniteSets, FiniteSetsExt

CONSTANTS
    SafeEncodings,  \* encodings whose single-byte characters can be proven
    Absent          \* an optional key or value that is not there

Roles == {"PRIMARY", "CANDIDATE", "FOREIGN"}
Provenances == {"POLICY_FILE", "MCP_VFP9SP2_TOOLCHAIN", "EXTERNAL_VFP_METADATA"}
external_provenance_class_allowed(p) == p \in Provenances \ {"POLICY_FILE"}
Required == {"external_metadata_schema_version", "producer", "authority"}

Elements(s) == {s[i] : i \in DOMAIN s}
NoRepeats(s) == Cardinality(Elements(s)) = Len(s)

-----------------------------------------------------------------------------
(* Members and groups.                                                     *)

is_numeric_member(m) == m.type \in {"I", "N"}

normalize_relative_table_path(m) == m.form \in {"canonical", "backslash"}

validate_external_metadata_path(m) == m.form = "canonical"

validate_numeric_member_shape(m) ==
    /\ m.type = "I" => m.width = 4
    /\ m.type = "N" => m.width \in 1..20

MemberIsValid(m) ==
    /\ normalize_relative_table_path(m)
    /\ m.role \in Roles
    /\ m.ordinal >= 1
    /\ m.type \in {"C", "V", "I", "N"}
    /\ m.width >= 1
    /\ is_numeric_member(m) => m.encoding = "none" /\ validate_numeric_member_shape(m)

identity(m) == <<m.table, m.field, m.role>>

Place(m) == <<m.table, m.field>>

\* How many members have one role.
Arity(g, role) == Cardinality({i \in DOMAIN g.members : g.members[i].role = role})

\* The members of one role in the order of their ordinals. These are 1..N,
\* each once, so the i-th member in that order is the one with ordinal i.
members_for_role(g, role) ==
    [i \in 1..Arity(g, role) |->
        CHOOSE m \in Elements(g.members) : m.role = role /\ m.ordinal = i]

parent_members(g) ==
    IF Arity(g, "PRIMARY") > 0 THEN members_for_role(g, "PRIMARY")
    ELSE members_for_role(g, "CANDIDATE")

foreign_members(g) == members_for_role(g, "FOREIGN")

\* One parent family, a foreign side, ordinals 1..N on each side, equal arity.
StructureIsValid(g) ==
    LET roles == {m.role : m \in Elements(g.members)}
    IN  /\ ~ {"PRIMARY", "CANDIDATE"} \subseteq roles
        /\ roles \cap {"PRIMARY", "CANDIDATE"} # {}
        /\ "FOREIGN" \in roles
        /\ \A r \in roles :
              {m.ordinal : m \in {n \in Elements(g.members) : n.role = r}} = 1..Arity(g, r)
        /\ Arity(g, "PRIMARY") + Arity(g, "CANDIDATE") = Arity(g, "FOREIGN")

GroupIsValid(g) ==
    /\ g.members # <<>>
    /\ g.comparison \in {"EXACT_VALUE", "UNSPECIFIED"}
    /\ g.provenance \in Provenances
    /\ g.strategy \in {"IDENTITY", "REVERSIBLE_BIJECTIVE"}
    /\ g.assurance \in {Absent, "VERIFIED", "UNVERIFIED"}
    /\ g.authority \in {Absent, "CONTRACT_AUTHORITATIVE", "INFERRED"}
    /\ NoRepeats([i \in DOMAIN g.members |-> identity(g.members[i])])
    /\ g.strategy = "REVERSIBLE_BIJECTIVE" =>
          \E m \in Elements(g.members) : is_numeric_member(m)
    /\ StructureIsValid(g)

-----------------------------------------------------------------------------
(* Parsing.                                                                *)

validate_authority_assurance(authority, assurance) ==
    ~ (authority = "INFERRED" /\ assurance = "VERIFIED")

IsAuthoritative(c) ==
    c.authority = "CONTRACT_AUTHORITATIVE" /\ c.assurance = "VERIFIED"

parse_member(m, external) ==
    /\ MemberIsValid(m)
    /\ external => validate_external_metadata_path(m)

\* What an envelope asks of every relation claim.
ExternalClaimParses(g) ==
    /\ g.assurance \in {"VERIFIED", "UNVERIFIED"}
    /\ g.authority \in {"CONTRACT_AUTHORITATIVE", "INFERRED"}
    /\ validate_authority_assurance(g.authority, g.assurance)
    /\ IsAuthoritative(g) => external_provenance_class_allowed(g.provenance)
    /\ g.strategy = "REVERSIBLE_BIJECTIVE" => IsAuthoritative(g)

\* The group object of a payload: the default strategy is filled in, and
\* without an envelope the claim's authority is dropped unread.
ParsedGroup(g, external) ==
    [id |-> g.id, members |-> g.members, comparison |-> g.comparison,
     provenance |-> g.provenance, assurance |-> g.assurance,
     strategy |-> IF g.strategy = Absent THEN "IDENTITY" ELSE g.strategy,
     authority |-> IF external THEN g.authority ELSE Absent]

parse_group(g, external) ==
    /\ \A m \in Elements(g.members) : parse_member(m, external)
    /\ IF external THEN ExternalClaimParses(g) ELSE g.assurance = Absent
    /\ GroupIsValid(ParsedGroup(g, external))

\* An index claim, [id, table, kind, suffix, state, assurance, authority,
\* provenance].
parse_index_claim(c) ==
    /\ c.kind \in {"STRUCTURAL_CDX", "STANDALONE_IDX"}
    /\ c.state \in {"VERIFIED", "UNVERIFIED"}
    /\ c.assurance = c.state
    /\ c.suffix = (IF c.kind = "STRUCTURAL_CDX" THEN "cdx" ELSE "idx")
    /\ c.provenance \in Provenances
    /\ c.authority \in {"CONTRACT_AUTHORITATIVE", "INFERRED"}
    /\ IsAuthoritative(c) => external_provenance_class_allowed(c.provenance)

parse_index_claims(cs) ==
    /\ \A c \in Elements(cs) : parse_index_claim(c)
    /\ NoRepeats([i \in DOMAIN cs |-> cs[i].id])

\* The envelope is all or nothing; index claims are its one optional key.
EnvelopeParses(d) ==
    /\ Required \subseteq d.envelope
    /\ parse_index_claims(d.indexes)
    /\ \A c \in Elements(d.indexes) :
          validate_authority_assurance(c.authority, c.assurance)

parse_relationship_document(d) ==
    LET external == d.envelope # {}
    IN  /\ d.version = "1.0"
        /\ external => EnvelopeParses(d)
        /\ \A g \in Elements(d.groups) : parse_group(g, external)
        /\ NoRepeats([i \in DOMAIN d.groups |-> d.groups[i].id])

ParsedDocument(d) ==
    LET external == d.envelope # {}
    IN  [groups   |-> [i \in DOMAIN d.groups |-> ParsedGroup(d.groups[i], external)],
         external |-> external,
         indexes  |-> d.indexes]

\* The claims that may affect grouping and assurance.
IsEffective(doc, g) == doc.external => IsAuthoritative(g)

effective_groups(doc) == {g \in Elements(doc.groups) : IsEffective(doc, g)}

\* The canonical bytes do not depend on the order of groups or members.
relationship_fingerprint(doc) ==
    [groups   |-> {[id |-> g.id, members |-> Elements(g.members), comparison |-> g.comparison,
                    provenance |-> g.provenance, strategy |-> g.strategy,
                    claim |-> <<g.assurance, g.authority>>] : g \in Elements(doc.groups)},
     external |-> doc.external,
     indexes  |-> Elements(doc.indexes)]

Summary(tokens) == IF Cardinality(tokens) = 1 THEN CHOOSE t \in tokens : TRUE ELSE "MIXED"

\* The planning metadata: never authoritative. Without groups the provenance
\* is that of the index claims.
relationship_metadata_from_document(doc) ==
    LET effective == effective_groups(doc)
        speaking  == IF effective # {} THEN effective ELSE Elements(doc.groups)
        claims    == IF speaking # {} THEN speaking ELSE Elements(doc.indexes)
    IN  [provenance    |-> Summary({c.provenance : c \in claims}),
         fingerprint   |-> relationship_fingerprint(doc),
         count         |-> Cardinality(effective),
         authoritative |-> FALSE]

\* The adapter that certifies injected metadata and mints the binding.
AuthoritativeIsAccepted(doc) ==
    /\ effective_groups(doc) # {}
    /\ \A g \in effective_groups(doc) :
          external_provenance_class_allowed(g.provenance)

authoritative_vfp_metadata_from_document(doc) ==
    [relationship_metadata_from_document(doc) EXCEPT !.authoritative = TRUE]

AuthoritativeVFPBinding(doc) ==
    [fingerprint |-> relationship_fingerprint(doc), count |-> Cardinality(effective_groups(doc))]

-----------------------------------------------------------------------------
(* Binding to the source schema, and compatibility.                        *)

candidate_alphabet(encodings) == encodings \subseteq SafeEncodings

\* A reversible numeric member needs an integral, non-autoincrement field
\* whose NULL bit is as declared; a numeric identity member needs neither.
MemberBinds(facts, g, m) ==
    /\ Place(m) \in DOMAIN facts
    /\ LET fact == facts[Place(m)]
       IN  /\ m.type = fact.type
           /\ m.width = fact.width
           /\ IF is_numeric_member(m)
              THEN g.strategy = "REVERSIBLE_BIJECTIVE" =>
                      /\ m.type = "N" => fact.decimals = 0
                      /\ ~ fact.autoincrement
                      /\ m.nullable = fact.nullable
              ELSE candidate_alphabet({m.encoding, fact.encoding})

DocumentBinds(facts, doc) ==
    /\ \A c \in Elements(doc.indexes) : \E p \in DOMAIN facts : p[1] = c.table
    /\ \A g \in Elements(doc.groups) : \A m \in Elements(g.members) : MemberBinds(facts, g, m)

validate_relation_group_compatibility(g) ==
    LET text == {m \in Elements(g.members) : ~ is_numeric_member(m)}
    IN  /\ g.comparison = "EXACT_VALUE"
        /\ Cardinality({m.nullable : m \in Elements(g.members)}) = 1
        /\ candidate_alphabet({m.encoding : m \in text})

Description(m) == <<m.type, m.width, m.encoding, m.nullable>>

\* numeric_key_domain_id: one domain per document and relation.
resolved_numeric_domain(doc, g) == <<relationship_fingerprint(doc), g.id>>

\* Every group counts here, the claims without effect included.
MembersAgree(doc) ==
    \A g, h \in Elements(doc.groups) : \A m \in Elements(g.members), n \in Elements(h.members) :
        Place(m) = Place(n) => Description(m) = Description(n)

\* The missed case: only two reversible declarations are compared.
ReversibleDomainsAgree(doc) ==
    \A g, h \in Elements(doc.groups) : \A m \in Elements(g.members), n \in Elements(h.members) :
        Place(m) = Place(n) /\ is_numeric_member(m) /\ g.strategy = h.strategy
        /\ g.strategy = "REVERSIBLE_BIJECTIVE" => g.id = h.id

NumericTreatmentsAgree(doc) ==
    \A g, h \in Elements(doc.groups) : \A m \in Elements(g.members), n \in Elements(h.members) :
        Place(m) = Place(n) /\ is_numeric_member(m) =>
            /\ g.strategy = h.strategy
            /\ g.strategy = "REVERSIBLE_BIJECTIVE" =>
                  resolved_numeric_domain(doc, g) = resolved_numeric_domain(doc, h)

validate_document_compatibility(doc) ==
    /\ \A g \in Elements(doc.groups) : validate_relation_group_compatibility(g)
    /\ MembersAgree(doc)
    /\ NumericTreatmentsAgree(doc)

-----------------------------------------------------------------------------
(* Evidence of one side of a relation: [rows, nulls, keys], keys a function *)
(* from the key tuples seen to how often each was seen.                    *)

NoEvidence == [rows |-> 0, nulls |-> 0, keys |-> [k \in {} |-> 0]]

Occurrences(keys, k) == IF k \in DOMAIN keys THEN keys[k] ELSE 0

OneMore(keys, k) ==
    [j \in DOMAIN keys \cup {k} |-> Occurrences(keys, j) + IF j = k THEN 1 ELSE 0]

\* The sum of the counts of the keys in S: as many as there are pairs of a
\* key and one of its occurrences.
SumOf(keys, S) == Cardinality(UNION {{<<k, n>> : n \in 1..keys[k]} : k \in S})

\* An observation that keeps the first count of a key.
ObserveKeepsFirst(e, tuple) ==
    IF Absent \in Elements(tuple)
    THEN [e EXCEPT !.rows = @ + 1, !.nulls = @ + 1]
    ELSE [rows |-> e.rows + 1, nulls |-> e.nulls, keys |-> [k \in DOMAIN e.keys \cup {tuple} |-> 1]]

\* The observation of one record: a tuple with a NULL is counted, not keyed.
observe_relation_side(e, tuple) ==
    IF Absent \in Elements(tuple)
    THEN [rows |-> e.rows + 1, nulls |-> e.nulls + 1, keys |-> e.keys]
    ELSE [rows  |-> e.rows + 1,
          nulls |-> e.nulls,
          keys  |-> OneMore(e.keys, tuple)]

\* One observation after another.
Observed(stream) ==
    LET e[n \in 0..Len(stream)] ==
            IF n = 0 THEN NoEvidence ELSE observe_relation_side(e[n - 1], stream[n])
    IN  e[Len(stream)]

\* The merge of a worker's shard into the spool.
merge_relation_shard(e, s) ==
    [rows  |-> e.rows + s.rows,
     nulls |-> e.nulls + s.nulls,
     keys  |-> [k \in DOMAIN e.keys \cup DOMAIN s.keys |->
                   Occurrences(e.keys, k) + Occurrences(s.keys, k)]]

relation_matched_count(parent, foreign) ==
    SumOf(foreign.keys, DOMAIN foreign.keys \cap DOMAIN parent.keys)

\* The counts in descending order, as the multiset they are: how many keys
\* have each count.
relation_histogram_stream(keys) ==
    [c \in {keys[k] : k \in DOMAIN keys} |-> Cardinality({k \in DOMAIN keys : keys[k] = c})]

\* Two sorted streams agree row by row if, and only if, their multisets do.
relation_profile_equal(e, f) ==
    relation_histogram_stream(e.keys) = relation_histogram_stream(f.keys)

Orphans(parent, foreign) ==
    (foreign.rows - foreign.nulls) - relation_matched_count(parent, foreign)

\* A comparison that trusts the join counts alone.
JoinIsVerified(before, after) ==
    /\ relation_matched_count(before["parent"], before["foreign"])
          = relation_matched_count(after["parent"], after["foreign"])
    /\ before["foreign"].nulls = after["foreign"].nulls

\* pass2._compare_relations of one relation; before and after are functions
\* of the role.
RelationIsVerified(before, after) ==
    /\ relation_profile_equal(before["parent"], after["parent"])
    /\ relation_profile_equal(before["foreign"], after["foreign"])
    /\ relation_matched_count(before["parent"], before["foreign"])
          = relation_matched_count(after["parent"], after["foreign"])
    /\ Orphans(before["parent"], before["foreign"]) = Orphans(after["parent"], after["foreign"])
    /\ before["parent"].nulls = after["parent"].nulls
    /\ before["foreign"].nulls = after["foreign"].nulls

-----------------------------------------------------------------------------
(* The public, in-memory kernel of relationships/verification.py.          *)

\* RelationshipEvidenceAccumulator._observe of one key tuple.
AccumulateOne(a, tuple) ==
    IF Absent \in Elements(tuple)
    THEN [nulls |-> a.nulls + 1, counts |-> a.counts]
    ELSE [nulls  |-> a.nulls,
          counts |-> OneMore(a.counts, tuple)]

\* One side's key stream, accumulated.
AccumulatedSide(stream) ==
    LET a[n \in 0..Len(stream)] ==
            IF n = 0 THEN [nulls |-> 0, counts |-> [k \in {} |-> 0]]
            ELSE AccumulateOne(a[n - 1], stream[n])
    IN  a[Len(stream)]

\* The profile is the sorted list of the counts, again as a multiset.
side_metrics(side) ==
    [nulls |-> side.nulls, profile |-> relation_histogram_stream(side.counts)]

\* build: matched and orphan counts join the two sides.
build(parent, foreign) ==
    LET matched == SumOf(foreign.counts, DOMAIN foreign.counts \cap DOMAIN parent.counts)
    IN  [parent  |-> side_metrics(parent),
         foreign |-> side_metrics(foreign),
         matched |-> matched,
         orphan  |-> SumOf(foreign.counts, DOMAIN foreign.counts) - matched]

compare_relation_metrics(before, after) ==
    /\ before.parent.profile = after.parent.profile
    /\ before.orphan = after.orphan
    /\ before.matched = after.matched
    /\ before.parent.nulls = after.parent.nulls
    /\ before.foreign.nulls = after.foreign.nulls
    /\ before.foreign.profile = after.foreign.profile

-----------------------------------------------------------------------------
(* Assurance.                                                              *)

\* A binding that disagrees with the metadata is refused.
BindingMatches(meta, binding) ==
    /\ meta.authoritative
    /\ external_provenance_class_allowed(meta.provenance) \/ meta.provenance = "MIXED"
    /\ binding.fingerprint = meta.fingerprint
    /\ binding.count = meta.count

validated_authority_binding(meta, binding) == binding # Absent /\ BindingMatches(meta, binding)

assurance_from_counts(meta, verified, failed, authoritative) ==
    CASE meta.count = 0 -> "GLOBAL_EXACT_VALUE"
      [] meta.count > 0 /\ verified = meta.count /\ failed = 0 ->
            IF authoritative THEN "VFP_METADATA_VERIFIED" ELSE "DECLARED_RELATIONS_VERIFIED"
      [] OTHER -> "INCOMPLETE"

\* The derivation of production, from the verdict of each relation.
DerivedFromBoundedEvidence(meta, verdicts, binding) ==
    IF \/ Cardinality(DOMAIN verdicts) # meta.count
       \/ binding # Absent /\ ~ BindingMatches(meta, binding)
    THEN "refused"
    ELSE LET verified == Cardinality({r \in DOMAIN verdicts : verdicts[r]})
         IN  assurance_from_counts(meta, verified, meta.count - verified,
                                   validated_authority_binding(meta, binding))

\* The public derivation, from a report [fingerprint, statuses] or from none.
derive_relational_assurance(meta, report, binding) ==
    LET statuses == report.statuses
        Having(s) == Cardinality({r \in DOMAIN statuses : statuses[r] = s})
        refused  == \/ binding # Absent /\ ~ BindingMatches(meta, binding)
                    \/ DOMAIN statuses = {} /\ meta.count > 0
                    \/ DOMAIN statuses # {} /\ \/ report.fingerprint # meta.fingerprint
                                               \/ Cardinality(DOMAIN statuses) # meta.count
        earned   == /\ Having("VERIFIED") = meta.count
                    /\ meta.count > 0
                    /\ meta.authoritative
                    /\ validated_authority_binding(meta, binding)
    IN  IF refused THEN "refused"
        ELSE assurance_from_counts(meta, Having("VERIFIED"), Having("FAILED"), earned)
=============================================================================
