---------------------------- MODULE MCAssurance ----------------------------
EXTENDS Assurance, TLC

MCTableOrder == <<"f", "p">>

NumberFact == [type |-> "N", width |-> 2, encoding |-> "cp1250", decimals |-> 0,
               autoincrement |-> FALSE, nullable |-> TRUE]
TextFact == [NumberFact EXCEPT !.type = "C"]
PlainFacts ==
    (<<"p", "id">> :> NumberFact) @@ (<<"p", "alt">> :> NumberFact) @@ (<<"p", "code">> :> TextFact) @@
    (<<"f", "id">> :> NumberFact) @@ (<<"f", "code">> :> TextFact)
MCSchemaFacts ==
    {PlainFacts,
     [PlainFacts EXCEPT ![<<"f", "id">>].decimals = 1],
     [PlainFacts EXCEPT ![<<"p", "id">>].autoincrement = TRUE]}
MCValues(f, p) ==
    IF f # PlainFacts /\ p[1] = "p" THEN {Absent}
    ELSE IF f[p].type = "C" THEN {"a", IF p[1] = "p" THEN "" ELSE Absent}
    ELSE IF f[p].decimals > 0 THEN {Absent, "fraction"} ELSE IF p[2] = "alt" THEN {Absent, "2"}
    ELSE {"1", "2"} \cup (IF p[1] = "f" THEN {Absent} ELSE {})
MCPseudonym(d, v) ==
    CASE v = "a" -> "b" [] v = "b" -> "a" [] v = "1" -> "2" [] v = "2" -> "3" [] v = "3" -> "1"

Member(t, f, role, i) ==
    [table |-> t, form |-> "canonical", field |-> f, role |-> role, ordinal |-> i,
     type |-> IF f = "code" THEN "C" ELSE "N", width |-> 2,
     encoding |-> IF f = "code" THEN "cp1250" ELSE "none", nullable |-> TRUE]

Numeric == <<Member("p", "id", "PRIMARY", 1), Member("f", "id", "FOREIGN", 1)>>
Backward == <<Member("f", "id", "CANDIDATE", 1), Member("p", "id", "FOREIGN", 1)>>
Sharing == <<Member("p", "alt", "CANDIDATE", 1), Member("f", "id", "FOREIGN", 1)>>
Text == <<Member("p", "code", "PRIMARY", 1), Member("f", "code", "FOREIGN", 1)>>
Composite == <<Member("p", "id", "PRIMARY", 1), Member("f", "id", "FOREIGN", 1),
               Member("f", "code", "FOREIGN", 2), Member("p", "code", "PRIMARY", 2)>>
Spanning == <<Member("p", "code", "PRIMARY", 1), Member("f", "id", "PRIMARY", 2),
              Member("f", "code", "FOREIGN", 1), Member("f", "id", "FOREIGN", 2)>>
Within == <<Member("p", "id", "PRIMARY", 1), Member("p", "code", "FOREIGN", 1)>>
Malformed ==
    {<<>>, <<Numeric[1]>>, <<Numeric[2]>>, Append(Numeric, Backward[1]), Append(Numeric, Numeric[1]),
     <<Numeric[1], Composite[3]>>, <<Numeric[1], [Numeric[2] EXCEPT !.form = "backslash"]>>,
     <<Numeric[1], [Numeric[2] EXCEPT !.encoding = "cp1250"]>>,
     <<Numeric[1], [Numeric[2] EXCEPT !.width = 3]>>,
     <<Numeric[1], [Numeric[2] EXCEPT !.nullable = FALSE]>>,
     <<Text[1], [Text[2] EXCEPT !.encoding = "utf-8"]>>,
     <<Numeric[1], [Numeric[2] EXCEPT !.type = "I", !.width = 4]>>}

Group(i, ms, strategy, provenance, assurance, authority) ==
    [id |-> i, members |-> ms, comparison |-> "EXACT_VALUE", provenance |-> provenance,
     strategy |-> strategy, assurance |-> assurance, authority |-> authority]
Claimed(i, ms, strategies) ==
    {Group(i, ms, s, p, a, u) :
        s \in strategies, p \in {"POLICY_FILE", "EXTERNAL_VFP_METADATA"},
        a \in {Absent, "VERIFIED", "UNVERIFIED"}, u \in {Absent, "CONTRACT_AUTHORITATIVE", "INFERRED"}}
Legacy(i, ms, s) == Group(i, ms, s, "POLICY_FILE", Absent, Absent)
External(i, ms, s, p) == Group(i, ms, s, p, "VERIFIED", "CONTRACT_AUTHORITATIVE")

Claim(t, k, x, a) ==
    [id |-> 1, table |-> t, kind |-> k, suffix |-> x, state |-> a, assurance |-> a,
     authority |-> "CONTRACT_AUTHORITATIVE", provenance |-> "EXTERNAL_VFP_METADATA"]
Doc(gs, env) == [version |-> "1.0", groups |-> gs, envelope |-> env, indexes |-> <<>>]
Strategies == {"IDENTITY", "REVERSIBLE_BIJECTIVE"}
MCPayloads ==
    {Absent}
    \cup {Doc(<<g>>, Required) : g \in Claimed(1, Numeric, {Absent, "REVERSIBLE_BIJECTIVE"})}
    \cup {Doc(<<g>>, {}) : g \in {c \in Claimed(1, Numeric, {"REVERSIBLE_BIJECTIVE"}) :
                                    c.authority # "INFERRED"}}
    \cup {Doc(<<Legacy(1, ms, s)>>, e) :
            ms \in Malformed \cup {Text, Within}, s \in Strategies, e \in {{}, {"producer"}}}
    \cup {Doc(<<Legacy(1, ms, "REVERSIBLE_BIJECTIVE")>>, {}) : ms \in {Composite, Spanning}}
    \cup {Doc(<<External(1, ms, s, "MCP_VFP9SP2_TOOLCHAIN")>>, Required) :
            ms \in Malformed, s \in Strategies}
    \cup {Doc(<<Legacy(1, Numeric, s), Legacy(i, Backward, r)>>, {}) : s, r \in Strategies, i \in 1..2}
    \cup {Doc(<<Legacy(1, Numeric, s), Legacy(2, Sharing, r)>>, {}) : s, r \in Strategies}
    \cup {Doc(<<External(1, Numeric, s, "MCP_VFP9SP2_TOOLCHAIN"), g>>, Required) :
            s \in Strategies, g \in Claimed(2, Backward, {"REVERSIBLE_BIJECTIVE"})}
    \cup {[Doc(<<>>, Required \cup {"index_claims"}) EXCEPT !.indexes = <<Claim(t, k, "cdx", a)>>] :
            t \in {"p", "z"}, k \in {"STRUCTURAL_CDX", "STANDALONE_IDX"}, a \in {"VERIFIED", "UNVERIFIED"}}
    \cup {[Doc(<<Legacy(1, Text, "IDENTITY")>>, {}) EXCEPT !.version = "2.0"],
          Doc(<<[Legacy(1, Text, "IDENTITY") EXCEPT !.comparison = "UNSPECIFIED"]>>, {})}
=============================================================================
