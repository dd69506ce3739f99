--------------------------- MODULE NumericKernel ---------------------------
(* What transforms/numeric_keys.py decides about the members of a numeric  *)
(* key domain, whichever members these are.  A member is a record          *)
(* [readable, writable] of two integer ranges, the second inside the first.*)
EXTENDS Integers, FiniteSets

\* The integers that every member can write.
CommonTokens(members) ==
    {x \in UNION {m.writable : m \in members} : \A m \in members : x \in m.writable}

\* The verdict on one occurrence depends on its own member only.
ClassifyMemberOriginal(member, value) ==
    CASE value \in member.writable -> "REVERSIBLE"
      [] value \in member.readable \ member.writable -> "RECOVERY_UNWRITABLE"
      [] OTHER -> "OUT_OF_MEMBER_RANGE"

\* Hall's condition for free tokens of which each original excludes one at
\* most, itself.
BijectionExists(originals, free) ==
    /\ Cardinality(free) >= Cardinality(originals)
    /\ \A v \in originals : Cardinality(free) - (IF v \in free THEN 1 ELSE 0) >= 1
=============================================================================
