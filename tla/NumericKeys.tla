---------------------------- MODULE NumericKeys ----------------------------
(***************************************************************************)
(* The pure kernel of the numeric key domains (transforms/numeric_keys.py  *)
(* and the gap walk of engine/pass1.py).                                   *)
(*                                                                         *)
(* A declared numeric relation has members, the key fields that take part  *)
(* in it.  A member reads the integers of one range and can write back the *)
(* integers of a range inside it: an Integer field reads both extremes of  *)
(* its 32 bits and writes neither.  A pseudonym must be writable by every  *)
(* member, so the tokens of the domain are the intersection.               *)
(***************************************************************************)
EXTENDS NumericKernel, FiniteSetsExt

CONSTANT Members    \* records [readable, writable], two integer ranges each

IsRange(S) == S # {} /\ \A x \in Min(S)..Max(S) : x \in S

Tokens == CommonTokens(Members)

\* numeric_key_domain_for refuses members without a common token, so a
\* compiled plan holds none.
ASSUME MembersAssumption ==
    /\ Members # {}
    /\ \A m \in Members : /\ m.writable \subseteq m.readable
                          /\ m.readable \subseteq Int
                          /\ IsFiniteSet(m.readable)
                          /\ IsRange(m.readable) /\ IsRange(m.writable)
    /\ Tokens # {}

Free(occupied) == Tokens \ occupied

(***************************************************************************)
(* The j-th free token: walk the occupied tokens in ascending order and    *)
(* count the gaps between them, never the tokens themselves.               *)
(***************************************************************************)
GapStep(walk, value) ==
    LET gap == value - walk.previous - 1 IN
    IF walk.remaining < 0 THEN walk
    ELSE IF walk.remaining < gap
         THEN [previous |-> walk.previous + 1 + walk.remaining, remaining |-> -1]
         ELSE [previous |-> value, remaining |-> walk.remaining - gap]

Ascending(S) ==
    [i \in 1..Cardinality(S) |-> CHOOSE x \in S : Cardinality({y \in S : y < x}) = i - 1]

GapWalk(occupied, j) ==
    LET stream == Ascending(occupied \cap Tokens)
        walk[i \in 0..Cardinality(occupied \cap Tokens)] ==
            IF i = 0 THEN [previous |-> Min(Tokens) - 1, remaining |-> j]
            ELSE GapStep(walk[i - 1], stream[i])
    IN  walk[Cardinality(occupied \cap Tokens)]

JthFree(occupied, j) ==
    LET end == GapWalk(occupied, j) IN end.previous + 1 + end.remaining

(***************************************************************************)
(* plan_numeric_bijection: can every original still get a token of its own *)
(* that differs from its value?                                            *)
(***************************************************************************)
\* Mutant: Hall's condition without the self-exclusion.
PlanIgnoresSelf(originals, occupied) ==
    Cardinality(Free(occupied)) >= Cardinality(originals)

PlanNumericBijection(originals, occupied) == BijectionExists(originals, Free(occupied))

(***************************************************************************)
(* The candidates of the standalone service (vault/numeric_allocation.py): *)
(* one original of those not yet allocated gets a free token, not its own, *)
(* that leaves the others a completion.  The walk tries a bounded prefix   *)
(* of the free tokens when the random probes have missed; its bound counts *)
(* every observed original, which is at least the unallocated ones.        *)
(***************************************************************************)
ResidualFeasible(unallocated, original, occupied, token) ==
    PlanNumericBijection(unallocated \ {original}, occupied \cup {token})

BlockedSelection(occupied, original) == occupied \cup ({original} \cap Tokens)

CompletionWalk(unallocated, original, occupied) ==
    LET blocked == BlockedSelection(occupied, original)
        limit == Min({Cardinality(Free(blocked)), Cardinality(unallocated) + 2})
    IN  {t \in {JthFree(blocked, j) : j \in 0..(limit - 1)} :
            ResidualFeasible(unallocated, original, occupied, t)}
=============================================================================
