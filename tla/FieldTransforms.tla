-------------------------- MODULE FieldTransforms --------------------------
(* What the two passes do to one field value, and the protected rows they  *)
(* leave in the vault to undo it: the memo and temporal kernels of         *)
(* transforms/, the mapping rows of vault/mappings.py, the per-field       *)
(* directives of engine/run.py and the transformation of engine/pass2.py.  *)
(*                                                                         *)
(* A field is named after what happens to it: a "text" field and a "key"   *)
(* field (member of a numeric relation) are pseudonymized through mapping  *)
(* rows, a "memo" is masked, a "date" is shifted and "keep" is copied.     *)
EXTENDS Integers, Sequences, FiniteSets

CONSTANTS Null,       \* None, NULL: the absent value of a field or of a row
          MinDay,     \* LOGICAL_MIN_ORDINAL
          MaxDay      \* LOGICAL_MAX_ORDINAL

ASSUME CalendarAssumption == MinDay \in Int /\ MaxDay \in Int /\ Null \notin Int

Fields == {"text", "key", "memo", "date", "keep"}

\* The mapping domains: the global text domain, the domain of the numeric
\* relation, the one temporal domain of a dataset.
TextDomain == "dom-text"
KeyDomain == "dom-key"
TemporalDomain == "dom-temporal"

\* None is no string; the strings it is ever compared with, one by one.
ASSUME NullAssumption ==
    Null \notin {"", "mask", "alt", TextDomain, KeyDomain, TemporalDomain,
                 "TEXT", "NUMERIC_KEY", "TEMPORAL", "BOGUS", "PASS", "PARTIAL", "FAIL", "ERROR"}

(***************************************************************************)
(* Kernels.                                                                *)
(***************************************************************************)
memo_safe_mask(v) ==
    IF v = Null THEN Null
    ELSE IF v = "mask" THEN "alt" ELSE "mask"

temporal_shift(v, offset) == IF v = Null THEN Null ELSE v + offset

\* The non-zero offsets that keep every observed day inside the calendar.
FeasibleOffsets(lo, hi) == ((MinDay - lo) .. (MaxDay - hi)) \ {0}

(***************************************************************************)
(* A vault: mapping rows <<original, pseudonym>>, memo recovery rows, the  *)
(* temporal parameter, the domains and the field-policy ledger.            *)
(***************************************************************************)
EmptyFunction == [x \in {} |-> Null]

Pseudonym(rows, original) ==
    IF \E r \in rows : r[1] = original
      THEN (CHOOSE r \in rows : r[1] = original)[2]
      ELSE Null

Original(rows, pseudonym) ==
    IF \E r \in rows : r[2] = pseudonym
      THEN (CHOOSE r \in rows : r[2] = pseudonym)[1]
      ELSE Null

domain_kind(vault, d) ==
    IF d \in DOMAIN vault.domains THEN vault.domains[d] ELSE Null

text_original(vault, d, p) ==
    IF d = TextDomain THEN Original(vault.text, p) ELSE Null

numeric_original(vault, d, p) ==
    IF d = KeyDomain THEN Original(vault.key, p) ELSE Null

\* Without a domain id the one row of the table answers.
temporal_offset(vault, d) ==
    IF d \in {Null, TemporalDomain} THEN vault.offset ELSE Null

memo_recovery_row(vault, t, i) ==
    IF <<t, i>> \in DOMAIN vault.memo THEN vault.memo[<<t, i>>] ELSE Null

\* COUNT(*), COUNT(DISTINCT original), COUNT(DISTINCT pseudonym) agree.
IsBijection(rows) ==
    /\ Cardinality({r[1] : r \in rows}) = Cardinality(rows)
    /\ Cardinality({r[2] : r \in rows}) = Cardinality(rows)

(***************************************************************************)
(* The directive of a field and the ledger row that records it.            *)
(***************************************************************************)
Action(f) ==
    CASE f \in {"text", "key"} -> "PSEUDONYMIZE_REVERSIBLE"
      [] f = "memo" -> "MASK_REVERSIBLE"
      [] f = "date" -> "SHIFT_REVERSIBLE"
      [] OTHER -> "KEEP"

\* The text domain is named only when pass 1 saw a text, the temporal one
\* only when its row exists.
DirectiveDomain(vault, f) ==
    CASE f = "key" -> KeyDomain
      [] f = "text" /\ TextDomain \in DOMAIN vault.domains -> TextDomain
      [] f = "date" /\ TemporalDomain \in DOMAIN vault.domains -> TemporalDomain
      [] OTHER -> Null

\* The value pass 2 writes; Null for a value without its mapping row is
\* excluded by MappingMissing below.
Image(vault, f, v) ==
    CASE f = "key" -> IF v = Null THEN v ELSE Pseudonym(vault.key, v)
      [] f = "text" -> IF v \in {Null, ""} THEN v ELSE Pseudonym(vault.text, v)
      [] f = "memo" -> memo_safe_mask(v)
      [] f = "date" -> temporal_shift(v, vault.offset)
      [] OTHER -> v

MappingMissing(vault, f, v) ==
    \/ f = "key" /\ v # Null /\ Pseudonym(vault.key, v) = Null
    \/ f = "text" /\ v \notin {Null, ""} /\ Pseudonym(vault.text, v) = Null
=============================================================================
