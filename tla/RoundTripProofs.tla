--------------------------- MODULE RoundTripProofs ---------------------------
(***************************************************************************)
(* Proofs about the way of the data, for every source, every choice of     *)
(* pseudonyms and offset, any number of failed runs on one vault, every    *)
(* defect of the writer and every change from outside.                     *)
(*                                                                         *)
(* The inductive invariant Inv follows the data.  The rows of the vault    *)
(* are described twice: LooseInv says what every vault looks like, also    *)
(* one that somebody changed, and TightInv what an untouched one holds     *)
(* after each step of pass 1 (one-to-one mapping rows without a fixed      *)
(* point, ledger rows equal to the directives, an offset exactly when its  *)
(* domain exists).  MemoInv links the memo rows to the records already     *)
(* read: only with it is the scan known to have kept every memo once pass  *)
(* 2 begins, whichever run kept it.  WriteInv says what pass 2 gives to    *)
(* the writer, PublishedInv what the claim, the completed row and the tree *)
(* have to do with it, RecoveryInv that every staged table is one of the   *)
(* source, and VerdictInv that a verdict is about the present state.       *)
(*                                                                         *)
(* The three theorems about verify_dataset then read its finding codes     *)
(* backwards: no failing code means ValueAgrees for every cell, which      *)
(* together with LooseInv gives the original back, and together with an    *)
(* honest writer or an untouched vault hides it.                           *)
(***************************************************************************)
EXTENDS RoundTrip, FiniteSetTheorems, SequenceTheorems, TLAPS

Before == EngineSteps \cup {"failed", "refused"}
After == {"published", "recoveryRefused"} \cup Recovering
FaultKinds == {"writer", "source", "tree", "race", "vault"}

Planned == vault.dataset.source
Rows(t) == 1..Len(Source[t])
Value(t, i, f) == Source[t][i].values[f]

\* A sequence of records, whatever the records are.
IsSequence(s) == \E n \in Nat : s = [i \in 1..n |-> s[i]]

SourceIsWellFormed ==
  /\ Planned = [tables |-> Source, fields |-> case.fields]
  /\ Source = [t \in Tables |-> Source[t]]
  /\ \A t \in Tables :
        /\ IsSequence(Source[t]) /\ Len(Source[t]) <= MaxRecords
        /\ \A i \in Rows(t) :
              /\ Source[t][i] = [deleted |-> Source[t][i].deleted, values |-> Source[t][i].values]
              /\ Source[t][i].values = [f \in case.fields[t] |-> Value(t, i, f)]
              /\ "date" \in case.fields[t] => Value(t, i, "date") = Null \/ Value(t, i, "date") \in Int

StageInv ==
  /\ case \in Scenarios
  /\ pc \in Before \cup After
  /\ faults \subseteq FaultKinds
  /\ DOMAIN vault = {"id", "dataset", "tables", "ledger", "domains", "text", "key", "memo",
                     "offset", "operation"}
  /\ SourceIsWellFormed
  /\ "source" \notin faults => source = Planned
  /\ pc \in Before => /\ faults \subseteq {"writer"}
                      /\ claim = Null /\ verdict = Null /\ recovered = Null

\* What a day, a text and a key observed by pass 1 is.
IsDay(d) ==
  /\ d # Null
  /\ \E t \in Tables : "date" \in case.fields[t] /\ \E i \in Rows(t) : Value(t, i, "date") = d

SpoolInv ==
  /\ \A x \in spool.text : x \notin {Null, ""}
  /\ \A x \in spool.key : x # Null
  /\ \A d \in spool.days : IsDay(d)

Kind(d) ==
  CASE d = TextDomain -> "TEXT" [] d = KeyDomain -> "NUMERIC_KEY" [] OTHER -> "TEMPORAL"

DomainOf(f) ==
  CASE f = "text" -> TextDomain [] f = "key" -> KeyDomain [] f = "date" -> TemporalDomain
    [] OTHER -> Null

\* What stays true of the vault even when somebody has changed it.
LooseInv ==
  /\ \A r \in vault.text : r[2] \in TokensOf["text"]
  /\ \A d \in DOMAIN vault.domains : /\ d \in {TextDomain, KeyDomain, TemporalDomain}
                                     /\ vault.domains[d] \in {Kind(d), "BOGUS"}
  /\ TemporalDomain \in DOMAIN vault.domains => \E d \in Int : IsDay(d)
  /\ vault.offset = Null \/ vault.offset \in Int
  /\ \A p \in DOMAIN vault.ledger :
        /\ p \in Pairs
        /\ vault.ledger[p] \in [action : {Action(p[2]), "KEEP"}, domain : {Null, DomainOf(p[2])},
                                factsAgree : BOOLEAN]
  /\ vault.tables \subseteq Tables
  /\ pc \in After => /\ vault.tables = Tables
                     /\ \A p \in DOMAIN vault.ledger :
                           vault.ledger[p].action = "SHIFT_REVERSIBLE" =>
                              vault.ledger[p].domain = TemporalDomain

\* Protected rows: a one-to-one relation without a fixed point.
IsMapping(rows, tokens) ==
  /\ IsFiniteSet(rows)
  /\ \A r \in rows : r[2] \in tokens /\ r[1] # r[2] /\ r[1] # Null
  /\ \A r, s \in rows : r[1] = s[1] \/ r[2] = s[2] => r = s

Registered == {"offset", "write"} \cup After

\* What is true of a vault nobody has changed.
TightInv ==
  "vault" \notin faults =>
     /\ IsMapping(vault.text, TokensOf["text"])
     /\ IsMapping(vault.key, TokensOf["key"])
     /\ \A r \in vault.text : r[1] # ""
     /\ vault.text # {} => TextDomain \in DOMAIN vault.domains
     /\ \A d \in DOMAIN vault.domains : vault.domains[d] = Kind(d)
     /\ vault.offset # 0
     /\ vault.offset # Null <=> TemporalDomain \in DOMAIN vault.domains
     /\ \A t \in Tables : \A i \in Rows(t) :
           "memo" \in case.fields[t] /\ <<t, i>> \in DOMAIN vault.memo =>
              vault.memo[<<t, i>>] = Value(t, i, "memo")
     /\ pc \in {"temporal", "ledger"} \cup Registered /\ HasRelation =>
           KeyDomain \in DOMAIN vault.domains
     /\ pc \in Registered =>
           /\ vault.tables = Tables
           /\ Pairs \subseteq DOMAIN vault.ledger
           /\ \A p \in Pairs : vault.ledger[p] = LedgerRow(vault, p[2])
     /\ pc \in {"write"} \cup After /\ TemporalPresent => vault.offset # Null

PastScan == {"text", "key", "temporal", "ledger", "offset", "write"} \cup After

\* Pass 1 has kept the memo of every record it has read.
MemoInv ==
  /\ seen \in [Tables -> Nat]
  /\ pc \in PastScan => \A t \in Tables : seen[t] >= Len(Source[t])
  /\ "vault" \notin faults =>
        \A t \in Tables : \A i \in Rows(t) :
           "memo" \in case.fields[t] /\ i <= seen[t] /\ Value(t, i, "memo") # Null =>
              <<t, i>> \in DOMAIN vault.memo

\* Pass 2 with the rows of the vault, of a source read once.
Pseudonymized(t) ==
  [i \in Rows(t) |->
     [deleted |-> Source[t][i].deleted,
      values |-> [f \in case.fields[t] |-> Image(vault, f, Value(t, i, f))]]]

HasItsRows(t) ==
  \A i \in Rows(t) : \A f \in case.fields[t] : ~MappingMissing(vault, f, Value(t, i, f))

WriteInv ==
  /\ pc \in EngineSteps \ {"write"} => written = EmptyFunction /\ given = EmptyFunction
  /\ pc = "write" =>
        /\ DOMAIN written = DOMAIN given /\ DOMAIN given \subseteq Tables
        /\ written = [t \in DOMAIN written |-> written[t]]
        /\ given = [t \in DOMAIN given |-> given[t]]
        /\ \A t \in DOMAIN given : given[t] = Pseudonymized(t) /\ HasItsRows(t)
        /\ \A t \in DOMAIN written : IsSequence(written[t])
        /\ "writer" \notin faults => written = given

\* Tables that hide what is to be hidden, keep what is to be kept and map
\* equal values to equal ones.
Hides(f, in, out) == IF in \in CopiedAsIs(f) THEN out = in ELSE out # in

FaithfulTables(tables) ==
  LET Out(t, i, f) == tables[t][i].values[f]
  IN /\ tables = [t \in Tables |-> tables[t]]
     /\ \A t \in Tables : tables[t] = [i \in Rows(t) |-> tables[t][i]]
     /\ \A t \in Tables : \A i \in Rows(t) :
           /\ tables[t][i].deleted = Source[t][i].deleted
           /\ \A f \in case.fields[t] \cap {"text", "key", "memo", "date"} :
                 Hides(f, Value(t, i, f), Out(t, i, f))
           /\ "keep" \in case.fields[t] => Out(t, i, "keep") = Value(t, i, "keep")
     /\ \A t, u \in Tables : \A i \in Rows(t), j \in Rows(u) :
           \A f \in case.fields[t] \cap case.fields[u] \cap {"text", "key"} :
              (Value(t, i, f) = Value(u, j, f)) <=> (Out(t, i, f) = Out(u, j, f))

OperationRow(records, relations) ==
  [id |-> OperationId(vault.dataset, Place), state |-> "COMPLETED", dataset |-> vault.dataset,
   vault |-> VaultFingerprint(vault), place |-> Place,
   binding |-> BindingFingerprint(vault, Place), output |-> claim.output,
   receipt |-> {[operation |-> OperationId(vault.dataset, Place), output |-> claim.output,
                 records |-> records, relations |-> relations, index |-> case.index]}]

ClaimIsDerived ==
  /\ claim.source = Planned
  /\ claim.operation = OperationId(vault.dataset, Place)
  /\ claim.place = Place /\ claim.index = case.index
  /\ claim.output = TreeOf(claim.output.tables)
  /\ claim.output.tables = [t \in Tables |-> claim.output.tables[t]]
  /\ \A t \in Tables : IsSequence(claim.output.tables[t])
  /\ claim.assurance = AssuranceOf(claim.assurance.evidence, claim.authority)

RowIsClaimed ==
  "vault" \notin faults => vault.operation = OperationRow(claim.records, claim.assurance.evidence)

ClaimIsFaithful == FaithfulTables(claim.output.tables)
RecordsAreCounted == claim.records = RecordTotal(Lengths(Source))

WriterIsSound ==
  "writer" \notin faults =>
     /\ ClaimIsFaithful /\ RecordsAreCounted
     /\ HasRelation => claim.assurance.level # "INCOMPLETE"

TreeIsPass2 ==
  {"writer", "vault"} \cap faults = {} =>
     /\ claim.output.tables = [t \in Tables |-> Pseudonymized(t)]
     /\ \A t \in Tables : HasItsRows(t)

TreeIsClaimed == {"tree", "race"} \cap faults = {} => output = claim.output

PublishedInv ==
  pc \in After => ClaimIsDerived /\ RowIsClaimed /\ WriterIsSound /\ TreeIsPass2 /\ TreeIsClaimed

RecoveryInv ==
  faults \cap {"writer", "race", "vault"} = {} =>
    /\ pc \in Recovering => output = claim.output
    /\ pc \in Recovering => /\ staged = [t \in DOMAIN staged |-> staged[t]]
                            /\ DOMAIN staged \subseteq Tables
                            /\ \A t \in DOMAIN staged : staged[t] = Source[t]
    /\ pc \in {"checking", "promoting"} => DOMAIN staged = Tables
    /\ recovered # Null => recovered = Source

VerdictInv == verdict # Null => verdict = Verdict(Verify(vault, source, output, claim))

Inv == StageInv /\ SpoolInv /\ LooseInv /\ TightInv /\ MemoInv /\ WriteInv /\ PublishedInv
       /\ RecoveryInv /\ VerdictInv

-----------------------------------------------------------------------------
(* Sequences and records.                                                  *)

\* What a sequence is, and how long.
LEMMA SequenceLength ==
  ASSUME NEW s, NEW n \in Nat, s = [i \in 1..n |-> s[i]]
  PROVE  Len(s) = n /\ DOMAIN s = 1..n /\ IsSequence(s)
<1> DEFINE S == {s[i] : i \in 1..n}
<1>1. s \in [1..n -> S]
  OBVIOUS
<1>2. s \in Seq(S)
  BY <1>1, SeqDef
<1>3. DOMAIN s = 1..n
  OBVIOUS
<1>4. Len(s) = n
  BY <1>2, <1>3, LenProperties
<1> QED BY <1>3, <1>4 DEF IsSequence

LEMMA SequenceDomain ==
  ASSUME NEW s, IsSequence(s)
  PROVE  /\ Len(s) \in Nat /\ DOMAIN s = 1..Len(s)
         /\ s = [i \in 1..Len(s) |-> s[i]]
<1>1. PICK n \in Nat : s = [i \in 1..n |-> s[i]]
  BY DEF IsSequence
<1>2. Len(s) = n /\ DOMAIN s = 1..n
  BY <1>1, SequenceLength
<1> QED BY <1>1, <1>2

\* A non-empty set of naturals has a least element, and Min takes it.
LEMMA MinIsLeast ==
  ASSUME NEW S \in SUBSET Nat, S # {}
  PROVE  Min(S) \in S /\ \A y \in S : Min(S) <= y
<1> DEFINE R == OpToRel(<, Nat)
<1>1. IsWellFoundedOn(R, Nat)
  BY NatLessThanWellFounded
<1>2. \A i, j \in Nat : j < i => <<j, i>> \in R
  BY DEF OpToRel
<1> HIDE DEF R
<1>3. PICK i \in S : \A j \in S : ~(<<j, i>> \in R)
  BY <1>1, WFMin
<1>4. ASSUME NEW j \in S PROVE i <= j
  <2>1. i \in Nat /\ j \in Nat
    OBVIOUS
  <2>2. ~(j < i)
    BY <1>2, <1>3, <2>1, Zenon
  <2> QED
    BY <2>1, <2>2
<1> QED
  BY <1>4 DEF Min

\* A defect of the writer leaves a sequence of records.
LEMMA DamagedIsSequence ==
  ASSUME NEW records, IsSequence(records), NEW d \in Damaged(records)
  PROVE  IsSequence(d)
<1> DEFINE n == Len(records)
<1>1. n \in Nat /\ DOMAIN records = 1..n /\ records = [i \in 1..n |-> records[i]]
  BY SequenceDomain
<1>2. CASE \E k \in 0..(n - 1) : d = SubSeq(records, 1, k)
  <2>1. PICK k \in 0..(n - 1) : d = SubSeq(records, 1, k)
    BY <1>2
  <2>2. k \in Nat
    BY <1>1
  <2>3. d = [i \in 1..k |-> records[i]]
    <3>1. records \in Seq({records[i] : i \in 1..n})
      BY <1>1, SeqDef
    <3>2. \A i \in 1..k : (i + 1) - 1 = i /\ 1 + i - 1 = i
      BY <2>2
    <3>3. 1..(k - 1 + 1) = 1..k
      BY <2>2
    <3> QED BY <2>1, <2>2, <3>2, <3>3
  <2>4. d = [i \in 1..k |-> d[i]]
    BY <2>3
  <2> QED BY <2>2, <2>4, SequenceLength
<1>3. CASE DOMAIN d = DOMAIN records /\ d = [i \in DOMAIN records |-> d[i]]
  BY <1>1, <1>3, SequenceLength
<1>4. \/ \E k \in 0..(n - 1) : d = SubSeq(records, 1, k)
      \/ \E i \in 1..n : d = [records EXCEPT ![i].deleted = ~@]
      \/ d = [records EXCEPT ![1] = records[2], ![2] = records[1]]
      \/ \E i \in 1..n : \E f, v : d = [records EXCEPT ![i].values[f] = v]
  <2> DEFINE One(i, f, v) == [records EXCEPT ![i].values[f] = v]
             Values(i) == UNION {{One(i, f, v) : v \in ValuesOf[f]} : f \in DOMAIN records[i].values}
             C == {[records EXCEPT ![1] = records[2], ![2] = records[1]] : k \in {2} \cap 1..n}
  <2>1. \/ d \in {SubSeq(records, 1, k) : k \in 0..(n - 1)}
        \/ d \in {[records EXCEPT ![i].deleted = ~@] : i \in 1..n}
        \/ d \in C
        \/ \E i \in 1..n : d \in Values(i)
    BY Zenon DEF Damaged
  <2>2. d \in C => d = [records EXCEPT ![1] = records[2], ![2] = records[1]]
    BY Zenon
  <2> HIDE DEF One, C, n
  <2>3. ASSUME NEW i \in 1..n, d \in Values(i) PROVE \E f, v : d = One(i, f, v)
    BY <2>3
  <2> HIDE DEF Values
  <2> QED BY <2>1, <2>2, <2>3 DEF One
<1>5. ASSUME NEW i \in 1..n, d = [records EXCEPT ![i].deleted = ~@]
      PROVE  DOMAIN d = DOMAIN records /\ d = [j \in DOMAIN records |-> d[j]]
  BY <1>1, <1>5
<1>6. ASSUME d = [records EXCEPT ![1] = records[2], ![2] = records[1]]
      PROVE  DOMAIN d = DOMAIN records /\ d = [j \in DOMAIN records |-> d[j]]
  BY <1>1, <1>6
<1>7. ASSUME NEW i \in 1..n, NEW f, NEW v, d = [records EXCEPT ![i].values[f] = v]
      PROVE  DOMAIN d = DOMAIN records /\ d = [j \in DOMAIN records |-> d[j]]
  BY <1>1, <1>7
<1> HIDE DEF n
<1> QED BY <1>2, <1>3, <1>4, <1>5, <1>6, <1>7

-----------------------------------------------------------------------------
(* What no step changes.                                                   *)

\* A row of the ledger that may have been changed.
LooseRow(row, old) ==
  \/ row = old
  \/ row = [old EXCEPT !.factsAgree = FALSE]
  \/ row = [old EXCEPT !.action = "KEEP", !.domain = Null]

\* One kind of row is touched; the identity stays, and no row gets a new
\* pseudonym.
LooseChange(w) ==
  /\ DOMAIN w = DOMAIN vault /\ w.dataset = vault.dataset /\ w.id = vault.id
  /\ w.tables = vault.tables
  /\ \A p \in DOMAIN w.ledger : p \in DOMAIN vault.ledger /\ LooseRow(w.ledger[p], vault.ledger[p])
  /\ \A r \in w.text : \E q \in vault.text : r[2] = q[2]
  /\ DOMAIN w.domains = DOMAIN vault.domains
  /\ \A d \in DOMAIN w.domains : w.domains[d] \in {vault.domains[d], "BOGUS"}
  /\ w.offset \in {vault.offset, Null, 0, 1}

LEMMA ChangedVault ==
  ASSUME NEW w \in VaultChanges,
         DOMAIN vault = {"id", "dataset", "tables", "ledger", "domains", "text", "key", "memo",
                         "offset", "operation"}
  PROVE  LooseChange(w)
<1>1. ASSUME w \in LedgerChanges PROVE LooseChange(w)
  <2>1. CASE \E p \in DOMAIN vault.ledger :
                w = [vault EXCEPT !.ledger = [q \in DOMAIN @ \ {p} |-> @[q]]]
    BY <2>1 DEF LooseChange, LooseRow
  <2>2. CASE \E p \in DOMAIN vault.ledger : w = [vault EXCEPT !.ledger[p].factsAgree = FALSE]
    <3>1. PICK p \in DOMAIN vault.ledger : w = [vault EXCEPT !.ledger[p].factsAgree = FALSE]
      BY <2>2
    <3>2. /\ DOMAIN w.ledger = DOMAIN vault.ledger
          /\ w.ledger[p] = [vault.ledger[p] EXCEPT !.factsAgree = FALSE]
          /\ \A q \in DOMAIN vault.ledger : q # p => w.ledger[q] = vault.ledger[q]
      BY <3>1
    <3>3. /\ DOMAIN w = DOMAIN vault /\ w.dataset = vault.dataset /\ w.id = vault.id
          /\ w.tables = vault.tables /\ w.text = vault.text /\ w.domains = vault.domains
          /\ w.offset = vault.offset
      BY <3>1
    <3> QED BY <3>2, <3>3 DEF LooseChange, LooseRow
  <2>3. CASE \E p \in DOMAIN vault.ledger :
                w = [vault EXCEPT !.ledger[p] = [@ EXCEPT !.action = "KEEP", !.domain = Null]]
    <3>1. PICK p \in DOMAIN vault.ledger :
                w = [vault EXCEPT !.ledger[p] = [@ EXCEPT !.action = "KEEP", !.domain = Null]]
      BY <2>3
    <3>2. /\ DOMAIN w.ledger = DOMAIN vault.ledger
          /\ w.ledger[p] = [vault.ledger[p] EXCEPT !.action = "KEEP", !.domain = Null]
          /\ \A q \in DOMAIN vault.ledger : q # p => w.ledger[q] = vault.ledger[q]
      BY <3>1
    <3>3. /\ DOMAIN w = DOMAIN vault /\ w.dataset = vault.dataset /\ w.id = vault.id
          /\ w.tables = vault.tables /\ w.text = vault.text /\ w.domains = vault.domains
          /\ w.offset = vault.offset
      BY <3>1
    <3> QED BY <3>2, <3>3 DEF LooseChange, LooseRow
  <2> QED BY <1>1, <2>1, <2>2, <2>3, Zenon DEF LedgerChanges
<1>2. ASSUME w \in MappingChanges PROVE LooseChange(w)
  <2>1. CASE \E d \in DOMAIN vault.domains : w = [vault EXCEPT !.domains[d] = "BOGUS"]
    BY <2>1 DEF LooseChange, LooseRow
  <2>2. CASE \E q \in vault.text : \E o :
                w = [vault EXCEPT !.text = {IF r = q THEN <<o, q[2]>> ELSE r : r \in @}]
    BY <2>2 DEF LooseChange, LooseRow
  <2>3. CASE \E r \in vault.key : w = [vault EXCEPT !.key = @ \ {r}]
    BY <2>3 DEF LooseChange, LooseRow
  <2>4. CASE \E o \in {Null, 0, 1} : w = [vault EXCEPT !.offset = o]
    BY <2>4 DEF LooseChange, LooseRow
  <2> DEFINE Cut(d) == [vault EXCEPT !.domains[d] = "BOGUS"]
             Relabelled(q, o) == [vault EXCEPT !.text = {IF r = q THEN <<o, q[2]>> ELSE r : r \in @}]
             Without(r) == [vault EXCEPT !.key = @ \ {r}]
             Shifted(o) == [vault EXCEPT !.offset = o]
             tokens == TokensOf["text"] \cup {""}
             offsets == IF vault.offset = Null THEN {} ELSE {Null, 0, 1}
             A == {Cut(d) : d \in DOMAIN vault.domains}
             B == UNION {{Relabelled(q, o) : q \in vault.text} : o \in tokens}
             C == {Without(r) : r \in vault.key}
             D == {Shifted(o) : o \in offsets}
  <2>5. w \in A \cup B \cup C \cup D
    BY <1>2, Zenon DEF MappingChanges
  <2>6. offsets \subseteq {Null, 0, 1}
    OBVIOUS
  <2> HIDE DEF Cut, Relabelled, Without, Shifted, offsets, tokens
  <2>7. w \in A => \E d \in DOMAIN vault.domains : w = Cut(d)
    OBVIOUS
  <2>8. w \in B => \E q \in vault.text : \E o : w = Relabelled(q, o)
    OBVIOUS
  <2>9. w \in C => \E r \in vault.key : w = Without(r)
    OBVIOUS
  <2>10. w \in D => \E o \in {Null, 0, 1} : w = Shifted(o)
    BY <2>6
  <2> HIDE DEF A, B, C, D
  <2>11. w \in A \/ w \in B \/ w \in C \/ w \in D
    BY <2>5
  <2> QED BY <2>1, <2>2, <2>3, <2>4, <2>7, <2>8, <2>9, <2>10, <2>11 DEF Cut, Relabelled, Without, Shifted
<1>3. ASSUME w \in MemoChanges PROVE LooseChange(w)
  <2>1. \E y : w = [vault EXCEPT !.memo = y]
    BY <1>3, Zenon DEF MemoChanges
  <2> QED BY <2>1 DEF LooseChange, LooseRow
<1>4. ASSUME w \in OperationChanges PROVE LooseChange(w)
  <2>1. \E y : w = [vault EXCEPT !.operation = y]
    BY <1>4, Zenon DEF OperationChanges
  <2> QED BY <2>1 DEF LooseChange, LooseRow
<1> QED BY <1>1, <1>2, <1>3, <1>4 DEF VaultChanges

LEMMA Frame ==
  ASSUME StageInv, [Next]_vars
  PROVE  /\ case' = case
         /\ DOMAIN vault' = DOMAIN vault
         /\ vault'.dataset = vault.dataset /\ vault'.id = vault.id
<1> USE DEF StageInv
<1>1. CASE UNCHANGED vars
  BY <1>1 DEF vars
<1>2. CASE RegisterMemoStructure
  BY <1>2 DEF RegisterMemoStructure, Register
<1>3. CASE ObserveRecord
  BY <1>3 DEF ObserveRecord, PersistMemo
<1>4. CASE FinalizeText
  BY <1>4 DEF FinalizeText, AddDomain
<1>5. CASE FinalizeNumeric
  BY <1>5 DEF FinalizeNumeric, AddDomain
<1>6. CASE FinalizeTemporal
  BY <1>6 DEF FinalizeTemporal, AddDomain
<1>7. CASE RegisterTransformFields
  BY <1>7 DEF RegisterTransformFields, Register
<1>8. CASE Publish
  BY <1>8 DEF Publish
<1>9. CASE ChangeOutside
  BY <1>9, ChangedVault DEF ChangeOutside, LooseChange
<1>10. CASE \/ ScanEnds \/ PersistedOffset \/ (\E t \in Tables : WriteTable(t)) \/ RunFails
            \/ Retry \/ VerifyDataset \/ (\E place \in {Place, "copy"} : ValidateAuthority(place))
            \/ (\E t \in Tables : RecoverTable(t)) \/ TablesRecovered \/ VerifyStaged
            \/ PromoteRecovery
  BY <1>10 DEF ScanEnds, PersistedOffset, WriteTable, RunFails, Retry, VerifyDataset,
               ValidateAuthority, RecoverTable, TablesRecovered, VerifyStaged, PromoteRecovery
<1> QED
  BY <1>1, <1>2, <1>3, <1>4, <1>5, <1>6, <1>7, <1>8, <1>9, <1>10 DEF Next

LEMMA SameSource ==
  ASSUME case' = case, vault'.dataset = vault.dataset
  PROVE  /\ Source' = Source /\ Planned' = Planned
         /\ Tables' = Tables /\ Pairs' = Pairs
         /\ HasRelation' = HasRelation /\ TemporalPresent' = TemporalPresent
         /\ \A d : IsDay(d)' <=> IsDay(d)
         /\ SourceIsWellFormed' = SourceIsWellFormed
<1>1. Source' = Source /\ Planned' = Planned /\ Tables' = Tables
  BY DEF Source, Planned, Tables
<1>2. Pairs' = Pairs /\ HasRelation' = HasRelation /\ TemporalPresent' = TemporalPresent
  BY <1>1 DEF Pairs, HasRelation, TemporalPresent
<1>3. \A d : IsDay(d)' <=> IsDay(d)
  BY <1>1 DEF IsDay, Rows, Value
<1>4. SourceIsWellFormed' = SourceIsWellFormed
  BY <1>1 DEF SourceIsWellFormed, Rows, Value
<1> QED BY <1>1, <1>2, <1>3, <1>4

-----------------------------------------------------------------------------
(* The stages of a run.                                                    *)

LEMMA StageStep ==
  ASSUME StageInv, Next
  PROVE  StageInv'
<1>1. /\ case' = case /\ vault'.dataset = vault.dataset /\ DOMAIN vault' = DOMAIN vault
      /\ Planned' = Planned /\ SourceIsWellFormed'
  BY Frame, SameSource DEF StageInv
<1> DEFINE Rest == /\ pc' \in Before \cup After
                   /\ faults' \subseteq FaultKinds
                   /\ "source" \notin faults' => source' = Planned
                   /\ pc' \in Before => /\ faults' \subseteq {"writer"}
                                        /\ claim' = Null /\ verdict' = Null /\ recovered' = Null
<1> SUFFICES Rest
  BY <1>1 DEF StageInv
<1> USE DEF Before, After, Recovering, EngineSteps, FaultKinds
<1>2. /\ pc \in Before \cup After
      /\ faults \subseteq FaultKinds
      /\ "source" \notin faults => source = Planned
      /\ pc \in Before => /\ faults \subseteq {"writer"}
                          /\ claim = Null /\ verdict = Null /\ recovered = Null
  BY DEF StageInv
<1>3. CASE RegisterMemoStructure \/ ObserveRecord \/ ScanEnds
  BY <1>2, <1>3 DEF RegisterMemoStructure, ObserveRecord, ScanEnds, outcome
<1>4. CASE FinalizeText
  BY <1>2, <1>4 DEF FinalizeText, outcome
<1>5. CASE FinalizeNumeric
  BY <1>2, <1>5 DEF FinalizeNumeric, outcome
<1>6. CASE FinalizeTemporal
  BY <1>2, <1>6 DEF FinalizeTemporal, outcome
<1>7. CASE RegisterTransformFields \/ PersistedOffset
  BY <1>2, <1>7 DEF RegisterTransformFields, PersistedOffset, outcome
<1>8. CASE \E t \in Tables : WriteTable(t)
  BY <1>2, <1>8 DEF WriteTable, Fault, outcome
<1>9. CASE Publish
  BY <1>2, <1>9 DEF Publish, outcome
<1>10. CASE RunFails \/ Retry
  BY <1>2, <1>10 DEF RunFails, Retry, outcome
<1>11. CASE ChangeOutside
  BY <1>2, <1>11 DEF ChangeOutside, Fault, engine
<1>12. CASE VerifyDataset
  BY <1>2, <1>12 DEF VerifyDataset, engine
<1>13. CASE \E place \in {Place, "copy"} : ValidateAuthority(place)
  BY <1>2, <1>13 DEF ValidateAuthority
<1>14. CASE \E t \in Tables : RecoverTable(t)
  BY <1>2, <1>14 DEF RecoverTable
<1>15. CASE TablesRecovered \/ VerifyStaged \/ PromoteRecovery
  BY <1>2, <1>15 DEF TablesRecovered, VerifyStaged, PromoteRecovery, outcome
<1> QED
  BY <1>3, <1>4, <1>5, <1>6, <1>7, <1>8, <1>9, <1>10, <1>11, <1>12, <1>13, <1>14, <1>15 DEF Next

\* Everybody who reads the source before publication reads the planned one.
LEMMA SourceBefore ==
  ASSUME StageInv, pc \in Before
  PROVE  source = Planned /\ source.tables = Source /\ source.fields = case.fields
<1>1. source = Planned
  BY DEF StageInv
<1> QED BY <1>1 DEF StageInv, SourceIsWellFormed, Source

\* The table and the record that pass 1 reads next.
LEMMA CurrentRecord ==
  ASSUME StageInv, MemoInv, pc \in Before
  PROVE  /\ CurrentTable = 0 => \A t \in Tables : seen[t] >= Len(Source[t])
         /\ CurrentTable # 0 => /\ case.tables[CurrentTable] \in Tables
                                /\ seen[case.tables[CurrentTable]] + 1 \in Rows(case.tables[CurrentTable])
<1> DEFINE I == {i \in 1..Len(case.tables) : seen[case.tables[i]] < Len(source.tables[case.tables[i]])}
<1>1. CurrentTable = IF I # {} THEN Min(I) ELSE 0
  BY DEF CurrentTable, SelectInSeq
<1>2. source.tables = Source
  BY SourceBefore
<1>3. case.tables \in Seq(Tables) /\ Len(case.tables) \in Nat /\ DOMAIN case.tables = 1..Len(case.tables)
  <2>1. case.tables \in Seq(Range(case.tables))
    BY ScenarioAssumption DEF StageInv
  <2> QED BY <2>1, LenProperties DEF Tables
<1>4. \A t \in Tables : Len(Source[t]) \in Nat /\ seen[t] \in Nat
  BY SequenceDomain DEF StageInv, SourceIsWellFormed, MemoInv
<1>5. I \in SUBSET Nat
  BY <1>3
<1>6. ASSUME I = {} PROVE \A t \in Tables : seen[t] >= Len(Source[t])
  <2> SUFFICES ASSUME NEW t \in Tables PROVE seen[t] >= Len(Source[t])
    OBVIOUS
  <2>1. PICK i \in 1..Len(case.tables) : t = case.tables[i]
    BY <1>3 DEF Tables, Range
  <2>2. ~(seen[t] < Len(Source[t]))
    BY <1>2, <1>6, <2>1
  <2> QED BY <1>4, <2>2
<1>7. ASSUME I # {}
      PROVE  /\ Min(I) \in Nat \ {0}
             /\ case.tables[Min(I)] \in Tables
             /\ seen[case.tables[Min(I)]] + 1 \in Rows(case.tables[Min(I)])
  <2>1. Min(I) \in I
    BY <1>5, <1>7, MinIsLeast
  <2> DEFINE m == Min(I)
  <2> HIDE DEF m
  <2>2. m \in 1..Len(case.tables) /\ seen[case.tables[m]] < Len(Source[case.tables[m]])
    BY <1>2, <2>1 DEF m
  <2>3. case.tables[m] \in Tables
    BY <1>3, <2>2
  <2>4. seen[case.tables[m]] + 1 \in 1..Len(Source[case.tables[m]])
    BY <1>4, <2>2, <2>3
  <2>5. m \in Nat \ {0}
    BY <1>3, <2>2
  <2> QED BY <2>3, <2>4, <2>5 DEF m, Rows
<1> HIDE DEF I
<1> QED BY <1>1, <1>6, <1>7

-----------------------------------------------------------------------------
(* Which steps change what.                                                *)

AnyAuthority == \E place \in {Place, "copy"} : ValidateAuthority(place)
AnyRecovery == \E t \in Tables : RecoverTable(t)
AnyWrite == \E t \in Tables : WriteTable(t)
Staging == AnyRecovery \/ TablesRecovered \/ VerifyStaged \/ PromoteRecovery

LEMMA WhoChanges ==
  ASSUME Next
  PROVE  /\ spool' # spool => ObserveRecord \/ Retry
         /\ seen' # seen => ObserveRecord \/ Retry
         /\ vault' # vault => \/ RegisterMemoStructure \/ ObserveRecord \/ FinalizeText
                              \/ FinalizeNumeric \/ FinalizeTemporal \/ RegisterTransformFields
                              \/ Publish \/ ChangeOutside
         /\ faults' # faults => AnyWrite \/ ChangeOutside
         /\ written' # written \/ given' # given => AnyWrite \/ Retry
         /\ claim' # claim => Publish
         /\ output' # output => Publish \/ ChangeOutside
         /\ staged' # staged => AnyAuthority \/ AnyRecovery
         /\ recovered' # recovered => PromoteRecovery
         /\ verdict' # verdict => ChangeOutside \/ VerifyDataset
         /\ source' # source => ChangeOutside
<1> USE DEF outcome, engine, AnyAuthority, AnyRecovery, AnyWrite
<1>1. CASE RegisterMemoStructure BY <1>1 DEF RegisterMemoStructure
<1>2. CASE ObserveRecord BY <1>2 DEF ObserveRecord
<1>3. CASE ScanEnds BY <1>3 DEF ScanEnds
<1>4. CASE FinalizeText BY <1>4 DEF FinalizeText
<1>5. CASE FinalizeNumeric BY <1>5 DEF FinalizeNumeric
<1>6. CASE FinalizeTemporal BY <1>6 DEF FinalizeTemporal
<1>7. CASE RegisterTransformFields BY <1>7 DEF RegisterTransformFields
<1>8. CASE PersistedOffset BY <1>8 DEF PersistedOffset
<1>9. CASE \E t \in Tables : WriteTable(t) BY <1>9 DEF WriteTable
<1>10. CASE Publish BY <1>10 DEF Publish
<1>11. CASE RunFails \/ Retry BY <1>11 DEF RunFails, Retry
<1>12. CASE ChangeOutside BY <1>12 DEF ChangeOutside
<1>13. CASE VerifyDataset BY <1>13 DEF VerifyDataset
<1>14. CASE \E place \in {Place, "copy"} : ValidateAuthority(place) BY <1>14 DEF ValidateAuthority
<1>15. CASE \E t \in Tables : RecoverTable(t) BY <1>15 DEF RecoverTable
<1>16. CASE TablesRecovered \/ VerifyStaged \/ PromoteRecovery
  BY <1>16 DEF TablesRecovered, VerifyStaged, PromoteRecovery
<1> QED
  BY <1>1, <1>2, <1>3, <1>4, <1>5, <1>6, <1>7, <1>8, <1>9, <1>10, <1>11, <1>12, <1>13, <1>14,
     <1>15, <1>16 DEF Next

\* The faults that have happened stay, and a change of the vault is one.
LEMMA FaultsGrow ==
  ASSUME Next
  PROVE  /\ faults \subseteq faults'
         /\ ChangeOutside => \/ vault' = vault
                             \/ vault' \in VaultChanges /\ "vault" \in faults'
         /\ ChangeOutside => \/ output' = output
                             \/ pc = "published" /\ "tree" \in faults'
                             \/ "race" \in faults'
<1>1. faults \subseteq faults'
  BY WhoChanges DEF AnyWrite, WriteTable, ChangeOutside, Fault
<1>2. ChangeOutside => \/ vault' = vault
                       \/ vault' \in VaultChanges /\ "vault" \in faults'
  BY DEF ChangeOutside, Fault
<1>3. ChangeOutside => \/ output' = output
                       \/ pc = "published" /\ "tree" \in faults'
                       \/ "race" \in faults'
  BY DEF ChangeOutside, Fault
<1> QED BY <1>1, <1>2, <1>3

\* The record pass 1 reads, and what it does with it.
LEMMA ObserveEffect ==
  ASSUME StageInv, MemoInv, ObserveRecord
  PROVE  /\ pc = "scan"
         /\ \E t \in Tables : \E i \in Rows(t) :
              LET payload == IF "memo" \in case.fields[t] THEN Value(t, i, "memo") ELSE Null
              IN /\ i = seen[t] + 1
                 /\ Source[t][i].values = [f \in case.fields[t] |-> Value(t, i, f)]
                 /\ \/ pc' = "failed" /\ UNCHANGED <<vault, spool, seen>>
                    \/ /\ memo_recovery_row(vault, t, i) \in {Null, payload}
                       /\ vault' = PersistMemo(t, i, payload)
                       /\ spool' = Observed(Source[t][i].values)
                       /\ seen' = [seen EXCEPT ![t] = i]
                       /\ pc' = pc
<1>1. pc = "scan" /\ CurrentTable # 0
  BY DEF ObserveRecord
<1>2. pc \in Before
  BY <1>1 DEF Before, EngineSteps
<1> DEFINE t == case.tables[CurrentTable]
           i == seen[t] + 1
<1>3. t \in Tables /\ i \in Rows(t)
  BY <1>1, <1>2, CurrentRecord
<1>4. source.tables[t][i] = Source[t][i]
  BY <1>2, SourceBefore
<1>5. Source[t][i].values = [f \in case.fields[t] |-> Value(t, i, f)]
  BY <1>3 DEF StageInv, SourceIsWellFormed
<1> DEFINE values == Source[t][i].values
           payload == IF "memo" \in case.fields[t] THEN Value(t, i, "memo") ELSE Null
<1>6. payload = IF "memo" \in DOMAIN values THEN values["memo"] ELSE Null
  BY <1>5 DEF Value
<1>7. IF MemoConflicts(t, i, payload)
      THEN pc' = "failed" /\ UNCHANGED <<vault, spool, seen>>
      ELSE /\ vault' = PersistMemo(t, i, payload)
           /\ spool' = Observed(values)
           /\ seen' = [seen EXCEPT ![t] = i]
           /\ pc' = pc
  BY <1>4, <1>6 DEF ObserveRecord
<1> HIDE DEF t, i
<1>8. ~MemoConflicts(t, i, payload) => memo_recovery_row(vault, t, i) \in {Null, payload}
  BY DEF MemoConflicts
<1>9. i = seen[t] + 1
  BY DEF i
<1> QED BY <1>1, <1>3, <1>5, <1>7, <1>8, <1>9

-----------------------------------------------------------------------------
(* Pass 1.                                                                 *)

LEMMA SpoolStep ==
  ASSUME StageInv, MemoInv, SpoolInv, Next
  PROVE  SpoolInv'
<1>1. \A d : IsDay(d)' <=> IsDay(d)
  BY Frame, SameSource
<1>2. CASE spool' = spool
  BY <1>1, <1>2 DEF SpoolInv
<1>3. CASE Retry
  <2>1. spool' = NoObservations
    BY <1>3 DEF Retry
  <2> QED BY <2>1 DEF SpoolInv, NoObservations
<1>4. CASE ObserveRecord
  <2>1. PICK t \in Tables : \E i \in Rows(t) :
           /\ Source[t][i].values = [f \in case.fields[t] |-> Value(t, i, f)]
           /\ spool' = spool \/ spool' = Observed(Source[t][i].values)
    BY <1>4, ObserveEffect
  <2>2. PICK i \in Rows(t) :
           /\ Source[t][i].values = [f \in case.fields[t] |-> Value(t, i, f)]
           /\ spool' = spool \/ spool' = Observed(Source[t][i].values)
    BY <2>1
  <2> DEFINE values == Source[t][i].values
  <2>3. DOMAIN values = case.fields[t] /\ \A f \in case.fields[t] : values[f] = Value(t, i, f)
    BY <2>2
  <2> HIDE DEF values
  <2>4. ASSUME spool' = Observed(values)
        PROVE  /\ \A x \in spool'.text : x \in spool.text \/ x \notin {Null, ""}
               /\ \A x \in spool'.key : x \in spool.key \/ x # Null
               /\ \A x \in spool'.days : \/ x \in spool.days
                                         \/ x # Null /\ "date" \in DOMAIN values /\ x = values["date"]
    BY <2>4 DEF Observed
  <2>5. ASSUME spool' = Observed(values), NEW x \in spool'.days PROVE IsDay(x)
    BY <2>3, <2>4, <2>5 DEF IsDay, SpoolInv
  <2>6. CASE spool' = Observed(values)
    BY <1>1, <2>4, <2>5, <2>6 DEF SpoolInv
  <2> QED BY <1>2, <2>2, <2>6 DEF values
<1> QED BY <1>2, <1>3, <1>4, WhoChanges

\* Which steps change which rows of the vault.
LEMMA WhoChangesRows ==
  ASSUME StageInv, Next, ~ChangeOutside
  PROVE  /\ vault'.memo # vault.memo => ObserveRecord
         /\ vault'.text # vault.text => FinalizeText
         /\ vault'.key # vault.key => FinalizeNumeric
         /\ vault'.offset # vault.offset => FinalizeTemporal
         /\ vault'.domains # vault.domains => FinalizeText \/ FinalizeNumeric \/ FinalizeTemporal
         /\ vault'.ledger # vault.ledger \/ vault'.tables # vault.tables =>
               RegisterMemoStructure \/ RegisterTransformFields
         /\ vault'.operation # vault.operation => Publish
<1> USE DEF StageInv
<1>1. CASE RegisterMemoStructure BY <1>1 DEF RegisterMemoStructure, Register
<1>2. CASE ObserveRecord BY <1>2 DEF ObserveRecord, PersistMemo
<1>3. CASE FinalizeText BY <1>3 DEF FinalizeText, AddDomain
<1>4. CASE FinalizeNumeric BY <1>4 DEF FinalizeNumeric, AddDomain
<1>5. CASE FinalizeTemporal BY <1>5 DEF FinalizeTemporal, AddDomain
<1>6. CASE RegisterTransformFields BY <1>6 DEF RegisterTransformFields, Register
<1>7. CASE Publish BY <1>7 DEF Publish
<1> QED BY <1>1, <1>2, <1>3, <1>4, <1>5, <1>6, <1>7, WhoChanges

\* The order of the stages.
LEMMA WhoComesFrom ==
  ASSUME StageInv, Next
  PROVE  /\ pc' \in PastScan => pc \in PastScan \/ ScanEnds
         /\ pc' \in Registered => pc \in Registered \/ RegisterTransformFields
         /\ pc' \in {"temporal", "ledger"} => pc \in {"temporal", "ledger"} \/ FinalizeNumeric
         /\ pc' \in After => pc \in After \/ Publish
         /\ pc' = "write" => pc = "write" \/ PersistedOffset
         /\ pc' \in Before => pc \in Before
         /\ pc' \in EngineSteps \ {"write"} => pc \in EngineSteps \ {"write"} \/ Retry
         /\ pc \in Registered /\ pc' \in Registered => ~RegisterTransformFields
<1> USE DEF StageInv, PastScan, Registered, After, Before, Recovering, EngineSteps
<1>1. CASE RegisterMemoStructure \/ ObserveRecord \/ ScanEnds
  BY <1>1 DEF RegisterMemoStructure, ObserveRecord, ScanEnds, RegisterTransformFields
<1>2. CASE FinalizeText BY <1>2 DEF FinalizeText, RegisterTransformFields
<1>3. CASE FinalizeNumeric BY <1>3 DEF FinalizeNumeric, RegisterTransformFields
<1>4. CASE FinalizeTemporal BY <1>4 DEF FinalizeTemporal, RegisterTransformFields
<1>5. CASE RegisterTransformFields \/ PersistedOffset
  BY <1>5 DEF RegisterTransformFields, PersistedOffset
<1>6. CASE \E t \in Tables : WriteTable(t) BY <1>6 DEF WriteTable, RegisterTransformFields
<1>7. CASE Publish \/ RunFails \/ Retry BY <1>7 DEF Publish, RunFails, Retry, RegisterTransformFields
<1>8. CASE ChangeOutside BY <1>8 DEF ChangeOutside, engine, RegisterTransformFields
<1>9. CASE VerifyDataset BY <1>9 DEF VerifyDataset, engine, RegisterTransformFields
<1>10. CASE \E place \in {Place, "copy"} : ValidateAuthority(place)
  BY <1>10 DEF ValidateAuthority, RegisterTransformFields
<1>11. CASE \E t \in Tables : RecoverTable(t) BY <1>11 DEF RecoverTable, RegisterTransformFields
<1>12. CASE TablesRecovered \/ VerifyStaged \/ PromoteRecovery
  BY <1>12 DEF TablesRecovered, VerifyStaged, PromoteRecovery, RegisterTransformFields
<1> QED
  BY <1>1, <1>2, <1>3, <1>4, <1>5, <1>6, <1>7, <1>8, <1>9, <1>10, <1>11, <1>12 DEF Next

\* The memo rows after a record was read.
LEMMA MemoEffect ==
  ASSUME StageInv, NEW t, NEW i, NEW payload, vault' = PersistMemo(t, i, payload)
  PROVE  /\ \A x \in DOMAIN vault.memo : x \in DOMAIN vault'.memo /\ vault'.memo[x] = vault.memo[x]
         /\ payload # Null => <<t, i>> \in DOMAIN vault'.memo
         /\ \A x \in DOMAIN vault'.memo : x \in DOMAIN vault.memo \/ x = <<t, i>>
         /\ <<t, i>> \in DOMAIN vault'.memo /\ <<t, i>> \notin DOMAIN vault.memo =>
               vault'.memo[<<t, i>>] = payload
<1>1. CASE payload = Null \/ <<t, i>> \in DOMAIN vault.memo
  BY <1>1 DEF PersistMemo
<1>2. CASE ~(payload = Null \/ <<t, i>> \in DOMAIN vault.memo)
  <2>1. vault'.memo = [x \in DOMAIN vault.memo \cup {<<t, i>>} |->
                         IF x \in DOMAIN vault.memo THEN vault.memo[x] ELSE payload]
    BY <1>2 DEF PersistMemo, StageInv
  <2> QED BY <1>2, <2>1
<1> QED BY <1>1, <1>2

LEMMA MemoStep ==
  ASSUME StageInv, MemoInv, Next
  PROVE  MemoInv'
<1>1. Tables' = Tables /\ Source' = Source /\ case' = case
  BY Frame, SameSource
<1>2. seen \in [Tables -> Nat]
  BY DEF MemoInv
<1>3. \A t \in Tables : Len(Source[t]) \in Nat
  BY SequenceDomain DEF StageInv, SourceIsWellFormed
<1>4. seen' \in [Tables -> Nat]
  <2>1. CASE Retry
    BY <2>1 DEF Retry
  <2>2. CASE ObserveRecord
    <3>1. seen' = seen \/ \E t \in Tables : \E i \in Rows(t) : seen' = [seen EXCEPT ![t] = i]
      BY <2>2, ObserveEffect
    <3> QED BY <1>2, <1>3, <3>1 DEF Rows
  <2> QED BY <1>2, <2>1, <2>2, WhoChanges
<1>5. ASSUME pc' \in PastScan PROVE \A t \in Tables : seen'[t] >= Len(Source[t])
  <2>1. CASE ScanEnds
    <3>1. pc \in Before /\ CurrentTable = 0 /\ seen' = seen
      BY <2>1 DEF ScanEnds, Before, EngineSteps
    <3> QED BY <3>1, CurrentRecord
  <2>2. CASE pc \in PastScan
    <3>1. seen' = seen
      <4>1. ~Retry /\ ~ObserveRecord
        BY <2>2 DEF Retry, ObserveRecord, PastScan, After, Recovering
      <4> QED BY <4>1, WhoChanges
    <3> QED BY <2>2, <3>1 DEF MemoInv
  <2> QED BY <1>5, <2>1, <2>2, WhoComesFrom
<1>6. ASSUME "vault" \notin faults', NEW t \in Tables, NEW i \in Rows(t), "memo" \in case.fields[t],
             i <= seen'[t], Value(t, i, "memo") # Null
      PROVE  <<t, i>> \in DOMAIN vault'.memo
  <2>1. "vault" \notin faults
    BY <1>6, FaultsGrow
  <2>2. i <= seen[t] => <<t, i>> \in DOMAIN vault.memo
    BY <1>6, <2>1 DEF MemoInv
  <2>3. CASE Retry
    BY <1>3, <1>6, <2>3 DEF Retry, Rows
  <2>4. CASE ObserveRecord
    <3>1. CASE UNCHANGED <<vault, seen>>
      BY <1>6, <2>2, <3>1
    <3>2. CASE ~UNCHANGED <<vault, seen>>
      <4>1. PICK u \in Tables : \E j \in Rows(u) :
               LET payload == IF "memo" \in case.fields[u] THEN Value(u, j, "memo") ELSE Null
               IN /\ j = seen[u] + 1
                  /\ vault' = PersistMemo(u, j, payload)
                  /\ seen' = [seen EXCEPT ![u] = j]
        BY <2>4, <3>2, ObserveEffect
      <4> DEFINE payload(j) == IF "memo" \in case.fields[u] THEN Value(u, j, "memo") ELSE Null
      <4>2. PICK j \in Rows(u) : /\ j = seen[u] + 1
                                 /\ vault' = PersistMemo(u, j, payload(j))
                                 /\ seen' = [seen EXCEPT ![u] = j]
        BY <4>1
      <4>3. CASE t = u /\ i = j
        <5>1. payload(j) # Null
          BY <1>6, <4>3
        <5> QED BY <4>2, <4>3, <5>1, MemoEffect
      <4>4. CASE ~(t = u /\ i = j)
        <5>1. i <= seen[t]
          <6>1. i \in Nat /\ j \in Nat /\ seen[t] \in Nat /\ seen[u] \in Nat
            BY <1>2, <1>3 DEF Rows
          <6>2. seen'[t] = IF t = u THEN j ELSE seen[t]
            BY <1>2, <4>2
          <6> QED BY <1>6, <4>2, <4>4, <6>1, <6>2
        <5> QED BY <2>2, <4>2, <5>1, MemoEffect
      <4> QED BY <4>3, <4>4
    <3> QED BY <3>1, <3>2
  <2>5. CASE ~Retry /\ ~ObserveRecord
    <3>1. seen' = seen
      BY <2>5, WhoChanges
    <3>2. vault'.memo = vault.memo
      BY <1>6, <2>5, FaultsGrow, WhoChangesRows
    <3> QED BY <1>6, <2>2, <3>1, <3>2
  <2> QED BY <2>3, <2>4, <2>5
<1>7. \A t : Rows(t)' = Rows(t) /\ \A i, f : Value(t, i, f)' = Value(t, i, f)
  BY <1>1 DEF Rows, Value
<1> QED BY <1>1, <1>4, <1>5, <1>6, <1>7 DEF MemoInv

-----------------------------------------------------------------------------
(* The rows of the vault.                                                  *)

Domains == {TextDomain, KeyDomain, TemporalDomain}

\* A domain stays, or is created with its kind; the temporal one only when
\* pass 1 has seen a day.
LEMMA DomainEffect ==
  ASSUME StageInv, Next, ~ChangeOutside
  PROVE  /\ DOMAIN vault.domains \subseteq DOMAIN vault'.domains
         /\ \A d \in DOMAIN vault'.domains :
               \/ d \in DOMAIN vault.domains /\ vault'.domains[d] = vault.domains[d]
               \/ d \in Domains /\ vault'.domains[d] = Kind(d)
         /\ TemporalDomain \in DOMAIN vault'.domains \ DOMAIN vault.domains => spool.days # {}
<1> DEFINE Goal == /\ DOMAIN vault.domains \subseteq DOMAIN vault'.domains
                   /\ \A d \in DOMAIN vault'.domains :
                         \/ d \in DOMAIN vault.domains /\ vault'.domains[d] = vault.domains[d]
                         \/ d \in Domains /\ vault'.domains[d] = Kind(d)
                   /\ TemporalDomain \in DOMAIN vault'.domains \ DOMAIN vault.domains => spool.days # {}
           Added(e, kind) == vault'.domains = [x \in DOMAIN vault.domains \cup {e} |->
                                                 IF x = e THEN kind ELSE vault.domains[x]]
<1> SUFFICES Goal
  OBVIOUS
<1>1. ASSUME NEW e \in Domains, Added(e, Kind(e)), e = TemporalDomain => spool.days # {}
      PROVE  Goal
  BY <1>1
<1>2. CASE vault'.domains = vault.domains
  BY <1>2
<1>3. CASE FinalizeText
  <2>1. vault'.domains = vault.domains \/ Added(TextDomain, "TEXT")
    BY <1>3 DEF FinalizeText, AddDomain, StageInv
  <2> HIDE DEF Added, Goal
  <2> QED BY <1>1, <1>2, <2>1 DEF Kind, Domains, TextDomain, KeyDomain, TemporalDomain
<1>4. CASE FinalizeNumeric
  <2>1. vault'.domains = vault.domains \/ Added(KeyDomain, "NUMERIC_KEY")
    BY <1>4 DEF FinalizeNumeric, AddDomain, StageInv
  <2> HIDE DEF Added, Goal
  <2> QED BY <1>1, <1>2, <2>1 DEF Kind, Domains, TextDomain, KeyDomain, TemporalDomain
<1>5. CASE FinalizeTemporal
  <2>1. vault'.domains = vault.domains \/ (Added(TemporalDomain, "TEMPORAL") /\ spool.days # {})
    BY <1>5 DEF FinalizeTemporal, AddDomain, StageInv
  <2> HIDE DEF Added, Goal
  <2> QED BY <1>1, <1>2, <2>1 DEF Kind, Domains, TextDomain, KeyDomain, TemporalDomain
<1> HIDE DEF Goal, Added
<1> QED BY <1>2, <1>3, <1>4, <1>5, WhoChangesRows

\* A new row of the ledger says what run.py decides.
LEMMA LedgerRowType ==
  ASSUME NEW v, NEW f
  PROVE  LedgerRow(v, f) \in [action : {Action(f), "KEEP"}, domain : {Null, DomainOf(f)},
                              factsAgree : BOOLEAN]
<1>1. DirectiveDomain(v, f) \in {Null, DomainOf(f)}
  BY DEF DirectiveDomain, DomainOf
<1> QED BY <1>1 DEF LedgerRow

LEMMA LedgerEffect ==
  ASSUME StageInv, NEW pairs \in SUBSET Pairs, vault' = Register(vault, pairs)
  PROVE  /\ DOMAIN vault'.ledger = DOMAIN vault.ledger \cup pairs
         /\ \A p \in DOMAIN vault.ledger : vault'.ledger[p] = vault.ledger[p]
         /\ \A p \in pairs : p \notin DOMAIN vault.ledger => vault'.ledger[p] = LedgerRow(vault, p[2])
         /\ vault'.tables = vault.tables \cup {p[1] : p \in pairs}
<1>1. vault'.ledger = [p \in DOMAIN vault.ledger \cup pairs |->
                         IF p \in DOMAIN vault.ledger THEN vault.ledger[p] ELSE LedgerRow(vault, p[2])]
  BY DEF Register, StageInv
<1>2. vault'.tables = vault.tables \cup {p[1] : p \in pairs}
  BY DEF Register, StageInv
<1> QED BY <1>1, <1>2

\* The two registrations.
LEMMA LedgerStep ==
  ASSUME StageInv, Next, vault'.ledger # vault.ledger, ~ChangeOutside
  PROVE  \E pairs \in SUBSET Pairs : vault' = Register(vault, pairs)
BY WhoChangesRows DEF RegisterMemoStructure, RegisterTransformFields, MemoPairs

\* A day of the source is a number.
LEMMA DaysAreNumbers ==
  ASSUME StageInv, NEW d, IsDay(d)
  PROVE  d \in Int
<1>1. PICK t \in Tables : "date" \in case.fields[t] /\ \E i \in Rows(t) : Value(t, i, "date") = d
  BY DEF IsDay
<1>2. PICK i \in Rows(t) : Value(t, i, "date") = d
  BY <1>1
<1>3. Value(t, i, "date") = Null \/ Value(t, i, "date") \in Int
  BY <1>1 DEF StageInv, SourceIsWellFormed
<1> QED BY <1>2, <1>3 DEF IsDay

LEMMA LooseStep ==
  ASSUME StageInv, SpoolInv, LooseInv, TightInv, Next
  PROVE  LooseInv'
<1>1. /\ case' = case /\ Tables' = Tables /\ Pairs' = Pairs
      /\ \A d : IsDay(d)' <=> IsDay(d)
  BY Frame, SameSource
<1>2. DOMAIN vault = {"id", "dataset", "tables", "ledger", "domains", "text", "key", "memo",
                      "offset", "operation"}
  BY DEF StageInv
<1>3. CASE ChangeOutside /\ vault' # vault
  <2>1. LooseChange(vault')
    BY <1>2, <1>3, FaultsGrow, ChangedVault
  <2>2. \A r \in vault'.text : r[2] \in TokensOf["text"]
    BY <2>1 DEF LooseChange, LooseInv
  <2>3. \A d \in DOMAIN vault'.domains : /\ d \in Domains
                                         /\ vault'.domains[d] \in {Kind(d), "BOGUS"}
    BY <2>1 DEF LooseChange, LooseInv, Domains
  <2>4. TemporalDomain \in DOMAIN vault'.domains => \E d \in Int : IsDay(d)
    BY <2>1 DEF LooseChange, LooseInv
  <2>5. vault'.offset = Null \/ vault'.offset \in Int
    BY <2>1 DEF LooseChange, LooseInv
  <2>6. ASSUME NEW p \in DOMAIN vault'.ledger
        PROVE  /\ p \in Pairs
               /\ vault'.ledger[p] \in [action : {Action(p[2]), "KEEP"}, domain : {Null, DomainOf(p[2])},
                                        factsAgree : BOOLEAN]
               /\ vault'.ledger[p].action = "SHIFT_REVERSIBLE" =>
                     /\ vault.ledger[p].action = "SHIFT_REVERSIBLE"
                     /\ vault'.ledger[p].domain = vault.ledger[p].domain
    <3> DEFINE T == [action : {Action(p[2]), "KEEP"}, domain : {Null, DomainOf(p[2])},
                     factsAgree : BOOLEAN]
    <3>1. p \in Pairs /\ vault.ledger[p] \in T /\ LooseRow(vault'.ledger[p], vault.ledger[p])
      BY <2>1 DEF LooseChange, LooseInv
    <3> QED BY <3>1 DEF LooseRow
  <2>7. ASSUME pc' \in After
        PROVE  /\ vault'.tables = Tables
               /\ \A p \in DOMAIN vault'.ledger :
                     vault'.ledger[p].action = "SHIFT_REVERSIBLE" => vault'.ledger[p].domain = TemporalDomain
    <3>1. pc \in After
      BY <1>3 DEF ChangeOutside, After
    <3> QED BY <2>1, <2>6, <3>1 DEF LooseInv, LooseChange
  <2>8. vault'.tables \subseteq Tables
    BY <2>1 DEF LooseInv, LooseChange
  <2> QED BY <1>1, <2>2, <2>3, <2>4, <2>5, <2>6, <2>7, <2>8 DEF LooseInv, Domains
<1>4. CASE ~ChangeOutside \/ vault' = vault
  <2>0. vault' = vault \/ ~ChangeOutside
    BY <1>4
  <2>1. \A r \in vault'.text : r[2] \in TokensOf["text"]
    <3>1. CASE FinalizeText
      <4>1. vault'.text = vault.text \/ \E o : \E p \in TokensOf["text"] : vault'.text = vault.text \cup {<<o, p>>}
        BY <1>2, <3>1 DEF FinalizeText, FreeTokens, AddDomain
      <4> QED BY <4>1 DEF LooseInv
    <3>2. CASE vault'.text = vault.text
      BY <3>2 DEF LooseInv
    <3> QED BY <2>0, <3>1, <3>2, WhoChangesRows
  <2>2. \A d \in DOMAIN vault'.domains : /\ d \in Domains
                                         /\ vault'.domains[d] \in {Kind(d), "BOGUS"}
    BY <2>0, DomainEffect DEF LooseInv, Domains
  <2>3. TemporalDomain \in DOMAIN vault'.domains => \E d \in Int : IsDay(d)
    <3>1. spool.days # {} => \E d \in Int : IsDay(d)
      BY DaysAreNumbers DEF SpoolInv
    <3> QED BY <2>0, <3>1, DomainEffect DEF LooseInv
  <2>4. vault'.offset = Null \/ vault'.offset \in Int
    <3>1. CASE FinalizeTemporal
      <4>1. vault'.offset = vault.offset \/ vault'.offset \in FeasibleOffsets(Min(spool.days), Max(spool.days))
        BY <1>2, <3>1 DEF FinalizeTemporal, AddDomain
      <4>2. FeasibleOffsets(Min(spool.days), Max(spool.days)) \subseteq Int
        BY DEF FeasibleOffsets
      <4> QED BY <4>1, <4>2 DEF LooseInv
    <3> QED BY <2>0, <3>1, WhoChangesRows DEF LooseInv
  <2>5. ASSUME NEW p \in DOMAIN vault'.ledger
        PROVE  /\ p \in Pairs
               /\ vault'.ledger[p] \in [action : {Action(p[2]), "KEEP"}, domain : {Null, DomainOf(p[2])},
                                        factsAgree : BOOLEAN]
    <3>1. CASE vault'.ledger = vault.ledger
      BY <3>1 DEF LooseInv
    <3>2. CASE vault'.ledger # vault.ledger
      <4>1. PICK pairs \in SUBSET Pairs : vault' = Register(vault, pairs)
        BY <2>0, <3>2, LedgerStep
      <4>2. \/ p \in DOMAIN vault.ledger /\ vault'.ledger[p] = vault.ledger[p]
            \/ p \in Pairs /\ vault'.ledger[p] = LedgerRow(vault, p[2])
        BY <4>1, LedgerEffect
      <4> QED BY <4>2, LedgerRowType DEF LooseInv
    <3> QED BY <3>1, <3>2
  <2>6. ASSUME pc' \in After
        PROVE  /\ vault'.tables = Tables
               /\ \A p \in DOMAIN vault'.ledger :
                     vault'.ledger[p].action = "SHIFT_REVERSIBLE" => vault'.ledger[p].domain = TemporalDomain
    <3>1. ~RegisterMemoStructure /\ ~RegisterTransformFields
      BY <2>6 DEF RegisterMemoStructure, RegisterTransformFields, After, Recovering
    <3>2. vault'.tables = vault.tables /\ vault'.ledger = vault.ledger
      BY <2>0, <3>1, WhoChangesRows
    <3>3. CASE pc \in After
      BY <3>2, <3>3 DEF LooseInv
    <3>4. CASE Publish
      <4>1. pc = "write" /\ "vault" \notin faults
        BY <3>4 DEF Publish, StageInv, Before, EngineSteps
      <4>2. /\ vault.tables = Tables
            /\ \A p \in Pairs : vault.ledger[p] = LedgerRow(vault, p[2])
            /\ TemporalPresent => TemporalDomain \in DOMAIN vault.domains
        BY <4>1 DEF TightInv, Registered
      <4>3. ASSUME NEW p \in DOMAIN vault.ledger, vault.ledger[p].action = "SHIFT_REVERSIBLE"
            PROVE  vault.ledger[p].domain = TemporalDomain
        <5>1. p \in Pairs
          BY DEF LooseInv
        <5>2. vault.ledger[p] = LedgerRow(vault, p[2])
          BY <4>2, <5>1
        <5>3. Action(p[2]) = "SHIFT_REVERSIBLE"
          BY <4>3, <5>2 DEF LedgerRow
        <5>4. p[2] = "date"
          BY <5>3 DEF Action
        <5>5. TemporalPresent
          BY <5>1, <5>4 DEF TemporalPresent, Pairs
        <5> QED BY <4>2, <5>2, <5>4, <5>5 DEF LedgerRow, DirectiveDomain
      <4> QED BY <3>2, <4>2, <4>3
    <3> QED BY <2>6, <3>3, <3>4, WhoComesFrom
  <2>7. vault'.tables \subseteq Tables
    <3>1. CASE vault'.tables = vault.tables
      BY <3>1 DEF LooseInv
    <3>2. CASE RegisterMemoStructure \/ RegisterTransformFields
      <4>1. \E pairs \in SUBSET Pairs : vault'.tables = vault.tables \cup {p[1] : p \in pairs}
        BY <3>2, LedgerEffect DEF RegisterMemoStructure, RegisterTransformFields, MemoPairs
      <4>2. \A p \in Pairs : p[1] \in Tables
        BY DEF Pairs
      <4> QED BY <4>1, <4>2 DEF LooseInv
    <3> QED BY <2>0, <3>1, <3>2, WhoChangesRows
  <2> QED BY <1>1, <2>1, <2>2, <2>3, <2>4, <2>5, <2>6, <2>7 DEF LooseInv, Domains
<1> QED BY <1>3, <1>4

\* One more row with a free pseudonym.
LEMMA AddRow ==
  ASSUME NEW rows, NEW tokens, IsMapping(rows, tokens), NEW o, o # Null,
         \A r \in rows : r[1] # o, NEW p \in FreeTokens(rows, tokens, o)
  PROVE  IsMapping(rows \cup {<<o, p>>}, tokens)
<1>1. IsFiniteSet(rows \cup {<<o, p>>})
  BY FS_AddElement DEF IsMapping
<1>2. p \in tokens /\ p # o /\ \A r \in rows : r[2] # p
  BY DEF FreeTokens
<1> QED BY <1>1, <1>2 DEF IsMapping

\* What the finalizers add to the mapping rows.
LEMMA TextEffect ==
  ASSUME StageInv, FinalizeText
  PROVE  \/ vault'.text = vault.text
         \/ /\ TextDomain \in DOMAIN vault.domains
            /\ \E o \in spool.text : /\ \A r \in vault.text : r[1] # o
                                     /\ \E p \in FreeTokens(vault.text, TokensOf["text"], o) :
                                           vault'.text = vault.text \cup {<<o, p>>}
BY DEF FinalizeText, AddDomain, Unmapped, StageInv

LEMMA KeyEffect ==
  ASSUME StageInv, FinalizeNumeric
  PROVE  \/ vault'.key = vault.key
         \/ \E o \in spool.key : /\ \A r \in vault.key : r[1] # o
                                 /\ \E p \in FreeTokens(vault.key, TokensOf["key"], o) :
                                       vault'.key = vault.key \cup {<<o, p>>}
BY DEF FinalizeNumeric, AddDomain, Unmapped, StageInv

\* The offset and its domain come together.
LEMMA OffsetEffect ==
  ASSUME StageInv, Next, ~ChangeOutside
  PROVE  \/ /\ vault'.offset = vault.offset
            /\ TemporalDomain \in DOMAIN vault'.domains <=> TemporalDomain \in DOMAIN vault.domains
         \/ /\ vault'.offset \in Int \ {0}
            /\ TemporalDomain \in DOMAIN vault'.domains
<1> DEFINE Goal == \/ /\ vault'.offset = vault.offset
                      /\ TemporalDomain \in DOMAIN vault'.domains <=> TemporalDomain \in DOMAIN vault.domains
                   \/ /\ vault'.offset \in Int \ {0}
                      /\ TemporalDomain \in DOMAIN vault'.domains
<1> SUFFICES Goal
  OBVIOUS
<1>1. CASE FinalizeText
  BY <1>1 DEF FinalizeText, AddDomain, StageInv, TextDomain, TemporalDomain
<1>2. CASE FinalizeNumeric
  BY <1>2 DEF FinalizeNumeric, AddDomain, StageInv, KeyDomain, TemporalDomain
<1>3. CASE FinalizeTemporal
  <2>1. \/ vault' = vault
        \/ \E offset \in FeasibleOffsets(Min(spool.days), Max(spool.days)) :
              vault' = [AddDomain(vault, TemporalDomain, "TEMPORAL") EXCEPT !.offset = offset]
    BY <1>3 DEF FinalizeTemporal
  <2>2. FeasibleOffsets(Min(spool.days), Max(spool.days)) \subseteq Int \ {0}
    BY DEF FeasibleOffsets
  <2>3. ASSUME NEW offset \in FeasibleOffsets(Min(spool.days), Max(spool.days)),
               vault' = [AddDomain(vault, TemporalDomain, "TEMPORAL") EXCEPT !.offset = offset]
        PROVE  vault'.offset = offset /\ TemporalDomain \in DOMAIN vault'.domains
    BY <2>3 DEF AddDomain, StageInv
  <2>4. CASE vault' = vault
    BY <2>4
  <2>5. CASE vault' # vault
    BY <2>1, <2>2, <2>3, <2>5
  <2> QED BY <2>4, <2>5
<1> HIDE DEF Goal
<1>4. CASE vault'.offset = vault.offset /\ vault'.domains = vault.domains
  BY <1>4 DEF Goal
<1> QED BY <1>1, <1>2, <1>3, <1>4, WhoChangesRows

\* Every table has a field, so the registration names every table.
LEMMA TablesOfPairs ==
  ASSUME StageInv
  PROVE  {p[1] : p \in Pairs} = Tables
<1>1. \A t \in Tables : case.fields[t] \subseteq Fields /\ case.fields[t] # {}
  BY ScenarioAssumption DEF StageInv, Tables
<1>2. ASSUME NEW t \in Tables PROVE t \in {p[1] : p \in Pairs}
  <2>1. PICK f \in case.fields[t] : f \in Fields
    BY <1>1
  <2>2. <<t, f>> \in Pairs
    BY <2>1 DEF Pairs
  <2> QED BY <2>2
<1>3. \A p \in Pairs : p[1] \in Tables
  BY DEF Pairs
<1> QED BY <1>2, <1>3

LEMMA TightStep ==
  ASSUME StageInv, SpoolInv, LooseInv, TightInv, MemoInv, Next
  PROVE  TightInv'
<1> SUFFICES ASSUME "vault" \notin faults' PROVE TightInv'
  BY DEF TightInv
<1>1. /\ case' = case /\ Tables' = Tables /\ Pairs' = Pairs /\ Source' = Source
      /\ HasRelation' = HasRelation /\ TemporalPresent' = TemporalPresent
  BY Frame, SameSource
<1>2. "vault" \notin faults /\ (vault' = vault \/ ~ChangeOutside)
  BY FaultsGrow
<1>3. /\ IsMapping(vault.text, TokensOf["text"])
      /\ IsMapping(vault.key, TokensOf["key"])
      /\ \A r \in vault.text : r[1] # ""
      /\ vault.text # {} => TextDomain \in DOMAIN vault.domains
  BY <1>2 DEF TightInv
<1>4. DOMAIN vault.domains \subseteq DOMAIN vault'.domains
  BY <1>2, DomainEffect
<1>5. /\ IsMapping(vault'.text, TokensOf["text"])
      /\ \A r \in vault'.text : r[1] # ""
      /\ vault'.text # {} => TextDomain \in DOMAIN vault'.domains
  <2>1. CASE vault'.text = vault.text
    BY <1>3, <1>4, <2>1
  <2>2. CASE vault'.text # vault.text
    <3>1. /\ TextDomain \in DOMAIN vault.domains
          /\ \E o \in spool.text : /\ \A r \in vault.text : r[1] # o
                                   /\ \E p \in FreeTokens(vault.text, TokensOf["text"], o) :
                                         vault'.text = vault.text \cup {<<o, p>>}
      BY <1>2, <2>2, TextEffect, WhoChangesRows
    <3>2. PICK o \in spool.text : /\ \A r \in vault.text : r[1] # o
                                  /\ \E p \in FreeTokens(vault.text, TokensOf["text"], o) :
                                        vault'.text = vault.text \cup {<<o, p>>}
      BY <3>1
    <3>3. PICK p \in FreeTokens(vault.text, TokensOf["text"], o) : vault'.text = vault.text \cup {<<o, p>>}
      BY <3>2
    <3>4. o # Null /\ o # ""
      BY DEF SpoolInv
    <3>5. IsMapping(vault'.text, TokensOf["text"])
      BY <1>3, <3>2, <3>3, <3>4, AddRow, ZenonT(60)
    <3>6. ASSUME NEW r \in vault'.text PROVE r[1] # ""
      <4>1. r \in vault.text \/ r = <<o, p>>
        BY <3>3
      <4>2. CASE r \in vault.text
        BY <1>3, <4>2
      <4>3. CASE r = <<o, p>>
        <5>1. r[1] = o
          BY <4>3
        <5> QED BY <3>4, <5>1
      <4> QED BY <4>1, <4>2, <4>3
    <3> QED BY <1>4, <3>1, <3>5, <3>6
  <2> QED BY <2>1, <2>2
<1>6. IsMapping(vault'.key, TokensOf["key"])
  <2>1. CASE vault'.key = vault.key
    BY <1>3, <2>1
  <2>2. CASE vault'.key # vault.key
    <3>1. PICK o \in spool.key : /\ \A r \in vault.key : r[1] # o
                                 /\ \E p \in FreeTokens(vault.key, TokensOf["key"], o) :
                                       vault'.key = vault.key \cup {<<o, p>>}
      BY <1>2, <2>2, KeyEffect, WhoChangesRows
    <3>2. o # Null
      BY DEF SpoolInv
    <3> QED BY <1>3, <3>1, <3>2, AddRow
  <2> QED BY <2>1, <2>2
<1>7. \A d \in DOMAIN vault'.domains : vault'.domains[d] = Kind(d)
  BY <1>2, DomainEffect DEF TightInv
<1>8. vault'.offset # 0 /\ (vault'.offset # Null <=> TemporalDomain \in DOMAIN vault'.domains)
  BY <1>2, OffsetEffect, CalendarAssumption DEF TightInv
<1>9. ASSUME NEW t \in Tables, NEW i \in Rows(t), "memo" \in case.fields[t],
             <<t, i>> \in DOMAIN vault'.memo
      PROVE  vault'.memo[<<t, i>>] = Value(t, i, "memo")
  <2>1. <<t, i>> \in DOMAIN vault.memo => vault.memo[<<t, i>>] = Value(t, i, "memo")
    BY <1>2, <1>9 DEF TightInv
  <2>2. CASE vault'.memo = vault.memo
    BY <1>9, <2>1, <2>2
  <2>3. CASE vault'.memo # vault.memo
    <3>1. PICK u \in Tables : \E j \in Rows(u) :
             vault' = PersistMemo(u, j, IF "memo" \in case.fields[u] THEN Value(u, j, "memo") ELSE Null)
      BY <1>2, <2>3, WhoChangesRows, ObserveEffect
    <3> DEFINE payload(j) == IF "memo" \in case.fields[u] THEN Value(u, j, "memo") ELSE Null
    <3>2. PICK j \in Rows(u) : vault' = PersistMemo(u, j, payload(j))
      BY <3>1
    <3>3. CASE <<t, i>> \in DOMAIN vault.memo
      BY <2>1, <3>2, <3>3, MemoEffect
    <3>4. CASE <<t, i>> \notin DOMAIN vault.memo
      <4>1. <<t, i>> = <<u, j>> /\ vault'.memo[<<u, j>>] = payload(j)
        BY <1>9, <3>2, <3>4, MemoEffect
      <4>2. t = u /\ i = j
        BY <4>1
      <4> QED BY <1>9, <4>1, <4>2
    <3> QED BY <3>3, <3>4
  <2> QED BY <2>2, <2>3
<1>10. ASSUME pc' \in {"temporal", "ledger"} \cup Registered, HasRelation
       PROVE  KeyDomain \in DOMAIN vault'.domains
  <2>1. CASE pc \in {"temporal", "ledger"} \cup Registered
    BY <1>2, <1>4, <1>10, <2>1 DEF TightInv
  <2>2. CASE FinalizeNumeric /\ pc \notin {"temporal", "ledger"} \cup Registered
    <3>1. pc' # "key"
      BY <1>10 DEF Registered, After, Recovering
    <3> QED BY <1>4, <1>10, <2>2, <3>1 DEF FinalizeNumeric
  <2>3. pc \in {"temporal", "ledger"} \cup Registered \/ FinalizeNumeric
    BY <1>10, WhoComesFrom DEF RegisterTransformFields
  <2> QED BY <2>1, <2>2, <2>3
<1>11. ASSUME pc' \in Registered
       PROVE  /\ vault'.tables = Tables
              /\ Pairs \subseteq DOMAIN vault'.ledger
              /\ \A p \in Pairs : vault'.ledger[p] = LedgerRow(vault', p[2])
  <2>1. CASE pc \in Registered
    <3>1. ~RegisterMemoStructure /\ ~RegisterTransformFields /\ ~FinalizeText /\ ~FinalizeNumeric
          /\ ~FinalizeTemporal
      BY <2>1 DEF RegisterMemoStructure, RegisterTransformFields, FinalizeText, FinalizeNumeric,
                  FinalizeTemporal, Registered, After, Recovering
    <3>2. vault'.tables = vault.tables /\ vault'.ledger = vault.ledger /\ vault'.domains = vault.domains
      BY <1>2, <3>1, WhoChangesRows
    <3>3. \A f : LedgerRow(vault', f) = LedgerRow(vault, f)
      BY <3>2 DEF LedgerRow, DirectiveDomain
    <3> QED BY <1>2, <2>1, <3>2, <3>3 DEF TightInv
  <2>2. CASE RegisterTransformFields
    <3>1. pc' = "offset" /\ RegistersAgree(vault, Pairs) /\ vault' = Register(vault, Pairs)
      BY <1>11, <2>2 DEF RegisterTransformFields, Registered, After, Recovering
    <3>2. vault'.domains = vault.domains
      <4>1. ~FinalizeText /\ ~FinalizeNumeric /\ ~FinalizeTemporal
        BY <2>2 DEF FinalizeText, FinalizeNumeric, FinalizeTemporal, RegisterTransformFields
      <4> QED BY <1>2, <4>1, WhoChangesRows
    <3>3. \A f : LedgerRow(vault', f) = LedgerRow(vault, f)
      BY <3>2 DEF LedgerRow, DirectiveDomain
    <3>4. /\ DOMAIN vault'.ledger = DOMAIN vault.ledger \cup Pairs
          /\ \A p \in Pairs : vault'.ledger[p] = LedgerRow(vault, p[2])
      BY <3>1, LedgerEffect DEF RegistersAgree
    <3>5. vault'.tables = Tables
      BY <3>1, LedgerEffect, TablesOfPairs DEF LooseInv
    <3> QED BY <3>3, <3>4, <3>5
  <2> QED BY <1>11, <2>1, <2>2, WhoComesFrom
<1>12. ASSUME pc' \in {"write"} \cup After, TemporalPresent PROVE vault'.offset # Null
  <2>1. CASE pc \in {"write"} \cup After
    <3>1. ~FinalizeTemporal
      BY <2>1 DEF FinalizeTemporal, After, Recovering
    <3>2. vault'.offset = vault.offset
      BY <1>2, <3>1, WhoChangesRows
    <3> QED BY <1>2, <1>12, <2>1, <3>2 DEF TightInv
  <2>2. CASE PersistedOffset
    BY <1>12, <2>2 DEF PersistedOffset, After, Recovering
  <2>3. pc \in {"write"} \cup After \/ PersistedOffset
    BY <1>12, WhoComesFrom DEF Publish
  <2> QED BY <2>1, <2>2, <2>3
<1>13. \A t : Rows(t)' = Rows(t) /\ \A i, f : Value(t, i, f)' = Value(t, i, f)
  BY <1>1 DEF Rows, Value
<1>14. \A f : LedgerRow(vault, f)' = LedgerRow(vault', f)
  BY DEF LedgerRow, DirectiveDomain
<1> QED
  BY <1>1, <1>5, <1>6, <1>7, <1>8, <1>9, <1>10, <1>11, <1>12, <1>13 DEF TightInv

-----------------------------------------------------------------------------
(* Pass 2.                                                                 *)

\* One more table of a staging directory.
LEMMA OneMore ==
  ASSUME NEW tables, NEW t, NEW records, NEW more, more = With(tables, t, records)
  PROVE  /\ DOMAIN more = DOMAIN tables \cup {t}
         /\ more = [u \in DOMAIN more |-> more[u]]
         /\ more[t] = records
         /\ \A u \in DOMAIN tables : u # t => more[u] = tables[u]
BY DEF With

\* What pass 2 makes of a table while the source is the planned one.
LEMMA TransformedTable ==
  ASSUME StageInv, pc \in Before, NEW t \in Tables
  PROVE  /\ Transformed(t) = Pseudonymized(t)
         /\ TransformRaises(t) <=> ~HasItsRows(t)
         /\ IsSequence(Pseudonymized(t)) /\ Len(Pseudonymized(t)) = Len(Source[t])
<1>1. source.tables = Source
  BY SourceBefore
<1>2. Transformed(t) = Pseudonymized(t)
  BY <1>1 DEF Transformed, Pseudonymized, Rows, Value
<1>3. TransformRaises(t) <=> ~HasItsRows(t)
  BY <1>1 DEF TransformRaises, HasItsRows, Rows, Value
<1>4. Len(Source[t]) \in Nat
  BY SequenceDomain DEF StageInv, SourceIsWellFormed
<1>5. Pseudonymized(t) = [i \in 1..Len(Source[t]) |-> Pseudonymized(t)[i]]
  BY DEF Pseudonymized, Rows
<1> QED BY <1>2, <1>3, <1>4, <1>5, SequenceLength

\* The effect of one table on the staging directory.
LEMMA WriteEffect ==
  ASSUME StageInv, pc = "write", NEW t \in Tables, WriteTable(t)
  PROVE  \/ pc' = "failed"
         \/ /\ pc' = "write" /\ HasItsRows(t) /\ t \notin DOMAIN written
            /\ given' = With(given, t, Pseudonymized(t))
            /\ \E records : /\ written' = With(written, t, records)
                            /\ IsSequence(records)
                            /\ "writer" \in faults' \/ records = Pseudonymized(t)
<1>1. pc \in Before
  BY DEF Before, EngineSteps
<1>2. /\ Transformed(t) = Pseudonymized(t)
      /\ TransformRaises(t) <=> ~HasItsRows(t)
      /\ IsSequence(Pseudonymized(t))
  BY <1>1, TransformedTable
<1>3. \A d \in Damaged(Pseudonymized(t)) : IsSequence(d)
  BY <1>2, DamagedIsSequence
<1>4. \/ pc' = "failed"
      \/ /\ pc' = "write" /\ HasItsRows(t) /\ t \notin DOMAIN written
         /\ given' = With(given, t, Pseudonymized(t))
         /\ \/ written' = With(written, t, Pseudonymized(t))
            \/ /\ "writer" \in faults'
               /\ \E records \in Damaged(Pseudonymized(t)) : written' = With(written, t, records)
  BY <1>2 DEF WriteTable, Fault
<1> QED BY <1>2, <1>3, <1>4, Zenon

\* The rows pass 2 reads depend on the mapping rows only.
LEMMA SameRows ==
  ASSUME case' = case, Source' = Source, vault'.text = vault.text, vault'.key = vault.key,
         vault'.offset = vault.offset
  PROVE  \A t : Pseudonymized(t)' = Pseudonymized(t) /\ HasItsRows(t)' = HasItsRows(t)
<1>1. \A t : Rows(t)' = Rows(t) /\ \A i, f : Value(t, i, f)' = Value(t, i, f)
  BY DEF Rows, Value
<1>2. \A f, v : Image(vault', f, v) = Image(vault, f, v)
  BY DEF Image
<1>3. \A f, v : MappingMissing(vault', f, v) = MappingMissing(vault, f, v)
  BY DEF MappingMissing
<1>4. \A t : Pseudonymized(t)' = Pseudonymized(t)
  BY <1>1, <1>2 DEF Pseudonymized
<1>5. \A t : HasItsRows(t)' = HasItsRows(t)
  BY <1>1, <1>3 DEF HasItsRows
<1> QED BY <1>4, <1>5

LEMMA WriteStep ==
  ASSUME StageInv, WriteInv, Next
  PROVE  WriteInv'
<1>1. case' = case /\ Tables' = Tables /\ Source' = Source
  BY Frame, SameSource
<1>2. ASSUME pc' \in EngineSteps \ {"write"}
      PROVE  written' = EmptyFunction /\ given' = EmptyFunction
  <2>1. CASE Retry
    BY <2>1 DEF Retry
  <2>2. CASE ~Retry /\ pc \in EngineSteps \ {"write"}
    <3>1. ~AnyWrite
      BY <2>2 DEF AnyWrite, WriteTable, EngineSteps
    <3>2. written' = written /\ given' = given
      BY <2>2, <3>1, WhoChanges
    <3> QED BY <2>2, <3>2 DEF WriteInv
  <2> QED BY <1>2, <2>1, <2>2, WhoComesFrom
<1> DEFINE Good == /\ DOMAIN written' = DOMAIN given' /\ DOMAIN given' \subseteq Tables
                   /\ written' = [t \in DOMAIN written' |-> written'[t]]
                   /\ given' = [t \in DOMAIN given' |-> given'[t]]
                   /\ \A t \in DOMAIN given' : given'[t] = Pseudonymized(t) /\ HasItsRows(t)
                   /\ \A t \in DOMAIN written' : IsSequence(written'[t])
                   /\ "writer" \notin faults' => written' = given'
<1>3. ASSUME pc' = "write" PROVE vault' = vault /\ Good
  <2>1. CASE PersistedOffset
    <3>1. vault' = vault /\ written' = written /\ given' = given /\ pc \in EngineSteps \ {"write"}
      BY <2>1 DEF PersistedOffset, EngineSteps
    <3>2. written = EmptyFunction /\ given = EmptyFunction
      BY <3>1 DEF WriteInv
    <3>3. DOMAIN EmptyFunction = {}
      BY DEF EmptyFunction
    <3>4. EmptyFunction = [t \in {} |-> EmptyFunction[t]]
      BY DEF EmptyFunction
    <3> QED BY <3>1, <3>2, <3>3, <3>4
  <2>2. CASE pc = "write"
    <3>1. /\ DOMAIN written = DOMAIN given /\ DOMAIN given \subseteq Tables
          /\ written = [t \in DOMAIN written |-> written[t]]
          /\ given = [t \in DOMAIN given |-> given[t]]
          /\ \A t \in DOMAIN given : given[t] = Pseudonymized(t) /\ HasItsRows(t)
          /\ \A t \in DOMAIN written : IsSequence(written[t])
          /\ "writer" \notin faults => written = given
      BY <2>2 DEF WriteInv
    <3>2. vault' = vault
      <4>1. ~(\/ RegisterMemoStructure \/ ObserveRecord \/ FinalizeText
              \/ FinalizeNumeric \/ FinalizeTemporal \/ RegisterTransformFields
              \/ Publish \/ ChangeOutside)
        BY <1>3, <2>2 DEF RegisterMemoStructure, ObserveRecord, FinalizeText, FinalizeNumeric,
              FinalizeTemporal, RegisterTransformFields, Publish, ChangeOutside, Recovering
      <4> QED BY <4>1, WhoChanges
    <3>3. CASE AnyWrite
      <4>1. PICK t \in Tables : WriteTable(t)
        BY <3>3 DEF AnyWrite
      <4>2. /\ HasItsRows(t) /\ t \notin DOMAIN written
            /\ given' = With(given, t, Pseudonymized(t))
            /\ \E records : /\ written' = With(written, t, records)
                            /\ IsSequence(records)
                            /\ "writer" \in faults' \/ records = Pseudonymized(t)
        BY <1>3, <2>2, <4>1, WriteEffect
      <4>3. PICK records : /\ written' = With(written, t, records)
                           /\ IsSequence(records)
                           /\ "writer" \in faults' \/ records = Pseudonymized(t)
        BY <4>2
      <4>4. /\ DOMAIN given' = DOMAIN given \cup {t}
            /\ given' = [u \in DOMAIN given' |-> given'[u]]
            /\ given'[t] = Pseudonymized(t)
            /\ \A u \in DOMAIN given : u # t => given'[u] = given[u]
        BY <4>2, OneMore, SMTT(60)
      <4>5. /\ DOMAIN written' = DOMAIN written \cup {t}
            /\ written' = [u \in DOMAIN written' |-> written'[u]]
            /\ written'[t] = records
            /\ \A u \in DOMAIN written : u # t => written'[u] = written[u]
        <5>1. written' = With(written, t, records)
          BY <4>3
        <5> QED BY <5>1 DEF With
      <4>6. "writer" \notin faults' => written' = given'
        BY <3>1, <4>2, <4>3, FaultsGrow
      <4> QED BY <3>1, <3>2, <4>2, <4>3, <4>4, <4>5, <4>6
    <3>4. CASE ~AnyWrite
      <4>1. ~Retry
        BY <2>2 DEF Retry
      <4>2. written' = written /\ given' = given
        BY <3>4, <4>1, WhoChanges
      <4> QED BY <3>1, <3>2, <4>2, FaultsGrow
    <3> QED BY <3>3, <3>4
  <2> QED BY <1>3, <2>1, <2>2, WhoComesFrom
<1>4. ASSUME pc' = "write"
      PROVE \A t : Pseudonymized(t)' = Pseudonymized(t) /\ HasItsRows(t)' = HasItsRows(t)
  BY <1>1, <1>3, <1>4, SameRows
<1>5. pc' = "write" => Good
  BY <1>3
<1>6. ASSUME pc' = "write"
      PROVE /\ DOMAIN written' = DOMAIN given' /\ DOMAIN given' \subseteq Tables'
            /\ written' = [t \in DOMAIN written' |-> written'[t]]
            /\ given' = [t \in DOMAIN given' |-> given'[t]]
            /\ \A t \in DOMAIN given' : given'[t] = Pseudonymized(t)' /\ HasItsRows(t)'
            /\ \A t \in DOMAIN written' : IsSequence(written'[t])
            /\ "writer" \notin faults' => written' = given'
  BY <1>1, <1>4, <1>5, <1>6
<1>7. \A s : IsSequence(s)' = IsSequence(s)
  BY DEF IsSequence
<1>8. EmptyFunction' = EmptyFunction /\ EngineSteps' = EngineSteps
  BY DEF EmptyFunction, EngineSteps
<1> HIDE DEF Good
<1> QED BY <1>2, <1>6, <1>7, <1>8 DEF WriteInv

-----------------------------------------------------------------------------
(* Values and their images.                                                *)

\* A row of a mapping answers both lookups.
LEMMA RowAnswers ==
  ASSUME NEW rows, NEW tokens, IsMapping(rows, tokens), NEW r \in rows
  PROVE  Pseudonym(rows, r[1]) = r[2] /\ Original(rows, r[2]) = r[1]
<1>1. (CHOOSE s \in rows : s[1] = r[1]) = r
  <2>1. \E s \in rows : s[1] = r[1]
    OBVIOUS
  <2> DEFINE s == CHOOSE s \in rows : s[1] = r[1]
  <2>2. s \in rows /\ s[1] = r[1]
    BY <2>1
  <2> HIDE DEF s
  <2>3. s = r
    BY <2>2 DEF IsMapping
  <2> QED BY <2>3 DEF s
<1>2. (CHOOSE s \in rows : s[2] = r[2]) = r
  <2>1. \E s \in rows : s[2] = r[2]
    OBVIOUS
  <2> DEFINE s == CHOOSE s \in rows : s[2] = r[2]
  <2>2. s \in rows /\ s[2] = r[2]
    BY <2>1
  <2> HIDE DEF s
  <2>3. s = r
    BY <2>2 DEF IsMapping
  <2> QED BY <2>3 DEF s
<1> QED BY <1>1, <1>2 DEF Pseudonym, Original

\* The pseudonym of a mapped value: a token, not the value itself, and the
\* value can be had back.
LEMMA PseudonymFacts ==
  ASSUME NEW rows, NEW tokens, IsMapping(rows, tokens), NEW v, Pseudonym(rows, v) # Null
  PROVE  /\ Pseudonym(rows, v) \in tokens /\ Pseudonym(rows, v) # v /\ v # Null
         /\ Original(rows, Pseudonym(rows, v)) = v
         /\ \E r \in rows : r[1] = v /\ r[2] = Pseudonym(rows, v)
<1>1. PICK r \in rows : r[1] = v
  BY DEF Pseudonym
<1>2. Pseudonym(rows, v) = r[2] /\ Original(rows, r[2]) = v
  BY <1>1, RowAnswers
<1>3. r[2] \in tokens /\ r[1] # r[2] /\ r[1] # Null
  BY DEF IsMapping
<1> QED BY <1>1, <1>2, <1>3

LEMMA MaskFacts ==
  ASSUME NEW v
  PROVE  /\ v = Null => memo_safe_mask(v) = Null
         /\ v # Null => memo_safe_mask(v) # Null /\ memo_safe_mask(v) # v
<1>1. Null # "mask" /\ Null # "alt"
  BY NullAssumption
<1> QED BY <1>1 DEF memo_safe_mask

LEMMA ShiftFacts ==
  ASSUME NEW v, v = Null \/ v \in Int, NEW offset \in Int
  PROVE  /\ v = Null => temporal_shift(v, offset) = Null
         /\ v # Null => /\ temporal_shift(v, offset) \in Int
                        /\ temporal_shift(v, offset) # Null
                        /\ offset # 0 => temporal_shift(v, offset) # v
         /\ temporal_shift(temporal_shift(v, offset), -offset) = v
<1>1. CASE v = Null
  BY <1>1 DEF temporal_shift
<1>2. CASE v \in Int
  <2>1. v # Null /\ v + offset # Null /\ v + offset \in Int
    BY <1>2, CalendarAssumption
  <2>2. temporal_shift(v, offset) = v + offset
    BY <2>1 DEF temporal_shift
  <2>3. temporal_shift(v + offset, -offset) = v + offset + (-offset)
    BY <2>1 DEF temporal_shift
  <2>4. v + offset + (-offset) = v /\ (offset # 0 => v + offset # v)
    BY <1>2
  <2> QED BY <2>1, <2>2, <2>3, <2>4
<1> QED BY <1>1, <1>2

\* What is known of the rows while nobody has changed the vault.
Sound ==
  /\ IsMapping(vault.text, TokensOf["text"]) /\ IsMapping(vault.key, TokensOf["key"])
  /\ \A r \in vault.text : r[1] # ""
  /\ vault.offset # 0

LEMMA ImageHides ==
  ASSUME Sound, NEW f \in {"text", "key", "memo", "date"}, NEW v, ~MappingMissing(vault, f, v),
         f = "date" => (v = Null \/ v \in Int) /\ vault.offset \in Int
  PROVE  Hides(f, v, Image(vault, f, v))
<1> USE DEF Hides, CopiedAsIs
<1>1. CASE f = "text"
  <2>1. CASE v \in {Null, ""}
    BY <1>1, <2>1 DEF Image
  <2>2. CASE v \notin {Null, ""}
    <3>1. Pseudonym(vault.text, v) # Null
      BY <1>1, <2>2 DEF MappingMissing
    <3>2. Pseudonym(vault.text, v) # v
      BY <3>1, PseudonymFacts DEF Sound
    <3> QED BY <1>1, <2>2, <3>2 DEF Image
  <2> QED BY <2>1, <2>2
<1>2. CASE f = "key"
  <2>1. CASE v = Null
    BY <1>2, <2>1 DEF Image
  <2>2. CASE v # Null
    <3>1. Pseudonym(vault.key, v) # Null
      BY <1>2, <2>2 DEF MappingMissing
    <3>2. Pseudonym(vault.key, v) # v
      BY <3>1, PseudonymFacts DEF Sound
    <3> QED BY <1>2, <2>2, <3>2 DEF Image
  <2> QED BY <2>1, <2>2
<1>3. CASE f = "memo"
  BY <1>3, MaskFacts DEF Image
<1>4. CASE f = "date"
  <2>1. Image(vault, f, v) = temporal_shift(v, vault.offset)
    BY <1>4 DEF Image
  <2> QED BY <1>4, <2>1, ShiftFacts DEF Sound
<1> QED BY <1>1, <1>2, <1>3, <1>4

LEMMA ImageIsOneToOne ==
  ASSUME Sound, NEW f \in {"text", "key"}, NEW v, NEW w,
         ~MappingMissing(vault, f, v), ~MappingMissing(vault, f, w)
  PROVE  /\ (v = w) <=> (Image(vault, f, v) = Image(vault, f, w))
         /\ (v = Null) <=> (Image(vault, f, v) = Null)
<1>0. Null \notin TokensOf["text"] /\ Null \notin TokensOf["key"] /\ "" \notin TokensOf["text"] /\ Null # ""
  BY NullAssumption, TokenAssumption
<1>1. CASE f = "text"
  <2>1. ASSUME NEW x, ~MappingMissing(vault, f, x), x \notin {Null, ""}
        PROVE  /\ Image(vault, f, x) = Pseudonym(vault.text, x)
               /\ Pseudonym(vault.text, x) \notin {Null, ""}
               /\ Original(vault.text, Pseudonym(vault.text, x)) = x
    <3>1. Pseudonym(vault.text, x) # Null
      BY <1>1, <2>1 DEF MappingMissing
    <3>2. Pseudonym(vault.text, x) \in TokensOf["text"]
          /\ Original(vault.text, Pseudonym(vault.text, x)) = x
      BY <3>1, PseudonymFacts DEF Sound
    <3>3. Image(vault, f, x) = Pseudonym(vault.text, x)
      BY <1>1, <2>1 DEF Image
    <3> QED BY <1>0, <3>2, <3>3
  <2>2. ASSUME NEW x \in {Null, ""} PROVE Image(vault, f, x) = x
    BY <1>1, <2>2 DEF Image
  <2>3. CASE v \in {Null, ""} /\ w \in {Null, ""}
    BY <2>2, <2>3
  <2>4. CASE v \in {Null, ""} /\ w \notin {Null, ""}
    BY <2>1, <2>2, <2>4
  <2>5. CASE v \notin {Null, ""} /\ w \in {Null, ""}
    BY <2>1, <2>2, <2>5
  <2>6. CASE v \notin {Null, ""} /\ w \notin {Null, ""}
    BY <2>1, <2>6
  <2> QED BY <2>3, <2>4, <2>5, <2>6
<1>2. CASE f = "key"
  <2>1. ASSUME NEW x, ~MappingMissing(vault, f, x), x # Null
        PROVE  /\ Image(vault, f, x) = Pseudonym(vault.key, x)
               /\ Pseudonym(vault.key, x) # Null
               /\ Original(vault.key, Pseudonym(vault.key, x)) = x
    <3>1. Pseudonym(vault.key, x) # Null
      BY <1>2, <2>1 DEF MappingMissing
    <3>2. Original(vault.key, Pseudonym(vault.key, x)) = x
      BY <3>1, PseudonymFacts DEF Sound
    <3>3. Image(vault, f, x) = Pseudonym(vault.key, x)
      BY <1>2, <2>1 DEF Image
    <3> QED BY <3>1, <3>2, <3>3
  <2>2. Image(vault, f, Null) = Null
    BY <1>2 DEF Image
  <2>3. CASE v = Null /\ w = Null
    BY <2>2, <2>3
  <2>4. CASE v = Null /\ w # Null
    BY <2>1, <2>2, <2>4
  <2>5. CASE v # Null /\ w = Null
    BY <2>1, <2>2, <2>5
  <2>6. CASE v # Null /\ w # Null
    BY <2>1, <2>6
  <2> QED BY <2>3, <2>4, <2>5, <2>6
<1> QED BY <1>1, <1>2

\* The tables of a clean pass 2 hide, keep and relate what they should.
LEMMA CleanTables ==
  ASSUME StageInv, LooseInv, TightInv, "vault" \notin faults, pc \in {"write"} \cup After,
         \A t \in Tables : HasItsRows(t)
  PROVE  /\ Sound
         /\ FaithfulTables([t \in Tables |-> Pseudonymized(t)])
<1>1. Sound /\ (TemporalPresent => vault.offset \in Int)
  BY DEF TightInv, LooseInv, Sound
<1> DEFINE tables == [t \in Tables |-> Pseudonymized(t)]
           Out(t, i, f) == tables[t][i].values[f]
<1>2. tables = [t \in Tables |-> tables[t]]
  OBVIOUS
<1>3. \A t \in Tables : tables[t] = [i \in Rows(t) |-> tables[t][i]]
  BY DEF Pseudonymized
<1>4. \A t \in Tables : \A i \in Rows(t) :
         /\ tables[t][i].deleted = Source[t][i].deleted
         /\ \A f \in case.fields[t] : Out(t, i, f) = Image(vault, f, Value(t, i, f))
  BY DEF Pseudonymized
<1>5. \A t \in Tables : \A i \in Rows(t) : \A f \in case.fields[t] :
         ~MappingMissing(vault, f, Value(t, i, f))
  BY DEF HasItsRows
<1>6. \A t \in Tables : \A i \in Rows(t) : "date" \in case.fields[t] =>
         /\ Value(t, i, "date") = Null \/ Value(t, i, "date") \in Int
         /\ vault.offset \in Int
  BY <1>1 DEF StageInv, SourceIsWellFormed, TemporalPresent
<1> HIDE DEF tables
<1>7. ASSUME NEW t \in Tables, NEW i \in Rows(t),
             NEW f \in case.fields[t] \cap {"text", "key", "memo", "date"}
      PROVE  Hides(f, Value(t, i, f), Out(t, i, f))
  <2>1. Out(t, i, f) = Image(vault, f, Value(t, i, f))
    BY <1>4
  <2>2. ~MappingMissing(vault, f, Value(t, i, f))
    BY <1>5
  <2> HIDE DEF Out
  <2> QED BY <1>1, <1>6, <2>1, <2>2, ImageHides
<1>8. ASSUME NEW t \in Tables, NEW i \in Rows(t), "keep" \in case.fields[t]
      PROVE  Out(t, i, "keep") = Value(t, i, "keep")
  <2>1. Out(t, i, "keep") = Image(vault, "keep", Value(t, i, "keep"))
    BY <1>4, <1>8
  <2>2. \A v : Image(vault, "keep", v) = v
    BY DEF Image
  <2> HIDE DEF Out
  <2> QED BY <2>1, <2>2
<1>9. ASSUME NEW t \in Tables, NEW u \in Tables, NEW i \in Rows(t), NEW j \in Rows(u),
             NEW f \in case.fields[t] \cap case.fields[u] \cap {"text", "key"}
      PROVE  (Value(t, i, f) = Value(u, j, f)) <=> (Out(t, i, f) = Out(u, j, f))
  <2>1. Out(t, i, f) = Image(vault, f, Value(t, i, f)) /\ Out(u, j, f) = Image(vault, f, Value(u, j, f))
    BY <1>4
  <2>2. ~MappingMissing(vault, f, Value(t, i, f)) /\ ~MappingMissing(vault, f, Value(u, j, f))
    BY <1>5
  <2> HIDE DEF Out
  <2> QED BY <1>1, <2>1, <2>2, ImageIsOneToOne
<1>10. FaithfulTables(tables)
  BY <1>2, <1>3, <1>4, <1>7, <1>8, <1>9 DEF FaithfulTables
<1> QED BY <1>1, <1>10 DEF tables

-----------------------------------------------------------------------------
(* Relation evidence.                                                      *)

\* Two columns that agree on which records have equal keys and which have
\* none have the same multiplicities.
LEMMA SameProfile ==
  ASSUME NEW n \in Nat, NEW a, NEW b,
         DOMAIN a = 1..n, DOMAIN b = 1..n,
         \A i, j \in 1..n : (a[i] = a[j]) <=> (b[i] = b[j]),
         \A i \in 1..n : (a[i] = Null) <=> (b[i] = Null)
  PROVE  Profile(a) = Profile(b) /\ Nulls(a) = Nulls(b)
<1>0. DOMAIN a = 1..n /\ DOMAIN b = 1..n
  OBVIOUS
<1>1. Nulls(a) = Nulls(b)
  <2>1. {i \in DOMAIN a : a[i] = Null} = {i \in DOMAIN b : b[i] = Null}
    BY <1>0
  <2> QED BY <2>1 DEF Nulls
<1>2. \A i \in 1..n : Occurrences(a, a[i]) = Occurrences(b, b[i])
  <2> SUFFICES ASSUME NEW i \in 1..n PROVE Occurrences(a, a[i]) = Occurrences(b, b[i])
    OBVIOUS
  <2>1. {j \in DOMAIN a : a[j] = a[i]} = {j \in DOMAIN b : b[j] = b[i]}
    BY <1>0
  <2> QED BY <2>1 DEF Occurrences
<1>3. ASSUME NEW m \in 1..MaxRecords
      PROVE  Cardinality({k \in Distinct(a) : Occurrences(a, k) = m})
             = Cardinality({k \in Distinct(b) : Occurrences(b, k) = m})
  <2> DEFINE A == {k \in Distinct(a) : Occurrences(a, k) = m}
             B == {k \in Distinct(b) : Occurrences(b, k) = m}
             First(k) == CHOOSE i \in 1..n : a[i] = k
             f == [k \in A |-> b[First(k)]]
  <2>1. \A k \in A : First(k) \in 1..n /\ a[First(k)] = k /\ k # Null
    <3>1. \A k \in A : k # Null /\ \E i \in 1..n : a[i] = k
      BY <1>0 DEF Distinct, Range
    <3> QED BY <3>1
  <2>2. \A k \in A : f[k] \in B
    <3> SUFFICES ASSUME NEW k \in A PROVE b[First(k)] \in B
      OBVIOUS
    <3>1. First(k) \in 1..n /\ a[First(k)] = k /\ k # Null /\ Occurrences(a, k) = m
      BY <2>1
    <3> HIDE DEF First
    <3>2. b[First(k)] # Null /\ Occurrences(b, b[First(k)]) = m
      BY <1>2, <3>1
    <3>3. b[First(k)] \in Range(b)
      BY <1>0, <3>1 DEF Range
    <3> QED BY <3>2, <3>3 DEF Distinct
  <2>3. \A x, y \in A : f[x] = f[y] => x = y
    <3> SUFFICES ASSUME NEW x \in A, NEW y \in A, f[x] = f[y] PROVE x = y
      BY Zenon
    <3>0. f[x] = b[First(x)] /\ f[y] = b[First(y)]
      OBVIOUS
    <3>1. First(x) \in 1..n /\ a[First(x)] = x /\ First(y) \in 1..n /\ a[First(y)] = y
      BY <2>1
    <3> HIDE DEF First, A, f
    <3> QED BY <3>0, <3>1
  <2>4. \A y \in B : \E x \in A : f[x] = y
    <3> SUFFICES ASSUME NEW y \in B PROVE \E x \in A : f[x] = y
      OBVIOUS
    <3>1. PICK i \in 1..n : b[i] = y
      BY <1>0 DEF Distinct, Range
    <3>2. y # Null /\ Occurrences(b, y) = m
      BY DEF Distinct
    <3>3. a[i] \in Range(a) /\ a[i] # Null /\ Occurrences(a, a[i]) = m
      BY <1>0, <1>2, <3>1, <3>2 DEF Range
    <3>4. a[i] \in A
      BY <3>3 DEF Distinct
    <3>5. First(a[i]) \in 1..n /\ a[First(a[i])] = a[i]
      BY <2>1, <3>4
    <3>6. f[a[i]] = b[First(a[i])]
      BY <3>4
    <3> HIDE DEF First, f, A
    <3>7. b[First(a[i])] = b[i]
      BY <3>5
    <3> QED BY <3>1, <3>4, <3>6, <3>7
  <2>5. f \in Bijection(A, B)
    <3>1. f \in [A -> B] /\ DOMAIN f = A
      BY <2>2
    <3> HIDE DEF f, A, B
    <3> QED BY <2>3, <2>4, <3>1 DEF Bijection, Injection, Surjection, IsInjective
  <2>6. IsFiniteSet(A)
    <3> DEFINE g == [k \in A |-> First(k)]
    <3>0. DOMAIN g = A /\ \A x \in A : g[x] = First(x)
      OBVIOUS
    <3>1. g \in [A -> 1..n] /\ \A x, y \in A : g[x] = g[y] => x = y
      <4>1. g \in [A -> 1..n]
        BY <2>1
      <4> HIDE DEF First, A, g
      <4>2. \A x, y \in A : g[x] = g[y] => x = y
        BY <2>1, <3>0
      <4> QED BY <4>1, <4>2
    <3>2. IsFiniteSet(1..n)
      BY FS_Interval
    <3> HIDE DEF g, A
    <3>3. g \in Injection(A, 1..n)
      BY <3>1 DEF Injection, IsInjective
    <3> QED BY <3>2, <3>3, FS_Injection
  <2> HIDE DEF A, B, f
  <2>7. Cardinality(A) = Cardinality(B)
    BY <2>5, <2>6, FS_Bijection DEF ExistsBijection
  <2> QED BY <2>7 DEF A, B
<1>4. Profile(a) = Profile(b)
  BY <1>3 DEF Profile
<1> QED BY <1>1, <1>4

\* Two tables that agree across both sides have the same matches.
LEMMA SameMatches ==
  ASSUME NEW n \in Nat, NEW m \in Nat, NEW a, NEW b, NEW c, NEW d,
         DOMAIN a = 1..n, DOMAIN b = 1..n, DOMAIN c = 1..m, DOMAIN d = 1..m,
         \A i \in 1..n, j \in 1..m : (a[i] = c[j]) <=> (b[i] = d[j]),
         \A j \in 1..m : (c[j] = Null) <=> (d[j] = Null)
  PROVE  Matched(a, c) = Matched(b, d)
<1>0. DOMAIN a = 1..n /\ DOMAIN b = 1..n /\ DOMAIN c = 1..m /\ DOMAIN d = 1..m
  OBVIOUS
<1>1. \A j \in 1..m : (c[j] \in Range(a)) <=> (d[j] \in Range(b))
  BY <1>0 DEF Range
<1>2. {j \in DOMAIN c : c[j] # Null /\ c[j] \in Range(a)}
      = {j \in DOMAIN d : d[j] # Null /\ d[j] \in Range(b)}
  BY <1>0, <1>1
<1> QED BY <1>2 DEF Matched

\* The key fields of a relation are in the first two tables.
LEMMA RelationTables ==
  ASSUME StageInv, HasRelation
  PROVE  /\ Parent \in Tables /\ Foreign \in Tables
         /\ "key" \in case.fields[Parent] /\ "key" \in case.fields[Foreign]
<1> DEFINE keyed == {t \in Range(case.tables) : "key" \in case.fields[t]}
<1>1. Cardinality(keyed) = 2
  BY DEF HasRelation, Tables
<1>2. keyed # {}
  BY <1>1, FS_EmptySet
<1>3. keyed = {case.tables[1], case.tables[2]}
  BY <1>2, ScenarioAssumption DEF StageInv
<1>4. case.tables[1] \in keyed /\ case.tables[2] \in keyed
  BY <1>3
<1> QED BY <1>4 DEF Parent, Foreign, Tables

LEMMA EvidenceHolds ==
  ASSUME StageInv, Sound, HasRelation, \A t \in Tables : HasItsRows(t), NEW after,
         \A t \in Tables : after[t] = Pseudonymized(t)
  PROVE  Summary(Source, after).verified
<1>1. /\ Parent \in Tables /\ Foreign \in Tables
      /\ "key" \in case.fields[Parent] /\ "key" \in case.fields[Foreign]
  BY RelationTables
<1> DEFINE n(t) == Len(Source[t])
           In(t) == KeysOf(Source[t])
           Out(t) == KeysOf(after[t])
<1>2. ASSUME NEW t \in Tables, "key" \in case.fields[t]
      PROVE  /\ n(t) \in Nat
             /\ In(t) = [i \in 1..n(t) |-> Value(t, i, "key")]
             /\ Out(t) = [i \in 1..n(t) |-> Image(vault, "key", Value(t, i, "key"))]
             /\ DOMAIN In(t) = 1..n(t) /\ DOMAIN Out(t) = 1..n(t)
  <2>1. n(t) \in Nat
    BY SequenceDomain DEF StageInv, SourceIsWellFormed
  <2>2. In(t) = [i \in 1..n(t) |-> Value(t, i, "key")]
    BY DEF KeysOf, Value
  <2>3. after[t] = [i \in 1..n(t) |-> after[t][i]]
    BY DEF Pseudonymized, Rows
  <2>4. Len(after[t]) = n(t)
    BY <2>1, <2>3, SequenceLength
  <2>5. \A i \in 1..n(t) : after[t][i].values["key"] = Image(vault, "key", Value(t, i, "key"))
    <3> SUFFICES ASSUME NEW i \in 1..n(t)
                 PROVE  after[t][i].values["key"] = Image(vault, "key", Value(t, i, "key"))
      OBVIOUS
    <3>1. after[t][i] = [deleted |-> Source[t][i].deleted,
                         values |-> [f \in case.fields[t] |-> Image(vault, f, Value(t, i, f))]]
      BY DEF Pseudonymized, Rows
    <3> QED BY <1>2, <3>1
  <2>6. Out(t) = [i \in 1..n(t) |-> Image(vault, "key", Value(t, i, "key"))]
    BY <2>4, <2>5 DEF KeysOf
  <2> QED BY <2>1, <2>2, <2>6
<1>3. ASSUME NEW t \in Tables, NEW u \in Tables, "key" \in case.fields[t], "key" \in case.fields[u],
             NEW i \in 1..n(t), NEW j \in 1..n(u)
      PROVE  /\ (In(t)[i] = In(u)[j]) <=> (Out(t)[i] = Out(u)[j])
             /\ (In(t)[i] = Null) <=> (Out(t)[i] = Null)
  <2>1. ~MappingMissing(vault, "key", Value(t, i, "key")) /\ ~MappingMissing(vault, "key", Value(u, j, "key"))
    BY <1>3 DEF HasItsRows, Rows
  <2>2. /\ In(t)[i] = Value(t, i, "key") /\ Out(t)[i] = Image(vault, "key", Value(t, i, "key"))
        /\ In(u)[j] = Value(u, j, "key") /\ Out(u)[j] = Image(vault, "key", Value(u, j, "key"))
    BY <1>2, <1>3
  <2> HIDE DEF In, Out
  <2> QED BY <2>1, <2>2, ImageIsOneToOne
<1>4. ASSUME NEW t \in Tables, "key" \in case.fields[t]
      PROVE  /\ Profile(In(t)) = Profile(Out(t)) /\ Nulls(In(t)) = Nulls(Out(t))
             /\ Len(In(t)) = Len(Out(t))
  <2>1. /\ n(t) \in Nat
        /\ DOMAIN In(t) = 1..n(t) /\ DOMAIN Out(t) = 1..n(t)
    BY <1>2, <1>4
  <2>2. \A i, j \in 1..n(t) : (In(t)[i] = In(t)[j]) <=> (Out(t)[i] = Out(t)[j])
    BY <1>3, <1>4
  <2>3. \A i \in 1..n(t) : (In(t)[i] = Null) <=> (Out(t)[i] = Null)
    BY <1>3, <1>4
  <2>4. Len(In(t)) = n(t) /\ Len(Out(t)) = n(t)
    <3>1. In(t) = [i \in 1..n(t) |-> In(t)[i]] /\ Out(t) = [i \in 1..n(t) |-> Out(t)[i]]
      BY <1>2, <1>4
    <3> HIDE DEF In, Out, n
    <3> QED BY <2>1, <3>1, SequenceLength
  <2> HIDE DEF In, Out, n
  <2>5. Profile(In(t)) = Profile(Out(t)) /\ Nulls(In(t)) = Nulls(Out(t))
    BY <2>1, <2>2, <2>3, SameProfile
  <2> QED BY <2>4, <2>5
<1> DEFINE bp == In(Parent)  ap == Out(Parent)  bf == In(Foreign)  af == Out(Foreign)
<1>5. Matched(bp, bf) = Matched(ap, af)
  <2>1. /\ n(Parent) \in Nat /\ n(Foreign) \in Nat
        /\ DOMAIN bp = 1..n(Parent) /\ DOMAIN ap = 1..n(Parent)
        /\ DOMAIN bf = 1..n(Foreign) /\ DOMAIN af = 1..n(Foreign)
    BY <1>1, <1>2
  <2>2. \A i \in 1..n(Parent), j \in 1..n(Foreign) : (bp[i] = bf[j]) <=> (ap[i] = af[j])
    BY <1>1, <1>3
  <2>3. \A j \in 1..n(Foreign) : (bf[j] = Null) <=> (af[j] = Null)
    BY <1>1, <1>3
  <2> HIDE DEF bp, ap, bf, af, n
  <2> QED BY <2>1, <2>2, <2>3, SameMatches
<1>6. /\ Profile(bp) = Profile(ap) /\ Nulls(bp) = Nulls(ap)
      /\ Profile(bf) = Profile(af) /\ Nulls(bf) = Nulls(af) /\ Len(bf) = Len(af)
  BY <1>1, <1>4
<1>7. Orphans(bp, bf) = Orphans(ap, af)
  <2> HIDE DEF bp, ap, bf, af
  <2> QED BY <1>5, <1>6 DEF Orphans
<1>8. Summary(Source, after).verified
      = (/\ Profile(bp) = Profile(ap) /\ Profile(bf) = Profile(af)
         /\ Matched(bp, bf) = Matched(ap, af)
         /\ Orphans(bp, bf) = Orphans(ap, af)
         /\ Nulls(bp) = Nulls(ap) /\ Nulls(bf) = Nulls(af))
  BY DEF Summary
<1> HIDE DEF bp, ap, bf, af
<1> QED BY <1>5, <1>6, <1>7, <1>8

-----------------------------------------------------------------------------
(* Publication.                                                            *)

\* What pass 2 has staged when every table is written.
LEMMA StagedTables ==
  ASSUME StageInv, LooseInv, TightInv, WriteInv, pc = "write", DOMAIN written = Tables
  PROVE  /\ Sound
         /\ \A t \in Tables : HasItsRows(t)
         /\ given = [t \in Tables |-> Pseudonymized(t)]
         /\ FaithfulTables(given)
         /\ Lengths(given) = Lengths(Source)
         /\ written = [t \in Tables |-> written[t]]
         /\ \A t \in Tables : IsSequence(written[t])
         /\ "writer" \notin faults => written = given
<1>1. /\ DOMAIN given = Tables /\ given = [t \in Tables |-> given[t]]
      /\ \A t \in Tables : given[t] = Pseudonymized(t) /\ HasItsRows(t)
      /\ written = [t \in Tables |-> written[t]]
      /\ \A t \in Tables : IsSequence(written[t])
      /\ "writer" \notin faults => written = given
  BY DEF WriteInv
<1>2. given = [t \in Tables |-> Pseudonymized(t)]
  BY <1>1
<1>3. "vault" \notin faults /\ pc \in Before
  BY DEF StageInv, Before, EngineSteps
<1>4. Sound /\ FaithfulTables(given)
  BY <1>1, <1>2, <1>3, CleanTables
<1>5. DOMAIN Source = Tables
  BY DEF StageInv, SourceIsWellFormed
<1>6. \A t \in Tables : Len(given[t]) = Len(Source[t])
  BY <1>1, <1>3, TransformedTable
<1>7. Lengths(given) = Lengths(Source)
  BY <1>1, <1>5, <1>6 DEF Lengths
<1> QED BY <1>1, <1>2, <1>4, <1>7

\* The evidence of pass 2 never speaks against a relation.
LEMMA EvidenceEarnsLevel ==
  ASSUME StageInv, LooseInv, TightInv, WriteInv, pc = "write", DOMAIN written = Tables, HasRelation,
         NEW authority
  PROVE  AssuranceOf(compare_relations, authority).level # "INCOMPLETE"
<1>1. /\ Sound /\ \A t \in Tables : HasItsRows(t)
      /\ \A t \in Tables : given[t] = Pseudonymized(t)
  <2>1. given = [t \in Tables |-> Pseudonymized(t)]
    BY StagedTables
  <2> QED BY <2>1, StagedTables
<1>2. Summary(Source, given).verified
  BY <1>1, EvidenceHolds
<1>3. source.tables = Source
  BY SourceBefore DEF Before, EngineSteps
<1>4. compare_relations = {Summary(Source, given)}
  BY <1>3 DEF compare_relations
<1>5. \A r \in compare_relations : r.verified
  BY <1>2, <1>4
<1>6. AssuranceOf(compare_relations, authority).level \in
        {"GLOBAL_EXACT_VALUE", "VFP_METADATA_VERIFIED", "DECLARED_RELATIONS_VERIFIED"}
  BY <1>5, Zenon DEF AssuranceOf
<1> QED BY <1>6

LEMMA SameFaithful ==
  ASSUME case' = case, Source' = Source, claim' = claim, ClaimIsFaithful
  PROVE  ClaimIsFaithful'
<1>1. Tables' = Tables /\ \A t : Rows(t)' = Rows(t) /\ \A i, f : Value(t, i, f)' = Value(t, i, f)
  BY DEF Tables, Rows, Value
<1> QED BY <1>1, SMTT(60) DEF ClaimIsFaithful, FaithfulTables

LEMMA NewFaithful ==
  ASSUME case' = case, Source' = Source, claim'.output.tables = written, FaithfulTables(written)
  PROVE  ClaimIsFaithful'
<1>1. Tables' = Tables /\ \A t : Rows(t)' = Rows(t) /\ \A i, f : Value(t, i, f)' = Value(t, i, f)
  BY DEF Tables, Rows, Value
<1> QED BY <1>1 DEF ClaimIsFaithful, FaithfulTables

\* The state right after Publish.
LEMMA PublishCase ==
  ASSUME StageInv, LooseInv, TightInv, WriteInv, Publish
  PROVE  PublishedInv'
<1>1. Next
  BY DEF Next
<1>2. /\ case' = case /\ Tables' = Tables /\ Source' = Source /\ Planned' = Planned
      /\ vault'.dataset = vault.dataset /\ vault'.id = vault.id
      /\ HasRelation' = HasRelation
  BY <1>1, Frame, SameSource
<1>3. pc = "write" /\ DOMAIN written = Tables /\ faults' = faults /\ source = Planned
  BY SourceBefore DEF Publish, Before, EngineSteps
<1>4. "vault" \notin faults /\ "source" \notin faults
  BY <1>3 DEF StageInv, Before, EngineSteps
<1>5. /\ Sound
      /\ \A t \in Tables : HasItsRows(t)
      /\ given = [t \in Tables |-> Pseudonymized(t)]
      /\ FaithfulTables(given)
      /\ Lengths(given) = Lengths(Source)
      /\ written = [t \in Tables |-> written[t]]
      /\ \A t \in Tables : IsSequence(written[t])
      /\ "writer" \notin faults => written = given
  BY <1>3, StagedTables
<1> DEFINE tree == TreeOf(written)
           id == OperationId(vault.dataset, Place)
           relations == compare_relations
           Row(records) ==
             [id |-> id, state |-> "COMPLETED", dataset |-> vault.dataset,
              vault |-> VaultFingerprint(vault), place |-> Place,
              binding |-> BindingFingerprint(vault, Place), output |-> tree,
              receipt |-> {[operation |-> id, output |-> tree, records |-> records,
                            relations |-> relations, index |-> case.index]}]
<1>6. PICK records \in {RecordTotal(Lengths(written)), RecordTotal(Lengths(given))} :
        /\ output' = tree
        /\ vault' = [vault EXCEPT !.operation = Row(records)]
        /\ claim' = [source |-> source, operation |-> id, place |-> Place,
                     output |-> tree, records |-> records, index |-> case.index,
                     authority |-> case.authority,
                     assurance |-> AssuranceOf(relations, case.authority)]
  BY DEF Publish
<1>7. /\ vault'.operation = Row(records)
      /\ vault'.text = vault.text /\ vault'.key = vault.key /\ vault'.offset = vault.offset
  BY <1>6 DEF StageInv
<1>8. /\ claim'.source = source /\ claim'.operation = id /\ claim'.place = Place
      /\ claim'.output = tree /\ claim'.records = records /\ claim'.index = case.index
      /\ claim'.authority = case.authority
      /\ claim'.assurance = AssuranceOf(relations, case.authority)
  BY <1>6
<1>9. tree.tables = written
  BY DEF TreeOf
<1>10. AssuranceOf(relations, case.authority).evidence = relations
  BY DEF AssuranceOf
<1> HIDE DEF relations
<1>11. claim'.assurance = AssuranceOf(claim'.assurance.evidence, claim'.authority)
  BY <1>8, <1>10, Zenon
<1>12. vault'.operation = OperationRow(claim.records, claim.assurance.evidence)'
  BY <1>2, <1>7, <1>8, <1>10 DEF OperationRow, OperationId, VaultFingerprint, BindingFingerprint, Place
<1>13. claim'.output = TreeOf(claim.output.tables)'
  <2>1. claim'.output.tables = written
    BY <1>8, <1>9
  <2>2. TreeOf(claim.output.tables)' = tree
    BY <1>2, <2>1 DEF TreeOf
  <2> QED BY <1>8, <2>2
<1>14. claim'.operation = OperationId(vault.dataset, Place)'
  BY <1>2, <1>8 DEF OperationId, Place
<1>15. \A t : Pseudonymized(t)' = Pseudonymized(t) /\ HasItsRows(t)' = HasItsRows(t)
  BY <1>2, <1>7, SameRows
<1>16. "writer" \notin faults => records = RecordTotal(Lengths(Source))
  BY <1>5, <1>6
<1>17. "writer" \notin faults => ClaimIsFaithful'
  <2> SUFFICES ASSUME "writer" \notin faults PROVE ClaimIsFaithful'
    OBVIOUS
  <2>1. claim'.output.tables = written /\ FaithfulTables(written)
    BY <1>5, <1>8, <1>9
  <2> QED BY <1>2, <2>1, NewFaithful
<1>18. HasRelation => claim'.assurance.level # "INCOMPLETE"
  BY <1>3, <1>8, EvidenceEarnsLevel DEF relations
<1>19. "writer" \notin faults => RecordsAreCounted'
  BY <1>2, <1>8, <1>16 DEF RecordsAreCounted, Lengths
<1>20. claim'.output.tables = written
  BY <1>8, <1>9
<1>21. \A s : IsSequence(s)' = IsSequence(s)
  BY DEF IsSequence
<1>22. "writer" \notin faults => claim'.output.tables = [t \in Tables |-> Pseudonymized(t)]
  BY <1>5, <1>20
<1> HIDE DEF tree, id, Row
<1>23. "writer" \notin faults' => /\ ClaimIsFaithful'
                                  /\ RecordsAreCounted'
                                  /\ HasRelation' => claim'.assurance.level # "INCOMPLETE"
  BY <1>2, <1>3, <1>8, <1>16, <1>17, <1>18, <1>19
<1>24. {"writer", "vault"} \cap faults' = {} =>
          /\ claim'.output.tables = [t \in Tables' |-> Pseudonymized(t)']
          /\ \A t \in Tables' : HasItsRows(t)'
  BY <1>2, <1>3, <1>5, <1>15, <1>22
<1>25. /\ claim'.source = Planned' /\ claim'.place = Place /\ claim'.index = case'.index
       /\ claim'.output.tables = [t \in Tables' |-> claim'.output.tables[t]]
       /\ \A t \in Tables' : IsSequence(claim'.output.tables[t])
       /\ output' = claim'.output
  BY <1>2, <1>3, <1>5, <1>6, <1>8, <1>20
<1>26. Place' = Place
  BY DEF Place
<1>27. claim'.assurance = AssuranceOf(claim.assurance.evidence, claim.authority)'
  BY <1>11 DEF AssuranceOf
<1>28. ClaimIsDerived'
  BY <1>13, <1>14, <1>25, <1>26, <1>27 DEF ClaimIsDerived
<1>29. RowIsClaimed'
  BY <1>12 DEF RowIsClaimed
<1>30. WriterIsSound'
  BY <1>23 DEF WriterIsSound
<1>31. TreeIsPass2'
  BY <1>24 DEF TreeIsPass2
<1>32. TreeIsClaimed'
  BY <1>25 DEF TreeIsClaimed
<1> QED
  BY <1>28, <1>29, <1>30, <1>31, <1>32 DEF PublishedInv

LEMMA PublishedStep ==
  ASSUME StageInv, LooseInv, TightInv, WriteInv, PublishedInv, Next
  PROVE  PublishedInv'
<1> SUFFICES ASSUME pc' \in After, ~Publish PROVE PublishedInv'
  BY PublishCase DEF PublishedInv
<1>1. pc \in After
  BY WhoComesFrom
<1>2. /\ case' = case /\ Tables' = Tables /\ Source' = Source /\ Planned' = Planned
      /\ vault'.dataset = vault.dataset /\ vault'.id = vault.id
      /\ HasRelation' = HasRelation
  BY Frame, SameSource
<1>3. claim' = claim
  BY WhoChanges
<1>4. faults \subseteq faults'
  BY FaultsGrow
<1>5. "vault" \notin faults' => vault' = vault
  <2>1. ~(RegisterMemoStructure \/ ObserveRecord \/ FinalizeText \/ FinalizeNumeric
          \/ FinalizeTemporal \/ RegisterTransformFields)
    BY <1>1 DEF RegisterMemoStructure, ObserveRecord, FinalizeText, FinalizeNumeric,
          FinalizeTemporal, RegisterTransformFields, After, Recovering
  <2> QED BY <2>1, WhoChanges, FaultsGrow
<1>6. {"tree", "race"} \cap faults' = {} => output' = output
  BY WhoChanges, FaultsGrow
<1>7. /\ claim.source = Planned
      /\ claim.operation = OperationId(vault.dataset, Place)
      /\ claim.place = Place /\ claim.index = case.index
      /\ claim.output = TreeOf(claim.output.tables)
      /\ claim.output.tables = [t \in Tables |-> claim.output.tables[t]]
      /\ \A t \in Tables : IsSequence(claim.output.tables[t])
      /\ claim.assurance = AssuranceOf(claim.assurance.evidence, claim.authority)
  BY <1>1 DEF PublishedInv, ClaimIsDerived
<1>8. "vault" \notin faults' => vault'.operation = OperationRow(claim.records, claim.assurance.evidence)'
  <2> SUFFICES ASSUME "vault" \notin faults'
               PROVE  vault'.operation = OperationRow(claim.records, claim.assurance.evidence)'
    OBVIOUS
  <2>1. vault.operation = OperationRow(claim.records, claim.assurance.evidence)
    BY <1>1, <1>4 DEF PublishedInv, RowIsClaimed, WriterIsSound, TreeIsPass2
  <2> QED BY <1>2, <1>3, <1>5, <2>1 DEF OperationRow, OperationId, VaultFingerprint,
             BindingFingerprint, Place
<1>9. "writer" \notin faults' => /\ ClaimIsFaithful'
                                 /\ RecordsAreCounted'
                                 /\ HasRelation' => claim'.assurance.level # "INCOMPLETE"
  <2> SUFFICES ASSUME "writer" \notin faults'
               PROVE  /\ ClaimIsFaithful'
                      /\ RecordsAreCounted'
                      /\ HasRelation' => claim'.assurance.level # "INCOMPLETE"
    OBVIOUS
  <2>1. /\ ClaimIsFaithful
        /\ RecordsAreCounted
        /\ HasRelation => claim.assurance.level # "INCOMPLETE"
    BY <1>1, <1>4 DEF PublishedInv, RowIsClaimed, WriterIsSound, TreeIsPass2
  <2>2. RecordsAreCounted'
    BY <1>2, <1>3, <2>1 DEF RecordsAreCounted, Lengths
  <2> QED BY <1>2, <1>3, <2>1, <2>2, SameFaithful
<1>10. {"writer", "vault"} \cap faults' = {} =>
          /\ claim'.output.tables = [t \in Tables' |-> Pseudonymized(t)']
          /\ \A t \in Tables' : HasItsRows(t)'
  <2> SUFFICES ASSUME {"writer", "vault"} \cap faults' = {}
               PROVE  /\ claim'.output.tables = [t \in Tables' |-> Pseudonymized(t)']
                      /\ \A t \in Tables' : HasItsRows(t)'
    OBVIOUS
  <2>1. /\ claim.output.tables = [t \in Tables |-> Pseudonymized(t)]
        /\ \A t \in Tables : HasItsRows(t)
    BY <1>1, <1>4 DEF PublishedInv, RowIsClaimed, WriterIsSound, TreeIsPass2
  <2>2. \A t : Pseudonymized(t)' = Pseudonymized(t) /\ HasItsRows(t)' = HasItsRows(t)
    BY <1>2, <1>5, SameRows
  <2> QED BY <1>2, <1>3, <2>1, <2>2
<1>11. {"tree", "race"} \cap faults' = {} => output' = claim'.output
  BY <1>1, <1>3, <1>4, <1>6 DEF PublishedInv, TreeIsClaimed
<1>12. claim'.output = TreeOf(claim.output.tables)'
  BY <1>2, <1>3, <1>7 DEF TreeOf
<1>13. claim'.assurance = AssuranceOf(claim.assurance.evidence, claim.authority)'
  BY <1>3, <1>7 DEF AssuranceOf
<1>14. claim'.operation = OperationId(vault.dataset, Place)'
  BY <1>2, <1>3, <1>7 DEF OperationId, Place
<1>15. Place' = Place /\ \A s : IsSequence(s)' = IsSequence(s)
  BY DEF Place, IsSequence
<1>16. /\ claim'.source = Planned' /\ claim'.place = Place /\ claim'.index = case'.index
       /\ claim'.output.tables = [t \in Tables' |-> claim'.output.tables[t]]
       /\ \A t \in Tables' : IsSequence(claim'.output.tables[t])
  BY <1>2, <1>3, <1>7
<1>17. ClaimIsDerived'
  BY <1>12, <1>13, <1>14, <1>15, <1>16 DEF ClaimIsDerived
<1>18. RowIsClaimed'
  BY <1>8 DEF RowIsClaimed
<1>19. WriterIsSound'
  BY <1>9 DEF WriterIsSound
<1>20. TreeIsPass2'
  BY <1>10 DEF TreeIsPass2
<1>21. TreeIsClaimed'
  BY <1>11 DEF TreeIsClaimed
<1> QED
  BY <1>17, <1>18, <1>19, <1>20, <1>21 DEF PublishedInv

-----------------------------------------------------------------------------
(* Recovery.                                                               *)

\* A table with a key field belongs to the relation.
LEMMA KeyedIsRelated ==
  ASSUME StageInv, NEW t \in Tables, "key" \in case.fields[t]
  PROVE  HasRelation
<1> DEFINE keyed == {u \in Range(case.tables) : "key" \in case.fields[u]}
           a == case.tables[1]
           b == case.tables[2]
<1>1. keyed # {}
  BY DEF Tables
<1>2. a # b /\ keyed = {a, b}
  BY <1>1, ScenarioAssumption DEF StageInv
<1> HIDE DEF keyed, a, b
<1>3. IsFiniteSet({a}) /\ Cardinality({a}) = 1
  BY FS_Singleton
<1>4. Cardinality({a} \cup {b}) = 2
  <2>1. b \notin {a}
    BY <1>2
  <2>2. Cardinality({a} \cup {b}) = Cardinality({a}) + 1
    BY <1>3, <2>1, FS_AddElement
  <2> QED BY <1>3, <2>2
<1>5. {a} \cup {b} = {a, b}
  OBVIOUS
<1> QED BY <1>2, <1>4, <1>5 DEF HasRelation, Tables, keyed

\* The rows of an untouched vault, as pass 2 leaves them.
LEMMA LedgerFacts ==
  ASSUME StageInv, LooseInv, TightInv, pc \in After, "vault" \notin faults,
         NEW t \in Tables, NEW f \in case.fields[t]
  PROVE  /\ f \in Fields /\ <<t, f>> \in DOMAIN vault.ledger
         /\ vault.ledger[<<t, f>>] = LedgerRow(vault, f)
         /\ f = "key" => domain_kind(vault, KeyDomain) = "NUMERIC_KEY"
         /\ f = "date" => TemporalDomain \in DOMAIN vault.domains /\ vault.offset \in Int
         /\ f = "text" => domain_kind(vault, DirectiveDomain(vault, f)) \in {Null, "TEXT"}
<1>1. f \in Fields
  BY ScenarioAssumption DEF StageInv, Tables
<1>2. <<t, f>> \in Pairs
  BY <1>1 DEF Pairs
<1>3. <<t, f>> \in DOMAIN vault.ledger /\ vault.ledger[<<t, f>>] = LedgerRow(vault, f)
  BY <1>2 DEF TightInv, Registered
<1>4. ASSUME f = "key" PROVE domain_kind(vault, KeyDomain) = "NUMERIC_KEY"
  <2>1. HasRelation
    BY <1>4, KeyedIsRelated
  <2>2. KeyDomain \in DOMAIN vault.domains /\ vault.domains[KeyDomain] = Kind(KeyDomain)
    BY <2>1 DEF TightInv, Registered
  <2> QED BY <2>2 DEF domain_kind, Kind, KeyDomain, TextDomain
<1>5. ASSUME f = "date" PROVE TemporalDomain \in DOMAIN vault.domains /\ vault.offset \in Int
  <2>1. TemporalPresent
    BY <1>5 DEF TemporalPresent
  <2> QED BY <2>1 DEF TightInv, LooseInv
<1>6. ASSUME f = "text" PROVE domain_kind(vault, DirectiveDomain(vault, f)) \in {Null, "TEXT"}
  <2>1. CASE TextDomain \in DOMAIN vault.domains
    <3>1. vault.domains[TextDomain] = Kind(TextDomain)
      BY <2>1 DEF TightInv
    <3>2. DirectiveDomain(vault, f) = TextDomain
      BY <1>6, <2>1 DEF DirectiveDomain
    <3>3. Kind(TextDomain) = "TEXT"
      BY DEF Kind, TextDomain, KeyDomain
    <3> QED BY <2>1, <3>1, <3>2, <3>3 DEF domain_kind
  <2>2. CASE TextDomain \notin DOMAIN vault.domains
    <3>1. DirectiveDomain(vault, f) = Null
      BY <1>6, <2>2 DEF DirectiveDomain
    <3>2. Null \notin DOMAIN vault.domains
      BY NullAssumption DEF LooseInv
    <3> QED BY <3>1, <3>2 DEF domain_kind
  <2> QED BY <2>1, <2>2
<1> QED BY <1>1, <1>3, <1>4, <1>5, <1>6

\* recover() undoes pass 2, value by value.
LEMMA ReverseOfImage ==
  ASSUME StageInv, LooseInv, TightInv, MemoInv, Sound, pc \in After, "vault" \notin faults,
         NEW t \in Tables, NEW i \in Rows(t), NEW f \in case.fields[t], HasItsRows(t)
  PROVE  ReverseValue(vault, t, i, vault.ledger[<<t, f>>], Image(vault, f, Value(t, i, f)))
         = Value(t, i, f)
<1> DEFINE v == Value(t, i, f)
           row == vault.ledger[<<t, f>>]
<1>1. /\ f \in Fields
      /\ row = LedgerRow(vault, f)
      /\ f = "key" => domain_kind(vault, KeyDomain) = "NUMERIC_KEY"
      /\ f = "date" => TemporalDomain \in DOMAIN vault.domains /\ vault.offset \in Int
      /\ f = "text" => domain_kind(vault, DirectiveDomain(vault, f)) \in {Null, "TEXT"}
  BY LedgerFacts
<1>2. row.action = Action(f) /\ row.domain = DirectiveDomain(vault, f)
  BY <1>1 DEF LedgerRow
<1>3. ~MappingMissing(vault, f, v)
  BY DEF HasItsRows
<1>4. Null # "" /\ Null # "NUMERIC_KEY" /\ TemporalDomain # Null
  BY NullAssumption
<1>5. CASE f = "keep"
  <2>1. row.action = "KEEP" /\ Image(vault, f, v) = v
    BY <1>2, <1>5 DEF Action, Image
  <2> HIDE DEF v, row
  <2> QED BY <2>1 DEF ReverseValue, v, row
<1>6. CASE f = "memo"
  <2>1. row.action = "MASK_REVERSIBLE" /\ Image(vault, f, v) = memo_safe_mask(v)
    BY <1>2, <1>6 DEF Action, Image
  <2>2. v # Null => memo_recovery_row(vault, t, i) = v
    <3> SUFFICES ASSUME v # Null PROVE memo_recovery_row(vault, t, i) = v
      OBVIOUS
    <3>1. i <= seen[t]
      <4>1. Len(Source[t]) \in Nat
        BY SequenceDomain DEF StageInv, SourceIsWellFormed
      <4>2. seen[t] \in Nat /\ seen[t] >= Len(Source[t])
        BY DEF MemoInv, PastScan
      <4> QED BY <4>1, <4>2 DEF Rows
    <3>2. <<t, i>> \in DOMAIN vault.memo
      BY <1>6, <3>1 DEF MemoInv
    <3>3. vault.memo[<<t, i>>] = v
      BY <1>6, <3>2 DEF TightInv
    <3> QED BY <3>2, <3>3 DEF memo_recovery_row
  <2>3. ReverseValue(vault, t, i, row, Image(vault, f, v)) =
          IF memo_safe_mask(v) = Null THEN Null ELSE OrIrreversible(memo_recovery_row(vault, t, i))
    <3> HIDE DEF v, row
    <3> QED BY <2>1 DEF ReverseValue
  <2> HIDE DEF v, row
  <2>4. CASE v = Null
    BY <2>3, <2>4, MaskFacts DEF v, row
  <2>5. CASE v # Null
    BY <2>2, <2>3, <2>5, MaskFacts DEF OrIrreversible, v, row
  <2> QED BY <2>4, <2>5
<1>7. CASE f = "date"
  <2>1. row.action = "SHIFT_REVERSIBLE" /\ row.domain = TemporalDomain
        /\ Image(vault, f, v) = temporal_shift(v, vault.offset)
    BY <1>1, <1>2, <1>7 DEF Action, DirectiveDomain, Image
  <2>2. temporal_offset(vault, row.domain) = vault.offset /\ vault.offset \in Int /\ vault.offset # Null
    BY <1>1, <1>7, <2>1, CalendarAssumption DEF temporal_offset
  <2>3. v = Null \/ v \in Int
    BY <1>7 DEF StageInv, SourceIsWellFormed
  <2> HIDE DEF v, row
  <2>4. ReverseValue(vault, t, i, row, Image(vault, f, v))
        = temporal_shift(temporal_shift(v, vault.offset), -vault.offset)
    BY <1>4, <2>1, <2>2 DEF ReverseValue
  <2> QED BY <2>2, <2>3, <2>4, ShiftFacts DEF v, row
<1>8. CASE f = "key"
  <2>1. row.action = "PSEUDONYMIZE_REVERSIBLE" /\ row.domain = KeyDomain
        /\ Image(vault, f, v) = IF v = Null THEN v ELSE Pseudonym(vault.key, v)
    BY <1>2, <1>8 DEF Action, DirectiveDomain, Image
  <2>2. v # Null => Pseudonym(vault.key, v) # Null
    BY <1>3, <1>8 DEF MappingMissing
  <2>3. v # Null => Original(vault.key, Pseudonym(vault.key, v)) = v
    BY <2>2, PseudonymFacts DEF Sound
  <2> HIDE DEF v, row
  <2>4. ASSUME NEW pv PROVE ReverseValue(vault, t, i, row, pv) =
          IF pv = Null THEN Null ELSE OrIrreversible(Original(vault.key, pv))
    BY <1>1, <1>8, <2>1 DEF ReverseValue, numeric_original
  <2> QED BY <2>1, <2>2, <2>3, <2>4 DEF OrIrreversible, v, row
<1>9. CASE f = "text"
  <2>1. row.action = "PSEUDONYMIZE_REVERSIBLE" /\ row.domain = DirectiveDomain(vault, f)
        /\ Image(vault, f, v) = IF v \in {Null, ""} THEN v ELSE Pseudonym(vault.text, v)
    BY <1>2, <1>9 DEF Action, Image
  <2>2. v \notin {Null, ""} => Pseudonym(vault.text, v) # Null
    BY <1>3, <1>9 DEF MappingMissing
  <2>3. v \notin {Null, ""} =>
           /\ Original(vault.text, Pseudonym(vault.text, v)) = v
           /\ Pseudonym(vault.text, v) \in TokensOf["text"]
           /\ vault.text # {}
    BY <2>2, PseudonymFacts, ZenonT(60) DEF Sound
  <2>4. v \notin {Null, ""} => row.domain = TextDomain /\ Pseudonym(vault.text, v) # ""
    <3>1. vault.text # {} => TextDomain \in DOMAIN vault.domains
      BY DEF TightInv
    <3> QED BY <1>9, <2>1, <2>3, <3>1, TokenAssumption DEF DirectiveDomain
  <2>5. domain_kind(vault, row.domain) # "NUMERIC_KEY"
    BY <1>1, <1>4, <1>9, <2>1
  <2> HIDE DEF v, row
  <2>6. ASSUME NEW pv PROVE ReverseValue(vault, t, i, row, pv) =
          IF pv = Null THEN Null ELSE IF pv = "" THEN pv
          ELSE OrIrreversible(text_original(vault, row.domain, pv))
    BY <2>1, <2>5 DEF ReverseValue
  <2>7. CASE v \in {Null, ""}
    BY <2>1, <2>6, <2>7 DEF v, row
  <2>8. CASE v \notin {Null, ""}
    BY <2>1, <2>2, <2>3, <2>4, <2>6, <2>8 DEF OrIrreversible, text_original, v, row
  <2> QED BY <2>7, <2>8
<1> QED BY <1>1, <1>5, <1>6, <1>7, <1>8, <1>9 DEF Fields

\* ... and table by table.
LEMMA ReverseOfTree ==
  ASSUME StageInv, LooseInv, TightInv, MemoInv, PublishedInv, pc \in After,
         {"writer", "vault"} \cap faults = {}, NEW t \in Tables
  PROVE  RecoveredRecords(vault, t, claim.output) = Source[t]
<1>1. /\ claim.output.tables = [u \in Tables |-> Pseudonymized(u)]
      /\ \A u \in Tables : HasItsRows(u)
  BY DEF PublishedInv, TreeIsPass2
<1>2. Sound
  BY <1>1, CleanTables
<1>3. claim.output.fields = case.fields
  BY DEF PublishedInv, ClaimIsDerived, TreeOf
<1>4. claim.output.tables[t] = Pseudonymized(t)
  BY <1>1
<1>5. Len(Source[t]) \in Nat /\ Source[t] = [i \in Rows(t) |-> Source[t][i]]
  BY SequenceDomain DEF StageInv, SourceIsWellFormed, Rows
<1>6. Pseudonymized(t) = [i \in 1..Len(Source[t]) |-> Pseudonymized(t)[i]]
  BY DEF Pseudonymized, Rows
<1>7. Len(Pseudonymized(t)) = Len(Source[t])
  BY <1>5, <1>6, SequenceLength
<1> DEFINE Back(i) == [deleted |-> Pseudonymized(t)[i].deleted,
                       values |-> [f \in case.fields[t] |->
                          ReverseValue(vault, t, i, vault.ledger[<<t, f>>], Pseudonymized(t)[i].values[f])]]
<1>8. RecoveredRecords(vault, t, claim.output) = [i \in Rows(t) |-> Back(i)]
  BY <1>3, <1>4, <1>7 DEF RecoveredRecords, Rows
<1>9. ASSUME NEW i \in Rows(t) PROVE Back(i) = Source[t][i]
  <2>1. /\ Pseudonymized(t)[i].deleted = Source[t][i].deleted
        /\ \A f \in case.fields[t] : Pseudonymized(t)[i].values[f] = Image(vault, f, Value(t, i, f))
    BY DEF Pseudonymized
  <2>2. \A f \in case.fields[t] :
           ReverseValue(vault, t, i, vault.ledger[<<t, f>>], Pseudonymized(t)[i].values[f]) = Value(t, i, f)
    BY <1>1, <1>2, <2>1, ReverseOfImage
  <2>3. /\ Source[t][i] = [deleted |-> Source[t][i].deleted, values |-> Source[t][i].values]
        /\ Source[t][i].values = [f \in case.fields[t] |-> Value(t, i, f)]
    BY DEF StageInv, SourceIsWellFormed
  <2>4. Back(i) = [deleted |-> Source[t][i].deleted, values |-> [f \in case.fields[t] |-> Value(t, i, f)]]
    BY <2>1, <2>2
  <2> QED BY <2>3, <2>4
<1> HIDE DEF Back
<1> QED BY <1>5, <1>8, <1>9

\* The authority that recover() demands names the tree of the claim.
LEMMA AuthorityNamesTheTree ==
  ASSUME PublishedInv, pc \in After, "vault" \notin faults, NEW place, AuthorityHolds(vault, output, place)
  PROVE  output = claim.output
<1> DEFINE op == completed_operation(vault, OperationId(vault.dataset, place))
<1>1. op.state = "COMPLETED" /\ output = op.output
  BY DEF AuthorityHolds
<1>2. op \in {vault.operation, NoOperation}
  BY DEF completed_operation
<1>3. NoOperation.state # "COMPLETED"
  BY DEF NoOperation
<1>4. op = vault.operation
  BY <1>1, <1>2, <1>3
<1>5. vault.operation = OperationRow(claim.records, claim.assurance.evidence)
  BY DEF PublishedInv, RowIsClaimed
<1>6. vault.operation.output = claim.output
  BY <1>5 DEF OperationRow
<1> QED BY <1>1, <1>4, <1>6

LEMMA RecoveryStep ==
  ASSUME StageInv, LooseInv, TightInv, MemoInv, PublishedInv, RecoveryInv, Next
  PROVE  RecoveryInv'
<1> SUFFICES ASSUME faults' \cap {"writer", "race", "vault"} = {} PROVE RecoveryInv'
  BY DEF RecoveryInv
<1>1. Tables' = Tables /\ Source' = Source /\ case' = case
  BY Frame, SameSource
<1>2. faults \cap {"writer", "race", "vault"} = {}
  BY FaultsGrow
<1>3. /\ pc \in Recovering => output = claim.output
      /\ pc \in Recovering => /\ staged = [t \in DOMAIN staged |-> staged[t]]
                              /\ DOMAIN staged \subseteq Tables
                              /\ \A t \in DOMAIN staged : staged[t] = Source[t]
      /\ pc \in {"checking", "promoting"} => DOMAIN staged = Tables
      /\ recovered # Null => recovered = Source
  BY <1>2 DEF RecoveryInv
<1> DEFINE Good == /\ pc' \in Recovering => output' = claim'.output
                   /\ pc' \in Recovering => /\ staged' = [t \in DOMAIN staged' |-> staged'[t]]
                                            /\ DOMAIN staged' \subseteq Tables
                                            /\ \A t \in DOMAIN staged' : staged'[t] = Source[t]
                   /\ pc' \in {"checking", "promoting"} => DOMAIN staged' = Tables
                   /\ recovered' # Null => recovered' = Source
<1> SUFFICES Good
  BY <1>1 DEF RecoveryInv
<1> USE DEF Recovering
<1>4. CASE AnyAuthority
  <2>1. PICK place \in {Place, "copy"} : ValidateAuthority(place)
    BY <1>4 DEF AnyAuthority
  <2>2. /\ staged' = EmptyFunction /\ recovered' = recovered /\ output' = output /\ claim' = claim
        /\ pc' = "staging" \/ pc' = "recoveryRefused"
        /\ pc' = "staging" => AuthorityHolds(vault, output, place)
        /\ pc \in After
    BY <2>1 DEF ValidateAuthority, After
  <2>3. pc' = "staging" => output = claim.output
    BY <1>2, <2>2, AuthorityNamesTheTree
  <2>4. DOMAIN EmptyFunction = {} /\ EmptyFunction = [t \in {} |-> EmptyFunction[t]]
    BY DEF EmptyFunction
  <2> QED BY <1>3, <2>2, <2>3, <2>4
<1>5. CASE AnyRecovery
  <2>1. PICK t \in Tables : RecoverTable(t)
    BY <1>5 DEF AnyRecovery
  <2>2. /\ pc = "staging" /\ recovered' = recovered /\ output' = output /\ claim' = claim
        /\ \/ pc' = "recoveryRefused"
           \/ pc' = "staging" /\ staged' = With(staged, t, RecoveredRecords(vault, t, output))
    BY <2>1 DEF RecoverTable
  <2>3. output = claim.output
    BY <1>3, <2>2
  <2>4. RecoveredRecords(vault, t, output) = Source[t]
    <3>1. pc \in After
      BY <2>2 DEF After
    <3> QED BY <1>2, <2>3, <3>1, ReverseOfTree
  <2>5. ASSUME staged' = With(staged, t, Source[t])
        PROVE  /\ DOMAIN staged' = DOMAIN staged \cup {t}
               /\ staged' = [u \in DOMAIN staged' |-> staged'[u]]
               /\ staged'[t] = Source[t]
               /\ \A u \in DOMAIN staged : u # t => staged'[u] = staged[u]
    BY <2>5 DEF With
  <2> QED BY <1>3, <2>2, <2>3, <2>4, <2>5
<1>6. CASE TablesRecovered
  <2>1. /\ pc = "staging" /\ DOMAIN staged = vault.tables /\ pc' \in {"checking", "recoveryRefused"}
        /\ recovered' = recovered /\ output' = output /\ claim' = claim /\ staged' = staged
    BY <1>6 DEF TablesRecovered, outcome
  <2>2. vault.tables = Tables
    BY <2>1 DEF LooseInv, After
  <2> QED BY <1>3, <2>1, <2>2
<1>7. CASE VerifyStaged
  <2>1. /\ pc = "checking" /\ pc' \in {"promoting", "recoveryRefused"}
        /\ recovered' = recovered /\ output' = output /\ claim' = claim /\ staged' = staged
    BY <1>7 DEF VerifyStaged, outcome
  <2> QED BY <1>3, <2>1
<1>8. CASE PromoteRecovery
  <2>1. pc = "promoting" /\ recovered' = staged /\ pc' = "published"
    BY <1>8 DEF PromoteRecovery
  <2>2. staged = [t \in Tables |-> Source[t]]
    BY <1>3, <2>1
  <2>3. Source = [t \in Tables |-> Source[t]]
    BY DEF StageInv, SourceIsWellFormed
  <2> QED BY <2>1, <2>2, <2>3
<1>9. CASE ChangeOutside
  <2>1. /\ pc' = pc /\ claim' = claim /\ staged' = staged /\ recovered' = recovered
        /\ pc \in Recovering => output' = output
    BY <1>9 DEF ChangeOutside, Fault, engine
  <2> QED BY <1>3, <2>1
<1>10. CASE Publish
  <2>1. pc = "write" /\ pc' = "published" /\ recovered' = recovered
    BY <1>10 DEF Publish, outcome
  <2> QED BY <1>3, <2>1
<1>11. CASE ~AnyAuthority /\ ~AnyRecovery /\ ~TablesRecovered /\ ~VerifyStaged /\ ~PromoteRecovery
            /\ ~ChangeOutside /\ ~Publish
  <2>1. claim' = claim /\ output' = output /\ staged' = staged /\ recovered' = recovered
    BY <1>11, WhoChanges
  <2>2. pc' \in Recovering => pc' = pc
    BY <1>11 DEF Next, AnyAuthority, AnyRecovery, RegisterMemoStructure, ObserveRecord, ScanEnds,
          FinalizeText, FinalizeNumeric, FinalizeTemporal, RegisterTransformFields, PersistedOffset,
          WriteTable, RunFails, Retry, VerifyDataset, engine
  <2> QED BY <1>3, <2>1, <2>2
<1> QED BY <1>4, <1>5, <1>6, <1>7, <1>8, <1>9, <1>10, <1>11

\* A verdict is about what it was given: no step changes that and keeps it.
LEMMA VerdictStep ==
  ASSUME StageInv, VerdictInv, Next
  PROVE  VerdictInv'
<1>1. CASE VerifyDataset
  <2>1. /\ verdict' = Verdict(Verify(vault, source, output, claim))
        /\ vault' = vault /\ source' = source /\ output' = output /\ claim' = claim
    BY <1>1 DEF VerifyDataset
  <2> QED BY <2>1 DEF VerdictInv
<1>2. CASE ChangeOutside
  BY <1>2 DEF ChangeOutside, VerdictInv
<1>3. CASE pc \in Before /\ ~ChangeOutside /\ ~VerifyDataset
  <2>1. verdict' = Null
    BY <1>3, WhoChanges DEF StageInv
  <2> QED BY <2>1 DEF VerdictInv
<1>4. CASE pc \notin Before /\ ~ChangeOutside /\ ~VerifyDataset
  <2>1. ~(RegisterMemoStructure \/ ObserveRecord \/ FinalizeText \/ FinalizeNumeric
          \/ FinalizeTemporal \/ RegisterTransformFields \/ Publish)
    BY <1>4 DEF RegisterMemoStructure, ObserveRecord, FinalizeText, FinalizeNumeric,
          FinalizeTemporal, RegisterTransformFields, Publish, Before, EngineSteps
  <2>2. vault' = vault /\ source' = source /\ output' = output /\ claim' = claim /\ verdict' = verdict
    BY <1>4, <2>1, WhoChanges
  <2> QED BY <2>2 DEF VerdictInv
<1> QED BY <1>1, <1>2, <1>3, <1>4

-----------------------------------------------------------------------------
(* The inductive invariant.                                                *)

LEMMA SourceAtFirst ==
  ASSUME Init
  PROVE  SourceIsWellFormed
<1>1. case \in Scenarios /\ vault = NewVault(source)
  BY DEF Init
<1>2. PICK d \in Datasets(case) : source = [tables |-> d, fields |-> case.fields]
  BY DEF Init
<1>3. Planned = [tables |-> d, fields |-> case.fields] /\ Source = d
  BY <1>1, <1>2 DEF Planned, Source, NewVault
<1>4. d = [t \in Tables |-> d[t]] /\ \A t \in Tables : d[t] \in Records(case.fields[t])
  BY DEF Datasets, Tables
<1>5. ASSUME NEW t \in Tables
      PROVE  /\ IsSequence(Source[t]) /\ Len(Source[t]) <= MaxRecords
             /\ \A i \in Rows(t) :
                  /\ Source[t][i] = [deleted |-> Source[t][i].deleted, values |-> Source[t][i].values]
                  /\ Source[t][i].values = [f \in case.fields[t] |-> Value(t, i, f)]
                  /\ "date" \in case.fields[t] => Value(t, i, "date") = Null \/ Value(t, i, "date") \in Int
  <2>1. PICK rows \in BoundedSeq(RowsOf(case.fields[t]), MaxRecords) :
           Source[t] = [i \in DOMAIN rows |-> [deleted |-> i = 2, values |-> rows[i]]]
    BY <1>3, <1>4 DEF Records
  <2>2. PICK m \in 0..MaxRecords : rows \in [1..m -> RowsOf(case.fields[t])]
    BY DEF BoundedSeq, SeqOf
  <2>3. m \in Nat /\ m <= MaxRecords
    BY BoundsAssumption
  <2>4. Source[t] = [i \in 1..m |-> Source[t][i]]
    BY <2>1, <2>2
  <2>5. Len(Source[t]) = m /\ IsSequence(Source[t])
    BY <2>3, <2>4, SequenceLength
  <2>6. ASSUME NEW i \in 1..m
        PROVE  /\ Source[t][i] = [deleted |-> Source[t][i].deleted, values |-> Source[t][i].values]
               /\ Source[t][i].values = rows[i]
               /\ rows[i] \in RowsOf(case.fields[t])
    BY <2>1, <2>2
  <2>7. ASSUME NEW r \in RowsOf(case.fields[t])
        PROVE  /\ r = [f \in case.fields[t] |-> r[f]]
               /\ "date" \in case.fields[t] => r["date"] = Null \/ r["date"] \in Int
    BY <1>1, ScenarioAssumption DEF Tables
  <2> QED BY <2>3, <2>5, <2>6, <2>7 DEF Rows, Value
<1> QED BY <1>3, <1>4, <1>5 DEF SourceIsWellFormed

LEMMA Initially ==
  ASSUME Init
  PROVE  Inv
<1>1. /\ case \in Scenarios /\ vault = NewVault(source) /\ pc = "structure" /\ faults = {}
      /\ claim = Null /\ verdict = Null /\ recovered = Null /\ spool = NoObservations
      /\ seen = [t \in Tables |-> 0] /\ written = EmptyFunction /\ given = EmptyFunction
  BY DEF Init
<1>2. /\ DOMAIN vault = {"id", "dataset", "tables", "ledger", "domains", "text", "key", "memo",
                        "offset", "operation"}
      /\ vault.text = {} /\ vault.key = {} /\ vault.tables = {} /\ vault.offset = Null
      /\ DOMAIN vault.ledger = {} /\ DOMAIN vault.domains = {} /\ DOMAIN vault.memo = {}
      /\ Planned = source
  BY <1>1 DEF NewVault, EmptyFunction, Planned
<1> USE DEF Before, After, Recovering, EngineSteps
<1>3. StageInv
  BY <1>1, <1>2, SourceAtFirst DEF StageInv
<1>4. SpoolInv
  BY <1>1 DEF SpoolInv, NoObservations
<1>5. LooseInv
  BY <1>1, <1>2 DEF LooseInv
<1>6. TightInv
  <2>1. IsFiniteSet({}) /\ Null # 0
    BY FS_EmptySet, CalendarAssumption
  <2> QED BY <1>1, <1>2, <2>1 DEF TightInv, IsMapping, Registered
<1>7. MemoInv
  <2>1. \A t \in Tables : seen[t] = 0
    BY <1>1
  <2>2. \A t \in Tables : \A i \in Rows(t) : ~(i <= 0)
    <3>1. \A t \in Tables : Len(Source[t]) \in Nat
      BY <1>3, SequenceDomain DEF StageInv, SourceIsWellFormed
    <3> QED BY <3>1 DEF Rows
  <2>3. seen \in [Tables -> Nat]
    BY <1>1
  <2>4. pc \notin PastScan
    BY <1>1 DEF PastScan
  <2> QED BY <2>1, <2>2, <2>3, <2>4 DEF MemoInv
<1>8. WriteInv /\ PublishedInv /\ RecoveryInv /\ VerdictInv
  BY <1>1 DEF WriteInv, PublishedInv, RecoveryInv, VerdictInv
<1> QED BY <1>3, <1>4, <1>5, <1>6, <1>7, <1>8 DEF Inv

LEMMA Stutter ==
  ASSUME Inv, UNCHANGED vars
  PROVE  Inv'
<1>1. /\ case' = case /\ source' = source /\ vault' = vault /\ output' = output /\ claim' = claim
      /\ pc' = pc /\ seen' = seen /\ spool' = spool /\ written' = written /\ given' = given
      /\ verdict' = verdict /\ staged' = staged /\ recovered' = recovered /\ faults' = faults
  BY DEF vars, engine, outcome
<1>2. /\ Source' = Source /\ Planned' = Planned /\ Tables' = Tables /\ Pairs' = Pairs
      /\ HasRelation' = HasRelation /\ TemporalPresent' = TemporalPresent
      /\ \A d : IsDay(d)' <=> IsDay(d)
      /\ SourceIsWellFormed' = SourceIsWellFormed
  BY <1>1, SameSource
<1>3. /\ \A t : Rows(t)' = Rows(t) /\ \A i, f : Value(t, i, f)' = Value(t, i, f)
      /\ \A t : Pseudonymized(t)' = Pseudonymized(t) /\ HasItsRows(t)' = HasItsRows(t)
  BY <1>1, <1>2, SameRows DEF Rows, Value
<1>4. StageInv'
  BY <1>1, <1>2 DEF Inv, StageInv
<1>5. SpoolInv' /\ LooseInv'
  BY <1>1, <1>2 DEF Inv, SpoolInv, LooseInv
<1>6. TightInv'
  BY <1>1, <1>2, <1>3 DEF Inv, TightInv
<1>7. MemoInv' /\ WriteInv'
  BY <1>1, <1>2, <1>3 DEF Inv, MemoInv, WriteInv
<1>8. PublishedInv'
  <2>1. PublishedInv
    BY DEF Inv
  <2>2. ClaimIsFaithful => ClaimIsFaithful'
    BY <1>1, <1>2, SameFaithful
  <2>3. RecordsAreCounted => RecordsAreCounted'
    BY <1>1, <1>2 DEF RecordsAreCounted, Lengths
  <2>4. ClaimIsDerived => ClaimIsDerived'
    BY <1>1, <1>2 DEF ClaimIsDerived, TreeOf
  <2>5. RowIsClaimed => RowIsClaimed'
    BY <1>1 DEF RowIsClaimed, OperationRow
  <2>6. WriterIsSound => WriterIsSound'
    BY <1>1, <1>2, <2>2, <2>3 DEF WriterIsSound
  <2>7. TreeIsPass2 => TreeIsPass2'
    BY <1>1, <1>2, <1>3 DEF TreeIsPass2
  <2>8. TreeIsClaimed => TreeIsClaimed'
    BY <1>1 DEF TreeIsClaimed
  <2> QED BY <1>1, <2>1, <2>4, <2>5, <2>6, <2>7, <2>8 DEF PublishedInv
<1>9. RecoveryInv' /\ VerdictInv'
  BY <1>1, <1>2 DEF Inv, RecoveryInv, VerdictInv
<1> QED BY <1>4, <1>5, <1>6, <1>7, <1>8, <1>9 DEF Inv

\* The inductive invariant holds in every state: pass 1, pass 2, the changes
\* from outside, verify_dataset and recover() keep it.
THEOREM Invariance == Spec => []Inv
<1>1. Init => Inv
  BY Initially
<1>2. Inv /\ [Next]_vars => Inv'
  <2> SUFFICES ASSUME Inv, [Next]_vars PROVE Inv'
    OBVIOUS
  <2>1. CASE Next
    BY <2>1, StageStep, SpoolStep, LooseStep, TightStep, MemoStep, WriteStep, PublishedStep,
       RecoveryStep, VerdictStep DEF Inv
  <2>2. CASE UNCHANGED vars
    BY <2>2, Stutter
  <2> QED BY <2>1, <2>2
<1> QED BY <1>1, <1>2, PTL DEF Spec

-----------------------------------------------------------------------------
(* What a join and a recovery give back.                                   *)

LEMMA AfterPublication ==
  ASSUME Inv
  PROVE  claim # Null \/ verdict # Null \/ recovered # Null => pc \in After
BY DEF Inv, StageInv

LEMMA JoinFollows ==
  ASSUME Inv
  PROVE  JoinIsPreserved
<1> SUFFICES ASSUME claim # Null, HasRelation, "writer" \notin faults
             PROVE  /\ claim.assurance.level # "INCOMPLETE"
                    /\ \A i \in 1..Len(Source[Parent]), j \in 1..Len(Source[Foreign]) :
                          (Source[Parent][i].values["key"] = Source[Foreign][j].values["key"]) =
                          (claim.output.tables[Parent][i].values["key"] =
                              claim.output.tables[Foreign][j].values["key"])
  BY DEF JoinIsPreserved
<1>1. FaithfulTables(claim.output.tables) /\ claim.assurance.level # "INCOMPLETE"
  BY AfterPublication DEF Inv, PublishedInv, WriterIsSound, ClaimIsFaithful
<1>2. /\ Parent \in Tables /\ Foreign \in Tables
      /\ "key" \in case.fields[Parent] /\ "key" \in case.fields[Foreign]
  BY RelationTables DEF Inv
<1> DEFINE Out(t, i, f) == claim.output.tables[t][i].values[f]
<1>3. \A t, u \in Tables : \A i \in Rows(t), j \in Rows(u) :
         \A f \in case.fields[t] \cap case.fields[u] \cap {"text", "key"} :
            (Value(t, i, f) = Value(u, j, f)) <=> (Out(t, i, f) = Out(u, j, f))
  BY <1>1 DEF FaithfulTables
<1>4. ASSUME NEW i \in Rows(Parent), NEW j \in Rows(Foreign)
      PROVE  (Value(Parent, i, "key") = Value(Foreign, j, "key")) =
             (Out(Parent, i, "key") = Out(Foreign, j, "key"))
  <2>1. "key" \in case.fields[Parent] \cap case.fields[Foreign] \cap {"text", "key"}
    BY <1>2
  <2> HIDE DEF Out
  <2> QED BY <1>2, <1>3, <2>1
<1> QED BY <1>1, <1>4 DEF Rows, Value

\* Two records of the two sides of a relation have equal keys in what pass 2
\* publishes exactly when they have in the source, and its evidence says so:
\* for every source, every choice of pseudonyms and any number of failed
\* runs on the vault, as long as the writer wrote what it was given.
THEOREM JoinTheorem == Spec => []JoinIsPreserved
BY Invariance, JoinFollows, PTL

\* The dataset that recover() promotes is the source the vault was made for,
\* whatever was done to the published tree before recover() read it.
THEOREM RecoveryTheorem == Spec => []RecoveredIsSource
<1>1. Inv => RecoveredIsSource
  BY DEF Inv, RecoveryInv, RecoveredIsSource
<1> QED BY Invariance, <1>1, PTL

-----------------------------------------------------------------------------
(* What an accepted dataset is.                                            *)

LEMMA IfIsSilent ==
  ASSUME NEW condition, NEW code, code \notin PartialCodes, If(condition, code) \subseteq PartialCodes
  PROVE  ~condition
BY DEF If

\* The verdict was given on the state as it is, and found nothing that
\* fails.
LEMMA AcceptedCodes ==
  ASSUME Inv, Accepted
  PROVE  pc \in After /\ Verify(vault, source, output, claim) \subseteq PartialCodes
<1>1. verdict # Null
  BY NullAssumption DEF Accepted
<1>2. verdict = Verdict(Verify(vault, source, output, claim))
  BY <1>1 DEF Inv, VerdictInv
<1>3. pc \in After
  BY <1>1, AfterPublication
<1> DEFINE codes == Verify(vault, source, output, claim)
<1> HIDE DEF codes
<1>4. codes \ PartialCodes = {}
  BY <1>2 DEF Verdict, Accepted, codes
<1> QED BY <1>3, <1>4 DEF codes

LEMMA AcceptedParts ==
  ASSUME Inv, Accepted
  PROVE  /\ source = claim.source
         /\ output = claim.output
         /\ VerifyVault(vault, claim) \subseteq PartialCodes
         /\ ScannableTables(source, output) = DOMAIN source.tables
         /\ \A t \in DOMAIN source.tables : VerifyTable(vault, t, source, output) \subseteq PartialCodes
<1> DEFINE scanned == ScannableTables(source, output)
           counted == [t \in scanned |-> CountedRecords(vault, t, source, output)]
           A == If(source # claim.source, "SOURCE_FINGERPRINT_MISMATCH")
           B == VerifyTopology(source, output, claim)
           C == VerifyVault(vault, claim)
           D == UNION {VerifyTable(vault, t, source, output) : t \in scanned}
           E == If(output # claim.output, "OUTPUT_FINGERPRINT_MISMATCH")
           F == If(scanned # DOMAIN source.tables \/ RecordTotal(counted) # claim.records,
                   "RECORD_COUNT_MISMATCH")
<1>1. Verify(vault, source, output, claim) = A \cup B \cup C \cup D \cup E \cup F
  BY Zenon DEF Verify
<1>2. Verify(vault, source, output, claim) \subseteq PartialCodes
  BY AcceptedCodes
<1> HIDE DEF A, B, C, D, E, F
<1>3. /\ A \subseteq PartialCodes /\ C \subseteq PartialCodes /\ D \subseteq PartialCodes
      /\ E \subseteq PartialCodes /\ F \subseteq PartialCodes
  BY <1>1, <1>2
<1>4. {"SOURCE_FINGERPRINT_MISMATCH", "OUTPUT_FINGERPRINT_MISMATCH", "RECORD_COUNT_MISMATCH"}
      \cap PartialCodes = {}
  BY DEF PartialCodes
<1>5. source = claim.source
  BY <1>3, <1>4, IfIsSilent DEF A
<1>6. output = claim.output
  BY <1>3, <1>4, IfIsSilent DEF E
<1>7. scanned = DOMAIN source.tables
  BY <1>3, <1>4, IfIsSilent DEF F
<1>8. ASSUME NEW t \in scanned PROVE VerifyTable(vault, t, source, output) \subseteq PartialCodes
  <2> HIDE DEF scanned
  <2>1. VerifyTable(vault, t, source, output) \subseteq D
    BY DEF D
  <2> QED BY <1>3, <2>1
<1> QED BY <1>3, <1>5, <1>6, <1>7, <1>8 DEF C

\* What one accepted table says of its records.
LEMMA AcceptedTable ==
  ASSUME Inv, Accepted, NEW t \in Tables
  PROVE  /\ source = Planned /\ source.tables = Source /\ source.fields = case.fields
         /\ output = claim.output /\ output.fields = case.fields
         /\ IsSequence(output.tables[t]) /\ IsSequence(Source[t])
         /\ Len(output.tables[t]) \in {Len(Source[t]) - 1, Len(Source[t])}
         /\ VerifyLedger(vault, t, case.fields[t]) \subseteq PartialCodes
         /\ \A i \in 1..Len(output.tables[t]) :
               /\ i \in Rows(t)
               /\ Source[t][i].deleted = output.tables[t][i].deleted
               /\ \A f \in case.fields[t] :
                     VerifyValue(vault, t, i, f, Value(t, i, f), output.tables[t][i].values[f])
                     \subseteq PartialCodes
<1>1. pc \in After /\ ClaimIsDerived
  BY AcceptedCodes DEF Inv, PublishedInv
<1>2. source = Planned /\ output = claim.output
  BY <1>1, AcceptedParts DEF ClaimIsDerived
<1>3. /\ source.tables = Source /\ source.fields = case.fields
      /\ DOMAIN Source = Tables /\ IsSequence(Source[t])
  BY <1>2 DEF Inv, StageInv, SourceIsWellFormed, Source
<1>4. /\ output.fields = case.fields /\ output.coupled = {} /\ output.odd = {}
  BY <1>1, <1>2 DEF ClaimIsDerived, TreeOf
<1>5. IsSequence(output.tables[t])
  BY <1>1, <1>2 DEF ClaimIsDerived
<1>6. t \in vault.tables
  BY <1>1 DEF Inv, LooseInv
<1> DEFINE s == source.tables[t]
           o == output.tables[t]
           L == VerifyLedger(vault, t, source.fields[t])
           M == If(\E i \in 1..Scanned(s, o) : s[i].deleted # o[i].deleted, "DELETED_MARKER_MISMATCH")
           V(i, f) == VerifyValue(vault, t, i, f, s[i].values[f], o[i].values[f])
           U == UNION {UNION {V(i, f) : f \in source.fields[t]} : i \in 1..Scanned(s, o)}
           X == If(ExtraRecords(s, o), "RECORD_COUNT_MISMATCH")
<1>7. VerifyTable(vault, t, source, output) = L \cup M \cup U \cup X
  BY <1>4, <1>6, Zenon DEF VerifyTable
<1>8. VerifyTable(vault, t, source, output) \subseteq PartialCodes
  BY <1>3, AcceptedParts
<1>9. {"DELETED_MARKER_MISMATCH", "RECORD_COUNT_MISMATCH"} \cap PartialCodes = {}
  BY DEF PartialCodes
<1>10. L \subseteq PartialCodes /\ M \subseteq PartialCodes /\ U \subseteq PartialCodes /\ X \subseteq PartialCodes
  <2> HIDE DEF L, M, U, X
  <2> QED BY <1>7, <1>8
<1>11. ~ExtraRecords(s, o) /\ \A i \in 1..Scanned(s, o) : s[i].deleted = o[i].deleted
  BY <1>9, <1>10, IfIsSilent
<1>12. \A i \in 1..Scanned(s, o) : \A f \in source.fields[t] : V(i, f) \subseteq PartialCodes
  <2> HIDE DEF V, s, o
  <2> QED BY <1>10
<1>13. Len(s) \in Nat /\ Len(o) \in Nat
  BY <1>3, <1>5, SequenceDomain
<1>14. Len(o) \in {Len(s) - 1, Len(s)} /\ Scanned(s, o) = Len(o) /\ Len(o) <= Len(s)
  <2> DEFINE m == Len(s)
             n == Len(o)
  <2>1. ~(m > n + 1) /\ ~(n > m)
    BY <1>11 DEF ExtraRecords
  <2>2. Scanned(s, o) = IF m <= n THEN m ELSE n
    BY DEF Scanned, MinOf
  <2>3. m \in Nat /\ n \in Nat
    BY <1>13
  <2> HIDE DEF m, n
  <2>4. n \in {m - 1, m} /\ n <= m /\ (IF m <= n THEN m ELSE n) = n
    BY <2>1, <2>3
  <2> QED BY <2>2, <2>4 DEF m, n
<1>15. ASSUME NEW i \in 1..Len(o)
       PROVE  /\ i \in Rows(t)
              /\ Source[t][i].deleted = o[i].deleted
              /\ \A f \in case.fields[t] :
                    VerifyValue(vault, t, i, f, Value(t, i, f), o[i].values[f]) \subseteq PartialCodes
  <2>1. i \in 1..Len(s)
    <3> HIDE DEF s, o
    <3> QED BY <1>13, <1>14
  <2> QED BY <1>3, <1>11, <1>12, <1>14, <2>1 DEF Rows, Value
<1> QED BY <1>2, <1>3, <1>4, <1>5, <1>10, <1>14, <1>15

\* What a value without a finding is.
ValueAgrees(t, i, row, sv, ov) ==
  /\ row.action \in {"KEEP", "MASK_REVERSIBLE", "SHIFT_REVERSIBLE", "PSEUDONYMIZE_REVERSIBLE"}
  /\ row.action = "KEEP" => ov = sv
  /\ row.action = "MASK_REVERSIBLE" =>
        /\ sv = Null => ov = Null
        /\ sv # Null => ov # Null /\ ov # sv /\ memo_recovery_row(vault, t, i) = sv
  /\ row.action = "SHIFT_REVERSIBLE" =>
        LET offset == temporal_offset(vault, row.domain)
        IN /\ offset # 0
           /\ offset = Null => ov = sv
           /\ offset # Null => ov = temporal_shift(sv, offset)
  /\ row.action = "PSEUDONYMIZE_REVERSIBLE" =>
        /\ domain_kind(vault, row.domain) = "NUMERIC_KEY" =>
              /\ sv = Null => ov = Null
              /\ sv # Null => ov # Null /\ ov # sv /\ numeric_original(vault, row.domain, ov) = sv
        /\ domain_kind(vault, row.domain) # "NUMERIC_KEY" =>
              /\ sv \in {Null, ""} => ov = sv
              /\ sv \notin {Null, ""} =>
                    ov # Null /\ ov # sv /\ text_original(vault, row.domain, ov) = sv

LEMMA SilentValue ==
  ASSUME NEW t, NEW i, NEW f, NEW sv, NEW ov,
         VerifyValue(vault, t, i, f, sv, ov) \subseteq PartialCodes
  PROVE  /\ <<t, f>> \in DOMAIN vault.ledger
         /\ ValueAgrees(t, i, vault.ledger[<<t, f>>], sv, ov)
<1> DEFINE row == vault.ledger[<<t, f>>]
           codes == VerifyValue(vault, t, i, f, sv, ov)
<1>1. /\ {"POLICY_BINDING_MISSING", "POLICY_BINDING_MISMATCH", "IDENTITY_VALUE_MISMATCH",
          "NULL_SEMANTICS_MISMATCH", "ORIGINAL_VALUE_SURVIVED", "TEXT_MAPPING_MISMATCH"} \cap PartialCodes = {}
      /\ {"NUMERIC_MAPPING_MISMATCH", "MEMO_RECOVERY_ROW_MISSING", "MEMO_PAYLOAD_MISMATCH",
          "TEMPORAL_VALUE_MISMATCH", "VAULT_UNREADABLE"} \cap PartialCodes = {}
  BY DEF PartialCodes
<1>2. \A c \in PartialCodes : c \notin {"POLICY_BINDING_MISSING"}
  BY <1>1
<1>3. <<t, f>> \in DOMAIN vault.ledger
  <2>1. <<t, f>> \notin DOMAIN vault.ledger => codes = {"POLICY_BINDING_MISSING"}
    BY DEF VerifyValue
  <2> HIDE DEF codes
  <2> QED BY <1>1, <2>1 DEF codes
<1>4. codes = CASE row.action = "KEEP" -> If(ov # sv, "IDENTITY_VALUE_MISMATCH")
              [] row.action = "MASK_REVERSIBLE" -> VerifyMemo(vault, t, i, sv, ov)
              [] row.action = "SHIFT_REVERSIBLE" -> VerifyTemporal(vault, row.domain, sv, ov)
              [] row.action = "PSEUDONYMIZE_REVERSIBLE" ->
                    IF domain_kind(vault, row.domain) = "NUMERIC_KEY"
                      THEN VerifyNumeric(vault, row.domain, sv, ov)
                      ELSE VerifyText(vault, row.domain, sv, ov)
              [] OTHER -> {"POLICY_BINDING_MISMATCH"}
  BY <1>3 DEF VerifyValue
<1>5. codes \subseteq PartialCodes
  OBVIOUS
<1> HIDE DEF codes, row
<1>6. row.action \in {"KEEP", "MASK_REVERSIBLE", "SHIFT_REVERSIBLE", "PSEUDONYMIZE_REVERSIBLE"}
  <2>1. row.action \notin {"KEEP", "MASK_REVERSIBLE", "SHIFT_REVERSIBLE", "PSEUDONYMIZE_REVERSIBLE"} =>
           codes = {"POLICY_BINDING_MISMATCH"}
    BY <1>4
  <2> QED BY <1>1, <1>5, <2>1
<1> SUFFICES ValueAgrees(t, i, row, sv, ov)
  BY <1>3 DEF row
<1>7. CASE row.action = "KEEP"
  <2>1. If(ov # sv, "IDENTITY_VALUE_MISMATCH") \subseteq PartialCodes
    BY <1>4, <1>5, <1>7
  <2>2. ov = sv
    BY <1>1, <2>1, IfIsSilent
  <2> QED BY <1>7, <2>2 DEF ValueAgrees
<1>8. CASE row.action = "MASK_REVERSIBLE"
  <2>1. VerifyMemo(vault, t, i, sv, ov) \subseteq PartialCodes
    BY <1>4, <1>5, <1>8
  <2> DEFINE payload == memo_recovery_row(vault, t, i)
  <2>2. CASE sv = Null
    <3>1. If(ov # Null, "NULL_SEMANTICS_MISMATCH") \subseteq PartialCodes
      BY <2>1, <2>2 DEF VerifyMemo
    <3> QED BY <1>1, <1>8, <2>2, <3>1, IfIsSilent DEF ValueAgrees
  <2>3. CASE sv # Null
    <3>1. ov # Null
      <4>1. ov = Null => VerifyMemo(vault, t, i, sv, ov) = {"NULL_SEMANTICS_MISMATCH"}
        BY <2>3 DEF VerifyMemo
      <4> QED BY <1>1, <2>1, <4>1
    <3>2. payload # Null
      <4>1. payload = Null => VerifyMemo(vault, t, i, sv, ov) = {"MEMO_RECOVERY_ROW_MISSING"}
        BY <2>3, <3>1 DEF VerifyMemo
      <4> QED BY <1>1, <2>1, <4>1
    <3>3. If(payload # sv \/ ov = payload \/ ov # memo_safe_mask(payload), "MEMO_PAYLOAD_MISMATCH")
          \subseteq PartialCodes
      BY <2>1, <2>3, <3>1, <3>2 DEF VerifyMemo
    <3>4. payload = sv /\ ov # payload
      BY <1>1, <3>3, IfIsSilent
    <3> QED BY <1>8, <2>3, <3>1, <3>4 DEF ValueAgrees
  <2> QED BY <2>2, <2>3
<1>9. CASE row.action = "SHIFT_REVERSIBLE"
  <2> DEFINE offset == temporal_offset(vault, row.domain)
             all == VerifyTemporal(vault, row.domain, sv, ov)
  <2>1. all \subseteq PartialCodes
    BY <1>4, <1>5, <1>9
  <2>2. all = IF offset = 0 THEN {"VAULT_UNREADABLE"}
              ELSE IF offset = Null THEN If(ov # sv, "TEMPORAL_VALUE_MISMATCH")
              ELSE If(ov # temporal_shift(sv, offset), "TEMPORAL_VALUE_MISMATCH")
    BY DEF VerifyTemporal
  <2> HIDE DEF all, offset
  <2>3. offset # 0
    BY <1>1, <2>1, <2>2
  <2>4. offset = Null => ov = sv
    BY <1>1, <2>1, <2>2, <2>3, IfIsSilent
  <2>5. offset # Null => ov = temporal_shift(sv, offset)
    BY <1>1, <2>1, <2>2, <2>3, IfIsSilent
  <2> QED BY <1>9, <2>3, <2>4, <2>5 DEF ValueAgrees, offset
<1>10. CASE row.action = "PSEUDONYMIZE_REVERSIBLE" /\ domain_kind(vault, row.domain) = "NUMERIC_KEY"
  <2> DEFINE all == VerifyNumeric(vault, row.domain, sv, ov)
  <2>1. all \subseteq PartialCodes
    BY <1>4, <1>5, <1>10
  <2>2. all = IF sv = Null THEN If(ov # Null, "NULL_SEMANTICS_MISMATCH")
              ELSE IF ov = Null THEN {"NULL_SEMANTICS_MISMATCH"}
              ELSE IF ov = sv THEN {"ORIGINAL_VALUE_SURVIVED"}
              ELSE If(numeric_original(vault, row.domain, ov) # sv, "NUMERIC_MAPPING_MISMATCH")
    BY DEF VerifyNumeric
  <2> HIDE DEF all
  <2>3. sv = Null => ov = Null
    BY <1>1, <2>1, <2>2, IfIsSilent
  <2>4. sv # Null => ov # Null /\ ov # sv
    BY <1>1, <2>1, <2>2
  <2>5. sv # Null => numeric_original(vault, row.domain, ov) = sv
    BY <1>1, <2>1, <2>2, <2>4, IfIsSilent
  <2> QED BY <1>10, <2>3, <2>4, <2>5 DEF ValueAgrees
<1>11. CASE row.action = "PSEUDONYMIZE_REVERSIBLE" /\ domain_kind(vault, row.domain) # "NUMERIC_KEY"
  <2> DEFINE all == VerifyText(vault, row.domain, sv, ov)
  <2>1. all \subseteq PartialCodes
    BY <1>4, <1>5, <1>11
  <2>2. all = IF sv \in {Null, ""} THEN If(ov # sv, "NULL_SEMANTICS_MISMATCH")
              ELSE IF ov = Null THEN {"NULL_SEMANTICS_MISMATCH"}
              ELSE IF ov = sv THEN {"ORIGINAL_VALUE_SURVIVED"}
              ELSE If(text_original(vault, row.domain, ov) # sv, "TEXT_MAPPING_MISMATCH")
    BY DEF VerifyText
  <2> HIDE DEF all
  <2>3. sv \in {Null, ""} => ov = sv
    BY <1>1, <2>1, <2>2, IfIsSilent
  <2>4. sv \notin {Null, ""} => ov # Null /\ ov # sv
    BY <1>1, <2>1, <2>2
  <2>5. sv \notin {Null, ""} => text_original(vault, row.domain, ov) = sv
    BY <1>1, <2>1, <2>2, <2>4, IfIsSilent
  <2> QED BY <1>11, <2>3, <2>4, <2>5 DEF ValueAgrees
<1> QED BY <1>6, <1>7, <1>8, <1>9, <1>10, <1>11

\* The row that answers for a pseudonym.
LEMMA OriginalFacts ==
  ASSUME NEW rows, NEW p, NEW v, v # Null, Original(rows, p) = v
  PROVE  \E r \in rows : r[1] = v /\ r[2] = p
BY DEF Original

\* The cells of an accepted dataset.
AcceptedCell(t, i, f) ==
  /\ t \in Tables /\ i \in Rows(t) /\ i <= Len(output.tables[t]) /\ f \in case.fields[t]

LEMMA CellAgrees ==
  ASSUME Inv, Accepted, NEW t, NEW i, NEW f, AcceptedCell(t, i, f)
  PROVE  /\ <<t, f>> \in DOMAIN vault.ledger
         /\ ValueAgrees(t, i, vault.ledger[<<t, f>>], Value(t, i, f), output.tables[t][i].values[f])
<1>1. t \in Tables /\ i \in Rows(t) /\ i <= Len(output.tables[t]) /\ f \in case.fields[t]
  BY DEF AcceptedCell
<1>2. Len(output.tables[t]) \in Nat /\ Len(Source[t]) \in Nat
  BY <1>1, AcceptedTable, SequenceDomain
<1>3. i \in 1..Len(output.tables[t])
  BY <1>1, <1>2 DEF Rows
<1>4. VerifyValue(vault, t, i, f, Value(t, i, f), output.tables[t][i].values[f]) \subseteq PartialCodes
  BY <1>1, <1>3, AcceptedTable
<1> QED BY <1>4, SilentValue

\* How mapping rows answer for a value: a blank one is copied.
Answered(rows, blank, sv, ov) ==
  /\ sv \in blank => ov = sv
  /\ sv \notin blank => ov # sv /\ \E r \in rows : r[1] = sv /\ r[2] = ov

CellIsTight(f, sv, ov) ==
  /\ f = "text" => Answered(vault.text, {Null, ""}, sv, ov)
  /\ f = "key" => Answered(vault.key, {Null}, sv, ov)
  /\ f \in {"memo", "date"} => IF sv = Null THEN ov = sv ELSE ov # sv
  /\ f = "keep" => ov = sv

\* A cell of an untouched vault's ledger.
LEMMA TightCell ==
  ASSUME Inv, Accepted, "vault" \notin faults, NEW t, NEW i, NEW f, AcceptedCell(t, i, f)
  PROVE  CellIsTight(f, Value(t, i, f), output.tables[t][i].values[f])
<1> DEFINE sv == Value(t, i, f)
           ov == output.tables[t][i].values[f]
           row == vault.ledger[<<t, f>>]
<1>1. t \in Tables /\ i \in Rows(t) /\ f \in case.fields[t] /\ pc \in After
  BY AcceptedCodes DEF AcceptedCell
<1>2. ValueAgrees(t, i, row, sv, ov)
  BY CellAgrees
<1>3. /\ f \in Fields
      /\ row = LedgerRow(vault, f)
      /\ f = "key" => domain_kind(vault, KeyDomain) = "NUMERIC_KEY"
      /\ f = "date" => TemporalDomain \in DOMAIN vault.domains /\ vault.offset \in Int
      /\ f = "text" => domain_kind(vault, DirectiveDomain(vault, f)) \in {Null, "TEXT"}
  BY <1>1, LedgerFacts DEF Inv
<1>4. row.action = Action(f) /\ row.domain = DirectiveDomain(vault, f)
  BY <1>3 DEF LedgerRow
<1>5. "date" \in case.fields[t] => Value(t, i, "date") = Null \/ Value(t, i, "date") \in Int
  BY <1>1 DEF Inv, StageInv, SourceIsWellFormed
<1>6. vault.offset # 0 /\ Null # "NUMERIC_KEY"
  BY <1>1, NullAssumption DEF Inv, TightInv
<1> SUFFICES CellIsTight(f, sv, ov)
  OBVIOUS
<1>7. CASE f = "text"
  <2>1. row.action = "PSEUDONYMIZE_REVERSIBLE" /\ domain_kind(vault, row.domain) # "NUMERIC_KEY"
    BY <1>3, <1>4, <1>6, <1>7 DEF Action
  <2> HIDE DEF sv, ov, row
  <2>2. /\ sv \in {Null, ""} => ov = sv
        /\ sv \notin {Null, ""} => ov # sv /\ text_original(vault, row.domain, ov) = sv
    BY <1>2, <2>1 DEF ValueAgrees
  <2>3. sv \notin {Null, ""} => Original(vault.text, ov) = sv
    BY <2>2 DEF text_original
  <2>4. ASSUME sv \notin {Null, ""} PROVE \E r \in vault.text : r[1] = sv /\ r[2] = ov
    <3>1. sv # Null /\ Original(vault.text, ov) = sv
      BY <2>3, <2>4
    <3> QED BY <3>1, OriginalFacts
  <2> QED BY <1>7, <2>2, <2>4 DEF CellIsTight, Answered
<1>8. CASE f = "key"
  <2>1. /\ row.action = "PSEUDONYMIZE_REVERSIBLE" /\ row.domain = KeyDomain
        /\ domain_kind(vault, row.domain) = "NUMERIC_KEY"
    BY <1>3, <1>4, <1>8 DEF Action, DirectiveDomain
  <2> HIDE DEF sv, ov, row
  <2>2. /\ sv = Null => ov = sv
        /\ sv # Null => ov # sv /\ numeric_original(vault, row.domain, ov) = sv
    BY <1>2, <2>1 DEF ValueAgrees
  <2>3. sv # Null => Original(vault.key, ov) = sv
    BY <2>1, <2>2 DEF numeric_original
  <2>4. sv # Null => \E r \in vault.key : r[1] = sv /\ r[2] = ov
    BY <2>3, OriginalFacts
  <2> QED BY <1>8, <2>2, <2>4 DEF CellIsTight, Answered
<1>9. CASE f = "memo"
  <2>1. row.action = "MASK_REVERSIBLE"
    BY <1>4, <1>9 DEF Action
  <2> HIDE DEF sv, ov, row
  <2>2. IF sv = Null THEN ov = sv ELSE ov # sv
    BY <1>2, <2>1 DEF ValueAgrees
  <2> QED BY <1>9, <2>2 DEF CellIsTight
<1>10. CASE f = "date"
  <2>1. row.action = "SHIFT_REVERSIBLE" /\ row.domain = TemporalDomain
    BY <1>3, <1>4, <1>10 DEF Action, DirectiveDomain
  <2>2. temporal_offset(vault, row.domain) = vault.offset /\ vault.offset \in Int /\ vault.offset # Null
    BY <1>3, <1>10, <2>1, CalendarAssumption DEF temporal_offset
  <2>3. sv = Null \/ sv \in Int
    BY <1>1, <1>5, <1>10
  <2> HIDE DEF sv, ov, row
  <2>4. ov = temporal_shift(sv, vault.offset)
    BY <1>2, <2>1, <2>2 DEF ValueAgrees
  <2>5. IF sv = Null THEN ov = sv ELSE ov # sv
    BY <1>6, <2>2, <2>3, <2>4, ShiftFacts
  <2> QED BY <1>10, <2>5 DEF CellIsTight
<1>11. CASE f = "keep"
  <2>1. row.action = "KEEP"
    BY <1>4, <1>11 DEF Action
  <2> HIDE DEF sv, ov, row
  <2>2. ov = sv
    BY <1>2, <2>1 DEF ValueAgrees
  <2> QED BY <1>11, <2>2 DEF CellIsTight
<1> QED BY <1>3, <1>7, <1>8, <1>9, <1>10, <1>11 DEF Fields

SamePair(sv, su, ov, ou) == (sv = su) <=> (ov = ou)

\* Mapping rows give equal pseudonyms to equal originals only.
LEMMA MappedPair ==
  ASSUME NEW rows, NEW tokens, NEW blank, IsMapping(rows, tokens), blank \cap tokens = {},
         NEW sv, NEW su, NEW ov, NEW ou,
         Answered(rows, blank, sv, ov), Answered(rows, blank, su, ou)
  PROVE  SamePair(sv, su, ov, ou)
<1> SUFFICES (sv = su) <=> (ov = ou)
  BY DEF SamePair
<1>0. /\ sv \in blank => ov = sv
      /\ sv \notin blank => \E r \in rows : r[1] = sv /\ r[2] = ov
      /\ su \in blank => ou = su
      /\ su \notin blank => \E r \in rows : r[1] = su /\ r[2] = ou
  BY DEF Answered
<1>1. \A r \in rows : r[2] \in tokens
  BY DEF IsMapping
<1>2. \A r, s \in rows : r[1] = s[1] \/ r[2] = s[2] => r = s
  BY DEF IsMapping
<1>3. CASE sv \in blank /\ su \in blank
  BY <1>0, <1>3
<1>4. CASE sv \in blank /\ su \notin blank
  BY <1>0, <1>1, <1>4
<1>5. CASE sv \notin blank /\ su \in blank
  BY <1>0, <1>1, <1>5
<1>6. CASE sv \notin blank /\ su \notin blank
  <2>1. PICK r \in rows : r[1] = sv /\ r[2] = ov
    BY <1>0, <1>6
  <2>2. PICK s \in rows : s[1] = su /\ s[2] = ou
    BY <1>0, <1>6
  <2>3. sv = su => r = s
    BY <1>2, <2>1, <2>2
  <2>4. ov = ou => r = s
    BY <1>2, <2>1, <2>2
  <2> QED BY <2>1, <2>2, <2>3, <2>4
<1> QED BY <1>3, <1>4, <1>5, <1>6

\* The tables of an untouched writer, read as the accepted ones.
LEMMA AcceptedTables ==
  ASSUME Inv, Accepted, "writer" \notin faults
  PROVE  FaithfulTables(output.tables)
BY AcceptedCodes, AcceptedParts DEF Inv, PublishedInv, WriterIsSound, ClaimIsFaithful

LEMMA AcceptedHides ==
  ASSUME Inv, Accepted, ~({"writer", "vault"} \subseteq faults),
         NEW t, NEW i, NEW f, AcceptedCell(t, i, f)
  PROVE  /\ f \in {"text", "key", "memo", "date"} =>
               Hides(f, Value(t, i, f), output.tables[t][i].values[f])
         /\ f = "keep" => output.tables[t][i].values[f] = Value(t, i, f)
<1> DEFINE sv == Value(t, i, f)
           ov == output.tables[t][i].values[f]
<1>1. t \in Tables /\ i \in Rows(t) /\ f \in case.fields[t]
  BY DEF AcceptedCell
<1>2. CASE "writer" \notin faults
  BY <1>1, <1>2, AcceptedTables DEF FaithfulTables
<1>3. CASE "vault" \notin faults
  <2>1. CellIsTight(f, sv, ov)
    BY <1>3, TightCell
  <2> HIDE DEF sv, ov
  <2>2. /\ f \in {"text", "key", "memo", "date"} => Hides(f, sv, ov)
        /\ f = "keep" => ov = sv
    BY <2>1 DEF Hides, CopiedAsIs, CellIsTight, Answered
  <2> QED BY <2>2 DEF sv, ov
<1> QED BY <1>2, <1>3

LEMMA AcceptedPairs ==
  ASSUME Inv, Accepted, ~({"writer", "vault"} \subseteq faults),
         NEW t, NEW i, NEW u, NEW j, NEW f \in {"text", "key"},
         AcceptedCell(t, i, f), AcceptedCell(u, j, f)
  PROVE  SamePair(Value(t, i, f), Value(u, j, f),
                  output.tables[t][i].values[f], output.tables[u][j].values[f])
<1> DEFINE sv == Value(t, i, f)
           su == Value(u, j, f)
           ov == output.tables[t][i].values[f]
           ou == output.tables[u][j].values[f]
<1>1. /\ t \in Tables /\ i \in Rows(t) /\ f \in case.fields[t]
      /\ u \in Tables /\ j \in Rows(u) /\ f \in case.fields[u]
  BY DEF AcceptedCell
<1>2. CASE "writer" \notin faults
  <2>1. f \in case.fields[t] \cap case.fields[u] \cap {"text", "key"}
    BY <1>1
  <2>2. \A x, y \in Tables : \A k \in Rows(x), m \in Rows(y) :
           \A g \in case.fields[x] \cap case.fields[y] \cap {"text", "key"} :
              (Value(x, k, g) = Value(y, m, g)) <=>
              (output.tables[x][k].values[g] = output.tables[y][m].values[g])
    BY <1>2, AcceptedTables DEF FaithfulTables
  <2> QED BY <1>1, <2>1, <2>2 DEF SamePair
<1>3. CASE "vault" \notin faults
  <2>1. IsMapping(vault.text, TokensOf["text"]) /\ IsMapping(vault.key, TokensOf["key"])
    BY <1>3 DEF Inv, TightInv
  <2>2. CellIsTight(f, sv, ov) /\ CellIsTight(f, su, ou)
    BY <1>3, TightCell
  <2>3. {Null, ""} \cap TokensOf["text"] = {} /\ {Null} \cap TokensOf["key"] = {}
    BY TokenAssumption
  <2> HIDE DEF sv, su, ov, ou
  <2>4. CASE f = "text"
    <3>1. Answered(vault.text, {Null, ""}, sv, ov) /\ Answered(vault.text, {Null, ""}, su, ou)
      BY <2>2, <2>4 DEF CellIsTight
    <3> QED BY <2>1, <2>3, <3>1, MappedPair DEF sv, su, ov, ou
  <2>5. CASE f = "key"
    <3>1. Answered(vault.key, {Null}, sv, ov) /\ Answered(vault.key, {Null}, su, ou)
      BY <2>2, <2>5 DEF CellIsTight
    <3> QED BY <2>1, <2>3, <3>1, MappedPair DEF sv, su, ov, ou
  <2> QED BY <2>4, <2>5
<1> QED BY <1>2, <1>3

LEMMA FaithfulFollows ==
  ASSUME Inv
  PROVE  AcceptedIsFaithful
<1> DEFINE Cells(f) == {c \in Tables \X (1..MaxRecords) :
                          f \in case.fields[c[1]] /\ c[2] <= Len(output.tables[c[1]])}
           In(c, f) == source.tables[c[1]][c[2]].values[f]
           Out(c, f) == output.tables[c[1]][c[2]].values[f]
<1> SUFFICES ASSUME Accepted, ~({"writer", "vault"} \subseteq faults)
             PROVE  /\ \A t \in Tables :
                          Len(output.tables[t]) \in {Len(source.tables[t]) - 1, Len(source.tables[t])}
                    /\ \A f \in {"text", "key", "memo", "date"} : \A c \in Cells(f) :
                          IF In(c, f) \in CopiedAsIs(f) THEN Out(c, f) = In(c, f)
                                                     ELSE Out(c, f) # In(c, f)
                    /\ \A c \in Cells("keep") : Out(c, "keep") = In(c, "keep")
                    /\ \A f \in {"text", "key"} : \A c, d \in Cells(f) :
                          (In(c, f) = In(d, f)) = (Out(c, f) = Out(d, f))
  BY DEF AcceptedIsFaithful
<1>1. \A t \in Tables : source.tables = Source
  BY AcceptedTable
<1>2. \A t \in Tables : Len(output.tables[t]) \in {Len(source.tables[t]) - 1, Len(source.tables[t])}
  BY AcceptedTable
<1>3. ASSUME NEW f, NEW c \in Cells(f)
      PROVE  AcceptedCell(c[1], c[2], f) /\ In(c, f) = Value(c[1], c[2], f)
  <2>1. /\ c[1] \in Tables /\ c[2] \in 1..MaxRecords /\ f \in case.fields[c[1]]
        /\ c[2] <= Len(output.tables[c[1]])
    OBVIOUS
  <2>2. Len(output.tables[c[1]]) \in Nat /\ MaxRecords \in Nat
    BY <2>1, AcceptedTable, SequenceDomain, BoundsAssumption
  <2> DEFINE n == Len(output.tables[c[1]])
             k == c[2]
  <2> HIDE DEF n, k
  <2>3. k \in 1..n
    <3>1. k \in 1..MaxRecords /\ k <= n /\ n \in Nat /\ MaxRecords \in Nat
      BY <2>1, <2>2 DEF n, k
    <3> QED BY <3>1
  <2>4. c[2] \in 1..Len(output.tables[c[1]])
    BY <2>3 DEF n, k
  <2>5. c[2] \in Rows(c[1])
    BY <2>1, <2>4, AcceptedTable
  <2> QED BY <1>1, <2>1, <2>5 DEF AcceptedCell, Value
<1>4. ASSUME NEW f \in {"text", "key", "memo", "date"}, NEW c \in Cells(f)
      PROVE  IF In(c, f) \in CopiedAsIs(f) THEN Out(c, f) = In(c, f) ELSE Out(c, f) # In(c, f)
  <2>1. AcceptedCell(c[1], c[2], f) /\ In(c, f) = Value(c[1], c[2], f)
    BY <1>3
  <2>2. Hides(f, Value(c[1], c[2], f), Out(c, f))
    BY <2>1, AcceptedHides
  <2> HIDE DEF In, Out
  <2> QED BY <2>1, <2>2 DEF Hides
<1>5. ASSUME NEW c \in Cells("keep")
      PROVE  Out(c, "keep") = In(c, "keep")
  <2>1. AcceptedCell(c[1], c[2], "keep") /\ In(c, "keep") = Value(c[1], c[2], "keep")
    BY <1>3
  <2>2. Out(c, "keep") = Value(c[1], c[2], "keep")
    BY <2>1, AcceptedHides
  <2> QED BY <2>1, <2>2
<1>6. ASSUME NEW f \in {"text", "key"}, NEW c \in Cells(f), NEW d \in Cells(f)
      PROVE  (In(c, f) = In(d, f)) = (Out(c, f) = Out(d, f))
  <2>1. AcceptedCell(c[1], c[2], f) /\ In(c, f) = Value(c[1], c[2], f)
    BY <1>3
  <2>2. AcceptedCell(d[1], d[2], f) /\ In(d, f) = Value(d[1], d[2], f)
    BY <1>3
  <2>3. SamePair(Value(c[1], c[2], f), Value(d[1], d[2], f), Out(c, f), Out(d, f))
    BY <2>1, <2>2, AcceptedPairs
  <2> HIDE DEF In, Out
  <2> QED BY <2>1, <2>2, <2>3 DEF SamePair
<1> HIDE DEF Cells, In, Out
<1> QED BY <1>2, <1>4, <1>5, <1>6

\* What verify_dataset accepts hides every original, keeps what is to be
\* kept and joins the same records, for every source, whatever the writer
\* wrote or whatever somebody changed afterwards.
THEOREM FaithfulTheorem == Spec => []AcceptedIsFaithful
BY Invariance, FaithfulFollows, PTL

-----------------------------------------------------------------------------
(* An accepted dataset can be recovered.                                   *)

LEMMA SilentDomain ==
  ASSUME NEW d, VerifyDomain(vault, d) \subseteq PartialCodes
  PROVE  VerifyDomain(vault, d) = {}
<1> DEFINE kind == vault.domains[d]
           A == ~IsBijection(vault.text) \/ \E r \in vault.text : r[1] = ""
           B == ~IsBijection(vault.key)
           C == temporal_offset(vault, d) = 0
<1>1. VerifyDomain(vault, d) = CASE kind = "TEXT" -> If(A, "VAULT_MAPPING_INVALID")
                                 [] kind = "NUMERIC_KEY" -> If(B, "VAULT_MAPPING_INVALID")
                                 [] kind = "TEMPORAL" -> If(C, "VAULT_UNREADABLE")
                                 [] OTHER -> {"VAULT_MAPPING_INVALID"}
  BY DEF VerifyDomain
<1>2. "VAULT_MAPPING_INVALID" \notin PartialCodes /\ "VAULT_UNREADABLE" \notin PartialCodes
  BY DEF PartialCodes
<1> HIDE DEF kind, A, B, C
<1>3. CASE kind = "TEXT"
  BY <1>1, <1>2, <1>3 DEF If
<1>4. CASE kind = "NUMERIC_KEY"
  BY <1>1, <1>2, <1>4 DEF If
<1>5. CASE kind = "TEMPORAL"
  BY <1>1, <1>2, <1>5 DEF If
<1>6. CASE kind \notin {"TEXT", "NUMERIC_KEY", "TEMPORAL"}
  BY <1>1, <1>2, <1>6
<1> QED BY <1>3, <1>4, <1>5, <1>6

LEMMA SilentLedger ==
  ASSUME NEW t, NEW fields, VerifyLedger(vault, t, fields) \subseteq PartialCodes
  PROVE  /\ VerifyLedger(vault, t, fields) = {}
         /\ \A f \in fields : BindingIsCoherent(vault, vault.ledger[<<t, f>>])
<1> DEFINE A == \E f \in fields : <<t, f>> \notin DOMAIN vault.ledger
           B == \E f \in fields : /\ <<t, f>> \in DOMAIN vault.ledger
                                  /\ ~BindingIsCoherent(vault, vault.ledger[<<t, f>>])
<1>1. VerifyLedger(vault, t, fields) =
         If(A, "POLICY_BINDING_MISSING") \cup If(B, "POLICY_BINDING_MISMATCH")
  BY DEF VerifyLedger
<1>2. "POLICY_BINDING_MISSING" \notin PartialCodes /\ "POLICY_BINDING_MISMATCH" \notin PartialCodes
  BY DEF PartialCodes
<1>3. ~A /\ ~B
  <2> HIDE DEF A, B
  <2> QED BY <1>1, <1>2 DEF If
<1>4. VerifyLedger(vault, t, fields) = {}
  <2> HIDE DEF A, B
  <2> QED BY <1>1, <1>3 DEF If
<1> QED BY <1>3, <1>4

LEMMA SilentVault ==
  ASSUME Inv, Accepted
  PROVE  LET op == completed_operation(vault, OperationId(vault.dataset, Place))
         IN /\ op.state = "COMPLETED" /\ IdentitiesAgree(vault, op, Place) /\ op.output = output
            /\ \E r \in op.receipt : /\ r.operation = OperationId(vault.dataset, Place)
                                     /\ r.output = op.output
            /\ \A d \in DOMAIN vault.domains : VerifyDomain(vault, d) = {}
<1> DEFINE op == completed_operation(vault, claim.operation)
           V == VerifyVault(vault, claim)
           I == ~IdentitiesAgree(vault, op, claim.place) \/ op.output # claim.output
           R == VerifyReceipt(vault, claim, op.receipt)
           S == If(vault.dataset.source # claim.source, "VAULT_IDENTITY_MISMATCH")
<1>1. /\ claim.operation = OperationId(vault.dataset, Place) /\ claim.place = Place
      /\ output = claim.output /\ V \subseteq PartialCodes
  BY AcceptedCodes, AcceptedParts DEF Inv, PublishedInv, ClaimIsDerived
<1>2. V = S \cup IF op.state # "COMPLETED" THEN {"OPERATION_NOT_COMPLETED"}
                 ELSE If(I, "VAULT_IDENTITY_MISMATCH") \cup R
  BY DEF VerifyVault
<1>3. /\ "OPERATION_NOT_COMPLETED" \notin PartialCodes /\ "VAULT_IDENTITY_MISMATCH" \notin PartialCodes
      /\ "RECEIPT_IDENTITY_MISMATCH" \notin PartialCodes
      /\ "RECEIPT_FINGERPRINT_MISMATCH" \notin PartialCodes
  BY DEF PartialCodes
<1>4. op.state = "COMPLETED" /\ ~I /\ R \subseteq PartialCodes
  <2> HIDE DEF V, S, I, R, op
  <2> QED BY <1>1, <1>2, <1>3 DEF If
<1> DEFINE P(r) == If(r.operation # claim.operation \/ r.index # claim.index,
                      "RECEIPT_IDENTITY_MISMATCH")
           F(r) == If(r.output # claim.output, "RECEIPT_FINGERPRINT_MISMATCH")
           W(r) == P(r) \cup F(r) \cup VerifyAssurance(claim, r.relations)
           All == UNION {W(r) : r \in op.receipt}
           Dom == UNION {VerifyDomain(vault, d) : d \in DOMAIN vault.domains}
<1>5. R = IF op.receipt = {} THEN {"RECEIPT_IDENTITY_MISMATCH"} ELSE All \cup Dom
  BY Zenon DEF VerifyReceipt
<1>6. op.receipt # {} /\ All \subseteq PartialCodes /\ Dom \subseteq PartialCodes
  <2> HIDE DEF R, All, Dom, op
  <2> QED BY <1>3, <1>4, <1>5
<1>7. PICK r \in op.receipt : TRUE
  BY <1>6
<1>8. P(r) \subseteq PartialCodes /\ F(r) \subseteq PartialCodes
  <2>1. W(r) \subseteq All
    <3> HIDE DEF W
    <3> QED BY DEF All
  <2>2. P(r) \subseteq W(r) /\ F(r) \subseteq W(r)
    <3> HIDE DEF P, F
    <3> QED OBVIOUS
  <2> HIDE DEF W, P, F, All
  <2> QED BY <1>6, <2>1, <2>2
<1>9. r.operation = claim.operation /\ r.output = claim.output
  BY <1>3, <1>8, IfIsSilent
<1>10. ASSUME NEW d \in DOMAIN vault.domains PROVE VerifyDomain(vault, d) = {}
  <2>1. VerifyDomain(vault, d) \subseteq Dom
    BY DEF Dom
  <2>2. VerifyDomain(vault, d) \subseteq PartialCodes
    <3> HIDE DEF Dom
    <3> QED BY <1>6, <2>1
  <2> QED BY <2>2, SilentDomain
<1>11. /\ op = completed_operation(vault, OperationId(vault.dataset, Place))
       /\ IdentitiesAgree(vault, op, Place) /\ op.output = output
  BY <1>1, <1>4
<1> HIDE DEF op
<1>12. \E s \in op.receipt : s.operation = OperationId(vault.dataset, Place) /\ s.output = op.output
  BY <1>1, <1>9, <1>11
<1> QED BY <1>4, <1>10, <1>11, <1>12

\* A temporal domain that is accepted has its offset: with an honest writer
\* the days of the tree are not those of the source.
LEMMA OffsetIsKnown ==
  ASSUME Inv, Accepted, ~({"writer", "vault"} \subseteq faults),
         TemporalDomain \in DOMAIN vault.domains
  PROVE  vault.offset \in Int
<1>1. vault.offset = Null \/ vault.offset \in Int
  BY DEF Inv, LooseInv
<1>2. CASE "vault" \notin faults
  BY <1>1, <1>2 DEF Inv, TightInv
<1>3. CASE "writer" \notin faults
  <2> SUFFICES ASSUME vault.offset = Null PROVE FALSE
    BY <1>1
  <2>1. PICK d \in Int : IsDay(d)
    BY DEF Inv, LooseInv
  <2>2. PICK t \in Tables : "date" \in case.fields[t] /\ \E i \in Rows(t) : Value(t, i, "date") = d
    BY <2>1 DEF IsDay
  <2>3. PICK i \in Rows(t) : Value(t, i, "date") = d
    BY <2>2
  <2>4. output.tables[t] = [k \in Rows(t) |-> output.tables[t][k]]
    BY <1>3, AcceptedTables DEF FaithfulTables
  <2>5. Len(Source[t]) \in Nat
    BY AcceptedTable, SequenceDomain
  <2>6. Len(output.tables[t]) = Len(Source[t])
    BY <2>4, <2>5, SequenceLength DEF Rows
  <2>7. AcceptedCell(t, i, "date")
    <3> DEFINE n == Len(Source[t])
    <3>1. i \in 1..n /\ n \in Nat
      BY <2>5 DEF Rows
    <3> HIDE DEF n
    <3>2. i <= n
      BY <3>1
    <3> QED BY <2>2, <2>6, <3>2 DEF AcceptedCell, n
  <2> DEFINE row == vault.ledger[<<t, "date">>]
             ov == output.tables[t][i].values["date"]
  <2>8. <<t, "date">> \in DOMAIN vault.ledger /\ ValueAgrees(t, i, row, d, ov)
    BY <2>3, <2>7, CellAgrees
  <2>9. Hides("date", d, ov)
    BY <2>3, <2>7, AcceptedHides
  <2>10. ov # d
    BY <2>1, <2>9, CalendarAssumption DEF Hides, CopiedAsIs
  <2>11. pc \in After
    BY AcceptedCodes
  <2>12. /\ row.action \in {"SHIFT_REVERSIBLE", "KEEP"}
         /\ row.action = "SHIFT_REVERSIBLE" => row.domain = TemporalDomain
    <3>1. row.action \in {Action("date"), "KEEP"}
      BY <2>8 DEF Inv, LooseInv
    <3>2. row.action = "SHIFT_REVERSIBLE" => row.domain = TemporalDomain
      BY <2>8, <2>11 DEF Inv, LooseInv
    <3> QED BY <3>1, <3>2 DEF Action
  <2> HIDE DEF row, ov
  <2>13. CASE row.action = "KEEP"
    BY <2>8, <2>10, <2>13 DEF ValueAgrees
  <2>14. CASE row.action = "SHIFT_REVERSIBLE"
    <3>1. temporal_offset(vault, row.domain) = Null
      BY <2>12, <2>14 DEF temporal_offset
    <3> QED BY <2>8, <2>10, <2>14, <3>1 DEF ValueAgrees
  <2> QED BY <2>12, <2>13, <2>14
<1> QED BY <1>2, <1>3

LEMMA AuthorityFollows ==
  ASSUME Inv, Accepted, ~({"writer", "vault"} \subseteq faults)
  PROVE  /\ AuthorityHolds(vault, output, Place)
         /\ \A d \in DOMAIN vault.domains : DomainIsReversible(vault, d)
<1> DEFINE id == OperationId(vault.dataset, Place)
           op == completed_operation(vault, id)
<1>1. /\ op.state = "COMPLETED" /\ IdentitiesAgree(vault, op, Place) /\ op.output = output
      /\ \E r \in op.receipt : r.operation = id /\ r.output = op.output
      /\ \A d \in DOMAIN vault.domains : VerifyDomain(vault, d) = {}
  BY SilentVault
<1>2. pc \in After
  BY AcceptedCodes
<1>3. ASSUME NEW d \in DOMAIN vault.domains PROVE DomainIsReversible(vault, d)
  <2>1. d \in {TextDomain, KeyDomain, TemporalDomain} /\ vault.domains[d] \in {Kind(d), "BOGUS"}
    BY DEF Inv, LooseInv
  <2>2. vault.domains[d] = "TEMPORAL" => d = TemporalDomain
    BY <2>1 DEF Kind, TextDomain, KeyDomain, TemporalDomain
  <2>3. d = TemporalDomain => temporal_offset(vault, d) # Null
    BY OffsetIsKnown, CalendarAssumption DEF temporal_offset
  <2> QED BY <1>1, <2>2, <2>3 DEF DomainIsReversible
<1>4. vault.tables = Tables
  BY <1>2 DEF Inv, LooseInv
<1>5. \A t \in vault.tables : VerifyLedger(vault, t, output.fields[t]) = {}
  BY <1>4, AcceptedTable, SilentLedger
<1> HIDE DEF op, id
<1>6. AuthorityHolds(vault, output, Place)
  BY <1>1, <1>3, <1>5 DEF AuthorityHolds, op, id
<1> QED BY <1>3, <1>6

\* A value without a finding can be had back.
LEMMA ReverseOfAccepted ==
  ASSUME Inv, Accepted, ~({"writer", "vault"} \subseteq faults),
         NEW t, NEW i, NEW f, AcceptedCell(t, i, f)
  PROVE  ReverseValue(vault, t, i, vault.ledger[<<t, f>>], output.tables[t][i].values[f])
         = Value(t, i, f)
<1> DEFINE sv == Value(t, i, f)
           ov == output.tables[t][i].values[f]
           row == vault.ledger[<<t, f>>]
<1>1. t \in Tables /\ i \in Rows(t) /\ f \in case.fields[t] /\ pc \in After
  BY AcceptedCodes DEF AcceptedCell
<1>2. <<t, f>> \in DOMAIN vault.ledger /\ ValueAgrees(t, i, row, sv, ov)
  BY CellAgrees
<1>3. /\ row.action \in {Action(f), "KEEP"}
      /\ row.action = "SHIFT_REVERSIBLE" => row.domain = TemporalDomain
  <2>1. row.action \in {Action(f), "KEEP"}
    BY <1>2 DEF Inv, LooseInv
  <2>2. row.action = "SHIFT_REVERSIBLE" => row.domain = TemporalDomain
    BY <1>1, <1>2 DEF Inv, LooseInv
  <2> QED BY <2>1, <2>2
<1>4. BindingIsCoherent(vault, row)
  BY <1>1, AcceptedTable, SilentLedger
<1>5. "date" \in case.fields[t] => Value(t, i, "date") = Null \/ Value(t, i, "date") \in Int
  BY <1>1 DEF Inv, StageInv, SourceIsWellFormed
<1>6. f = "date" => sv = Null \/ sv \in Int
  BY <1>1, <1>5
<1>7. \A r \in vault.text : r[2] # ""
  BY TokenAssumption, ZenonT(60) DEF Inv, LooseInv
<1> SUFFICES ReverseValue(vault, t, i, row, ov) = sv
  OBVIOUS
<1> HIDE DEF sv, ov, row
<1>8. row.action \in {"KEEP", "MASK_REVERSIBLE", "SHIFT_REVERSIBLE", "PSEUDONYMIZE_REVERSIBLE"}
  BY <1>2 DEF ValueAgrees
<1>9. CASE row.action = "KEEP"
  BY <1>2, <1>9 DEF ValueAgrees, ReverseValue
<1>10. CASE row.action = "MASK_REVERSIBLE"
  <2>1. ReverseValue(vault, t, i, row, ov) =
           IF ov = Null THEN Null ELSE OrIrreversible(memo_recovery_row(vault, t, i))
    BY <1>10 DEF ReverseValue
  <2>2. /\ sv = Null => ov = Null
        /\ sv # Null => ov # Null /\ memo_recovery_row(vault, t, i) = sv
    BY <1>2, <1>10 DEF ValueAgrees
  <2> QED BY <2>1, <2>2 DEF OrIrreversible
<1>11. CASE row.action = "SHIFT_REVERSIBLE"
  <2>1. row.domain = TemporalDomain /\ TemporalDomain # Null
    BY <1>3, <1>11, NullAssumption
  <2>2. f = "date"
    BY <1>3, <1>11 DEF Action
  <2>3. domain_kind(vault, row.domain) = "TEMPORAL"
    BY <1>4, <1>11, <2>1 DEF BindingIsCoherent
  <2>4. TemporalDomain \in DOMAIN vault.domains
    BY <2>1, <2>3, NullAssumption DEF domain_kind
  <2>5. vault.offset \in Int /\ vault.offset # Null
    BY <2>4, OffsetIsKnown, CalendarAssumption
  <2>6. temporal_offset(vault, row.domain) = vault.offset
    BY <2>1 DEF temporal_offset
  <2>7. ov = temporal_shift(sv, vault.offset)
    BY <1>2, <1>11, <2>5, <2>6 DEF ValueAgrees
  <2>8. ReverseValue(vault, t, i, row, ov) = temporal_shift(ov, -vault.offset)
    BY <1>11, <2>1, <2>5, <2>6 DEF ReverseValue
  <2>9. temporal_shift(temporal_shift(sv, vault.offset), -vault.offset) = sv
    BY <1>6, <2>2, <2>5, ShiftFacts
  <2> QED BY <2>7, <2>8, <2>9
<1>12. CASE row.action = "PSEUDONYMIZE_REVERSIBLE" /\ domain_kind(vault, row.domain) = "NUMERIC_KEY"
  <2>1. ReverseValue(vault, t, i, row, ov) =
           IF ov = Null THEN Null ELSE OrIrreversible(numeric_original(vault, row.domain, ov))
    BY <1>12 DEF ReverseValue
  <2>2. /\ sv = Null => ov = Null
        /\ sv # Null => ov # Null /\ numeric_original(vault, row.domain, ov) = sv
    BY <1>2, <1>12 DEF ValueAgrees
  <2> QED BY <2>1, <2>2 DEF OrIrreversible
<1>13. CASE row.action = "PSEUDONYMIZE_REVERSIBLE" /\ domain_kind(vault, row.domain) # "NUMERIC_KEY"
  <2>1. ReverseValue(vault, t, i, row, ov) =
           IF ov = Null THEN Null
           ELSE IF ov = "" THEN ov
           ELSE OrIrreversible(text_original(vault, row.domain, ov))
    BY <1>13 DEF ReverseValue
  <2>2. /\ sv \in {Null, ""} => ov = sv
        /\ sv \notin {Null, ""} => ov # Null /\ text_original(vault, row.domain, ov) = sv
    BY <1>2, <1>13 DEF ValueAgrees
  <2>3. CASE sv \in {Null, ""}
    BY <2>1, <2>2, <2>3
  <2>4. CASE sv \notin {Null, ""}
    <3>1. sv # Null /\ Original(vault.text, ov) = sv
      BY <2>2, <2>4 DEF text_original
    <3>2. \E r \in vault.text : r[1] = sv /\ r[2] = ov
      BY <3>1, OriginalFacts
    <3>3. ov # ""
      BY <1>7, <3>2
    <3> QED BY <2>1, <2>2, <2>4, <3>3 DEF OrIrreversible
  <2> QED BY <2>3, <2>4
<1> QED BY <1>8, <1>9, <1>10, <1>11, <1>12, <1>13

LEMMA RecoverableFollows ==
  ASSUME Inv
  PROVE  VerifiedIsRecoverable
<1> SUFFICES ASSUME Accepted, ~({"writer", "vault"} \subseteq faults)
             PROVE  /\ AuthorityHolds(vault, output, Place)
                    /\ \A t \in Tables : RecoveredRecords(vault, t, output) =
                          SubSeq(source.tables[t], 1, Len(output.tables[t]))
  BY DEF VerifiedIsRecoverable
<1>1. AuthorityHolds(vault, output, Place)
  BY AuthorityFollows
<1>2. ASSUME NEW t \in Tables
      PROVE  RecoveredRecords(vault, t, output) =
                SubSeq(source.tables[t], 1, Len(output.tables[t]))
  <2> DEFINE n == Len(output.tables[t])
             s == Source[t]
             Back(i) == [deleted |-> output.tables[t][i].deleted,
                         values |-> [f \in case.fields[t] |->
                            ReverseValue(vault, t, i, vault.ledger[<<t, f>>],
                                         output.tables[t][i].values[f])]]
  <2>1. /\ source.tables = Source /\ output.fields = case.fields
        /\ IsSequence(output.tables[t]) /\ IsSequence(s)
    BY AcceptedTable
  <2>2. n \in Nat /\ Len(s) \in Nat
    BY <2>1, SequenceDomain
  <2>3. RecoveredRecords(vault, t, output) = [i \in 1..n |-> Back(i)]
    BY <2>1 DEF RecoveredRecords
  <2>4. ASSUME NEW i \in 1..n PROVE Back(i) = s[i]
    <3>1. i \in Rows(t) /\ s[i].deleted = output.tables[t][i].deleted
      BY AcceptedTable
    <3>2. i <= n
      <4> HIDE DEF n
      <4> QED BY <2>2
    <3>3. ASSUME NEW f \in case.fields[t]
          PROVE  ReverseValue(vault, t, i, vault.ledger[<<t, f>>], output.tables[t][i].values[f])
                 = Value(t, i, f)
      <4>1. AcceptedCell(t, i, f)
        BY <3>1, <3>2 DEF AcceptedCell
      <4> QED BY <4>1, ReverseOfAccepted
    <3>4. /\ s[i] = [deleted |-> s[i].deleted, values |-> s[i].values]
          /\ s[i].values = [f \in case.fields[t] |-> Value(t, i, f)]
      BY <3>1 DEF Inv, StageInv, SourceIsWellFormed
    <3>5. [f \in case.fields[t] |->
             ReverseValue(vault, t, i, vault.ledger[<<t, f>>], output.tables[t][i].values[f])]
          = s[i].values
      BY <3>3, <3>4
    <3> QED BY <3>1, <3>4, <3>5
  <2> HIDE DEF n, s, Back
  <2>5. SubSeq(s, 1, n) = [i \in 1..n |-> s[i]]
    <3>1. \A i \in 1..n : (i + 1) - 1 = i /\ 1 + i - 1 = i
      BY <2>2
    <3>2. 1..(n - 1 + 1) = 1..n
      BY <2>2
    <3> QED BY <2>2, <3>1, <3>2
  <2>6. RecoveredRecords(vault, t, output) = SubSeq(s, 1, n)
    BY <2>3, <2>4, <2>5
  <2> QED BY <2>1, <2>6 DEF n, s
<1> QED BY <1>1, <1>2

\* What verify_dataset accepts can be recovered: recovery.py's own checks
\* hold, and the reverse of the tree is the source, record for record.
THEOREM RecoverableTheorem == Spec => []VerifiedIsRecoverable
BY Invariance, RecoverableFollows, PTL

-----------------------------------------------------------------------------
(* A clean run is accepted.                                                *)

LEMMA Bijective ==
  ASSUME NEW rows, NEW tokens, IsMapping(rows, tokens)
  PROVE  IsBijection(rows)
<1> DEFINE first == [r \in rows |-> r[1]]
           second == [r \in rows |-> r[2]]
           A == {r[1] : r \in rows}
           B == {r[2] : r \in rows}
<1>1. IsFiniteSet(rows) /\ \A r, s \in rows : r[1] = s[1] \/ r[2] = s[2] => r = s
  BY DEF IsMapping
<1>2. first \in [rows -> A] /\ second \in [rows -> B]
  OBVIOUS
<1>3. /\ \A a \in A : \E r \in rows : first[r] = a
      /\ \A b \in B : \E r \in rows : second[r] = b
      /\ \A r, s \in rows : first[r] = first[s] => r = s
      /\ \A r, s \in rows : second[r] = second[s] => r = s
  BY <1>1
<1> HIDE DEF first, second, A, B
<1>4. first \in Bijection(rows, A) /\ second \in Bijection(rows, B)
  BY <1>2, <1>3 DEF Bijection, Injection, Surjection, IsInjective
<1>5. Cardinality(A) = Cardinality(rows) /\ Cardinality(B) = Cardinality(rows)
  BY <1>1, <1>4, FS_Bijection DEF ExistsBijection
<1> QED BY <1>5 DEF IsBijection, A, B

\* What is known when nothing went wrong.
LEMMA CleanFacts ==
  ASSUME Inv, faults = {}, pc \in After
  PROVE  /\ source = Planned /\ claim.source = Planned /\ output = claim.output
         /\ source.tables = Source /\ source.fields = case.fields /\ DOMAIN Source = Tables
         /\ output = TreeOf(output.tables)
         /\ output.tables = [t \in Tables |-> Pseudonymized(t)]
         /\ \A t \in Tables : HasItsRows(t)
         /\ Sound
<1>1. "vault" \notin faults /\ "source" \notin faults /\ {"writer", "vault"} \cap faults = {}
      /\ {"tree", "race"} \cap faults = {}
  OBVIOUS
<1>2. ClaimIsDerived /\ TreeIsPass2 /\ TreeIsClaimed
  BY DEF Inv, PublishedInv
<1>3. /\ claim.output.tables = [t \in Tables |-> Pseudonymized(t)]
      /\ \A t \in Tables : HasItsRows(t)
      /\ output = claim.output
  BY <1>1, <1>2 DEF TreeIsPass2, TreeIsClaimed
<1>4. source = Planned /\ Planned = [tables |-> Source, fields |-> case.fields]
      /\ Source = [t \in Tables |-> Source[t]]
  BY <1>1 DEF Inv, StageInv, SourceIsWellFormed
<1>5. source.tables = Source /\ source.fields = case.fields /\ DOMAIN Source = Tables
  BY <1>4
<1>6. Sound
  BY <1>1, <1>3, CleanTables DEF Inv
<1> QED BY <1>2, <1>3, <1>4, <1>5, <1>6 DEF ClaimIsDerived

\* Every domain of an untouched vault is a valid one.
LEMMA CleanDomain ==
  ASSUME Inv, faults = {}, NEW d \in DOMAIN vault.domains
  PROVE  VerifyDomain(vault, d) = {}
<1>1. "vault" \notin faults
  OBVIOUS
<1>2. /\ IsMapping(vault.text, TokensOf["text"]) /\ IsMapping(vault.key, TokensOf["key"])
      /\ \A r \in vault.text : r[1] # ""
      /\ vault.offset # 0 /\ vault.domains[d] = Kind(d)
  BY <1>1 DEF Inv, TightInv
<1>3. IsBijection(vault.text) /\ IsBijection(vault.key)
  BY <1>2, Bijective
<1>4. Null # 0
  BY CalendarAssumption
<1>5. vault.domains[d] \in {"TEXT", "NUMERIC_KEY", "TEMPORAL"} /\ temporal_offset(vault, d) # 0
  BY <1>2, <1>4 DEF Kind, temporal_offset
<1> DEFINE kind == vault.domains[d]
           A == ~IsBijection(vault.text) \/ \E r \in vault.text : r[1] = ""
           B == ~IsBijection(vault.key)
           C == temporal_offset(vault, d) = 0
<1>6. VerifyDomain(vault, d) = CASE kind = "TEXT" -> If(A, "VAULT_MAPPING_INVALID")
                                 [] kind = "NUMERIC_KEY" -> If(B, "VAULT_MAPPING_INVALID")
                                 [] kind = "TEMPORAL" -> If(C, "VAULT_UNREADABLE")
                                 [] OTHER -> {"VAULT_MAPPING_INVALID"}
  BY DEF VerifyDomain
<1>7. ~A /\ ~B /\ ~C /\ kind \in {"TEXT", "NUMERIC_KEY", "TEMPORAL"}
  BY <1>2, <1>3, <1>5
<1> HIDE DEF A, B, C, kind
<1> QED BY <1>6, <1>7 DEF If

\* A text field that has something to map has its domain.
LEMMA TextIsMapped ==
  ASSUME Inv, faults = {}, pc \in After, ~NothingToMap("text"),
         NEW t \in Tables, "text" \in case.fields[t]
  PROVE  TextDomain \in DOMAIN vault.domains
<1>1. PICK u \in Tables : /\ "text" \in case.fields[u]
                          /\ \E i \in 1..Len(Source[u]) : Source[u][i].values["text"] \notin CopiedAsIs("text")
  BY DEF NothingToMap
<1>2. PICK i \in Rows(u) : Value(u, i, "text") \notin {Null, ""}
  BY <1>1 DEF Rows, Value, CopiedAsIs
<1>3. HasItsRows(u)
  BY CleanFacts
<1>4. ~MappingMissing(vault, "text", Value(u, i, "text"))
  BY <1>1, <1>3 DEF HasItsRows
<1>5. Pseudonym(vault.text, Value(u, i, "text")) # Null
  BY <1>2, <1>4 DEF MappingMissing
<1>6. vault.text # {}
  BY <1>5 DEF Pseudonym
<1> QED BY <1>6 DEF Inv, TightInv

LEMMA CleanLedger ==
  ASSUME Inv, faults = {}, pc \in After, ~NothingToMap("text"), NEW t \in Tables
  PROVE  VerifyLedger(vault, t, case.fields[t]) = {}
<1>1. ASSUME NEW f \in case.fields[t]
      PROVE  <<t, f>> \in DOMAIN vault.ledger /\ BindingIsCoherent(vault, vault.ledger[<<t, f>>])
  <2> DEFINE row == vault.ledger[<<t, f>>]
  <2>1. /\ f \in Fields /\ <<t, f>> \in DOMAIN vault.ledger
        /\ row = LedgerRow(vault, f)
        /\ f = "key" => domain_kind(vault, KeyDomain) = "NUMERIC_KEY"
        /\ f = "date" => TemporalDomain \in DOMAIN vault.domains
    BY LedgerFacts DEF Inv
  <2>2. /\ row.action = Action(f) /\ row.domain = DirectiveDomain(vault, f) /\ row.factsAgree
    BY <2>1 DEF LedgerRow
  <2>3. Null \notin {TextDomain, KeyDomain, TemporalDomain}
    BY NullAssumption
  <2>4. \A d \in DOMAIN vault.domains : vault.domains[d] = Kind(d)
    BY DEF Inv, TightInv
  <2> SUFFICES BindingIsCoherent(vault, row)
    BY <2>1
  <2> HIDE DEF row
  <2>5. CASE f = "text"
    <3>1. TextDomain \in DOMAIN vault.domains
      BY <2>5, TextIsMapped
    <3>2. row.action = "PSEUDONYMIZE_REVERSIBLE" /\ row.domain = TextDomain
      BY <2>2, <2>5, <3>1 DEF Action, DirectiveDomain
    <3>3. domain_kind(vault, TextDomain) = "TEXT"
      BY <2>4, <3>1 DEF domain_kind, Kind, TextDomain, KeyDomain
    <3> QED BY <2>2, <2>3, <3>2, <3>3 DEF BindingIsCoherent
  <2>6. CASE f = "key"
    <3>1. row.action = "PSEUDONYMIZE_REVERSIBLE" /\ row.domain = KeyDomain
      BY <2>2, <2>6 DEF Action, DirectiveDomain
    <3> QED BY <2>1, <2>2, <2>3, <2>6, <3>1 DEF BindingIsCoherent
  <2>7. CASE f = "date"
    <3>1. row.action = "SHIFT_REVERSIBLE" /\ row.domain = TemporalDomain
      BY <2>1, <2>2, <2>7 DEF Action, DirectiveDomain
    <3>2. domain_kind(vault, TemporalDomain) = "TEMPORAL"
      BY <2>1, <2>4, <2>7 DEF domain_kind, Kind, TextDomain, KeyDomain, TemporalDomain
    <3> QED BY <2>2, <2>3, <3>1, <3>2 DEF BindingIsCoherent
  <2>8. CASE f \in {"memo", "keep"}
    <3>1. row.action \in {"KEEP", "MASK_REVERSIBLE"} /\ row.domain = Null
      BY <2>2, <2>8 DEF Action, DirectiveDomain
    <3> QED BY <2>2, <3>1 DEF BindingIsCoherent
  <2> QED BY <2>1, <2>5, <2>6, <2>7, <2>8 DEF Fields
<1> QED BY <1>1 DEF VerifyLedger, If

LEMMA CleanValue ==
  ASSUME Inv, faults = {}, pc \in After, NEW t \in Tables, NEW i \in Rows(t), NEW f \in case.fields[t]
  PROVE  VerifyValue(vault, t, i, f, Value(t, i, f), Image(vault, f, Value(t, i, f))) = {}
<1> DEFINE v == Value(t, i, f)
           row == vault.ledger[<<t, f>>]
<1>1. /\ f \in Fields /\ <<t, f>> \in DOMAIN vault.ledger
      /\ row = LedgerRow(vault, f)
      /\ f = "key" => domain_kind(vault, KeyDomain) = "NUMERIC_KEY"
      /\ f = "date" => TemporalDomain \in DOMAIN vault.domains /\ vault.offset \in Int
      /\ f = "text" => domain_kind(vault, DirectiveDomain(vault, f)) \in {Null, "TEXT"}
  BY LedgerFacts DEF Inv
<1>2. row.action = Action(f) /\ row.domain = DirectiveDomain(vault, f)
  BY <1>1 DEF LedgerRow
<1>3. ~MappingMissing(vault, f, v) /\ Sound
  BY CleanFacts DEF HasItsRows
<1>4. Null # "" /\ Null # "NUMERIC_KEY" /\ TemporalDomain # Null
  BY NullAssumption
<1>5. ASSUME NEW ov
      PROVE  VerifyValue(vault, t, i, f, v, ov) =
               CASE row.action = "KEEP" -> If(ov # v, "IDENTITY_VALUE_MISMATCH")
                 [] row.action = "MASK_REVERSIBLE" -> VerifyMemo(vault, t, i, v, ov)
                 [] row.action = "SHIFT_REVERSIBLE" -> VerifyTemporal(vault, row.domain, v, ov)
                 [] row.action = "PSEUDONYMIZE_REVERSIBLE" ->
                       IF domain_kind(vault, row.domain) = "NUMERIC_KEY"
                         THEN VerifyNumeric(vault, row.domain, v, ov)
                         ELSE VerifyText(vault, row.domain, v, ov)
                 [] OTHER -> {"POLICY_BINDING_MISMATCH"}
  BY <1>1 DEF VerifyValue
<1>6. v # Null /\ f = "memo" => memo_recovery_row(vault, t, i) = v
  <2> SUFFICES ASSUME v # Null, f = "memo" PROVE memo_recovery_row(vault, t, i) = v
    OBVIOUS
  <2>1. i <= seen[t]
    <3>1. Len(Source[t]) \in Nat
      BY SequenceDomain DEF Inv, StageInv, SourceIsWellFormed
    <3>2. seen[t] \in Nat /\ seen[t] >= Len(Source[t])
      BY DEF Inv, MemoInv, PastScan
    <3> QED BY <3>1, <3>2 DEF Rows
  <2>2. <<t, i>> \in DOMAIN vault.memo
    BY <2>1 DEF Inv, MemoInv
  <2>3. vault.memo[<<t, i>>] = v
    BY <2>2 DEF Inv, TightInv
  <2> QED BY <2>2, <2>3 DEF memo_recovery_row
<1>7. f = "date" => v = Null \/ v \in Int
  BY DEF Inv, StageInv, SourceIsWellFormed
<1>8. vault.text # {} => TextDomain \in DOMAIN vault.domains
  BY DEF Inv, TightInv
<1> DEFINE ov == Image(vault, f, v)
<1> SUFFICES VerifyValue(vault, t, i, f, v, ov) = {}
  OBVIOUS
<1> HIDE DEF v, row
<1>9. CASE f = "keep"
  <2>1. row.action = "KEEP" /\ ov = v
    BY <1>2, <1>9 DEF Action, Image
  <2> HIDE DEF ov
  <2> QED BY <1>5, <2>1 DEF If
<1>10. CASE f = "memo"
  <2>1. row.action = "MASK_REVERSIBLE" /\ ov = memo_safe_mask(v)
    BY <1>2, <1>10 DEF Action, Image
  <2>2. /\ v = Null => ov = Null
        /\ v # Null => ov # Null /\ ov # v
    BY <2>1, MaskFacts
  <2> HIDE DEF ov
  <2>3. VerifyMemo(vault, t, i, v, ov) = {}
    <3>1. CASE v = Null
      BY <2>2, <3>1 DEF VerifyMemo, If
    <3>2. CASE v # Null
      BY <1>6, <1>10, <2>1, <2>2, <3>2 DEF VerifyMemo, If
    <3> QED BY <3>1, <3>2
  <2> QED BY <1>5, <2>1, <2>3
<1>11. CASE f = "date"
  <2>1. /\ row.action = "SHIFT_REVERSIBLE" /\ row.domain = TemporalDomain
        /\ ov = temporal_shift(v, vault.offset)
    BY <1>1, <1>2, <1>11 DEF Action, DirectiveDomain, Image
  <2>2. temporal_offset(vault, row.domain) = vault.offset /\ vault.offset # 0 /\ vault.offset # Null
    BY <1>1, <1>3, <1>11, <2>1, CalendarAssumption DEF temporal_offset, Sound
  <2> HIDE DEF ov
  <2>3. VerifyTemporal(vault, row.domain, v, ov) = {}
    BY <2>1, <2>2 DEF VerifyTemporal, If
  <2> QED BY <1>5, <2>1, <2>3
<1>12. CASE f = "key"
  <2>1. /\ row.action = "PSEUDONYMIZE_REVERSIBLE" /\ row.domain = KeyDomain
        /\ ov = IF v = Null THEN v ELSE Pseudonym(vault.key, v)
    BY <1>2, <1>12 DEF Action, DirectiveDomain, Image
  <2>2. v # Null => Pseudonym(vault.key, v) # Null
    BY <1>3, <1>12 DEF MappingMissing
  <2>3. v # Null => /\ Original(vault.key, Pseudonym(vault.key, v)) = v
                    /\ Pseudonym(vault.key, v) # v
    BY <1>3, <2>2, PseudonymFacts DEF Sound
  <2> HIDE DEF ov
  <2>4. VerifyNumeric(vault, row.domain, v, ov) = {}
    BY <2>1, <2>2, <2>3 DEF VerifyNumeric, If, numeric_original
  <2> QED BY <1>1, <1>5, <1>12, <2>1, <2>4
<1>13. CASE f = "text"
  <2>1. /\ row.action = "PSEUDONYMIZE_REVERSIBLE" /\ row.domain = DirectiveDomain(vault, f)
        /\ ov = IF v \in {Null, ""} THEN v ELSE Pseudonym(vault.text, v)
    BY <1>2, <1>13 DEF Action, Image
  <2>2. v \notin {Null, ""} => Pseudonym(vault.text, v) # Null
    BY <1>3, <1>13 DEF MappingMissing
  <2>3. v \notin {Null, ""} =>
           /\ Original(vault.text, Pseudonym(vault.text, v)) = v
           /\ Pseudonym(vault.text, v) # v
           /\ vault.text # {}
    BY <1>3, <2>2, PseudonymFacts, ZenonT(60) DEF Sound
  <2>4. v \notin {Null, ""} => row.domain = TextDomain
    BY <1>8, <1>13, <2>1, <2>3 DEF DirectiveDomain
  <2>5. domain_kind(vault, row.domain) # "NUMERIC_KEY"
    BY <1>1, <1>4, <1>13, <2>1
  <2> HIDE DEF ov
  <2>6. VerifyText(vault, row.domain, v, ov) = {}
    BY <2>1, <2>2, <2>3, <2>4 DEF VerifyText, If, text_original
  <2> QED BY <1>5, <2>1, <2>5, <2>6
<1> QED BY <1>1, <1>9, <1>10, <1>11, <1>12, <1>13 DEF Fields

LEMMA CleanTable ==
  ASSUME Inv, faults = {}, pc \in After, ~NothingToMap("text"), NEW t \in Tables
  PROVE  /\ VerifyTable(vault, t, source, output) = {}
         /\ CountedRecords(vault, t, source, output) = Len(Source[t])
<1>1. /\ source.tables = Source /\ source.fields = case.fields
      /\ output = TreeOf(output.tables)
      /\ output.tables[t] = Pseudonymized(t)
  BY CleanFacts
<1>2. output.coupled = {} /\ output.odd = {}
  BY <1>1 DEF TreeOf
<1>3. t \in vault.tables
  BY DEF Inv, LooseInv
<1> DEFINE s == source.tables[t]
           o == output.tables[t]
           L == VerifyLedger(vault, t, source.fields[t])
           M == If(\E i \in 1..Scanned(s, o) : s[i].deleted # o[i].deleted, "DELETED_MARKER_MISMATCH")
           V(i, f) == VerifyValue(vault, t, i, f, s[i].values[f], o[i].values[f])
           U == UNION {UNION {V(i, f) : f \in source.fields[t]} : i \in 1..Scanned(s, o)}
           X == If(ExtraRecords(s, o), "RECORD_COUNT_MISMATCH")
<1>4. VerifyTable(vault, t, source, output) = L \cup M \cup U \cup X
  BY <1>2, <1>3, Zenon DEF VerifyTable
<1>5. Len(Source[t]) \in Nat
  BY SequenceDomain DEF Inv, StageInv, SourceIsWellFormed
<1>6. Len(o) = Len(s)
  BY <1>1, <1>5, SequenceLength DEF Pseudonymized, Rows
<1>7. Len(s) \in Nat
  BY <1>1, <1>5
<1>8. Scanned(s, o) = Len(s) /\ ~ExtraRecords(s, o)
  <2> HIDE DEF s, o
  <2> QED BY <1>6, <1>7 DEF Scanned, MinOf, ExtraRecords
<1>9. ASSUME NEW i \in 1..Scanned(s, o)
      PROVE  /\ s[i].deleted = o[i].deleted
             /\ \A f \in source.fields[t] : V(i, f) = {}
  <2>1. i \in Rows(t)
    BY <1>1, <1>8 DEF Rows
  <2>2. /\ o[i].deleted = Source[t][i].deleted
        /\ \A f \in case.fields[t] : o[i].values[f] = Image(vault, f, Value(t, i, f))
    BY <1>1, <2>1 DEF Pseudonymized
  <2>3. ASSUME NEW f \in case.fields[t]
        PROVE  V(i, f) = {}
    <3>1. VerifyValue(vault, t, i, f, Value(t, i, f), Image(vault, f, Value(t, i, f))) = {}
      BY <2>1, CleanValue
    <3> QED BY <1>1, <2>2, <3>1 DEF Value
  <2> QED BY <1>1, <2>2, <2>3
<1>10. L = {} /\ M = {} /\ X = {}
  BY <1>1, <1>8, <1>9, CleanLedger DEF If
<1>11. U = {}
  <2> HIDE DEF V, s, o
  <2> QED BY <1>9
<1>12. VerifyTable(vault, t, source, output) = {}
  <2> HIDE DEF L, M, U, X
  <2> QED BY <1>4, <1>10, <1>11
<1>13. TableIsComparable(vault, t, output)
  BY <1>2, <1>3 DEF TableIsComparable
<1> QED BY <1>1, <1>8, <1>12, <1>13 DEF CountedRecords

LEMMA CleanAssurance ==
  ASSUME NEW relations, NEW c,
         c.assurance = AssuranceOf(relations, c.authority)
  PROVE  VerifyAssurance(c, relations) = {}
<1>1. c.assurance.evidence = relations
  BY DEF AssuranceOf
<1> DEFINE verified == \A r \in relations : r.verified
           level == c.assurance.level
<1>2. level = IF relations = {} THEN "GLOBAL_EXACT_VALUE"
              ELSE IF verified THEN IF c.authority THEN "VFP_METADATA_VERIFIED"
                                    ELSE "DECLARED_RELATIONS_VERIFIED"
              ELSE "INCOMPLETE"
  BY DEF AssuranceOf
<1> DEFINE earned == IF relations = {} THEN {"GLOBAL_EXACT_VALUE"}
                     ELSE IF verified
                          THEN {"DECLARED_RELATIONS_VERIFIED"}
                               \cup IF c.authority THEN {"VFP_METADATA_VERIFIED"} ELSE {}
                     ELSE {"INCOMPLETE"}
<1>3. VerifyAssurance(c, relations) =
        If(c.assurance.evidence # relations \/ level \notin earned, "ASSURANCE_EVIDENCE_MISMATCH")
  BY DEF VerifyAssurance
<1>4. level \in earned
  <2> HIDE DEF verified, level
  <2> QED BY <1>2
<1> HIDE DEF earned, level
<1> QED BY <1>1, <1>3, <1>4 DEF If

LEMMA CleanVault ==
  ASSUME Inv, faults = {}, pc \in After
  PROVE  VerifyVault(vault, claim) = {}
<1> DEFINE op == OperationRow(claim.records, claim.assurance.evidence)
           r == [operation |-> OperationId(vault.dataset, Place), output |-> claim.output,
                 records |-> claim.records, relations |-> claim.assurance.evidence,
                 index |-> case.index]
<1>1. /\ vault.operation = op
      /\ claim.operation = OperationId(vault.dataset, Place)
      /\ claim.place = Place /\ claim.index = case.index
      /\ claim.assurance = AssuranceOf(claim.assurance.evidence, claim.authority)
  BY DEF Inv, PublishedInv, RowIsClaimed, ClaimIsDerived
<1>2. /\ op.state = "COMPLETED" /\ op.id = OperationId(vault.dataset, Place)
      /\ op.dataset = vault.dataset /\ op.vault = VaultFingerprint(vault) /\ op.place = Place
      /\ op.binding = BindingFingerprint(vault, Place) /\ op.output = claim.output
      /\ op.receipt = {r}
  BY DEF OperationRow
<1>3. vault.dataset.source = claim.source
  BY CleanFacts DEF Planned
<1>4. /\ r.operation = OperationId(vault.dataset, Place) /\ r.index = case.index
      /\ r.output = claim.output /\ r.relations = claim.assurance.evidence
  OBVIOUS
<1> HIDE DEF op, r
<1>5. completed_operation(vault, claim.operation) = op
  BY <1>1, <1>2 DEF completed_operation
<1>6. IdentitiesAgree(vault, op, claim.place)
  BY <1>1, <1>2 DEF IdentitiesAgree
<1>7. VerifyAssurance(claim, r.relations) = {}
  BY <1>1, <1>4, CleanAssurance
<1> DEFINE W(x) == If(x.operation # claim.operation \/ x.index # claim.index,
                      "RECEIPT_IDENTITY_MISMATCH")
                   \cup If(x.output # claim.output, "RECEIPT_FINGERPRINT_MISMATCH")
                   \cup VerifyAssurance(claim, x.relations)
           All == UNION {W(x) : x \in op.receipt}
           Dom == UNION {VerifyDomain(vault, d) : d \in DOMAIN vault.domains}
<1>8. VerifyReceipt(vault, claim, op.receipt) =
        IF op.receipt = {} THEN {"RECEIPT_IDENTITY_MISMATCH"} ELSE All \cup Dom
  BY Zenon DEF VerifyReceipt
<1>9. W(r) = {}
  BY <1>1, <1>4, <1>7 DEF If
<1>10. All = {}
  <2> HIDE DEF W
  <2> QED BY <1>2, <1>9
<1>11. Dom = {}
  BY CleanDomain
<1>12. VerifyReceipt(vault, claim, op.receipt) = {}
  <2> HIDE DEF All, Dom
  <2> QED BY <1>2, <1>8, <1>10, <1>11
<1>13. /\ If(vault.dataset.source # claim.source, "VAULT_IDENTITY_MISMATCH") = {}
       /\ If(~IdentitiesAgree(vault, op, claim.place) \/ op.output # claim.output,
             "VAULT_IDENTITY_MISMATCH") = {}
  BY <1>2, <1>3, <1>6 DEF If
<1> QED BY <1>2, <1>5, <1>12, <1>13 DEF VerifyVault

\* The inventory of a tree that nobody touched.
LEMMA CleanTopology ==
  ASSUME Inv, faults = {}, pc \in After
  PROVE  /\ VerifyTopology(source, output, claim) =
              If(case.index = "OMITTED_UNVERIFIED", "STANDALONE_IDX_DEFINITION_UNAVAILABLE")
         /\ ScannableTables(source, output) = Tables
<1>1. /\ source.tables = Source /\ DOMAIN source.tables = Tables /\ source.fields = case.fields
      /\ output = TreeOf(output.tables)
  BY CleanFacts
<1>2. claim.index = case.index
  BY DEF Inv, PublishedInv, ClaimIsDerived
<1>3. output.files = {DbfFile(t) : t \in Tables}
                     \cup {FptFile(t) : t \in {u \in Tables : "memo" \in case.fields[u]}}
                     \cup IF case.index = "REBUILT_VERIFIED" THEN {IdxFile} ELSE {}
  BY <1>1 DEF TreeOf
<1>4. ExpectedInventory(source, claim) = output.files
  BY <1>1, <1>2, <1>3 DEF ExpectedInventory
<1>5. /\ \A t \in Tables : DbfFile(t) \in output.files
      /\ \A t \in Tables : "memo" \in case.fields[t] => FptFile(t) \in output.files
  BY <1>3
<1>6. ScannableTables(source, output) = Tables
  BY <1>1, <1>5 DEF ScannableTables
<1> DEFINE expected == ExpectedInventory(source, claim)
           missing == expected \ output.files
           surplus == output.files \ expected
<1>7. missing = {} /\ surplus = {}
  BY <1>4
<1> HIDE DEF expected, missing, surplus
<1>8. VerifyTopology(source, output, claim) =
        If(\E t \in DOMAIN source.tables : FptFile(t) \in missing, "MEMO_COMPANION_MISSING")
        \cup If(IdxFile \in missing \cup surplus, "STANDALONE_IDX_EVIDENCE_MISMATCH")
        \cup If(\E t \in DOMAIN source.tables : DbfFile(t) \in missing, "TABLE_MISSING")
        \cup If(CdxFile \in surplus, "INDEX_ARTIFACT_UNVERIFIED")
        \cup If(surplus \ {IdxFile, CdxFile} # {}, "UNEXPECTED_OUTPUT_ARTIFACT")
        \cup If(claim.index = "OMITTED_UNVERIFIED", "STANDALONE_IDX_DEFINITION_UNAVAILABLE")
  BY DEF VerifyTopology, missing, surplus, expected
<1>9. /\ If(\E t \in DOMAIN source.tables : FptFile(t) \in missing, "MEMO_COMPANION_MISSING") = {}
      /\ If(IdxFile \in missing \cup surplus, "STANDALONE_IDX_EVIDENCE_MISMATCH") = {}
      /\ If(\E t \in DOMAIN source.tables : DbfFile(t) \in missing, "TABLE_MISSING") = {}
      /\ If(CdxFile \in surplus, "INDEX_ARTIFACT_UNVERIFIED") = {}
      /\ If(surplus \ {IdxFile, CdxFile} # {}, "UNEXPECTED_OUTPUT_ARTIFACT") = {}
  BY <1>7 DEF If
<1> QED BY <1>2, <1>6, <1>8, <1>9

LEMMA CleanRunFollows ==
  ASSUME Inv
  PROVE  CleanRunVerifies
<1> SUFFICES ASSUME faults = {}, verdict # Null, ~NothingToMap("text")
             PROVE  verdict = IF case.index = "OMITTED_UNVERIFIED" THEN "PARTIAL" ELSE "PASS"
  BY DEF CleanRunVerifies
<1>1. pc \in After
  BY AfterPublication
<1>2. verdict = Verdict(Verify(vault, source, output, claim))
  BY DEF Inv, VerdictInv
<1>3. /\ source = claim.source /\ output = claim.output
      /\ DOMAIN source.tables = Tables /\ DOMAIN Source = Tables
  BY <1>1, CleanFacts
<1> DEFINE scanned == ScannableTables(source, output)
           counted == [t \in scanned |-> CountedRecords(vault, t, source, output)]
           A == If(source # claim.source, "SOURCE_FINGERPRINT_MISMATCH")
           B == VerifyTopology(source, output, claim)
           C == VerifyVault(vault, claim)
           D == UNION {VerifyTable(vault, t, source, output) : t \in scanned}
           E == If(output # claim.output, "OUTPUT_FINGERPRINT_MISMATCH")
           F == If(scanned # DOMAIN source.tables \/ RecordTotal(counted) # claim.records,
                   "RECORD_COUNT_MISMATCH")
           X == If(case.index = "OMITTED_UNVERIFIED", "STANDALONE_IDX_DEFINITION_UNAVAILABLE")
<1>4. Verify(vault, source, output, claim) = A \cup B \cup C \cup D \cup E \cup F
  BY Zenon DEF Verify
<1>5. B = X /\ scanned = Tables
  BY <1>1, CleanTopology
<1>6. A = {} /\ E = {}
  BY <1>3 DEF If
<1>7. C = {}
  BY <1>1, CleanVault
<1>8. \A t \in Tables : /\ VerifyTable(vault, t, source, output) = {}
                        /\ CountedRecords(vault, t, source, output) = Len(Source[t])
  BY <1>1, CleanTable
<1>9. D = {}
  <2> HIDE DEF scanned
  <2> QED BY <1>5, <1>8
<1>10. counted = Lengths(Source)
  <2> HIDE DEF scanned
  <2> QED BY <1>3, <1>5, <1>8 DEF Lengths
<1>11. claim.records = RecordTotal(Lengths(Source))
  BY <1>1 DEF Inv, PublishedInv, WriterIsSound, RecordsAreCounted
<1>12. F = {}
  <2> HIDE DEF scanned, counted
  <2> QED BY <1>3, <1>5, <1>10, <1>11 DEF If
<1>13. Verify(vault, source, output, claim) = X
  <2> HIDE DEF A, B, C, D, E, F, X
  <2> QED BY <1>4, <1>5, <1>6, <1>7, <1>9, <1>12
<1>14. CASE case.index = "OMITTED_UNVERIFIED"
  <2>1. X = {"STANDALONE_IDX_DEFINITION_UNAVAILABLE"}
    BY <1>14 DEF If
  <2> HIDE DEF X
  <2> QED BY <1>2, <1>13, <1>14, <2>1 DEF Verdict, Unverifiable, PartialCodes
<1>15. CASE case.index # "OMITTED_UNVERIFIED"
  <2>1. X = {}
    BY <1>15 DEF If
  <2> HIDE DEF X
  <2> QED BY <1>2, <1>13, <1>15, <2>1 DEF Verdict
<1> QED BY <1>14, <1>15

\* A dataset published by the engine and touched by nobody passes
\* verify_dataset, after any number of failed runs on the same vault and for
\* every source in which there is some text when there are text fields.
THEOREM CleanRunTheorem == Spec => []CleanRunVerifies
BY Invariance, CleanRunFollows, PTL
=============================================================================
