---------------------- MODULE NumericAllocationProofs ----------------------
(***************************************************************************)
(* The safety of the numeric allocation, for every set of members, every   *)
(* source and any number of runs and faults.                               *)
(*                                                                         *)
(* Bijection, completeness and the order of the rows do not depend on the  *)
(* arithmetic of the gap walk: the UNIQUE indexes of the vault and the     *)
(* refusals of Accept carry the argument, whatever token is proposed.      *)
(*                                                                         *)
(* The rest does.  The walk is a loop over the occupied tokens whose       *)
(* invariant, Counted, says how many free tokens lie behind it; so the     *)
(* j-th free token is the one with j free tokens below it.  Hall's         *)
(* condition is sufficient because an injection with the fewest fixed      *)
(* points has none.  CountInv ties the counters of _finalize_numeric to    *)
(* the rows, and the bound of the walk then exceeds what it has to skip.   *)
(***************************************************************************)
EXTENDS NumericAllocation, FiniteSetTheorems, FunctionTheorems, TLAPS

-----------------------------------------------------------------------------
(* Finite sets of integers.                                                *)

\* A non-empty set of naturals has a least element.
LEMMA LeastNatural ==
  ASSUME NEW S \in SUBSET Nat, S # {}
  PROVE  \E i \in S : \A j \in S : i <= j
<1> DEFINE R == OpToRel(<, Nat)
<1>1. IsWellFoundedOn(R, Nat)
  BY NatLessThanWellFounded
<1>2. \A i, j \in Nat : j < i => <<j, i>> \in R
  BY DEF OpToRel
<1> HIDE DEF R
<1>3. PICK i \in S : \A j \in S : ~(<<j, i>> \in R)
  BY <1>1, WFMin
<1>4. ASSUME NEW j \in S PROVE i <= j
  <2>1. i \in Nat /\ j \in Nat
    OBVIOUS
  <2>2. ~(j < i)
    BY <1>2, <1>3, <2>1, Zenon
  <2> QED
    BY <2>1, <2>2
<1> QED
  BY <1>4

-----------------------------------------------------------------------------
(* The rows and the stream of originals.                                   *)

\* A set of originals that is not empty has a first one in the order of texts,
\* and numeric_observation_stream yields it.
LEMMA TextFirstIsFirst ==
  ASSUME NEW S, S \subseteq Values, S # {}
  PROVE  TextFirst(S) \in S /\ \A w \in S : TextRank[TextFirst(S)] <= TextRank[w]
<1> DEFINE Ranks == {TextRank[v] : v \in S}
<1>3. \A v \in S : TextRank[v] \in Nat
  BY AllocationAssumption
<1>4. Ranks \subseteq Nat /\ Ranks # {}
  BY <1>3
<1>5. PICK i \in Ranks : \A j \in Ranks : i <= j
  BY <1>4, LeastNatural
<1>7. PICK v \in S : TextRank[v] = i
  BY <1>5
<1>8. \A w \in S : TextRank[v] <= TextRank[w]
  BY <1>5, <1>7
<1> QED
  BY <1>8 DEF TextFirst

\* What an ended run leaves: no spool, and the vault as it was.
LEMMA EndKeeps ==
  ASSUME Inv, NEW how \in Ended \ {"done"},
         End(how), UNCHANGED <<mapping, hasDomain, History>>
  PROVE  Inv'
<1>1. Originals' = Originals
  BY DEF Originals, History
<1>2. how \notin Active /\ how # "done"
  BY DEF Ended, Failures, CapacityFailures, Active, Allocating, Choosing
<1>3. TypeOK'
  BY <1>1, <1>2 DEF Inv, TypeOK, End, History, Active, Allocating, Choosing
<1>4. MappingIsBijective' /\ PointsBack'
  BY <1>1 DEF Inv, MappingIsBijective, PointsBack
<1>5. DoneIsComplete' /\ StreamIsMapped' /\ StreamIsOrdered'
  BY <1>2 DEF End, DoneIsComplete, StreamIsMapped, StreamIsOrdered, Active, Allocating, Choosing
<1> QED
  BY <1>3, <1>4, <1>5 DEF Inv

LEMMA InvInit == Init => Inv
<1> SUFFICES ASSUME Init PROVE Inv
  OBVIOUS
<1>1. DOMAIN mapping = {}
  BY DEF Init
<1>2. TypeOK
  <2>1. mapping = [v \in DOMAIN mapping |-> mapping[v]]
    BY DEF Init
  <2>2. runs \in 0..MaxRuns
    BY AllocationAssumption DEF Init
  <2> QED
    BY <1>1, <2>1, <2>2 DEF Init, TypeOK, Active, Ended, Allocating, Choosing
<1> QED
  BY <1>1, <1>2 DEF Init, Inv, MappingIsBijective, DoneIsComplete, PointsBack,
        StreamIsMapped, StreamIsOrdered, Active, Allocating, Choosing

\* The steps of the scan up to the first check of the capacity.
LEMMA ScanKeeps ==
  ASSUME Inv,
         \/ Begin
         \/ \E o \in toScan : Observe(o)
         \/ EndScan
         \/ EnsureDomain
         \/ CheckCapacity
  PROVE  Inv'
<1> USE DEF Active, Allocating, Choosing
<1>1. CASE Begin
  <2>1. Originals' = Originals
    BY <1>1 DEF Begin, Originals
  <2>2. TypeOK'
    BY <1>1, <2>1, AllocationAssumption DEF Inv, TypeOK, Begin, Vault, Counters, Ended, Failures, CapacityFailures
  <2>3. StreamIsMapped'
    BY <1>1, <2>1 DEF Inv, TypeOK, StreamIsMapped, Begin, Originals
  <2>4. UNCHANGED mapping
    BY <1>1 DEF Begin, Vault
  <2> QED
    BY <1>1, <2>1, <2>2, <2>3, <2>4 DEF Inv, Begin, MappingIsBijective, DoneIsComplete, PointsBack, StreamIsOrdered
<1>2. ASSUME NEW o \in toScan, Observe(o) PROVE Inv'
  <2>1. Originals' = Originals /\ UNCHANGED <<mapping, hasDomain, History>>
    BY <1>2 DEF Observe, Originals, Vault, History
  <2>2. CASE ClassifyMemberOriginal(o.member, o.value) = "REVERSIBLE"
    <3>1. /\ run = "scan" /\ UNCHANGED <<run, current>>
          /\ spool' = spool \cup {o.value}
          /\ toScan' = toScan \ {o}
      BY <1>2, <2>2 DEF Observe
    <3>2. o.value \in Originals
      BY DEF Inv, TypeOK, Originals
    <3>3. TypeOK'
      BY <2>1, <3>1, <3>2 DEF Inv, TypeOK, History
    <3>4. StreamIsMapped'
      BY <2>1, <3>1 DEF Inv, StreamIsMapped
    <3> QED
      BY <2>1, <3>1, <3>3, <3>4 DEF Inv, MappingIsBijective, DoneIsComplete, PointsBack, StreamIsOrdered
  <2>3. CASE ClassifyMemberOriginal(o.member, o.value) # "REVERSIBLE"
    <3>1. End(ClassifyMemberOriginal(o.member, o.value))
      BY <1>2, <2>3 DEF Observe
    <3>2. ClassifyMemberOriginal(o.member, o.value) \in {"OUT_OF_MEMBER_RANGE", "RECOVERY_UNWRITABLE"}
      BY <2>3 DEF ClassifyMemberOriginal
    <3> QED
      BY <2>1, <3>1, <3>2, EndKeeps DEF Ended, Failures
  <2> QED
    BY <2>2, <2>3
<1>3. CASE EndScan
  <2>1. Originals' = Originals /\ UNCHANGED mapping
    BY <1>3 DEF EndScan, Originals, Vault, History
  <2>2. TypeOK'
    BY <1>3, <2>1 DEF Inv, TypeOK, EndScan, Vault, History
  <2>3. StreamIsMapped'
    BY <1>3, <2>1 DEF Inv, StreamIsMapped, EndScan
  <2> QED
    BY <1>3, <2>1, <2>2, <2>3 DEF Inv, EndScan, MappingIsBijective, DoneIsComplete, PointsBack, StreamIsOrdered
<1>4. CASE EnsureDomain
  <2>1. Originals' = Originals /\ UNCHANGED mapping
    BY <1>4 DEF EnsureDomain, Originals, History
  <2>2. TypeOK'
    BY <1>4, <2>1 DEF Inv, TypeOK, EnsureDomain, History
  <2>3. StreamIsMapped'
    BY <1>4, <2>1 DEF Inv, StreamIsMapped, EnsureDomain
  <2> QED
    BY <1>4, <2>1, <2>2, <2>3 DEF Inv, EnsureDomain, MappingIsBijective, DoneIsComplete, PointsBack, StreamIsOrdered
<1>5. CASE CheckCapacity
  <2>1. Originals' = Originals /\ UNCHANGED <<mapping, hasDomain, History>>
    BY <1>5 DEF CheckCapacity, Originals, Vault, History
  <2>2. CASE run' = "next"
    <3>1. run = "count" /\ UNCHANGED <<toScan, spool, current>>
      BY <1>5, <2>2 DEF CheckCapacity, End
    <3>2. TypeOK'
      BY <2>1, <2>2, <3>1 DEF Inv, TypeOK, History
    <3>3. spool' = Originals'
      BY <2>1, <3>1 DEF Inv, StreamIsMapped
    <3>4. StreamIsMapped' /\ StreamIsOrdered'
      BY <2>2, <3>3 DEF StreamIsMapped, StreamIsOrdered
    <3> QED
      BY <2>1, <2>2, <3>2, <3>4 DEF Inv, MappingIsBijective, DoneIsComplete, PointsBack
  <2>3. CASE run' # "next"
    <3>1. End("DOMAIN_EXHAUSTED")
      BY <1>5, <2>3 DEF CheckCapacity
    <3> QED
      BY <2>1, <3>1, EndKeeps DEF Ended, Failures, CapacityFailures
  <2> QED
    BY <2>2, <2>3
<1> QED
  BY <1>1, <1>2, <1>3, <1>4, <1>5

\* The walk ends at a token it has accepted.
LEMMA WalkHasMin ==
  ASSUME Walk # {}
  PROVE  Min(Walk) \in Walk
<1>1. Walk \in SUBSET Nat
  BY DEF Walk
<1>2. \E i \in Walk : \A j \in Walk : i <= j
  BY <1>1, LeastNatural
<1> QED
  BY <1>2 DEF Min

\* The stream: reuse of a row, and the choice of a token for an original.
LEMMA StreamKeeps ==
  ASSUME Inv, NextOriginal \/ Finish \/ Select
  PROVE  Inv'
<1> USE DEF Active, Allocating, Choosing
<1>1. CASE NextOriginal
  <2> DEFINE first == TextFirst(spool)
  <2>0. Originals' = Originals /\ UNCHANGED <<mapping, hasDomain, History>>
    BY <1>1 DEF NextOriginal, Originals, Vault, History
  <2>1. spool \subseteq Values /\ spool # {}
    BY <1>1 DEF Inv, TypeOK, NextOriginal, Originals, Values
  <2>2. first \in spool /\ \A w \in spool : TextRank[first] <= TextRank[w]
    BY <2>1, TextFirstIsFirst
  <2>3. first \in Values /\ \A w \in spool : w \in Values
    BY <2>1, <2>2
  <2>4. \A w \in spool \ {first} : TextRank[first] < TextRank[w]
    <3> SUFFICES ASSUME NEW w \in spool, w # first
                 PROVE  TextRank[first] < TextRank[w]
      OBVIOUS
    <3>1. TextRank[first] \in Nat /\ TextRank[w] \in Nat /\ TextRank[first] # TextRank[w]
      BY <2>3, AllocationAssumption
    <3> QED
      BY <2>2, <3>1
  <2> HIDE DEF first
  <2>5. CASE first \in DOMAIN mapping
    <3>1. run = "next" /\ spool' = spool \ {first} /\ UNCHANGED <<run, current, toScan>>
      BY <1>1, <2>5 DEF NextOriginal, first
    <3>2. TypeOK'
      BY <2>0, <3>1 DEF Inv, TypeOK, History
    <3>3. StreamIsMapped'
      BY <2>0, <2>5, <3>1 DEF Inv, StreamIsMapped
    <3>4. StreamIsOrdered'
      BY <2>0, <2>4, <3>1 DEF Inv, StreamIsOrdered
    <3> QED
      BY <2>0, <3>1, <3>2, <3>3, <3>4 DEF Inv, MappingIsBijective, DoneIsComplete, PointsBack
  <2>6. CASE first \notin DOMAIN mapping
    <3>1. run = "next" /\ run' = "select" /\ current' = first /\ UNCHANGED <<spool, toScan>>
      BY <1>1, <2>6 DEF NextOriginal, first
    <3>2. TypeOK'
      BY <2>0, <2>2, <3>1 DEF Inv, TypeOK, History
    <3>3. StreamIsMapped'
      BY <2>0, <3>1 DEF Inv, StreamIsMapped
    <3>4. StreamIsOrdered'
      BY <2>0, <2>2, <3>1 DEF Inv, StreamIsOrdered
    <3> QED
      BY <2>0, <3>1, <3>2, <3>3, <3>4 DEF Inv, MappingIsBijective, DoneIsComplete, PointsBack
  <2> QED
    BY <2>5, <2>6
<1>2. CASE Finish
  <2>0. Originals' = Originals /\ UNCHANGED <<mapping, hasDomain, History>>
    BY <1>2 DEF Finish, Originals, Vault, History
  <2>1. run = "next" /\ spool = {} /\ run' = "done" /\ spool' = {} /\ toScan' = {} /\ current' = None
    BY <1>2 DEF Finish, End
  <2>2. Originals \subseteq DOMAIN mapping
    BY <2>1 DEF Inv, StreamIsMapped
  <2>3. TypeOK'
    BY <2>0, <2>1 DEF Inv, TypeOK, History, Ended
  <2> QED
    BY <2>0, <2>1, <2>2, <2>3 DEF Inv, MappingIsBijective, DoneIsComplete, PointsBack, StreamIsMapped, StreamIsOrdered
<1>3. CASE Select
  <2>0. Originals' = Originals /\ UNCHANGED <<mapping, hasDomain, History>>
    BY <1>3 DEF Select, Originals, Vault, History
  <2>1. CASE SelectFails
    BY <2>0, <2>1, EndKeeps DEF SelectFails, Ended, Failures, CapacityFailures
  <2>2. CASE SelectByProbe \/ SelectByWalk
    <3>1. PICK c : Accept(c) /\ Selected(c)
      <4>1. CASE SelectByProbe
        BY <4>1 DEF SelectByProbe
      <4>2. CASE SelectByWalk
        <5>1. Walk # {} /\ Selected(FreeToken(Min(Walk)))
          BY <4>2 DEF SelectByWalk
        <5>2. Accept(FreeToken(Min(Walk)))
          BY <5>1, WalkHasMin DEF Walk
        <5> QED
          BY <5>1, <5>2
      <4> QED
        BY <2>2, <4>1, <4>2
    <3>2. run = "select" /\ run' = "commit" /\ candidate' = c /\ UNCHANGED <<toScan, spool, current>>
      BY <1>3, <3>1 DEF Select, Selected
    <3>3. c \notin spool
      BY <3>1 DEF Accept
    <3>4. TypeOK'
      BY <2>0, <3>2 DEF Inv, TypeOK, History
    <3>5. StreamIsMapped'
      BY <2>0, <3>2 DEF Inv, StreamIsMapped
    <3>6. StreamIsOrdered'
      BY <2>0, <3>2, <3>3 DEF Inv, StreamIsOrdered
    <3> QED
      BY <2>0, <3>2, <3>4, <3>5, <3>6 DEF Inv, MappingIsBijective, DoneIsComplete, PointsBack
  <2> QED
    BY <1>3, <2>1, <2>2 DEF Select
<1> QED
  BY <1>1, <1>2, <1>3

\* The row is committed, and its observation dropped.
LEMMA RowKeeps ==
  ASSUME Inv, Commit \/ Drop
  PROVE  Inv'
<1> USE DEF Active, Allocating, Choosing
<1>1. CASE Commit
  <2>0. Originals' = Originals /\ UNCHANGED <<hasDomain, History>>
    BY <1>1 DEF Commit, Originals, History
  <2>1. CASE current \in DOMAIN mapping \/ candidate \in Occupied
    <3>1. End("BIJECTION_REJECTED") /\ UNCHANGED mapping
      BY <1>1, <2>1 DEF Commit, AddNumericKeyMapping
    <3> QED
      BY <2>0, <3>1, EndKeeps DEF Ended, Failures
  <2>2. CASE ~(current \in DOMAIN mapping \/ candidate \in Occupied)
    <3>1. /\ run = "commit" /\ run' = "drop"
          /\ mapping' = [v \in DOMAIN mapping \cup {current} |->
                            IF v = current THEN candidate ELSE mapping[v]]
          /\ UNCHANGED <<toScan, spool, current>>
      BY <1>1, <2>2 DEF Commit, AddNumericKeyMapping
    <3>2. current \in spool /\ spool \subseteq Originals /\ candidate \notin spool
      BY <3>1 DEF Inv, TypeOK, StreamIsOrdered
    <3>3. DOMAIN mapping' = DOMAIN mapping \cup {current}
      BY <3>1
    <3>4. /\ mapping'[current] = candidate
          /\ \A v \in DOMAIN mapping : mapping'[v] = mapping[v]
      BY <2>2, <3>1
    <3>5. TypeOK'
      BY <2>0, <3>1, <3>2, <3>3 DEF Inv, TypeOK, History
    <3>6. MappingIsBijective'
      <4>1. \A v \in DOMAIN mapping : mapping[v] # candidate
        BY <2>2 DEF Occupied
      <4>2. candidate # current
        BY <3>2
      <4> QED
        BY <3>3, <3>4, <4>1, <4>2 DEF Inv, MappingIsBijective
    <3>7. PointsBack'
      <4>1. candidate \in Originals => TextRank[candidate] < TextRank[current]
        BY <3>1, <3>2 DEF Inv, StreamIsOrdered
      <4> QED
        BY <2>0, <3>3, <3>4, <4>1 DEF Inv, PointsBack
    <3>8. StreamIsMapped'
      BY <2>0, <3>1, <3>3 DEF Inv, StreamIsMapped
    <3>9. StreamIsOrdered'
      BY <2>0, <3>1 DEF Inv, StreamIsOrdered
    <3> QED
      BY <3>1, <3>5, <3>6, <3>7, <3>8, <3>9 DEF Inv, DoneIsComplete
  <2> QED
    BY <2>1, <2>2
<1>2. CASE Drop
  <2>0. Originals' = Originals /\ UNCHANGED <<mapping, hasDomain, History>>
    BY <1>2 DEF Drop, Originals, Vault, History
  <2>1. run = "drop" /\ run' = "next" /\ spool' = spool \ {current} /\ current' = None /\ UNCHANGED toScan
    BY <1>2 DEF Drop
  <2>2. current \in spool /\ current \in DOMAIN mapping /\ spool \subseteq Values
    BY <2>1 DEF Inv, TypeOK, StreamIsMapped, Originals, Values
  <2>3. \A w \in spool \ {current} : TextRank[current] < TextRank[w]
    <3> SUFFICES ASSUME NEW w \in spool, w # current
                 PROVE  TextRank[current] < TextRank[w]
      OBVIOUS
    <3>1. TextRank[current] \in Nat /\ TextRank[w] \in Nat /\ TextRank[current] # TextRank[w]
      BY <2>2, AllocationAssumption
    <3>2. TextRank[current] <= TextRank[w]
      BY <2>1 DEF Inv, StreamIsOrdered
    <3> QED
      BY <3>1, <3>2
  <2>4. TypeOK'
    BY <2>0, <2>1 DEF Inv, TypeOK, History
  <2>5. StreamIsMapped'
    BY <2>0, <2>1, <2>2 DEF Inv, StreamIsMapped
  <2>6. StreamIsOrdered'
    BY <2>0, <2>1, <2>3 DEF Inv, StreamIsOrdered
  <2> QED
    BY <2>0, <2>1, <2>4, <2>5, <2>6 DEF Inv, MappingIsBijective, DoneIsComplete, PointsBack
<1> QED
  BY <1>1, <1>2

LEMMA InvStep == Inv /\ [Next]_vars => Inv'
<1> SUFFICES ASSUME Inv, [Next]_vars PROVE Inv'
  OBVIOUS
<1>1. CASE Begin \/ RunStep
  BY <1>1, ScanKeeps, StreamKeeps, RowKeeps DEF RunStep
<1>2. CASE ReadFails \/ TxnFails \/ Cancel \/ Crash
  BY <1>2, EndKeeps DEF ReadFails, TxnFails, Cancel, Crash, Vault, Ended, Failures
<1>3. CASE UNCHANGED vars
  <2>1. Originals' = Originals
    BY <1>3 DEF vars, Originals
  <2> QED
    BY <1>3, <2>1 DEF vars, Inv, TypeOK, MappingIsBijective, DoneIsComplete, PointsBack, StreamIsMapped, StreamIsOrdered
<1> QED
  BY <1>1, <1>2, <1>3 DEF Next

\* The inductive invariant: where the stream stands, what is behind it has its
\* rows, and what is ahead of it is no pseudonym.
THEOREM Safety == Spec => []Inv
<1> QED
  BY InvInit, InvStep, PTL DEF Spec

\* The rows of _finalize_numeric are a bijection without a fixed point, for
\* every domain and source and through any number of interrupted runs.
THEOREM BijectionTheorem == Spec => []MappingIsBijective
<1>1. Inv => MappingIsBijective
  BY DEF Inv
<1> QED
  BY <1>1, Safety, PTL

\* A run that reports success has a row for every original of the source.
THEOREM CompleteTheorem == Spec => []DoneIsComplete
<1>1. Inv => DoneIsComplete
  BY DEF Inv
<1> QED
  BY <1>1, Safety, PTL

\* A pseudonym that is an original lies before its original in the order of
\* texts, over all runs: no cycle of pseudonyms, and so no swap, ever exists.
THEOREM PointsBackTheorem == Spec => []PointsBack
<1>1. Inv => PointsBack
  BY DEF Inv
<1> QED
  BY <1>1, Safety, PTL

\* No run and no fault changes or removes a committed row.
THEOREM PersistedTheorem == Spec => PersistedIsFixed
<1>1. ASSUME Inv, [Next]_vars
      PROVE  [\A v \in DOMAIN mapping : v \in DOMAIN mapping' /\ mapping'[v] = mapping[v]]_mapping
  <2>1. CASE Commit
    BY <2>1 DEF Commit, AddNumericKeyMapping
  <2>2. CASE UNCHANGED mapping
    BY <2>2
  <2>3. CASE [Next]_vars /\ ~Commit
    <3>1. UNCHANGED mapping
      BY <2>3 DEF Next, RunStep, vars, Vault, Begin, Observe, EndScan, EnsureDomain, CheckCapacity,
           NextOriginal, Finish, Select, Drop, ReadFails, TxnFails, Cancel, Crash
    <3> QED
      BY <3>1
  <2> QED
    BY <1>1, <2>1, <2>3
<1> QED
  BY <1>1, Safety, PTL DEF Spec, PersistedIsFixed

-----------------------------------------------------------------------------
(* Ranks in finite sets of integers.                                       *)

\* The elements of S that are smaller than x.
Below(S, x) == {y \in S : y < x}

\* Rank, the number of smaller elements, numbers the elements of a finite set
\* of integers from 0 and grows with them.
LEMMA RankNumbers ==
  ASSUME NEW S \in SUBSET Int, IsFiniteSet(S)
  PROVE  /\ Cardinality(S) \in Nat
         /\ \A x \in S : Cardinality(Below(S, x)) \in 0..(Cardinality(S) - 1)
         /\ \A x, y \in S : x < y => Cardinality(Below(S, x)) < Cardinality(Below(S, y))
         /\ \A i \in 0..(Cardinality(S) - 1) : \E x \in S : Cardinality(Below(S, x)) = i
<1> DEFINE n == Cardinality(S)
           rank == [x \in S |-> Cardinality(Below(S, x))]
<1>1. n \in Nat
  BY FS_CardinalityType
<1>2. ASSUME NEW v \in S, NEW T \in SUBSET S, v \in T, NEW U \in SUBSET T, v \notin U
      PROVE  Cardinality(U) \in Nat /\ Cardinality(U) < Cardinality(T)
  <2>1. IsFiniteSet(T)
    BY FS_Subset
  <2>2. IsFiniteSet(U) /\ Cardinality(U) <= Cardinality(T) /\ (Cardinality(T) = Cardinality(U) => T = U)
    BY <2>1, FS_Subset
  <2>3. Cardinality(U) \in Nat /\ Cardinality(T) \in Nat
    BY <2>1, <2>2, FS_CardinalityType
  <2> QED BY <1>2, <2>2, <2>3
<1>3. ASSUME NEW x \in S PROVE Cardinality(Below(S, x)) \in 0..(n - 1)
  <2>1. Below(S, x) \subseteq S /\ x \notin Below(S, x)
    BY DEF Below
  <2>2. Cardinality(Below(S, x)) \in Nat /\ Cardinality(Below(S, x)) < n
    BY <1>2, <2>1
  <2> QED BY <2>2, <1>1
<1>4. ASSUME NEW x \in S, NEW y \in S, x < y
      PROVE  Cardinality(Below(S, x)) < Cardinality(Below(S, y))
  <2>1. Below(S, y) \subseteq S /\ x \in Below(S, y) /\ x \notin Below(S, x)
    BY <1>4 DEF Below
  <2>2. ASSUME NEW z \in Below(S, x) PROVE z \in Below(S, y)
    <3>1. z \in S /\ z < x /\ z \in Int /\ x \in Int /\ y \in Int
      BY DEF Below
    <3> QED BY <1>4, <3>1 DEF Below
  <2>3. Below(S, x) \subseteq Below(S, y)
    BY <2>2
  <2> QED BY <1>2, <2>1, <2>3
<1>5. ASSUME NEW x \in S, NEW y \in S, Cardinality(Below(S, x)) = Cardinality(Below(S, y))
      PROVE  x = y
  <2>1. x \in Int /\ y \in Int
    OBVIOUS
  <2>2. Cardinality(Below(S, x)) \in Int
    BY <1>1, <1>3
  <2> QED BY <1>4, <1>5, <2>1, <2>2
<1>6. ASSUME NEW i \in 0..(n - 1) PROVE \E x \in S : Cardinality(Below(S, x)) = i
  <2>1. rank \in Injection(S, 0..(n - 1))
    BY <1>3, <1>5 DEF Injection, IsInjective
  <2>2. IsFiniteSet(0..(n - 1)) /\ Cardinality(0..(n - 1)) = n
    <3>1. 0 \in Int /\ n - 1 \in Int /\ (0 > n - 1 <=> n = 0)
      BY <1>1
    <3>2. /\ IsFiniteSet(0..(n - 1))
          /\ Cardinality(0..(n - 1)) = IF 0 > n - 1 THEN 0 ELSE (n - 1) - 0 + 1
      BY <3>1, FS_Interval
    <3> QED BY <1>1, <3>1, <3>2
  <2> HIDE DEF rank
  <2>3. rank \in Surjection(S, 0..(n - 1))
    BY <2>1, <2>2, FS_Injection
  <2>4. PICK x \in S : rank[x] = i
    BY <2>3 DEF Surjection
  <2> QED BY <2>4 DEF rank
<1> QED BY <1>1, <1>3, <1>4, <1>6

\* Min and Max take the extremes of a finite set of integers.
LEMMA Extremes ==
  ASSUME NEW S \in SUBSET Int, IsFiniteSet(S), S # {}
  PROVE  /\ Min(S) \in S /\ \A y \in S : Min(S) <= y
         /\ Max(S) \in S /\ \A y \in S : y <= Max(S)
<1> DEFINE n == Cardinality(S)
<1>1. n \in Nat /\ n # 0
  BY FS_CardinalityType, FS_EmptySet
<1>2. 0 \in 0..(n - 1) /\ n - 1 \in 0..(n - 1)
  BY <1>1
<1>3. PICK x \in S : Cardinality(Below(S, x)) = 0
  BY <1>2, RankNumbers
<1>4. PICK z \in S : Cardinality(Below(S, z)) = n - 1
  BY <1>2, RankNumbers
<1>5. \A y \in S : Cardinality(Below(S, y)) \in 0..(n - 1)
  BY RankNumbers
<1>6. \A y, w \in S : y < w => Cardinality(Below(S, y)) < Cardinality(Below(S, w))
  BY RankNumbers
<1>7. ASSUME NEW y \in S PROVE x <= y /\ y <= z
  <2>1. y \in Int /\ x \in Int /\ z \in Int
    OBVIOUS
  <2>2. Cardinality(Below(S, y)) \in 0..(n - 1)
    BY <1>5
  <2>3. ~(y < x)
    BY <1>1, <1>3, <1>6, <2>2
  <2>4. ~(z < y)
    BY <1>1, <1>4, <1>6, <2>2
  <2> QED BY <2>1, <2>3, <2>4
<1>8. Min(S) \in S /\ \A y \in S : Min(S) <= y
  BY <1>7 DEF Min
<1>9. Max(S) \in S /\ \A y \in S : y <= Max(S)
  <2>1. \A y \in S : z >= y
    BY <1>7
  <2>2. Max(S) \in S /\ \A y \in S : Max(S) >= y
    BY <2>1 DEF Max
  <2> QED BY <2>2
<1> QED BY <1>8, <1>9

\* Ascending lists a finite set of integers from its least to its greatest.
LEMMA AscendingLists ==
  ASSUME NEW S \in SUBSET Int, IsFiniteSet(S)
  PROVE  /\ \A i \in 1..Cardinality(S) : Ascending(S)[i] \in S
         /\ \A x \in S : \E i \in 1..Cardinality(S) : Ascending(S)[i] = x
         /\ \A i, j \in 1..Cardinality(S) : i < j => Ascending(S)[i] < Ascending(S)[j]
<1> DEFINE n == Cardinality(S)
<1>1. /\ n \in Nat
      /\ \A x \in S : Cardinality(Below(S, x)) \in 0..(n - 1)
      /\ \A x, y \in S : x < y => Cardinality(Below(S, x)) < Cardinality(Below(S, y))
      /\ \A i \in 0..(n - 1) : \E x \in S : Cardinality(Below(S, x)) = i
  BY RankNumbers
<1>2. Ascending(S) = [i \in 1..n |-> CHOOSE x \in S : Cardinality(Below(S, x)) = i - 1]
  BY DEF Ascending, Below
<1> HIDE DEF n
<1>0. n \in Nat /\ \A i \in 1..n : i \in Int
  BY <1>1
<1>3. ASSUME NEW i \in 1..n
      PROVE  Ascending(S)[i] \in S /\ Cardinality(Below(S, Ascending(S)[i])) = i - 1
  <2>1. i - 1 \in 0..(n - 1)
    BY <1>1
  <2>2. \E x \in S : Cardinality(Below(S, x)) = i - 1
    BY <1>1, <2>1
  <2> QED BY <1>2, <2>2
<1>4. ASSUME NEW x \in S PROVE \E i \in 1..n : Ascending(S)[i] = x
  <2> DEFINE i == Cardinality(Below(S, x)) + 1
  <2>1. i \in 1..n /\ i - 1 = Cardinality(Below(S, x))
    BY <1>1
  <2> HIDE DEF i
  <2>2. Cardinality(Below(S, Ascending(S)[i])) = Cardinality(Below(S, x)) /\ Ascending(S)[i] \in S
    BY <1>3, <2>1
  <2>3. Ascending(S)[i] \in Int /\ x \in Int /\ i - 1 \in Int
    <3>1. S \subseteq Int
      OBVIOUS
    <3>2. i \in Int
      BY <1>0, <2>1
    <3>3. Ascending(S)[i] \in Int
      BY <2>2, <3>1
    <3> QED BY <3>1, <3>2, <3>3
  <2>4. Ascending(S)[i] = x
    BY <1>1, <2>1, <2>2, <2>3
  <2> QED BY <2>1, <2>4
<1>5. ASSUME NEW i \in 1..n, NEW j \in 1..n, i < j PROVE Ascending(S)[i] < Ascending(S)[j]
  <2>1. Ascending(S)[i] \in S /\ Ascending(S)[j] \in S /\ S \subseteq Int
    BY <1>3
  <2>0. Ascending(S)[i] \in Int /\ Ascending(S)[j] \in Int
    BY <2>1
  <2>2. Cardinality(Below(S, Ascending(S)[i])) = i - 1 /\ Cardinality(Below(S, Ascending(S)[j])) = j - 1
    BY <1>3
  <2>3. Ascending(S)[i] # Ascending(S)[j]
    BY <1>5, <2>2
  <2>4. ~(Ascending(S)[j] < Ascending(S)[i])
    <3> SUFFICES ASSUME Ascending(S)[j] < Ascending(S)[i] PROVE FALSE
      OBVIOUS
    <3>1. j - 1 < i - 1
      BY <1>1, <2>1, <2>2
    <3> QED BY <1>0, <1>5, <3>1
  <2> QED BY <2>0, <2>3, <2>4
<1> QED BY <1>3, <1>4, <1>5 DEF n

\* The tokens of a relation are all integers between two bounds.
LEMMA TokensAreARange ==
  /\ Tokens \in SUBSET Int /\ IsFiniteSet(Tokens)
  /\ Min(Tokens) \in Tokens /\ Max(Tokens) \in Tokens
  /\ Tokens = Min(Tokens)..Max(Tokens)
<1>1. PICK m \in Members : TRUE
  BY MembersAssumption
<1>2. \A x \in Tokens : \A k \in Members : x \in k.writable
  BY DEF Tokens, CommonTokens
<1>3. Tokens \subseteq m.readable
  BY <1>2, MembersAssumption
<1>4. m.readable \subseteq Int /\ IsFiniteSet(m.readable)
  BY MembersAssumption
<1>5. Tokens \in SUBSET Int /\ IsFiniteSet(Tokens)
  BY <1>3, <1>4, FS_Subset
<1>6. /\ Min(Tokens) \in Tokens /\ \A y \in Tokens : Min(Tokens) <= y
      /\ Max(Tokens) \in Tokens /\ \A y \in Tokens : y <= Max(Tokens)
  BY <1>5, MembersAssumption, Extremes
<1>7. ASSUME NEW x \in Min(Tokens)..Max(Tokens) PROVE x \in Tokens
  <2>1. ASSUME NEW k \in Members PROVE x \in k.writable
    <3>1. k.writable \subseteq Int /\ IsFiniteSet(k.writable)
      BY MembersAssumption, FS_Subset
    <3>2. Min(Tokens) \in k.writable /\ Max(Tokens) \in k.writable
      BY <1>2, <1>6
    <3>3. /\ Min(k.writable) \in k.writable /\ \A y \in k.writable : Min(k.writable) <= y
          /\ Max(k.writable) \in k.writable /\ \A y \in k.writable : y <= Max(k.writable)
      BY <3>1, <3>2, Extremes
    <3>4. x \in Min(k.writable)..Max(k.writable)
      BY <1>5, <1>6, <3>1, <3>2, <3>3
    <3> QED BY <3>4, MembersAssumption DEF IsRange
  <2> QED BY <1>1, <2>1 DEF Tokens, CommonTokens
<1>8. Tokens = Min(Tokens)..Max(Tokens)
  <2>1. \A x \in Tokens : x \in Int /\ x \in Min(Tokens)..Max(Tokens)
    BY <1>5, <1>6
  <2> QED BY <1>7, <2>1
<1> QED BY <1>5, <1>6, <1>8

-----------------------------------------------------------------------------
(* The gap walk.                                                           *)

\* _streaming_jth_free_numeric runs through the stream: the recursion of
\* GapWalk has a solution, and GapWalk is its last value.
LEMMA WalkIsDefined ==
  ASSUME NEW taken, NEW j, IsFiniteSet(taken \cap Tokens)
  PROVE  LET n == Cardinality(taken \cap Tokens) IN
         \E w : /\ w[0] = [previous |-> Min(Tokens) - 1, remaining |-> j]
                /\ \A i \in 1..n : w[i] = GapStep(w[i - 1], Ascending(taken \cap Tokens)[i])
                /\ GapWalk(taken, j) = w[n]
<1> DEFINE n == Cardinality(taken \cap Tokens)
           stream == Ascending(taken \cap Tokens)
           start == [previous |-> Min(Tokens) - 1, remaining |-> j]
           Body(w) == [i \in 0..n |-> IF i = 0 THEN start ELSE GapStep(w[i - 1], stream[i])]
           walk == CHOOSE w : w = Body(w)
           Solves(w, m) == w[0] = start /\ \A i \in 1..m : w[i] = GapStep(w[i - 1], stream[i])
<1>1. n \in Nat
  BY FS_CardinalityType
<1>2. GapWalk(taken, j) = walk[n]
  BY DEF GapWalk
<1> HIDE DEF n, stream, start, walk
<1>3. \A m \in Nat : \E w : Solves(w, m)
  <2> DEFINE Bad == {m \in Nat : ~\E w : Solves(w, m)}
  <2> SUFFICES ASSUME Bad # {} PROVE FALSE
    OBVIOUS
  <2>1. PICK m \in Bad : \A k \in Bad : m <= k
    BY LeastNatural
  <2>2. m # 0
    <3>1. Solves([i \in {0} |-> start], 0)
      OBVIOUS
    <3> QED BY <3>1
  <2>3. m \in Nat /\ m - 1 \in Nat /\ m - 1 \notin Bad
    BY <2>1, <2>2
  <2>4. PICK w : Solves(w, m - 1)
    BY <2>3
  <2> DEFINE next == [i \in 0..m |-> IF i = m THEN GapStep(w[m - 1], stream[m]) ELSE w[i]]
  <2>5. next[0] = start
    BY <2>2, <2>3, <2>4
  <2>6. ASSUME NEW i \in 1..m PROVE next[i] = GapStep(next[i - 1], stream[i])
    <3>1. i \in Int /\ i \in 0..m /\ i - 1 \in 0..m /\ i - 1 # m
      BY <2>3
    <3>2. next[i - 1] = w[i - 1]
      BY <3>1
    <3>3. CASE i = m
      BY <3>1, <3>2, <3>3
    <3>4. CASE i # m
      <4>1. i \in 1..(m - 1) /\ next[i] = w[i]
        BY <2>3, <3>1, <3>4
      <4> QED BY <2>4, <3>2, <4>1
    <3> QED BY <3>3, <3>4
  <2> HIDE DEF next
  <2>7. Solves(next, m)
    BY <2>5, <2>6
  <2> QED BY <2>7
<1>4. PICK w : Solves(w, n)
  BY <1>1, <1>3
<1>5. Body(w) = Body(Body(w))
  <2>1. ASSUME NEW i \in 0..n, i # 0 PROVE GapStep(w[i - 1], stream[i]) = GapStep(Body(w)[i - 1], stream[i])
    <3>1. i - 1 \in 0..n /\ i \in 1..n
      BY <1>1, <2>1
    <3>2. Body(w)[i - 1] = w[i - 1]
      <4>1. CASE i - 1 = 0
        BY <1>4, <3>1, <4>1
      <4>2. CASE i - 1 # 0
        <5>1. i - 1 \in 1..n
          BY <1>1, <3>1, <4>2
        <5> QED BY <1>4, <3>1, <4>2, <5>1
      <4> QED BY <4>1, <4>2
    <3> QED BY <3>2
  <2> QED BY <2>1
<1>6. walk = Body(walk)
  BY <1>5 DEF walk
<1>7. Solves(walk, n)
  <2>1. walk[0] = start
    <3>1. 0 \in 0..n
      BY <1>1
    <3>2. Body(walk)[0] = start
      BY <3>1
    <3> QED BY <1>6, <3>2
  <2>2. ASSUME NEW i \in 1..n PROVE walk[i] = GapStep(walk[i - 1], stream[i])
    <3>1. i \in 0..n /\ i # 0
      BY <1>1
    <3>2. Body(walk)[i] = GapStep(walk[i - 1], stream[i])
      BY <3>1
    <3> QED BY <1>6, <3>2
  <2> QED BY <2>1, <2>2
<1> QED BY <1>2, <1>7 DEF n, stream, start

\* Above c, which is not in S, every integer up to x is in S: then x has so
\* many more elements of S below it than c has.
LEMMA CountGap ==
  ASSUME NEW S \in SUBSET Int, IsFiniteSet(S), NEW c \in Int, NEW x \in Int,
         c < x, c \notin S, \A t \in Int : c < t /\ t < x => t \in S
  PROVE  /\ Cardinality(Below(S, c)) \in Nat
         /\ Cardinality(Below(S, x)) = Cardinality(Below(S, c)) + (x - c - 1)
<1> DEFINE gap == (c + 1)..(x - 1)
<1>1. IsFiniteSet(gap) /\ Cardinality(gap) = x - c - 1
  <2>1. c + 1 \in Int /\ x - 1 \in Int
    OBVIOUS
  <2>2. IsFiniteSet(gap) /\ Cardinality(gap) = IF c + 1 > x - 1 THEN 0 ELSE (x - 1) - (c + 1) + 1
    BY <2>1, FS_Interval
  <2>3. c + 1 > x - 1 => x - c - 1 = 0
    OBVIOUS
  <2> QED BY <2>2, <2>3
<1>2. Below(S, c) \subseteq S /\ IsFiniteSet(Below(S, c))
  BY FS_Subset DEF Below
<1>3. Cardinality(Below(S, c)) \in Nat
  BY <1>2, FS_CardinalityType
<1>4. Below(S, x) = Below(S, c) \cup gap
  <2>1. ASSUME NEW t \in Below(S, x) PROVE t \in Below(S, c) \cup gap
    <3>1. t \in S /\ t \in Int /\ t < x /\ t # c
      BY DEF Below
    <3> QED BY <3>1 DEF Below
  <2>2. ASSUME NEW t \in Below(S, c) \cup gap PROVE t \in Below(S, x)
    <3>1. CASE t \in Below(S, c)
      <4>1. t \in S /\ t \in Int /\ t < c
        BY <3>1 DEF Below
      <4> QED BY <4>1 DEF Below
    <3>2. CASE t \in gap
      <4>1. t \in Int /\ c < t /\ t < x
        BY <3>2
      <4> QED BY <4>1 DEF Below
    <3> QED BY <3>1, <3>2
  <2> QED BY <2>1, <2>2
<1>5. Below(S, c) \cap gap = {}
  <2> SUFFICES ASSUME NEW t \in Below(S, c), t \in gap PROVE FALSE
    OBVIOUS
  <2>1. t \in Int /\ t < c /\ c + 1 <= t
    BY DEF Below
  <2> QED BY <2>1
<1> HIDE DEF gap
<1>6. Cardinality(Below(S, c) \cup gap)
        = Cardinality(Below(S, c)) + Cardinality(gap) - Cardinality(Below(S, c) \cap gap)
  BY <1>1, <1>2, FS_Union
<1>7. Cardinality(Below(S, c) \cap gap) = 0
  BY <1>5, FS_EmptySet
<1> QED BY <1>1, <1>3, <1>4, <1>6, <1>7

\* What the walk knows after the i-th occupied token: it stands at that token
\* with the free ones below it counted off, or it has found the j-th.
Counted(F, j, at, walk) ==
  \/ /\ walk.previous = at /\ walk.remaining \in Nat
     /\ Cardinality(Below(F, at)) + walk.remaining = j
  \/ /\ walk.remaining = -1 /\ walk.previous \in F
     /\ Cardinality(Below(F, walk.previous)) = j

LEMMA FreeFacts ==
  ASSUME NEW taken
  PROVE  /\ Free(taken) \in SUBSET Int /\ IsFiniteSet(Free(taken))
         /\ (taken \cap Tokens) \in SUBSET Int /\ IsFiniteSet(taken \cap Tokens)
         /\ Cardinality(Free(taken)) \in Nat
         /\ Cardinality(Free(taken)) = Cardinality(Tokens) - Cardinality(taken \cap Tokens)
<1>1. Free(taken) \subseteq Tokens /\ taken \cap Tokens \subseteq Tokens
  BY DEF Free
<1>2. /\ Free(taken) \in SUBSET Int /\ IsFiniteSet(Free(taken))
      /\ (taken \cap Tokens) \in SUBSET Int /\ IsFiniteSet(taken \cap Tokens)
  BY <1>1, TokensAreARange, FS_Subset
<1>3. Cardinality(Free(taken)) = Cardinality(Tokens) - Cardinality(Tokens \cap taken)
  BY TokensAreARange, FS_Difference DEF Free
<1>4. Tokens \cap taken = taken \cap Tokens
  OBVIOUS
<1> QED BY <1>2, <1>3, <1>4, FS_CardinalityType

\* One step of the walk over a gap of free tokens.
LEMMA GapStepCounts ==
  ASSUME NEW F \in SUBSET Int, IsFiniteSet(F), NEW j \in Nat,
         NEW at \in Int, at \notin F, NEW value \in Int, at < value,
         \A t \in Int : at < t /\ t < value => t \in F,
         NEW walk, Counted(F, j, at, walk)
  PROVE  Counted(F, j, value, GapStep(walk, value))
<1>1. CASE walk.remaining = -1 /\ walk.previous \in F /\ Cardinality(Below(F, walk.previous)) = j
  <2>1. GapStep(walk, value) = walk
    BY <1>1 DEF GapStep
  <2> QED BY <1>1, <2>1 DEF Counted
<1>2. CASE /\ walk.previous = at /\ walk.remaining \in Nat
           /\ Cardinality(Below(F, at)) + walk.remaining = j
  <2> DEFINE gap == value - at - 1
  <2>1. gap \in Nat /\ value - walk.previous - 1 = gap /\ ~(walk.remaining < 0)
    BY <1>2
  <2>2. CASE walk.remaining < gap
    <3> DEFINE x == at + 1 + walk.remaining
    <3>1. x \in Int /\ at < x /\ x < value /\ x - at - 1 = walk.remaining
      BY <1>2, <2>2
    <3>2. GapStep(walk, value) = [previous |-> x, remaining |-> -1]
      BY <1>2, <2>1, <2>2 DEF GapStep
    <3> HIDE DEF x
    <3>3. \A t \in Int : at < t /\ t < x => t \in F
      BY <3>1
    <3>4. Cardinality(Below(F, x)) = Cardinality(Below(F, at)) + (x - at - 1)
      BY <3>1, <3>3, CountGap
    <3>5. x \in F
      BY <3>1
    <3>6. Cardinality(Below(F, x)) = j
      BY <1>2, <3>1, <3>4
    <3> QED BY <3>2, <3>5, <3>6 DEF Counted
  <2>3. CASE ~(walk.remaining < gap)
    <3>1. GapStep(walk, value) = [previous |-> value, remaining |-> walk.remaining - gap]
      BY <1>2, <2>1, <2>3 DEF GapStep
    <3>2. Cardinality(Below(F, value)) = Cardinality(Below(F, at)) + gap /\ Cardinality(Below(F, at)) \in Nat
      BY CountGap
    <3>3. walk.remaining - gap \in Nat
      BY <1>2, <2>1, <2>3
    <3>4. Cardinality(Below(F, value)) + (walk.remaining - gap) = j
      BY <1>2, <2>1, <3>2
    <3> QED BY <3>1, <3>3, <3>4 DEF Counted
  <2> QED BY <2>2, <2>3
<1> QED BY <1>1, <1>2 DEF Counted

\* The j-th free token is free, and j free tokens are smaller.
LEMMA JthFreeHasRank ==
  ASSUME NEW taken, NEW j \in 0..(Cardinality(Free(taken)) - 1)
  PROVE  /\ JthFree(taken, j) \in Free(taken)
         /\ Cardinality(Below(Free(taken), JthFree(taken, j))) = j
<1> DEFINE F == Free(taken)
           O == taken \cap Tokens
           n == Cardinality(O)
           asc == Ascending(O)
           low == Min(Tokens)
           high == Max(Tokens)
           At(i) == IF i = 0 THEN low - 1 ELSE asc[i]
<1>1. /\ F \in SUBSET Int /\ IsFiniteSet(F) /\ Cardinality(F) \in Nat
      /\ O \in SUBSET Int /\ IsFiniteSet(O)
  BY FreeFacts
<1>2. n \in Nat /\ j \in Nat /\ j < Cardinality(F)
  BY <1>1, FS_CardinalityType
<1>3. low \in Int /\ high \in Int /\ \A t \in Int : (low <= t /\ t <= high) <=> t \in Tokens
  <2>1. low \in Tokens /\ high \in Tokens /\ Tokens \subseteq Int
    BY TokensAreARange
  <2>2. low \in Int /\ high \in Int
    BY <2>1
  <2>3. Tokens = low..high
    BY TokensAreARange
  <2> HIDE DEF low, high
  <2> QED BY <2>2, <2>3
<1>4. /\ \A i \in 1..n : asc[i] \in O
      /\ \A x \in O : \E i \in 1..n : asc[i] = x
      /\ \A i, k \in 1..n : i < k => asc[i] < asc[k]
  BY <1>1, AscendingLists
<1>5. F = Tokens \ O
  BY DEF Free
<1>6. PICK w : /\ w[0] = [previous |-> low - 1, remaining |-> j]
               /\ \A i \in 1..n : w[i] = GapStep(w[i - 1], asc[i])
               /\ GapWalk(taken, j) = w[n]
  BY <1>1, WalkIsDefined
<1> HIDE DEF F, O, n, asc, low, high
<1>7. ASSUME NEW i \in 0..n
      PROVE  /\ At(i) \in Int /\ At(i) \notin F /\ low - 1 <= At(i) /\ At(i) <= high
             /\ \A k \in 1..n : k <= i => asc[k] <= At(i)
             /\ \A k \in 1..n : i < k => At(i) < asc[k]
  <2>1. CASE i = 0
    <3>1. low <= high
      BY TokensAreARange, <1>3 DEF low, high
    <3>2. ASSUME NEW k \in 1..n PROVE asc[k] \in Int /\ low <= asc[k] /\ k \in Int /\ 1 <= k
      <4>1. asc[k] \in Tokens /\ asc[k] \in Int
        BY <1>1, <1>4 DEF O
      <4> QED BY <1>2, <1>3, <4>1
    <3>3. low - 1 \notin F
      BY <1>3, <1>5
    <3> QED BY <1>3, <2>1, <3>1, <3>2, <3>3
  <2>2. CASE i # 0
    <3>1. i \in 1..n /\ i \in Int
      BY <1>2, <2>2
    <3>2. asc[i] \in O /\ asc[i] \in Tokens /\ asc[i] \in Int
      BY <1>1, <1>4, <3>1 DEF O
    <3>3. asc[i] \notin F /\ low - 1 <= asc[i] /\ asc[i] <= high
      BY <1>3, <1>5, <3>2
    <3>4. ASSUME NEW k \in 1..n PROVE (k <= i => asc[k] <= asc[i]) /\ (i < k => asc[i] < asc[k])
      <4>1. k \in Int /\ asc[k] \in Int
        <5>1. O \subseteq Int /\ asc[k] \in O
          BY <1>1, <1>4
        <5>2. asc[k] \in Int
          BY <5>1
        <5>3. k \in Int
          BY <1>2
        <5> QED BY <5>2, <5>3
      <4>2. k < i => asc[k] < asc[i]
        BY <1>4, <3>1
      <4> QED BY <1>4, <3>1, <3>2, <4>1, <4>2
    <3> QED BY <2>2, <3>2, <3>3, <3>4
  <2> QED BY <2>1, <2>2
<1> HIDE DEF At
<1>8. ASSUME NEW i \in 1..n, Counted(F, j, At(i - 1), w[i - 1])
      PROVE  Counted(F, j, At(i), w[i])
  <2>1. i \in Int /\ i - 1 \in 0..n /\ i \in 0..n /\ i # 0 /\ i - 1 < i
    BY <1>2
  <2>2. At(i) = asc[i] /\ At(i) \in Int /\ At(i) <= high
    BY <1>7, <2>1 DEF At
  <2>3. At(i - 1) \in Int /\ At(i - 1) \notin F /\ low - 1 <= At(i - 1) /\ At(i - 1) < asc[i]
    BY <1>7, <2>1
  <2>4. ASSUME NEW t \in Int, At(i - 1) < t, t < asc[i] PROVE t \in F
    <3>1. t \in Tokens
      BY <1>3, <2>2, <2>3, <2>4
    <3>2. ASSUME NEW k \in 1..n, asc[k] = t PROVE FALSE
      <4>0. k \in Int
        BY <1>2
      <4>1. ~(k <= i - 1)
        <5> SUFFICES ASSUME k <= i - 1 PROVE FALSE
          OBVIOUS
        <5>1. asc[k] <= At(i - 1)
          BY <1>7, <2>1
        <5> QED BY <2>3, <2>4, <3>2, <5>1
      <4>2. ~(i <= k)
        <5> SUFFICES ASSUME i <= k PROVE FALSE
          OBVIOUS
        <5>1. i = k \/ i < k
          BY <2>1, <4>0
        <5>2. asc[i] <= asc[k]
          BY <1>4, <2>2, <3>2, <5>1
        <5> QED BY <2>2, <2>4, <3>2, <5>2
      <4> QED BY <2>1, <4>0, <4>1, <4>2
    <3> QED BY <1>4, <1>5, <3>1, <3>2
  <2>5. Counted(F, j, asc[i], GapStep(w[i - 1], asc[i]))
    BY <1>1, <1>2, <1>8, <2>2, <2>3, <2>4, GapStepCounts
  <2> QED BY <1>6, <2>2, <2>5
<1>9. Counted(F, j, At(0), w[0])
  <2>1. At(0) = low - 1
    BY DEF At
  <2>2. Below(F, low - 1) = {}
    <3>1. \A t \in F : t \in Int /\ low <= t
      BY <1>1, <1>3, <1>5
    <3> QED BY <1>3, <3>1 DEF Below
  <2>3. Cardinality(Below(F, low - 1)) = 0
    BY <2>2, FS_EmptySet
  <2> QED BY <1>2, <1>6, <2>1, <2>3 DEF Counted
<1>10. Counted(F, j, At(n), w[n])
  <2> DEFINE Bad == {i \in 0..n : ~Counted(F, j, At(i), w[i])}
  <2> SUFFICES ASSUME Bad # {} PROVE FALSE
    BY <1>2
  <2>1. Bad \subseteq Nat
    BY <1>2
  <2>2. PICK i \in Bad : \A k \in Bad : i <= k
    BY <2>1, LeastNatural
  <2>3. i \in Nat /\ i # 0 /\ i \in 1..n
    BY <1>2, <1>9, <2>2
  <2>4. i - 1 \in 0..n /\ ~(i <= i - 1)
    BY <1>2, <2>3
  <2>5. Counted(F, j, At(i - 1), w[i - 1])
    BY <2>2, <2>4
  <2> QED BY <1>8, <2>2, <2>3, <2>5
<1>11. JthFree(taken, j) = w[n].previous + 1 + w[n].remaining
  BY <1>6 DEF JthFree
<1>12. CASE w[n].remaining = -1 /\ w[n].previous \in F /\ Cardinality(Below(F, w[n].previous)) = j
  <2>1. JthFree(taken, j) = w[n].previous
    <3>1. w[n].previous \in Int
      BY <1>1, <1>12
    <3> QED BY <1>11, <1>12, <3>1
  <2> QED BY <1>12, <2>1 DEF F
<1>13. CASE /\ w[n].previous = At(n) /\ w[n].remaining \in Nat
            /\ Cardinality(Below(F, At(n))) + w[n].remaining = j
  <2> DEFINE c == At(n)
             x == c + 1 + w[n].remaining
  <2>1. c \in Int /\ c \notin F /\ low - 1 <= c /\ c <= high /\ \A k \in 1..n : asc[k] <= c
    <3>1. n \in 0..n /\ \A k \in 1..n : k <= n
      BY <1>2
    <3> QED BY <1>7, <3>1
  <2> HIDE DEF c
  <2>2. ASSUME NEW t \in Int, c < t, t < high + 1 PROVE t \in F
    <3>1. t \in Tokens
      BY <1>3, <2>1, <2>2
    <3>2. t \notin O
      BY <1>4, <2>1, <2>2
    <3> QED BY <1>5, <3>1, <3>2
  <2>3. /\ Cardinality(Below(F, c)) \in Nat
        /\ Cardinality(Below(F, high + 1)) = Cardinality(Below(F, c)) + ((high + 1) - c - 1)
    <3>1. high + 1 \in Int /\ c < high + 1
      BY <1>3, <2>1
    <3> QED BY <1>1, <2>1, <2>2, <3>1, CountGap
  <2>4. Below(F, high + 1) = F
    <3>1. \A t \in F : t \in Int /\ t < high + 1
      BY <1>1, <1>3, <1>5
    <3> QED BY <3>1 DEF Below
  <2>5. w[n].remaining \in Nat /\ Cardinality(Below(F, c)) + w[n].remaining = j
    BY <1>13 DEF c
  <2>6. Cardinality(F) = Cardinality(Below(F, c)) + (high - c)
    BY <1>3, <2>1, <2>3, <2>4
  <2>7. w[n].remaining < high - c
    BY <1>2, <1>3, <2>1, <2>3, <2>5, <2>6
  <2>8. x \in Int /\ c < x /\ x < high + 1 /\ x - c - 1 = w[n].remaining
    BY <1>3, <2>1, <2>5, <2>7
  <2>9. JthFree(taken, j) = x
    BY <1>11, <1>13 DEF c
  <2> HIDE DEF x
  <2>10. x \in F
    BY <2>2, <2>8
  <2>11. Cardinality(Below(F, x)) = Cardinality(Below(F, c)) + (x - c - 1)
    <3>1. \A t \in Int : c < t /\ t < x => t \in F
      <4> SUFFICES ASSUME NEW t \in Int, c < t, t < x PROVE t \in F
        OBVIOUS
      <4>1. t < high + 1
        BY <1>3, <2>8
      <4> QED BY <2>2, <4>1
    <3> QED BY <1>1, <2>1, <2>8, <3>1, CountGap
  <2> QED BY <2>5, <2>8, <2>9, <2>10, <2>11 DEF F
<1> QED BY <1>10, <1>12, <1>13 DEF Counted

\* The walk enumerates the free tokens in ascending order.
LEMMA GapWalkExact ==
  ASSUME NEW taken
  PROVE  GapWalkIsExact(taken)
<1> DEFINE F == Free(taken)
           n == Cardinality(F)
<1>1. F \in SUBSET Int /\ IsFiniteSet(F) /\ n \in Nat
  BY FreeFacts
<1>2. \A j \in 0..(n - 1) : JthFree(taken, j) \in F /\ Cardinality(Below(F, JthFree(taken, j))) = j
  BY JthFreeHasRank
<1>3. /\ \A t \in F : Cardinality(Below(F, t)) \in 0..(n - 1)
      /\ \A t, u \in F : t < u => Cardinality(Below(F, t)) < Cardinality(Below(F, u))
  BY <1>1, RankNumbers
<1> HIDE DEF F, n
<1>4. ASSUME NEW t \in F PROVE \E j \in 0..(n - 1) : JthFree(taken, j) = t
  <2> DEFINE j == Cardinality(Below(F, t))
  <2>1. j \in 0..(n - 1) /\ j \in Int
    BY <1>1, <1>3
  <2>2. JthFree(taken, j) \in F /\ Cardinality(Below(F, JthFree(taken, j))) = j
    BY <1>2, <2>1
  <2> HIDE DEF j
  <2>3. JthFree(taken, j) \in Int /\ t \in Int
    BY <1>1, <2>2
  <2>4. ~(JthFree(taken, j) < t) /\ ~(t < JthFree(taken, j))
    BY <1>3, <2>1, <2>2 DEF j
  <2> QED BY <2>1, <2>3, <2>4
<1>5. ASSUME NEW i \in 0..(n - 1), NEW j \in 0..(n - 1), i < j PROVE JthFree(taken, i) < JthFree(taken, j)
  <2>1. JthFree(taken, i) \in F /\ JthFree(taken, j) \in F /\ i \in Int /\ j \in Int
    BY <1>1, <1>2
  <2>2. Cardinality(Below(F, JthFree(taken, i))) = i /\ Cardinality(Below(F, JthFree(taken, j))) = j
    BY <1>2
  <2>3. JthFree(taken, i) # JthFree(taken, j)
    BY <1>5, <2>1, <2>2
  <2>4. ~(JthFree(taken, j) < JthFree(taken, i))
    BY <1>3, <1>5, <2>1, <2>2
  <2>5. JthFree(taken, i) \in Int /\ JthFree(taken, j) \in Int
    BY <1>1, <2>1
  <2> QED BY <2>3, <2>4, <2>5
<1>6. {JthFree(taken, j) : j \in 0..(n - 1)} = F
  BY <1>2, <1>4
<1> QED BY <1>5, <1>6 DEF GapWalkIsExact, F, n

-----------------------------------------------------------------------------
(* Hall's condition and the walk of the standalone service.                *)

\* A finite set injects into every finite set that is not smaller.
LEMMA SmallerInjects ==
  ASSUME NEW S, NEW T, IsFiniteSet(S), IsFiniteSet(T), Cardinality(S) <= Cardinality(T)
  PROVE  \E g : g \in Injection(S, T)
<1> DEFINE n == Cardinality(S)
           m == Cardinality(T)
<1>1. n \in Nat /\ m \in Nat /\ n <= m /\ ExistsBijection(1..n, S) /\ ExistsBijection(1..m, T)
  BY FS_CardinalityType
<1> HIDE DEF n, m
<1>2. ExistsInjection(S, 1..n)
  BY <1>1, Fun_ExistsBijEquiv
<1>3. ExistsInjection(1..n, 1..m)
  BY <1>1, Fun_NatInjLeq
<1>4. ExistsInjection(1..m, T)
  BY <1>1, Fun_ExistsBijEquiv
<1>5. ExistsInjection(S, T)
  BY <1>2, <1>3, <1>4, Fun_ExistsInjTransitive
<1> QED BY <1>5 DEF ExistsInjection

\* An injective function is an injection, said with its values.
LEMMA InjectionValues ==
  ASSUME NEW S, NEW T, NEW g
  PROVE  g \in Injection(S, T) <=> g \in [S -> T] /\ \A v, w \in S : g[v] = g[w] => v = w
  BY DEF Injection, IsInjective

\* Hall's condition said of single tokens: each original has a free token
\* that is not its own.
LEMMA HallFacts ==
  ASSUME NEW left, NEW free, IsFiniteSet(free)
  PROVE  BijectionExists(left, free) <=>
           /\ Cardinality(left) <= Cardinality(free)
           /\ \A v \in left : free \ {v} # {}
<1>1. Cardinality(free) \in Nat
  BY FS_CardinalityType
<1>2. ASSUME NEW v
      PROVE  (Cardinality(free) - (IF v \in free THEN 1 ELSE 0) >= 1) <=> free \ {v} # {}
  <2>1. /\ IsFiniteSet(free \ {v})
        /\ Cardinality(free \ {v}) = IF v \in free THEN Cardinality(free) - 1 ELSE Cardinality(free)
    BY FS_RemoveElement
  <2>2. Cardinality(free \ {v}) \in Nat /\ (Cardinality(free \ {v}) = 0 <=> free \ {v} = {})
    BY <2>1, FS_CardinalityType, FS_EmptySet
  <2>3. Cardinality(free \ {v}) = Cardinality(free) - (IF v \in free THEN 1 ELSE 0)
    BY <1>1, <2>1
  <2> QED BY <2>2, <2>3
<1>3. Cardinality(free) >= Cardinality(left) <=> Cardinality(left) <= Cardinality(free)
  OBVIOUS
<1> QED BY <1>2, <1>3 DEF BijectionExists

\* plan_numeric_bijection is right when it refuses: an assignment needs a
\* token for every original, and one that is not its own for each.
LEMMA CompletionNeedsHall ==
  ASSUME NEW left, IsFiniteSet(left), NEW taken, NEW f \in Completions(left, taken)
  PROVE  PlanNumericBijection(left, taken)
<1>1. /\ f \in [left -> Free(taken)] /\ \A v \in left : f[v] # v
      /\ \A v, w \in left : f[v] = f[w] => v = w
  BY DEF Completions
<1>2. f \in Injection(left, Free(taken))
  BY <1>1, InjectionValues
<1>3. IsFiniteSet(Free(taken)) /\ Cardinality(left) <= Cardinality(Free(taken))
  BY <1>2, FreeFacts, FS_Injection
<1>4. \A v \in left : Free(taken) \ {v} # {}
  BY <1>1
<1> QED BY <1>3, <1>4, HallFacts DEF PlanNumericBijection

\* And when it agrees: of the injections into the free tokens one with the
\* fewest fixed points has none.  A fixed point could take a token that is
\* left over, or swap with an original that has another one.
LEMMA HallIsEnough ==
  ASSUME NEW left, IsFiniteSet(left), NEW taken, PlanNumericBijection(left, taken)
  PROVE  Completions(left, taken) # {}
<1> DEFINE F == Free(taken)
           Fixed(g) == {v \in left : g[v] = v}
           Good(g) == g \in [left -> F] /\ \A v, w \in left : g[v] = g[w] => v = w
           Counts == {Cardinality(Fixed(g)) : g \in {h \in [left -> F] : Good(h)}}
<1>1. IsFiniteSet(F)
  BY FreeFacts
<1>2. Cardinality(left) <= Cardinality(F) /\ \A v \in left : F \ {v} # {}
  BY <1>1, HallFacts DEF PlanNumericBijection
<1>3. \E g : Good(g)
  <2>1. PICK g : g \in Injection(left, F)
    BY <1>1, <1>2, SmallerInjects
  <2> QED BY <2>1, InjectionValues
<1>4. ASSUME NEW g PROVE IsFiniteSet(Fixed(g)) /\ Cardinality(Fixed(g)) \in Nat
  <2>1. Fixed(g) \subseteq left
    OBVIOUS
  <2> QED BY <2>1, FS_Subset, FS_CardinalityType
<1>0. ASSUME NEW g, Good(g) PROVE Cardinality(Fixed(g)) \in Counts
  <2>1. g \in {h \in [left -> F] : Good(h)}
    BY <1>0
  <2> HIDE DEF Fixed, Good
  <2> QED BY <2>1
<1>5. Counts \subseteq Nat /\ Counts # {}
  <2>1. Counts # {}
    BY <1>0, <1>3
  <2>2. ASSUME NEW k \in Counts PROVE k \in Nat
    <3> HIDE DEF Fixed, Good
    <3>1. PICK g : k = Cardinality(Fixed(g))
      OBVIOUS
    <3> QED BY <1>4, <3>1
  <2> QED BY <2>1, <2>2
<1>6. PICK least \in Counts : \A k \in Counts : least <= k
  BY <1>5, LeastNatural
<1>7. PICK g : Good(g) /\ least = Cardinality(Fixed(g))
  BY <1>6
<1>8. ASSUME NEW h, Good(h), NEW s \in Fixed(g), Fixed(h) \subseteq Fixed(g) \ {s} PROVE FALSE
  <2>1. Cardinality(Fixed(h)) \in Counts
    <3> HIDE DEF Counts, Good, Fixed, F
    <3> QED BY <1>0, <1>8
  <2> HIDE DEF Fixed
  <2>2. IsFiniteSet(Fixed(g) \ {s}) /\ Cardinality(Fixed(g) \ {s}) = Cardinality(Fixed(g)) - 1
    <3>1. IsFiniteSet(Fixed(g))
      BY <1>4
    <3> QED BY <1>8, <3>1, FS_RemoveElement
  <2>3. Cardinality(Fixed(h)) <= Cardinality(Fixed(g) \ {s})
    BY <1>8, <2>2, FS_Subset
  <2>4. Cardinality(Fixed(h)) \in Nat /\ Cardinality(Fixed(g)) \in Nat
    BY <1>4
  <2>5. least <= Cardinality(Fixed(h))
    BY <1>6, <2>1
  <2> QED BY <1>7, <2>2, <2>3, <2>4, <2>5
<1>9. Fixed(g) = {}
  <2> SUFFICES ASSUME NEW s \in left, g[s] = s PROVE FALSE
    OBVIOUS
  <2>1. PICK t \in F : t # s
    BY <1>2
  <2>2. CASE \A w \in left : g[w] # t
    <3> DEFINE h == [v \in left |-> IF v = s THEN t ELSE g[v]]
    <3>1. Good(h)
      BY <1>7, <2>1, <2>2
    <3>2. Fixed(h) \subseteq Fixed(g) \ {s}
      BY <2>1
    <3> HIDE DEF h
    <3> QED BY <1>8, <3>1, <3>2
  <2>3. ASSUME NEW w \in left, g[w] = t PROVE FALSE
    <3> DEFINE h == [v \in left |-> IF v = s THEN t ELSE IF v = w THEN s ELSE g[v]]
    <3>1. w # s /\ s \in F
      BY <1>7, <2>1, <2>3
    <3>2. Good(h)
      BY <1>7, <2>1, <2>3, <3>1
    <3>3. Fixed(h) \subseteq Fixed(g) \ {s}
      BY <2>1, <2>3, <3>1
    <3> HIDE DEF h
    <3> QED BY <1>8, <3>2, <3>3
  <2> QED BY <2>2, <2>3
<1>10. g \in Completions(left, taken)
  BY <1>7, <1>9 DEF Completions
<1> QED BY <1>10

\* The bounded walk of NumericKeyDomainMapping._select_candidate finds a token
\* that leaves the others a completion: it tries every free token when there
\* are two at most, and with three or more the first one will do.
LEMMA WalkCompletes ==
  ASSUME NEW left, IsFiniteSet(left), NEW taken, taken \subseteq Tokens,
         PlanNumericBijection(left, taken), NEW v \in left
  PROVE  CompletionWalk(left, v, taken) # {}
<1> DEFINE F == Free(taken)
           blocked == BlockedSelection(taken, v)
           limit == Min({Cardinality(Free(blocked)), Cardinality(left) + 2})
           rest == left \ {v}
<1>1. IsFiniteSet(F) /\ Cardinality(F) \in Nat /\ Cardinality(left) \in Nat
  BY FreeFacts, FS_CardinalityType
<1>2. Cardinality(left) <= Cardinality(F) /\ F \ {v} # {}
  BY <1>1, HallFacts DEF PlanNumericBijection
<1>3. Free(blocked) = F \ {v}
  BY DEF Free, BlockedSelection
<1>4. IsFiniteSet(F \ {v}) /\ Cardinality(F \ {v}) \in Nat /\ Cardinality(F \ {v}) # 0
      /\ Cardinality(F \ {v}) <= Cardinality(F)
  <2>1. IsFiniteSet(F \ {v}) /\ Cardinality(F \ {v}) <= Cardinality(F)
    BY <1>1, FS_Subset
  <2> QED BY <1>2, <2>1, FS_CardinalityType, FS_EmptySet
<1>5. IsFiniteSet(rest) /\ Cardinality(rest) = Cardinality(left) - 1
  BY FS_RemoveElement
<1>6. /\ limit \in Nat /\ limit # 0
      /\ limit <= Cardinality(F \ {v})
      /\ limit = Cardinality(F \ {v}) \/ limit = Cardinality(left) + 2
  <2> DEFINE bounds == {Cardinality(F \ {v}), Cardinality(left) + 2}
  <2>1. bounds \in SUBSET Int /\ bounds # {} /\ limit = Min(bounds)
    BY <1>1, <1>3, <1>4
  <2>2. IsFiniteSet(bounds)
    <3>1. IsFiniteSet({Cardinality(F \ {v})} \cup {Cardinality(left) + 2})
      BY FS_Singleton, FS_Union
    <3>2. bounds = {Cardinality(F \ {v})} \cup {Cardinality(left) + 2}
      OBVIOUS
    <3> QED BY <3>1, <3>2
  <2>3. Min(bounds) \in bounds /\ \A y \in bounds : Min(bounds) <= y
    BY <2>1, <2>2, Extremes
  <2> HIDE DEF limit
  <2> QED BY <1>1, <1>4, <2>1, <2>3
<1>7. CompletionWalk(left, v, taken) =
        {t \in {JthFree(blocked, j) : j \in 0..(limit - 1)} : ResidualFeasible(left, v, taken, t)}
  BY DEF CompletionWalk
<1>8. GapWalkIsExact(blocked)
  BY GapWalkExact
<1>9. {JthFree(blocked, j) : j \in 0..(Cardinality(F \ {v}) - 1)} = F \ {v}
  BY <1>3, <1>8 DEF GapWalkIsExact
<1>10. ASSUME NEW t \in F
       PROVE  /\ Free(taken \cup {t}) = F \ {t}
              /\ IsFiniteSet(F \ {t}) /\ Cardinality(F \ {t}) = Cardinality(F) - 1
  BY <1>1, FS_RemoveElement DEF Free
<1>11. ASSUME NEW t \in F, \A w \in rest : (F \ {t}) \ {w} # {}
       PROVE  ResidualFeasible(left, v, taken, t)
  <2>1. Cardinality(rest) <= Cardinality(F \ {t})
    <3>1. Cardinality(F \ {t}) = Cardinality(F) - 1
      BY <1>10
    <3> HIDE DEF F, rest
    <3> QED BY <1>1, <1>2, <1>5, <3>1
  <2>2. BijectionExists(rest, F \ {t})
    BY <1>10, <1>11, <2>1, HallFacts
  <2> QED BY <1>10, <2>2 DEF ResidualFeasible, PlanNumericBijection
<1> HIDE DEF limit, blocked
<1>12. CASE Cardinality(F) >= 3
  <2> DEFINE t == JthFree(blocked, 0)
  <2>1. 0 \in 0..(limit - 1) /\ 0 \in 0..(Cardinality(F \ {v}) - 1)
    BY <1>4, <1>6
  <2>2. t \in F
    BY <1>9, <2>1
  <2> HIDE DEF t
  <2>3. ASSUME NEW w \in rest PROVE (F \ {t}) \ {w} # {}
    <3>0. IsFiniteSet(F \ {t}) /\ Cardinality(F \ {t}) = Cardinality(F) - 1
      BY <1>10, <2>2
    <3>1. IsFiniteSet(F \ {t}) /\ Cardinality(F \ {t}) >= 2
      <4> HIDE DEF F
      <4> QED BY <1>1, <1>12, <3>0
    <3>2. /\ IsFiniteSet((F \ {t}) \ {w})
          /\ Cardinality((F \ {t}) \ {w}) =
               IF w \in F \ {t} THEN Cardinality(F \ {t}) - 1 ELSE Cardinality(F \ {t})
      BY <3>1, FS_RemoveElement
    <3>3. Cardinality((F \ {t}) \ {w}) # 0
      <4>1. Cardinality(F \ {t}) \in Nat
        BY <3>1, FS_CardinalityType
      <4> QED BY <3>1, <3>2, <4>1
    <3> QED BY <3>3, FS_EmptySet
  <2>4. ResidualFeasible(left, v, taken, t)
    BY <1>11, <2>2, <2>3
  <2> QED BY <1>7, <2>1, <2>4 DEF t
<1>13. CASE Cardinality(F) < 3
  <2>1. limit = Cardinality(F \ {v})
    <3>1. 1 <= Cardinality(left)
      <4>1. left # {}
        OBVIOUS
      <4>2. Cardinality(left) # 0
        BY <4>1, FS_EmptySet
      <4> QED BY <1>1, <4>2
    <3> QED BY <1>1, <1>4, <1>6, <1>13, <3>1
  <2>2. PICK f \in Completions(left, taken) : TRUE
    BY HallIsEnough
  <2>3. /\ f \in [left -> F] /\ \A w \in left : f[w] # w
        /\ \A u, w \in left : f[u] = f[w] => u = w
    BY <2>2 DEF Completions
  <2>4. f[v] \in F \ {v}
    BY <2>3
  <2>5. \A w \in rest : f[w] \in (F \ {f[v]}) \ {w}
    BY <2>3
  <2>6. ResidualFeasible(left, v, taken, f[v])
    BY <1>11, <2>4, <2>5
  <2>7. f[v] \in {JthFree(blocked, j) : j \in 0..(limit - 1)}
    BY <1>9, <2>1, <2>4
  <2> QED BY <1>7, <2>6, <2>7
<1> QED BY <1>1, <1>12, <1>13

-----------------------------------------------------------------------------
(* The counters of the allocation.                                         *)

\* The rows are those of the first originals in the order of texts: every
\* run begins at the first and skips what has its row.
RowsAreAPrefix ==
  \A v \in DOMAIN mapping, w \in Originals : TextRank[w] < TextRank[v] => w \in DOMAIN mapping

\* occupied counts the rows.  remaining counts what was observed less what
\* this run has mapped, so the two add up to the rows found and the originals.
CountersAreRight ==
  /\ run \in {"scan", "domain", "count"} => before = DOMAIN mapping
  /\ run \in {"next", "select", "commit"} => occupied = Cardinality(DOMAIN mapping)
  /\ run = "drop" => occupied \in Nat /\ occupied + 1 = Cardinality(DOMAIN mapping)
  /\ run \in Allocating =>
       remaining \in Int /\ occupied + remaining = Cardinality(before) + Cardinality(Originals)

ChoiceIsFree ==
  /\ run \in {"select", "commit"} => current \notin DOMAIN mapping
  /\ run = "commit" => candidate \in Free(Occupied)

CountInv ==
  TokensAreWritable /\ RowsAreAPrefix /\ CountersAreRight /\ ChoiceIsFree /\ CapacityFailureIsReal

LEMMA SizeFacts ==
  ASSUME Inv
  PROVE  /\ IsFiniteSet(Originals) /\ Cardinality(Originals) \in Nat
         /\ IsFiniteSet(DOMAIN mapping) /\ Cardinality(DOMAIN mapping) \in Nat
         /\ IsFiniteSet(before) /\ Cardinality(before) \in Nat
         /\ Cardinality(before) <= Cardinality(Originals)
         /\ (Cardinality(before) = 0 <=> before = {})
         /\ IsFiniteSet(spool) /\ Cardinality(spool) \in Nat
         /\ IsFiniteSet(Tokens) /\ Cardinality(Tokens) \in Nat
<1>1. IsFiniteSet(source)
  BY AllocationAssumption, FS_Subset DEF Inv, TypeOK
<1>2. [o \in source |-> o.value] \in Surjection(source, Originals)
  BY DEF Surjection, Originals
<1>3. IsFiniteSet(Originals)
  BY <1>1, <1>2, FS_Surjection
<1>4. DOMAIN mapping \subseteq Originals /\ before \subseteq Originals /\ spool \subseteq Originals
  BY DEF Inv, TypeOK
<1>5. /\ IsFiniteSet(DOMAIN mapping) /\ IsFiniteSet(before) /\ IsFiniteSet(spool)
      /\ Cardinality(before) <= Cardinality(Originals)
  BY <1>3, <1>4, FS_Subset
<1> QED BY <1>3, <1>5, FS_CardinalityType, FS_EmptySet, TokensAreARange

\* The rows take as many tokens as there are.
LEMMA OccupiedCount ==
  ASSUME Inv, TokensAreWritable
  PROVE  /\ Occupied \subseteq Tokens
         /\ Cardinality(Free(Occupied)) \in Nat
         /\ Cardinality(Free(Occupied)) = Cardinality(Tokens) - Cardinality(DOMAIN mapping)
<1> DEFINE f == [v \in DOMAIN mapping |-> mapping[v]]
<1>1. Occupied \subseteq Tokens
  BY DEF Occupied, TokensAreWritable
<1>2. f \in Surjection(DOMAIN mapping, Occupied)
  BY DEF Surjection, Occupied
<1>3. f \in Injection(DOMAIN mapping, Occupied)
  <2>1. f \in [DOMAIN mapping -> Occupied]
    BY DEF Occupied
  <2>2. \A v, w \in DOMAIN mapping : f[v] = f[w] => v = w
    BY DEF Inv, MappingIsBijective
  <2> QED BY <2>1, <2>2, InjectionValues
<1> HIDE DEF f
<1>4. Cardinality(Occupied) = Cardinality(DOMAIN mapping)
  BY <1>2, <1>3, SizeFacts, FS_Surjection
<1>5. Occupied \cap Tokens = Occupied
  BY <1>1
<1> QED BY <1>1, <1>4, <1>5, FreeFacts

\* Every draw within the counted free tokens is a free token.
LEMMA FreeTokenIsFree ==
  ASSUME Inv, CountInv, run = "select", NEW j \in 0..(FreeCount - 1)
  PROVE  FreeToken(j) \in Free(Occupied)
<1>1. FreeCount = Cardinality(Free(Occupied))
  BY OccupiedCount DEF CountInv, CountersAreRight, FreeCount
<1> QED BY <1>1, JthFreeHasRank DEF FreeToken

\* The bound of the walk is not above the number of free tokens.
LEMMA LimitFacts ==
  ASSUME Inv, CountInv, run = "select"
  PROVE  /\ FreeCount \in Int /\ WalkLimit \in Int /\ WalkLimit <= FreeCount
         /\ WalkLimit = FreeCount \/ WalkLimit = remaining + 2
<1> DEFINE bounds == {FreeCount, remaining + 2}
<1>1. FreeCount \in Int /\ remaining + 2 \in Int
  BY SizeFacts DEF CountInv, CountersAreRight, FreeCount, Allocating, Choosing
<1>2. WalkLimit = Min(bounds)
  BY DEF WalkLimit
<1>3. IsFiniteSet(bounds)
  <2>1. IsFiniteSet({FreeCount} \cup {remaining + 2}) /\ bounds = {FreeCount} \cup {remaining + 2}
    BY FS_Singleton, FS_Union
  <2> QED BY <2>1
<1>4. bounds \in SUBSET Int /\ bounds # {}
  BY <1>1
<1>5. Min(bounds) \in bounds /\ \A y \in bounds : Min(bounds) <= y
  BY <1>3, <1>4, Extremes
<1> HIDE DEF WalkLimit, FreeCount
<1> QED BY <1>1, <1>2, <1>5

LEMMA SpareFacts ==
  ASSUME Inv, ~(Cardinality(Tokens) - Cardinality(Originals) < SpareNeeded)
  PROVE  /\ Cardinality(Tokens) >= Cardinality(Originals) + 1
         /\ Cardinality(before) # 0 => /\ Cardinality(Tokens) >= Cardinality(Originals) + 2
                                       /\ Cardinality(Tokens) >= Cardinality(Originals) + Cardinality(before)
<1> DEFINE B == Cardinality(before)
           T == Cardinality(Tokens)
           O == Cardinality(Originals)
<1>1. B \in Nat /\ T \in Nat /\ O \in Nat /\ (B = 0 <=> before = {})
  BY SizeFacts
<1>2. CASE before = {}
  <2>1. SpareNeeded = 1 /\ B = 0
    BY <1>1, <1>2 DEF SpareNeeded
  <2> HIDE DEF B, T, O
  <2>2. ~(T - O < 1)
    BY <2>1 DEF T, O
  <2> QED BY <1>1, <2>1, <2>2 DEF B, T, O
<1>3. CASE before # {}
  <2> DEFINE bounds == {2, B}
  <2>1. SpareNeeded = Max(bounds)
    BY <1>3 DEF SpareNeeded
  <2>2. IsFiniteSet(bounds)
    <3>1. IsFiniteSet({2} \cup {B}) /\ bounds = {2} \cup {B}
      BY FS_Singleton, FS_Union
    <3> QED BY <3>1
  <2>3. bounds \in SUBSET Int /\ bounds # {}
    BY <1>1
  <2>4. Max(bounds) \in bounds /\ \A y \in bounds : y <= Max(bounds)
    BY <2>2, <2>3, Extremes
  <2> DEFINE M == Max(bounds)
  <2>5. M \in Int /\ 2 <= M /\ B <= M
    BY <2>3, <2>4
  <2> HIDE DEF M
  <2>6. ~(T - O < M)
    BY <2>1 DEF M
  <2> HIDE DEF B, T, O
  <2>7. T >= O + 2 /\ T >= O + B
    BY <1>1, <2>5, <2>6
  <2>8. T >= O + 1
    BY <1>1, <2>7
  <2> QED BY <2>7, <2>8 DEF B, T, O
<1> QED BY <1>2, <1>3

\* The first check of the capacity passes with the tokens to spare.
LEMMA CountPasses ==
  ASSUME Inv, CountInv, run = "count",
         ~(Cardinality(Tokens) - Cardinality(Originals) < SpareNeeded)
  PROVE  NumericResidualFeasible(Cardinality(DOMAIN mapping), Cardinality(spool))
<1> DEFINE B == Cardinality(before)
           T == Cardinality(Tokens)
           O == Cardinality(Originals)
<1>1. B \in Nat /\ T \in Nat /\ O \in Nat /\ B <= O
  BY SizeFacts
<1>2. DOMAIN mapping = before /\ spool = Originals
  BY DEF CountInv, CountersAreRight, Inv, StreamIsMapped
<1>3. T >= O + 1 /\ (B # 0 => T >= O + 2 /\ T >= O + B)
  BY SpareFacts
<1> HIDE DEF B, T, O
<1>4. T - B >= O /\ T - B >= 1 /\ (O > 0 => T - B >= 2)
  BY <1>1, <1>3
<1> QED BY <1>2, <1>4 DEF NumericResidualFeasible, B, T, O

\* In "select" the stream has passed exactly the originals that have rows.
LEMMA StreamIsWhatIsLeft ==
  ASSUME Inv, CountInv, run = "select"
  PROVE  Cardinality(DOMAIN mapping) + Cardinality(spool) = Cardinality(Originals)
<1>1. current \in spool /\ current \notin DOMAIN mapping /\ spool \subseteq Originals
  BY DEF Inv, TypeOK, Choosing, CountInv, ChoiceIsFree
<1>2. \A w \in spool : TextRank[current] <= TextRank[w]
  BY DEF Inv, StreamIsOrdered, Choosing
<1>3. spool \cap DOMAIN mapping = {}
  <2> SUFFICES ASSUME NEW v \in spool, v \in DOMAIN mapping PROVE FALSE
    OBVIOUS
  <2>1. current \in Values /\ v \in Values
    BY <1>1 DEF Inv, TypeOK, Originals, Values
  <2>2. TextRank[current] \in Nat /\ TextRank[v] \in Nat /\ TextRank[current] # TextRank[v]
    BY <1>1, <2>1, AllocationAssumption
  <2>3. TextRank[current] < TextRank[v]
    BY <1>2, <2>2
  <2> QED BY <1>1, <2>3 DEF CountInv, RowsAreAPrefix
<1>4. Originals = spool \cup DOMAIN mapping
  BY DEF Inv, TypeOK, StreamIsMapped, Allocating, Choosing
<1>5. Cardinality(spool \cup DOMAIN mapping)
        = Cardinality(spool) + Cardinality(DOMAIN mapping) - Cardinality(spool \cap DOMAIN mapping)
  BY SizeFacts, FS_Union
<1>6. Cardinality(spool \cap DOMAIN mapping) = 0
  BY <1>3, FS_EmptySet
<1> QED BY <1>4, <1>5, <1>6, SizeFacts

\* With the tokens to spare the bounded walk meets a token it may take: it
\* tries more tokens than there are values left in the spool.
LEMMA WalkFinds ==
  ASSUME Inv, CountInv, run = "select",
         ~(Cardinality(Tokens) - Cardinality(Originals) < SpareNeeded)
  PROVE  FreeCount >= 1 /\ Walk # {}
<1> DEFINE B == Cardinality(before)
           T == Cardinality(Tokens)
           O == Cardinality(Originals)
           R == Cardinality(DOMAIN mapping)
           S == Cardinality(spool)
<1>1. B \in Nat /\ T \in Nat /\ O \in Nat /\ B <= O /\ R \in Nat /\ S \in Nat
  BY SizeFacts
<1>2. occupied = R /\ remaining \in Int /\ occupied + remaining = B + O
  BY DEF CountInv, CountersAreRight, Allocating, Choosing
<1>3. R + S = O
  BY StreamIsWhatIsLeft
<1>4. S # 0
  <2>1. spool # {}
    BY DEF Inv, TypeOK, Choosing
  <2> QED BY <2>1, SizeFacts, FS_EmptySet
<1>5. T >= O + 1 /\ (B # 0 => T >= O + 2 /\ T >= O + B)
  BY SpareFacts
<1>6. FreeCount = T - R
  BY <1>2 DEF FreeCount
<1> HIDE DEF B, T, O, R, S
<1>7. T - R >= 1 /\ T - R > S /\ remaining + 2 > S /\ T - R \in Nat /\ remaining + 2 \in Int
  BY <1>1, <1>2, <1>3, <1>5
<1>8. NumericResidualFeasible(occupied + 1, remaining - 1)
  <2>1. T - (occupied + 1) >= remaining - 1
    BY <1>1, <1>2, <1>5
  <2>2. T - (occupied + 1) >= 1
    BY <1>1, <1>2, <1>3, <1>4, <1>5
  <2>3. remaining - 1 > 0 => T - (occupied + 1) >= 2
    BY <1>1, <1>2, <1>3, <1>4, <1>5
  <2> QED BY <2>1, <2>2, <2>3 DEF NumericResidualFeasible, T
<1>9. WalkLimit \in Nat /\ WalkLimit > S /\ WalkLimit <= T - R
  <2>1. WalkLimit \in Int /\ WalkLimit <= T - R /\ (WalkLimit = T - R \/ WalkLimit = remaining + 2)
    BY <1>6, LimitFacts
  <2> QED BY <1>1, <1>7, <2>1
<1>10. \E j \in 0..(WalkLimit - 1) : FreeToken(j) \notin spool
  <2> SUFFICES ASSUME \A j \in 0..(WalkLimit - 1) : FreeToken(j) \in spool PROVE FALSE
    OBVIOUS
  <2> DEFINE D == 0..(WalkLimit - 1)
             f == [j \in D |-> FreeToken(j)]
  <2>1. f \in [D -> spool]
    OBVIOUS
  <2>2. ASSUME NEW i \in D, NEW j \in D, f[i] = f[j] PROVE i = j
    <3>1. i \in 0..(FreeCount - 1) /\ j \in 0..(FreeCount - 1) /\ i \in Int /\ j \in Int
      BY <1>1, <1>6, <1>7, <1>9
    <3>2. FreeCount = Cardinality(Free(Occupied))
      BY <1>2, <1>6, OccupiedCount DEF CountInv, T, R
    <3>3. /\ Cardinality(Below(Free(Occupied), FreeToken(i))) = i
          /\ Cardinality(Below(Free(Occupied), FreeToken(j))) = j
      BY <3>1, <3>2, JthFreeHasRank DEF FreeToken
    <3>4. FreeToken(i) = FreeToken(j)
      BY <2>2
    <3> QED BY <3>3, <3>4
  <2>3. f \in Injection(D, spool)
    <3> HIDE DEF f, D
    <3>1. \A i, j \in D : f[i] = f[j] => i = j
      BY <2>2
    <3> QED BY <2>1, <3>1, InjectionValues
  <2> HIDE DEF f
  <2>4. Cardinality(D) <= S
    BY <2>3, SizeFacts, FS_Injection DEF S
  <2>5. Cardinality(D) = WalkLimit
    <3>1. 0 \in Int /\ WalkLimit - 1 \in Int /\ ~(0 > WalkLimit - 1)
      BY <1>1, <1>9
    <3>2. Cardinality(D) = IF 0 > WalkLimit - 1 THEN 0 ELSE (WalkLimit - 1) - 0 + 1
      BY <3>1, FS_Interval
    <3> HIDE DEF D
    <3> QED BY <1>9, <3>1, <3>2
  <2> HIDE DEF D
  <2> QED BY <1>1, <1>9, <2>4, <2>5
<1>11. current \in spool
  BY DEF Inv, TypeOK, Choosing
<1>12. Walk # {}
  BY <1>8, <1>10, <1>11 DEF Walk, Accept
<1> QED BY <1>6, <1>7, <1>12

-----------------------------------------------------------------------------
(* CountInv is kept.                                                       *)

\* A run that ends leaves rows and history alone.
LEMMA EndCounts ==
  ASSUME CountInv, NEW how \in Ended, End(how), UNCHANGED <<mapping, History>>,
         how \in CapacityFailures => Cardinality(Tokens) - Cardinality(Originals) < SpareNeeded
  PROVE  CountInv'
<1>1. Originals' = Originals /\ SpareNeeded' = SpareNeeded /\ Occupied' = Occupied
  BY DEF Originals, History, SpareNeeded, Occupied
<1>2. how \notin Active
  BY DEF Ended, Failures, CapacityFailures, Active, Allocating, Choosing
<1>3. TokensAreWritable' /\ RowsAreAPrefix'
  BY <1>1 DEF CountInv, TokensAreWritable, RowsAreAPrefix
<1>4. CountersAreRight' /\ ChoiceIsFree'
  BY <1>2 DEF End, CountersAreRight, ChoiceIsFree, Active, Allocating, Choosing
<1>5. CapacityFailureIsReal'
  BY <1>1 DEF End, CapacityFailureIsReal
<1> QED BY <1>3, <1>4, <1>5 DEF CountInv

\* A step that goes on with the rows as they are.
LEMMA GoesOn ==
  ASSUME CountInv, UNCHANGED <<mapping, source>>, run' \notin CapacityFailures,
         CountersAreRight', ChoiceIsFree'
  PROVE  CountInv'
<1>1. Originals' = Originals
  BY DEF Originals
<1>2. TokensAreWritable' /\ RowsAreAPrefix'
  BY <1>1 DEF CountInv, TokensAreWritable, RowsAreAPrefix
<1>3. CapacityFailureIsReal'
  BY DEF CapacityFailureIsReal
<1> QED BY <1>2, <1>3 DEF CountInv

LEMMA CountInit == Init => CountInv
<1> SUFFICES ASSUME Init PROVE CountInv
  OBVIOUS
<1>1. DOMAIN mapping = {} /\ run = "idle"
  BY DEF Init
<1> QED BY <1>1 DEF CountInv, TokensAreWritable, RowsAreAPrefix, CountersAreRight, ChoiceIsFree,
        CapacityFailureIsReal, CapacityFailures, Allocating, Choosing

\* The steps up to the first check of the capacity.
LEMMA ScanCounts ==
  ASSUME Inv, CountInv,
         \/ Begin
         \/ \E o \in toScan : Observe(o)
         \/ EndScan
         \/ EnsureDomain
         \/ CheckCapacity
  PROVE  CountInv'
<1> USE DEF Allocating, Choosing, CapacityFailures
<1>1. CASE Begin
  <2>1. UNCHANGED <<mapping, source>> /\ run' = "scan" /\ before' = DOMAIN mapping
    BY <1>1 DEF Begin, Vault
  <2>2. CountersAreRight' /\ ChoiceIsFree'
    BY <2>1 DEF CountersAreRight, ChoiceIsFree
  <2> QED BY <2>1, <2>2, GoesOn
<1>2. ASSUME NEW o \in toScan, Observe(o) PROVE CountInv'
  <2>1. UNCHANGED <<mapping, History>> /\ run = "scan"
    BY <1>2 DEF Observe, Vault
  <2>2. CASE ClassifyMemberOriginal(o.member, o.value) = "REVERSIBLE"
    <3>1. run' = run
      BY <1>2, <2>2 DEF Observe
    <3>2. CountersAreRight' /\ ChoiceIsFree'
      BY <2>1, <3>1 DEF CountInv, CountersAreRight, ChoiceIsFree, History
    <3> QED BY <2>1, <3>1, <3>2, GoesOn DEF History
  <2>3. CASE ClassifyMemberOriginal(o.member, o.value) # "REVERSIBLE"
    <3>1. End(ClassifyMemberOriginal(o.member, o.value))
      BY <1>2, <2>3 DEF Observe
    <3>2. ClassifyMemberOriginal(o.member, o.value) \in {"OUT_OF_MEMBER_RANGE", "RECOVERY_UNWRITABLE"}
      BY <2>3 DEF ClassifyMemberOriginal
    <3> QED BY <2>1, <3>1, <3>2, EndCounts DEF Ended, Failures
  <2> QED BY <2>2, <2>3
<1>3. CASE EndScan \/ EnsureDomain
  <2>1. /\ UNCHANGED <<mapping, History>>
        /\ run \in {"scan", "domain"} /\ run' \in {"domain", "count"}
    BY <1>3 DEF EndScan, EnsureDomain, Vault
  <2>2. CountersAreRight' /\ ChoiceIsFree'
    BY <2>1 DEF CountInv, CountersAreRight, ChoiceIsFree, History
  <2> QED BY <2>1, <2>2, GoesOn DEF History
<1>4. CASE CheckCapacity
  <2>1. UNCHANGED <<mapping, History>> /\ run = "count"
    BY <1>4 DEF CheckCapacity, Vault
  <2>2. CASE NumericResidualFeasible(Cardinality(DOMAIN mapping), Cardinality(spool))
    <3>1. /\ run' = "next"
          /\ occupied' = Cardinality(DOMAIN mapping) /\ remaining' = Cardinality(spool)
      BY <1>4, <2>2 DEF CheckCapacity
    <3>2. before = DOMAIN mapping /\ spool = Originals
      BY <2>1 DEF CountInv, CountersAreRight, Inv, StreamIsMapped
    <3>3. Originals' = Originals /\ before' = before /\ Cardinality(spool) \in Int
      BY <2>1, SizeFacts DEF Originals, History
    <3>4. CountersAreRight' /\ ChoiceIsFree'
      BY <2>1, <3>1, <3>2, <3>3 DEF CountersAreRight, ChoiceIsFree
    <3> QED BY <2>1, <3>1, <3>4, GoesOn DEF History
  <2>3. CASE ~NumericResidualFeasible(Cardinality(DOMAIN mapping), Cardinality(spool))
    <3>1. End("DOMAIN_EXHAUSTED")
      BY <1>4, <2>3 DEF CheckCapacity
    <3>2. Cardinality(Tokens) - Cardinality(Originals) < SpareNeeded
      BY <2>1, <2>3, CountPasses
    <3> QED BY <2>1, <3>1, <3>2, EndCounts DEF Ended, Failures
  <2> QED BY <2>2, <2>3
<1> QED BY <1>1, <1>2, <1>3, <1>4

LEMMA StreamCounts ==
  ASSUME Inv, CountInv, NextOriginal \/ Finish \/ Select
  PROVE  CountInv'
<1> USE DEF Allocating, Choosing, CapacityFailures
<1>1. CASE NextOriginal
  <2>1. /\ UNCHANGED <<mapping, History, occupied, remaining>> /\ run = "next"
        /\ \/ run' = "next"
           \/ run' = "select" /\ current' \notin DOMAIN mapping
    BY <1>1 DEF NextOriginal, Vault, Counters
  <2>2. Originals' = Originals /\ before' = before
    BY <2>1 DEF Originals, History
  <2>3. CountersAreRight'
    BY <2>1, <2>2 DEF CountInv, CountersAreRight
  <2>4. ChoiceIsFree'
    BY <2>1 DEF ChoiceIsFree
  <2> QED BY <2>1, <2>3, <2>4, GoesOn DEF History
<1>2. CASE Finish
  BY <1>2, EndCounts DEF Finish, Ended, Vault
<1>3. CASE Select
  <2>1. UNCHANGED <<mapping, History>> /\ run = "select"
    BY <1>3 DEF Select, Vault
  <2>2. CASE SelectFails
    <3>1. Cardinality(Tokens) - Cardinality(Originals) < SpareNeeded
      <4> SUFFICES ASSUME ~(Cardinality(Tokens) - Cardinality(Originals) < SpareNeeded) PROVE FALSE
        OBVIOUS
      <4>1. FreeCount >= 1 /\ Walk # {}
        BY <2>1, WalkFinds
      <4>2. FreeCount \in Int
        BY <2>1, SizeFacts DEF FreeCount, CountInv, CountersAreRight
      <4>3. FreeCount < 1 \/ Walk = {}
        BY <2>2 DEF SelectFails
      <4> QED BY <4>1, <4>2, <4>3
    <3> QED BY <2>1, <2>2, <3>1, EndCounts DEF SelectFails, Ended, Failures
  <2>3. CASE SelectByProbe \/ SelectByWalk
    <3>1. PICK j \in 0..(FreeCount - 1) : Selected(FreeToken(j))
      <4>1. CASE SelectByProbe
        BY <4>1 DEF SelectByProbe
      <4>2. CASE SelectByWalk
        <5>1. Walk # {} /\ Selected(FreeToken(Min(Walk)))
          BY <4>2 DEF SelectByWalk
        <5>2. Min(Walk) \in 0..(WalkLimit - 1)
          BY <5>1, WalkHasMin DEF Walk
        <5>3. WalkLimit \in Int /\ WalkLimit <= FreeCount /\ FreeCount \in Int
          BY <2>1, LimitFacts
        <5>4. Min(Walk) \in 0..(FreeCount - 1)
          BY <5>2, <5>3
        <5> QED BY <5>1, <5>4
      <4> QED BY <2>3, <4>1, <4>2
    <3>2. FreeToken(j) \in Free(Occupied)
      BY <2>1, FreeTokenIsFree
    <3>3. /\ run' = "commit" /\ candidate' = FreeToken(j)
          /\ UNCHANGED <<current, occupied, remaining>>
      BY <3>1 DEF Selected, Counters
    <3>4. Originals' = Originals /\ before' = before /\ Free(Occupied)' = Free(Occupied)
      BY <2>1 DEF Originals, History, Occupied, Free, Tokens
    <3>5. CountersAreRight'
      BY <2>1, <3>3, <3>4 DEF CountInv, CountersAreRight
    <3>6. ChoiceIsFree'
      BY <2>1, <3>2, <3>3, <3>4 DEF CountInv, ChoiceIsFree
    <3> QED BY <2>1, <3>3, <3>5, <3>6, GoesOn DEF History
  <2> QED BY <1>3, <2>2, <2>3 DEF Select
<1> QED BY <1>1, <1>2, <1>3

LEMMA RowCounts ==
  ASSUME Inv, CountInv, Commit \/ Drop
  PROVE  CountInv'
<1> USE DEF Allocating, Choosing, CapacityFailures
<1>1. CASE Commit
  <2>0. UNCHANGED History /\ run = "commit" /\ Originals' = Originals
    BY <1>1 DEF Commit, Originals, History
  <2>1. CASE current \in DOMAIN mapping \/ candidate \in Occupied
    BY <1>1, <2>0, <2>1, EndCounts DEF Commit, AddNumericKeyMapping, Ended, Failures
  <2>2. CASE ~(current \in DOMAIN mapping \/ candidate \in Occupied)
    <3>1. /\ run' = "drop"
          /\ mapping' = [v \in DOMAIN mapping \cup {current} |->
                            IF v = current THEN candidate ELSE mapping[v]]
          /\ UNCHANGED <<spool, current, occupied, remaining>>
      BY <1>1, <2>2 DEF Commit, AddNumericKeyMapping, Counters
    <3>2. DOMAIN mapping' = DOMAIN mapping \cup {current}
      BY <3>1
    <3>3. TokensAreWritable'
      <4>1. candidate \in Tokens
        BY <2>0 DEF CountInv, ChoiceIsFree, Free
      <4>2. Tokens' = Tokens
        BY DEF Tokens
      <4> QED BY <3>1, <3>2, <4>1 DEF CountInv, TokensAreWritable
    <3>4. RowsAreAPrefix'
      <4> SUFFICES ASSUME NEW v \in DOMAIN mapping', NEW w \in Originals,
                          TextRank[w] < TextRank[v]
                   PROVE  w \in DOMAIN mapping'
        BY <2>0 DEF RowsAreAPrefix
      <4>1. CASE v \in DOMAIN mapping
        BY <3>2, <4>1 DEF CountInv, RowsAreAPrefix
      <4>2. CASE v = current
        <5>1. current \in spool /\ \A u \in spool : TextRank[current] <= TextRank[u]
          BY <2>0 DEF Inv, TypeOK, StreamIsOrdered
        <5>2. w \in Values /\ current \in Values
          BY <5>1 DEF Inv, TypeOK, Originals, Values
        <5>3. TextRank[w] \in Nat /\ TextRank[current] \in Nat
          BY <5>2, AllocationAssumption
        <5>4. w \notin spool
          BY <4>2, <5>1, <5>3
        <5> QED BY <2>0, <3>2, <5>4 DEF Inv, StreamIsMapped
      <4> QED BY <3>2, <4>1, <4>2
    <3>5. Cardinality(DOMAIN mapping') = Cardinality(DOMAIN mapping) + 1
      BY <2>2, <3>2, SizeFacts, FS_AddElement
    <3>6. CountersAreRight'
      <4>1. occupied = Cardinality(DOMAIN mapping) /\ occupied \in Nat
        BY <2>0, SizeFacts DEF CountInv, CountersAreRight
      <4>2. before' = before
        BY <2>0 DEF History
      <4> QED BY <2>0, <3>1, <3>5, <4>1, <4>2 DEF CountInv, CountersAreRight
    <3>7. ChoiceIsFree' /\ CapacityFailureIsReal'
      BY <3>1 DEF ChoiceIsFree, CapacityFailureIsReal
    <3> QED BY <3>3, <3>4, <3>6, <3>7 DEF CountInv
  <2> QED BY <2>1, <2>2
<1>2. CASE Drop
  <2>1. /\ UNCHANGED <<mapping, History>> /\ run = "drop" /\ run' = "next"
        /\ occupied' = occupied + 1 /\ remaining' = remaining - 1
    BY <1>2 DEF Drop, Vault
  <2>2. Originals' = Originals /\ before' = before
    BY <2>1 DEF Originals, History
  <2>3. /\ occupied \in Nat /\ occupied + 1 = Cardinality(DOMAIN mapping)
        /\ remaining \in Int /\ occupied + remaining = Cardinality(before) + Cardinality(Originals)
    BY <2>1 DEF CountInv, CountersAreRight
  <2>4. remaining' \in Int /\ occupied' + remaining' = occupied + remaining
    BY <2>1, <2>3
  <2>5. CountersAreRight' /\ ChoiceIsFree'
    BY <2>1, <2>2, <2>3, <2>4 DEF CountersAreRight, ChoiceIsFree
  <2> QED BY <2>1, <2>5, GoesOn DEF History
<1> QED BY <1>1, <1>2

LEMMA CountStep == Inv /\ CountInv /\ [Next]_vars => CountInv'
<1> SUFFICES ASSUME Inv, CountInv, [Next]_vars PROVE CountInv'
  OBVIOUS
<1>1. CASE Begin \/ RunStep
  BY <1>1, ScanCounts, StreamCounts, RowCounts DEF RunStep
<1>2. CASE ReadFails \/ TxnFails \/ Cancel \/ Crash
  BY <1>2, EndCounts DEF ReadFails, TxnFails, Cancel, Crash, Vault, Ended, Failures, CapacityFailures
<1>3. CASE UNCHANGED vars
  <2>1. Originals' = Originals /\ Occupied' = Occupied /\ SpareNeeded' = SpareNeeded
    BY <1>3 DEF vars, Originals, Occupied, SpareNeeded
  <2> QED
    BY <1>3, <2>1 DEF vars, CountInv, TokensAreWritable, RowsAreAPrefix, CountersAreRight, ChoiceIsFree,
         CapacityFailureIsReal, Free
<1> QED
  BY <1>1, <1>2, <1>3 DEF Next

\* The counters of _finalize_numeric are right and every pseudonym is a free,
\* writable token when it is chosen.
THEOREM CountSafety == Spec => [](Inv /\ CountInv)
<1>1. Init => Inv /\ CountInv
  BY InvInit, CountInit
<1>2. Inv /\ CountInv /\ [Next]_vars => (Inv /\ CountInv)'
  BY InvStep, CountStep
<1> QED BY <1>1, <1>2, PTL DEF Spec

\* The gap walk enumerates the free tokens, plan_numeric_bijection decides
\* whether an assignment exists, the standalone service can always go on, and
\* the pseudonyms are writable, for every domain and source.
THEOREM KernelTheorem == Spec => []KernelIsExact
<1>1. Inv /\ CountInv => KernelIsExact
  <2> SUFFICES ASSUME Inv, CountInv PROVE KernelIsExact
    OBVIOUS
  <2>1. TokensAreWritable
    BY DEF CountInv
  <2>2. ASSUME NEW taken \in SUBSET Tokens, NEW left \in SUBSET Originals
        PROVE  /\ PlanNumericBijection(left, taken) <=> Completions(left, taken) # {}
               /\ PlanNumericBijection(left, taken) =>
                    \A v \in left : CompletionWalk(left, v, taken) # {}
    <3>1. IsFiniteSet(left)
      BY SizeFacts, FS_Subset
    <3> QED BY <3>1, CompletionNeedsHall, HallIsEnough, WalkCompletes
  <2>3. \A taken \in SUBSET Tokens : GapWalkIsExact(taken)
    BY GapWalkExact
  <2> QED BY <2>1, <2>2, <2>3 DEF KernelIsExact
<1> QED BY <1>1, CountSafety, PTL

\* DOMAIN_EXHAUSTED and NO_COMPLETION of _finalize_numeric happen only when the
\* tokens to spare are too few, whatever rows the earlier runs have left.
THEOREM CapacityTheorem == Spec => []CapacityFailureIsReal
<1>1. CountInv => CapacityFailureIsReal
  BY DEF CountInv
<1> QED BY <1>1, CountSafety, PTL
=============================================================================
