------------------------ MODULE TextAllocationProofs ------------------------
(***************************************************************************)
(* Proofs about the text part of pass 1, for every source, every alphabet, *)
(* every order of the texts and any number of interrupted runs over one    *)
(* vault: the rows are usable, the augmenting search is exact, and a retry *)
(* never makes a solved problem infeasible.                                *)
(*                                                                         *)
(* The inductive invariant has one part per stage.  ScanInv and RowsInv    *)
(* relate source, spool and vault; GraphInv says what the residual graph   *)
(* holds; MatchInv that its first nodes are matched and that the slots of  *)
(* every length class add up; PathInv that the stack is an alternating     *)
(* path; ExploreInv that whatever is visited and no longer on the stack    *)
(* leads only to visited nodes; WriteInv that each class still has a token *)
(* for every holder without a row.                                         *)
(*                                                                         *)
(* From these the two verdicts follow by counting.  Exhausted: an          *)
(* assignment would inject the visited nodes into the visited nodes that   *)
(* hold something, which are one fewer.  Solved: the nodes left inject     *)
(* class by class into the free tokens, after every committed row.         *)
(***************************************************************************)
EXTENDS TextAllocation, FiniteSetTheorems, FunctionTheorems, SequenceTheorems, TLAPS

\* A non-empty set of naturals has a least element, and Min takes it.
LEMMA MinIsLeast ==
  ASSUME NEW S \in SUBSET Nat, S # {}
  PROVE  Min(S) \in S /\ \A y \in S : Min(S) <= y
<1> DEFINE R == OpToRel(<, Nat)
<1>1. IsWellFoundedOn(R, Nat)
  BY NatLessThanWellFounded
<1>2. \A i, j \in Nat : j < i => <<j, i>> \in R
  BY DEF OpToRel
<1> HIDE DEF R
<1>3. PICK i \in S : \A j \in S : ~(<<j, i>> \in R)
  BY <1>1, WFMin
<1>4. ASSUME NEW j \in S PROVE i <= j
  <2>1. i \in Nat /\ j \in Nat
    OBVIOUS
  <2>2. ~(j < i)
    BY <1>2, <1>3, <2>1, Zenon
  <2> QED
    BY <2>1, <2>2
<1> QED
  BY <1>4 DEF Min

\* below[v] is what comes before v in a strict order of all of S.
Orders(S, below) ==
  /\ below \in [S -> SUBSET S]
  /\ \A v \in S : v \notin below[v]
  /\ \A v, w \in S : v # w => v \in below[w] \/ w \in below[v]
  /\ \A v, w \in S : v \in below[w] => below[v] \subseteq below[w]

\* Every number up to the size of S is the rank of exactly one element.
Numbers(S, below) ==
  /\ \A v \in S : Cardinality(below[v]) \in 0..(Cardinality(S) - 1)
  /\ \A v, w \in S : Cardinality(below[v]) = Cardinality(below[w]) => v = w
  /\ \A i \in 1..Cardinality(S) : \E v \in S : Cardinality(below[v]) = i - 1

\* The elements of a finite, totally ordered set are numbered by their ranks.
LEMMA RankIsABijection ==
  ASSUME NEW S, IsFiniteSet(S), NEW below, Orders(S, below)
  PROVE  Numbers(S, below)
<1> USE DEF Orders
<1> DEFINE n == Cardinality(S)
           rank == [v \in S |-> Cardinality(below[v])]
<1>1. n \in Nat
  BY FS_CardinalityType
<1>2. ASSUME NEW v \in S, NEW T \in SUBSET S, v \in T, NEW U \in SUBSET T, v \notin U
      PROVE  Cardinality(U) \in Nat /\ Cardinality(U) < Cardinality(T)
  <2>1. IsFiniteSet(T)
    BY FS_Subset
  <2>2. IsFiniteSet(U) /\ Cardinality(U) <= Cardinality(T) /\ (Cardinality(T) = Cardinality(U) => T = U)
    BY <2>1, FS_Subset
  <2>3. Cardinality(U) \in Nat /\ Cardinality(T) \in Nat
    BY <2>1, <2>2, FS_CardinalityType
  <2> QED BY <1>2, <2>2, <2>3
<1>3. ASSUME NEW v \in S PROVE Cardinality(below[v]) \in 0..(n - 1)
  <2>1. Cardinality(below[v]) \in Nat /\ Cardinality(below[v]) < n
    BY <1>2
  <2> QED BY <2>1, <1>1
<1>4. ASSUME NEW v \in S, NEW w \in S, v \in below[w] PROVE Cardinality(below[v]) < Cardinality(below[w])
  BY <1>2, <1>4
<1>5. ASSUME NEW v \in S, NEW w \in S, Cardinality(below[v]) = Cardinality(below[w]) PROVE v = w
  BY <1>3, <1>4, <1>5
<1>6. ASSUME NEW i \in 1..n PROVE \E v \in S : Cardinality(below[v]) = i - 1
  <2>1. rank \in Injection(S, 0..(n - 1))
    BY <1>3, <1>5 DEF Injection, IsInjective
  <2>2. IsFiniteSet(0..(n - 1)) /\ Cardinality(0..(n - 1)) = n
    <3>1. 0 \in Int /\ n - 1 \in Int /\ (0 > n - 1 <=> n = 0)
      BY <1>1
    <3>2. /\ IsFiniteSet(0..(n - 1))
          /\ Cardinality(0..(n - 1)) = IF 0 > n - 1 THEN 0 ELSE (n - 1) - 0 + 1
      BY <3>1, FS_Interval
    <3> QED BY <1>1, <3>1, <3>2
  <2> HIDE DEF rank
  <2>3. rank \in Surjection(S, 0..(n - 1))
    BY <2>1, <2>2, FS_Injection
  <2>4. i - 1 \in 0..(n - 1)
    BY <1>1
  <2>5. PICK v \in S : rank[v] = i - 1
    BY <2>3, <2>4 DEF Surjection
  <2> QED BY <2>5 DEF rank
<1> QED BY <1>3, <1>5, <1>6 DEF Numbers

\* Ascending lists the naturals of a finite set.
LEMMA AscendingLists ==
  ASSUME NEW S \in SUBSET Nat, IsFiniteSet(S)
  PROVE  /\ Ascending(S) \in Seq(S)
         /\ \A x \in S : \E t \in DOMAIN Ascending(S) : Ascending(S)[t] = x
         /\ \A t, u \in DOMAIN Ascending(S) : Ascending(S)[t] = Ascending(S)[u] => t = u
<1> DEFINE Below(x) == {y \in S : y < x}
           below == [x \in S |-> Below(x)]
           n == Cardinality(S)
<1>1. /\ n \in Nat
      /\ \A x \in S : Cardinality(Below(x)) \in 0..(n - 1)
      /\ \A x, y \in S : Cardinality(Below(x)) = Cardinality(Below(y)) => x = y
      /\ \A i \in 1..n : \E x \in S : Cardinality(Below(x)) = i - 1
  <2>0. below \in [S -> SUBSET S]
    OBVIOUS
  <2>1. \A x \in S : below[x] = Below(x)
    OBVIOUS
  <2>2. /\ \A v \in S : v \notin Below(v)
        /\ \A v, w \in S : v # w => v \in Below(w) \/ w \in Below(v)
        /\ \A v, w \in S : v \in Below(w) => \A u \in Below(v) : u \in Below(w)
    OBVIOUS
  <2> HIDE DEF below, Below
  <2>3. Orders(S, below)
    BY <2>0, <2>1, <2>2 DEF Orders
  <2>4. Numbers(S, below) /\ n \in Nat
    BY <2>3, RankIsABijection, FS_CardinalityType
  <2> QED BY <2>1, <2>4 DEF Numbers
<1>2. Ascending(S) = [i \in 1..n |-> CHOOSE x \in S : Cardinality(Below(x)) = i - 1]
  BY DEF Ascending
<1> HIDE DEF Below, n
<1>3. \A i \in 1..n : Ascending(S)[i] \in S /\ Cardinality(Below(Ascending(S)[i])) = i - 1
  BY <1>1, <1>2
<1>4. Ascending(S) \in [1..n -> S]
  BY <1>2, <1>3
<1>5. Ascending(S) \in Seq(S)
  BY <1>1, <1>4, SeqDef
<1>6. ASSUME NEW x \in S PROVE \E t \in DOMAIN Ascending(S) : Ascending(S)[t] = x
  <2> DEFINE t == Cardinality(Below(x)) + 1
  <2>1. t \in 1..n /\ t - 1 = Cardinality(Below(x))
    BY <1>1
  <2> HIDE DEF t
  <2>2. Cardinality(Below(Ascending(S)[t])) = Cardinality(Below(x)) /\ Ascending(S)[t] \in S
    BY <1>3, <2>1
  <2>3. Ascending(S)[t] = x
    BY <1>1, <2>2
  <2> QED BY <1>4, <2>1, <2>3
<1>7. ASSUME NEW i \in DOMAIN Ascending(S), NEW j \in DOMAIN Ascending(S),
             Ascending(S)[i] = Ascending(S)[j]
      PROVE  i = j
  <2>1. i \in 1..n /\ j \in 1..n
    BY <1>4
  <2>2. /\ Cardinality(Below(Ascending(S)[i])) = i - 1
        /\ Cardinality(Below(Ascending(S)[j])) = j - 1
    BY <1>3, <2>1
  <2> QED BY <1>7, <2>1, <2>2
<1> QED BY <1>5, <1>6, <1>7

\* Sorted lists the observed texts, each once, in the order of the spool.
LEMMA SortedLists ==
  ASSUME DOMAIN spool \subseteq Values, IsFiniteSet(DOMAIN spool),
         \A v \in DOMAIN spool : spool[v] \in Nat
  PROVE  /\ Sorted(DOMAIN spool) \in Seq(DOMAIN spool)
         /\ \A v \in DOMAIN spool : \E i \in DOMAIN Sorted(DOMAIN spool) : Sorted(DOMAIN spool)[i] = v
         /\ \A i, j \in DOMAIN Sorted(DOMAIN spool) :
               Sorted(DOMAIN spool)[i] = Sorted(DOMAIN spool)[j] => i = j
<1> DEFINE S == DOMAIN spool
           Below(v) == {w \in S : Before(w, v)}
           below == [v \in S |-> Below(v)]
           n == Cardinality(S)
           rows == Sorted(S)
<1>1. /\ n \in Nat
      /\ \A x \in S : Cardinality(Below(x)) \in 0..(n - 1)
      /\ \A x, y \in S : Cardinality(Below(x)) = Cardinality(Below(y)) => x = y
      /\ \A i \in 1..n : \E x \in S : Cardinality(Below(x)) = i - 1
  <2>0. below \in [S -> SUBSET S]
    OBVIOUS
  <2>1. \A x \in S : below[x] = Below(x)
    OBVIOUS
  <2>2. \A v \in S : TextRank[v] \in Nat
    BY TextAssumption
  <2>3. \A v, w \in S : TextRank[v] = TextRank[w] => v = w
    BY TextAssumption
  <2>4. /\ \A v \in S : v \notin Below(v)
        /\ \A v, w \in S : v # w => v \in Below(w) \/ w \in Below(v)
        /\ \A v, w \in S : v \in Below(w) => \A u \in Below(v) : u \in Below(w)
    BY <2>2, <2>3 DEF Before
  <2> HIDE DEF below, Below
  <2>5. Orders(S, below)
    BY <2>0, <2>1, <2>4 DEF Orders
  <2>6. Numbers(S, below) /\ n \in Nat
    BY <2>5, RankIsABijection, FS_CardinalityType
  <2> QED BY <2>1, <2>6 DEF Numbers
<1>2. rows = [i \in 1..n |-> CHOOSE x \in S : Cardinality(Below(x)) = i - 1]
  BY DEF Sorted
<1> HIDE DEF Below, n, rows
<1>3. \A i \in 1..n : rows[i] \in S /\ Cardinality(Below(rows[i])) = i - 1
  BY <1>1, <1>2
<1>4. rows \in [1..n -> S]
  BY <1>2, <1>3
<1>5. rows \in Seq(S)
  BY <1>1, <1>4, SeqDef
<1>6. ASSUME NEW x \in S PROVE \E t \in DOMAIN rows : rows[t] = x
  <2> DEFINE t == Cardinality(Below(x)) + 1
  <2>1. t \in 1..n /\ t - 1 = Cardinality(Below(x))
    BY <1>1
  <2> HIDE DEF t
  <2>2. Cardinality(Below(rows[t])) = Cardinality(Below(x)) /\ rows[t] \in S
    BY <1>3, <2>1
  <2>3. rows[t] = x
    BY <1>1, <2>2
  <2> QED BY <1>4, <2>1, <2>3
<1>7. ASSUME NEW i \in DOMAIN rows, NEW j \in DOMAIN rows, rows[i] = rows[j] PROVE i = j
  <2>1. i \in 1..n /\ j \in 1..n
    BY <1>4
  <2>2. Cardinality(Below(rows[i])) = i - 1 /\ Cardinality(Below(rows[j])) = j - 1
    BY <1>3, <2>1
  <2> QED BY <1>7, <2>1, <2>2
<1> QED BY <1>5, <1>6, <1>7 DEF rows

-----------------------------------------------------------------------------
(* Texts and tokens.                                                       *)

\* What the assumption says of one occurrence.
LEMMA ValueFacts ==
  ASSUME NEW o \in Occurrences
  PROVE  /\ o.value \in Values /\ o.value[1] \in Nat /\ o.width \in Nat
         /\ o.value[1] <= o.width
BY TextAssumption DEF Values

\* A token of a length is a safe text of that length ...
LEMMA TokensAreSafe ==
  ASSUME NEW n, NEW t \in TokensOf(n)
  PROVE  t[1] = n /\ IsSafeToken(t)
BY DEF TokensOf, IsSafeToken

\* ... and a safe text is a token of its length.
LEMMA SafeTextsAreTokens ==
  ASSUME NEW v \in Values, IsSafeToken(v)
  PROVE  v \in TokensOf(v[1])
<1>1. v \in (Nat \ {0}) \X (Nat \ {0})
  BY TextAssumption DEF Values
<1>2. v = <<v[1], v[2]>>
  BY <1>1
<1>3. v[2] \in 1..(Base ^ v[1])
  BY <1>1, TextAssumption DEF IsSafeToken
<1> QED BY <1>2, <1>3 DEF TokensOf

\* A length has Base ^ length tokens; counting those that are neither
\* occupied nor reserved.
TokenSets(occ, own) == (\A t \in occ \cup own : t \in TokensOf(t[1])) /\ occ \cap own = {}
FreeIn(occ, own, c) == (TokensOf(c) \ occ) \ own
CountIn(occ, own, c) ==
  Base ^ c - Cardinality({t \in occ : t[1] = c}) - Cardinality({t \in own : t[1] = c})

\* The count of _build_residual_graph is the number of free tokens.
LEMMA FreeCount ==
  ASSUME NEW occ, NEW own, NEW c \in Lengths, TokenSets(occ, own)
  PROVE  IsFiniteSet(FreeIn(occ, own, c)) /\ Cardinality(FreeIn(occ, own, c)) = CountIn(occ, own, c)
<1> USE DEF TokenSets
<1> DEFINE T == TokensOf(c)
           B == Base ^ c
           f == [k \in 1..B |-> <<c, k>>]
<1>1. B \in Nat
  <2>1. c \in Int /\ Base \in Int
    BY TextAssumption DEF Lengths
  <2>2. B \in Int
    BY <2>1, TextAssumption DEF Lengths
  <2>3. PICK t : t \in TokensOf(c)
    BY TextAssumption
  <2>4. PICK k \in 1..B : t = <<c, k>>
    BY <2>3 DEF TokensOf
  <2> HIDE DEF B
  <2> QED BY <2>2, <2>4
<1>2. IsFiniteSet(T) /\ Cardinality(T) = B
  <2>1. f \in [1..B -> T]
    BY DEF TokensOf
  <2>2. \A x, y \in 1..B : f[x] = f[y] => x = y
    OBVIOUS
  <2>3. \A t \in T : \E k \in 1..B : f[k] = t
    BY DEF TokensOf
  <2> HIDE DEF f, T, B
  <2>4. f \in Bijection(1..B, T)
    BY <2>1, <2>2, <2>3 DEF Bijection, Injection, Surjection, IsInjective
  <2>5. ExistsBijection(1..B, T)
    BY <2>4 DEF ExistsBijection
  <2>6. IsFiniteSet(1..B) /\ Cardinality(1..B) = B
    BY <1>1, FS_Interval
  <2> QED BY <2>5, <2>6, FS_Bijection
<1>3. T \cap occ = {t \in occ : t[1] = c}
  BY TokensAreSafe
<1>4. (T \ occ) \cap own = {t \in own : t[1] = c}
  BY TokensAreSafe
<1> HIDE DEF T, B
<1>5. IsFiniteSet(T \ occ) /\ Cardinality(T \ occ) = B - Cardinality(T \cap occ)
  BY <1>2, FS_Difference
<1>6. /\ IsFiniteSet((T \ occ) \ own)
      /\ Cardinality((T \ occ) \ own) = Cardinality(T \ occ) - Cardinality((T \ occ) \cap own)
  BY <1>5, FS_Difference
<1> QED BY <1>3, <1>4, <1>5, <1>6 DEF T, B, FreeIn, CountIn

\* A source holds finitely many texts.
LEMMA TextsAreFinite ==
  ASSUME source \subseteq Occurrences
  PROVE  IsFiniteSet(Texts)
<1> DEFINE f == [o \in source |-> o.value]
<1>1. f \in Surjection(source, Texts)
  BY DEF Surjection, Texts
<1>2. IsFiniteSet(source)
  BY TextAssumption, FS_Subset
<1> QED BY <1>1, <1>2, FS_Surjection

\* A non-empty finite set of naturals has a greatest element, and Max takes it.
LEMMA MaxIsGreatest ==
  ASSUME NEW S \in SUBSET Nat, IsFiniteSet(S), S # {}
  PROVE  Max(S) \in S /\ \A y \in S : y <= Max(S)
<1> DEFINE Below(x) == {y \in S : y < x}
           below == [x \in S |-> Below(x)]
           n == Cardinality(S)
<1>1. n \in Nat /\ n # 0
  BY FS_CardinalityType, FS_EmptySet
<1>2. \A x \in S : below[x] = Below(x)
  OBVIOUS
<1>3. /\ \A x \in S : Cardinality(Below(x)) \in 0..(n - 1)
      /\ \A i \in 1..n : \E x \in S : Cardinality(Below(x)) = i - 1
  <2>1. below \in [S -> SUBSET S]
    OBVIOUS
  <2>2. /\ \A v \in S : v \notin Below(v)
        /\ \A v, w \in S : v # w => v \in Below(w) \/ w \in Below(v)
        /\ \A v, w \in S : v \in Below(w) => \A u \in Below(v) : u \in Below(w)
    OBVIOUS
  <2> HIDE DEF below, Below
  <2>3. Orders(S, below)
    BY <1>2, <2>1, <2>2 DEF Orders
  <2>4. Numbers(S, below)
    BY <2>3, RankIsABijection
  <2> QED BY <1>2, <2>4 DEF Numbers
<1>4. PICK x \in S : Cardinality(Below(x)) = n - 1
  <2>1. n \in 1..n
    BY <1>1
  <2> HIDE DEF n, Below
  <2> QED BY <1>3, <2>1
<1>5. ASSUME NEW y \in S, x < y PROVE FALSE
  <2>1. x \in Nat /\ y \in Nat /\ \A z \in S : z \in Nat
    OBVIOUS
  <2>6. \A z \in Below(x) : z \in Below(y)
    BY <1>5, <2>1
  <2>7. x \in Below(y) /\ x \notin Below(x)
    BY <1>5, <2>1
  <2>8. Below(x) \subseteq Below(y)
    BY <2>6, Zenon
  <2>5. Below(x) \in SUBSET Below(y) /\ x \in Below(y) /\ x \notin Below(x)
    BY <2>7, <2>8, Zenon
  <2>2. IsFiniteSet(Below(y))
    BY FS_Subset
  <2> HIDE DEF Below, n
  <2>3. Cardinality(Below(x)) <= Cardinality(Below(y)) /\ Cardinality(Below(x)) # Cardinality(Below(y))
    BY <2>5, <2>2, FS_Subset
  <2>4. Cardinality(Below(y)) \in 0..(n - 1)
    BY <1>3
  <2> QED BY <1>1, <1>4, <2>3, <2>4
<1>6. \A y \in S : y <= x
  <2> SUFFICES ASSUME NEW y \in S PROVE y <= x
    OBVIOUS
  <2>1. x \in Nat /\ y \in Nat
    OBVIOUS
  <2>2. ~(x < y)
    BY <1>5
  <2> HIDE DEF Below, n
  <2> QED BY <2>1, <2>2
<1> HIDE DEF Below, n, below
<1> QED BY <1>6 DEF Max
-----------------------------------------------------------------------------
(* The inductive invariant.                                                *)

Solving == {"solve", "search"}
Writing == {"materialize", "commit", "drop"}
Resources == ({"class"} \X Nat) \cup ({"token"} \X Nat)
Rows == [value : Values, width : Nat, own : Values \cup {None}]
Frames == [orig : Nat, vacate : Resources \cup {None}, class : Nat \ {0}, token : Nat, from : Nat]

\* What the scan and the reuse have made of the source so far.
ScanInv ==
  /\ run \in Active =>
       \A o \in source \ toScan :
          /\ o.value \in DOMAIN spool \cup DOMAIN mapping
          /\ o.value \in DOMAIN spool => spool[o.value] <= o.width
  /\ run = "scan" => \A o \in source \ toScan : o.value \in DOMAIN spool
  /\ \A v \in DOMAIN spool : \E o \in source : o.value = v /\ spool[v] = o.width
  /\ run \in Active \ {"scan"} => toScan = {}
  /\ run \in {"reuse", "materialize", "commit"} \cup Solving =>
       (DOMAIN spool \ unchecked) \cap DOMAIN mapping = {}
  /\ run \in Solving \cup Writing => unchecked = {}

\* The rows of the vault.
RowsInv ==
  /\ \A v \in DOMAIN mapping :
       /\ mapping[v][1] \in Nat /\ mapping[v] # v
       /\ \A o \in source : o.value = v => mapping[v][1] <= o.width
  /\ \A v, w \in DOMAIN mapping : mapping[v] = mapping[w] => v = w

\* The nodes of the residual graph: one for every text left, with its width;
\* the free tokens among these texts are the reserved resources.
GraphInv ==
  run \in Solving \cup Writing =>
    /\ original \in Seq(Rows) /\ reserved \in Seq(Positions)
    /\ \A i, j \in Positions : original[i].value = original[j].value => i = j
    /\ \A i \in Positions :
         /\ \E o \in source : o.value = original[i].value /\ o.width = original[i].width
         /\ \A o \in source : o.value = original[i].value => original[i].width <= o.width
         /\ original[i].own # None =>
              /\ original[i].own = original[i].value /\ IsSafeToken(original[i].value)
              /\ \E t \in DOMAIN reserved : reserved[t] = i
         /\ original[i].own = None =>
              ~IsSafeToken(original[i].value) \/ original[i].value \in Occupied
    /\ \A t \in DOMAIN reserved : original[reserved[t]].own # None
    /\ \A t, u \in DOMAIN reserved : reserved[t] = reserved[u] => t = u

\* Which of the nodes have no row yet.
Pending == {i \in Positions : original[i].value \notin DOMAIN mapping}
SpoolInv ==
  /\ run \in Solving => DOMAIN spool = {original[i].value : i \in Positions}
  /\ run \in Writing =>
       DOMAIN spool = {original[i].value : i \in {j \in Positions : j >= next}}
  /\ run = "drop" => original[next].value \in DOMAIN mapping
  /\ run = "drop" => \A i \in Positions : i > next => original[i].value \notin DOMAIN mapping

\* Node i may have the resource r: it fits, and is not the text itself.
Edge(g, tokens, i, r) ==
  \/ \E c \in 1..g[i].width : r = <<"class", c>>
  \/ \E t \in DOMAIN tokens :
       r = <<"token", t>> /\ g[tokens[t]].own[1] <= g[i].width /\ tokens[t] # i
Fits(g, tokens, a) == \A i \in DOMAIN a : Edge(g, tokens, i, a[i])
Single(a) == \A i, j \in DOMAIN a : a[i] = a[j] /\ a[i][1] = "token" => i = j
Holders(a, c) == {i \in DOMAIN a : a[i] = <<"class", c>>}

\* A matching of the nodes before the next one.
MatchInv ==
  run \in Solving =>
    /\ next \in 1..(Len(original) + 1) /\ DOMAIN assign = 1..(next - 1)
    /\ Fits(original, reserved, assign) /\ Single(assign)
    /\ \A t \in DOMAIN reserved : TokenValue(t) \notin Occupied
    /\ DOMAIN cap \subseteq Lengths /\ \A i \in Positions : 1..original[i].width \subseteq DOMAIN cap
    /\ \A c \in DOMAIN cap :
         cap[c] \in Nat /\ cap[c] + Cardinality(Holders(assign, c)) = Cardinality(FungibleTokens(c))

\* An alternating path from the next node.
PathInv ==
  run = "search" =>
    /\ next \in Positions /\ visited \subseteq 1..next
    /\ stack \in Seq(Frames) /\ stack # <<>> /\ stack[1].orig = next
    /\ \A d \in DOMAIN stack : stack[d].orig \in visited
    /\ \A d, e \in DOMAIN stack : stack[d].orig = stack[e].orig => d = e
    /\ \A d \in DOMAIN stack : d > 1 =>
         /\ stack[d].orig \in DOMAIN assign /\ stack[d].vacate = assign[stack[d].orig]
         /\ Edge(original, reserved, stack[d - 1].orig, stack[d].vacate)

\* Nothing more can be reached through a full class, an occupied token.
ClassDone(a, counts, seen, c) == counts[c] = 0 /\ Holders(a, c) \subseteq seen
TokenDone(a, seen, t) ==
  (\E i \in DOMAIN a : a[i] = <<"token", t>>) /\ \A i \in DOMAIN a : a[i] = <<"token", t>> => i \in seen
Explored(i, class, token) ==
  /\ \A c \in 1..original[i].width : c < class => ClassDone(assign, cap, visited, c)
  /\ \A t \in DOMAIN reserved :
       t <= token /\ Edge(original, reserved, i, <<"token", t>>) => TokenDone(assign, visited, t)
ExploreInv ==
  run = "search" =>
    /\ \A i \in visited :
         \/ \E d \in DOMAIN stack : stack[d].orig = i
         \/ Explored(i, original[i].width + 1, Len(reserved))
    /\ \A d \in DOMAIN stack :
         /\ Explored(stack[d].orig, stack[d].class, stack[d].token)
         /\ \A i \in Holders(assign, stack[d].class) : i <= stack[d].from => i \in visited

\* The validated matching, while its nodes become rows.
WriteInv ==
  run \in Writing =>
    /\ next \in 1..(Len(original) + 1) /\ (run # "materialize" => next \in Positions)
    /\ DOMAIN assign = Positions /\ Fits(original, reserved, assign) /\ Single(assign)
    /\ \A i \in Pending, t \in DOMAIN reserved : assign[i] = <<"token", t>> => TokenValue(t) \notin Occupied
    /\ \A c \in Lengths :
         Cardinality(Holders(assign, c) \cap Pending) <= Cardinality(FungibleTokens(c))
    /\ run = "commit" => candidate \in TokenChoices(next)

VerdictInv ==
  /\ run = "RESIDUAL_INFEASIBLE" => Completions = {}
  /\ solved => Completions # {}

Inv ==
  /\ TypeOK /\ ScanInv /\ RowsInv /\ GraphInv /\ SpoolInv /\ MatchInv /\ PathInv /\ ExploreInv
  /\ WriteInv /\ VerdictInv /\ DoneIsComplete /\ NeverCorrupt

-----------------------------------------------------------------------------
(* The scan and the reuse keep the invariant.                              *)

\* What the verdicts are about: the source and the rows.
LEMMA SameProblem ==
  ASSUME UNCHANGED <<source, mapping>>
  PROVE  /\ Texts' = Texts /\ Occupied' = Occupied /\ Left' = Left
         /\ Completions' = Completions
<1>1. Texts' = Texts /\ Occupied' = Occupied
  BY DEF Texts, Occupied
<1>2. Left' = Left
  BY <1>1 DEF Left
<1>3. FreeTokens' = FreeTokens
  BY <1>1 DEF FreeTokens
<1>4. \A v : Strictest(v)' = Strictest(v)
  BY DEF Strictest
<1> QED BY <1>1, <1>2, <1>3, <1>4 DEF Completions

\* The invariant holds before the first run.
LEMMA InvInit == Init => Inv
<1> SUFFICES ASSUME Init PROVE Inv
  OBVIOUS
<1>1. DOMAIN mapping = {} /\ DOMAIN spool = {} /\ Len(original) = 0
  BY DEF Init
<1>2. TypeOK
  <2>1. runs \in 0..MaxRuns
    BY TextAssumption DEF Init
  <2> QED BY <1>1, <2>1 DEF Init, TypeOK, Ended
<1>3. ScanInv /\ RowsInv /\ DoneIsComplete /\ NeverCorrupt /\ VerdictInv
  BY <1>1 DEF Init, ScanInv, RowsInv, DoneIsComplete, NeverCorrupt, Corruptions, VerdictInv,
     Active, Solving, Writing
<1>4. GraphInv /\ SpoolInv /\ MatchInv /\ PathInv /\ ExploreInv /\ WriteInv
  BY DEF Init, GraphInv, SpoolInv, MatchInv, PathInv, ExploreInv, WriteInv, Solving, Writing
<1> QED BY <1>2, <1>3, <1>4 DEF Inv

\* A run that ends leaves the vault as it is and no spool.
LEMMA EndKeeps ==
  ASSUME Inv, NEW how \in Ended \ Corruptions, End(how), UNCHANGED <<mapping, source, solved, runs>>,
         hasDomain' \in BOOLEAN,
         how = "done" => Texts \subseteq DOMAIN mapping,
         how = "RESIDUAL_INFEASIBLE" => Completions = {}
  PROVE  Inv'
<1>1. DOMAIN spool' = {} /\ run' = how /\ visited' = {} /\ toScan' = {} /\ unchecked' = {}
  BY DEF End, NoGraph
<1>2. how \notin Active \cup Solving \cup Writing
  BY DEF Ended, Failures, Corruptions, Active, Solving, Writing
<1>3. /\ Texts' = Texts /\ Completions' = Completions
  BY SameProblem
<1>4. TypeOK'
  BY <1>1, <1>3 DEF Inv, TypeOK
<1>5. ScanInv'
  BY <1>1, <1>2 DEF ScanInv, Solving, Writing, Active
<1>6. RowsInv' /\ DoneIsComplete' /\ NeverCorrupt'
  BY <1>1, <1>3 DEF Inv, RowsInv, DoneIsComplete, NeverCorrupt, Corruptions
<1>7. VerdictInv'
  BY <1>1, <1>3 DEF Inv, VerdictInv
<1>8. GraphInv' /\ SpoolInv' /\ MatchInv' /\ PathInv' /\ ExploreInv' /\ WriteInv'
  BY <1>1, <1>2 DEF GraphInv, SpoolInv, MatchInv, PathInv, ExploreInv, WriteInv, Solving, Writing
<1> QED BY <1>4, <1>5, <1>6, <1>7, <1>8 DEF Inv

\* A step of the scan does not touch the rows, and there is no graph yet.
LEMMA ScanFrame ==
  ASSUME Inv, run' \in {"scan", "domain", "reuse"},
         UNCHANGED <<mapping, source, solved>>
  PROVE  /\ RowsInv' /\ DoneIsComplete' /\ NeverCorrupt' /\ VerdictInv'
         /\ GraphInv' /\ SpoolInv' /\ MatchInv' /\ PathInv' /\ ExploreInv' /\ WriteInv'
<1>1. RowsInv' /\ DoneIsComplete' /\ NeverCorrupt'
  BY DEF Inv, RowsInv, DoneIsComplete, NeverCorrupt, Corruptions
<1>2. VerdictInv'
  BY SameProblem DEF Inv, VerdictInv
<1>3. GraphInv' /\ SpoolInv' /\ MatchInv' /\ PathInv' /\ ExploreInv' /\ WriteInv'
  BY DEF GraphInv, SpoolInv, MatchInv, PathInv, ExploreInv, WriteInv, Solving, Writing
<1> QED BY <1>1, <1>2, <1>3

\* A run begins with the whole source to scan.
LEMMA BeginKeeps == ASSUME Inv, Begin PROVE Inv'
<1>1. run' = "scan" /\ UNCHANGED <<mapping, source, solved, spool, unchecked, original, visited, hasDomain>>
  BY DEF Begin, Vault, graph
<1>2. TypeOK'
  BY <1>1, TextAssumption DEF Inv, TypeOK, Begin, Active, Texts, Positions
<1>3. ScanInv'
  BY <1>1 DEF Inv, ScanInv, Begin, Solving, Writing, Active
<1> QED BY <1>1, <1>2, <1>3, ScanFrame DEF Inv

\* The spool keeps the least width of every text it has seen.
LEMMA ObserveKeeps == ASSUME Inv, NEW o \in toScan, Observe(o) PROVE Inv'
<1>1. /\ run = "scan" /\ run' = "scan" /\ toScan' = toScan \ {o}
      /\ UNCHANGED <<mapping, source, solved, unchecked, original, visited, hasDomain, runs>>
  BY DEF Observe, Vault, graph, History
<1> DEFINE w == IF o.value \in DOMAIN spool THEN Min({spool[o.value], o.width}) ELSE o.width
<1>2. spool' = [v \in DOMAIN spool \cup {o.value} |-> IF v # o.value THEN spool[v] ELSE w]
  BY DEF Observe
<1>3. o \in source /\ o \in Occurrences /\ o.value \in Texts /\ o.width \in Nat
  BY ValueFacts DEF Inv, TypeOK, Texts
<1>4. \A v \in DOMAIN spool : spool[v] \in Nat /\ \E p \in source : p.value = v /\ spool[v] = p.width
  BY ValueFacts DEF Inv, TypeOK, ScanInv
<1>5. /\ w \in Nat /\ w <= o.width
      /\ o.value \in DOMAIN spool => w <= spool[o.value]
      /\ \E p \in source : p.value = o.value /\ w = p.width
  <2>1. CASE o.value \notin DOMAIN spool
    BY <1>3, <2>1
  <2>2. CASE o.value \in DOMAIN spool
    <3> DEFINE S == {spool[o.value], o.width}
    <3>1. S \in SUBSET Nat /\ S # {}
      BY <1>3, <1>4, <2>2
    <3>2. Min(S) \in S /\ \A y \in S : Min(S) <= y
      BY <3>1, MinIsLeast
    <3> QED BY <1>3, <1>4, <2>2, <3>2
  <2> QED BY <2>1, <2>2
<1> HIDE DEF w
<1>6. Texts' = Texts
  BY <1>1, SameProblem
<1>7. TypeOK'
  BY <1>1, <1>2, <1>3, <1>6 DEF Inv, TypeOK, Positions
<1>8. ScanInv'
  <2>1. ASSUME NEW p \in source \ toScan'
        PROVE  p.value \in DOMAIN spool' /\ spool'[p.value] <= p.width
    <3>1. p.width \in Nat
      BY <1>1, ValueFacts DEF Inv, TypeOK
    <3>2. CASE p = o
      BY <1>2, <1>5, <3>2
    <3>3. CASE p # o
      <4>1. p.value \in DOMAIN spool /\ spool[p.value] <= p.width
        BY <1>1, <3>3 DEF Inv, ScanInv, Active
      <4>2. CASE p.value = o.value
        <5>1. spool[p.value] \in Nat /\ w <= spool[p.value]
          BY <1>4, <1>5, <4>1, <4>2
        <5>2. w <= p.width
          BY <1>5, <3>1, <4>1, <5>1
        <5> QED BY <1>2, <4>1, <4>2, <5>2
      <4>3. CASE p.value # o.value
        BY <1>2, <4>1, <4>3
      <4> QED BY <4>2, <4>3
    <3> QED BY <3>2, <3>3
  <2>2. \A v \in DOMAIN spool' : \E p \in source : p.value = v /\ spool'[v] = p.width
    BY <1>2, <1>4, <1>5
  <2> QED BY <1>1, <2>1, <2>2 DEF ScanInv, Solving, Writing, Active
<1> QED BY <1>1, <1>7, <1>8, ScanFrame DEF Inv

\* The scan has read everything.
LEMMA EndScanKeeps == ASSUME Inv, EndScan PROVE Inv'
<1>1. /\ run = "scan" /\ run' = "domain" /\ toScan = {}
      /\ UNCHANGED <<mapping, source, solved, toScan, spool, unchecked, original, visited, hasDomain, runs>>
  BY DEF EndScan, Vault, graph, History
<1>2. TypeOK'
  BY <1>1 DEF Inv, TypeOK, Active, Texts, Positions
<1>3. ScanInv'
  BY <1>1 DEF Inv, ScanInv, Solving, Writing, Active
<1> QED BY <1>1, <1>2, <1>3, ScanFrame DEF Inv

\* Without a text there is nothing left to do.
LEMMA EnsureDomainKeeps == ASSUME Inv, EnsureDomain PROVE Inv'
<1>1. run = "domain" /\ UNCHANGED <<mapping, source, solved, runs>>
  BY DEF EnsureDomain, History
<1>2. CASE spool = <<>>
  <2>1. DOMAIN spool = {}
    BY <1>2
  <2>2. Texts \subseteq DOMAIN mapping
    BY <1>1, <2>1 DEF Inv, ScanInv, Texts, Active
  <2>3. End("done") /\ hasDomain' \in BOOLEAN
    BY <1>2 DEF EnsureDomain, Inv, TypeOK
  <2> QED BY <1>1, <2>2, <2>3, EndKeeps DEF Ended, Corruptions
<1>3. CASE spool # <<>>
  <2>1. /\ hasDomain' = TRUE /\ run' = "reuse" /\ unchecked' = DOMAIN spool
        /\ UNCHANGED <<toScan, spool, original, visited>>
    BY <1>3 DEF EnsureDomain, graph
  <2>2. TypeOK'
    BY <1>1, <2>1 DEF Inv, TypeOK, Active, Texts, Positions
  <2>3. ScanInv'
    BY <1>1, <2>1 DEF Inv, ScanInv, Solving, Writing, Active
  <2> QED BY <1>1, <2>1, <2>2, <2>3, ScanFrame DEF Inv
<1> QED BY <1>2, <1>3

\* A text that has a row leaves the spool; the others wait for the solver.
LEMMA ReuseKeeps == ASSUME Inv, Reuse PROVE Inv'
<1> DEFINE v == FirstOf(unchecked)
<1>1. run = "reuse" /\ UNCHANGED <<mapping, source, solved, runs, hasDomain>>
  BY DEF Reuse, History, Vault
<1>2. CASE End("PERSISTED_INCOMPATIBLE")
  BY <1>1, <1>2, EndKeeps DEF Ended, Failures, Corruptions, Inv, TypeOK
<1>3. CASE /\ unchecked' = unchecked \ {v}
           /\ spool' = IF v \in DOMAIN mapping THEN Without(spool, v) ELSE spool
           /\ UNCHANGED <<run, toScan, graph, next, candidate>>
  <2> HIDE DEF v
  <2>1. UNCHANGED <<original, visited, run, toScan>>
    BY <1>3 DEF graph
  <2>2. /\ DOMAIN spool' = IF v \in DOMAIN mapping THEN DOMAIN spool \ {v} ELSE DOMAIN spool
        /\ \A w \in DOMAIN spool' : spool'[w] = spool[w]
    BY <1>3 DEF Without
  <2>3. TypeOK'
    BY <1>1, <1>3, <2>1, <2>2 DEF Inv, TypeOK, Texts, Positions
  <2>4. ScanInv'
    BY <1>1, <1>3, <2>1, <2>2 DEF Inv, ScanInv, Solving, Writing, Active
  <2> QED BY <1>1, <2>1, <2>3, <2>4, ScanFrame DEF Inv
<1> QED BY <1>2, <1>3 DEF Reuse

-----------------------------------------------------------------------------
(* The residual graph.                                                     *)

\* Between the reuse and the end of the materialization the rows only grow,
\* by texts of the graph.
LEMMA SpoolIsFinite ==
  ASSUME Inv
  PROVE  /\ DOMAIN spool \subseteq Values /\ IsFiniteSet(DOMAIN spool)
         /\ \A v \in DOMAIN spool :
              /\ spool[v] \in Nat /\ v[1] \in Nat /\ v[1] <= spool[v]
              /\ 1..spool[v] \subseteq Lengths
<1>1. DOMAIN spool \subseteq Texts /\ source \subseteq Occurrences
  BY DEF Inv, TypeOK
<1>2. IsFiniteSet(DOMAIN spool)
  BY <1>1, TextsAreFinite, FS_Subset
<1>3. ASSUME NEW v \in DOMAIN spool
      PROVE  /\ v \in Values /\ spool[v] \in Nat /\ v[1] \in Nat /\ v[1] <= spool[v]
             /\ 1..spool[v] \subseteq Lengths
  <2>1. PICK o \in source : o.value = v /\ spool[v] = o.width
    BY DEF Inv, ScanInv
  <2> QED BY <1>1, <2>1, ValueFacts DEF Lengths
<1> QED BY <1>2, <1>3

\* The widest observed field.
LEMMA WidestIsReached ==
  ASSUME Inv
  PROVE  LET widest == Max({0} \cup {spool[v] : v \in DOMAIN spool})
         IN  /\ widest \in Nat /\ 1..widest \subseteq Lengths
             /\ \A v \in DOMAIN spool : spool[v] <= widest
<1> DEFINE S == {spool[v] : v \in DOMAIN spool}
           f == [v \in DOMAIN spool |-> spool[v]]
<1>1. f \in Surjection(DOMAIN spool, S)
  BY DEF Surjection
<1>2. IsFiniteSet(S)
  BY <1>1, SpoolIsFinite, FS_Surjection
<1>3. IsFiniteSet({0} \cup S)
  BY <1>2, FS_Union, FS_Singleton
<1>4. {0} \cup S \in SUBSET Nat /\ {0} \cup S # {}
  BY SpoolIsFinite
<1>5. Max({0} \cup S) \in {0} \cup S /\ \A y \in {0} \cup S : y <= Max({0} \cup S)
  BY <1>3, <1>4, MaxIsGreatest
<1> DEFINE m == Max({0} \cup S)
<1>6. m \in Nat /\ \A v \in DOMAIN spool : spool[v] <= m
  BY <1>4, <1>5
<1>7. m = 0 \/ \E v \in DOMAIN spool : m = spool[v]
  BY <1>5
<1> HIDE DEF m
<1>8. 1..m \subseteq Lengths
  <2>1. CASE m = 0
    BY <2>1
  <2>2. CASE \E v \in DOMAIN spool : m = spool[v]
    BY <2>2, SpoolIsFinite
  <2> QED BY <1>7, <2>1, <2>2
<1> QED BY <1>6, <1>8 DEF m

\* The graph holds every text that is left, and counts every token once.
LEMMA BuildGraphKeeps == ASSUME Inv, BuildGraph PROVE Inv'
<1>1. run = "reuse" /\ unchecked = {} /\ UNCHANGED <<mapping, source, solved, runs, hasDomain>>
  BY DEF BuildGraph, History, Vault
<1>2. CASE End("WIDTH_INFEASIBLE")
  BY <1>1, <1>2, EndKeeps DEF Ended, Failures, Corruptions, Inv, TypeOK
<1> DEFINE S == DOMAIN spool
           rows == Sorted(S)
           owned == {v \in S : OwnToken(v) # None}
           widest == Max({0} \cup {spool[v] : v \in S})
           here == {i \in DOMAIN rows : rows[i] \in owned}
<1>3. CASE /\ original' = [i \in DOMAIN rows |->
                [value |-> rows[i], width |-> spool[rows[i]], own |-> OwnToken(rows[i])]]
           /\ reserved' = Ascending(here)
           /\ cap' = [length \in 1..widest |-> Fungible(length, owned)]
           /\ assign' = <<>> /\ visited' = {} /\ stack' = <<>>
           /\ run' = "solve" /\ next' = 1
           /\ UNCHANGED <<toScan, spool, unchecked, candidate>>
  <2>1. /\ rows \in Seq(S)
        /\ \A v \in S : \E i \in DOMAIN rows : rows[i] = v
        /\ \A i, j \in DOMAIN rows : rows[i] = rows[j] => i = j
    BY SpoolIsFinite, SortedLists
  <2>2. /\ \A v \in S : v \in Values /\ v # None /\ spool[v] \in Nat /\ v[1] <= spool[v]
    BY SpoolIsFinite, TextAssumption
  <2>3. /\ owned \subseteq S
        /\ \A v \in owned : OwnToken(v) = v /\ IsSafeToken(v) /\ v \notin Occupied
        /\ \A v \in S \ owned : OwnToken(v) = None /\ (~IsSafeToken(v) \/ v \in Occupied)
    BY <2>2 DEF OwnToken
  <2>4. widest \in Nat /\ 1..widest \subseteq Lengths /\ \A v \in S : spool[v] <= widest
    BY WidestIsReached
  <2> HIDE DEF rows, owned, widest
  <2>5. DOMAIN rows = 1..Len(rows) /\ Len(rows) \in Nat /\ \A i \in DOMAIN rows : rows[i] \in S
    BY <2>1
  <2>6. IsFiniteSet(here) /\ here \in SUBSET Nat
    <3>1. IsFiniteSet(1..Len(rows))
      BY <2>5, FS_Interval
    <3> QED BY <2>5, <3>1, FS_Subset
  <2>7. /\ reserved' \in Seq(here)
        /\ \A x \in here : \E t \in DOMAIN reserved' : reserved'[t] = x
        /\ \A t, u \in DOMAIN reserved' : reserved'[t] = reserved'[u] => t = u
    BY <1>3, <2>6, AscendingLists
  <2>8. \A i \in DOMAIN rows : /\ original'[i].value = rows[i] /\ original'[i].width = spool[rows[i]]
                               /\ original'[i].own = OwnToken(rows[i])
                               /\ original'[i] \in Rows
    BY <1>3, <2>2, <2>3, <2>5 DEF Rows
  <2>9. original' \in Seq(Rows) /\ DOMAIN original' = DOMAIN rows
    BY <1>3, <2>5, <2>8, SeqDef
  <2>10. Positions' = DOMAIN rows /\ DOMAIN original' = Positions'
    BY <2>9 DEF Positions
  <2>11. reserved' \in Seq(Positions') /\ \A t \in DOMAIN reserved' : reserved'[t] \in here
    <3>1. \A t \in DOMAIN reserved' : reserved'[t] \in here
      BY <2>7
    <3>2. here \subseteq DOMAIN rows
      OBVIOUS
    <3> QED BY <2>7, <2>10, <3>1, <3>2, SeqDef
  <2>12. Texts' = Texts /\ Occupied' = Occupied /\ Completions' = Completions
    BY <1>1, SameProblem
  <2>13. {original'[reserved'[t]].own : t \in DOMAIN reserved'} = owned
    <3>1. ASSUME NEW t \in DOMAIN reserved' PROVE original'[reserved'[t]].own \in owned
      BY <2>3, <2>8, <2>11
    <3>2. ASSUME NEW v \in owned PROVE \E t \in DOMAIN reserved' : original'[reserved'[t]].own = v
      <4>1. PICK i \in DOMAIN rows : rows[i] = v
        BY <2>1, <2>3
      <4>2. i \in here
        BY <4>1
      <4>3. PICK t \in DOMAIN reserved' : reserved'[t] = i
        BY <2>7, <4>2
      <4> QED BY <2>3, <2>8, <4>1, <4>3
    <3> QED BY <3>1, <3>2
  <2>14. ASSUME NEW c \in 1..widest
         PROVE  cap'[c] \in Nat /\ cap'[c] = Cardinality(FungibleTokens(c)')
    <3>1. \A t \in Occupied \cup owned : t \in TokensOf(t[1])
      BY <2>2, <2>3, SafeTextsAreTokens DEF Inv, TypeOK, Occupied
    <3>2. Occupied \cap owned = {}
      BY <2>3
    <3>3. c \in Lengths
      BY <2>4
    <3>4. TokenSets(Occupied, owned)
      BY <3>1, <3>2 DEF TokenSets
    <3>5. /\ IsFiniteSet(FreeIn(Occupied, owned, c))
          /\ Cardinality(FreeIn(Occupied, owned, c)) = CountIn(Occupied, owned, c)
      BY <3>3, <3>4, FreeCount
    <3>6. FungibleTokens(c)' = FreeIn(Occupied, owned, c)
      BY <2>12, <2>13 DEF FungibleTokens, TokenValue, FreeIn
    <3>7. cap'[c] = CountIn(Occupied, owned, c)
      BY <1>3 DEF Fungible, CountIn
    <3> QED BY <3>5, <3>6, <3>7, FS_CardinalityType
  <2>15. TypeOK'
    BY <1>1, <1>3, <2>12 DEF Inv, TypeOK, Active
  <2>16. ScanInv'
    BY <1>1, <1>3 DEF Inv, ScanInv, Solving, Writing, Active
  <2>17. RowsInv' /\ DoneIsComplete' /\ NeverCorrupt'
    BY <1>1, <1>3, <2>12 DEF Inv, RowsInv, DoneIsComplete, NeverCorrupt, Corruptions
  <2>18. VerdictInv'
    BY <1>1, <1>3, <2>12 DEF Inv, VerdictInv
  <2>19. GraphInv'
    <3>1. \A i, j \in Positions' : original'[i].value = original'[j].value => i = j
      BY <2>1, <2>8, <2>10
    <3>2. ASSUME NEW i \in Positions'
          PROVE  /\ \E o \in source : o.value = original'[i].value /\ o.width = original'[i].width
                 /\ \A o \in source : o.value = original'[i].value => original'[i].width <= o.width
      BY <1>1, <2>5, <2>8, <2>10 DEF Inv, ScanInv, Active
    <3>3. ASSUME NEW i \in Positions', original'[i].own # None
          PROVE  /\ original'[i].own = original'[i].value /\ IsSafeToken(original'[i].value)
                 /\ \E t \in DOMAIN reserved' : reserved'[t] = i
      <4>1. rows[i] \in owned
        BY <2>3, <2>5, <2>8, <2>10, <3>3
      <4>2. i \in here
        BY <2>10, <4>1
      <4> QED BY <2>3, <2>7, <2>8, <2>10, <4>1, <4>2
    <3>4. ASSUME NEW i \in Positions', original'[i].own = None
          PROVE  ~IsSafeToken(original'[i].value) \/ original'[i].value \in Occupied
      <4>1. rows[i] \in S \ owned
        BY <2>2, <2>3, <2>5, <2>8, <2>10, <3>4
      <4> QED BY <2>3, <2>8, <2>10, <4>1
    <3>5. \A t \in DOMAIN reserved' : original'[reserved'[t]].own # None
      BY <2>2, <2>3, <2>8, <2>11
    <3> QED BY <1>1, <2>7, <2>9, <2>11, <2>12, <3>1, <3>2, <3>3, <3>4, <3>5 DEF GraphInv
  <2>20. SpoolInv'
    <3>1. DOMAIN spool = {original'[i].value : i \in Positions'}
      <4>1. ASSUME NEW i \in Positions' PROVE original'[i].value \in S
        BY <2>5, <2>8, <2>10
      <4>2. ASSUME NEW v \in S PROVE \E i \in Positions' : original'[i].value = v
        BY <2>1, <2>8, <2>10
      <4> QED BY <4>1, <4>2
    <3> QED BY <1>3, <3>1 DEF SpoolInv, Solving, Writing
  <2>21. MatchInv'
    <3>1. next' \in 1..(Len(original') + 1) /\ DOMAIN assign' = 1..(next' - 1)
      BY <1>3, <2>9
    <3>2. Fits(original', reserved', assign') /\ Single(assign') /\ \A c : Holders(assign', c) = {}
      BY <1>3 DEF Fits, Single, Holders
    <3>3. \A t \in DOMAIN reserved' : original'[reserved'[t]].own \notin Occupied
      BY <2>3, <2>8, <2>11
    <3>4. DOMAIN cap' = 1..widest
      BY <1>3
    <3>5. \A i \in Positions' : 1..original'[i].width \subseteq 1..widest
      BY <2>2, <2>4, <2>5, <2>8, <2>10
    <3>6. \A c \in DOMAIN cap' :
             cap'[c] \in Nat /\ cap'[c] + Cardinality(Holders(assign', c)) = Cardinality(FungibleTokens(c)')
      <4> SUFFICES ASSUME NEW c \in DOMAIN cap'
                   PROVE  /\ cap'[c] \in Nat
                          /\ cap'[c] + Cardinality(Holders(assign', c)) = Cardinality(FungibleTokens(c)')
        OBVIOUS
      <4>1. Cardinality(Holders(assign', c)) = 0
        BY <3>2, FS_EmptySet
      <4>2. cap'[c] \in Nat /\ cap'[c] = Cardinality(FungibleTokens(c)')
        BY <2>14, <3>4
      <4> QED BY <4>1, <4>2
    <3> QED BY <2>4, <2>12, <3>1, <3>2, <3>3, <3>4, <3>5, <3>6 DEF MatchInv, TokenValue
  <2>22. PathInv' /\ ExploreInv' /\ WriteInv'
    BY <1>3 DEF PathInv, ExploreInv, WriteInv, Writing
  <2> QED BY <2>15, <2>16, <2>17, <2>18, <2>19, <2>20, <2>21, <2>22 DEF Inv
<1> QED BY <1>2, <1>3 DEF BuildGraph

-----------------------------------------------------------------------------
(* The search.                                                             *)

SameGraph == UNCHANGED <<Vault, History, toScan, spool, unchecked, original, reserved>>

\* A step of the search changes the matching and the path, nothing else.
LEMMA SearchFrame ==
  ASSUME Inv, run \in Solving, run' \in Solving, SameGraph, visited' \subseteq Positions
  PROVE  /\ TypeOK' /\ ScanInv' /\ RowsInv' /\ GraphInv' /\ SpoolInv' /\ WriteInv' /\ VerdictInv'
         /\ DoneIsComplete' /\ NeverCorrupt'
         /\ Positions' = Positions /\ Occupied' = Occupied
         /\ \A t : TokenValue(t)' = TokenValue(t)
         /\ \A c : FungibleTokens(c)' = FungibleTokens(c)
<1>1. UNCHANGED <<mapping, source, hasDomain, solved, runs, toScan, spool, unchecked, original, reserved>>
  BY DEF SameGraph, Vault, History
<1>2. /\ Texts' = Texts /\ Occupied' = Occupied /\ Completions' = Completions
  BY <1>1, SameProblem
<1>3. Positions' = Positions /\ \A t : TokenValue(t)' = TokenValue(t)
  BY <1>1 DEF Positions, TokenValue
<1>4. \A c : FungibleTokens(c)' = FungibleTokens(c)
  BY <1>1, <1>2 DEF FungibleTokens, TokenValue
<1>5. TypeOK'
  BY <1>1, <1>2, <1>3 DEF Inv, TypeOK, Solving, Active
<1>6. ScanInv' /\ RowsInv' /\ DoneIsComplete' /\ NeverCorrupt'
  BY <1>1 DEF Inv, ScanInv, RowsInv, DoneIsComplete, NeverCorrupt, Corruptions, Solving, Writing, Active
<1>7. GraphInv'
  BY <1>1, <1>2, <1>3 DEF Inv, GraphInv
<1>8. SpoolInv' /\ WriteInv'
  BY <1>1, <1>3 DEF Inv, SpoolInv, WriteInv, Solving, Writing
<1>9. VerdictInv'
  BY <1>1, <1>2 DEF Inv, VerdictInv, Solving
<1> QED BY <1>2, <1>3, <1>4, <1>5, <1>6, <1>7, <1>8, <1>9

\* A step that keeps the matching keeps what is known of it.
LEMMA MatchFrame ==
  ASSUME Inv, run \in Solving, run' \in Solving, SameGraph, visited' \subseteq Positions,
         UNCHANGED <<cap, assign, next>>
  PROVE  MatchInv'
<1>1. /\ Positions' = Positions /\ Occupied' = Occupied
      /\ \A t : TokenValue(t)' = TokenValue(t)
      /\ \A c : FungibleTokens(c)' = FungibleTokens(c)
  BY SearchFrame
<1>2. UNCHANGED <<original, reserved>>
  BY DEF SameGraph
<1> QED BY <1>1, <1>2 DEF Inv, MatchInv

\* A search begins with a path of one node.
LEMMA StartAugmentKeeps == ASSUME Inv, StartAugment PROVE Inv'
<1>1. /\ run = "solve" /\ run' = "search" /\ next \in Positions /\ visited' = {next}
      /\ stack' = <<Frame(next, None)>> /\ UNCHANGED <<cap, assign, next>>
      /\ run \in Solving /\ run' \in Solving /\ visited' \subseteq Positions
  BY DEF StartAugment, Solving
<1>2. SameGraph
  BY DEF StartAugment, SameGraph
<1>3. Positions' = Positions
  BY <1>1, <1>2, SearchFrame
<1>4. DOMAIN stack' = {1} /\ stack'[1] = Frame(next, None) /\ Len(stack') = 1
  BY <1>1
<1>5. DOMAIN assign = 1..(next - 1) /\ next \in Nat
  BY <1>1 DEF Inv, MatchInv, Solving, Positions
<1>6. PathInv'
  <2>1. Frame(next, None) \in Frames
    BY <1>5 DEF Frame, Frames
  <2>2. stack' \in Seq(Frames) /\ stack' # <<>>
    BY <1>1, <2>1
  <2>3. stack'[1].orig = next
    BY <1>4 DEF Frame
  <2>4. visited' \subseteq 1..next' /\ next' \in Positions'
    BY <1>1, <1>3 DEF Positions
  <2>5. \A d \in DOMAIN stack' : d = 1 /\ ~(d > 1) /\ stack'[d].orig \in visited'
    BY <1>1, <1>4, <2>3
  <2> QED BY <1>1, <2>2, <2>3, <2>4, <2>5 DEF PathInv
<1>7. ExploreInv'
  <2>1. stack'[1].orig = next /\ stack'[1].class = 1 /\ stack'[1].token = 0 /\ stack'[1].from = 0
    BY <1>4 DEF Frame
  <2>2. Explored(next, 1, 0)'
    <3>1. \A c \in 1..original'[next'].width : ~(c < 1)
      OBVIOUS
    <3>2. reserved' \in Seq(Positions)
      BY <1>1, <1>2 DEF SameGraph, Inv, GraphInv
    <3>3. \A t \in DOMAIN reserved' : ~(t <= 0)
      BY <3>2
    <3> QED BY <1>1, <3>1, <3>3 DEF Explored
  <2>3. \A i \in Holders(assign', 1) : ~(i <= 0)
    BY <1>1, <1>5 DEF Holders
  <2>4. Explored(stack[1].orig, stack[1].class, stack[1].token)'
    BY <1>1, <2>1, <2>2 DEF Explored
  <2> QED BY <1>1, <1>4, <2>1, <2>3, <2>4 DEF ExploreInv
<1> QED BY <1>1, <1>2, <1>6, <1>7, SearchFrame, MatchFrame DEF Inv

\* The more is visited, the more is explored.
LEMMA ExploredGrows ==
  ASSUME UNCHANGED <<cap, assign, original, reserved>>, visited \subseteq visited',
         NEW i, NEW class, NEW token, Explored(i, class, token)
  PROVE  /\ \A c \in 1..original'[i].width : c < class => ClassDone(assign', cap', visited', c)
         /\ \A t \in DOMAIN reserved' :
              t <= token /\ Edge(original', reserved', i, <<"token", t>>) => TokenDone(assign', visited', t)
BY DEF Explored, ClassDone, TokenDone

\* What the top of the stack is.
LEMMA TopFacts ==
  ASSUME Inv, run = "search"
  PROVE  /\ next \in Positions /\ next \in Nat /\ DOMAIN assign = 1..(next - 1)
         /\ stack \in Seq(Frames) /\ Len(stack) \in Nat \ {0} /\ DOMAIN stack = 1..Len(stack)
         /\ Len(stack) \in DOMAIN stack /\ Top \in Frames
         /\ \A d \in DOMAIN stack : stack[d] \in Frames
         /\ Top.orig \in visited /\ visited \subseteq 1..next /\ visited \subseteq Positions
         /\ Width \in Nat /\ 1..Width \subseteq DOMAIN cap
         /\ Explored(Top.orig, Top.class, Top.token)
         /\ \A i \in Holders(assign, Top.class) : i <= Top.from => i \in visited
         /\ reserved \in Seq(Positions) /\ \A i \in 1..next : i \in Positions
         /\ \A i \in Positions : original[i] \in Rows
<1>1. /\ next \in Positions /\ DOMAIN assign = 1..(next - 1) /\ Positions \subseteq Nat
      /\ stack \in Seq(Frames) /\ stack # <<>> /\ visited \subseteq 1..next
      /\ original \in Seq(Rows) /\ reserved \in Seq(Positions)
  BY DEF Inv, MatchInv, PathInv, GraphInv, Solving, Positions
<1>2. Len(stack) \in Nat \ {0} /\ DOMAIN stack = 1..Len(stack) /\ Len(stack) \in DOMAIN stack
  BY <1>1
<1>3. Top \in Frames /\ \A d \in DOMAIN stack : stack[d] \in Frames
  BY <1>1, <1>2 DEF Top
<1>4. Top.orig \in visited /\ visited \subseteq Positions
  BY <1>2 DEF Inv, PathInv, TypeOK, Top
<1>5. \A i \in Positions : original[i] \in Rows
  BY <1>1 DEF Positions
<1>6. Width \in Nat
  BY <1>4, <1>5 DEF Width, Rows
<1>7. 1..Width \subseteq DOMAIN cap
  BY <1>4 DEF Inv, MatchInv, Solving, Width
<1>9. \A i \in 1..next : i \in Positions
  <2>1. Len(original) \in Nat /\ next \in 1..Len(original)
    BY <1>1 DEF Positions
  <2> QED BY <2>1 DEF Positions
<1>8. /\ Explored(Top.orig, Top.class, Top.token)
      /\ \A i \in Holders(assign, Top.class) : i <= Top.from => i \in visited
  BY <1>2 DEF Inv, ExploreInv, Top
<1> QED BY <1>1, <1>2, <1>3, <1>4, <1>5, <1>6, <1>7, <1>8, <1>9

\* The path grows by the original that holds a resource the top could have.
LEMMA DisplaceKeeps ==
  ASSUME Inv, run = "search", SameGraph, NEW i \in DOMAIN assign \ visited, NEW r, r = assign[i],
         Edge(original, reserved, Top.orig, r),
         NEW head \in Frames, head.orig = Top.orig, head.vacate = Top.vacate,
         Displace(i, r, head),
         \A c \in 1..Width : c < head.class => ClassDone(assign, cap, visited', c),
         \A t \in DOMAIN reserved :
            t <= head.token /\ Edge(original, reserved, Top.orig, <<"token", t>>) => TokenDone(assign, visited', t),
         \A j \in Holders(assign, head.class) : j <= head.from => j \in visited'
  PROVE  Inv'
<1> DEFINE n == Len(stack)
<1>1. /\ run' = "search" /\ visited' = visited \cup {i} /\ UNCHANGED <<run, cap, assign, next, original, reserved>>
      /\ stack' = Append([stack EXCEPT ![n] = head], Frame(i, r))
  BY DEF Displace, SameGraph
<1>2. /\ next \in Positions /\ next \in Nat /\ DOMAIN assign = 1..(next - 1)
      /\ stack \in Seq(Frames) /\ n \in Nat \ {0} /\ DOMAIN stack = 1..n /\ n \in DOMAIN stack
      /\ visited \subseteq 1..next /\ visited \subseteq Positions
      /\ \A d \in DOMAIN stack : stack[d] \in Frames
      /\ reserved \in Seq(Positions) /\ \A j \in 1..next : j \in Positions
      /\ \A j \in Positions : original[j] \in Rows
  BY TopFacts
<1>3. i \in Positions /\ visited' \subseteq Positions /\ visited' \subseteq 1..next /\ i \in Nat
  <2>1. i \in 1..next
    BY <1>2
  <2> QED BY <1>1, <1>2, <2>1
<1>4. Frame(i, r) \in Frames /\ r \in Resources
  <2>1. r \in Resources
    <3>1. Fits(original, reserved, assign)
      BY DEF Inv, MatchInv, Solving
    <3>2. Edge(original, reserved, i, r)
      BY <3>1 DEF Fits
    <3>3. original[i].width \in Nat
      BY <1>2, <1>3 DEF Rows
    <3>4. CASE \E c \in 1..original[i].width : r = <<"class", c>>
      BY <3>3, <3>4 DEF Resources
    <3>5. CASE \E t \in DOMAIN reserved : r = <<"token", t>>
      BY <1>2, <3>5 DEF Resources
    <3> QED BY <3>2, <3>4, <3>5 DEF Edge
  <2> QED BY <1>3, <2>1 DEF Frame, Frames
<1>5. /\ stack' \in Seq(Frames) /\ Len(stack') = n + 1 /\ DOMAIN stack' = 1..(n + 1)
      /\ stack'[n + 1] = Frame(i, r) /\ stack'[n] = head
      /\ \A d \in 1..n : d # n => stack'[d] = stack[d]
  <2> DEFINE S == [stack EXCEPT ![n] = head]
  <2> HIDE DEF n
  <2>3. stack \in [1..n -> Frames] /\ n \in Nat /\ n \in 1..n
    BY <1>2
  <2>4. S \in [1..n -> Frames] /\ S[n] = head /\ \A d \in 1..n : d # n => S[d] = stack[d]
    BY <2>3
  <2> HIDE DEF S
  <2>1. S \in Seq(Frames) /\ Len(S) = n /\ S[n] = head /\ \A d \in 1..n : d # n => S[d] = stack[d]
    BY <2>3, <2>4, SeqDef
  <2>2. stack' = Append(S, Frame(i, r))
    BY <1>1 DEF S
  <2> QED BY <1>2, <1>4, <2>1, <2>2
<1> HIDE DEF n
<1>6. /\ \A d \in 1..n : stack'[d].orig = stack[d].orig /\ stack'[d].vacate = stack[d].vacate
      /\ stack'[n + 1].orig = i /\ stack'[n + 1].vacate = r
  <2>1. stack[n] = Top
    BY DEF Top, n
  <2>2. stack'[n].orig = stack[n].orig /\ stack'[n].vacate = stack[n].vacate
    BY <1>5, <2>1
  <2>3. \A d \in 1..n : d # n => stack'[d].orig = stack[d].orig /\ stack'[d].vacate = stack[d].vacate
    BY <1>5
  <2>4. stack'[n + 1].orig = i /\ stack'[n + 1].vacate = r
    BY <1>5 DEF Frame
  <2> QED BY <2>2, <2>3, <2>4
<1>7. PathInv'
  <2>1. next' \in Positions' /\ visited' \subseteq 1..next' /\ stack' # <<>> /\ stack'[1].orig = next'
    <3>1. stack[1].orig = next /\ 1 \in 1..n
      BY <1>2 DEF Inv, PathInv
    <3>2. Positions' = Positions
      BY <1>1 DEF Positions
    <3> QED BY <1>1, <1>2, <1>3, <1>5, <1>6, <3>1, <3>2
  <2>2. \A d \in DOMAIN stack' : stack'[d].orig \in visited'
    BY <1>1, <1>2, <1>5, <1>6 DEF Inv, PathInv
  <2>3. ASSUME NEW d \in DOMAIN stack', NEW e \in DOMAIN stack', stack'[d].orig = stack'[e].orig PROVE d = e
    <3>1. (d \in 1..n \/ d = n + 1) /\ (e \in 1..n \/ e = n + 1)
      BY <1>2, <1>5
    <3>2. \A x \in 1..n : stack'[x].orig \in visited /\ stack'[x].orig # i
      BY <1>2, <1>6 DEF Inv, PathInv
    <3>3. CASE d \in 1..n /\ e \in 1..n
      BY <1>2, <1>6, <2>3, <3>3 DEF Inv, PathInv
    <3> QED BY <1>6, <2>3, <3>1, <3>2, <3>3
  <2>4. ASSUME NEW d \in DOMAIN stack', d > 1
        PROVE  /\ stack'[d].orig \in DOMAIN assign /\ stack'[d].vacate = assign[stack'[d].orig]
               /\ Edge(original, reserved, stack'[d - 1].orig, stack'[d].vacate)
    <3>1. CASE d = n + 1
      <4>1. d - 1 = n /\ n \in 1..n
        BY <1>2, <3>1
      <4> QED BY <1>6, <3>1, <4>1 DEF Top, n
    <3>2. CASE d \in 1..n
      <4>1. d - 1 \in 1..n
        BY <1>2, <2>4, <3>2
      <4>2. /\ stack[d].orig \in DOMAIN assign /\ stack[d].vacate = assign[stack[d].orig]
            /\ Edge(original, reserved, stack[d - 1].orig, stack[d].vacate)
        BY <1>2, <2>4, <3>2 DEF Inv, PathInv
      <4> QED BY <1>6, <3>2, <4>1, <4>2
    <3> QED BY <1>2, <1>5, <3>1, <3>2
  <2> QED BY <1>1, <1>5, <2>1, <2>2, <2>3, <2>4 DEF PathInv
<1>8. ExploreInv'
  <2>1. \A j, c, t : Explored(j, c, t) => Explored(j, c, t)'
    BY <1>1, ExploredGrows DEF Explored
  <2>2. ASSUME NEW j \in visited'
        PROVE  \/ \E d \in DOMAIN stack' : stack'[d].orig = j
               \/ Explored(j, original[j].width + 1, Len(reserved))'
    <3>1. CASE j = i
      BY <1>2, <1>5, <1>6, <3>1
    <3>2. CASE j \in visited
      <4>1. \/ \E d \in DOMAIN stack : stack[d].orig = j
            \/ Explored(j, original[j].width + 1, Len(reserved))
        BY <3>2 DEF Inv, ExploreInv
      <4>2. CASE \E d \in DOMAIN stack : stack[d].orig = j
        BY <1>2, <1>5, <1>6, <4>2
      <4>3. CASE Explored(j, original[j].width + 1, Len(reserved))
        BY <1>1, <4>3, ExploredGrows DEF Explored
      <4> QED BY <4>1, <4>2, <4>3
    <3> QED BY <1>1, <3>1, <3>2
  <2>3. ASSUME NEW d \in DOMAIN stack'
        PROVE  /\ Explored(stack[d].orig, stack[d].class, stack[d].token)'
               /\ \A j \in Holders(assign', stack'[d].class) : j <= stack'[d].from => j \in visited'
    <3>1. CASE d \in 1..n /\ d # n
      <4>1. stack'[d] = stack[d] /\ d \in DOMAIN stack
        BY <1>2, <1>5, <3>1
      <4>2. /\ Explored(stack[d].orig, stack[d].class, stack[d].token)
            /\ \A j \in Holders(assign, stack[d].class) : j <= stack[d].from => j \in visited
        BY <4>1 DEF Inv, ExploreInv
      <4> QED BY <1>1, <4>1, <4>2, ExploredGrows DEF Explored
    <3>2. CASE d = n
      <4>1. stack'[d] = head
        BY <1>5, <3>2
      <4> QED BY <1>1, <4>1 DEF Explored, Width
    <3>3. CASE d = n + 1
      <4>1. stack'[d].orig = i /\ stack'[d].class = 1 /\ stack'[d].token = 0 /\ stack'[d].from = 0
        BY <1>5, <3>3 DEF Frame
      <4>2. \A t \in DOMAIN reserved' : ~(t <= 0)
        BY <1>1, <1>2
      <4>3. \A j \in Holders(assign', 1) : ~(j <= 0)
        BY <1>1, <1>2 DEF Holders
      <4> QED BY <4>1, <4>2, <4>3 DEF Explored
    <3> QED BY <1>2, <1>5, <3>1, <3>2, <3>3
  <2> QED BY <2>2, <2>3 DEF ExploreInv
<1>9. run \in Solving /\ run' \in Solving
  BY <1>1 DEF Solving
<1> QED BY <1>1, <1>3, <1>7, <1>8, <1>9, SearchFrame, MatchFrame DEF Inv

\* The first unseen holder of a full class joins the path.
LEMMA ClassDisplaceKeeps == ASSUME Inv, run = "search", SameGraph, ClassDisplace PROVE Inv'
<1> DEFINE i == Min(ClassOccupants)
           r == <<"class", Top.class>>
           head == [Top EXCEPT !.from = i]
<1>1. /\ Top.class <= Width /\ ClassOccupants # {}
      /\ Displace(i, r, head)
  BY DEF ClassDisplace, InClass
<1>2. /\ DOMAIN assign = 1..(next - 1) /\ next \in Nat /\ Top \in Frames /\ Width \in Nat
      /\ Explored(Top.orig, Top.class, Top.token)
      /\ \A j \in Holders(assign, Top.class) : j <= Top.from => j \in visited
  BY TopFacts
<1>3. ClassOccupants \in SUBSET Nat
  BY <1>2 DEF ClassOccupants
<1>4. i \in ClassOccupants /\ \A j \in ClassOccupants : i <= j
  BY <1>1, <1>3, MinIsLeast
<1> HIDE DEF i
<1>5. i \in DOMAIN assign \ visited /\ r = assign[i] /\ i \in Nat
  BY <1>3, <1>4 DEF ClassOccupants
<1>6. Top.class \in 1..Width
  BY <1>1, <1>2 DEF Frames
<1>7. Edge(original, reserved, Top.orig, r)
  BY <1>6 DEF Edge, Width
<1>8. /\ head \in Frames /\ head.orig = Top.orig /\ head.vacate = Top.vacate
      /\ head.class = Top.class /\ head.token = Top.token /\ head.from = i
  BY <1>2, <1>5 DEF Frames
<1>9. visited' = visited \cup {i} /\ visited \subseteq visited'
  BY <1>1 DEF Displace
<1>10. ASSUME NEW j \in Holders(assign, head.class), j <= head.from PROVE j \in visited'
  <2>1. j \in DOMAIN assign /\ assign[j] = r /\ j \in Nat
    BY <1>2, <1>8 DEF Holders
  <2>2. Top.from \in Nat
    BY <1>2 DEF Frames
  <2>3. CASE j <= Top.from
    BY <1>2, <1>8, <1>9, <1>10, <2>3
  <2>4. CASE j > Top.from /\ j \notin visited
    <3>1. j \in ClassOccupants
      BY <2>1, <2>4 DEF ClassOccupants
    <3>2. i <= j /\ j <= i
      BY <1>4, <1>8, <1>10, <3>1
    <3> QED BY <1>5, <1>9, <2>1, <3>2
  <2> QED BY <1>9, <2>1, <2>2, <2>3, <2>4
<1>11. UNCHANGED <<cap, assign, original, reserved>>
  BY <1>1 DEF Displace, SameGraph
<1>12. /\ \A c \in 1..Width : c < head.class => ClassDone(assign, cap, visited', c)
       /\ \A t \in DOMAIN reserved :
            t <= head.token /\ Edge(original, reserved, Top.orig, <<"token", t>>) => TokenDone(assign, visited', t)
  BY <1>2, <1>8, <1>9, <1>11, ExploredGrows DEF Width
<1> HIDE DEF head, r
<1> QED BY <1>1, <1>5, <1>7, <1>8, <1>10, <1>12, DisplaceKeeps

\* The edges of the top to the reserved tokens.
LEMMA TokenEdgeFacts ==
  ASSUME Inv, run = "search"
  PROVE  /\ \A t \in DOMAIN reserved : Edge(original, reserved, Top.orig, <<"token", t>>) =>
              t <= Top.token \/ t \in TokenEdges
         /\ \A t \in TokenEdges : t \in DOMAIN reserved /\ t \in Nat /\ Edge(original, reserved, Top.orig, <<"token", t>>)
         /\ \A t, i, j : i \in Occupants(t) /\ j \in Occupants(t) => i = j
         /\ \A t, i : i \in Occupants(t) <=> i \in DOMAIN assign /\ assign[i] = <<"token", t>>
         /\ Top.token \in Nat
<1>1. Top \in Frames /\ reserved \in Seq(Positions) /\ Top.token \in Nat
  BY TopFacts DEF Frames
<1>2. \A t \in DOMAIN reserved : t \in Nat
  BY <1>1
<1>3. \A t \in DOMAIN reserved : Edge(original, reserved, Top.orig, <<"token", t>>) =>
              t <= Top.token \/ t \in TokenEdges
  BY <1>1, <1>2 DEF Edge, TokenEdges, TokenValue, Width
<1>4. \A t \in TokenEdges : t \in DOMAIN reserved /\ t \in Nat /\ Edge(original, reserved, Top.orig, <<"token", t>>)
  BY <1>2 DEF Edge, TokenEdges, TokenValue, Width
<1>5. \A t, i, j : i \in Occupants(t) /\ j \in Occupants(t) => i = j
  <2>1. Single(assign)
    BY DEF Inv, MatchInv, Solving
  <2> QED BY <2>1 DEF Single, Occupants
<1>6. \A t, i : i \in Occupants(t) <=> i \in DOMAIN assign /\ assign[i] = <<"token", t>>
  BY DEF Occupants
<1> QED BY <1>1, <1>3, <1>4, <1>5, <1>6

\* The holder of a reserved token joins the path.
LEMMA TokenDisplaceKeeps == ASSUME Inv, run = "search", SameGraph, TokenDisplace PROVE Inv'
<1> DEFINE t == Min(DisplaceableEdges)
<1>1. PICK i \in Occupants(t) : Displace(i, <<"token", t>>, [Top EXCEPT !.token = t])
  BY DEF TokenDisplace
<1>2. ~InClass /\ FreeEdges = {} /\ DisplaceableEdges # {}
  BY DEF TokenDisplace
<1>3. DisplaceableEdges \in SUBSET Nat
  BY TokenEdgeFacts DEF DisplaceableEdges
<1>4. t \in DisplaceableEdges /\ \A u \in DisplaceableEdges : t <= u
  BY <1>2, <1>3, MinIsLeast
<1> HIDE DEF t
<1>5. t \in TokenEdges /\ Occupants(t) \ visited # {} /\ t \in Nat
  BY <1>3, <1>4 DEF DisplaceableEdges
<1> DEFINE r == <<"token", t>>
           head == [Top EXCEPT !.token = t]
<1>6. i \in DOMAIN assign \ visited /\ r = assign[i]
  BY <1>5, TokenEdgeFacts
<1>7. Edge(original, reserved, Top.orig, r)
  BY <1>5, TokenEdgeFacts
<1>8. Top \in Frames /\ Width \in Nat
  BY TopFacts
<1>9. /\ head \in Frames /\ head.orig = Top.orig /\ head.vacate = Top.vacate
      /\ head.class = Top.class /\ head.token = t /\ head.from = Top.from
  BY <1>5, <1>8 DEF Frames
<1>10. visited' = visited \cup {i} /\ visited \subseteq visited' /\ UNCHANGED <<cap, assign, original, reserved>>
  BY <1>1 DEF Displace, SameGraph
<1>11. \A j \in Holders(assign, head.class) : j <= head.from => j \in visited'
  BY <1>9, <1>10, TopFacts
<1>12. Explored(Top.orig, Top.class, Top.token)
  BY TopFacts
<1>13. \A c \in 1..Width : c < head.class => ClassDone(assign, cap, visited', c)
  BY <1>9, <1>10, <1>12, ExploredGrows DEF Width
<1>14. ASSUME NEW u \in DOMAIN reserved, u <= head.token, Edge(original, reserved, Top.orig, <<"token", u>>)
       PROVE  TokenDone(assign, visited', u)
  <2>1. CASE u <= Top.token
    BY <1>10, <1>12, <1>14, <2>1, ExploredGrows
  <2>2. CASE u \in TokenEdges
    <3>1. PICK k : k \in Occupants(u)
      BY <1>2, <2>2 DEF FreeEdges
    <3>2. ASSUME NEW j \in Occupants(u) PROVE j \in visited'
      <4>1. CASE u = t
        BY <1>10, <4>1, TokenEdgeFacts
      <4>2. CASE u # t
        <5>1. u \in Nat /\ ~(t <= u)
          BY <1>5, <1>9, <1>14, <2>2, <4>2, TokenEdgeFacts
        <5>2. u \notin DisplaceableEdges
          BY <1>4, <5>1
        <5> QED BY <1>10, <2>2, <5>2 DEF DisplaceableEdges
      <4> QED BY <4>1, <4>2
    <3> QED BY <3>1, <3>2, TokenEdgeFacts DEF TokenDone
  <2> QED BY <1>14, <2>1, <2>2, TokenEdgeFacts
<1>15. Displace(i, r, head)
  BY <1>1
<1> HIDE DEF head, r
<1> QED BY <1>6, <1>7, <1>9, <1>11, <1>13, <1>14, <1>15, DisplaceKeeps

\* A full class whose holders were all seen is left behind.
LEMMA ClassSkipKeeps == ASSUME Inv, run = "search", SameGraph, ClassSkip PROVE Inv'
<1> DEFINE n == Len(stack)
           head == [[Top EXCEPT !.class = Top.class + 1] EXCEPT !.from = 0]
<1>1. /\ run' = "search" /\ UNCHANGED <<run, cap, assign, visited, next, original, reserved>>
      /\ Top.class <= Width /\ cap[Top.class] <= 0 /\ ClassOccupants = {}
      /\ stack' = [stack EXCEPT ![n] = head]
  BY DEF ClassSkip, InClass, SameGraph
<1>2. /\ next \in Positions /\ next \in Nat /\ DOMAIN assign = 1..(next - 1)
      /\ stack \in Seq(Frames) /\ n \in Nat \ {0} /\ DOMAIN stack = 1..n /\ n \in DOMAIN stack
      /\ visited \subseteq Positions /\ Top \in Frames /\ Width \in Nat /\ 1..Width \subseteq DOMAIN cap
      /\ Explored(Top.orig, Top.class, Top.token)
      /\ \A i \in Holders(assign, Top.class) : i <= Top.from => i \in visited
  BY TopFacts
<1>3. /\ head \in Frames /\ head.orig = Top.orig /\ head.vacate = Top.vacate
      /\ head.class = Top.class + 1 /\ head.token = Top.token /\ head.from = 0
  <2> DEFINE h == [Top EXCEPT !.class = Top.class + 1]
  <2>1. Top.class + 1 \in Nat \ {0}
    BY SMTT(40), <1>2 DEF Frames
  <2>2. /\ h \in Frames /\ h.orig = Top.orig /\ h.vacate = Top.vacate
        /\ h.class = Top.class + 1 /\ h.token = Top.token
    BY <1>2, <2>1 DEF Frames
  <2>3. head = [h EXCEPT !.from = 0]
    OBVIOUS
  <2> HIDE DEF h, head
  <2> QED BY <2>2, <2>3 DEF Frames
<1> HIDE DEF n, head
<1>4. stack \in [1..n -> Frames] /\ n \in 1..n /\ stack[n] = Top
  BY <1>2 DEF n, Top
<1>5. /\ stack' \in [1..n -> Frames] /\ stack'[n] = head
      /\ \A d \in 1..n : d # n => stack'[d] = stack[d]
  BY <1>1, <1>3, <1>4
<1>6. stack' \in Seq(Frames) /\ DOMAIN stack' = 1..n /\ stack' # <<>>
  BY <1>2, <1>5, SeqDef
<1>7. \A d \in 1..n : stack'[d].orig = stack[d].orig /\ stack'[d].vacate = stack[d].vacate
  BY <1>3, <1>4, <1>5
<1>8. PathInv'
  <2>1. Positions' = Positions
    BY <1>1 DEF Positions
  <2>2. /\ visited \subseteq 1..next /\ stack[1].orig = next
        /\ \A d \in 1..n : stack[d].orig \in visited
        /\ \A d, e \in 1..n : stack[d].orig = stack[e].orig => d = e
        /\ \A d \in 1..n : d > 1 =>
             /\ stack[d].orig \in DOMAIN assign /\ stack[d].vacate = assign[stack[d].orig]
             /\ Edge(original, reserved, stack[d - 1].orig, stack[d].vacate)
    BY <1>2 DEF Inv, PathInv
  <2>3. \A d \in 1..n : d > 1 => d - 1 \in 1..n
    BY <1>2
  <2>4. 1 \in 1..n
    BY <1>2
  <2> QED BY <1>1, <1>2, <1>6, <1>7, <2>1, <2>2, <2>3, <2>4 DEF PathInv
<1>9. ClassDone(assign, cap, visited, Top.class)
  <2>1. Top.class \in 1..Width
    BY <1>1, <1>2 DEF Frames
  <2>2. cap[Top.class] = 0
    <3>1. cap[Top.class] \in Nat
      BY <1>2, <2>1 DEF Inv, MatchInv, Solving
    <3> QED BY <1>1, <3>1
  <2>3. ASSUME NEW i \in Holders(assign, Top.class) PROVE i \in visited
    <3>1. i \in DOMAIN assign /\ assign[i] = <<"class", Top.class>> /\ i \in Nat /\ Top.from \in Nat
      BY SMTT(40), <1>2 DEF Holders, Frames
    <3>2. CASE i <= Top.from
      BY <1>2, <3>2
    <3>3. CASE i > Top.from
      BY <1>1, <3>1, <3>3 DEF ClassOccupants
    <3> QED BY <3>1, <3>2, <3>3
  <2> QED BY <2>2, <2>3 DEF ClassDone
<1>10. ExploreInv'
  <2>1. ASSUME NEW j \in visited'
        PROVE  \/ \E d \in DOMAIN stack' : stack'[d].orig = j
               \/ Explored(j, original[j].width + 1, Len(reserved))'
    <3>1. \/ \E d \in DOMAIN stack : stack[d].orig = j
          \/ Explored(j, original[j].width + 1, Len(reserved))
      BY <1>1 DEF Inv, ExploreInv
    <3>2. CASE \E d \in DOMAIN stack : stack[d].orig = j
      BY <1>2, <1>6, <1>7, <3>2
    <3>3. CASE Explored(j, original[j].width + 1, Len(reserved))
      BY <1>1, <3>3 DEF Explored
    <3> QED BY <3>1, <3>2, <3>3
  <2>2. ASSUME NEW d \in DOMAIN stack'
        PROVE  /\ Explored(stack[d].orig, stack[d].class, stack[d].token)'
               /\ \A j \in Holders(assign', stack'[d].class) : j <= stack'[d].from => j \in visited'
    <3>1. CASE d # n
      <4>1. stack'[d] = stack[d] /\ d \in DOMAIN stack
        BY <1>2, <1>5, <1>6, <3>1
      <4>2. /\ Explored(stack[d].orig, stack[d].class, stack[d].token)
            /\ \A j \in Holders(assign, stack[d].class) : j <= stack[d].from => j \in visited
        BY <4>1 DEF Inv, ExploreInv
      <4> QED BY <1>1, <4>1, <4>2 DEF Explored
    <3>2. CASE d = n
      <4>1. stack'[d] = head
        BY <1>5, <3>2
      <4>2. \A c \in 1..Width : c < Top.class + 1 => c < Top.class \/ c = Top.class
        BY <1>2 DEF Frames
      <4>3. Explored(Top.orig, Top.class + 1, Top.token)
        BY <1>2, <1>9, <4>2 DEF Explored, Width
      <4>4. \A j \in Holders(assign, Top.class + 1) : ~(j <= 0)
        BY <1>2 DEF Holders
      <4> QED BY <1>1, <1>3, <4>1, <4>3, <4>4 DEF Explored
    <3> QED BY <3>1, <3>2
  <2> QED BY <2>1, <2>2 DEF ExploreInv
<1>11. run \in Solving /\ run' \in Solving /\ visited' \subseteq Positions
  BY <1>1, <1>2 DEF Solving
<1> QED BY <1>1, <1>8, <1>10, <1>11, SearchFrame, MatchFrame DEF Inv

\* A top with no edge left has been explored completely.
LEMMA TopIsExplored ==
  ASSUME Inv, run = "search", ~InClass, FreeEdges = {}, DisplaceableEdges = {}
  PROVE  Explored(Top.orig, original[Top.orig].width + 1, Len(reserved))
<1>1. Explored(Top.orig, Top.class, Top.token) /\ Width \in Nat /\ Top.class \in Nat /\ Top.class > Width
  BY TopFacts DEF InClass, Frames
<1>2. \A c \in 1..Width : c < Top.class
  BY <1>1
<1>3. ASSUME NEW t \in DOMAIN reserved, Edge(original, reserved, Top.orig, <<"token", t>>)
      PROVE  TokenDone(assign, visited, t)
  <2>1. CASE t <= Top.token
    BY <1>1, <1>3, <2>1 DEF Explored
  <2>2. CASE t \in TokenEdges
    <3>1. PICK k : k \in Occupants(t)
      BY <2>2 DEF FreeEdges
    <3>2. \A j \in Occupants(t) : j \in visited
      BY <2>2 DEF DisplaceableEdges
    <3> QED BY <3>1, <3>2, TokenEdgeFacts DEF TokenDone
  <2> QED BY <1>3, <2>1, <2>2, TokenEdgeFacts
<1> QED BY <1>1, <1>2, <1>3 DEF Explored, Width

\* A frame without an edge left is popped; its node stays visited.
LEMMA PopKeeps == ASSUME Inv, run = "search", SameGraph, Pop PROVE Inv'
<1> DEFINE n == Len(stack)
<1>1. /\ run' = "search" /\ UNCHANGED <<run, cap, assign, visited, next, original, reserved>>
      /\ n > 1 /\ stack' = SubSeq(stack, 1, n - 1)
  BY DEF Pop, SameGraph
<1>2. /\ next \in Positions /\ next \in Nat /\ DOMAIN assign = 1..(next - 1)
      /\ stack \in Seq(Frames) /\ n \in Nat \ {0} /\ DOMAIN stack = 1..n
      /\ visited \subseteq Positions
  BY TopFacts
<1>3. Explored(Top.orig, original[Top.orig].width + 1, Len(reserved))
  BY TopIsExplored DEF Pop
<1>4. /\ stack' \in Seq(Frames) /\ DOMAIN stack' = 1..(n - 1) /\ stack' # <<>>
      /\ \A d \in 1..(n - 1) : stack'[d] = stack[d] /\ d \in 1..n
  <2>1. Len(stack') = n - 1 /\ stack' \in Seq(Frames) /\ \A d \in 1..(n - 1) : stack'[d] = stack[d] /\ d \in 1..n
    BY <1>1, <1>2
  <2> HIDE DEF n
  <2>2. n - 1 \in Nat /\ n - 1 # 0
    BY <1>1, <1>2
  <2>3. DOMAIN stack' = 1..(n - 1)
    BY <2>1, <2>2
  <2>4. stack' # <<>>
    BY <2>1, <2>2
  <2> QED BY <2>1, <2>3, <2>4
<1> HIDE DEF n
<1>5. PathInv'
  <2>1. Positions' = Positions
    BY <1>1 DEF Positions
  <2>2. /\ visited \subseteq 1..next /\ stack[1].orig = next
        /\ \A d \in 1..n : stack[d].orig \in visited
        /\ \A d, e \in 1..n : stack[d].orig = stack[e].orig => d = e
        /\ \A d \in 1..n : d > 1 =>
             /\ stack[d].orig \in DOMAIN assign /\ stack[d].vacate = assign[stack[d].orig]
             /\ Edge(original, reserved, stack[d - 1].orig, stack[d].vacate)
    BY <1>2 DEF Inv, PathInv
  <2>3. \A d \in 1..(n - 1) : d > 1 => d - 1 \in 1..(n - 1)
    BY <1>2
  <2>4. 1 \in 1..(n - 1)
    BY <1>1, <1>2
  <2>5. \A d \in DOMAIN stack' : d > 1 =>
             /\ stack'[d].orig \in DOMAIN assign' /\ stack'[d].vacate = assign'[stack'[d].orig]
             /\ Edge(original', reserved', stack'[d - 1].orig, stack'[d].vacate)
    BY <1>1, <1>4, <2>2, <2>3
  <2>6. /\ next' \in Positions' /\ visited' \subseteq 1..next' /\ stack'[1].orig = next'
        /\ \A d \in DOMAIN stack' : stack'[d].orig \in visited'
        /\ \A d, e \in DOMAIN stack' : stack'[d].orig = stack'[e].orig => d = e
    BY <1>1, <1>2, <1>4, <2>1, <2>2, <2>4
  <2> QED BY <1>4, <2>5, <2>6 DEF PathInv
<1>6. ExploreInv'
  <2>1. ASSUME NEW j \in visited'
        PROVE  \/ \E d \in DOMAIN stack' : stack'[d].orig = j
               \/ Explored(j, original[j].width + 1, Len(reserved))'
    <3>1. \/ \E d \in DOMAIN stack : stack[d].orig = j
          \/ Explored(j, original[j].width + 1, Len(reserved))
      BY <1>1 DEF Inv, ExploreInv
    <3>2. CASE \E d \in DOMAIN stack : stack[d].orig = j
      <4>1. PICK d \in 1..n : stack[d].orig = j
        BY <1>2, <3>2
      <4>2. CASE d = n
        <5>1. Explored(j, original[j].width + 1, Len(reserved))
          BY <1>3, <4>1, <4>2 DEF Top, n
        <5> QED BY <1>1, <5>1 DEF Explored
      <4>3. CASE d \in 1..(n - 1)
        BY <1>4, <4>1, <4>3
      <4> QED BY <1>2, <4>2, <4>3
    <3>3. CASE Explored(j, original[j].width + 1, Len(reserved))
      BY <1>1, <3>3 DEF Explored
    <3> QED BY <3>1, <3>2, <3>3
  <2>2. ASSUME NEW d \in DOMAIN stack'
        PROVE  /\ Explored(stack[d].orig, stack[d].class, stack[d].token)'
               /\ \A j \in Holders(assign', stack'[d].class) : j <= stack'[d].from => j \in visited'
    <3>1. stack'[d] = stack[d] /\ d \in DOMAIN stack
      BY <1>2, <1>4
    <3>2. /\ Explored(stack[d].orig, stack[d].class, stack[d].token)
          /\ \A j \in Holders(assign, stack[d].class) : j <= stack[d].from => j \in visited
      BY <3>1 DEF Inv, ExploreInv
    <3> QED BY <1>1, <3>1, <3>2 DEF Explored
  <2> QED BY <2>1, <2>2 DEF ExploreInv
<1>7. run \in Solving /\ run' \in Solving /\ visited' \subseteq Positions
  BY <1>1, <1>2 DEF Solving
<1> QED BY <1>1, <1>5, <1>6, <1>7, SearchFrame, MatchFrame DEF Inv

\* Along the path every original passes its resource on: off the top, giver
\* says whose resource an original has now.
Shifts(giver, a, b, top, n) ==
  /\ giver \in [(1..n) \ {top} -> 1..(n - 1)]
  /\ \A i, j \in (1..n) \ {top} : giver[i] = giver[j] => i = j
  /\ \A k \in 1..(n - 1) : \E i \in (1..n) \ {top} : giver[i] = k
  /\ \A i \in (1..n) \ {top} : b[i] = a[giver[i]]

\* Unwinding the path shifts the resources along it by one node.
LEMMA UnwindShifts ==
  ASSUME Inv, run = "search", SameGraph, NEW found, Edge(original, reserved, Top.orig, found),
         Unwind(found)
  PROVE  /\ DOMAIN assign' = 1..next /\ Top.orig \in 1..next /\ assign'[Top.orig] = found
         /\ Fits(original, reserved, assign')
         /\ \E giver : Shifts(giver, assign, assign', Top.orig, next)
<1> DEFINE n == Len(stack)
           Path == {stack[d].orig : d \in DOMAIN stack}
           Depth(i) == CHOOSE d \in DOMAIN stack : stack[d].orig = i
           Taken(d) == IF d = n THEN found ELSE stack[d + 1].vacate
           top == Top.orig
           giver == [i \in (1..next) \ {top} |-> IF i \in Path THEN stack[Depth(i) + 1].orig ELSE i]
<1>1. assign' = [i \in DOMAIN assign \cup Path |-> IF i \in Path THEN Taken(Depth(i)) ELSE assign[i]]
  BY DEF Unwind
<1>2. /\ next \in Nat \ {0} /\ DOMAIN assign = 1..(next - 1)
      /\ n \in Nat \ {0} /\ DOMAIN stack = 1..n /\ visited \subseteq 1..next
      /\ top = stack[n].orig
  BY TopFacts DEF Top, Positions
<1>3. /\ stack[1].orig = next
      /\ \A d \in 1..n : stack[d].orig \in visited
      /\ \A d, e \in 1..n : stack[d].orig = stack[e].orig => d = e
      /\ \A d \in 1..n : d > 1 =>
           /\ stack[d].orig \in DOMAIN assign /\ stack[d].vacate = assign[stack[d].orig]
           /\ Edge(original, reserved, stack[d - 1].orig, stack[d].vacate)
  BY <1>2 DEF Inv, PathInv
<1>4. /\ \A d \in 1..n : stack[d].orig \in Path /\ stack[d].orig \in 1..next
      /\ \A i \in Path : \E d \in 1..n : stack[d].orig = i
  BY <1>2, <1>3
<1>5. \A d \in 1..n : Depth(stack[d].orig) = d
  BY <1>2, <1>3
<1> HIDE DEF n, Path, Depth, top
<1>6. DOMAIN assign \cup Path = 1..next
  <2>1. 1 \in 1..n /\ next \in Path
    BY <1>2, <1>3, <1>4
  <2>2. \A i \in 1..next : i \in 1..(next - 1) \/ i = next
    BY <1>2
  <2>3. \A i \in Path : i \in 1..next
    BY <1>4
  <2>4. \A i \in 1..(next - 1) : i \in 1..next
    BY <1>2
  <2> QED BY <1>2, <2>1, <2>2, <2>3, <2>4
<1>7. DOMAIN assign' = 1..next /\ \A i \in 1..next : assign'[i] = IF i \in Path THEN Taken(Depth(i)) ELSE assign[i]
  BY <1>1, <1>6
<1>8. \A d \in 1..n : assign'[stack[d].orig] = Taken(d)
  BY <1>4, <1>5, <1>7
<1>9. n \in 1..n /\ top \in Path /\ top \in 1..next
  BY <1>2, <1>4
<1>10. assign'[top] = found
  BY <1>2, <1>8, <1>9
<1>11. ASSUME NEW d \in 1..n, d # n
       PROVE  /\ d + 1 \in 1..n /\ d + 1 > 1 /\ (d + 1) - 1 = d
              /\ stack[d + 1].orig \in 1..(next - 1)
              /\ assign'[stack[d].orig] = assign[stack[d + 1].orig]
              /\ Edge(original, reserved, stack[d].orig, assign'[stack[d].orig])
  <2>1. d + 1 \in 1..n /\ d + 1 > 1 /\ (d + 1) - 1 = d
    BY <1>2, <1>11
  <2>2. assign'[stack[d].orig] = stack[d + 1].vacate
    BY <1>8, <1>11
  <2> QED BY <1>2, <1>3, <2>1, <2>2
<1>12. ASSUME NEW i \in 1..next, i \notin Path PROVE i \in 1..(next - 1) /\ assign'[i] = assign[i] /\ i # top
  BY <1>2, <1>6, <1>7, <1>9, <1>12
<1>13. ASSUME NEW i \in (1..next) \ {top}, i \in Path
       PROVE  \E d \in 1..n : /\ d # n /\ stack[d].orig = i /\ Depth(i) = d
                              /\ giver[i] = stack[d + 1].orig
  <2>1. PICK d \in 1..n : stack[d].orig = i
    BY <1>4, <1>13
  <2>2. d # n /\ Depth(i) = d
    BY <1>2, <1>5, <2>1
  <2>3. giver[i] = stack[d + 1].orig
    BY <1>13, <2>2
  <2> QED BY <2>1, <2>2, <2>3
<1>14. ASSUME NEW i \in (1..next) \ {top}, i \notin Path PROVE giver[i] = i
  BY <1>14
<1>15. \A i \in 1..next : Edge(original, reserved, i, assign'[i])
  <2> SUFFICES ASSUME NEW i \in 1..next PROVE Edge(original, reserved, i, assign'[i])
    OBVIOUS
  <2>1. CASE i \notin Path
    <3>1. Fits(original, reserved, assign)
      BY DEF Inv, MatchInv, Solving
    <3> QED BY <1>2, <1>12, <2>1, <3>1 DEF Fits
  <2>2. CASE i = top
    BY <1>10, <2>2 DEF top
  <2>3. CASE i \in Path /\ i # top
    BY <1>11, <1>13, <2>3
  <2> QED BY <2>1, <2>2, <2>3
<1>16. DOMAIN giver = (1..next) \ {top}
  OBVIOUS
<1>17. giver = [i \in (1..next) \ {top} |-> giver[i]]
  OBVIOUS
<1> HIDE DEF giver
<1>18. \A i \in (1..next) \ {top} : giver[i] \in 1..(next - 1) /\ assign'[i] = assign[giver[i]]
  BY <1>11, <1>12, <1>13, <1>14
<1>19. ASSUME NEW i \in (1..next) \ {top}, NEW j \in (1..next) \ {top}, giver[i] = giver[j] PROVE i = j
  <2>1. \A k \in (1..next) \ {top} : k \in Path => giver[k] \in Path
    BY <1>4, <1>11, <1>13
  <2>2. CASE i \in Path /\ j \in Path
    <3>1. PICK d \in 1..n : d # n /\ stack[d].orig = i /\ giver[i] = stack[d + 1].orig
      BY <1>13, <2>2
    <3>2. PICK e \in 1..n : e # n /\ stack[e].orig = j /\ giver[j] = stack[e + 1].orig
      BY <1>13, <2>2
    <3>5. d + 1 \in 1..n /\ e + 1 \in 1..n
      BY <1>11, <3>1, <3>2
    <3>6. stack[d + 1].orig = stack[e + 1].orig
      BY <1>19, <3>1, <3>2
    <3>3. d + 1 = e + 1
      BY <1>3, <3>5, <3>6, Zenon
    <3>4. d = e
      BY <1>2, <3>3
    <3> QED BY <3>1, <3>2, <3>4
  <2>3. CASE i \notin Path \/ j \notin Path
    BY <1>14, <1>19, <2>1, <2>3
  <2> QED BY <2>2, <2>3
<1>20. ASSUME NEW k \in 1..(next - 1) PROVE \E i \in (1..next) \ {top} : giver[i] = k
  <2>0. k \in 1..next /\ k # next
    BY <1>2
  <2>1. CASE k \notin Path
    BY <1>12, <1>14, <2>0, <2>1
  <2>2. CASE k \in Path
    <3>1. PICK e \in 1..n : stack[e].orig = k
      BY <1>4, <2>2
    <3>2. e > 1 /\ e - 1 \in 1..n /\ e - 1 # n /\ (e - 1) + 1 = e
      BY <1>2, <1>3, <2>0, <3>1
    <3> DEFINE d == e - 1
               i == stack[d].orig
    <3>3. d \in 1..n /\ d # n /\ d + 1 = e
      BY <3>2
    <3> HIDE DEF d
    <3>4. i \in (1..next) \ {top} /\ i \in Path
      BY <1>2, <1>3, <1>4, <1>9, <3>3
    <3>5. Depth(i) = d
      BY <1>5, <3>3
    <3> HIDE DEF i
    <3>6. giver[i] = stack[d + 1].orig
      BY <1>13, <3>4, <3>5
    <3> QED BY <3>1, <3>3, <3>4, <3>6
  <2> QED BY <2>1, <2>2
<1>21. giver \in [(1..next) \ {top} -> 1..(next - 1)]
  BY <1>17, <1>18
<1>22. Shifts(giver, assign, assign', top, next)
  BY <1>18, <1>19, <1>20, <1>21 DEF Shifts
<1>23. Fits(original, reserved, assign')
  BY <1>7, <1>15 DEF Fits
<1> QED BY <1>7, <1>9, <1>10, <1>22, <1>23 DEF top

\* So a class has as many holders as before, and one more if the top joins it.
LEMMA ShiftCounts ==
  ASSUME NEW n \in Nat \ {0}, NEW a, NEW b, NEW top \in 1..n, NEW giver, NEW c,
         DOMAIN a = 1..(n - 1), DOMAIN b = 1..n, Shifts(giver, a, b, top, n)
  PROVE  /\ IsFiniteSet(Holders(a, c)) /\ IsFiniteSet(Holders(b, c))
         /\ Cardinality(Holders(a, c)) \in Nat
         /\ Cardinality(Holders(b, c)) =
              IF b[top] = <<"class", c>> THEN Cardinality(Holders(a, c)) + 1 ELSE Cardinality(Holders(a, c))
<1> DEFINE H == Holders(b, c) \ {top}
           g == [i \in H |-> giver[i]]
<1>1. IsFiniteSet(Holders(a, c)) /\ IsFiniteSet(Holders(b, c))
  <2>1. IsFiniteSet(1..(n - 1)) /\ IsFiniteSet(1..n)
    BY FS_Interval
  <2> QED BY <2>1, FS_Subset DEF Holders
<1>2. \A i \in H : i \in (1..n) \ {top} /\ a[giver[i]] = <<"class", c>> /\ giver[i] \in 1..(n - 1)
  BY DEF Holders, Shifts
<1>3. g \in [H -> Holders(a, c)]
  BY <1>2 DEF Holders
<1>4. \A i, j \in H : g[i] = g[j] => i = j
  BY <1>2 DEF Shifts
<1>5. ASSUME NEW k \in Holders(a, c) PROVE \E i \in H : g[i] = k
  <2>1. k \in 1..(n - 1) /\ a[k] = <<"class", c>>
    BY DEF Holders
  <2>2. PICK i \in (1..n) \ {top} : giver[i] = k
    BY <2>1 DEF Shifts
  <2>3. b[i] = <<"class", c>>
    BY <2>1, <2>2 DEF Shifts
  <2>4. i \in H
    BY <2>2, <2>3 DEF Holders
  <2> QED BY <2>2, <2>4
<1> HIDE DEF g, H
<1>6. g \in Bijection(H, Holders(a, c))
  BY <1>3, <1>4, <1>5 DEF Bijection, Injection, Surjection, IsInjective
<1>7. IsFiniteSet(H)
  BY <1>1, FS_RemoveElement DEF H
<1>8. Cardinality(H) = Cardinality(Holders(a, c))
  BY <1>6, <1>7, FS_Bijection DEF ExistsBijection
<1>9. Cardinality(H) = IF top \in Holders(b, c) THEN Cardinality(Holders(b, c)) - 1 ELSE Cardinality(Holders(b, c))
  BY <1>1, FS_RemoveElement DEF H
<1>10. top \in Holders(b, c) <=> b[top] = <<"class", c>>
  BY DEF Holders
<1>11. Cardinality(Holders(a, c)) \in Nat /\ Cardinality(Holders(b, c)) \in Nat
  BY <1>1, FS_CardinalityType
<1> QED BY <1>1, <1>8, <1>9, <1>10, <1>11

\* A path that ends in a free resource enlarges the matching.
LEMMA UnwindKeeps ==
  ASSUME Inv, run = "search", SameGraph, NEW found, Edge(original, reserved, Top.orig, found),
         Unwind(found), UNCHANGED candidate,
         \/ \E c \in 1..Width : /\ found = <<"class", c>> /\ cap[c] > 0
                                /\ cap' = [cap EXCEPT ![c] = cap[c] - 1]
         \/ \E t \in DOMAIN reserved : found = <<"token", t>> /\ Occupants(t) = {} /\ cap' = cap
  PROVE  Inv'
<1>1. run' = "solve" /\ next' = next + 1 /\ UNCHANGED <<visited, stack, original, reserved>>
  BY DEF Unwind, SameGraph
<1>2. /\ next \in Positions /\ next \in Nat \ {0} /\ DOMAIN assign = 1..(next - 1)
      /\ visited \subseteq Positions /\ 1..Width \subseteq DOMAIN cap
  BY TopFacts DEF Positions
<1>3. /\ DOMAIN assign' = 1..next /\ Top.orig \in 1..next /\ assign'[Top.orig] = found
      /\ Fits(original, reserved, assign')
  BY UnwindShifts
<1>4. PICK giver : Shifts(giver, assign, assign', Top.orig, next)
  BY UnwindShifts
<1>5. run \in Solving /\ run' \in Solving /\ visited' \subseteq Positions
  BY <1>1, <1>2 DEF Solving
<1>6. /\ Positions' = Positions /\ Occupied' = Occupied
      /\ \A t : TokenValue(t)' = TokenValue(t)
      /\ \A c : FungibleTokens(c)' = FungibleTokens(c)
  BY <1>5, SearchFrame
<1>7. Single(assign')
  <2> DEFINE top == Top.orig
             a == assign
             b == assign'
  <2>1. SUFFICES ASSUME NEW i \in 1..next, NEW j \in 1..next, b[i] = b[j], b[i][1] = "token"
                 PROVE  i = j
    BY <1>3 DEF Single
  <2>2. Single(a)
    BY DEF Inv, MatchInv, Solving
  <2>3. \A k \in 1..next : k # top => b[k] = a[giver[k]] /\ giver[k] \in DOMAIN a
    BY <1>2, <1>4 DEF Shifts
  <2>4. CASE i # top /\ j # top
    <3>1. a[giver[i]] = a[giver[j]] /\ a[giver[i]][1] = "token" /\ giver[i] \in DOMAIN a /\ giver[j] \in DOMAIN a
      BY <2>1, <2>3, <2>4
    <3>2. giver[i] = giver[j]
      BY <2>2, <3>1 DEF Single
    <3> QED BY <1>4, <2>4, <3>2 DEF Shifts
  <2>5. ASSUME NEW k \in 1..next, k # top, b[k] = found, found[1] = "token" PROVE FALSE
    <3>1. PICK t \in DOMAIN reserved : found = <<"token", t>> /\ Occupants(t) = {}
      BY <2>5
    <3>2. giver[k] \in Occupants(t)
      BY <2>3, <2>5, <3>1 DEF Occupants
    <3> QED BY <3>1, <3>2
  <2> QED BY <1>3, <2>1, <2>4, <2>5
<1>8. DOMAIN cap' = DOMAIN cap
  OBVIOUS
<1>9. ASSUME NEW c \in DOMAIN cap
      PROVE  /\ cap'[c] \in Nat
             /\ cap'[c] + Cardinality(Holders(assign', c)) = Cardinality(FungibleTokens(c))
  <2>1. cap[c] \in Nat /\ cap[c] + Cardinality(Holders(assign, c)) = Cardinality(FungibleTokens(c))
    BY DEF Inv, MatchInv, Solving
  <2>2. /\ Cardinality(Holders(assign, c)) \in Nat
        /\ Cardinality(Holders(assign', c)) =
             IF found = <<"class", c>> THEN Cardinality(Holders(assign, c)) + 1
                                       ELSE Cardinality(Holders(assign, c))
    BY <1>2, <1>3, <1>4, ShiftCounts
  <2>3. CASE found = <<"class", c>>
    <3>1. cap[c] > 0 /\ cap'[c] = cap[c] - 1
      BY <2>3
    <3> QED BY <2>1, <2>2, <2>3, <3>1
  <2>4. CASE found # <<"class", c>>
    <3>1. cap'[c] = cap[c]
      BY <2>4
    <3> QED BY <2>1, <2>2, <2>4, <3>1
  <2> QED BY <2>3, <2>4
<1>10. MatchInv'
  <2>1. next' \in 1..(Len(original') + 1) /\ DOMAIN assign' = 1..(next' - 1)
    <3>1. Len(original) \in Nat /\ next \in 1..Len(original)
      BY <1>2 DEF Positions, Inv, GraphInv, Solving
    <3> QED BY <1>1, <1>2, <1>3, <3>1
  <2>2. /\ \A t \in DOMAIN reserved : TokenValue(t) \notin Occupied
        /\ DOMAIN cap \subseteq Lengths /\ \A i \in Positions : 1..original[i].width \subseteq DOMAIN cap
    BY DEF Inv, MatchInv, Solving
  <2> QED BY <1>1, <1>3, <1>6, <1>7, <1>8, <1>9, <2>1, <2>2 DEF MatchInv
<1>11. PathInv' /\ ExploreInv'
  BY <1>1 DEF PathInv, ExploreInv
<1> QED BY <1>5, <1>10, <1>11, SearchFrame DEF Inv

\* A free slot of a class, a free reserved token ends the search.
LEMMA TakeKeeps ==
  ASSUME Inv, run = "search", SameGraph, UNCHANGED candidate, ClassTake \/ TokenTake
  PROVE  Inv'
<1>1. CASE ClassTake
  <2>1. Top.class \in 1..Width
    BY <1>1, TopFacts DEF ClassTake, InClass, Frames
  <2>2. Edge(original, reserved, Top.orig, <<"class", Top.class>>)
    BY <2>1 DEF Edge, Width
  <2>3. cap[Top.class] > 0 /\ cap' = [cap EXCEPT ![Top.class] = cap[Top.class] - 1] /\ Unwind(<<"class", Top.class>>)
    BY <1>1 DEF ClassTake
  <2> QED BY <2>1, <2>2, <2>3, UnwindKeeps
<1>2. CASE TokenTake
  <2> DEFINE t == Min(FreeEdges)
  <2>1. FreeEdges \in SUBSET Nat /\ FreeEdges # {}
    BY <1>2, TokenEdgeFacts DEF FreeEdges, TokenTake
  <2>2. t \in FreeEdges
    BY <2>1, MinIsLeast
  <2>3. cap' = cap /\ Unwind(<<"token", t>>)
    BY <1>2 DEF TokenTake
  <2> HIDE DEF t
  <2>4. t \in DOMAIN reserved /\ Occupants(t) = {} /\ Edge(original, reserved, Top.orig, <<"token", t>>)
    BY <2>2, TokenEdgeFacts DEF FreeEdges
  <2> QED BY <2>3, <2>4, UnwindKeeps
<1> QED BY <1>1, <1>2

-----------------------------------------------------------------------------
(* The verdicts of the search.                                             *)

\* The strictest width of a text is the width of one of its occurrences.
LEMMA StrictestFacts ==
  ASSUME source \subseteq Occurrences, NEW o \in source
  PROVE  /\ Strictest(o.value) \in Nat /\ Strictest(o.value) <= o.width
         /\ \E p \in source : p.value = o.value /\ Strictest(o.value) = p.width
<1> DEFINE S == {p.width : p \in {q \in source : q.value = o.value}}
<1>1. S \in SUBSET Nat /\ o.width \in S
  BY ValueFacts
<1>2. Min(S) \in S /\ \A y \in S : Min(S) <= y
  BY <1>1, MinIsLeast
<1>3. Strictest(o.value) = Min(S)
  BY DEF Strictest
<1> QED BY <1>1, <1>2, <1>3

\* The tokens of a length are finitely many.
LEMMA TokensAreFinite ==
  ASSUME NEW c \in Lengths
  PROVE  IsFiniteSet(TokensOf(c)) /\ IsFiniteSet(FungibleTokens(c))
<1>1. TokenSets({}, {})
  BY DEF TokenSets
<1>2. IsFiniteSet(FreeIn({}, {}, c))
  BY <1>1, FreeCount
<1>3. FreeIn({}, {}, c) = TokensOf(c)
  BY DEF FreeIn
<1>4. FungibleTokens(c) \in SUBSET TokensOf(c)
  BY DEF FungibleTokens
<1> QED BY <1>2, <1>3, <1>4, FS_Subset

\* The nodes of the graph and its reserved tokens.
NodeFacts(i) ==
  /\ original[i] \in Rows /\ original[i].width \in Nat /\ 1..original[i].width \subseteq Lengths
  /\ original[i].value \in Texts /\ original[i].value \in Values
  /\ original[i].width = Strictest(original[i].value)
ReservedFacts(t) ==
  /\ reserved[t] \in Positions /\ TokenValue(t) = original[reserved[t]].value
  /\ TokenValue(t) \in TokensOf(TokenValue(t)[1]) /\ TokenValue(t)[1] \in Nat \ {0}

\* The nodes and the reserved tokens of a graph that is being used.
LEMMA GraphFacts ==
  ASSUME TypeOK, GraphInv, run \in Solving \cup Writing
  PROVE  /\ \A i \in Positions : NodeFacts(i)
         /\ \A t \in DOMAIN reserved : ReservedFacts(t)
         /\ \A t, u \in DOMAIN reserved : TokenValue(t) = TokenValue(u) => t = u
<1>1. ASSUME NEW i \in Positions PROVE NodeFacts(i)
  <2>1. original \in Seq(Rows) /\ source \subseteq Occurrences
    BY DEF GraphInv, TypeOK
  <2>9. original[i] \in Rows
    BY <2>1 DEF Positions
  <2>2. original[i] \in Rows /\ original[i].width \in Nat
    BY <2>9 DEF Rows
  <2>3. PICK o \in source : o.value = original[i].value /\ o.width = original[i].width
    BY DEF GraphInv
  <2>4. /\ Strictest(o.value) \in Nat /\ Strictest(o.value) <= o.width
        /\ \E p \in source : p.value = o.value /\ Strictest(o.value) = p.width
    BY <2>1, StrictestFacts
  <2>5. original[i].width <= Strictest(o.value)
    BY <2>3, <2>4 DEF GraphInv
  <2>6. original[i].width = Strictest(original[i].value)
    BY <2>2, <2>3, <2>4, <2>5
  <2>7. 1..original[i].width \subseteq Lengths
    BY <2>1, <2>3 DEF Lengths
  <2>8. original[i].value \in Texts /\ original[i].value \in Values
    BY <2>1, <2>3 DEF Texts, Values
  <2> QED BY <2>2, <2>6, <2>7, <2>8 DEF NodeFacts
<1>2. ASSUME NEW t \in DOMAIN reserved PROVE ReservedFacts(t)
  <2>1. reserved[t] \in Positions
    BY DEF GraphInv
  <2>2. TokenValue(t) = original[reserved[t]].value /\ IsSafeToken(TokenValue(t))
    BY <2>1 DEF GraphInv, TokenValue
  <2>3. TokenValue(t) \in Values
    BY <1>1, <2>1, <2>2 DEF NodeFacts
  <2>4. TokenValue(t)[1] \in Nat \ {0}
    BY <2>3, TextAssumption DEF Values
  <2> QED BY <2>1, <2>2, <2>3, <2>4, SafeTextsAreTokens DEF ReservedFacts
<1>3. ASSUME NEW t \in DOMAIN reserved, NEW u \in DOMAIN reserved, TokenValue(t) = TokenValue(u) PROVE t = u
  <2>1. reserved[t] = reserved[u]
    BY <1>2, <1>3 DEF ReservedFacts, GraphInv
  <2> QED BY <2>1 DEF GraphInv
<1> QED BY <1>1, <1>2, <1>3

\* While the graph is solved, its nodes are the texts that have no row.
LEMMA LeftIsTheGraph ==
  ASSUME Inv, run \in Solving
  PROVE  Left = {original[i].value : i \in Positions}
<1>1. DOMAIN spool = {original[i].value : i \in Positions}
  BY DEF Inv, SpoolInv
<1>2. toScan = {} /\ unchecked = {} /\ DOMAIN spool \cap DOMAIN mapping = {}
  BY DEF Inv, ScanInv, Solving, Active
<1>3. \A v \in Texts : v \in DOMAIN spool \/ v \in DOMAIN mapping
  BY <1>2 DEF Inv, ScanInv, Texts, Solving, Active
<1>4. DOMAIN spool \subseteq Texts
  BY DEF Inv, TypeOK
<1> QED BY <1>1, <1>2, <1>3, <1>4 DEF Left

\* An exhausted search is a proof: the visited nodes can only have tokens
\* that other visited nodes hold, and these are one fewer.
LEMMA ExhaustedIsInfeasible ==
  ASSUME Inv, run = "search", Exhausted
  PROVE  Completions = {}
<1> SUFFICES ASSUME NEW f \in Completions PROVE FALSE
  OBVIOUS
<1> DEFINE F(i) == f[original[i].value]
<1>0. run \in Solving /\ TypeOK /\ GraphInv /\ Left = {original[i].value : i \in Positions}
  BY LeftIsTheGraph DEF Solving, Inv
<1>1. /\ \A i \in Positions : NodeFacts(i)
      /\ \A t \in DOMAIN reserved : ReservedFacts(t)
      /\ \A t, u \in DOMAIN reserved : TokenValue(t) = TokenValue(u) => t = u
  BY <1>0, GraphFacts
<1>2. ASSUME NEW i \in Positions
      PROVE  /\ F(i) \in TokensOf(F(i)[1]) /\ F(i)[1] \in 1..original[i].width
             /\ F(i) \notin Occupied /\ F(i) # original[i].value
  <2>1. original[i].value \in Left
    BY <1>0
  <2>2. F(i) \in FreeTokens /\ F(i) # original[i].value /\ F(i)[1] <= original[i].width
    BY <1>1, <2>1 DEF Completions, NodeFacts
  <2> DEFINE m == Max({0} \cup {o.width : o \in source})
  <2>3. F(i) \notin Occupied /\ \E c \in 1..m : F(i) \in TokensOf(c)
    BY <2>2 DEF FreeTokens
  <2> HIDE DEF m
  <2>4. PICK c \in 1..m : F(i) \in TokensOf(c)
    BY <2>3
  <2>5. F(i)[1] = c
    BY <2>4, TokensAreSafe
  <2>6. original[i].width \in Nat
    BY <1>1 DEF NodeFacts
  <2> QED BY <2>2, <2>3, <2>4, <2>5, <2>6
<1>3. ASSUME NEW i \in Positions, NEW j \in Positions, F(i) = F(j) PROVE i = j
  <2>1. original[i].value \in Left /\ original[j].value \in Left
    BY <1>0
  <2>2. original[i].value = original[j].value
    BY <1>3, <2>1 DEF Completions
  <2> QED BY <1>0, <2>2 DEF GraphInv
<1>4. ASSUME NEW i \in visited PROVE Explored(i, original[i].width + 1, Len(reserved))
  <2>1. CASE \E d \in DOMAIN stack : stack[d].orig = i
    <3>1. Len(stack) = 1 /\ DOMAIN stack = 1..Len(stack)
      BY TopFacts DEF Exhausted
    <3>2. i = Top.orig
      BY <2>1, <3>1 DEF Top
    <3> QED BY <3>2, TopIsExplored DEF Exhausted
  <2> QED BY <2>1 DEF Inv, ExploreInv
<1>5. /\ next \in visited /\ visited \subseteq Positions /\ next \in Nat
      /\ DOMAIN assign = 1..(next - 1) /\ visited \subseteq 1..next /\ reserved \in Seq(Positions)
  <2>1. 1 \in DOMAIN stack
    BY TopFacts
  <2> QED BY <2>1, TopFacts DEF Inv, PathInv
<1> DEFINE C == {c \in DOMAIN cap : ClassDone(assign, cap, visited, c)}
           bij == [c \in C |-> CHOOSE g : g \in Bijection(FungibleTokens(c), Holders(assign, c))]
<1>6. ASSUME NEW c \in C PROVE bij[c] \in Bijection(FungibleTokens(c), Holders(assign, c))
  <2>1. IsFiniteSet(FungibleTokens(c))
    BY TokensAreFinite DEF Inv, MatchInv, Solving
  <2>2. IsFiniteSet(Holders(assign, c))
    <3>1. IsFiniteSet(1..(next - 1))
      BY <1>5, FS_Interval
    <3> QED BY <1>5, <3>1, FS_Subset DEF Holders
  <2>3. Cardinality(FungibleTokens(c)) = Cardinality(Holders(assign, c))
    <3>1. cap[c] = 0 /\ cap[c] + Cardinality(Holders(assign, c)) = Cardinality(FungibleTokens(c))
      BY DEF ClassDone, Inv, MatchInv, Solving
    <3>2. Cardinality(Holders(assign, c)) \in Nat
      BY <2>2, FS_CardinalityType
    <3> QED BY <3>1, <3>2
  <2>4. \E g : g \in Bijection(FungibleTokens(c), Holders(assign, c))
    BY <2>1, <2>2, <2>3, FS_SameCardinalityBij DEF ExistsBijection
  <2> QED BY <2>4
<1>7. \A c \in C : /\ \A x \in FungibleTokens(c) : bij[c][x] \in Holders(assign, c)
                   /\ \A x, y \in FungibleTokens(c) : bij[c][x] = bij[c][y] => x = y
                   /\ Holders(assign, c) \subseteq visited
  <2> SUFFICES ASSUME NEW c \in C
               PROVE  /\ \A x \in FungibleTokens(c) : bij[c][x] \in Holders(assign, c)
                      /\ \A x, y \in FungibleTokens(c) : bij[c][x] = bij[c][y] => x = y
                      /\ Holders(assign, c) \subseteq visited
    OBVIOUS
  <2>1. Holders(assign, c) \subseteq visited
    BY DEF ClassDone
  <2>2. bij[c] \in Bijection(FungibleTokens(c), Holders(assign, c))
    BY <1>6
  <2> HIDE DEF bij
  <2> QED BY <2>1, <2>2 DEF Bijection, Injection, IsInjective
<1> DEFINE R(i, j) ==
             \/ \E t \in DOMAIN reserved : assign[j] = <<"token", t>> /\ F(i) = TokenValue(t)
             \/ \E c \in C : assign[j] = <<"class", c>> /\ F(i) \in FungibleTokens(c) /\ bij[c][F(i)] = j
<1>8. ASSUME NEW i \in visited PROVE \E j \in visited \ {next} : R(i, j)
  <2>0. i \in Positions /\ \A j \in DOMAIN assign : j # next
    BY <1>5
  <2>1. CASE \E t \in DOMAIN reserved : F(i) = TokenValue(t)
    <3>1. PICK t \in DOMAIN reserved : F(i) = TokenValue(t)
      BY <2>1
    <3>2. Edge(original, reserved, i, <<"token", t>>)
      <4>1. reserved[t] # i
        BY <1>1, <1>2, <2>0, <3>1 DEF ReservedFacts
      <4>2. original[reserved[t]].own[1] <= original[i].width
        BY <1>2, <2>0, <3>1 DEF TokenValue
      <4> QED BY <4>1, <4>2 DEF Edge
    <3>3. t <= Len(reserved)
      BY <1>5
    <3>4. TokenDone(assign, visited, t)
      BY <1>4, <3>2, <3>3 DEF Explored
    <3>5. PICK j \in DOMAIN assign : assign[j] = <<"token", t>> /\ j \in visited
      BY <3>4 DEF TokenDone
    <3> QED BY <2>0, <3>1, <3>5
  <2>2. CASE ~ \E t \in DOMAIN reserved : F(i) = TokenValue(t)
    <3> DEFINE c == F(i)[1]
    <3>1. c \in 1..original[i].width /\ F(i) \in TokensOf(c) /\ F(i) \notin Occupied
      BY <1>2, <2>0
    <3>2. F(i) \in FungibleTokens(c)
      BY <2>2, <3>1 DEF FungibleTokens
    <3> HIDE DEF c
    <3>3. c \in DOMAIN cap
      BY <2>0, <3>1 DEF Inv, MatchInv, Solving
    <3>4. c < original[i].width + 1
      BY <1>1, <2>0, <3>1 DEF NodeFacts
    <3>5. c \in C
      BY <1>4, <3>1, <3>3, <3>4 DEF Explored
    <3> DEFINE j == bij[c][F(i)]
    <3>6. j \in Holders(assign, c) /\ j \in visited
      BY <1>7, <3>2, <3>5
    <3>7. j \in DOMAIN assign /\ assign[j] = <<"class", c>>
      BY <3>6 DEF Holders
    <3> HIDE DEF C, bij, F
    <3> QED BY <2>0, <3>2, <3>5, <3>6, <3>7
  <2> QED BY <2>1, <2>2
<1>9. ASSUME NEW i \in visited, NEW k \in visited, NEW j \in visited, R(i, j), R(k, j) PROVE i = k
  <2> HIDE DEF F, C, bij
  <2>1. i \in Positions /\ k \in Positions
    BY <1>5
  <2>2. CASE \E t \in DOMAIN reserved : assign[j] = <<"token", t>> /\ F(i) = TokenValue(t)
    BY <1>3, <1>9, <2>1, <2>2
  <2>3. CASE \E c \in C : assign[j] = <<"class", c>> /\ F(i) \in FungibleTokens(c) /\ bij[c][F(i)] = j
    <3>1. PICK c \in C : assign[j] = <<"class", c>> /\ F(i) \in FungibleTokens(c) /\ bij[c][F(i)] = j
      BY <2>3
    <3>2. F(k) \in FungibleTokens(c) /\ bij[c][F(k)] = j
      BY <1>9, <3>1
    <3>3. F(i) = F(k)
      BY <1>7, <3>1, <3>2
    <3> QED BY <1>3, <2>1, <3>3
  <2> QED BY <1>9, <2>2, <2>3
<1> DEFINE h == [i \in visited |-> CHOOSE j \in visited \ {next} : R(i, j)]
<1> HIDE DEF R
<1>10. \A i \in visited : h[i] \in visited \ {next} /\ R(i, h[i])
  BY <1>8
<1>11. h \in Injection(visited, visited \ {next})
  <2>1. h \in [visited -> visited \ {next}]
    BY <1>8
  <2>2. \A i, k \in visited : h[i] = h[k] => i = k
    BY <1>9, <1>10
  <2> HIDE DEF h
  <2> QED BY <2>1, <2>2 DEF Injection, IsInjective
<1>12. IsFiniteSet(visited) /\ Cardinality(visited) \in Nat
  <2>1. IsFiniteSet(1..next)
    BY <1>5, FS_Interval
  <2> QED BY <1>5, <2>1, FS_Subset, FS_CardinalityType
<1>13. IsFiniteSet(visited \ {next}) /\ Cardinality(visited \ {next}) = Cardinality(visited) - 1
  BY <1>5, <1>12, FS_RemoveElement
<1> HIDE DEF h
<1>14. Cardinality(visited) <= Cardinality(visited \ {next})
  BY <1>11, <1>13, FS_Injection
<1> QED BY <1>12, <1>13, <1>14

\* Every step of _augment.
LEMMA SearchKeeps == ASSUME Inv, Search PROVE Inv'
<1>1. run = "search" /\ UNCHANGED <<mapping, source, solved, runs, hasDomain>>
  BY DEF Search, Vault, History
<1>2. Top.orig \in Positions
  BY <1>1, TopFacts
<1>3. CASE Exhausted
  <2>1. End("RESIDUAL_INFEASIBLE") /\ Completions = {}
    BY <1>1, <1>2, <1>3, ExhaustedIsInfeasible DEF Search
  <2> QED BY <1>1, <2>1, EndKeeps DEF Ended, Failures, Corruptions, Inv, TypeOK
<1>4. CASE ~Exhausted
  <2>1. /\ ClassTake \/ ClassDisplace \/ ClassSkip \/ TokenTake \/ TokenDisplace \/ Pop
        /\ UNCHANGED candidate
    BY <1>2, <1>4 DEF Search
  <2>2. SameGraph
    BY <1>2, <1>4 DEF Search, SameGraph
  <2> QED BY <1>1, <2>1, <2>2, TakeKeeps, ClassDisplaceKeeps, ClassSkipKeeps, TokenDisplaceKeeps, PopKeeps
<1> QED BY <1>3, <1>4

-----------------------------------------------------------------------------
(* The rows are written.                                                   *)

\* A finite set injects into every finite set that is not smaller.
LEMMA SmallerInjects ==
  ASSUME NEW S, NEW T, IsFiniteSet(S), IsFiniteSet(T), Cardinality(S) <= Cardinality(T)
  PROVE  \E g : g \in Injection(S, T)
<1> DEFINE n == Cardinality(S)
           m == Cardinality(T)
<1>1. n \in Nat /\ m \in Nat /\ n <= m /\ ExistsBijection(1..n, S) /\ ExistsBijection(1..m, T)
  BY FS_CardinalityType
<1> HIDE DEF n, m
<1>2. ExistsInjection(S, 1..n)
  BY <1>1, Fun_ExistsBijEquiv
<1>3. ExistsInjection(1..n, 1..m)
  BY <1>1, Fun_NatInjLeq
<1>4. ExistsInjection(1..m, T)
  BY <1>1, Fun_ExistsBijEquiv
<1>5. ExistsInjection(S, T)
  BY <1>2, <1>3, <1>4, Fun_ExistsInjTransitive
<1> QED BY <1>5 DEF ExistsInjection

\* The widest field of the source.
LEMMA WidestSource ==
  ASSUME source \subseteq Occurrences, NEW o \in source
  PROVE  LET m == Max({0} \cup {p.width : p \in source}) IN m \in Nat /\ o.width <= m
<1> DEFINE S == {p.width : p \in source}
           f == [p \in source |-> p.width]
           T == {0} \cup S
<1>1. f \in Surjection(source, S)
  BY DEF Surjection
<1>2. IsFiniteSet(source)
  BY TextAssumption, FS_Subset
<1>3. IsFiniteSet(S)
  BY <1>1, <1>2, FS_Surjection
<1>4. IsFiniteSet(T)
  BY <1>3, FS_Union, FS_Singleton
<1>5. T \in SUBSET Nat /\ T # {} /\ o.width \in T
  BY ValueFacts
<1> HIDE DEF T
<1>6. Max(T) \in T /\ o.width <= Max(T)
  BY <1>4, <1>5, MaxIsGreatest
<1>7. Max(T) \in Nat
  BY <1>5, <1>6
<1> QED BY <1>6, <1>7 DEF T

\* Every choice for a node without a row is free, fits and is not its text.
LEMMA NodeChoices ==
  ASSUME TypeOK, GraphInv, WriteInv, run \in Writing, NEW i \in Pending, NEW x \in TokenChoices(i)
  PROVE  /\ x \in TokensOf(x[1]) /\ x[1] \in 1..original[i].width
         /\ x \notin Occupied /\ x # original[i].value
<1>1. /\ \A j \in Positions : NodeFacts(j)
      /\ \A t \in DOMAIN reserved : ReservedFacts(t)
  BY GraphFacts
<1>2. i \in Positions /\ NodeFacts(i) /\ original[i].width \in Nat
  BY <1>1 DEF Pending, NodeFacts
<1>3. Edge(original, reserved, i, assign[i])
  BY <1>2 DEF WriteInv, Fits
<1>4. CASE \E t \in DOMAIN reserved :
             assign[i] = <<"token", t>> /\ original[reserved[t]].own[1] <= original[i].width /\ reserved[t] # i
  <2>1. PICK t \in DOMAIN reserved :
             assign[i] = <<"token", t>> /\ original[reserved[t]].own[1] <= original[i].width /\ reserved[t] # i
    BY <1>4
  <2>2. x = TokenValue(t)
    BY <2>1 DEF TokenChoices
  <2>3. ReservedFacts(t) /\ x[1] <= original[i].width
    BY <1>1, <2>1, <2>2 DEF TokenValue
  <2>4. x \notin Occupied
    BY <2>1, <2>2 DEF WriteInv
  <2>5. x # original[i].value
    BY <1>2, <2>1, <2>2, <2>3 DEF ReservedFacts, GraphInv
  <2> QED BY <1>2, <2>2, <2>3, <2>4, <2>5 DEF ReservedFacts
<1>5. CASE \E c \in 1..original[i].width : assign[i] = <<"class", c>>
  <2>1. PICK c \in 1..original[i].width : assign[i] = <<"class", c>>
    BY <1>5
  <2>2. x \in FungibleTokens(c)
    BY <2>1 DEF TokenChoices
  <2>3. x \in TokensOf(c) /\ x \notin Occupied /\ \A t \in DOMAIN reserved : x # TokenValue(t)
    BY <2>2 DEF FungibleTokens
  <2>4. x[1] = c /\ IsSafeToken(x)
    BY <2>3, TokensAreSafe
  <2>5. CASE x = original[i].value
    <3>1. original[i].own # None
      BY <1>2, <2>3, <2>4, <2>5 DEF GraphInv
    <3>2. PICK t \in DOMAIN reserved : reserved[t] = i
      BY <1>2, <3>1 DEF GraphInv
    <3>3. TokenValue(t) = original[i].value
      BY <1>1, <3>2 DEF ReservedFacts
    <3> QED BY <2>3, <2>5, <3>3
  <2> QED BY <2>1, <2>3, <2>4, <2>5
<1> QED BY <1>3, <1>4, <1>5 DEF Edge

\* While rows are written, the texts left are the nodes that have none.
LEMMA LeftIsPending ==
  ASSUME TypeOK, ScanInv, GraphInv, SpoolInv, run \in Writing
  PROVE  Left = {original[i].value : i \in Pending}
<1>1. \A i \in Positions : original[i].value \in Texts
  BY GraphFacts DEF NodeFacts
<1>2. ASSUME NEW v \in Left PROVE \E i \in Pending : original[i].value = v
  <2>1. toScan = {}
    BY DEF ScanInv, Writing, Active
  <2>2. v \in DOMAIN spool /\ v \notin DOMAIN mapping
    BY <2>1 DEF Left, Texts, ScanInv, Writing, Active
  <2> QED BY <2>2 DEF SpoolInv, Pending
<1>3. ASSUME NEW i \in Pending PROVE original[i].value \in Left
  BY <1>1 DEF Pending, Left
<1> QED BY <1>2, <1>3

\* As long as rows are written the rest of the problem has a solution: every
\* class still has a token for each of its holders.
LEMMA WritingIsFeasible ==
  TypeOK /\ ScanInv /\ GraphInv /\ SpoolInv /\ WriteInv /\ run \in Writing => Completions # {}
<1> SUFFICES ASSUME TypeOK, ScanInv, GraphInv, SpoolInv, WriteInv, run \in Writing
             PROVE  Completions # {}
  OBVIOUS
<1>1. /\ \A j \in Positions : NodeFacts(j)
      /\ \A t \in DOMAIN reserved : ReservedFacts(t)
      /\ \A t, u \in DOMAIN reserved : TokenValue(t) = TokenValue(u) => t = u
  BY GraphFacts
<1>2. Left = {original[i].value : i \in Pending}
  BY LeftIsPending
<1>3. /\ DOMAIN assign = Positions /\ Pending \subseteq Positions
      /\ \A i \in Positions : Edge(original, reserved, i, assign[i])
      /\ Single(assign)
  BY DEF WriteInv, Fits, Pending
<1> DEFINE H(c) == Holders(assign, c) \cap Pending
           inj == [c \in Lengths |-> CHOOSE g : g \in Injection(H(c), FungibleTokens(c))]
<1>4. ASSUME NEW c \in Lengths
      PROVE  /\ \A i \in H(c) : inj[c][i] \in FungibleTokens(c)
             /\ \A i, j \in H(c) : inj[c][i] = inj[c][j] => i = j
  <2>1. IsFiniteSet(H(c))
    <3>1. Len(original) \in Nat
      BY DEF GraphInv
    <3>2. IsFiniteSet(Positions)
      BY <3>1, FS_Interval DEF Positions
    <3> QED BY <1>3, <3>2, FS_Subset
  <2>2. IsFiniteSet(FungibleTokens(c))
    BY TokensAreFinite
  <2>3. Cardinality(H(c)) <= Cardinality(FungibleTokens(c))
    BY DEF WriteInv
  <2> HIDE DEF H
  <2>4. \E g : g \in Injection(H(c), FungibleTokens(c))
    BY <2>1, <2>2, <2>3, SmallerInjects
  <2>5. inj[c] \in Injection(H(c), FungibleTokens(c))
    BY <2>4
  <2> HIDE DEF inj
  <2> QED BY <2>5 DEF Injection, IsInjective
<1> HIDE DEF inj
<1> DEFINE R(i, x) ==
             \/ \E t \in DOMAIN reserved : assign[i] = <<"token", t>> /\ x = TokenValue(t)
             \/ \E c \in Lengths : assign[i] = <<"class", c>> /\ x = inj[c][i]
<1>5. ASSUME NEW i \in Pending PROVE \E x : R(i, x)
  <2>1. i \in Positions /\ 1..original[i].width \subseteq Lengths
    BY <1>1, <1>3 DEF NodeFacts
  <2> QED BY <1>3, <2>1 DEF Edge
<1>6. ASSUME NEW i \in Pending, NEW x, R(i, x) PROVE x \in TokenChoices(i)
  <2>1. CASE \E t \in DOMAIN reserved : assign[i] = <<"token", t>> /\ x = TokenValue(t)
    BY <2>1 DEF TokenChoices
  <2>2. CASE \E c \in Lengths : assign[i] = <<"class", c>> /\ x = inj[c][i]
    <3>1. PICK c \in Lengths : assign[i] = <<"class", c>> /\ x = inj[c][i]
      BY <2>2
    <3>2. i \in H(c)
      BY <1>3, <3>1 DEF Holders
    <3>3. x \in FungibleTokens(c)
      BY <1>4, <3>1, <3>2
    <3> QED BY <3>1, <3>3 DEF TokenChoices
  <2> QED BY <1>6, <2>1, <2>2
<1>7. ASSUME NEW i \in Pending, NEW j \in Pending, NEW x, R(i, x), R(j, x) PROVE i = j
  <2>0. i \in DOMAIN assign /\ j \in DOMAIN assign
    BY <1>3
  <2>1. ASSUME NEW k \in Pending, NEW c \in Lengths, assign[k] = <<"class", c>>, x = inj[c][k]
        PROVE  k \in H(c) /\ x \in TokensOf(c) /\ \A t \in DOMAIN reserved : x # TokenValue(t)
    <3>1. k \in H(c)
      BY <1>3, <2>1 DEF Holders
    <3>2. x \in FungibleTokens(c)
      BY <1>4, <2>1, <3>1
    <3> QED BY <3>1, <3>2 DEF FungibleTokens
  <2>2. CASE \E t, u \in DOMAIN reserved : /\ assign[i] = <<"token", t>> /\ x = TokenValue(t)
                                           /\ assign[j] = <<"token", u>> /\ x = TokenValue(u)
    <3>1. PICK t \in DOMAIN reserved, u \in DOMAIN reserved :
                 /\ assign[i] = <<"token", t>> /\ x = TokenValue(t)
                 /\ assign[j] = <<"token", u>> /\ x = TokenValue(u)
      BY <2>2
    <3>2. t = u
      BY <1>1, <3>1
    <3>3. assign[i] = assign[j] /\ assign[i][1] = "token"
      BY <3>1, <3>2
    <3> QED BY <1>3, <2>0, <3>3 DEF Single
  <2>3. CASE \E c, d \in Lengths : /\ assign[i] = <<"class", c>> /\ x = inj[c][i]
                                   /\ assign[j] = <<"class", d>> /\ x = inj[d][j]
    <3>1. PICK c \in Lengths, d \in Lengths : /\ assign[i] = <<"class", c>> /\ x = inj[c][i]
                                              /\ assign[j] = <<"class", d>> /\ x = inj[d][j]
      BY <2>3
    <3>2. i \in H(c) /\ j \in H(d) /\ x \in TokensOf(c) /\ x \in TokensOf(d)
      BY <2>1, <3>1
    <3>3. c = d
      BY <3>2, TokensAreSafe
    <3> QED BY <1>4, <3>1, <3>2, <3>3
  <2> QED BY <1>7, <2>1, <2>2, <2>3
<1> HIDE DEF R, H
<1> DEFINE Chosen(v) == CHOOSE x : \E i \in Pending : original[i].value = v /\ R(i, x)
           f == [v \in Left |-> Chosen(v)]
<1>8. ASSUME NEW v \in Left PROVE \E i \in Pending : original[i].value = v /\ R(i, f[v])
  <2>1. PICK i \in Pending : original[i].value = v
    BY <1>2
  <2>2. \E x : R(i, x)
    BY <1>5
  <2>3. \E x : \E j \in Pending : original[j].value = v /\ R(j, x)
    BY <2>1, <2>2
  <2> QED BY <2>3
<1> HIDE DEF Chosen
<1>9. DOMAIN f = Left /\ f = [v \in Left |-> f[v]]
  OBVIOUS
<1> HIDE DEF f
<1>10. ASSUME NEW v \in Left PROVE f[v] \in FreeTokens /\ f[v] # v /\ f[v][1] <= Strictest(v)
  <2>1. PICK i \in Pending : original[i].value = v /\ R(i, f[v])
    BY <1>8
  <2>2. f[v] \in TokenChoices(i)
    BY <1>6, <2>1
  <2>3. /\ f[v] \in TokensOf(f[v][1]) /\ f[v][1] \in 1..original[i].width
        /\ f[v] \notin Occupied /\ f[v] # original[i].value
    BY <2>2, NodeChoices
  <2>4. i \in Positions /\ original[i].width = Strictest(v) /\ original[i].width \in Nat
    BY <1>1, <1>3, <2>1 DEF NodeFacts
  <2>5. PICK o \in source : o.value = v /\ o.width = original[i].width
    BY <2>1, <2>4 DEF GraphInv
  <2> DEFINE m == Max({0} \cup {p.width : p \in source})
  <2>6. m \in Nat /\ o.width <= m
    BY WidestSource DEF TypeOK
  <2>7. FreeTokens = (UNION {TokensOf(c) : c \in 1..m}) \ Occupied
    BY DEF FreeTokens
  <2> HIDE DEF m
  <2>8. f[v][1] \in 1..m /\ f[v][1] <= Strictest(v)
    BY <2>3, <2>4, <2>5, <2>6
  <2>9. f[v] \in FreeTokens
    BY <2>3, <2>7, <2>8
  <2> QED BY <2>1, <2>3, <2>8, <2>9
<1>11. ASSUME NEW v \in Left, NEW w \in Left, f[v] = f[w] PROVE v = w
  <2>1. PICK i \in Pending : original[i].value = v /\ R(i, f[v])
    BY <1>8
  <2>2. PICK j \in Pending : original[j].value = w /\ R(j, f[w])
    BY <1>8
  <2>3. i = j
    BY <1>7, <1>11, <2>1, <2>2
  <2> QED BY <2>1, <2>2, <2>3
<1>12. f \in [Left -> FreeTokens]
  BY <1>9, <1>10
<1>13. f \in Completions
  BY <1>10, <1>11, <1>12 DEF Completions
<1> QED BY <1>13

\* A step of the writing that leaves the rows as they are.
LEMMA WritingFrame ==
  ASSUME Inv, run \in Solving \cup Writing, run' \in Writing,
         UNCHANGED <<mapping, source, hasDomain, runs, original, reserved>>
  PROVE  /\ RowsInv' /\ GraphInv' /\ MatchInv' /\ PathInv' /\ ExploreInv' /\ DoneIsComplete' /\ NeverCorrupt'
         /\ Positions' = Positions /\ Occupied' = Occupied /\ Pending' = Pending /\ Texts' = Texts
         /\ \A t : TokenValue(t)' = TokenValue(t)
         /\ \A c : FungibleTokens(c)' = FungibleTokens(c)
<1>1. Texts' = Texts /\ Occupied' = Occupied
  BY SameProblem
<1>2. Positions' = Positions /\ \A t : TokenValue(t)' = TokenValue(t)
  BY DEF Positions, TokenValue
<1>3. \A c : FungibleTokens(c)' = FungibleTokens(c)
  BY <1>1 DEF FungibleTokens, TokenValue
<1>4. Pending' = Pending
  BY <1>2 DEF Pending
<1>5. RowsInv' /\ DoneIsComplete' /\ NeverCorrupt'
  BY DEF Inv, RowsInv, DoneIsComplete, NeverCorrupt, Corruptions, Writing
<1>6. GraphInv'
  BY <1>1, <1>2 DEF Inv, GraphInv
<1>7. MatchInv' /\ PathInv' /\ ExploreInv'
  BY DEF MatchInv, PathInv, ExploreInv, Solving, Writing
<1> QED BY <1>1, <1>2, <1>3, <1>4, <1>5, <1>6, <1>7

\* When every node has its resource, the validator agrees.
LEMMA SolvedIsValid ==
  ASSUME Inv, run = "solve", next \notin Positions
  PROVE  AssignmentIsValid /\ DOMAIN assign = Positions
<1>1. run \in Solving /\ TypeOK /\ GraphInv
  BY DEF Inv, Solving
<1>2. /\ next \in 1..(Len(original) + 1) /\ DOMAIN assign = 1..(next - 1) /\ Len(original) \in Nat
      /\ Fits(original, reserved, assign) /\ Single(assign)
      /\ \A t \in DOMAIN reserved : TokenValue(t) \notin Occupied
      /\ DOMAIN cap \subseteq Lengths
      /\ \A c \in DOMAIN cap :
           cap[c] \in Nat /\ cap[c] + Cardinality(Holders(assign, c)) = Cardinality(FungibleTokens(c))
  BY <1>1 DEF Inv, MatchInv, GraphInv
<1>3. DOMAIN assign = Positions
  <2>1. next = Len(original) + 1
    BY <1>2 DEF Positions
  <2> QED BY <1>2, <2>1 DEF Positions
<1>4. /\ \A j \in Positions : NodeFacts(j)
      /\ \A t \in DOMAIN reserved : ReservedFacts(t)
  BY <1>1, GraphFacts
<1>5. ASSUME NEW i \in Positions
      PROVE  /\ LengthOf(assign[i]) <= original[i].width
             /\ assign[i][1] = "token" => reserved[assign[i][2]] # i /\ Occupants(assign[i][2]) = {i}
  <2>1. Edge(original, reserved, i, assign[i])
    BY <1>2, <1>3 DEF Fits
  <2>2. CASE \E c \in 1..original[i].width : assign[i] = <<"class", c>>
    BY <1>4, <2>2 DEF LengthOf, NodeFacts
  <2>3. CASE \E t \in DOMAIN reserved :
               assign[i] = <<"token", t>> /\ original[reserved[t]].own[1] <= original[i].width /\ reserved[t] # i
    <3>1. PICK t \in DOMAIN reserved :
               assign[i] = <<"token", t>> /\ original[reserved[t]].own[1] <= original[i].width /\ reserved[t] # i
      BY <2>3
    <3>2. Occupants(t) = {i}
      BY <1>2, <1>3, <3>1 DEF Occupants, Single
    <3> QED BY <3>1, <3>2 DEF LengthOf, TokenValue
  <2> QED BY <2>1, <2>2, <2>3 DEF Edge
<1> DEFINE own == {TokenValue(t) : t \in DOMAIN reserved}
<1>6. ASSUME NEW c \in DOMAIN cap
      PROVE  /\ cap[c] >= 0
             /\ cap[c] + Cardinality({i \in Positions : assign[i] = <<"class", c>>}) = Fungible(c, own)
  <2>1. TokenSets(Occupied, own)
    <3>1. \A x \in Occupied : x \in TokensOf(x[1])
      BY <1>1 DEF TypeOK, Occupied
    <3>2. \A x \in own : x \in TokensOf(x[1]) /\ x \notin Occupied
      BY <1>2, <1>4 DEF ReservedFacts
    <3> HIDE DEF own
    <3> QED BY <3>1, <3>2 DEF TokenSets
  <2>2. FungibleTokens(c) = FreeIn(Occupied, own, c)
    BY DEF FungibleTokens, FreeIn
  <2>3. Fungible(c, own) = CountIn(Occupied, own, c)
    BY DEF Fungible, CountIn
  <2> HIDE DEF own
  <2>4. Cardinality(FungibleTokens(c)) = Fungible(c, own)
    BY <1>2, <2>1, <2>2, <2>3, FreeCount
  <2>5. {i \in Positions : assign[i] = <<"class", c>>} = Holders(assign, c)
    BY <1>3 DEF Holders
  <2>6. cap[c] \in Nat /\ cap[c] + Cardinality(Holders(assign, c)) = Fungible(c, own)
    BY <1>2, <2>4
  <2>7. cap[c] >= 0
    BY <2>6
  <2> QED BY <2>5, <2>6, <2>7
<1> QED BY <1>3, <1>5, <1>6 DEF AssignmentIsValid

\* The solved matching is accepted, and can be written.
LEMMA ValidateKeeps == ASSUME Inv, Validate PROVE Inv'
<1>1. run = "solve" /\ next \notin Positions /\ run \in Solving
  BY DEF Validate, Solving
<1>2. AssignmentIsValid /\ DOMAIN assign = Positions
  BY <1>1, SolvedIsValid
<1>3. /\ run' = "materialize" /\ next' = 1 /\ visited' = {} /\ solved' = TRUE
      /\ UNCHANGED <<toScan, spool, unchecked, original, reserved, cap, assign, mapping, hasDomain, source, runs>>
  BY <1>2 DEF Validate, Vault
<1>4. run' \in Writing
  BY <1>3 DEF Writing
<1>5. /\ RowsInv' /\ GraphInv' /\ MatchInv' /\ PathInv' /\ ExploreInv' /\ DoneIsComplete' /\ NeverCorrupt'
      /\ Positions' = Positions /\ Occupied' = Occupied /\ Pending' = Pending /\ Texts' = Texts
      /\ \A t : TokenValue(t)' = TokenValue(t)
      /\ \A c : FungibleTokens(c)' = FungibleTokens(c)
  BY <1>1, <1>3, <1>4, WritingFrame
<1>6. TypeOK'
  BY <1>3, <1>5 DEF Inv, TypeOK, Active
<1>7. ScanInv'
  BY <1>1, <1>3 DEF Inv, ScanInv, Solving, Writing, Active
<1>8. SpoolInv'
  <2>1. DOMAIN spool = {original[i].value : i \in Positions}
    BY <1>1 DEF Inv, SpoolInv
  <2>2. {j \in Positions : j >= 1} = Positions
    BY DEF Positions
  <2> QED BY <1>3, <1>5, <2>1, <2>2 DEF SpoolInv, Solving
<1>9. WriteInv'
  <2>1. next' \in 1..(Len(original') + 1)
    <3>1. Len(original) \in Nat
      BY <1>1 DEF Inv, GraphInv
    <3> QED BY <1>3, <3>1
  <2>2. /\ Fits(original, reserved, assign) /\ Single(assign)
        /\ \A t \in DOMAIN reserved : TokenValue(t) \notin Occupied
        /\ \A i \in Positions : 1..original[i].width \subseteq DOMAIN cap
        /\ \A c \in DOMAIN cap :
           cap[c] \in Nat /\ cap[c] + Cardinality(Holders(assign, c)) = Cardinality(FungibleTokens(c))
    BY <1>1 DEF Inv, MatchInv
  <2>3. ASSUME NEW c \in Lengths
        PROVE  Cardinality(Holders(assign, c) \cap Pending) <= Cardinality(FungibleTokens(c))
    <3>1. IsFiniteSet(Holders(assign, c)) /\ IsFiniteSet(FungibleTokens(c))
      <4>1. Len(original) \in Nat
        BY <1>1 DEF Inv, GraphInv
      <4>2. IsFiniteSet(Positions)
        BY <4>1, FS_Interval DEF Positions
      <4> QED BY <1>2, <4>2, FS_Subset, TokensAreFinite DEF Holders
    <3>2. /\ Cardinality(Holders(assign, c)) \in Nat /\ Cardinality(FungibleTokens(c)) \in Nat
          /\ IsFiniteSet(Holders(assign, c) \cap Pending)
          /\ Cardinality(Holders(assign, c) \cap Pending) \in Nat
          /\ Cardinality(Holders(assign, c) \cap Pending) <= Cardinality(Holders(assign, c))
      BY <3>1, FS_CardinalityType, FS_Subset
    <3>3. CASE c \in DOMAIN cap
      BY <2>2, <3>2, <3>3
    <3>4. CASE c \notin DOMAIN cap
      <4>1. ASSUME NEW i \in Holders(assign, c) PROVE FALSE
        <5>1. i \in Positions /\ assign[i] = <<"class", c>> /\ Edge(original, reserved, i, assign[i])
          BY <1>2, <2>2 DEF Holders, Fits
        <5>2. c \in 1..original[i].width
          BY <5>1 DEF Edge
        <5> QED BY <2>2, <3>4, <5>1, <5>2
      <4>2. Holders(assign, c) \cap Pending = {}
        BY <4>1
      <4> QED BY <3>2, <4>2, FS_EmptySet
    <3> QED BY <3>3, <3>4
  <2>4. Pending \subseteq Positions
    BY DEF Pending
  <2> QED BY <1>2, <1>3, <1>5, <2>1, <2>2, <2>3, <2>4 DEF WriteInv
<1>10. VerdictInv'
  <2>1. (TypeOK /\ ScanInv /\ GraphInv /\ SpoolInv /\ WriteInv /\ run \in Writing => Completions # {})'
    BY WritingIsFeasible, PTL
  <2>2. Completions' # {}
    BY <1>4, <1>5, <1>6, <1>7, <1>8, <1>9, <2>1
  <2> QED BY <1>3, <2>2 DEF VerdictInv
<1> QED BY <1>5, <1>6, <1>7, <1>8, <1>9, <1>10 DEF Inv

\* While a row is written, the next node has none.
LEMMA NextIsPending ==
  ASSUME Inv, run \in {"materialize", "commit"}, next \in Positions
  PROVE  /\ next \in Pending
         /\ \A i \in Positions : i >= next => original[i].value \notin DOMAIN mapping
<1>1. DOMAIN spool \cap DOMAIN mapping = {}
  BY DEF Inv, ScanInv, Solving, Writing
<1>2. DOMAIN spool = {original[i].value : i \in {j \in Positions : j >= next}}
  BY DEF Inv, SpoolInv, Writing
<1>3. \A i \in Positions : i >= next => original[i].value \notin DOMAIN mapping
  BY <1>1, <1>2
<1>4. next >= next
  BY DEF Positions
<1> QED BY <1>3, <1>4 DEF Pending

\* There is always a token to choose for the next node.
LEMMA MaterializeKeeps == ASSUME Inv, Materialize PROVE Inv'
<1>1. /\ run = "materialize" /\ next \in Positions /\ run \in Writing
      /\ UNCHANGED <<mapping, hasDomain, source, solved, runs>>
  BY DEF Materialize, Writing, Vault, History
<1>2. next \in Pending
  BY <1>1, NextIsPending
<1>3. TokenChoices(next) # {}
  <2>1. DOMAIN assign = Positions /\ Edge(original, reserved, next, assign[next])
    BY <1>1 DEF Inv, WriteInv, Fits
  <2>2. CASE \E t \in DOMAIN reserved : assign[next] = <<"token", t>>
    BY <2>2 DEF TokenChoices
  <2>3. CASE \E c \in 1..original[next].width : assign[next] = <<"class", c>>
    <3>1. PICK c \in 1..original[next].width : assign[next] = <<"class", c>>
      BY <2>3
    <3>2. c \in Lengths
      BY <1>1, <3>1, GraphFacts DEF Inv, NodeFacts
    <3>3. /\ next \in Holders(assign, c) \cap Pending
          /\ Cardinality(Holders(assign, c) \cap Pending) <= Cardinality(FungibleTokens(c))
      BY <1>1, <1>2, <2>1, <3>1, <3>2 DEF Holders, Inv, WriteInv
    <3>4. IsFiniteSet(Holders(assign, c) \cap Pending)
      <4>1. Len(original) \in Nat
        BY <1>1 DEF Inv, GraphInv
      <4>2. IsFiniteSet(Positions)
        BY <4>1, FS_Interval DEF Positions
      <4> QED BY <4>2, FS_Subset DEF Pending
    <3>5. Cardinality(Holders(assign, c) \cap Pending) \in Nat /\ Cardinality(Holders(assign, c) \cap Pending) # 0
      BY <3>3, <3>4, FS_CardinalityType, FS_EmptySet
    <3>6. FungibleTokens(c) # {}
      BY <3>3, <3>5, FS_EmptySet
    <3> QED BY <3>1, <3>6 DEF TokenChoices
  <2> QED BY <2>1, <2>2, <2>3 DEF Edge
<1>4. /\ candidate' \in TokenChoices(next) /\ run' = "commit"
      /\ UNCHANGED <<toScan, spool, unchecked, original, reserved, cap, assign, visited, stack, next>>
  BY <1>3 DEF Materialize, graph
<1>5. run' \in Writing
  BY <1>4 DEF Writing
<1>6. /\ RowsInv' /\ GraphInv' /\ MatchInv' /\ PathInv' /\ ExploreInv' /\ DoneIsComplete' /\ NeverCorrupt'
      /\ Positions' = Positions /\ Occupied' = Occupied /\ Pending' = Pending /\ Texts' = Texts
      /\ \A t : TokenValue(t)' = TokenValue(t)
      /\ \A c : FungibleTokens(c)' = FungibleTokens(c)
  BY <1>1, <1>4, <1>5, WritingFrame
<1>7. TypeOK'
  BY <1>1, <1>4, <1>6 DEF Inv, TypeOK, Active
<1>8. ScanInv'
  BY <1>1, <1>4 DEF Inv, ScanInv, Solving, Writing, Active
<1>9. SpoolInv'
  BY <1>1, <1>4, <1>6 DEF Inv, SpoolInv, Solving, Writing
<1>10. TokenChoices(next)' = TokenChoices(next)
  BY <1>4, <1>6 DEF TokenChoices
<1>11. WriteInv'
  BY <1>1, <1>4, <1>6, <1>10 DEF Inv, WriteInv, Writing
<1>12. VerdictInv'
  <2>1. Completions' = Completions
    BY <1>1, SameProblem
  <2> QED BY <1>1, <1>4, <2>1 DEF Inv, VerdictInv
<1> QED BY <1>6, <1>7, <1>8, <1>9, <1>11, <1>12 DEF Inv

\* The transaction of a row is never refused, and takes one token and one node.
LEMMA CommitKeeps == ASSUME Inv, Commit PROVE Inv'
<1> DEFINE v == original[next].value
           x == candidate
<1>1. run = "commit" /\ run \in Writing /\ UNCHANGED <<hasDomain, source, solved, runs>>
  BY DEF Commit, Writing, History
<1>2. next \in Positions /\ x \in TokenChoices(next)
  BY <1>1 DEF Inv, WriteInv
<1>3. next \in Pending /\ v \notin DOMAIN mapping
  BY <1>1, <1>2, NextIsPending DEF Pending
<1>4. /\ x \in TokensOf(x[1]) /\ x[1] \in 1..original[next].width /\ x \notin Occupied /\ x # v
  BY <1>1, <1>2, <1>3, NodeChoices DEF Inv
<1>5. /\ mapping' = [w \in DOMAIN mapping \cup {v} |-> IF w = v THEN x ELSE mapping[w]]
      /\ run' = "drop"
      /\ UNCHANGED <<toScan, spool, unchecked, original, reserved, cap, assign, visited, stack, next, candidate>>
  BY <1>3, <1>4 DEF Commit, AddTextMapping, graph
<1>6. NodeFacts(next) /\ \A t \in DOMAIN reserved : ReservedFacts(t)
  BY <1>1, <1>2, GraphFacts DEF Inv
<1> HIDE DEF v, x
<1>7. /\ DOMAIN mapping' = DOMAIN mapping \cup {v} /\ mapping'[v] = x
      /\ \A w \in DOMAIN mapping : mapping'[w] = mapping[w] /\ w # v
  BY <1>3, <1>5
<1>8. Occupied' = Occupied \cup {x}
  BY <1>7 DEF Occupied
<1>9. /\ Positions' = Positions /\ Texts' = Texts /\ \A t : TokenValue(t)' = TokenValue(t)
  BY <1>1, <1>5 DEF Positions, Texts, TokenValue
<1>10. TypeOK'
  <2>1. v \in Texts
    BY <1>6 DEF NodeFacts, v
  <2>2. DOMAIN mapping' \subseteq Texts'
    BY <1>7, <1>9, <2>1 DEF Inv, TypeOK
  <2>3. \A w \in DOMAIN mapping' : mapping'[w] \in TokensOf(mapping'[w][1])
    BY <1>4, <1>7 DEF Inv, TypeOK
  <2> QED BY <1>1, <1>5, <1>9, <2>2, <2>3 DEF Inv, TypeOK, Active
<1>11. ScanInv'
  BY <1>1, <1>5, <1>7 DEF Inv, ScanInv, Solving, Writing, Active
<1>12. RowsInv'
  <2>1. x[1] \in Nat /\ x # v
    BY <1>4
  <2>2. ASSUME NEW o \in source, o.value = v PROVE x[1] <= o.width
    <3>1. original[next].width <= o.width /\ original[next].width \in Nat
      BY <1>1, <1>2, <1>6, <2>2 DEF Inv, GraphInv, NodeFacts, v
    <3>2. o.width \in Nat
      BY ValueFacts DEF Inv, TypeOK
    <3> QED BY <1>4, <3>1, <3>2
  <2>3. \A w \in DOMAIN mapping : mapping[w] # x
    BY <1>4 DEF Occupied
  <2>4. \A w \in DOMAIN mapping' :
          /\ mapping'[w][1] \in Nat /\ mapping'[w] # w
          /\ \A o \in source' : o.value = w => mapping'[w][1] <= o.width
    BY <1>1, <1>7, <2>1, <2>2 DEF Inv, RowsInv
  <2>5. \A w, u \in DOMAIN mapping' : mapping'[w] = mapping'[u] => w = u
    BY <1>7, <2>3 DEF Inv, RowsInv
  <2> QED BY <2>4, <2>5 DEF RowsInv
<1>13. GraphInv'
  <2>1. GraphInv /\ run \in Solving \cup Writing /\ run' \in Solving \cup Writing
    BY <1>1, <1>5 DEF Inv, Writing
  <2> QED BY <1>1, <1>5, <1>8, <1>9, <2>1 DEF GraphInv
<1>14. SpoolInv'
  <2>1. ASSUME NEW i \in Positions, i > next PROVE original[i].value \notin DOMAIN mapping'
    <3>1. i >= next /\ i # next
      BY <1>2, <2>1 DEF Positions
    <3>2. original[i].value \notin DOMAIN mapping
      BY <1>1, <1>2, <3>1, NextIsPending
    <3>3. original[i].value # v
      BY <1>1, <1>2, <3>1 DEF Inv, GraphInv, v
    <3> QED BY <1>7, <3>2, <3>3
  <2>2. DOMAIN spool = {original[i].value : i \in {j \in Positions : j >= next}}
    BY <1>1 DEF Inv, SpoolInv
  <2>3. original'[next'].value \in DOMAIN mapping'
    BY <1>5, <1>7 DEF v
  <2> QED BY <1>5, <1>9, <2>1, <2>2, <2>3 DEF SpoolInv, Solving
<1>15. WriteInv'
  <2>1. /\ next \in 1..(Len(original) + 1) /\ DOMAIN assign = Positions
        /\ Fits(original, reserved, assign) /\ Single(assign)
        /\ \A i \in Pending, t \in DOMAIN reserved : assign[i] = <<"token", t>> => TokenValue(t) \notin Occupied
        /\ \A c \in Lengths :
             Cardinality(Holders(assign, c) \cap Pending) <= Cardinality(FungibleTokens(c))
    BY <1>1 DEF Inv, WriteInv
  <2>2. Pending' = Pending \ {next}
    <3>1. \A i \in Positions : original[i].value = v => i = next
      BY <1>1, <1>2 DEF Inv, GraphInv, v
    <3> QED BY <1>5, <1>7, <1>9, <3>1 DEF Pending, v
  <2>3. Edge(original, reserved, next, assign[next])
    BY <1>2, <2>1 DEF Fits
  <2> DEFINE Kept == \A i \in Pending', t \in DOMAIN reserved : assign[i] = <<"token", t>> => TokenValue(t) # x
             Paid == \A c : x \in FungibleTokens(c) => next \in Holders(assign, c)
  <2>4. ASSUME \E u \in DOMAIN reserved : assign[next] = <<"token", u>> PROVE Kept /\ Paid
    <3>1. PICK u \in DOMAIN reserved : assign[next] = <<"token", u>>
      BY <2>4
    <3>2. x = TokenValue(u)
      BY <1>2, <3>1 DEF TokenChoices
    <3>3. \A c : x \notin FungibleTokens(c)
      BY <3>1, <3>2 DEF FungibleTokens
    <3>4. ASSUME NEW i \in Pending', NEW t \in DOMAIN reserved, assign[i] = <<"token", t>>
          PROVE  TokenValue(t) # x
      <4>1. CASE TokenValue(t) = x
        <5>1. t = u
          BY <1>1, <3>2, <4>1, GraphFacts DEF Inv
        <5>2. i \in DOMAIN assign /\ next \in DOMAIN assign /\ assign[i] = assign[next] /\ assign[i][1] = "token" /\ i # next
          BY <1>2, <2>1, <2>2, <3>1, <3>4, <5>1 DEF Pending
        <5> QED BY <2>1, <5>2 DEF Single
      <4> QED BY <4>1
    <3> QED BY <3>3, <3>4
  <2>5. ASSUME \E c \in 1..original[next].width : assign[next] = <<"class", c>> PROVE Kept /\ Paid
    <3>1. PICK c \in 1..original[next].width : assign[next] = <<"class", c>>
      BY <2>5
    <3>2. x \in FungibleTokens(c)
      BY <1>2, <3>1 DEF TokenChoices
    <3>3. \A t \in DOMAIN reserved : TokenValue(t) # x
      BY <3>2 DEF FungibleTokens
    <3>4. ASSUME NEW d, x \in FungibleTokens(d) PROVE d = c
      <4>1. x \in TokensOf(c) /\ x \in TokensOf(d)
        BY <3>2, <3>4 DEF FungibleTokens
      <4> QED BY <4>1, TokensAreSafe
    <3>5. next \in Holders(assign, c)
      BY <1>2, <2>1, <3>1 DEF Holders
    <3> QED BY <3>3, <3>4, <3>5
  <2>6. Kept /\ Paid
    BY <2>3, <2>4, <2>5 DEF Edge
  <2>7. \A c : FungibleTokens(c)' = FungibleTokens(c) \ {x}
    BY <1>5, <1>8, <1>9 DEF FungibleTokens, TokenValue
  <2> DEFINE H(c) == Holders(assign, c) \cap Pending
             F(c) == FungibleTokens(c)
  <2>8. ASSUME NEW c \in Lengths
        PROVE  Cardinality(H(c) \ {next}) <= Cardinality(F(c) \ {x})
    <3>1. IsFiniteSet(H(c)) /\ IsFiniteSet(F(c))
      <4>1. Len(original) \in Nat
        BY <1>1 DEF Inv, GraphInv
      <4>2. IsFiniteSet(Positions)
        BY <4>1, FS_Interval DEF Positions
      <4> QED BY <4>2, FS_Subset, TokensAreFinite DEF Pending
    <3>2. Cardinality(H(c)) <= Cardinality(F(c)) /\ (x \in F(c) => next \in H(c))
      BY <1>3, <2>1, <2>6
    <3> HIDE DEF H, F
    <3>3. Cardinality(H(c)) \in Nat /\ Cardinality(F(c)) \in Nat
      BY <3>1, FS_CardinalityType
    <3>4. Cardinality(H(c) \ {next}) = IF next \in H(c) THEN Cardinality(H(c)) - 1 ELSE Cardinality(H(c))
      BY <3>1, FS_RemoveElement
    <3>5. Cardinality(F(c) \ {x}) = IF x \in F(c) THEN Cardinality(F(c)) - 1 ELSE Cardinality(F(c))
      BY <3>1, FS_RemoveElement
    <3> QED BY <3>2, <3>3, <3>4, <3>5
  <2>9. \A c \in Lengths : Cardinality(Holders(assign', c) \cap Pending') <= Cardinality(FungibleTokens(c)')
    <3> SUFFICES ASSUME NEW c \in Lengths
                 PROVE  Cardinality(Holders(assign', c) \cap Pending') <= Cardinality(FungibleTokens(c)')
      OBVIOUS
    <3>1. Holders(assign', c) \cap Pending' = H(c) \ {next} /\ FungibleTokens(c)' = F(c) \ {x}
      BY <1>5, <2>2, <2>7
    <3> QED BY <2>8, <3>1
  <2>10. \A i \in Pending', t \in DOMAIN reserved' : assign'[i] = <<"token", t>> => TokenValue(t)' \notin Occupied'
    BY <1>5, <1>8, <1>9, <2>1, <2>2, <2>6
  <2> QED BY <1>2, <1>5, <1>9, <2>1, <2>9, <2>10 DEF WriteInv
<1>16. /\ DoneIsComplete' /\ NeverCorrupt' /\ MatchInv' /\ PathInv' /\ ExploreInv'
  BY <1>5 DEF DoneIsComplete, NeverCorrupt, Corruptions, MatchInv, PathInv, ExploreInv, Solving
<1>17. VerdictInv'
  <2>1. (TypeOK /\ ScanInv /\ GraphInv /\ SpoolInv /\ WriteInv /\ run \in Writing => Completions # {})'
    BY WritingIsFeasible, PTL
  <2>2. run' \in Writing
    BY <1>5 DEF Writing
  <2>3. Completions' # {}
    BY <1>10, <1>11, <1>13, <1>14, <1>15, <2>1, <2>2
  <2> QED BY <1>5, <2>3 DEF VerdictInv
<1> QED BY <1>10, <1>11, <1>12, <1>13, <1>14, <1>15, <1>16, <1>17 DEF Inv

\* A node whose row is committed leaves the spool.
LEMMA DropKeeps == ASSUME Inv, Drop PROVE Inv'
<1> DEFINE v == original[next].value
<1>1. /\ run = "drop" /\ run' = "materialize" /\ run \in Writing /\ run' \in Writing
      /\ spool' = Without(spool, v) /\ next' = next + 1
      /\ UNCHANGED <<mapping, hasDomain, source, solved, runs, toScan, unchecked, original, reserved,
                     cap, assign, visited, stack>>
  BY DEF Drop, Writing, Vault, History, graph
<1>2. /\ next \in Positions /\ v \in DOMAIN mapping
      /\ \A i \in Positions : i > next => original[i].value \notin DOMAIN mapping
      /\ DOMAIN spool = {original[i].value : i \in {j \in Positions : j >= next}}
  BY <1>1 DEF Inv, WriteInv, SpoolInv
<1>3. DOMAIN spool' = DOMAIN spool \ {v} /\ \A w \in DOMAIN spool' : spool'[w] = spool[w]
  BY <1>1 DEF Without
<1>4. /\ RowsInv' /\ GraphInv' /\ MatchInv' /\ PathInv' /\ ExploreInv' /\ DoneIsComplete' /\ NeverCorrupt'
      /\ Positions' = Positions /\ Occupied' = Occupied /\ Pending' = Pending /\ Texts' = Texts
      /\ \A t : TokenValue(t)' = TokenValue(t)
      /\ \A c : FungibleTokens(c)' = FungibleTokens(c)
  BY <1>1, WritingFrame
<1>5. Positions \subseteq Nat /\ Len(original) \in Nat
  BY <1>1 DEF Positions, Inv, GraphInv
<1>6. DOMAIN spool' = {original[i].value : i \in {j \in Positions : j >= next + 1}}
  <2>1. ASSUME NEW w \in DOMAIN spool' PROVE \E i \in {j \in Positions : j >= next + 1} : original[i].value = w
    <3>1. PICK i \in Positions : i >= next /\ original[i].value = w
      BY <1>2, <1>3
    <3>2. i # next
      BY <1>3, <3>1
    <3>3. i >= next + 1
      BY <1>2, <1>5, <3>1, <3>2
    <3> QED BY <3>1, <3>3
  <2>2. ASSUME NEW i \in Positions, i >= next + 1 PROVE original[i].value \in DOMAIN spool'
    <3>1. i >= next /\ i # next
      BY <1>2, <1>5, <2>2
    <3>2. original[i].value # v
      BY <1>1, <1>2, <3>1 DEF Inv, GraphInv
    <3> QED BY <1>2, <1>3, <3>1, <3>2
  <2> QED BY <2>1, <2>2
<1>7. DOMAIN spool' \cap DOMAIN mapping = {}
  <2>1. \A i \in Positions : i >= next + 1 => i > next
    BY <1>2, <1>5
  <2> QED BY <1>2, <1>6, <2>1
<1> HIDE DEF v
<1>8. TypeOK'
  <2>1. unchecked = {}
    BY <1>1 DEF Inv, ScanInv
  <2> QED BY <1>1, <1>3, <1>4, <2>1 DEF Inv, TypeOK, Active
<1>9. ScanInv'
  <2>1. ASSUME NEW o \in source \ toScan
        PROVE  /\ o.value \in DOMAIN spool' \cup DOMAIN mapping
               /\ o.value \in DOMAIN spool' => spool'[o.value] <= o.width
    <3>1. /\ o.value \in DOMAIN spool \cup DOMAIN mapping
          /\ o.value \in DOMAIN spool => spool[o.value] <= o.width
      BY <1>1 DEF Inv, ScanInv, Active
    <3> QED BY <1>2, <1>3, <3>1
  <2>2. \A w \in DOMAIN spool' : \E o \in source : o.value = w /\ spool'[w] = o.width
    BY <1>3 DEF Inv, ScanInv
  <2>3. toScan = {} /\ unchecked = {}
    BY <1>1 DEF Inv, ScanInv, Active
  <2> QED BY <1>1, <1>7, <2>1, <2>2, <2>3 DEF ScanInv
<1>10. SpoolInv'
  BY <1>1, <1>4, <1>6 DEF SpoolInv, Solving
<1>11. WriteInv'
  <2>1. next' \in 1..(Len(original') + 1)
    BY <1>1, <1>2, <1>5 DEF Positions
  <2>2. /\ DOMAIN assign = Positions /\ Fits(original, reserved, assign) /\ Single(assign)
        /\ \A i \in Pending, t \in DOMAIN reserved : assign[i] = <<"token", t>> => TokenValue(t) \notin Occupied
        /\ \A c \in Lengths :
             Cardinality(Holders(assign, c) \cap Pending) <= Cardinality(FungibleTokens(c))
    BY <1>1 DEF Inv, WriteInv
  <2> QED BY <1>1, <1>4, <2>1, <2>2 DEF WriteInv
<1>12. VerdictInv'
  <2>1. Completions' = Completions
    BY <1>1, SameProblem
  <2> QED BY <1>1, <2>1 DEF Inv, VerdictInv
<1> QED BY <1>4, <1>8, <1>9, <1>10, <1>11, <1>12 DEF Inv

\* When no node is left, every text of the source has its row.
LEMMA FinishKeeps == ASSUME Inv, Finish PROVE Inv'
<1>1. /\ run = "materialize" /\ next \notin Positions /\ End("done")
      /\ UNCHANGED <<mapping, source, solved, runs, hasDomain>>
  BY DEF Finish, Vault, History
<1>2. next \in 1..(Len(original) + 1) /\ Len(original) \in Nat
  BY <1>1 DEF Inv, WriteInv, GraphInv, Writing
<1>3. \A i \in Positions : ~(i >= next)
  BY <1>1, <1>2 DEF Positions
<1>4. DOMAIN spool = {}
  BY <1>1, <1>3 DEF Inv, SpoolInv, Writing
<1>5. Texts \subseteq DOMAIN mapping
  <2>1. toScan = {}
    BY <1>1 DEF Inv, ScanInv, Active
  <2> QED BY <1>1, <1>4, <2>1 DEF Inv, ScanInv, Active, Texts
<1> QED BY <1>1, <1>5, EndKeeps DEF Ended, Corruptions, Inv, TypeOK

\* A run that is stopped.
LEMMA StopKeeps == ASSUME Inv, ReadFails \/ TxnFails \/ Cancel \/ Crash PROVE Inv'
<1>1. UNCHANGED <<mapping, source, solved, runs, hasDomain>>
  BY DEF ReadFails, TxnFails, Cancel, Crash, Vault, History
<1>2. \E how \in {"READ_FAILED", "VAULT_FAILED", "CANCELLED", "crashed"} : End(how)
  BY DEF ReadFails, TxnFails, Cancel, Crash
<1>3. PICK how \in {"READ_FAILED", "VAULT_FAILED", "CANCELLED", "crashed"} : End(how)
  BY <1>2
<1>4. how \in Ended \ Corruptions /\ how # "done" /\ how # "RESIDUAL_INFEASIBLE"
  BY DEF Ended, Failures, Corruptions
<1> QED BY <1>1, <1>3, <1>4, EndKeeps DEF Inv, TypeOK

\* Nothing changes.
LEMMA StutterKeeps == ASSUME Inv, UNCHANGED vars PROVE Inv'
<1>1. UNCHANGED <<source, hasDomain, mapping, run, toScan, spool, unchecked, original, reserved,
          cap, assign, visited, stack, next, candidate, solved, runs>>
  BY DEF vars
<1>2. Texts' = Texts /\ Occupied' = Occupied /\ Completions' = Completions
  BY <1>1, SameProblem
<1>3. /\ Positions' = Positions /\ Pending' = Pending /\ \A t : TokenValue(t)' = TokenValue(t)
      /\ \A c : FungibleTokens(c)' = FungibleTokens(c) /\ \A i : TokenChoices(i)' = TokenChoices(i)
      /\ \A i, c, t : Explored(i, c, t)' = Explored(i, c, t)
  BY <1>1, <1>2 DEF Positions, Pending, TokenValue, FungibleTokens, TokenChoices, Explored
<1>4. TypeOK' /\ ScanInv' /\ RowsInv' /\ DoneIsComplete' /\ NeverCorrupt' /\ VerdictInv'
  BY <1>1, <1>2, <1>3 DEF Inv, TypeOK, ScanInv, RowsInv, DoneIsComplete, NeverCorrupt, VerdictInv
<1>5. GraphInv' /\ SpoolInv' /\ WriteInv'
  BY <1>1, <1>2, <1>3 DEF Inv, GraphInv, SpoolInv, WriteInv
<1>6. MatchInv' /\ PathInv'
  BY <1>1, <1>2, <1>3 DEF Inv, MatchInv, PathInv
<1>7. ExploreInv'
  BY <1>1, <1>3 DEF Inv, ExploreInv, Explored
<1> QED BY <1>4, <1>5, <1>6, <1>7 DEF Inv

-----------------------------------------------------------------------------
(* The theorems.                                                           *)

\* The inductive invariant holds in every state of every run.
THEOREM Invariance == Spec => []Inv
<1>1. ASSUME Inv, [Next]_vars PROVE Inv'
  <2>1. CASE Begin
    BY <1>1, <2>1, BeginKeeps
  <2>2. CASE RunStep
    <3>1. CASE \E o \in toScan : Observe(o)
      BY <1>1, <3>1, ObserveKeeps
    <3>2. CASE EndScan \/ EnsureDomain \/ Reuse \/ BuildGraph
      BY <1>1, <3>2, EndScanKeeps, EnsureDomainKeeps, ReuseKeeps, BuildGraphKeeps
    <3>3. CASE StartAugment \/ Search \/ Validate
      BY <1>1, <3>3, StartAugmentKeeps, SearchKeeps, ValidateKeeps
    <3>4. CASE Materialize \/ Commit \/ Drop \/ Finish
      BY <1>1, <3>4, MaterializeKeeps, CommitKeeps, DropKeeps, FinishKeeps
    <3> QED BY <2>2, <3>1, <3>2, <3>3, <3>4 DEF RunStep
  <2>3. CASE ReadFails \/ TxnFails \/ Cancel \/ Crash
    BY <1>1, <2>3, StopKeeps
  <2>4. CASE UNCHANGED vars
    BY <1>1, <2>4, StutterKeeps
  <2> QED BY <1>1, <2>1, <2>2, <2>3, <2>4 DEF Next
<1> QED BY <1>1, InvInit, PTL DEF Spec

\* The rows are a bijection without fixed points that fits the narrowest
\* field of every text, and a run that reports success has left no text out.
THEOREM RowsAreUsable == Spec => []MappingIsUsable
<1>1. ASSUME Inv PROVE MappingIsUsable
  <2>1. ASSUME NEW v \in DOMAIN mapping PROVE mapping[v] # v /\ mapping[v][1] <= Strictest(v)
    <3>1. source \subseteq Occurrences /\ v \in Texts
      BY <1>1 DEF Inv, TypeOK
    <3>2. PICK o \in source : o.value = v
      BY <3>1 DEF Texts
    <3>3. PICK p \in source : p.value = v /\ Strictest(v) = p.width
      BY <3>1, <3>2, StrictestFacts
    <3> QED BY <1>1, <3>3 DEF Inv, RowsInv
  <2> QED BY <1>1, <2>1 DEF MappingIsUsable, Inv, RowsInv
<1> QED BY <1>1, Invariance, PTL

\* The augmenting search keeps a matching, its verdict 'infeasible' is true,
\* and what it solves is always accepted and written.
THEOREM TheSearchIsExact == Spec => []SearchIsExact
<1>1. ASSUME Inv PROVE SearchIsExact
  <2>1. TypeOK /\ NeverCorrupt /\ InfeasibleIsTrue
    BY <1>1 DEF Inv, VerdictInv, InfeasibleIsTrue
  <2>2. ASSUME run \in Solving
        PROVE  /\ DOMAIN assign = 1..(next - 1)
               /\ \A i \in DOMAIN assign :
                    /\ LengthOf(assign[i]) <= original[i].width
                    /\ assign[i][1] = "token" => reserved[assign[i][2]] # i /\ Occupants(assign[i][2]) = {i}
               /\ \A length \in DOMAIN cap : cap[length] >= 0
    <3>1. /\ next \in 1..(Len(original) + 1) /\ DOMAIN assign = 1..(next - 1)
          /\ Fits(original, reserved, assign) /\ Single(assign)
          /\ \A c \in DOMAIN cap : cap[c] \in Nat
      BY <1>1, <2>2 DEF Inv, MatchInv
    <3>2. \A j \in Positions : NodeFacts(j)
      BY <1>1, <2>2, GraphFacts DEF Inv
    <3>3. ASSUME NEW i \in DOMAIN assign
          PROVE  /\ LengthOf(assign[i]) <= original[i].width
                 /\ assign[i][1] = "token" => reserved[assign[i][2]] # i /\ Occupants(assign[i][2]) = {i}
      <4>1. Edge(original, reserved, i, assign[i])
        BY <3>1 DEF Fits
      <4>2. original[i].width \in Nat
        <5>1. Len(original) \in Nat
          BY <1>1, <2>2 DEF Inv, GraphInv
        <5>2. i \in Positions
          BY <3>1, <5>1 DEF Positions
        <5> QED BY <3>2, <5>2 DEF NodeFacts
      <4>3. CASE \E c \in 1..original[i].width : assign[i] = <<"class", c>>
        BY <4>2, <4>3 DEF LengthOf
      <4>4. CASE \E t \in DOMAIN reserved :
                   assign[i] = <<"token", t>> /\ original[reserved[t]].own[1] <= original[i].width /\ reserved[t] # i
        <5>1. PICK t \in DOMAIN reserved :
                   assign[i] = <<"token", t>> /\ original[reserved[t]].own[1] <= original[i].width /\ reserved[t] # i
          BY <4>4
        <5>2. Occupants(t) = {i}
          BY <3>1, <5>1 DEF Occupants, Single
        <5> QED BY <5>1, <5>2 DEF LengthOf, TokenValue
      <4> QED BY <4>1, <4>3, <4>4 DEF Edge
    <3>4. \A c \in DOMAIN cap : cap[c] >= 0
      BY <3>1
    <3> QED BY <3>1, <3>3, <3>4
  <2>3. run = "search" =>
         /\ \A d, e \in DOMAIN stack : stack[d].orig = stack[e].orig => d = e
         /\ \A d \in DOMAIN stack : d > 1 => stack[d].vacate = assign[stack[d].orig]
    BY <1>1 DEF Inv, PathInv
  <2> QED BY <2>1, <2>2, <2>3 DEF SearchIsExact, MatchingIsKept, Solving
<1> QED BY <1>1, Invariance, PTL

\* Once a run has solved its problem, no later run over the same vault can
\* find the rest of it infeasible, wherever the first one was interrupted.
THEOREM RetryIsFeasible == Spec => []RetryStaysFeasible
<1>1. Inv => RetryStaysFeasible
  BY DEF Inv, VerdictInv, RetryStaysFeasible
<1> QED BY <1>1, Invariance, PTL
=============================================================================
