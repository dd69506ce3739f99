--------------------------- MODULE TextAllocation ---------------------------
(***************************************************************************)
(* The text part of pass 1 (engine/pass1.py, engine/text_residual.py).     *)
(* Every text of the source gets one token of the global text domain: not  *)
(* itself, not another text's token, and short enough for the narrowest    *)
(* field the text occurs in.  Texts that a vault row maps already keep     *)
(* their token.  For the others an exact matching is computed with         *)
(* augmenting paths, whose whole state lies in tables of the spool, and    *)
(* then turned into vault rows one transaction at a time.                  *)
(*                                                                         *)
(* A text is a pair <<length, k>>: a token, a word over the safe alphabet, *)
(* when k <= Base^length, and any other text of that length when k is      *)
(* larger.  As in NumericAllocation, a process that holds the writer lease *)
(* makes up to MaxRuns runs over one vault and one source.                 *)
(***************************************************************************)
EXTENDS Integers, FiniteSets, Sequences, FiniteSetsExt

CONSTANTS Base,          \* number of letters of the safe alphabet
          Occurrences,   \* records [value, width]: what a source may hold
          TextRank,      \* position of a text in the order of canonical bytes
          MaxRuns,       \* bound on the runs over one vault
          Faults,        \* which faults happen
          None

AllFaults == {"read", "txn", "cancel", "crash"}
TokensOf(length) == {<<length, k>> : k \in 1..(Base ^ length)}

Values == {o.value : o \in Occurrences}
Lengths == UNION {1..o.width : o \in Occurrences}

ASSUME TextAssumption ==
    /\ Base \in Nat \ {0}
    /\ \A o \in Occurrences : /\ o.value \in (Nat \ {0}) \X (Nat \ {0})
                              /\ o.width \in Nat
                              /\ o.value[1] <= o.width
    /\ IsFiniteSet(Occurrences)
    /\ None \notin Values
    /\ TextRank \in [Values -> Nat]
    /\ \A v, w \in Values : TextRank[v] = TextRank[w] => v = w
    /\ \A length \in Lengths : TokensOf(length) # {}
    /\ MaxRuns \in Nat
    /\ Faults \subseteq AllFaults

IsSafeToken(text) == text[2] <= Base ^ text[1]

VARIABLES source,     \* the occurrences of the dataset
          hasDomain,  \* the mapping_domains row of the text domain exists
          mapping,    \* text_mappings: original -> pseudonym
          run,        \* the state of the run in progress, or how the last one ended
          toScan,     \* occurrences the scan has not read yet
          spool,      \* text_observation: text -> strictest width
          unchecked,  \* texts whose reuse is still to be looked up
          original,   \* res_original: sequence of [value, width, own]
          reserved,   \* res_token: sequence of the positions of the owners
          cap,        \* res_cap: length -> fungible tokens left
          assign,     \* res_assign: position -> resource
          visited,    \* res_visited
          stack,      \* res_dfs
          next,       \* the position solved or materialized next
          candidate,  \* the token of the open transaction
          solved,     \* history: some run has solved its residual problem
          runs        \* number of runs begun

graph == <<original, reserved, cap, assign, visited, stack>>
Vault == <<hasDomain, mapping>>
History == <<source, solved, runs>>
vars == <<source, hasDomain, mapping, run, toScan, spool, unchecked, original, reserved,
          cap, assign, visited, stack, next, candidate, solved, runs>>

Texts == {o.value : o \in source}
Strictest(v) == Min({o.width : o \in {p \in source : p.value = v}})
Occupied == {mapping[v] : v \in DOMAIN mapping}
Positions == 1..Len(original)

\* Ended runs that a correct solver never produces.
Corruptions == {"RESIDUAL_CORRUPT", "BIJECTION_REJECTED", "NO_FREE_TOKEN"}
Failures == Corruptions \cup {"RESIDUAL_INFEASIBLE", "WIDTH_INFEASIBLE", "PERSISTED_INCOMPATIBLE",
              "READ_FAILED", "VAULT_FAILED", "CANCELLED"}
Ended == {"idle", "crashed", "done"} \cup Failures
Active == {"scan", "domain", "reuse", "solve", "search", "materialize",
           "commit", "drop"}

NoGraph ==
    /\ original' = <<>> /\ reserved' = <<>>
    /\ cap' = <<>> /\ assign' = <<>>
    /\ visited' = {} /\ stack' = <<>>

Init ==
    /\ source \in SUBSET Occurrences
    /\ hasDomain = FALSE
    /\ mapping = <<>>
    /\ run = "idle"
    /\ toScan = {} /\ spool = <<>> /\ unchecked = {}
    /\ original = <<>> /\ reserved = <<>>
    /\ cap = <<>> /\ assign = <<>>
    /\ visited = {} /\ stack = <<>>
    /\ next = 0 /\ candidate = None
    /\ solved = FALSE /\ runs = 0

\* A run that ends drops its spool, the residual tables with it.
End(how) ==
    /\ run' = how
    /\ toScan' = {} /\ spool' = <<>> /\ unchecked' = {}
    /\ NoGraph
    /\ next' = 0 /\ candidate' = None

----------------------------------------------------------------------------
(***************************************************************************)
(* The scan, and the reuse of persisted rows.                              *)
(***************************************************************************)
Begin ==
    /\ run \in Ended
    /\ runs < MaxRuns
    /\ runs' = runs + 1
    /\ run' = "scan"
    /\ toScan' = source
    /\ UNCHANGED <<source, solved, Vault, spool, unchecked, graph, next, candidate>>

\* Mutant: the width of the last occurrence replaces the others.
ObserveLast(o) ==
    /\ run = "scan"
    /\ o \in toScan
    /\ toScan' = toScan \ {o}
    /\ spool' = [v \in DOMAIN spool \cup {o.value} |-> IF v = o.value THEN o.width ELSE spool[v]]
    /\ UNCHANGED <<run, Vault, History, unchecked, graph, next, candidate>>

\* The strictest width of a text is the least one over its occurrences.
Observe(o) ==
    /\ run = "scan"
    /\ o \in toScan
    /\ toScan' = toScan \ {o}
    /\ spool' = [v \in DOMAIN spool \cup {o.value} |->
                   IF v # o.value THEN spool[v]
                   ELSE IF v \in DOMAIN spool THEN Min({spool[v], o.width}) ELSE o.width]
    /\ UNCHANGED <<run, Vault, History, unchecked, graph, next, candidate>>

\* Mutant: the last batch of observations is not flushed.
EndScanEarly ==
    /\ run = "scan"
    /\ run' = "domain"
    /\ toScan' = {}
    /\ UNCHANGED <<Vault, History, spool, unchecked, graph, next, candidate>>

EndScan ==
    /\ run = "scan" /\ toScan = {}
    /\ run' = "domain"
    /\ UNCHANGED <<Vault, History, toScan, spool, unchecked, graph, next, candidate>>

\* A source without text needs no text domain.
EnsureDomain ==
    /\ run = "domain"
    /\ IF spool = <<>>
       THEN End("done") /\ UNCHANGED hasDomain
       ELSE /\ hasDomain' = TRUE
            /\ run' = "reuse"
            /\ unchecked' = DOMAIN spool
            /\ UNCHANGED <<toScan, spool, graph, next, candidate>>
    /\ UNCHANGED <<mapping, History>>

Before(v, w) ==
    \/ spool[v] < spool[w]
    \/ spool[v] = spool[w] /\ TextRank[v] < TextRank[w]
FirstOf(S) == CHOOSE v \in S : \A w \in S \ {v} : Before(v, w)

Without(f, v) == [w \in DOMAIN f \ {v} |-> f[w]]

Reuse ==
    /\ run = "reuse" /\ unchecked # {}
    /\ LET v == FirstOf(unchecked) IN
       IF v \in DOMAIN mapping /\ mapping[v][1] > spool[v]
       THEN End("PERSISTED_INCOMPATIBLE")
       ELSE /\ unchecked' = unchecked \ {v}
            /\ spool' = IF v \in DOMAIN mapping THEN Without(spool, v) ELSE spool
            /\ UNCHANGED <<run, toScan, graph, next, candidate>>
    /\ UNCHANGED <<Vault, History>>

----------------------------------------------------------------------------
(***************************************************************************)
(* _build_residual_graph.  The own value of an original, when it is a free *)
(* token, is a reserved resource of its own; the other free tokens of a    *)
(* length are counted in cap.                                              *)
(***************************************************************************)
Sorted(S) ==
    [i \in 1..Cardinality(S) |-> CHOOSE v \in S : Cardinality({w \in S : Before(w, v)}) = i - 1]
Ascending(S) ==
    [i \in 1..Cardinality(S) |-> CHOOSE x \in S : Cardinality({y \in S : y < x}) = i - 1]

OwnToken(v) ==
    IF IsSafeToken(v) /\ v[1] <= spool[v] /\ v \notin Occupied THEN v ELSE None

\* Mutant: a text reserves its own value although a row occupies it.
FungibleAll(length, owned) ==
    Base ^ length - Cardinality({t \in Occupied : t[1] = length})
                  - Cardinality({v \in DOMAIN spool : IsSafeToken(v) /\ v[1] = length})

Fungible(length, owned) ==
    Base ^ length - Cardinality({t \in Occupied : t[1] = length})
                  - Cardinality({v \in owned : v[1] = length})

BuildGraph ==
    /\ run = "reuse" /\ unchecked = {}
    /\ IF \E v \in DOMAIN spool : spool[v] < 1
       THEN End("WIDTH_INFEASIBLE")
       ELSE LET rows == Sorted(DOMAIN spool)
                owned == {v \in DOMAIN spool : OwnToken(v) # None}
                widest == Max({0} \cup {spool[v] : v \in DOMAIN spool})
            IN  /\ original' = [i \in DOMAIN rows |->
                      [value |-> rows[i], width |-> spool[rows[i]], own |-> OwnToken(rows[i])]]
                /\ reserved' = Ascending({i \in DOMAIN rows : rows[i] \in owned})
                /\ cap' = [length \in 1..widest |-> Fungible(length, owned)]
                /\ assign' = <<>> /\ visited' = {} /\ stack' = <<>>
                /\ run' = "solve" /\ next' = 1
                /\ UNCHANGED <<toScan, spool, unchecked, candidate>>
    /\ UNCHANGED <<Vault, History>>

----------------------------------------------------------------------------
(***************************************************************************)
(* _augment: a depth-first search for an augmenting path from one original *)
(* that has no resource.  A frame holds an original on the path, the       *)
(* resource it gives up for the frame below it, and its place among the    *)
(* edges: the length class, the original last displaced from that class,   *)
(* and the reserved token last tried.                                      *)
(***************************************************************************)
Frame(i, vacate) == [orig |-> i, vacate |-> vacate, class |-> 1, token |-> 0, from |-> 0]
Top == stack[Len(stack)]
Width == original[Top.orig].width
TokenValue(t) == original[reserved[t]].own

StartAugment ==
    /\ run = "solve" /\ next \in Positions
    /\ run' = "search"
    /\ visited' = {next}
    /\ stack' = <<Frame(next, None)>>
    /\ UNCHANGED <<Vault, History, toScan, spool, unchecked, original, reserved, cap, assign,
                   next, candidate>>

\* The head takes the resource that was found, every other frame of the path
\* the one that the frame above it gives up.
Unwind(found) ==
    LET Path == {stack[d].orig : d \in DOMAIN stack}
        Depth(i) == CHOOSE d \in DOMAIN stack : stack[d].orig = i
        Taken(d) == IF d = Len(stack) THEN found ELSE stack[d + 1].vacate
    IN  /\ assign' = [i \in DOMAIN assign \cup Path |->
                        IF i \in Path THEN Taken(Depth(i)) ELSE assign[i]]
        /\ run' = "solve" /\ next' = next + 1
        /\ UNCHANGED <<visited, stack>>

\* The search goes on from the original that holds the resource.
Displace(i, vacate, head) ==
    /\ stack' = Append([stack EXCEPT ![Len(stack)] = head], Frame(i, vacate))
    /\ visited' = visited \cup {i}
    /\ UNCHANGED <<run, cap, assign, next>>

InClass == Top.class <= Width
ClassOccupants ==
    {i \in DOMAIN assign \ visited : assign[i] = <<"class", Top.class>> /\ i > Top.from}

ClassTake ==
    /\ InClass /\ cap[Top.class] > 0
    /\ cap' = [cap EXCEPT ![Top.class] = @ - 1]
    /\ Unwind(<<"class", Top.class>>)

\* Mutant: a full class is skipped, whoever holds its slots.
ClassDisplaceNever ==
    /\ InClass /\ cap[Top.class] <= 0 /\ ClassOccupants # {}
    /\ stack' = [stack EXCEPT ![Len(stack)] = [Top EXCEPT !.class = @ + 1, !.from = 0]]
    /\ UNCHANGED <<run, cap, assign, visited, next>>

ClassDisplace ==
    /\ InClass /\ cap[Top.class] <= 0 /\ ClassOccupants # {}
    /\ LET i == Min(ClassOccupants) IN
       Displace(i, <<"class", Top.class>>, [Top EXCEPT !.from = i])

ClassSkip ==
    /\ InClass /\ cap[Top.class] <= 0 /\ ClassOccupants = {}
    /\ stack' = [stack EXCEPT ![Len(stack)] = [Top EXCEPT !.class = @ + 1, !.from = 0]]
    /\ UNCHANGED <<run, cap, assign, visited, next>>

TokenEdges ==
    {t \in DOMAIN reserved : /\ TokenValue(t)[1] <= Width
                             /\ t > Top.token
                             /\ reserved[t] # Top.orig}
Occupants(t) == {i \in DOMAIN assign : assign[i] = <<"token", t>>}
FreeEdges == {t \in TokenEdges : Occupants(t) = {}}

DisplaceableEdges == {t \in TokenEdges : Occupants(t) \ visited # {}}

TokenTake ==
    /\ ~InClass /\ FreeEdges # {}
    /\ UNCHANGED cap
    /\ Unwind(<<"token", Min(FreeEdges)>>)

TokenDisplace ==
    /\ ~InClass /\ FreeEdges = {} /\ DisplaceableEdges # {}
    /\ LET t == Min(DisplaceableEdges) IN
       \E i \in Occupants(t) : Displace(i, <<"token", t>>, [Top EXCEPT !.token = t])

\* Mutant: a popped frame can be visited again, and its parent starts over.
PopForgets ==
    /\ ~InClass /\ FreeEdges = {} /\ DisplaceableEdges = {}
    /\ Len(stack) > 1
    /\ LET parent == stack[Len(stack) - 1] IN
       stack' = Append(SubSeq(stack, 1, Len(stack) - 2), Frame(parent.orig, parent.vacate))
    /\ visited' = visited \ {Top.orig}
    /\ UNCHANGED <<run, cap, assign, next>>

Pop ==
    /\ ~InClass /\ FreeEdges = {} /\ DisplaceableEdges = {}
    /\ Len(stack) > 1
    /\ stack' = SubSeq(stack, 1, Len(stack) - 1)
    /\ UNCHANGED <<run, cap, assign, visited, next>>

\* A frame that is no original is refused as corrupt; the last frame that is
\* exhausted proves that there is no assignment.
Exhausted == ~InClass /\ FreeEdges = {} /\ DisplaceableEdges = {} /\ Len(stack) = 1
Search ==
    /\ run = "search"
    /\ IF Top.orig \notin Positions THEN End("RESIDUAL_CORRUPT")
       ELSE IF Exhausted THEN End("RESIDUAL_INFEASIBLE")
       ELSE /\ \/ ClassTake \/ ClassDisplace \/ ClassSkip
               \/ TokenTake \/ TokenDisplace \/ Pop
            /\ UNCHANGED <<toScan, spool, unchecked, original, reserved, candidate>>
    /\ UNCHANGED <<Vault, History>>

----------------------------------------------------------------------------
(***************************************************************************)
(* _validate_residual_assignment: the solved matching is checked again     *)
(* before any row is written.                                              *)
(***************************************************************************)
LengthOf(resource) ==
    IF resource[1] = "class" THEN resource[2] ELSE TokenValue(resource[2])[1]

AssignmentIsValid ==
    /\ DOMAIN assign = Positions
    /\ \A i \in Positions :
         /\ LengthOf(assign[i]) <= original[i].width
         /\ assign[i][1] = "token" =>
              /\ reserved[assign[i][2]] # i
              /\ Occupants(assign[i][2]) = {i}
    /\ \A length \in DOMAIN cap :
         /\ cap[length] >= 0
         /\ cap[length] + Cardinality({i \in Positions : assign[i] = <<"class", length>>})
              = Fungible(length, {TokenValue(t) : t \in DOMAIN reserved})

Validate ==
    /\ run = "solve" /\ next \notin Positions
    /\ IF AssignmentIsValid
       THEN /\ run' = "materialize" /\ next' = 1
            /\ visited' = {} /\ stack' = <<>>
            /\ solved' = TRUE
            /\ UNCHANGED <<toScan, spool, unchecked, original, reserved, cap, assign, candidate>>
       ELSE End("RESIDUAL_CORRUPT") /\ UNCHANGED solved
    /\ UNCHANGED <<Vault, source, runs>>

(***************************************************************************)
(* materialize_text_assignment.  A class slot becomes any token of its     *)
(* length that is neither occupied nor reserved, drawn by probes or by the *)
(* exact walk.                                                             *)
(***************************************************************************)
FungibleTokens(length) ==
    (TokensOf(length) \ Occupied) \ {TokenValue(t) : t \in DOMAIN reserved}

TokenChoices(i) ==
    IF assign[i][1] = "token" THEN {TokenValue(assign[i][2])} ELSE FungibleTokens(assign[i][2])

Materialize ==
    /\ run = "materialize" /\ next \in Positions
    /\ IF TokenChoices(next) = {}
       THEN End("NO_FREE_TOKEN")
       ELSE /\ candidate' \in TokenChoices(next)
            /\ run' = "commit"
            /\ UNCHANGED <<toScan, spool, unchecked, graph, next>>
    /\ UNCHANGED <<Vault, History>>

\* The vault transaction of one row; both columns have a UNIQUE index.
AddTextMapping(v) ==
    IF v \in DOMAIN mapping \/ candidate \in Occupied
    THEN End("BIJECTION_REJECTED") /\ UNCHANGED mapping
    ELSE /\ mapping' = [w \in DOMAIN mapping \cup {v} |-> IF w = v THEN candidate ELSE mapping[w]]
         /\ run' = "drop"
         /\ UNCHANGED <<toScan, spool, unchecked, graph, next, candidate>>

Commit ==
    /\ run = "commit"
    /\ AddTextMapping(original[next].value)
    /\ UNCHANGED <<hasDomain, History>>

Drop ==
    /\ run = "drop"
    /\ run' = "materialize"
    /\ spool' = Without(spool, original[next].value)
    /\ next' = next + 1
    /\ candidate' = None
    /\ UNCHANGED <<Vault, History, toScan, unchecked, graph>>

Finish ==
    /\ run = "materialize" /\ next \notin Positions
    /\ End("done")
    /\ UNCHANGED <<Vault, History>>

----------------------------------------------------------------------------
ReadFails ==
    /\ "read" \in Faults
    /\ run = "scan" /\ toScan # {}
    /\ End("READ_FAILED")
    /\ UNCHANGED <<Vault, History>>

TxnFails ==
    /\ "txn" \in Faults
    /\ run = "commit" \/ (run = "domain" /\ ~hasDomain /\ spool # <<>>)
    /\ End("VAULT_FAILED")
    /\ UNCHANGED <<Vault, History>>

\* The safe points: every occurrence, every lookup, every search, every row.
Cancel ==
    /\ "cancel" \in Faults
    /\ \/ run = "scan"
       \/ run = "reuse" /\ unchecked # {}
       \/ run = "solve" /\ next \in Positions
       \/ run = "commit"
    /\ End("CANCELLED")
    /\ UNCHANGED <<Vault, History>>

Crash ==
    /\ "crash" \in Faults
    /\ run \in Active
    /\ End("crashed")
    /\ UNCHANGED <<Vault, History>>

RunStep ==
    \/ \E o \in toScan : Observe(o)
    \/ EndScan \/ EnsureDomain \/ Reuse \/ BuildGraph
    \/ StartAugment \/ Search \/ Validate
    \/ Materialize \/ Commit \/ Drop \/ Finish

Next == Begin \/ RunStep \/ ReadFails \/ TxnFails \/ Cancel \/ Crash

Spec == Init /\ [][Next]_vars

\* A process that runs goes on running; nobody has to ask again.
FairSpec == Spec /\ WF_vars(RunStep)

----------------------------------------------------------------------------
TypeOK ==
    /\ source \subseteq Occurrences
    /\ hasDomain \in BOOLEAN /\ solved \in BOOLEAN
    /\ DOMAIN mapping \subseteq Texts
    /\ \A v \in DOMAIN mapping : mapping[v] \in TokensOf(mapping[v][1])
    /\ run \in Active \cup Ended
    /\ toScan \subseteq source
    /\ DOMAIN spool \subseteq Texts
    /\ unchecked \subseteq DOMAIN spool
    /\ visited \subseteq Positions
    /\ runs \in 0..MaxRuns

\* A run that reports success leaves no text of the source without a row.
DoneIsComplete == run = "done" => Texts \subseteq DOMAIN mapping

\* The rows are a bijection; no text is its own pseudonym, and every
\* pseudonym fits the narrowest field its text occurs in, in every run.
MappingIsUsable ==
    /\ DoneIsComplete
    /\ \A v, w \in DOMAIN mapping : mapping[v] = mapping[w] => v = w
    /\ \A v \in DOMAIN mapping : mapping[v] # v /\ mapping[v][1] <= Strictest(v)

\* The search says that a residual problem is infeasible only if no injective
\* assignment of free, fitting tokens without a fixed point exists at all.
Left == Texts \ DOMAIN mapping
FreeTokens ==
    (UNION {TokensOf(length) : length \in 1..Max({0} \cup {o.width : o \in source})}) \ Occupied
Completions ==
    {f \in [Left -> FreeTokens] :
        /\ \A v \in Left : f[v] # v /\ f[v][1] <= Strictest(v)
        /\ \A v, w \in Left : f[v] = f[w] => v = w}
InfeasibleIsTrue == run = "RESIDUAL_INFEASIBLE" => Completions = {}

\* The solved matching passes its validator, a class slot always finds a
\* token that is not reserved, and the UNIQUE indexes never refuse a row.
NeverCorrupt == run \notin Corruptions

\* The rows that an interrupted run leaves behind never make the rest of its
\* problem infeasible, although the tokens its own texts reserved are now
\* fungible and the matching is computed anew.
RetryStaysFeasible == solved => run # "RESIDUAL_INFEASIBLE"

\* Between two searches every original before the next one holds a resource
\* of its own; along a search every frame gives up what it holds, and each
\* original is on the path at most once.
MatchingIsKept ==
    /\ TypeOK
    /\ run \in {"solve", "search"} =>
         /\ DOMAIN assign = 1..(next - 1)
         /\ \A i \in DOMAIN assign :
              /\ LengthOf(assign[i]) <= original[i].width
              /\ assign[i][1] = "token" =>
                   reserved[assign[i][2]] # i /\ Occupants(assign[i][2]) = {i}
         /\ \A length \in DOMAIN cap : cap[length] >= 0
    /\ run = "search" =>
         /\ \A d, e \in DOMAIN stack : stack[d].orig = stack[e].orig => d = e
         /\ \A d \in DOMAIN stack : d > 1 => stack[d].vacate = assign[stack[d].orig]

\* The augmenting search is exact: what it keeps is a matching, its verdict
\* 'infeasible' is true, and what it solves can be validated and written
\* (text_residual.py 366-874).
SearchIsExact == MatchingIsKept /\ InfeasibleIsTrue /\ NeverCorrupt

\* The search through the displaced originals always comes to an end.
RunEnds == (run \in Active) ~> (run \in Ended)
=============================================================================
