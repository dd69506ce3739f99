------------------------- MODULE NumericAllocation -------------------------
(***************************************************************************)
(* The numeric part of pass 1 (engine/pass1.py): the scan collects the     *)
(* distinct key values of one numeric relation in the spool, and           *)
(* _finalize_numeric gives each of them a pseudonym, one committed vault   *)
(* row at a time.  The vault keeps its rows over crashes, failures and     *)
(* cancellations; the spool belongs to one run.  The vault is bound to the *)
(* fingerprint of the source, so every run reads the same source.          *)
(*                                                                         *)
(* One process writes: the run holds the writer lease of the vault (see    *)
(* Publication).  Any run may be followed by another one, up to MaxRuns.   *)
(***************************************************************************)
EXTENDS NumericKeys

CONSTANTS Occurrences,   \* records [member, value]: what a source may hold
          TextRank,      \* position of a value in the order of canonical texts
          MaxRuns,       \* bound on the runs over one vault
          Faults,        \* which faults happen
          None

AllFaults == {"read", "txn", "cancel", "crash"}
Values == {o.value : o \in Occurrences}

ASSUME AllocationAssumption ==
    /\ Occurrences \subseteq [member : Members, value : Int]
    /\ IsFiniteSet(Occurrences)
    /\ TextRank \in [Values -> Nat]
    /\ \A v, w \in Values : TextRank[v] = TextRank[w] => v = w
    /\ MaxRuns \in Nat
    /\ Faults \subseteq AllFaults
    /\ None \notin Int

VARIABLES source,      \* the occurrences of the dataset
          hasDomain,   \* the mapping_domains row of the relation exists
          mapping,     \* numeric_key_mappings: original -> pseudonym
          run,         \* the state of the run in progress, or how the last one ended
          toScan,      \* occurrences the scan has not read yet
          spool,       \* numeric_observation
          occupied, remaining,     \* the counters of _finalize_numeric
          current, candidate,
          before,      \* history: the rows when the run began
          runs         \* number of runs begun

vars == <<source, hasDomain, mapping, run, toScan, spool, occupied, remaining,
          current, candidate, before, runs>>

Originals == {o.value : o \in source}
Occupied == {mapping[v] : v \in DOMAIN mapping}

CapacityFailures == {"DOMAIN_EXHAUSTED", "NO_COMPLETION"}
Failures == CapacityFailures \cup {"OUT_OF_MEMBER_RANGE", "RECOVERY_UNWRITABLE",
              "BIJECTION_REJECTED", "READ_FAILED", "VAULT_FAILED", "CANCELLED"}
Ended == {"idle", "crashed", "done"} \cup Failures
Choosing == {"select", "commit", "drop"}
Allocating == {"next"} \cup Choosing
Active == {"scan", "domain", "count"} \cup Allocating

Init ==
    /\ source \in SUBSET Occurrences
    /\ hasDomain = FALSE
    /\ mapping = [v \in {} |-> None]
    /\ run = "idle"
    /\ toScan = {} /\ spool = {}
    /\ occupied = 0 /\ remaining = 0
    /\ current = None /\ candidate = None
    /\ before = {}
    /\ runs = 0

\* A run that ends drops its spool; only the vault survives it.
End(how) ==
    /\ run' = how
    /\ toScan' = {} /\ spool' = {}
    /\ occupied' = 0 /\ remaining' = 0
    /\ current' = None /\ candidate' = None

Counters == <<occupied, remaining>>
Vault == <<hasDomain, mapping>>
History == <<source, before, runs>>

----------------------------------------------------------------------------
(***************************************************************************)
(* The scan.                                                               *)
(***************************************************************************)
Begin ==
    /\ run \in Ended
    /\ runs < MaxRuns
    /\ runs' = runs + 1
    /\ run' = "scan"
    /\ toScan' = source
    /\ before' = DOMAIN mapping
    /\ UNCHANGED <<source, Vault, spool, Counters, current, candidate>>

Observe(o) ==
    /\ run = "scan"
    /\ o \in toScan
    /\ LET verdict == ClassifyMemberOriginal(o.member, o.value) IN
       IF verdict = "REVERSIBLE"
       THEN /\ spool' = spool \cup {o.value}
            /\ toScan' = toScan \ {o}
            /\ UNCHANGED <<run, Counters, current, candidate>>
       ELSE End(verdict)
    /\ UNCHANGED <<Vault, History>>

ReadFails ==
    /\ "read" \in Faults
    /\ run = "scan" /\ toScan # {}
    /\ End("READ_FAILED")
    /\ UNCHANGED <<Vault, History>>

\* Mutant: the finalization starts before the last batch is flushed.
EndScanEarly ==
    /\ run = "scan"
    /\ run' = "domain"
    /\ toScan' = {}
    /\ UNCHANGED <<Vault, History, spool, Counters, current, candidate>>

EndScan ==
    /\ run = "scan" /\ toScan = {}
    /\ run' = "domain"
    /\ UNCHANGED <<Vault, History, toScan, spool, Counters, current, candidate>>

----------------------------------------------------------------------------
(***************************************************************************)
(* _finalize_numeric.                                                      *)
(***************************************************************************)
EnsureDomain ==
    /\ run = "domain"
    /\ run' = "count"
    /\ hasDomain' = TRUE
    /\ UNCHANGED <<mapping, History, toScan, spool, Counters, current, candidate>>

\* Some original that is still in the spool is itself a free token.
SpoolValueFree == spool \cap Free(Occupied) # {}

NumericResidualFeasible(occupiedAfter, remainingAfter) ==
    LET free == Cardinality(Tokens) - occupiedAfter IN
    /\ free >= remainingAfter
    /\ free >= 1
    /\ remainingAfter > 0 /\ SpoolValueFree => free >= 2

\* remaining counts every observation, those that are mapped already too.
CheckCapacity ==
    /\ run = "count"
    /\ LET rows == Cardinality(DOMAIN mapping)
           observed == Cardinality(spool)
       IN  IF NumericResidualFeasible(rows, observed)
           THEN /\ run' = "next"
                /\ occupied' = rows /\ remaining' = observed
                /\ UNCHANGED <<toScan, spool, current, candidate>>
           ELSE End("DOMAIN_EXHAUSTED")
    /\ UNCHANGED <<Vault, History>>

TextFirst(S) == CHOOSE v \in S : \A w \in S : TextRank[v] <= TextRank[w]

NextOriginal ==
    /\ run = "next" /\ spool # {}
    /\ LET first == TextFirst(spool) IN
       IF first \in DOMAIN mapping
       THEN spool' = spool \ {first} /\ UNCHANGED <<run, current>>
       ELSE current' = first /\ run' = "select" /\ UNCHANGED spool
    /\ UNCHANGED <<Vault, History, toScan, Counters, candidate>>

Finish ==
    /\ run = "next" /\ spool = {}
    /\ End("done")
    /\ UNCHANGED <<Vault, History>>

(***************************************************************************)
(* _select_numeric_candidate.  Every probe draws an index of the free      *)
(* tokens; the walk takes the first accepted one of a bounded prefix.      *)
(***************************************************************************)
FreeCount == Cardinality(Tokens) - occupied
FreeToken(j) == JthFree(Occupied, j)

Accept(c) ==
    /\ c # current
    /\ c \notin spool
    /\ NumericResidualFeasible(occupied + 1, remaining - 1)

\* Mutant: the walk has no room for the values it must step over.
WalkTooShort == Min({FreeCount, remaining})

WalkLimit == Min({FreeCount, remaining + 2})
Walk == {j \in 0..(WalkLimit - 1) : Accept(FreeToken(j))}

Selected(c) ==
    /\ run' = "commit"
    /\ candidate' = c
    /\ UNCHANGED <<toScan, spool, Counters, current>>

SelectByProbe ==
    \E j \in 0..(FreeCount - 1) :
        Accept(FreeToken(j)) /\ Selected(FreeToken(j))

ProbesMiss == \E j \in 0..(FreeCount - 1) : ~Accept(FreeToken(j))

SelectByWalk ==
    /\ ProbesMiss
    /\ Walk # {}
    /\ Selected(FreeToken(Min(Walk)))

SelectFails ==
    \/ FreeCount < 1 /\ End("DOMAIN_EXHAUSTED")
    \/ ProbesMiss /\ Walk = {} /\ End("NO_COMPLETION")

Select ==
    /\ run = "select"
    /\ SelectByProbe \/ SelectByWalk \/ SelectFails
    /\ UNCHANGED <<Vault, History>>

(***************************************************************************)
(* The vault transaction of one row.  Both columns have a UNIQUE index.    *)
(***************************************************************************)
AddNumericKeyMapping ==
    IF current \in DOMAIN mapping \/ candidate \in Occupied
    THEN End("BIJECTION_REJECTED") /\ UNCHANGED mapping
    ELSE /\ mapping' = [v \in DOMAIN mapping \cup {current} |->
                          IF v = current THEN candidate ELSE mapping[v]]
         /\ run' = "drop"
         /\ UNCHANGED <<toScan, spool, Counters, current, candidate>>

Commit ==
    /\ run = "commit"
    /\ AddNumericKeyMapping
    /\ UNCHANGED <<hasDomain, History>>

Drop ==
    /\ run = "drop"
    /\ run' = "next"
    /\ spool' = spool \ {current}
    /\ occupied' = occupied + 1
    /\ remaining' = remaining - 1
    /\ current' = None /\ candidate' = None
    /\ UNCHANGED <<Vault, History, toScan>>

TxnFails ==
    /\ "txn" \in Faults
    /\ run = "commit" \/ (run = "domain" /\ ~hasDomain)
    /\ End("VAULT_FAILED")
    /\ UNCHANGED <<Vault, History>>

Cancel ==
    /\ "cancel" \in Faults
    /\ run = "scan" \/ (run = "next" /\ spool # {})
    /\ End("CANCELLED")
    /\ UNCHANGED <<Vault, History>>

Crash ==
    /\ "crash" \in Faults
    /\ run \in Active
    /\ End("crashed")
    /\ UNCHANGED <<Vault, History>>

RunStep ==
    \/ \E o \in toScan : Observe(o)
    \/ EndScan \/ EnsureDomain \/ CheckCapacity
    \/ NextOriginal \/ Finish \/ Select \/ Commit \/ Drop

Next == Begin \/ RunStep \/ ReadFails \/ TxnFails \/ Cancel \/ Crash

Spec == Init /\ [][Next]_vars

\* A running process goes on, and its user asks again after a failure.
FairSpec == Spec /\ WF_vars(RunStep) /\ WF_vars(Begin)

----------------------------------------------------------------------------
(***************************************************************************)
(* Properties.                                                             *)
(***************************************************************************)
\* The type of every variable.
TypeOK ==
    /\ source \subseteq Occurrences
    /\ hasDomain \in BOOLEAN
    /\ DOMAIN mapping \subseteq Originals
    /\ mapping = [v \in DOMAIN mapping |-> mapping[v]]
    /\ run \in Active \cup Ended
    /\ toScan \subseteq source
    /\ spool \subseteq Originals
    /\ current \in (IF run \in Choosing THEN spool ELSE {None})
    /\ before \subseteq Originals
    /\ runs \in 0..MaxRuns

\* The persisted rows are a bijection and no value is its own pseudonym,
\* through every crash, cancellation and retry of _finalize_numeric.
MappingIsBijective ==
    /\ \A v, w \in DOMAIN mapping : mapping[v] = mapping[w] => v = w
    /\ \A v \in DOMAIN mapping : mapping[v] # v

\* Every pseudonym is a token that every member of the relation can write:
\* the streaming gap walk has no bound check of its own, unlike
\* jth_free_token, and relies on the counter it is called with.
TokensAreWritable == \A v \in DOMAIN mapping : mapping[v] \in Tokens

\* Pass 2 looks every key of the source up: when the allocation says it is
\* done, no original of the source is without a row.
DoneIsComplete == run = "done" => Originals \subseteq DOMAIN mapping

\* _select_numeric_candidate refuses the own value of every original that is
\* still in the spool, and the stream is in text order in every run: so a
\* pseudonym that is itself an original of the source is one that comes
\* earlier in that order.  Hence no chain of pseudonyms closes: the engine
\* never swaps two values.
PointsBack ==
    \A v \in DOMAIN mapping : mapping[v] \in Originals => TextRank[mapping[v]] < TextRank[v]

\* Where the stream of originals stands: what the scan has read or has still
\* to read is all there is; behind the stream every original has its row, and
\* lies before what is ahead of it in the order of texts.
StreamIsMapped ==
    /\ run = "scan" => Originals = spool \cup {o.value : o \in toScan}
    /\ run \in {"domain", "count"} => spool = Originals
    /\ run \in Allocating => Originals \ spool \subseteq DOMAIN mapping
    /\ run = "drop" => current \in DOMAIN mapping
StreamIsOrdered ==
    /\ run \in Allocating =>
         \A v \in Originals \ spool, w \in spool : TextRank[v] < TextRank[w]
    /\ run \in Choosing => \A w \in spool : TextRank[current] <= TextRank[w]
    /\ run = "commit" => candidate \notin spool

\* Inductive: what the theorems of NumericAllocationProofs rest on.
Inv == TypeOK /\ MappingIsBijective /\ DoneIsComplete /\ PointsBack
         /\ StreamIsMapped /\ StreamIsOrdered

\* The kernel is exact on every input (so one evaluation per source is
\* enough): whatever tokens are taken, the gap walk enumerates the free ones,
\* each once and in ascending order, without looking at them;
\* plan_numeric_bijection says whether a completion exists, an injective
\* assignment of free tokens without a fixed point; and from a feasible state
\* the standalone service's bounded walk finds a token for whichever original
\* is asked for next that leaves a feasible state (its docstring: "every
\* allocation order can complete").  Every pseudonym in the vault is writable.
GapWalkIsExact(taken) ==
    LET n == Cardinality(Free(taken)) IN
    /\ {JthFree(taken, j) : j \in 0..(n - 1)} = Free(taken)
    /\ \A i, j \in 0..(n - 1) : i < j => JthFree(taken, i) < JthFree(taken, j)
Completions(left, taken) ==
    {f \in [left -> Free(taken)] :
        /\ \A v \in left : f[v] # v
        /\ \A v, w \in left : f[v] = f[w] => v = w}
KernelIsExact ==
    /\ TokensAreWritable
    /\ runs = 0 =>
        \A taken \in SUBSET Tokens :
            /\ GapWalkIsExact(taken)
            /\ \A left \in SUBSET Originals :
                 /\ PlanNumericBijection(left, taken) <=> Completions(left, taken) # {}
                 /\ PlanNumericBijection(left, taken) =>
                      \A v \in left : CompletionWalk(left, v, taken) # {}

\* The allocator fails for want of capacity only when the tokens to spare are
\* too few: a first run needs one, and a run over persisted rows, which it
\* counts twice, as many as there are rows and at least two.  With them each
\* random choice leaves a choice for the next original, and the bounded walk
\* finds it.
SpareNeeded == IF before = {} THEN 1 ELSE Max({2, Cardinality(before)})
CapacityFailureIsReal ==
    run \in CapacityFailures =>
        Cardinality(Tokens) - Cardinality(Originals) < SpareNeeded

\* A persisted row is never changed nor removed, by any run or fault.
PersistedIsFixed ==
    [][\A v \in DOMAIN mapping : v \in DOMAIN mapping' /\ mapping'[v] = mapping[v]]_mapping

\* With a token to spare for every original, a caller who asks again gets
\* every original its row, whatever rows the interrupted runs left behind:
\* unless every one of the MaxRuns runs met a fault from outside.
Reversible ==
    \A o \in source : ClassifyMemberOriginal(o.member, o.value) = "REVERSIBLE"
Roomy == Cardinality(Tokens) - Cardinality(Originals) >= Cardinality(Originals)
Mapped == Originals \subseteq DOMAIN mapping
GivenUp == runs = MaxRuns /\ run \in {"crashed", "READ_FAILED", "VAULT_FAILED", "CANCELLED"}
EventuallyMapped == (Reversible /\ Roomy) ~> (Mapped \/ GivenUp)

----------------------------------------------------------------------------
(***************************************************************************)
(* What the repository says of the allocation and the code does not do.    *)
(***************************************************************************)
\* docs/pseudonymization-vs-anonymization.md:34: "When the SAME compatible
\* vault is reused, the previously stored mapping is stable and reused
\* consistently": a run over a vault that maps every original needs no token.
ReuseNeedsNoCapacity ==
    Originals \subseteq before => run \notin CapacityFailures
=============================================================================
