---------------------------- MODULE PassTwoProofs ----------------------------
(***************************************************************************)
(* Proofs about the table write pass and about the relation evidence it    *)
(* completes, for every number of tables, workers, records and relations.  *)
(*                                                                         *)
(* First the pass itself: a worker changes nothing but its own entries and *)
(* `stop' (WorkerFrame), so the inductive invariant Inv is shown to        *)
(* survive a worker's step from that frame, and a coordinator's step       *)
(* action by action.                                                       *)
(*                                                                         *)
(* Then the evidence of module Assurance: counting a stream record by      *)
(* record gives what counting it at once gives (ObservedIsCounted), so the *)
(* spool holds exact counts (EvidenceInv); two comparisons of such counts  *)
(* agree (SameVerdict); and a source nobody edits gives both sides of a    *)
(* relation the same renaming (FaithInv, KeyIsRenamed), which every        *)
(* compared number survives (RenamedIsVerified).                           *)
(***************************************************************************)
EXTENDS PassTwo, Assurance, FiniteSetTheorems, SequenceTheorems, WellFoundedInduction, TLAPS

\* A non-empty set of naturals has a least element.
LEMMA LeastNatural ==
  ASSUME NEW S \in SUBSET Nat, S # {}
  PROVE  \E i \in S : \A j \in S : i <= j
<1> DEFINE R == OpToRel(<, Nat)
<1>1. IsWellFoundedOn(R, Nat)
  BY NatLessThanWellFounded
<1>2. \A i, j \in Nat : j < i => <<j, i>> \in R
  BY DEF OpToRel
<1> HIDE DEF R
<1>3. PICK i \in S : \A j \in S : ~(<<j, i>> \in R)
  BY <1>1, WFMin
<1>4. ASSUME NEW j \in S PROVE i <= j
  <2>1. i \in Nat /\ j \in Nat
    OBVIOUS
  <2>2. ~(j < i)
    BY <1>2, <1>3, <2>1, Zenon
  <2> QED BY <2>1, <2>2
<1> QED BY <1>4

\* 1..n has n elements.
LEMMA FirstNumbers ==
  ASSUME NEW n \in Nat
  PROVE  IsFiniteSet(1..n) /\ Cardinality(1..n) = n
BY FS_Interval

\* A non-empty set of tables has a first one: _primary_worker_failure takes it.
LEMMA FirstIsMember ==
  ASSUME NEW S, S \subseteq Nat, S # {}
  PROVE  First(S) \in S
BY LeastNatural DEF First

\* What a step of worker i can change: its own entries, and `stop' from FALSE
\* to TRUE, which only the handler does.
WorkerFrame(i) ==
  /\ job' = [job EXCEPT ![i] = job'[i]]
  /\ why' = [why EXCEPT ![i] = why'[i]]
  /\ shard' = [shard EXCEPT ![i] = shard'[i]]
  /\ reader' = [reader EXCEPT ![i] = reader'[i]]
  /\ table' = [table EXCEPT ![i] = table'[i]]
  /\ UNCHANGED <<workers, main, base, turn, pending, threads, merged, torn, written, root, error>>
  /\ job[i] \in Running \cup {"queued"}
  /\ job[i] = "queued" => threads
  /\ job'[i] \in Running \cup {"ok", "failed"}
  /\ why'[i] \in Errors \cup {None}
  /\ shard'[i] \in {"absent", "open", "closed", "orphan"}
  /\ reader'[i] \in BOOLEAN
  /\ table'[i] \in {"absent", "partial", "written", "placed"}
  /\ why'[i] # why[i] => why'[i] # None
  /\ why'[i] # why[i] /\ why'[i] = "coordinator" => Pool /\ stop /\ job[i] \in Body
  /\ job'[i] \in Handler \cup {"failed"} => why'[i] # None
  /\ job[i] \in {"setStop", "cleanShard", "cleanReader"} => job'[i] \in {"cleanShard", "cleanReader", "failed"}
  /\ stop' \in BOOLEAN
  /\ stop => stop'
  /\ stop' => stop \/ job'[i] = "cleanShard"

LEMMA WorkerStep ==
  ASSUME TypeOK, CauseIsKnown, NEW i \in Tables, Worker(i)
  PROVE  WorkerFrame(i)
<1> USE DEF TypeOK, Move, WorkerOnly, WorkerFrame, Body, Handler, Running, Finished, files, batch, results, Errors
<1>1. CASE Take(i) BY <1>1 DEF Take
<1>2. CASE OpenShard(i) BY <1>2 DEF OpenShard
<1>3. CASE OpenReader(i) BY <1>3 DEF OpenReader
<1>4. CASE OpenSource(i) BY <1>4 DEF OpenSource
<1>5. CASE WriteRows(i) BY <1>5 DEF WriteRows
<1>6. CASE CloseShard(i) BY <1>6 DEF CloseShard
<1>7. CASE CloseReader(i) BY <1>7 DEF CloseReader
<1>8. CASE BodyFails(i)
  <2>1. PICK e \in Failures : why' = [why EXCEPT ![i] = e]
    BY <1>8 DEF BodyFails
  <2>2. e \in Errors /\ (e = "coordinator" => Pool /\ stop)
    BY DEF Failures, Probe
  <2>3. e # None
    BY <2>2, NoneAssumption
  <2> QED BY <1>8, <2>1, <2>2, <2>3 DEF BodyFails
<1>9. CASE CloseFails(i) BY <1>9, NoneAssumption DEF CloseFails
<1>10. CASE SetStop(i) BY <1>10 DEF SetStop, CauseIsKnown
<1>11. CASE CleanShard(i) BY <1>11, NoneAssumption DEF CleanShard, CauseIsKnown
<1>12. CASE CleanReader(i) BY <1>12, NoneAssumption DEF CleanReader, CauseIsKnown
<1> QED BY <1>1, <1>2, <1>3, <1>4, <1>5, <1>6, <1>7, <1>8, <1>9, <1>10, <1>11, <1>12 DEF Worker

\* The last table of a batch is not before its first, or is the last of all.
LEMMA LastIsBehind ==
  \A b \in Nat \ {0}, w \in Nat \ {0}, n \in Nat :
    LET last == IF b + w - 1 < n THEN b + w - 1 ELSE n
    IN  last \in Int /\ (last >= b \/ last = n)
OBVIOUS

LEMMA LastTableType ==
  ASSUME base \in Nat \ {0}, workers \in WorkerCounts
  PROVE  /\ LastTable \in Int
         /\ LastTable <= N
         /\ Batch \subseteq Tables
         /\ base <= N => LastTable \in Batch
         /\ \A i \in Tables : i \in Batch <=> base <= i /\ i <= LastTable
BY TablesAssumption, WorkersAssumption DEF LastTable, Batch, Tables

\* The number of workers is an argument of the call.
LEMMA CoordinatorKeepsWorkers ==
  ASSUME Coordinator
  PROVE  workers' = workers
BY DEF Coordinator, CoordinatorStep, CoordinatorOnly, StartPhase, NextBatch, InlineReturns, Submit,
       Wait, WaitCancelled, StopWorkers, Drain, Merge, Assemble, Report, CleanupRoot, Compare, Join,
       InterruptTry, InterruptElsewhere

\* Types are kept by the coordinator.
LEMMA CoordinatorType ==
  ASSUME Inv, Coordinator
  PROVE  TypeOK'
<1> USE DEF Inv, TypeOK, CoordinatorOnly, Goto, Raise, batch, results, Coordinating, Errors, Probe, Assembly
<1>0. /\ Batch \subseteq Tables /\ LastTable \in Int
      /\ base <= N => LastTable \in Batch
      /\ base \in Tables \/ base > N
  BY LastTableType, TablesAssumption DEF Tables
<1>1. CASE StartPhase BY <1>1 DEF StartPhase
<1>2. CASE NextBatch BY <1>2, <1>0 DEF NextBatch, Running, Body
<1>3. CASE InlineReturns
  <2>1. base <= N
    BY <1>3 DEF InlineReturns, BatchIsKept
  <2>2. base \in Tables
    BY <1>0, <2>1, TablesAssumption
  <2>3. why[base] \in Errors \cup {None}
    BY <2>2
  <2> QED BY <1>3, <2>3 DEF InlineReturns
<1>4. CASE Submit
  <2>1. turn \in Tables /\ turn' = turn + 1 /\ (pending' = Batch \/ pending' = pending)
    BY <1>4, <1>0 DEF Submit
  <2>4. turn' \in Nat \ {0}
    BY <2>1 DEF Tables
  <2>5. pending' \subseteq Tables
    BY <1>0, <2>1
  <2>2. job' \in [Tables -> {"idle", "queued"} \cup Running \cup Finished]
    BY <1>4 DEF Submit
  <2>3. main' \in Coordinating /\ error' \in Errors \cup {None} /\ threads' \in BOOLEAN
    BY <1>4 DEF Submit
  <2> QED BY <1>4, <2>2, <2>3, <2>4, <2>5 DEF Submit
<1>5. CASE Wait BY <1>5 DEF Wait
<1>16. CASE WaitCancelled BY <1>16 DEF WaitCancelled
<1>6. CASE StopWorkers BY <1>6 DEF StopWorkers, Finished
<1>7. CASE Drain
  <2>1. CASE error # None
    BY <1>7, <2>1 DEF Drain
  <2>2. CASE error = None
    <3>1. Failed # {}
      BY <1>7, <2>2 DEF Drain, CauseIsKnown, Failed
    <3>2. Failed \subseteq Tables /\ Genuine \subseteq Tables
      BY <1>0 DEF Failed, Genuine
    <3>3. Tables \subseteq Nat
      BY DEF Tables
    <3>4. First(IF Genuine # {} THEN Genuine ELSE Failed) \in Tables
      BY <3>1, <3>2, <3>3, FirstIsMember
    <3>5. Primary \in Errors \cup {None}
      BY <3>4 DEF Primary
    <3> QED BY <1>7, <2>2, <3>5 DEF Drain
  <2> QED BY <2>1, <2>2
<1>8. CASE Merge
  <2>1. turn \in Tables
    BY <1>8, <1>0 DEF Merge, BatchIsKept
  <2>2. main' \in Coordinating /\ error' \in Errors \cup {None} /\ torn' \in BOOLEAN
    BY <1>8 DEF Merge
  <2>5. Append(merged, turn) \in Seq(Tables)
    BY <2>1, AppendProperties
  <2>3. merged' \in Seq(Tables)
    BY <1>8, <2>5 DEF Merge
  <2>4. shard' \in [Tables -> {"absent", "open", "closed", "orphan"}]
    BY <1>8 DEF Merge
  <2> QED BY <1>8, <2>2, <2>3, <2>4 DEF Merge
<1>9. CASE Assemble
  <2>1. turn \in Tables
    BY <1>9, <1>0 DEF Assemble, BatchIsKept
  <2>2. main' \in Coordinating /\ error' \in Errors \cup {None}
    BY <1>9 DEF Assemble
  <2>5. Append(written, turn) \in Seq(Tables)
    BY <2>1, AppendProperties
  <2>3. written' \in Seq(Tables)
    BY <1>9, <2>5 DEF Assemble
  <2>4. table' \in [Tables -> {"absent", "partial", "written", "placed"}]
    BY <1>9 DEF Assemble
  <2> QED BY <1>9, <2>2, <2>3, <2>4 DEF Assemble
<1>10. CASE Report
  <2>1. turn \in Batch
    BY <1>10 DEF Report, BatchIsKept
  <2>2. turn' \in Nat \ {0} /\ base' \in Nat \ {0}
    BY <1>10, <2>1, <1>0 DEF Report, Batch
  <2> QED BY <1>10, <2>2 DEF Report
<1>11. CASE CleanupRoot BY <1>11 DEF CleanupRoot
<1>12. CASE Compare BY <1>12 DEF Compare
<1>13. CASE Join BY <1>13 DEF Join
<1>14. CASE InterruptTry BY <1>14 DEF InterruptTry
<1>15. CASE InterruptElsewhere BY <1>15 DEF InterruptElsewhere
<1> QED BY <1>1, <1>2, <1>3, <1>4, <1>5, <1>6, <1>7, <1>8, <1>9, <1>10, <1>11, <1>12, <1>13, <1>14, <1>15, <1>16
        DEF Coordinator, CoordinatorStep

\* The tables around the batch, and what `pending' has lost, are kept by the
\* coordinator.
LEMMA CoordinatorBatch ==
  ASSUME Inv, Coordinator
  PROVE  BatchIsKept'
<1> USE DEF Inv, TypeOK, CoordinatorOnly, Goto, Raise, batch, results, BatchIsKept
<1>0. /\ Batch \subseteq Tables /\ LastTable \in Int /\ LastTable <= N
      /\ base <= N => LastTable \in Batch
      /\ base <= N => base \in Tables
      /\ \A i \in Tables : i \in Batch <=> base <= i /\ i <= LastTable
  BY LastTableType, TablesAssumption DEF Tables
<1>w. UNCHANGED <<workers, Pool>>
  BY CoordinatorKeepsWorkers DEF Pool
<1>a. ASSUME UNCHANGED base
      PROVE  UNCHANGED <<LastTable, Batch>>
  BY <1>a, <1>w DEF LastTable, Batch
<1>1. CASE StartPhase BY <1>1, <1>a, <1>w DEF StartPhase
<1>2. CASE NextBatch
  <2>1. /\ UNCHANGED <<base, LastTable, Batch>>
        /\ base \in Batch /\ base <= N /\ turn' = base
        /\ job' = job \/ job' = [job EXCEPT ![base] = "checkpoint"]
    BY <1>2, <1>0, <1>a, <1>w DEF NextBatch, Batch
  <2>2. /\ \A i \in Tables : i < base => job'[i] = "ok"
        /\ \A i \in Tables : i > LastTable => job'[i] = "idle"
    BY <1>2, <2>1, <1>0 DEF NextBatch, Tables
  <2>5. \A i \in Tables : job'[i] # "cancelled"
    <3> SUFFICES ASSUME NEW i \in Tables PROVE job[i] # "cancelled"
      BY <2>1
    <3> QED BY <1>2 DEF NextBatch, Tables
  <2>3. /\ main' \in {"submit", "inline", "join"}
        /\ main' = "submit" => Pool /\ job' = job
        /\ main' = "inline" => ~Pool
    BY <1>2 DEF NextBatch
  <2>4. main' = "submit" => \A i \in Tables : i >= turn' => job'[i] = "idle"
    BY <1>2, <2>1, <2>3 DEF NextBatch
  <2> QED BY <1>w, <2>1, <2>2, <2>3, <2>4, <2>5
<1>3. CASE InlineReturns
  <2>1. ~Pool /\ base <= N /\ LastTable = base /\ Batch = {base}
    BY <1>3, WorkersAssumption, TablesAssumption DEF InlineReturns, Pool, LastTable, Batch
  <2>2. job[base] = "ok" => turn = base
    BY <1>3, <2>1 DEF InlineReturns
  <2> QED BY <1>3, <1>0, <1>a, <1>w, <2>1, <2>2 DEF InlineReturns
<1>4. CASE Submit
  <2>1. /\ UNCHANGED <<base, LastTable, Batch>>
        /\ turn \in Batch /\ turn' = turn + 1
        /\ job' = [job EXCEPT ![turn] = "queued"]
    BY <1>4, <1>a, <1>w DEF Submit
  <2>2. /\ \A i \in Tables : i < base => job'[i] = "ok"
        /\ \A i \in Tables : i > LastTable => job'[i] = "idle"
        /\ \A i \in Tables : i >= turn' => job'[i] = "idle"
        /\ \A i \in Tables : job'[i] # "cancelled"
    BY <1>4, <2>1, <1>0 DEF Submit, Tables
  <2>3. main' \in {"submit", "wait", "join"} /\ (main' = "wait" => pending' = Batch /\ Batch # {})
    BY <1>4, <1>0 DEF Submit
  <2> QED BY <1>4, <1>w, <1>0, <2>1, <2>2, <2>3 DEF Submit
<1>5. CASE Wait
  <2>1. \A i \in Batch \ pending' : job[i] \in Finished
    BY <1>5 DEF Wait, Done
  <2>2. main' \in {"wait", "merge"} => \A i \in Batch \ pending' : job[i] = "ok"
    BY <1>5, <1>0 DEF Wait, Done, Finished
  <2>3. main' = "merge" => pending' = {} /\ turn' \in Batch
    BY <1>5, <1>0 DEF Wait, Batch
  <2> QED BY <1>5, <1>0, <1>a, <1>w, <2>1, <2>2, <2>3 DEF Wait
<1>16. CASE WaitCancelled BY <1>16, <1>0, <1>a, <1>w DEF WaitCancelled, Done
<1>6. CASE StopWorkers BY <1>6, <1>0, <1>a, <1>w DEF StopWorkers, Finished
<1>7. CASE Drain BY <1>7, <1>a, <1>w DEF Drain
<1>8. CASE Merge BY <1>8, <1>a, <1>w DEF Merge
<1>9. CASE Assemble BY <1>9, <1>a, <1>w DEF Assemble
<1>10. CASE Report
  <2>1. CASE base' = base
    <3>1. main' \in {"merge", "join"} /\ UNCHANGED <<base, pending, job, LastTable, Batch>>
      BY <1>10, <1>0, <1>a, <1>w, <2>1 DEF Report
    <3>2. main' = "merge" => turn' \in Batch
      BY <1>10, <1>0, <2>1 DEF Report, Batch
    <3> QED BY <1>10, <1>w, <3>1, <3>2 DEF Report
  <2>2. CASE base' # base
    <3>1. main' = "batch" /\ base' = LastTable + 1 /\ UNCHANGED job
      BY <1>10, <2>2 DEF Report
    <3>2. \A i \in Tables : i < base' => job[i] = "ok"
      BY <1>10, <1>0, <3>1 DEF Report, Tables
    <3>3. \A i \in Tables : i >= base' => job[i] = "idle"
      BY <1>0, <3>1 DEF Tables
    <3>4. base' \in Nat \ {0} /\ LastTable' \in Int /\ \A i \in Tables : i > LastTable' => i >= base'
      <4>1. workers' \in Nat \ {0} /\ LastTable \in Nat \ {0} /\ N \in Nat
        BY <1>0, <1>w, TablesAssumption, WorkersAssumption, <1>10 DEF Tables, Report
      <4>2. LastTable' = IF base' + workers' - 1 < N THEN base' + workers' - 1 ELSE N
        BY DEF LastTable
      <4>3. base' \in Nat \ {0}
        BY <3>1, <4>1
      <4>4. LastTable' \in Int /\ (LastTable' >= base' \/ LastTable' = N)
        BY <4>1, <4>2, <4>3, LastIsBehind, Zenon
      <4>5. ASSUME NEW i \in Tables, i > LastTable' PROVE i >= base'
        BY <4>1, <4>3, <4>4, <4>5 DEF Tables
      <4> QED BY <4>3, <4>4, <4>5
    <3> QED BY <1>w, <3>1, <3>2, <3>3, <3>4
  <2> QED BY <2>1, <2>2
<1>11. CASE CleanupRoot BY <1>11, <1>a, <1>w DEF CleanupRoot
<1>12. CASE Compare BY <1>12, <1>a, <1>w DEF Compare
<1>13. CASE Join BY <1>13, <1>a, <1>w DEF Join
<1>14. CASE InterruptTry BY <1>14, <1>a, <1>w DEF InterruptTry
<1>15. CASE InterruptElsewhere BY <1>15, <1>a, <1>w DEF InterruptElsewhere
<1> QED BY <1>1, <1>2, <1>3, <1>4, <1>5, <1>6, <1>7, <1>8, <1>9, <1>10, <1>11, <1>12, <1>13, <1>14, <1>15, <1>16
        DEF Coordinator, CoordinatorStep

\* The cause of a stop is kept by the coordinator.
LEMMA CoordinatorCause ==
  ASSUME Inv, Coordinator
  PROVE  CauseIsKnown'
<1> USE DEF Inv, TypeOK, CoordinatorOnly, Goto, Raise, batch, results
<1>0. /\ Batch \subseteq Tables
      /\ base <= N => base \in Tables
  BY LastTableType, TablesAssumption DEF Tables
<1>w. UNCHANGED <<workers, Pool>>
  BY CoordinatorKeepsWorkers DEF Pool
<1>a. ASSUME UNCHANGED base
      PROVE  UNCHANGED <<LastTable, Batch>>
  BY <1>a, <1>w DEF LastTable, Batch
<1>b. \A e \in Errors : e # None
  BY NoneAssumption
<1>c. \A e \in Probe \cup Assembly : e # "coordinator" /\ e # None
  BY <1>b DEF Probe, Assembly, Errors
<1>d. "interrupt" # None /\ "failure" # None /\ "assembly" # None /\ "callback" # None
  BY <1>b DEF Errors
<1>1. CASE StartPhase BY <1>1, <1>a, <1>w, <1>c DEF StartPhase, CauseIsKnown
<1>2. CASE NextBatch BY <1>2, <1>a, <1>w, <1>c DEF NextBatch, CauseIsKnown, Handler, BatchIsKept
<1>3. CASE InlineReturns
  <2>1. base \in Tables /\ ~Pool
    BY <1>3, <1>0 DEF InlineReturns, BatchIsKept
  <2>2. job[base] = "failed" => why[base] # "coordinator" /\ why[base] # None
    BY <2>1 DEF CauseIsKnown
  <2> QED BY <1>3, <1>a, <1>w, <2>2 DEF InlineReturns, CauseIsKnown
<1>4. CASE Submit BY <1>4, <1>0, <1>a, <1>w, <1>d DEF Submit, CauseIsKnown, Handler, BatchIsKept
<1>5. CASE Wait BY <1>5, <1>a, <1>w DEF Wait, CauseIsKnown, Done, BatchIsKept
<1>16. CASE WaitCancelled BY <1>16, <1>a, <1>w, <1>c DEF WaitCancelled, CauseIsKnown
<1>6. CASE StopWorkers
  <2>1. /\ UNCHANGED <<why, error, Batch>>
        /\ \A i \in Tables : job'[i] # job[i] => job'[i] = "cancelled" /\ job[i] = "queued"
        /\ main = "stopping" /\ main' = "drain" /\ stop'
    BY <1>6, <1>a, <1>w DEF StopWorkers
  <2>2. ASSUME error = None
        PROVE  /\ \E i \in Batch : job[i] = "failed"
               /\ \E i \in Tables : job[i] \in {"cleanShard", "cleanReader", "failed"} /\ why[i] # "coordinator"
    BY <2>1, <2>2, <1>0 DEF CauseIsKnown
  <2> QED BY <1>w, <2>1, <2>2, <1>0 DEF CauseIsKnown, Handler
<1>7. CASE Drain
  <2>1. error = None => Primary # "coordinator" /\ Primary # None
    <3> SUFFICES ASSUME error = None PROVE Primary # "coordinator" /\ Primary # None
      OBVIOUS
    <3>1. PICK i \in Batch : job[i] = "failed"
      BY <1>7 DEF Drain, CauseIsKnown
    <3>2. stop \/ why[i] # "coordinator"
      BY <3>1, <1>0 DEF CauseIsKnown
    <3>3. PICK j \in Tables : job[j] \in {"cleanShard", "cleanReader", "failed"} /\ why[j] # "coordinator"
      BY <3>1, <3>2, <1>0 DEF CauseIsKnown
    <3>4. j \in Batch
      BY <3>3, LastTableType DEF BatchIsKept, Tables
    <3>5. j \in Genuine
      BY <1>7, <3>3, <3>4 DEF Drain, Genuine, Failed, BatchIsKept, Finished
    <3>6. First(Genuine) \in Genuine
      <4>2. Genuine \subseteq Tables
        BY <1>0 DEF Genuine, Failed
      <4>3. Tables \subseteq Nat
        BY DEF Tables
      <4>1. Genuine \subseteq Nat
        BY <4>2, <4>3
      <4> QED BY <3>5, <4>1, FirstIsMember
    <3>7. Primary = why[First(Genuine)]
      BY <3>5 DEF Primary
    <3> QED BY <3>6, <3>7, <1>0 DEF Genuine, Failed, CauseIsKnown
  <2> QED BY <1>7, <1>a, <1>w, <2>1 DEF Drain, CauseIsKnown
<1>8. CASE Merge BY <1>8, <1>a, <1>w, <1>c, <1>d DEF Merge, CauseIsKnown
<1>9. CASE Assemble BY <1>9, <1>a, <1>w, <1>c, <1>d DEF Assemble, CauseIsKnown
<1>10. CASE Report BY <1>10, <1>a, <1>w, <1>d DEF Report, CauseIsKnown
<1>11. CASE CleanupRoot BY <1>11, <1>a, <1>w, <1>d DEF CleanupRoot, CauseIsKnown
<1>12. CASE Compare BY <1>12, <1>a, <1>w, <1>c DEF Compare, CauseIsKnown
<1>13. CASE Join BY <1>13, <1>a, <1>w DEF Join, CauseIsKnown
<1>14. CASE InterruptTry BY <1>14, <1>a, <1>w, <1>d DEF InterruptTry, CauseIsKnown
<1>15. CASE InterruptElsewhere BY <1>15, <1>a, <1>w, <1>d DEF InterruptElsewhere, CauseIsKnown
<1> QED BY <1>1, <1>2, <1>3, <1>4, <1>5, <1>6, <1>7, <1>8, <1>9, <1>10, <1>11, <1>12, <1>13, <1>14, <1>15, <1>16
        DEF Coordinator, CoordinatorStep

\* A worker's step keeps the invariant, by its frame.
LEMMA WorkerKeeps ==
  ASSUME Inv, NEW i \in Tables, Worker(i)
  PROVE  Inv'
<1>1. WorkerFrame(i)
  BY WorkerStep DEF Inv
<1>2. UNCHANGED <<LastTable, Batch, Pool>>
  BY <1>1 DEF WorkerFrame, LastTable, Batch, Pool
<1>3. \A j \in Tables : j # i => job'[j] = job[j] /\ why'[j] = why[j]
  BY <1>1 DEF WorkerFrame, Inv, TypeOK
<1>4. /\ job'[i] \notin {"idle", "queued", "cancelled"}
      /\ job[i] \notin {"idle", "ok", "failed", "cancelled"}
  BY <1>1 DEF WorkerFrame, Running, Body, Handler
<1>5. TypeOK'
  BY <1>1 DEF WorkerFrame, Inv, TypeOK, Finished
<1>6. BatchIsKept'
  <2>1. \A j \in Tables : job[j] \in {"idle", "ok"} \cup Finished => job'[j] = job[j]
    BY <1>3, <1>4 DEF Finished
  <2>2. \A j \in Tables : job'[j] = "cancelled" => job[j] = "cancelled"
    BY <1>3, <1>4
  <2>3. Batch \subseteq Tables
    BY LastTableType DEF Inv, TypeOK
  <2>4. UNCHANGED <<main, base, turn, pending>>
    BY <1>1 DEF WorkerFrame
  <2> QED BY <1>2, <2>1, <2>2, <2>3, <2>4 DEF Inv, BatchIsKept
<1>7. CauseIsKnown'
  <2>1. /\ UNCHANGED <<main, error, base>>
        /\ stop => stop'
        /\ job'[i] \in Handler \cup {"failed"} => why'[i] # None
        /\ stop' => stop \/ job'[i] = "cleanShard"
    BY <1>1 DEF WorkerFrame
  <2>2. why'[i] = "coordinator" => Pool /\ stop
    BY <1>1 DEF WorkerFrame, Inv, CauseIsKnown
  <2>3. \A j \in Tables : job[j] = "failed" => job'[j] = "failed"
    BY <1>3, <1>4
  <2>4. ASSUME stop', error' = None
        PROVE  \E j \in Tables :
                 job'[j] \in {"cleanShard", "cleanReader", "failed"} /\ why'[j] # "coordinator"
    <3>1. CASE stop
      <4>1. PICK j \in Tables :
              job[j] \in {"cleanShard", "cleanReader", "failed"} /\ why[j] # "coordinator"
        BY <2>1, <2>4, <3>1 DEF Inv, CauseIsKnown
      <4>2. CASE j = i
        <5>1. job'[i] \in {"cleanShard", "cleanReader", "failed"}
          BY <1>1, <1>4, <4>1, <4>2 DEF WorkerFrame
        <5>2. why'[i] # "coordinator"
          BY <1>1, <4>1, <4>2 DEF WorkerFrame, Body
        <5> QED BY <5>1, <5>2
      <4> QED BY <1>3, <4>1, <4>2
    <3>2. CASE ~stop
      BY <2>1, <2>2, <2>4, <3>2
    <3> QED BY <3>1, <3>2
  <2>5. Batch \subseteq Tables
    BY LastTableType DEF Inv, TypeOK
  <2> QED BY <1>2, <1>3, <2>1, <2>2, <2>3, <2>4, <2>5 DEF Inv, CauseIsKnown
<1>8. NoWorkerOutlives'
  <2>1. ~Ended
    BY <1>1 DEF WorkerFrame, Inv, NoWorkerOutlives
  <2> QED BY <1>1, <2>1 DEF WorkerFrame, NoWorkerOutlives, Ended
<1> QED BY <1>5, <1>6, <1>7, <1>8 DEF Inv

\* The coordinator ends only behind its workers.
LEMMA CoordinatorLeaves ==
  ASSUME Inv, Coordinator
  PROVE  NoWorkerOutlives'
<1> SUFFICES ASSUME Ended'
             PROVE  NoWorkerOutlives'
  BY DEF NoWorkerOutlives
<1> USE DEF Goto, Raise, Ended
<1>1. CASE Join
  BY <1>1 DEF Join, NoWorkerOutlives
<1>2. CASE Compare
  <2>1. base > N /\ job' = job /\ main' = "returned"
    BY <1>2 DEF Compare, Inv, BatchIsKept
  <2>2. \A i \in Tables : job[i] = "ok"
    BY <2>1, TablesAssumption DEF Inv, BatchIsKept, TypeOK, Tables
  <2> QED BY <2>1, <2>2 DEF NoWorkerOutlives, Running, Body, Handler
<1>3. ~(\/ StartPhase \/ NextBatch \/ InlineReturns \/ Submit \/ Wait \/ StopWorkers \/ Drain
        \/ Merge \/ Assemble \/ Report \/ CleanupRoot \/ WaitCancelled \/ InterruptTry \/ InterruptElsewhere)
  BY DEF StartPhase, NextBatch, InlineReturns, Submit, Wait, StopWorkers, Drain,
         Merge, Assemble, Report, CleanupRoot, WaitCancelled, InterruptTry, InterruptElsewhere
<1> QED BY <1>1, <1>2, <1>3 DEF Coordinator, CoordinatorStep

LEMMA InvInit == Init => Inv
<1> SUFFICES ASSUME Init PROVE Inv
  OBVIOUS
<1>1. TypeOK
  <2>1. merged \in Seq(Tables) /\ written \in Seq(Tables)
    BY DEF Init
  <2>2. /\ main \in Coordinating
        /\ why \in [Tables -> Errors \cup {None}]
        /\ job \in [Tables -> {"idle", "queued"} \cup Running \cup Finished]
        /\ reader \in [Tables -> BOOLEAN]
    BY DEF Init, Coordinating
  <2>3. /\ shard \in [Tables -> {"absent", "open", "closed", "orphan"}]
        /\ table \in [Tables -> {"absent", "partial", "written", "placed"}]
    BY DEF Init
  <2>5. base \in Nat \ {0} /\ turn \in Nat \ {0} /\ workers \in WorkerCounts
    BY DEF Init
  <2>4. /\ pending \subseteq Tables
        /\ stop \in BOOLEAN /\ threads \in BOOLEAN /\ torn \in BOOLEAN /\ root \in BOOLEAN
        /\ error \in Errors \cup {None}
    BY DEF Init
  <2> QED BY <2>1, <2>2, <2>3, <2>4, <2>5 DEF TypeOK
<1>2. BatchIsKept
  BY DEF Init, BatchIsKept, Tables
<1>3. CauseIsKnown
  BY NoneAssumption DEF Init, CauseIsKnown, Handler, Errors
<1> QED BY <1>1, <1>2, <1>3 DEF Inv, NoWorkerOutlives, Init, Ended

LEMMA InvStep == Inv /\ [Next]_vars => Inv'
<1> SUFFICES ASSUME Inv, [Next]_vars PROVE Inv'
  OBVIOUS
<1>1. CASE Coordinator
  BY <1>1, CoordinatorType, CoordinatorBatch, CoordinatorCause, CoordinatorLeaves DEF Inv
<1>2. ASSUME NEW i \in Tables, Worker(i) PROVE Inv'
  BY <1>2, WorkerKeeps
<1>3. CASE UNCHANGED vars
  BY <1>3 DEF vars, batch, files, results, Inv, TypeOK, BatchIsKept, CauseIsKnown, NoWorkerOutlives,
              Ended, LastTable, Batch, Pool
<1> QED BY <1>1, <1>2, <1>3 DEF Next, Terminated

\* Inv holds in every reachable state of run_pass_two, for every number of
\* tables and of workers.
THEOREM Safety == Spec => []Inv
<1>1. Inv /\ [Next]_vars => Inv'
  BY InvStep
<1> QED BY InvInit, <1>1, PTL DEF Spec

\* When run_pass_two is over, no worker thread is still writing.
THEOREM NoWorkerOutlivesTheorem == Spec => []NoWorkerOutlives
<1>1. Inv => NoWorkerOutlives
  BY DEF Inv
<1> QED BY Safety, <1>1, PTL

\* The error run_pass_two raises is never a worker's echo of the stop.
THEOREM CauseTheorem == Spec => []CauseIsReported
<1>1. Inv => CauseIsReported
  BY DEF Inv, CauseIsKnown, CauseIsReported, TypeOK
<1> QED BY Safety, <1>1, PTL

-----------------------------------------------------------------------------
(***************************************************************************)
(* Proof that the table write pass yields a whole result or none, for      *)
(* every number of tables and of workers and every combination of faults.  *)
(*                                                                         *)
(* WorkInv says which files the worker of a table has at each of its steps *)
(* and that the coordinator has accepted a prefix of the plan.  A worker's *)
(* step keeps it because a worker that moves is not accepted yet; a step   *)
(* of the coordinator keeps it action by action.  The arithmetic of the    *)
(* batches (DivBound) turns "before the batch" into a smaller batch number.*)
(***************************************************************************)

\* A number below k * w is in a batch before the k-th, one not below it is not.
LEMMA DivBound ==
  ASSUME NEW x \in Nat, NEW w \in Nat \ {0}, NEW k \in Nat
  PROVE  /\ x < k * w => x \div w < k
         /\ x >= k * w => x \div w >= k
<1> DEFINE q == x \div w
<1>1. q \in Int /\ w * q <= x /\ x < w * (q + 1)
  OBVIOUS
<1> HIDE DEF q
<1>2. ASSUME x < k * w PROVE q < k
  <2>1. SUFFICES ASSUME q >= k PROVE FALSE
    BY <1>1
  <2>2. w * q >= w * k
    BY <1>1, <2>1
  <2> QED BY <1>1, <1>2, <2>2
<1>3. ASSUME x >= k * w PROVE q >= k
  <2>1. SUFFICES ASSUME q + 1 <= k PROVE FALSE
    BY <1>1
  <2>2. w * (q + 1) <= w * k
    BY <1>1, <2>1
  <2> QED BY <1>1, <1>3, <2>2
<1> QED BY <1>2, <1>3 DEF q

\* Accepting the next result extends the prefix.
LEMMA PrefixExtends ==
  ASSUME NEW k \in Nat
  PROVE  Append([i \in 1..k |-> i], k + 1) = [i \in 1..(k + 1) |-> i]
<1> DEFINE s == [i \in 1..k |-> i]
<1>1. s \in Seq(Nat) /\ Len(s) = k
  OBVIOUS
<1> QED BY <1>1, AppendProperties

\* A worker's own step keeps its files in order, and the worker that ends well
\* hands over a closed shard and a written table.
LEMMA WorkerFiles ==
  ASSUME TypeOK, NEW i \in Tables, Worker(i), WorkerOwnsItsFiles(i)
  PROVE  /\ WorkerOwnsItsFiles(i)'
         /\ table'[i] # "placed"
         /\ job'[i] = "ok" => shard'[i] = "closed" /\ table'[i] = "written"
<1> USE DEF TypeOK, Move, WorkerOnly, WorkerOwnsItsFiles, files
<1>0. table[i] # "placed" \/ job[i] = "ok"
  OBVIOUS
<1>1. CASE Take(i) BY <1>1 DEF Take
<1>2. CASE OpenShard(i) BY <1>2 DEF OpenShard
<1>3. CASE OpenReader(i) BY <1>3 DEF OpenReader
<1>4. CASE OpenSource(i) BY <1>4 DEF OpenSource
<1>5. CASE WriteRows(i) BY <1>5 DEF WriteRows
<1>6. CASE CloseShard(i) BY <1>6 DEF CloseShard
<1>7. CASE CloseReader(i) BY <1>7 DEF CloseReader
<1>8. CASE BodyFails(i) BY <1>8 DEF BodyFails
<1>9. CASE CloseFails(i) BY <1>9 DEF CloseFails
<1>10. CASE SetStop(i) BY <1>10 DEF SetStop
<1>11. CASE CleanShard(i) BY <1>11 DEF CleanShard
<1>12. CASE CleanReader(i) BY <1>12 DEF CleanReader
<1> QED BY <1>1, <1>2, <1>3, <1>4, <1>5, <1>6, <1>7, <1>8, <1>9, <1>10, <1>11, <1>12 DEF Worker

\* A worker's step keeps WorkInv: what is accepted is not its own.
LEMMA WorkerKeepsWork ==
  ASSUME Inv, WorkInv, NEW i \in Tables, Worker(i)
  PROVE  WorkInv'
<1>1. WorkerFrame(i)
  BY WorkerStep DEF Inv
<1>2. UNCHANGED <<workers, main, base, turn, merged, torn, written, root, LastTable, Batch, MergedUpTo, WrittenUpTo>>
  BY <1>1 DEF WorkerFrame, LastTable, Batch, MergedUpTo, WrittenUpTo
<1>3. ASSUME NEW j \in Tables, j # i
      PROVE  job'[j] = job[j] /\ why'[j] = why[j] /\ shard'[j] = shard[j]
             /\ reader'[j] = reader[j] /\ table'[j] = table[j]
  BY <1>1, <1>3 DEF WorkerFrame, Inv, TypeOK
<1>4. /\ WorkerOwnsItsFiles(i)' /\ table'[i] # "placed"
      /\ job'[i] = "ok" => shard'[i] = "closed" /\ table'[i] = "written"
  BY WorkerFiles DEF Inv, WorkInv
<1>5. job[i] # "ok"
  BY <1>1 DEF WorkerFrame, Running, Body, Handler
<1>6. \A j \in Tables : WorkerOwnsItsFiles(j)'
  <2> SUFFICES ASSUME NEW j \in Tables, j # i PROVE WorkerOwnsItsFiles(j)'
    BY <1>4
  <2> QED BY <1>3 DEF WorkInv, WorkerOwnsItsFiles
<1>7. AcceptedIsAPrefix'
  <2>1. table[i] # "placed"
    BY <1>5 DEF WorkInv, WorkerOwnsItsFiles
  <2>2. \A j \in Tables : job[j] = "ok" => job'[j] = "ok"
    BY <1>3, <1>5
  <2>3. Batch \subseteq Tables
    BY LastTableType DEF Inv, TypeOK
  <2>4. main \in Loop =>
          /\ \A j \in Tables : j <= WrittenUpTo => table'[j] = "placed"
          /\ \A j \in Tables : j > MergedUpTo /\ job'[j] = "ok" => shard'[j] = "closed"
          /\ \A j \in Tables : j > WrittenUpTo /\ job'[j] = "ok" => table'[j] = "written"
    BY <1>3, <1>4, <2>1 DEF WorkInv, AcceptedIsAPrefix
  <2>5. \A j \in Tables : table'[j] = "placed" => j < base \/ \A l \in Batch : job'[l] = "ok"
    BY <1>3, <1>4, <2>2, <2>3 DEF WorkInv, AcceptedIsAPrefix
  <2>6. /\ main \in Loop => merged = [j \in 1..MergedUpTo |-> j] /\ written = [j \in 1..WrittenUpTo |-> j] /\ ~torn
        /\ base <= N + 1
        /\ base <= N => \E k \in 0..N : base - 1 = k * workers
    BY DEF WorkInv, AcceptedIsAPrefix
  <2> QED BY <1>2, <2>4, <2>5, <2>6 DEF AcceptedIsAPrefix
<1>8. ResultIsWhole'
  <2>1. ASSUME main \in {"compare", "returned"} PROVE FALSE
    <3>1. base > N
      BY <2>1 DEF Inv, BatchIsKept
    <3>2. job[i] = "ok"
      BY <3>1, TablesAssumption DEF Inv, BatchIsKept, TypeOK, Tables
    <3> QED BY <1>5, <3>2
  <2> QED BY <1>2, <2>1 DEF ResultIsWhole
<1> QED BY <1>6, <1>7, <1>8 DEF WorkInv

\* The worker's view of a table the coordinator does not touch.
LEMMA OwnUnchanged ==
  ASSUME NEW i \in Tables, WorkerOwnsItsFiles(i),
         job'[i] = job[i], why'[i] = why[i], shard'[i] = shard[i], reader'[i] = reader[i], table'[i] = table[i]
  PROVE  WorkerOwnsItsFiles(i)'
BY DEF WorkerOwnsItsFiles

\* The coordinator leaves every worker's files in order.
LEMMA CoordinatorOwns ==
  ASSUME Inv, WorkInv, Coordinator
  PROVE  \A i \in Tables : WorkerOwnsItsFiles(i)'
<1> SUFFICES ASSUME NEW i \in Tables PROVE WorkerOwnsItsFiles(i)'
  OBVIOUS
<1> USE DEF CoordinatorOnly, Goto, Raise, batch, results
<1>0. /\ WorkerOwnsItsFiles(i)
      /\ Batch \subseteq Tables
      /\ base <= N => base \in Tables
  BY LastTableType, TablesAssumption DEF WorkInv, Inv, TypeOK, Tables
<1>t. /\ job \in [Tables -> {"idle", "queued"} \cup Running \cup Finished]
      /\ shard \in [Tables -> {"absent", "open", "closed", "orphan"}]
      /\ table \in [Tables -> {"absent", "partial", "written", "placed"}]
  BY DEF Inv, TypeOK
<1>1. CASE StartPhase BY <1>0, <1>1, OwnUnchanged DEF StartPhase
<1>2. CASE NextBatch
  <2>1. job[i] = "idle" \/ job'[i] = job[i]
    BY <1>0, <1>t, <1>2 DEF NextBatch, Inv, TypeOK, BatchIsKept
  <2>2. job'[i] \in {job[i], "checkpoint"}
    BY <1>0, <1>t, <1>2 DEF NextBatch
  <2> QED BY <1>0, <1>2, <2>1, <2>2 DEF NextBatch, WorkerOwnsItsFiles
<1>3. CASE InlineReturns BY <1>0, <1>3, OwnUnchanged DEF InlineReturns
<1>4. CASE Submit
  <2>1. job'[i] = job[i] \/ (job[i] = "idle" /\ job'[i] = "queued")
    BY <1>0, <1>t, <1>4 DEF Submit, Inv, TypeOK, BatchIsKept
  <2> QED BY <1>0, <1>4, <2>1 DEF Submit, WorkerOwnsItsFiles
<1>5. CASE Wait BY <1>0, <1>5, OwnUnchanged DEF Wait
<1>6. CASE WaitCancelled BY <1>0, <1>6, OwnUnchanged DEF WaitCancelled
<1>7. CASE StopWorkers
  <2>1. job'[i] = job[i] \/ (job[i] = "queued" /\ job'[i] = "cancelled")
    BY <1>7 DEF StopWorkers
  <2> QED BY <1>0, <1>7, <2>1 DEF StopWorkers, WorkerOwnsItsFiles
<1>8. CASE Drain BY <1>0, <1>8, OwnUnchanged DEF Drain
<1>9. CASE Merge
  <2>1. turn \in Tables /\ job[turn] = "ok"
    BY <1>0, <1>9 DEF Merge, Inv, BatchIsKept
  <2>2. shard'[i] = shard[i] \/ job[i] = "ok"
    BY <1>t, <1>9, <2>1 DEF Merge
  <2> QED BY <1>0, <1>9, <2>2 DEF Merge, WorkerOwnsItsFiles
<1>10. CASE Assemble
  <2>1. turn \in Tables /\ job[turn] = "ok"
    BY <1>0, <1>10 DEF Assemble, Inv, BatchIsKept
  <2>2. table'[i] = table[i] \/ job[i] = "ok"
    BY <1>t, <1>10, <2>1 DEF Assemble
  <2> QED BY <1>0, <1>10, <2>2 DEF Assemble, WorkerOwnsItsFiles
<1>11. CASE Report BY <1>0, <1>11, OwnUnchanged DEF Report
<1>12. CASE CleanupRoot
  <2>1. job[i] = "ok"
    BY <1>12, TablesAssumption DEF CleanupRoot, Inv, BatchIsKept, TypeOK, Tables
  <2> QED BY <1>0, <1>12, <2>1 DEF CleanupRoot, WorkerOwnsItsFiles
<1>13. CASE Compare BY <1>0, <1>13, OwnUnchanged DEF Compare
<1>14. CASE Join BY <1>0, <1>14, OwnUnchanged DEF Join
<1>15. CASE InterruptTry BY <1>0, <1>15, OwnUnchanged DEF InterruptTry
<1>16. CASE InterruptElsewhere BY <1>0, <1>16, OwnUnchanged DEF InterruptElsewhere
<1> QED BY <1>1, <1>2, <1>3, <1>4, <1>5, <1>6, <1>7, <1>8, <1>9, <1>10, <1>11, <1>12, <1>13, <1>14, <1>15, <1>16
        DEF Coordinator, CoordinatorStep

\* A step that accepts nothing and ends no worker keeps the prefix.
LEMMA PrefixUnchanged ==
  ASSUME Inv, AcceptedIsAPrefix,
         UNCHANGED <<workers, base, table>>,
         \A i \in Tables : job'[i] = "ok" <=> job[i] = "ok",
         main' \in Loop => UNCHANGED <<merged, torn, written, shard>> /\ main \in Loop
                           /\ MergedUpTo' = MergedUpTo /\ WrittenUpTo' = WrittenUpTo
  PROVE  AcceptedIsAPrefix'
<1>1. UNCHANGED <<LastTable, Batch>>
  BY DEF LastTable, Batch
<1>2. Batch \subseteq Tables
  BY LastTableType DEF Inv, TypeOK
<1>3. \A i \in Tables : table'[i] = "placed" => i < base' \/ \A j \in Batch' : job'[j] = "ok"
  BY <1>1, <1>2 DEF AcceptedIsAPrefix
<1>4. base' <= N + 1 /\ (base' <= N => \E k \in 0..N : base' - 1 = k * workers')
  BY DEF AcceptedIsAPrefix
<1>5. ASSUME main' \in Loop
      PROVE  /\ merged' = [i \in 1..MergedUpTo' |-> i] /\ written' = [i \in 1..WrittenUpTo' |-> i]
             /\ ~torn'
             /\ \A i \in Tables : i <= WrittenUpTo' => table'[i] = "placed"
             /\ \A i \in Tables : i > MergedUpTo' /\ job'[i] = "ok" => shard'[i] = "closed"
             /\ \A i \in Tables : i > WrittenUpTo' /\ job'[i] = "ok" => table'[i] = "written"
  BY <1>5 DEF AcceptedIsAPrefix
<1> QED BY <1>3, <1>4, <1>5 DEF AcceptedIsAPrefix

\* merge_relation_shard moves the shard of the next table into the spool.
LEMMA MergePrefix ==
  ASSUME Inv, WorkInv, Merge
  PROVE  AcceptedIsAPrefix'
<1> USE DEF CoordinatorOnly, Goto, Raise, batch, Merge
<1>1. CASE main' = "join"
  BY <1>1, PrefixUnchanged DEF WorkInv, Loop
<1>2. CASE main' # "join"
  <2>1. /\ main = "merge" /\ main' = "assemble" /\ merged' = Append(merged, turn)
        /\ shard' = [shard EXCEPT ![turn] = "absent"]
        /\ UNCHANGED <<workers, base, turn, torn, written, table, job, LastTable, Batch>>
    BY <1>2 DEF LastTable, Batch
  <2>2. turn \in Nat \ {0} /\ MergedUpTo = turn - 1 /\ MergedUpTo' = turn /\ WrittenUpTo = turn - 1 /\ WrittenUpTo' = turn - 1
    BY <2>1 DEF MergedUpTo, WrittenUpTo, Inv, TypeOK
  <2>3. main \in Loop
    BY <2>1 DEF Loop, Coordinating
  <2>4. merged' = [i \in 1..turn |-> i]
    <3>1. merged = [i \in 1..(turn - 1) |-> i]
      BY <2>2, <2>3 DEF WorkInv, AcceptedIsAPrefix
    <3>2. turn - 1 \in Nat /\ (turn - 1) + 1 = turn
      BY <2>2
    <3> QED BY <2>1, <3>1, <3>2, PrefixExtends
  <2>5. \A i \in Tables : i > turn /\ job[i] = "ok" => shard'[i] = "closed"
    <3> SUFFICES ASSUME NEW i \in Tables, i > turn, job[i] = "ok" PROVE shard'[i] = "closed"
      OBVIOUS
    <3>1. i # turn /\ i > MergedUpTo
      BY <2>2 DEF Tables
    <3> QED BY <2>1, <2>3, <3>1 DEF WorkInv, AcceptedIsAPrefix, Inv, TypeOK
  <2> QED BY <2>1, <2>2, <2>3, <2>4, <2>5 DEF WorkInv, AcceptedIsAPrefix
<1> QED BY <1>1, <1>2

\* assemble_table moves the same table into the dataset.
LEMMA AssemblePrefix ==
  ASSUME Inv, WorkInv, Assemble
  PROVE  AcceptedIsAPrefix'
<1> USE DEF CoordinatorOnly, Goto, Raise, batch, Assemble
<1>1. CASE main' = "join"
  BY <1>1, PrefixUnchanged DEF WorkInv, Loop
<1>2. CASE main' # "join"
  <2>1. /\ main = "assemble" /\ main' = "report" /\ written' = Append(written, turn)
        /\ table' = [table EXCEPT ![turn] = "placed"]
        /\ UNCHANGED <<workers, base, turn, torn, merged, shard, job, LastTable, Batch>>
    BY <1>2 DEF LastTable, Batch
  <2>2. turn \in Nat \ {0} /\ MergedUpTo = turn /\ MergedUpTo' = turn /\ WrittenUpTo = turn - 1 /\ WrittenUpTo' = turn
    BY <2>1 DEF MergedUpTo, WrittenUpTo, Inv, TypeOK
  <2>3. main \in Loop
    BY <2>1 DEF Loop, Coordinating
  <2>4. written' = [i \in 1..turn |-> i]
    <3>1. written = [i \in 1..(turn - 1) |-> i]
      BY <2>2, <2>3 DEF WorkInv, AcceptedIsAPrefix
    <3>2. turn - 1 \in Nat /\ (turn - 1) + 1 = turn
      BY <2>2
    <3> QED BY <2>1, <3>1, <3>2, PrefixExtends
  <2>5. turn \in Tables /\ \A j \in Batch : job[j] = "ok"
    BY <2>1, LastTableType DEF Inv, TypeOK, BatchIsKept
  <2>6. \A i \in Tables : i <= turn => table'[i] = "placed"
    <3> SUFFICES ASSUME NEW i \in Tables, i <= turn PROVE table'[i] = "placed"
      OBVIOUS
    <3>1. i = turn \/ i <= WrittenUpTo
      BY <2>2 DEF Tables
    <3> QED BY <2>1, <2>3, <3>1 DEF WorkInv, AcceptedIsAPrefix, Inv, TypeOK
  <2>7. \A i \in Tables : i > turn /\ job[i] = "ok" => table'[i] = "written"
    <3> SUFFICES ASSUME NEW i \in Tables, i > turn, job[i] = "ok" PROVE table'[i] = "written"
      OBVIOUS
    <3>1. i # turn /\ i > WrittenUpTo
      BY <2>2 DEF Tables
    <3> QED BY <2>1, <2>3, <3>1 DEF WorkInv, AcceptedIsAPrefix, Inv, TypeOK
  <2> QED BY <2>1, <2>2, <2>3, <2>4, <2>5, <2>6, <2>7 DEF WorkInv, AcceptedIsAPrefix
<1> QED BY <1>1, <1>2

\* The next batch begins behind the last table, a whole number of batches on.
LEMMA NextMultiple ==
  ASSUME NEW b \in Nat \ {0}, NEW w \in Nat \ {0}, NEW n \in Nat, NEW k \in 0..n,
         b - 1 = k * w, b + w <= n
  PROVE  k + 1 \in 0..n /\ b + w - 1 = (k + 1) * w
<1>1. (k + 1) * w = k * w + w /\ k * w + w \in Nat
  OBVIOUS
<1>2. (k + 1) * w >= k + 1
  OBVIOUS
<1> QED BY <1>1, <1>2

LEMMA ReportPrefix ==
  ASSUME Inv, WorkInv, Report
  PROVE  AcceptedIsAPrefix'
<1> USE DEF CoordinatorOnly, Goto, Raise, results, Report
<1>1. CASE main' = "join"
  BY <1>1, PrefixUnchanged DEF WorkInv, Loop
<1>2. CASE main' = "merge"
  <2>1. /\ main = "report" /\ turn' = turn + 1 /\ turn \in Nat
        /\ UNCHANGED <<workers, base, merged, torn, written, shard, table, job>>
    BY <1>2 DEF Inv, TypeOK
  <2>2. MergedUpTo' = MergedUpTo /\ WrittenUpTo' = WrittenUpTo
    BY <1>2, <2>1 DEF MergedUpTo, WrittenUpTo
  <2> QED BY <2>1, <2>2, PrefixUnchanged DEF WorkInv, Loop, Coordinating
<1>3. CASE main' = "batch"
  <2>1. /\ main = "report" /\ turn = LastTable /\ base' = LastTable + 1
        /\ UNCHANGED <<workers, turn, merged, torn, written, shard, table, job>>
    BY <1>3 DEF Inv, TypeOK
  <2>2. LastTable \in Nat /\ LastTable <= N /\ base \in Nat \ {0} /\ base <= N
    BY <2>1, LastTableType DEF Inv, TypeOK, BatchIsKept
  <2>3. MergedUpTo' = MergedUpTo /\ WrittenUpTo' = WrittenUpTo /\ MergedUpTo = turn /\ WrittenUpTo = turn
    BY <1>3, <2>1, <2>2 DEF MergedUpTo, WrittenUpTo
  <2>4. main \in Loop
    BY <2>1 DEF Loop, Coordinating
  <2>5. \A i \in Tables : i > LastTable => job[i] = "idle"
    BY DEF Inv, BatchIsKept
  <2>6. \A i \in Tables : table[i] = "placed" => i < base'
    <3> SUFFICES ASSUME NEW i \in Tables, table[i] = "placed" PROVE i <= LastTable
      BY <2>1, <2>2 DEF Tables
    <3> QED BY <2>2, <2>5 DEF WorkInv, WorkerOwnsItsFiles, Tables
  <2>7. base' <= N => \E k \in 0..N : base' - 1 = k * workers
    <3> SUFFICES ASSUME base' <= N PROVE \E k \in 0..N : base' - 1 = k * workers
      OBVIOUS
    <3>1. workers \in Nat \ {0}
      BY WorkersAssumption DEF Inv, TypeOK
    <3>2. LastTable = base + workers - 1 /\ base + workers <= N
      BY <2>1, <2>2, <3>1, TablesAssumption DEF LastTable
    <3>3. PICK k \in 0..N : base - 1 = k * workers
      BY <2>2 DEF WorkInv, AcceptedIsAPrefix
    <3>4. k + 1 \in 0..N /\ base + workers - 1 = (k + 1) * workers
      BY <2>2, <3>1, <3>2, <3>3, TablesAssumption, NextMultiple
    <3>5. base' - 1 = base + workers - 1
      BY <2>1, <2>2, <3>2
    <3> QED BY <3>4, <3>5
  <2>8. base' <= N + 1
    BY <2>1, <2>2, TablesAssumption
  <2> QED BY <2>1, <2>3, <2>4, <2>6, <2>7, <2>8 DEF WorkInv, AcceptedIsAPrefix
<1> QED BY <1>1, <1>2, <1>3

\* The coordinator accepts results in plan order and nothing else.
LEMMA CoordinatorPrefix ==
  ASSUME Inv, WorkInv, Coordinator
  PROVE  AcceptedIsAPrefix'
<1> USE DEF CoordinatorOnly, Goto, Raise, batch, results, Loop, Coordinating, MergedUpTo, WrittenUpTo
<1>0. /\ AcceptedIsAPrefix
      /\ job \in [Tables -> {"idle", "queued"} \cup Running \cup Finished]
      /\ Batch \subseteq Tables
      /\ base <= N => base \in Tables
  BY LastTableType, TablesAssumption DEF WorkInv, Inv, TypeOK, Tables
<1>1. CASE StartPhase BY <1>0, <1>1, PrefixUnchanged DEF StartPhase
<1>2. CASE NextBatch
  <2>1. \A i \in Tables : job'[i] = "ok" <=> job[i] = "ok"
    BY <1>0, <1>2 DEF NextBatch, Inv, TypeOK, BatchIsKept
  <2> QED BY <1>0, <1>2, <2>1, PrefixUnchanged DEF NextBatch
<1>3. CASE InlineReturns BY <1>0, <1>3, PrefixUnchanged DEF InlineReturns, Inv, BatchIsKept
<1>4. CASE Submit
  <2>1. \A i \in Tables : job'[i] = "ok" <=> job[i] = "ok"
    BY <1>0, <1>4 DEF Submit, Inv, TypeOK, BatchIsKept
  <2> QED BY <1>0, <1>4, <2>1, PrefixUnchanged DEF Submit
<1>5. CASE Wait BY <1>0, <1>5, PrefixUnchanged DEF Wait
<1>6. CASE WaitCancelled BY <1>0, <1>6, PrefixUnchanged DEF WaitCancelled
<1>7. CASE StopWorkers
  <2>1. \A i \in Tables : job'[i] = "ok" <=> job[i] = "ok"
    BY <1>7 DEF StopWorkers
  <2> QED BY <1>0, <1>7, <2>1, PrefixUnchanged DEF StopWorkers
<1>8. CASE Drain BY <1>0, <1>8, PrefixUnchanged DEF Drain
<1>9. CASE Merge BY <1>9, MergePrefix
<1>10. CASE Assemble BY <1>10, AssemblePrefix
<1>11. CASE Report BY <1>11, ReportPrefix
<1>12. CASE CleanupRoot BY <1>0, <1>12, PrefixUnchanged DEF CleanupRoot
<1>13. CASE Compare BY <1>0, <1>13, PrefixUnchanged DEF Compare
<1>14. CASE Join BY <1>0, <1>14, PrefixUnchanged DEF Join
<1>15. CASE InterruptTry BY <1>0, <1>15, PrefixUnchanged DEF InterruptTry
<1>16. CASE InterruptElsewhere BY <1>0, <1>16, PrefixUnchanged DEF InterruptElsewhere
<1> QED BY <1>1, <1>2, <1>3, <1>4, <1>5, <1>6, <1>7, <1>8, <1>9, <1>10, <1>11, <1>12, <1>13, <1>14, <1>15, <1>16
        DEF Coordinator, CoordinatorStep

\* A result is returned only behind the last batch, and the evidence root is gone.
LEMMA CoordinatorResult ==
  ASSUME Inv, WorkInv, Coordinator
  PROVE  ResultIsWhole'
<1> SUFFICES ASSUME main' \in {"compare", "returned"}
             PROVE  ResultIsWhole'
  BY DEF ResultIsWhole
<1> USE DEF CoordinatorOnly, Goto, Raise, batch, results
<1>1. CASE CleanupRoot
  <2>1. /\ main = "batch" /\ main' = "compare" /\ base > N /\ base \in Nat
        /\ root' = FALSE /\ shard' = [i \in Tables |-> "absent"]
        /\ UNCHANGED <<merged, written, torn, table, reader>>
    BY <1>1 DEF CleanupRoot, Inv, TypeOK
  <2>2. main \in Loop /\ MergedUpTo = base - 1 /\ WrittenUpTo = base - 1
    BY <2>1 DEF Loop, Coordinating, MergedUpTo, WrittenUpTo
  <2>3. base - 1 = N
    BY <2>1, TablesAssumption DEF WorkInv, AcceptedIsAPrefix
  <2>4. \A i \in Tables : i <= WrittenUpTo
    BY <2>1, <2>2, <2>3 DEF Tables
  <2>5. \A i \in Tables : table[i] = "placed" /\ ~reader[i]
    BY <2>2, <2>4 DEF WorkInv, AcceptedIsAPrefix, WorkerOwnsItsFiles
  <2> QED BY <2>1, <2>2, <2>3, <2>5 DEF ResultIsWhole, WorkInv, AcceptedIsAPrefix, Tables
<1>2. CASE Compare
  BY <1>2 DEF Compare, WorkInv, ResultIsWhole
<1>3. ~(\/ StartPhase \/ NextBatch \/ InlineReturns \/ Submit \/ Wait \/ StopWorkers \/ Drain \/ Join
        \/ Merge \/ Assemble \/ Report \/ WaitCancelled \/ InterruptTry \/ InterruptElsewhere)
  BY DEF StartPhase, NextBatch, InlineReturns, Submit, Wait, StopWorkers, Drain, Join,
         Merge, Assemble, Report, WaitCancelled, InterruptTry, InterruptElsewhere
<1> QED BY <1>1, <1>2, <1>3 DEF Coordinator, CoordinatorStep

LEMMA WorkInit == Init => WorkInv
<1> SUFFICES ASSUME Init PROVE WorkInv
  OBVIOUS
<1>1. \A i \in Tables : WorkerOwnsItsFiles(i)
  BY DEF Init, WorkerOwnsItsFiles
<1>2. MergedUpTo = 0 /\ WrittenUpTo = 0
  BY DEF Init, MergedUpTo, WrittenUpTo
<1>3. workers \in Nat \ {0} /\ base - 1 = 0 * workers
  BY WorkersAssumption DEF Init
<1>4. AcceptedIsAPrefix
  <2>1. merged = [i \in 1..0 |-> i] /\ written = [i \in 1..0 |-> i]
    BY DEF Init
  <2>2. 0 \in 0..N /\ 1 <= N + 1
    BY TablesAssumption
  <2> QED BY <1>2, <1>3, <2>1, <2>2 DEF Init, AcceptedIsAPrefix, Tables
<1> QED BY <1>1, <1>4 DEF WorkInv, ResultIsWhole, Init

LEMMA WorkStep == Inv /\ WorkInv /\ [Next]_vars => WorkInv'
<1> SUFFICES ASSUME Inv, WorkInv, [Next]_vars PROVE WorkInv'
  OBVIOUS
<1>1. CASE Coordinator
  BY <1>1, CoordinatorOwns, CoordinatorPrefix, CoordinatorResult DEF WorkInv
<1>2. ASSUME NEW i \in Tables, Worker(i) PROVE WorkInv'
  BY <1>2, WorkerKeepsWork
<1>3. CASE UNCHANGED vars
  BY <1>3 DEF vars, batch, files, results, WorkInv, AcceptedIsAPrefix, ResultIsWhole, WorkerOwnsItsFiles,
              LastTable, Batch, MergedUpTo, WrittenUpTo, Loop
<1> QED BY <1>1, <1>2, <1>3 DEF Next, Terminated

\* A table is placed only when its whole batch has succeeded: the batches before
\* it have smaller numbers.
LEMMA BatchesAreWhole ==
  ASSUME Inv, WorkInv
  PROVE  BatchIsAllOrNothing
<1> SUFFICES ASSUME NEW i \in Tables, NEW j \in Tables, table[i] = "placed",
                    job[j] \in Running \cup {"queued", "failed", "cancelled"}
             PROVE  (i - 1) \div workers < (j - 1) \div workers
  BY DEF BatchIsAllOrNothing
<1>1. job[j] \notin {"ok", "idle"}
  BY DEF Running, Body, Handler
<1>2. j \in Batch /\ base <= j
  BY <1>1, LastTableType DEF Inv, TypeOK, BatchIsKept, Tables
<1>3. i < base
  BY <1>1, <1>2 DEF WorkInv, AcceptedIsAPrefix
<1>4. base <= N /\ base \in Nat \ {0}
  BY <1>2, TablesAssumption DEF Inv, TypeOK, Tables
<1>5. PICK k \in 0..N : base - 1 = k * workers
  BY <1>4 DEF WorkInv, AcceptedIsAPrefix
<1>6. /\ workers \in Nat \ {0} /\ k \in Nat
      /\ i - 1 \in Nat /\ j - 1 \in Nat
      /\ i - 1 < base - 1 /\ j - 1 >= base - 1
  BY <1>2, <1>3, <1>4, WorkersAssumption DEF Inv, TypeOK, Tables
<1>7. (i - 1) \div workers < k
  BY <1>5, <1>6, DivBound
<1>8. (j - 1) \div workers >= k
  BY <1>5, <1>6, DivBound
<1>9. (i - 1) \div workers \in Int /\ (j - 1) \div workers \in Int
  BY <1>6
<1> QED BY <1>6, <1>7, <1>8, <1>9

\* A worker that was stopped leaves no shard and no vault connection behind.
LEMMA StoppedIsClean ==
  ASSUME WorkInv
  PROVE  FailedWorkerIsClean
BY DEF WorkInv, WorkerOwnsItsFiles, FailedWorkerIsClean

\* Pass 2 yields a whole result or none, for every number of tables and of
\* workers and whatever fails: what run_pass_two returns is complete, a batch is
\* accepted as a whole, and a stopped worker leaves nothing behind.
THEOREM WholeOrNothingTheorem == Spec => []WholeOrNothing
<1>1. Inv /\ WorkInv /\ [Next]_vars => WorkInv'
  BY WorkStep
<1>2. Spec => []WorkInv
  BY Safety, WorkInit, <1>1, PTL DEF Spec
<1>3. Inv /\ WorkInv => WholeOrNothing
  BY BatchesAreWhole, StoppedIsClean DEF WholeOrNothing, WorkInv
<1> QED BY Safety, <1>2, <1>3, PTL

-----------------------------------------------------------------------------
(* Counting a stream of key tuples.                                        *)

\* The tuples without a NULL among the first n, and where one of them stands.
FullUpTo(stream, n) == {i \in 1..n : Absent \notin Elements(stream[i])}
Sightings(stream, n, k) == {i \in FullUpTo(stream, n) : stream[i] = k}

\* How often each key stands among the first n tuples.
CountedKeys(stream, n) ==
    [k \in {stream[i] : i \in FullUpTo(stream, n)} |-> Cardinality(Sightings(stream, n, k))]

\* The evidence of the first n tuples, counted at once.
Counted(stream, n) ==
    [rows |-> n, nulls |-> n - Cardinality(FullUpTo(stream, n)), keys |-> CountedKeys(stream, n)]

\* The positions are finitely many, and a key that was seen has a count.
LEMMA CountsArePositive ==
  ASSUME NEW stream, NEW n \in Nat
  PROVE  /\ IsFiniteSet(FullUpTo(stream, n))
         /\ Cardinality(FullUpTo(stream, n)) \in Nat /\ Cardinality(FullUpTo(stream, n)) <= n
         /\ \A k : /\ IsFiniteSet(Sightings(stream, n, k))
                   /\ Cardinality(Sightings(stream, n, k)) \in Nat
         /\ \A k \in DOMAIN CountedKeys(stream, n) :
               CountedKeys(stream, n)[k] = Cardinality(Sightings(stream, n, k))
         /\ \A k \in DOMAIN CountedKeys(stream, n) :
               CountedKeys(stream, n)[k] \in Nat \ {0}
<1>1. IsFiniteSet(1..n) /\ Cardinality(1..n) = n
  BY FirstNumbers
<1>2. FullUpTo(stream, n) \in SUBSET (1..n)
  BY DEF FullUpTo
<1>3. /\ IsFiniteSet(FullUpTo(stream, n))
      /\ Cardinality(FullUpTo(stream, n)) \in Nat /\ Cardinality(FullUpTo(stream, n)) <= n
  BY <1>1, <1>2, FS_Subset, FS_CardinalityType
<1>4. ASSUME NEW k
      PROVE  /\ IsFiniteSet(Sightings(stream, n, k))
             /\ Cardinality(Sightings(stream, n, k)) \in Nat
  <2>1. Sightings(stream, n, k) \in SUBSET FullUpTo(stream, n)
    BY DEF Sightings
  <2> QED BY <1>3, <2>1, FS_Subset, FS_CardinalityType
<1>5. ASSUME NEW k \in DOMAIN CountedKeys(stream, n)
      PROVE  /\ CountedKeys(stream, n)[k] = Cardinality(Sightings(stream, n, k))
             /\ Sightings(stream, n, k) # {}
  BY <1>5 DEF CountedKeys, Sightings
<1>6. ASSUME NEW k \in DOMAIN CountedKeys(stream, n)
      PROVE  CountedKeys(stream, n)[k] \in Nat \ {0}
  BY <1>4, <1>5, FS_EmptySet
<1> QED BY <1>3, <1>4, <1>5, <1>6

\* A tuple with a NULL leaves the keys as they are.
LEMMA NullStep ==
  ASSUME NEW stream, NEW n \in Nat \ {0}, Absent \in Elements(stream[n])
  PROVE  /\ FullUpTo(stream, n) = FullUpTo(stream, n - 1)
         /\ CountedKeys(stream, n) = CountedKeys(stream, n - 1)
<1>1. FullUpTo(stream, n) = FullUpTo(stream, n - 1)
  BY DEF FullUpTo
<1>2. \A k : Sightings(stream, n, k) = Sightings(stream, n - 1, k)
  BY <1>1 DEF Sightings
<1> QED BY <1>1, <1>2 DEF CountedKeys

\* A tuple without one is one occurrence more of its key.
LEMMA KeyStep ==
  ASSUME NEW stream, NEW n \in Nat \ {0}, Absent \notin Elements(stream[n])
  PROVE  /\ n \notin FullUpTo(stream, n - 1)
         /\ FullUpTo(stream, n) = FullUpTo(stream, n - 1) \cup {n}
         /\ Cardinality(FullUpTo(stream, n)) = Cardinality(FullUpTo(stream, n - 1)) + 1
         /\ CountedKeys(stream, n) = OneMore(CountedKeys(stream, n - 1), stream[n])
<1> DEFINE F == FullUpTo(stream, n - 1)
           K == CountedKeys(stream, n - 1)
<1>1. n - 1 \in Nat
  OBVIOUS
<1>2. n \notin F /\ FullUpTo(stream, n) = F \cup {n}
  BY DEF FullUpTo
<1>3. IsFiniteSet(F) /\ Cardinality(FullUpTo(stream, n)) = Cardinality(F) + 1
  <2>1. IsFiniteSet(F)
    BY <1>1, CountsArePositive
  <2> HIDE DEF F
  <2> QED BY <1>2, <2>1, FS_AddElement
<1>4. DOMAIN K = {stream[i] : i \in F}
  BY DEF CountedKeys
<1>5. ASSUME NEW k
      PROVE  Occurrences(K, k) = Cardinality(Sightings(stream, n - 1, k))
  <2>1. CASE k \in DOMAIN K
    BY <1>1, <2>1, CountsArePositive DEF Occurrences
  <2>2. CASE k \notin DOMAIN K
    <3>1. Sightings(stream, n - 1, k) = {}
      BY <1>4, <2>2 DEF Sightings
    <3> QED BY <2>2, <3>1, FS_EmptySet DEF Occurrences
  <2> QED BY <2>1, <2>2
<1>6. ASSUME NEW k
      PROVE  Cardinality(Sightings(stream, n, k))
                = Occurrences(K, k) + IF k = stream[n] THEN 1 ELSE 0
  <2>1. CASE k = stream[n]
    <3>1. Sightings(stream, n, k) = Sightings(stream, n - 1, k) \cup {n}
      BY <1>2, <2>1 DEF Sightings
    <3>2. n \notin Sightings(stream, n - 1, k)
      BY <1>2 DEF Sightings
    <3>3. Cardinality(Sightings(stream, n, k)) = Cardinality(Sightings(stream, n - 1, k)) + 1
      BY <1>1, <3>1, <3>2, CountsArePositive, FS_AddElement
    <3> QED BY <1>5, <2>1, <3>3
  <2>2. CASE k # stream[n]
    <3>1. Sightings(stream, n, k) = Sightings(stream, n - 1, k)
      BY <1>2, <2>2 DEF Sightings
    <3>2. Occurrences(K, k) \in Nat
      BY <1>1, <1>5, CountsArePositive
    <3> QED BY <1>5, <2>2, <3>1, <3>2
  <2> QED BY <2>1, <2>2
<1>7. {stream[i] : i \in FullUpTo(stream, n)} = DOMAIN K \cup {stream[n]}
  BY <1>2, <1>4
<1> HIDE DEF K
<1>8. CountedKeys(stream, n) = OneMore(K, stream[n])
  BY <1>6, <1>7 DEF CountedKeys, OneMore
<1> QED BY <1>2, <1>3, <1>8 DEF K

\* The evidence of nothing.
LEMMA CountedNothing ==
  ASSUME NEW stream
  PROVE  Counted(stream, 0) = NoEvidence
<1>1. FullUpTo(stream, 0) = {}
  BY DEF FullUpTo
<1>2. CountedKeys(stream, 0) = [k \in {} |-> 0]
  BY <1>1 DEF CountedKeys
<1>3. 0 - Cardinality(FullUpTo(stream, 0)) = 0
  BY <1>1, FS_EmptySet
<1> QED BY <1>2, <1>3 DEF Counted, NoEvidence

\* One observation counts one tuple more.
LEMMA ObserveCounts ==
  ASSUME NEW stream, NEW n \in Nat \ {0}
  PROVE  Counted(stream, n) = observe_relation_side(Counted(stream, n - 1), stream[n])
<1>1. n - 1 \in Nat /\ Cardinality(FullUpTo(stream, n - 1)) \in Nat
  BY CountsArePositive
<1>2. CASE Absent \in Elements(stream[n])
  BY <1>1, <1>2, NullStep DEF Counted, observe_relation_side
<1>3. CASE Absent \notin Elements(stream[n])
  <2>1. Cardinality(FullUpTo(stream, n)) = Cardinality(FullUpTo(stream, n - 1)) + 1
    BY <1>3, KeyStep
  <2>2. n - Cardinality(FullUpTo(stream, n)) = (n - 1) - Cardinality(FullUpTo(stream, n - 1))
    BY <1>1, <2>1
  <2>3. CountedKeys(stream, n) = OneMore(CountedKeys(stream, n - 1), stream[n])
    BY <1>3, KeyStep
  <2> QED BY <1>1, <1>3, <2>2, <2>3 DEF Counted, observe_relation_side
<1> QED BY <1>2, <1>3

\* pass1._observe_relation_side over a whole stream: the recursion gives the
\* evidence counted at once.
LEMMA ObservedIsCounted ==
  ASSUME NEW stream, Len(stream) \in Nat
  PROVE  Observed(stream) = Counted(stream, Len(stream))
<1> DEFINE Length == Len(stream)
           Unfold(w) == [n \in 0..Length |-> IF n = 0 THEN NoEvidence
                                      ELSE observe_relation_side(w[n - 1], stream[n])]
           e == CHOOSE w : w = Unfold(w)
           c == [n \in 0..Length |-> Counted(stream, n)]
<1>1. Observed(stream) = e[Length]
  BY DEF Observed
<1>2. ASSUME NEW n \in 0..Length, n # 0
      PROVE  n - 1 \in 0..Length /\ n \in Nat \ {0}
  BY <1>2
<1> HIDE DEF Length
<1>3. ASSUME NEW n \in 0..Length
      PROVE  c[n] = IF n = 0 THEN NoEvidence ELSE observe_relation_side(c[n - 1], stream[n])
  <2>1. CASE n = 0
    BY <2>1, CountedNothing
  <2>2. CASE n # 0
    <3>1. c[n] = Counted(stream, n) /\ c[n - 1] = Counted(stream, n - 1)
      BY <1>2, <2>2
    <3> QED BY <1>2, <2>2, <3>1, ObserveCounts
  <2> QED BY <2>1, <2>2
<1>4. c = Unfold(c)
  BY <1>3
<1>5. e = Unfold(e)
  BY <1>4
<1> HIDE DEF e
<1>6. \A n \in 0..Length : e[n] = Counted(stream, n)
  <2> DEFINE Bad == {n \in Nat : n \in 0..Length /\ e[n] # Counted(stream, n)}
  <2> SUFFICES ASSUME Bad # {} PROVE FALSE
    BY Len(stream) \in Nat DEF Length
  <2>1. PICK n \in Bad : \A j \in Bad : n <= j
    BY LeastNatural
  <2>2. n \in 0..Length /\ e[n] # Counted(stream, n)
    OBVIOUS
  <2>3. e[n] = IF n = 0 THEN NoEvidence ELSE observe_relation_side(e[n - 1], stream[n])
    BY <1>5, <2>2
  <2>4. n # 0
    BY <2>2, <2>3, CountedNothing
  <2>5. n - 1 \in 0..Length /\ n - 1 \in Nat /\ n \in Nat \ {0} /\ n - 1 \notin Bad
    BY <1>2, <2>1, <2>2, <2>4
  <2>6. e[n - 1] = Counted(stream, n - 1)
    BY <2>5
  <2> QED BY <2>2, <2>3, <2>4, <2>5, <2>6, ObserveCounts
<1> QED BY <1>1, <1>6 DEF Length

\* RelationshipEvidenceAccumulator over a whole stream counts the same.
LEMMA AccumulatedIsCounted ==
  ASSUME NEW stream, Len(stream) \in Nat
  PROVE  AccumulatedSide(stream)
            = [nulls |-> Counted(stream, Len(stream)).nulls,
               counts |-> Counted(stream, Len(stream)).keys]
<1> DEFINE Length == Len(stream)
           Start == [nulls |-> 0, counts |-> [k \in {} |-> 0]]
           Unfold(w) == [n \in 0..Length |-> IF n = 0 THEN Start ELSE AccumulateOne(w[n - 1], stream[n])]
           Goal(n) == [nulls |-> n - Cardinality(FullUpTo(stream, n)),
                       counts |-> CountedKeys(stream, n)]
           a == CHOOSE w : w = Unfold(w)
           c == [n \in 0..Length |-> Goal(n)]
<1>1. AccumulatedSide(stream) = a[Length]
  BY DEF AccumulatedSide
<1>2. ASSUME NEW n \in 0..Length, n # 0
      PROVE  n - 1 \in 0..Length /\ n \in Nat \ {0}
  BY <1>2
<1>3. Goal(0) = Start
  <2>1. Counted(stream, 0) = NoEvidence
    BY CountedNothing
  <2> QED BY <2>1 DEF Counted, NoEvidence
<1>4. ASSUME NEW n \in Nat \ {0}
      PROVE  Goal(n) = AccumulateOne(Goal(n - 1), stream[n])
  <2>1. n - 1 \in Nat /\ Cardinality(FullUpTo(stream, n - 1)) \in Nat
    BY CountsArePositive
  <2>2. CASE Absent \in Elements(stream[n])
    BY <2>1, <2>2, NullStep DEF AccumulateOne
  <2>3. CASE Absent \notin Elements(stream[n])
    <3>1. Cardinality(FullUpTo(stream, n)) = Cardinality(FullUpTo(stream, n - 1)) + 1
      BY <2>3, KeyStep
    <3>2. n - Cardinality(FullUpTo(stream, n)) = (n - 1) - Cardinality(FullUpTo(stream, n - 1))
      BY <2>1, <3>1
    <3>3. CountedKeys(stream, n) = OneMore(CountedKeys(stream, n - 1), stream[n])
      BY <2>3, KeyStep
    <3> QED BY <2>1, <2>3, <3>2, <3>3 DEF AccumulateOne
  <2> QED BY <2>2, <2>3
<1>5. Goal(Length) = [nulls |-> Counted(stream, Length).nulls, counts |-> Counted(stream, Length).keys]
  BY DEF Counted
<1> HIDE DEF Length, Goal, Start
<1>6. ASSUME NEW n \in 0..Length
      PROVE  c[n] = IF n = 0 THEN Start ELSE AccumulateOne(c[n - 1], stream[n])
  <2>1. CASE n = 0
    BY <1>3, <2>1
  <2>2. CASE n # 0
    <3>1. c[n] = Goal(n) /\ c[n - 1] = Goal(n - 1)
      BY <1>2, <2>2
    <3> QED BY <1>2, <1>4, <2>2, <3>1
  <2> QED BY <2>1, <2>2
<1>7. c = Unfold(c)
  BY <1>6
<1>8. a = Unfold(a)
  BY <1>7
<1> HIDE DEF a
<1>9. \A n \in 0..Length : a[n] = Goal(n)
  <2> DEFINE Bad == {n \in Nat : n \in 0..Length /\ a[n] # Goal(n)}
  <2> SUFFICES ASSUME Bad # {} PROVE FALSE
    BY Len(stream) \in Nat DEF Length
  <2>1. PICK n \in Bad : \A j \in Bad : n <= j
    BY LeastNatural
  <2>2. n \in 0..Length /\ a[n] # Goal(n)
    OBVIOUS
  <2>3. a[n] = IF n = 0 THEN Start ELSE AccumulateOne(a[n - 1], stream[n])
    BY <1>8, <2>2
  <2>4. n # 0
    BY <1>3, <2>2, <2>3
  <2>5. n - 1 \in 0..Length /\ n - 1 \in Nat /\ n \in Nat \ {0} /\ n - 1 \notin Bad
    BY <1>2, <2>1, <2>2, <2>4
  <2>6. a[n - 1] = Goal(n - 1)
    BY <2>5
  <2> QED BY <1>4, <2>2, <2>3, <2>4, <2>5, <2>6
<1> QED BY <1>1, <1>5, <1>9 DEF Length

-----------------------------------------------------------------------------
(* Sums of counts.                                                         *)

\* The occurrences of the keys in S, as pairs.
Pairs(keys, S) == UNION {{<<k, n>> : n \in 1..keys[k]} : k \in S}

LEMMA SumIsPairs ==
  ASSUME NEW keys, NEW S
  PROVE  SumOf(keys, S) = Cardinality(Pairs(keys, S))
BY DEF SumOf, Pairs

LEMMA PairsMember ==
  ASSUME NEW keys, NEW S, NEW p
  PROVE  p \in Pairs(keys, S) <=> \E k \in S : \E n \in 1..keys[k] : p = <<k, n>>
BY DEF Pairs

\* Every full tuple is one occurrence: the counts of all keys sum up to the
\* number of tuples without a NULL.
LEMMA TotalIsFull ==
  ASSUME NEW stream, NEW Length \in Nat
  PROVE  LET K == CountedKeys(stream, Length) IN
         /\ IsFiniteSet(Pairs(K, DOMAIN K))
         /\ SumOf(K, DOMAIN K) = Cardinality(FullUpTo(stream, Length))
<1> DEFINE K(n) == CountedKeys(stream, n)
           P(n) == Pairs(K(n), DOMAIN K(n))
           Good(n) == IsFiniteSet(P(n)) /\ Cardinality(P(n)) = Cardinality(FullUpTo(stream, n))
           Bad == {n \in Nat : ~Good(n)}
<1>1. Good(0)
  <2>1. Counted(stream, 0) = NoEvidence /\ FullUpTo(stream, 0) = {}
    BY CountedNothing DEF FullUpTo
  <2>2. DOMAIN K(0) = {}
    BY <2>1 DEF Counted, NoEvidence
  <2>3. P(0) = {}
    BY <2>2 DEF Pairs
  <2> QED BY <2>1, <2>3, FS_EmptySet
<1>2. ASSUME NEW n \in Nat \ {0}, Good(n - 1)
      PROVE  Good(n)
  <2>1. CASE Absent \in Elements(stream[n])
    BY <1>2, <2>1, NullStep
  <2>2. CASE Absent \notin Elements(stream[n])
    <3> DEFINE t == stream[n]
               J == CountedKeys(stream, n - 1)
               L == CountedKeys(stream, n)
    <3>1. n - 1 \in Nat /\ L = OneMore(J, t)
          /\ Cardinality(FullUpTo(stream, n)) = Cardinality(FullUpTo(stream, n - 1)) + 1
      BY <2>2, KeyStep
    <3>2. \A k \in DOMAIN J : J[k] \in Nat
      BY <3>1, CountsArePositive
    <3>3. Good(n - 1)
      BY <1>2
    <3> HIDE DEF J, L, t
    <3>4. /\ DOMAIN L = DOMAIN J \cup {t} /\ Occurrences(J, t) \in Nat
          /\ L[t] = Occurrences(J, t) + 1
          /\ \A k \in DOMAIN J : k # t => L[k] = J[k]
      BY <3>1, <3>2 DEF OneMore, Occurrences
    <3> DEFINE new == <<t, L[t]>>
               A == Pairs(J, DOMAIN J)
               B == Pairs(L, DOMAIN L)
    <3>5. new \notin A
      <4> SUFFICES ASSUME new \in A PROVE FALSE
        OBVIOUS
      <4>1. PICK k \in DOMAIN J : \E i \in 1..J[k] : new = <<k, i>>
        BY PairsMember
      <4>2. k = t /\ L[t] \in 1..J[t]
        BY <4>1
      <4> QED BY <3>2, <3>4, <4>1, <4>2 DEF Occurrences
    <3>6. \A p : p \in B <=> p \in A \cup {new}
      <4>1. ASSUME NEW p, p \in B PROVE p \in A \cup {new}
        <5>1. PICK k, i : k \in DOMAIN L /\ i \in 1..L[k] /\ p = <<k, i>>
          BY <4>1, PairsMember
        <5>2. CASE k # t
          <6>1. k \in DOMAIN J /\ i \in 1..J[k]
            BY <3>4, <5>1, <5>2
          <6> QED BY <5>1, <6>1, PairsMember
        <5>3. CASE k = t /\ i = L[t]
          BY <5>1, <5>3
        <5>4. CASE k = t /\ i # L[t]
          <6>1. i \in 1..Occurrences(J, t)
            BY <3>4, <5>1, <5>4
          <6>2. t \in DOMAIN J /\ i \in 1..J[t]
            BY <6>1 DEF Occurrences
          <6> QED BY <5>1, <5>4, <6>2, PairsMember
        <5> QED BY <5>2, <5>3, <5>4
      <4>2. ASSUME NEW p, p \in A PROVE p \in B
        <5>1. PICK k, i : k \in DOMAIN J /\ i \in 1..J[k] /\ p = <<k, i>>
          BY <4>2, PairsMember
        <5>2. k \in DOMAIN L /\ i \in 1..L[k]
          BY <3>2, <3>4, <5>1 DEF Occurrences
        <5> QED BY <5>1, <5>2, PairsMember
      <4>3. new \in B
        <5>1. t \in DOMAIN L /\ L[t] \in 1..L[t]
          BY <3>4
        <5> QED BY <5>1, PairsMember
      <4> HIDE DEF A, B, new
      <4> QED BY <4>1, <4>2, <4>3
    <3>7. B = A \cup {new}
      BY <3>6
    <3>8. IsFiniteSet(A) /\ Cardinality(A) = Cardinality(FullUpTo(stream, n - 1))
      BY <3>3 DEF J
    <3> HIDE DEF A, B, new
    <3>9. IsFiniteSet(B) /\ Cardinality(B) = Cardinality(A) + 1
      BY <3>5, <3>7, <3>8, FS_AddElement
    <3> QED BY <3>1, <3>8, <3>9 DEF B, L
  <2> QED BY <2>1, <2>2
<1> HIDE DEF Good
<1>3. Bad = {}
  <2> SUFFICES ASSUME Bad # {} PROVE FALSE
    OBVIOUS
  <2>1. PICK n \in Bad : \A j \in Bad : n <= j
    BY LeastNatural
  <2>2. n # 0
    BY <1>1
  <2>3. n \in Nat \ {0} /\ n - 1 \in Nat /\ n - 1 \notin Bad
    BY <2>1, <2>2
  <2> QED BY <1>2, <2>1, <2>3
<1>4. Good(Length)
  BY <1>3
<1> QED BY <1>4, SumIsPairs DEF Good

\* The sums of two functions are equal when a bijection carries one to the
\* other.
LEMMA SameSums ==
  ASSUME NEW K, NEW L, NEW S, NEW T, NEW b \in Bijection(S, T),
         \A k \in S : L[b[k]] = K[k],
         IsFiniteSet(Pairs(K, S))
  PROVE  SumOf(K, S) = SumOf(L, T)
<1> DEFINE f == [p \in Pairs(K, S) |-> <<b[p[1]], p[2]>>]
<1>1. b \in [S -> T] /\ (\A x, y \in S : b[x] = b[y] => x = y) /\ \A y \in T : \E x \in S : b[x] = y
  BY DEF Bijection, Injection, Surjection, IsInjective
<1>2. ASSUME NEW p \in Pairs(K, S)
      PROVE  /\ p = <<p[1], p[2]>> /\ p[1] \in S /\ p[2] \in 1..K[p[1]]
             /\ f[p] = <<b[p[1]], p[2]>> /\ f[p] \in Pairs(L, T)
  <2>1. PICK k, n : k \in S /\ n \in 1..K[k] /\ p = <<k, n>>
    BY PairsMember
  <2>2. b[k] \in T /\ n \in 1..L[b[k]]
    BY <1>1, <2>1
  <2>3. f[p] = <<b[k], n>>
    BY <2>1
  <2>4. f[p] \in Pairs(L, T)
    BY <2>2, <2>3, PairsMember
  <2> QED BY <2>1, <2>3, <2>4
<1>3. f \in [Pairs(K, S) -> Pairs(L, T)]
  BY <1>2
<1>4. ASSUME NEW p \in Pairs(K, S), NEW q \in Pairs(K, S), f[p] = f[q]
      PROVE  p = q
  <2>1. b[p[1]] = b[q[1]] /\ p[2] = q[2]
    BY <1>2, <1>4
  <2>2. p[1] = q[1]
    BY <1>1, <1>2, <2>1
  <2> QED BY <1>2, <2>1, <2>2
<1>5. ASSUME NEW q \in Pairs(L, T)
      PROVE  \E p \in Pairs(K, S) : f[p] = q
  <2>1. PICK l, n : l \in T /\ n \in 1..L[l] /\ q = <<l, n>>
    BY PairsMember
  <2>2. PICK k \in S : b[k] = l
    BY <1>1, <2>1
  <2>3. <<k, n>> \in Pairs(K, S)
    BY <2>1, <2>2, PairsMember
  <2> QED BY <2>1, <2>2, <2>3
<1> HIDE DEF f
<1>6. f \in Bijection(Pairs(K, S), Pairs(L, T))
  BY <1>3, <1>4, <1>5 DEF Bijection, Injection, Surjection, IsInjective
<1>7. Cardinality(Pairs(L, T)) = Cardinality(Pairs(K, S))
  BY <1>6, FS_Bijection DEF ExistsBijection
<1> QED BY <1>7, SumIsPairs

\* Two functions with the same multiset of counts are carried to each other by
\* a bijection of their domains.
LEMMA ProfileGivesBijection ==
  ASSUME NEW K, NEW L, IsFiniteSet(DOMAIN K), IsFiniteSet(DOMAIN L),
         relation_histogram_stream(K) = relation_histogram_stream(L)
  PROVE  \E b \in Bijection(DOMAIN K, DOMAIN L) : \A k \in DOMAIN K : L[b[k]] = K[k]
<1> DEFINE FK(c) == {k \in DOMAIN K : K[k] = c}
           FL(c) == {l \in DOMAIN L : L[l] = c}
           C == {K[k] : k \in DOMAIN K}
           beta(c) == CHOOSE f : f \in Bijection(FK(c), FL(c))
           b == [k \in DOMAIN K |-> beta(K[k])[k]]
<1>1. C = {L[l] : l \in DOMAIN L} /\ \A c \in C : Cardinality(FK(c)) = Cardinality(FL(c))
  <2>1. /\ DOMAIN relation_histogram_stream(K) = C
        /\ DOMAIN relation_histogram_stream(L) = {L[l] : l \in DOMAIN L}
    BY DEF relation_histogram_stream
  <2>2. ASSUME NEW c \in C PROVE Cardinality(FK(c)) = Cardinality(FL(c))
    <3>1. c \in {L[l] : l \in DOMAIN L}
      BY <2>1
    <3>2. relation_histogram_stream(K)[c] = Cardinality(FK(c))
      BY DEF relation_histogram_stream
    <3>3. relation_histogram_stream(L)[c] = Cardinality(FL(c))
      BY <3>1 DEF relation_histogram_stream
    <3> QED BY <3>2, <3>3
  <2> QED BY <2>1, <2>2
<1>2. ASSUME NEW c \in C
      PROVE  beta(c) \in Bijection(FK(c), FL(c))
  <2>1. FK(c) \in SUBSET DOMAIN K /\ FL(c) \in SUBSET DOMAIN L
    OBVIOUS
  <2>2. IsFiniteSet(FK(c)) /\ IsFiniteSet(FL(c))
    BY <2>1, FS_Subset
  <2>3. ExistsBijection(FK(c), FL(c))
    BY <1>1, <2>2, FS_SameCardinalityBij
  <2> QED BY <2>3 DEF ExistsBijection
<1>3. ASSUME NEW c \in C
      PROVE  /\ \A k \in FK(c) : beta(c)[k] \in FL(c)
             /\ \A x, y \in FK(c) : beta(c)[x] = beta(c)[y] => x = y
             /\ \A l \in FL(c) : \E k \in FK(c) : beta(c)[k] = l
  <2> HIDE DEF FK, FL, beta
  <2> QED BY <1>2 DEF Bijection, Injection, Surjection, IsInjective
<1>4. ASSUME NEW k \in DOMAIN K
      PROVE  K[k] \in C /\ k \in FK(K[k]) /\ b[k] = beta(K[k])[k]
  OBVIOUS
<1> HIDE DEF beta, b, C
<1>5. ASSUME NEW k \in DOMAIN K PROVE b[k] \in DOMAIN L /\ L[b[k]] = K[k]
  <2>1. b[k] \in FL(K[k])
    BY <1>3, <1>4
  <2> QED BY <2>1
<1>6. ASSUME NEW x \in DOMAIN K, NEW y \in DOMAIN K, b[x] = b[y] PROVE x = y
  <2>1. K[x] = K[y]
    BY <1>5, <1>6
  <2>2. x \in FK(K[x]) /\ y \in FK(K[x]) /\ K[x] \in C /\ beta(K[x])[x] = beta(K[x])[y]
    BY <1>4, <1>6, <2>1
  <2> QED BY <1>3, <2>2
<1>7. ASSUME NEW l \in DOMAIN L PROVE \E k \in DOMAIN K : b[k] = l
  <2>1. L[l] \in C /\ l \in FL(L[l])
    BY <1>1
  <2>2. PICK k \in FK(L[l]) : beta(L[l])[k] = l
    BY <1>3, <2>1
  <2>3. k \in DOMAIN K /\ K[k] = L[l]
    OBVIOUS
  <2> QED BY <1>4, <2>2, <2>3
<1>8. b \in [DOMAIN K -> DOMAIN L]
  BY <1>5 DEF b
<1>9. b \in Bijection(DOMAIN K, DOMAIN L)
  BY <1>6, <1>7, <1>8 DEF Bijection, Injection, Surjection, IsInjective
<1> QED BY <1>5, <1>9

\* And a bijection that carries the counts keeps their multiset.
LEMMA BijectionKeepsProfile ==
  ASSUME NEW K, NEW L, IsFiniteSet(DOMAIN K), NEW b \in Bijection(DOMAIN K, DOMAIN L),
         \A k \in DOMAIN K : L[b[k]] = K[k]
  PROVE  relation_histogram_stream(K) = relation_histogram_stream(L)
<1> DEFINE FK(c) == {k \in DOMAIN K : K[k] = c}
           FL(c) == {l \in DOMAIN L : L[l] = c}
<1>1. /\ b \in [DOMAIN K -> DOMAIN L]
      /\ \A x, y \in DOMAIN K : b[x] = b[y] => x = y
      /\ \A y \in DOMAIN L : \E x \in DOMAIN K : b[x] = y
  BY DEF Bijection, Injection, Surjection, IsInjective
<1>2. {K[k] : k \in DOMAIN K} = {L[l] : l \in DOMAIN L}
  BY <1>1
<1>3. ASSUME NEW c PROVE Cardinality(FK(c)) = Cardinality(FL(c))
  <2> DEFINE f == [k \in FK(c) |-> b[k]]
  <2>1. IsFiniteSet(FK(c))
    BY FS_Subset
  <2>2. f \in [FK(c) -> FL(c)]
    BY <1>1
  <2>3. \A x, y \in FK(c) : f[x] = f[y] => x = y
    BY <1>1
  <2>4. \A y \in FL(c) : \E x \in FK(c) : f[x] = y
    BY <1>1
  <2> HIDE DEF f, FK, FL
  <2>5. f \in Bijection(FK(c), FL(c))
    BY <2>2, <2>3, <2>4 DEF Bijection, Injection, Surjection, IsInjective
  <2> QED BY <2>1, <2>5, FS_Bijection DEF ExistsBijection
<1> QED BY <1>2, <1>3 DEF relation_histogram_stream

-----------------------------------------------------------------------------
(* Documents, members and sides.                                           *)

\* A list: its positions are 1..Len.
IsList(s) == Len(s) \in Nat /\ DOMAIN s = 1..Len(s)

\* A group of a parsed document is a valid group of lists.
LEMMA ParsedGroups ==
  ASSUME NEW p \in Payloads \ {Absent}, parse_relationship_document(p),
         NEW g \in Elements(ParsedDocument(p).groups)
  PROVE  /\ StructureIsValid(g) /\ g.strategy \in {"IDENTITY", "REVERSIBLE_BIJECTIVE"}
         /\ g.members \in Seq(Elements(g.members))
         /\ \E h \in Elements(p.groups) :
               /\ parse_group(h, p.envelope # {}) /\ g = ParsedGroup(h, p.envelope # {})
<1>1. PICK i \in DOMAIN p.groups : g = ParsedGroup(p.groups[i], p.envelope # {})
  BY DEF ParsedDocument, Elements
<1> DEFINE h == p.groups[i]
<1>2. h \in Elements(p.groups)
  BY DEF Elements
<1>3. parse_group(h, p.envelope # {})
  BY <1>2 DEF parse_relationship_document
<1>4. GroupIsValid(g)
  BY <1>1, <1>3 DEF parse_group
<1>5. g.members = h.members
  BY <1>1 DEF ParsedGroup
<1>6. h.members \in Seq(Elements(h.members))
  BY <1>2, DocumentAssumption
<1> QED BY <1>1, <1>2, <1>3, <1>4, <1>5, <1>6 DEF GroupIsValid

\* Distinct groups of a parsed document have distinct numbers.
LEMMA IdsAreUnique ==
  ASSUME NEW p \in Payloads \ {Absent}, parse_relationship_document(p),
         NEW g \in Elements(ParsedDocument(p).groups),
         NEW h \in Elements(ParsedDocument(p).groups), g.id = h.id
  PROVE  g = h
<1> DEFINE n == Len(p.groups)
           ids == [i \in DOMAIN p.groups |-> p.groups[i].id]
<1>1. n \in Nat /\ DOMAIN p.groups = 1..n
  BY DocumentAssumption
<1>2. Cardinality(Elements(ids)) = Len(ids)
  BY DEF parse_relationship_document, NoRepeats
<1>3. Len(ids) = n
  BY <1>1
<1>4. ids \in Surjection(1..n, Elements(ids))
  BY <1>1 DEF Surjection, Elements
<1>5. IsFiniteSet(1..n) /\ Cardinality(1..n) = n
  BY <1>1, FirstNumbers
<1> HIDE DEF n, ids
<1>6. ids \in Injection(1..n, Elements(ids))
  BY <1>2, <1>3, <1>4, <1>5, FS_Surjection
<1>7. \A i, j \in 1..n : ids[i] = ids[j] => i = j
  BY <1>6 DEF Injection, IsInjective
<1>8. PICK i \in DOMAIN p.groups : g = ParsedGroup(p.groups[i], p.envelope # {})
  BY DEF ParsedDocument, Elements
<1>9. PICK j \in DOMAIN p.groups : h = ParsedGroup(p.groups[j], p.envelope # {})
  BY DEF ParsedDocument, Elements
<1>10. ids[i] = ids[j]
  BY <1>8, <1>9 DEF ParsedGroup, ids
<1>11. i = j
  BY <1>1, <1>7, <1>8, <1>9, <1>10
<1> QED BY <1>8, <1>9, <1>11

\* The members of a role that occurs are members of the group, one per ordinal.
LEMMA MembersOfRole ==
  ASSUME NEW g, g.members \in Seq(Elements(g.members)), StructureIsValid(g),
         NEW r, \E m \in Elements(g.members) : m.role = r
  PROVE  /\ Arity(g, r) \in Nat \ {0}
         /\ \A i \in 1..Arity(g, r) :
               members_for_role(g, r)[i] \in {m \in Elements(g.members) : m.role = r}
<1> DEFINE own == {i \in DOMAIN g.members : g.members[i].role = r}
<1>1. DOMAIN g.members = 1..Len(g.members) /\ Len(g.members) \in Nat
  OBVIOUS
<1>2. own \in SUBSET (1..Len(g.members)) /\ own # {}
  BY <1>1 DEF Elements
<1>3. IsFiniteSet(own)
  <2>1. IsFiniteSet(1..Len(g.members))
    BY <1>1, FirstNumbers
  <2> HIDE DEF own
  <2> QED BY <1>2, <2>1, FS_Subset
<1>4. Cardinality(own) \in Nat \ {0}
  BY <1>2, <1>3, FS_CardinalityType, FS_EmptySet
<1>5. Arity(g, r) \in Nat \ {0}
  BY <1>4 DEF Arity
<1>6. {m.ordinal : m \in {n \in Elements(g.members) : n.role = r}} = 1..Arity(g, r)
  BY DEF StructureIsValid
<1>7. ASSUME NEW i \in 1..Arity(g, r)
      PROVE  members_for_role(g, r)[i] \in {m \in Elements(g.members) : m.role = r}
  <2>1. \E m \in Elements(g.members) : m.role = r /\ m.ordinal = i
    BY <1>6
  <2>2. members_for_role(g, r)[i]
           = CHOOSE m \in Elements(g.members) : m.role = r /\ m.ordinal = i
    BY DEF members_for_role
  <2> QED BY <2>1, <2>2
<1> QED BY <1>5, <1>7

\* The members a side is read from.
SideMembers(g, role) == IF role = "parent" THEN parent_members(g) ELSE foreign_members(g)

\* Both sides of a valid group have members, all of one role.
LEMMA SideHasMembers ==
  ASSUME NEW g, g.members \in Seq(Elements(g.members)), StructureIsValid(g), NEW role \in Sides
  PROVE  \E r : LET ms == SideMembers(g, role) IN
            /\ 1 \in DOMAIN ms
            /\ \A i \in DOMAIN ms : ms[i] \in {m \in Elements(g.members) : m.role = r}
<1>1. CASE role = "foreign"
  <2>1. \E m \in Elements(g.members) : m.role = "FOREIGN"
    BY DEF StructureIsValid
  <2>2. /\ Arity(g, "FOREIGN") \in Nat \ {0}
        /\ \A i \in 1..Arity(g, "FOREIGN") :
              members_for_role(g, "FOREIGN")[i] \in {m \in Elements(g.members) : m.role = "FOREIGN"}
    BY <2>1, MembersOfRole
  <2>3. SideMembers(g, role) = members_for_role(g, "FOREIGN")
    BY <1>1 DEF SideMembers, foreign_members
  <2>4. DOMAIN members_for_role(g, "FOREIGN") = 1..Arity(g, "FOREIGN")
    BY DEF members_for_role
  <2> QED BY <2>2, <2>3, <2>4
<1>2. CASE role = "parent"
  <2> DEFINE r == IF Arity(g, "PRIMARY") > 0 THEN "PRIMARY" ELSE "CANDIDATE"
  <2>1. SideMembers(g, role) = members_for_role(g, r)
    BY <1>2 DEF SideMembers, parent_members
  <2>2. \E m \in Elements(g.members) : m.role = r
    <3>1. CASE \E m \in Elements(g.members) : m.role = "PRIMARY"
      <4>1. Arity(g, "PRIMARY") \in Nat \ {0}
        BY <3>1, MembersOfRole
      <4> QED BY <3>1, <4>1
    <3>2. CASE ~\E m \in Elements(g.members) : m.role = "PRIMARY"
      <4>1. \E m \in Elements(g.members) : m.role = "CANDIDATE"
        BY <3>2 DEF StructureIsValid
      <4>2. {i \in DOMAIN g.members : g.members[i].role = "PRIMARY"} = {}
        BY <3>2 DEF Elements
      <4>3. Arity(g, "PRIMARY") = 0
        BY <4>2, FS_EmptySet DEF Arity
      <4> QED BY <4>1, <4>3
    <3> QED BY <3>1, <3>2
  <2> HIDE DEF r
  <2>3. /\ Arity(g, r) \in Nat \ {0}
        /\ \A i \in 1..Arity(g, r) :
              members_for_role(g, r)[i] \in {m \in Elements(g.members) : m.role = r}
    BY <2>2, MembersOfRole
  <2>4. DOMAIN members_for_role(g, r) = 1..Arity(g, r)
    BY DEF members_for_role
  <2>5. /\ 1 \in DOMAIN members_for_role(g, r)
        /\ \A i \in DOMAIN members_for_role(g, r) :
              members_for_role(g, r)[i] \in {m \in Elements(g.members) : m.role = r}
    BY <2>3, <2>4
  <2> QED BY <2>1, <2>5
<1> QED BY <1>1, <1>2 DEF Sides

\* A side of a bound group is read from a table of the plan; when the role names
\* one table, its fields are fields of members in that table.
LEMMA SideIsBound ==
  ASSUME NEW p \in Payloads \ {Absent}, parse_relationship_document(p), NEW f \in SchemaFacts,
         DocumentBinds(f, ParsedDocument(p)),
         NEW g \in Elements(ParsedDocument(p).groups), NEW role \in Sides
  PROVE  LET side == RelationDirective(g)[role] IN
         /\ side.table \in PlanTables
         /\ OneTablePerRole(g) =>
               \A i \in DOMAIN side.fields : \E m \in Elements(g.members) :
                  m.table = side.table /\ m.field = side.fields[i]
<1> DEFINE side == RelationDirective(g)[role]
           ms == SideMembers(g, role)
<1>1. StructureIsValid(g) /\ g.members \in Seq(Elements(g.members))
  BY ParsedGroups
<1>2. PICK r : /\ 1 \in DOMAIN ms
               /\ \A i \in DOMAIN ms : ms[i] \in {m \in Elements(g.members) : m.role = r}
  BY <1>1, SideHasMembers
<1>3. side.table = ms[1].table /\ side.fields = [i \in DOMAIN ms |-> ms[i].field]
  BY DEF RelationDirective, SideMembers, Sides
<1> HIDE DEF side, ms
<1>4. MemberBinds(f, g, ms[1])
  BY <1>2 DEF DocumentBinds
<1>5. <<ms[1].table, ms[1].field>> \in DOMAIN f
  BY <1>4 DEF MemberBinds, Place
<1>6. ms[1].table \in PlanTables
  BY <1>5, SchemaAssumption
<1>7. ASSUME OneTablePerRole(g), NEW i \in DOMAIN side.fields
      PROVE  \E m \in Elements(g.members) : m.table = side.table /\ m.field = side.fields[i]
  <2>1. i \in DOMAIN ms /\ side.fields[i] = ms[i].field
    BY <1>3
  <2>2. ms[i] \in Elements(g.members) /\ ms[1] \in Elements(g.members) /\ ms[i].role = ms[1].role
    BY <1>2, <2>1
  <2>3. ms[i].table = ms[1].table
    BY <1>7, <2>2 DEF OneTablePerRole
  <2> QED BY <1>3, <2>1, <2>2, <2>3
<1> QED BY <1>3, <1>6, <1>7 DEF side

-----------------------------------------------------------------------------
(* The plan, the metadata and the level.                                   *)

\* The phases after preflight has judged the document.
Judged == {"pass1", "pass2", "derive", "done"}

\* What build_plan leaves: no document, or a parsed and bound one whose
\* metadata and binding are derived from it.
PlanIsBound ==
  \/ payload = Absent /\ doc = Absent /\ binding = Absent
  \/ /\ payload # Absent
     /\ parse_relationship_document(payload)
     /\ doc = ParsedDocument(payload)
     /\ DocumentBinds(facts, doc)
     /\ binding = (IF MintsBinding(doc) THEN AuthoritativeVFPBinding(doc) ELSE Absent)

\* The level is derived once, from the evidence of both passes.
LevelIsDerived ==
  IF phase = "done"
  THEN level = DerivedFromBoundedEvidence(meta, Verdicts, binding) /\ level # "refused"
  ELSE level \in {Absent, "refused"}

PlanInv ==
  /\ payload \in Payloads /\ facts \in SchemaFacts
  /\ phase \in Judged \cup {"preflight", "failed"} => PlanIsBound
  /\ phase \in Judged => (doc # Absent => validate_document_compatibility(doc))
  /\ LevelIsDerived

LEMMA PlanInit == AssuranceInit => PlanInv
BY DEF AssuranceInit, PlanInv, Judged, LevelIsDerived

LEMMA PlanStep == PlanInv /\ [AssuranceNext]_assurance_vars => PlanInv'
<1> SUFFICES ASSUME PlanInv, [AssuranceNext]_assurance_vars PROVE PlanInv'
  OBVIOUS
<1>1. CASE BuildPlan
  <2>1. UNCHANGED <<payload, facts, level>> /\ phase' \in {"refused", "preflight"} /\ phase = "plan"
    BY <1>1 DEF BuildPlan
  <2>2. LevelIsDerived'
    BY <2>1 DEF PlanInv, LevelIsDerived
  <2>3. phase' = "preflight" => PlanIsBound'
    <3> SUFFICES ASSUME phase' = "preflight" PROVE PlanIsBound'
      OBVIOUS
    <3>1. ~Refused
      BY <1>1 DEF BuildPlan
    <3>2. CASE payload = Absent
      BY <1>1, <3>1, <3>2, <2>1 DEF BuildPlan, PlanIsBound
    <3>3. CASE payload # Absent
      <4>1. parse_relationship_document(payload) /\ DocumentBinds(facts, ParsedDocument(payload))
        BY <3>1, <3>3 DEF Refused
      <4>2. /\ doc' = ParsedDocument(payload)
            /\ binding' = IF MintsBinding(ParsedDocument(payload))
                          THEN AuthoritativeVFPBinding(ParsedDocument(payload)) ELSE Absent
        BY <1>1, <3>1, <3>3 DEF BuildPlan
      <4> QED BY <2>1, <3>3, <4>1, <4>2 DEF PlanIsBound
    <3> QED BY <3>2, <3>3
  <2> QED BY <2>1, <2>2, <2>3 DEF PlanInv, Judged
<1>2. CASE Preflight
  <2>1. /\ UNCHANGED <<payload, facts, doc, meta, binding, level>>
        /\ phase = "preflight" /\ phase' \in {"pass1", "refused"}
        /\ phase' = "pass1" => check_relationships
    BY <1>2 DEF Preflight
  <2>2. LevelIsDerived'
    BY <2>1 DEF PlanInv, LevelIsDerived
  <2>3. PlanIsBound /\ PlanIsBound'
    BY <2>1 DEF PlanInv, PlanIsBound
  <2>4. phase' = "pass1" => (doc' # Absent => validate_document_compatibility(doc'))
    BY <2>1 DEF check_relationships
  <2> QED BY <2>1, <2>2, <2>3, <2>4 DEF PlanInv, Judged
<1>3. ASSUME NEW t \in PlanTables, PassOneTable(t) \/ PassTwoTable(t)
      PROVE  PlanInv'
  <2>1. /\ UNCHANGED <<payload, facts, doc, meta, binding, level>>
        /\ phase \in {"pass1", "pass2"} /\ phase' \in {"pass1", "pass2", "derive", "failed"}
    BY <1>3 DEF PassOneTable, PassTwoTable
  <2>2. LevelIsDerived'
    BY <2>1 DEF PlanInv, LevelIsDerived
  <2>3. PlanIsBound /\ PlanIsBound'
    BY <2>1 DEF PlanInv, PlanIsBound, Judged
  <2> QED BY <2>1, <2>2, <2>3 DEF PlanInv, Judged
<1>4. CASE Derive
  <2>1. /\ UNCHANGED <<payload, facts, doc, meta, binding, spool>>
        /\ phase = "derive"
        /\ level' = DerivedFromBoundedEvidence(meta, Verdicts, binding)
        /\ phase' = IF level' = "refused" THEN "failed" ELSE "done"
    BY <1>4 DEF Derive
  <2>2. Verdicts' = Verdicts
    BY <2>1 DEF Verdicts
  <2>3. LevelIsDerived'
    BY <2>1, <2>2 DEF LevelIsDerived
  <2>4. PlanIsBound /\ PlanIsBound'
    BY <2>1 DEF PlanInv, PlanIsBound, Judged
  <2> QED BY <2>1, <2>3, <2>4 DEF PlanInv, Judged
<1>5. ASSUME NEW t \in PlanTables, EditSource(t)
      PROVE  PlanInv'
  <2>1. UNCHANGED <<payload, facts, doc, meta, binding, level, phase>> /\ phase = "pass2"
    BY <1>5 DEF EditSource
  <2> QED BY <2>1 DEF PlanInv, Judged, PlanIsBound, LevelIsDerived
<1>6. CASE UNCHANGED assurance_vars
  <2>1. UNCHANGED <<payload, facts, doc, meta, binding, level, phase, spool>>
    BY <1>6 DEF assurance_vars
  <2>2. Verdicts' = Verdicts
    BY <2>1 DEF Verdicts
  <2> QED BY <2>1, <2>2 DEF PlanInv, Judged, PlanIsBound, LevelIsDerived
<1> QED BY <1>1, <1>2, <1>3, <1>4, <1>5, <1>6 DEF AssuranceNext

-----------------------------------------------------------------------------
(* The evidence.                                                           *)

\* The relations are groups of the bound document, told apart by their number,
\* and each side is read from a table of the plan.
LEMMA RelationsAreGroups ==
  ASSUME PlanInv, phase \in Judged \cup {"preflight"}
  PROVE  /\ \A g, h \in Relations : g.id = h.id => g = h
         /\ \A g \in Relations, role \in Sides : RelationDirective(g)[role].table \in PlanTables
         /\ doc # Absent => /\ payload \in Payloads \ {Absent} /\ doc = ParsedDocument(payload)
                            /\ parse_relationship_document(payload) /\ DocumentBinds(facts, doc)
                            /\ phase \in Judged => validate_document_compatibility(doc)
                            /\ Relations \subseteq Elements(doc.groups)
                            /\ Relations = effective_groups(doc)
<1>1. CASE doc = Absent
  BY <1>1 DEF Relations
<1>2. CASE doc # Absent
  <2>1. /\ payload \in Payloads \ {Absent} /\ doc = ParsedDocument(payload)
        /\ parse_relationship_document(payload) /\ DocumentBinds(facts, doc)
        /\ phase \in Judged => validate_document_compatibility(doc)
        /\ facts \in SchemaFacts
    BY <1>2 DEF PlanInv, PlanIsBound
  <2>2. Relations = effective_groups(doc) /\ Relations \subseteq Elements(doc.groups)
    BY <1>2 DEF Relations, effective_groups
  <2>3. ASSUME NEW g \in Relations, NEW h \in Relations, g.id = h.id PROVE g = h
    BY <2>1, <2>2, <2>3, IdsAreUnique
  <2>4. ASSUME NEW g \in Relations, NEW role \in Sides
        PROVE  RelationDirective(g)[role].table \in PlanTables
    BY <2>1, <2>2, SideIsBound
  <2> QED BY <2>1, <2>2, <2>3, <2>4
<1> QED BY <1>1, <1>2

\* Counting at once and counting one by one give the same evidence.
LEMMA ReferenceIsObserved ==
  ASSUME NEW g, NEW role, NEW tables, IsList(tables[RelationDirective(g)[role].table])
  PROVE  LET stream == Stream(g, role, tables) IN
         /\ Len(stream) = Len(tables[RelationDirective(g)[role].table])
         /\ Len(stream) \in Nat
         /\ ReferenceSide(g, role, tables) = Counted(stream, Len(stream))
         /\ ReferenceSide(g, role, tables) = Observed(stream)
<1> DEFINE side == RelationDirective(g)[role]
           rs == tables[side.table]
           stream == Stream(g, role, tables)
           full == {i \in DOMAIN rs : Absent \notin Elements(KeyOf(side, rs[i]))}
<1>1. Len(rs) \in Nat /\ DOMAIN rs = 1..Len(rs)
  BY DEF IsList
<1>2. stream = [i \in DOMAIN rs |-> KeyOf(side, rs[i])]
  BY DEF Stream, KeyStream
<1>3. ReferenceSide(g, role, tables)
         = [rows |-> Len(rs), nulls |-> Len(rs) - Cardinality(full),
            keys |-> [k \in {KeyOf(side, rs[i]) : i \in full} |->
                         Cardinality({i \in full : KeyOf(side, rs[i]) = k})]]
  BY DEF ReferenceSide
<1> HIDE DEF side, rs, stream
<1>4. Len(stream) = Len(rs) /\ Len(stream) \in Nat
  BY <1>1, <1>2
<1>5. full = FullUpTo(stream, Len(rs)) /\ \A i \in full : stream[i] = KeyOf(side, rs[i])
  BY <1>1, <1>2 DEF FullUpTo
<1> HIDE DEF full
<1>6. ASSUME NEW k PROVE {i \in full : KeyOf(side, rs[i]) = k} = Sightings(stream, Len(rs), k)
  BY <1>5 DEF Sightings
<1>7. {KeyOf(side, rs[i]) : i \in full} = {stream[i] : i \in FullUpTo(stream, Len(rs))}
  BY <1>5
<1>8. [k \in {KeyOf(side, rs[i]) : i \in full} |-> Cardinality({i \in full : KeyOf(side, rs[i]) = k})]
         = CountedKeys(stream, Len(rs))
  BY <1>6, <1>7 DEF CountedKeys
<1>9. ReferenceSide(g, role, tables) = Counted(stream, Len(rs))
  BY <1>3, <1>5, <1>8 DEF Counted
<1> QED BY <1>4, <1>9, ObservedIsCounted DEF stream, rs, side

\* Merging a shard into nothing gives the shard, and merging nothing changes
\* nothing.
LEMMA MergeWithNothing ==
  ASSUME NEW stream, NEW n \in Nat
  PROVE  /\ merge_relation_shard(NoEvidence, Counted(stream, n)) = Counted(stream, n)
         /\ merge_relation_shard(Counted(stream, n), NoEvidence) = Counted(stream, n)
<1> DEFINE K == CountedKeys(stream, n)
           z == Cardinality(FullUpTo(stream, n))
           none == [k \in {} |-> 0]
<1>1. z \in Nat /\ \A k \in DOMAIN K : K[k] \in Nat
  BY CountsArePositive
<1>2. K = [k \in DOMAIN K |-> K[k]]
  BY DEF CountedKeys
<1>3. Counted(stream, n) = [rows |-> n, nulls |-> n - z, keys |-> K]
  BY DEF Counted
<1> HIDE DEF K, z
<1>4. \A k : Occurrences(none, k) = 0
  BY DEF Occurrences
<1>5. [k \in DOMAIN none \cup DOMAIN K |-> Occurrences(none, k) + Occurrences(K, k)] = K
  BY <1>1, <1>2, <1>4 DEF Occurrences
<1>6. [k \in DOMAIN K \cup DOMAIN none |-> Occurrences(K, k) + Occurrences(none, k)] = K
  BY <1>1, <1>2, <1>4 DEF Occurrences
<1>7. NoEvidence = [rows |-> 0, nulls |-> 0, keys |-> none]
  BY DEF NoEvidence
<1> HIDE DEF none
<1> QED BY <1>1, <1>3, <1>5, <1>6, <1>7 DEF merge_relation_shard

\* Whose evidence is already in the spool: a table counts as soon as its pass
\* is behind it.
DoneBefore(t) == phase \in {"pass2", "derive", "done"} \/ t \notin todo
DoneAfter(t) == phase \in {"derive", "done"} \/ (phase = "pass2" /\ t \notin todo)

AnyRecord == UNION {RecordsOf(t) : t \in PlanTables}

ListsOf(tables) == DOMAIN tables = PlanTables /\ \A t \in PlanTables : IsList(tables[t])

RelationIds == {g.id : g \in Relations}

\* The records are lists, by table.
ListsInv ==
  /\ source \in [PlanTables -> Seq(AnyRecord)]
  /\ ListsOf(scanned) /\ ListsOf(output)

SpoolShape ==
  /\ DOMAIN spool = {"before", "after"}
  /\ \A side \in {"before", "after"} : DOMAIN spool[side] = RelationIds

EvidenceSoFar ==
  \A g \in Relations, role \in Sides :
     LET t == RelationDirective(g)[role].table IN
     /\ spool["before"][g.id][role]
           = IF DoneBefore(t) THEN ReferenceSide(g, role, scanned) ELSE NoEvidence
     /\ spool["after"][g.id][role]
           = IF DoneAfter(t) THEN ReferenceSide(g, role, output) ELSE NoEvidence

EvidenceInv == phase \in Judged => ListsInv /\ SpoolShape /\ EvidenceSoFar

LEMMA EvidenceInit == AssuranceInit => EvidenceInv
BY DEF AssuranceInit, EvidenceInv, Judged

\* What a side may hold before the shard of table t is merged.
NotYet(e, g, role, t, tables) ==
  IF RelationDirective(g)[role].table = t THEN e = NoEvidence
  ELSE e \in {NoEvidence, ReferenceSide(g, role, tables)}

\* state.merge_relation_shard of one table's shard: the sides the table holds
\* get their evidence, every other side keeps its own.
LEMMA MergedIsRight ==
  ASSUME NEW g, NEW role, NEW t, NEW records, IsList(records), NEW now, now[t] = records,
         NEW tables, IsList(tables[RelationDirective(g)[role].table]),
         NEW old, NotYet(old, g, role, t, tables)
  PROVE  merge_relation_shard(old, TableEvidence(g, role, t, records))
            = IF RelationDirective(g)[role].table = t THEN ReferenceSide(g, role, now) ELSE old
<1> DEFINE u == RelationDirective(g)[role].table
<1>0. IF u = t THEN old = NoEvidence ELSE old \in {NoEvidence, ReferenceSide(g, role, tables)}
  BY DEF NotYet
<1>4. CASE u = t
  <2>1. now[u] = records /\ IsList(now[u])
    BY <1>4
  <2>2. Stream(g, role, now) = KeyStream(RelationDirective(g)[role], records)
    BY <2>1 DEF Stream
  <2>3. TableEvidence(g, role, t, records) = Observed(Stream(g, role, now))
    BY <1>4, <2>2 DEF TableEvidence
  <2>4. /\ Len(Stream(g, role, now)) \in Nat
        /\ ReferenceSide(g, role, now) = Counted(Stream(g, role, now), Len(Stream(g, role, now)))
        /\ ReferenceSide(g, role, now) = Observed(Stream(g, role, now))
    BY <2>1, ReferenceIsObserved
  <2>5. merge_relation_shard(NoEvidence, ReferenceSide(g, role, now)) = ReferenceSide(g, role, now)
    BY <2>4, MergeWithNothing
  <2> QED BY <1>0, <1>4, <2>3, <2>4, <2>5
<1>5. CASE u # t
  <2>1. TableEvidence(g, role, t, records) = NoEvidence
    BY <1>5 DEF TableEvidence
  <2>2. merge_relation_shard(NoEvidence, NoEvidence) = NoEvidence
    <3>1. Counted(<<>>, 0) = NoEvidence
      BY CountedNothing
    <3> QED BY <3>1, MergeWithNothing
  <2>3. /\ Len(Stream(g, role, tables)) \in Nat
        /\ ReferenceSide(g, role, tables)
              = Counted(Stream(g, role, tables), Len(Stream(g, role, tables)))
    BY ReferenceIsObserved
  <2>4. merge_relation_shard(ReferenceSide(g, role, tables), NoEvidence)
           = ReferenceSide(g, role, tables)
    BY <2>3, MergeWithNothing
  <2> QED BY <1>0, <1>5, <2>1, <2>2, <2>4
<1> QED BY <1>4, <1>5

\* The evidence of a side depends on the records of its own table only.
LEMMA ReferenceReadsItsTable ==
  ASSUME NEW g, NEW role, NEW tables, NEW now,
         now[RelationDirective(g)[role].table] = tables[RelationDirective(g)[role].table]
  PROVE  ReferenceSide(g, role, now) = ReferenceSide(g, role, tables)
BY DEF ReferenceSide

\* A relation is found by its number, so a merge reaches the side it is meant for.
LEMMA MergedMember ==
  ASSUME PlanInv, phase \in Judged, NEW g \in Relations,
         NEW side \in {"before", "after"}, SpoolShape
  PROVE  /\ g.id \in DOMAIN spool[side]
         /\ (CHOOSE h \in Relations : h.id = g.id) = g
<1>1. \A h \in Relations : h.id = g.id => h = g
  BY RelationsAreGroups
<1> QED BY <1>1 DEF SpoolShape, RelationIds

LEMMA RelationsUnchanged == UNCHANGED doc => Relations' = Relations
BY DEF Relations

LEMMA RecordsUnchanged == UNCHANGED <<payload, facts>> => AnyRecord' = AnyRecord
BY DEF AnyRecord, RecordsOf, Keyed

\* Preflight opens the spool with nothing in it.
LEMMA PreflightEvidence ==
  ASSUME PlanInv, Preflight
  PROVE  EvidenceInv'
<1> SUFFICES ASSUME phase' \in Judged PROVE (ListsInv /\ SpoolShape /\ EvidenceSoFar)'
  BY DEF EvidenceInv
<1>1. /\ phase' = "pass1" /\ todo' = PlanTables /\ UNCHANGED <<payload, facts, doc>>
      /\ scanned' = [t \in PlanTables |-> <<>>] /\ output' = [t \in PlanTables |-> <<>>]
      /\ spool' = [side \in {"before", "after"} |->
                      [id \in {g.id : g \in Relations} |-> [role \in Sides |-> NoEvidence]]]
      /\ \E rows \in [PlanTables -> UNION {[1..n -> AnyRecord] : n \in 0..MaxRows}] : source' = rows
  BY DEF Preflight, Judged, AnyRecord
<1>2. Relations' = Relations /\ AnyRecord' = AnyRecord
  BY <1>1, RelationsUnchanged, RecordsUnchanged
<1>3. source' \in [PlanTables -> Seq(AnyRecord)]
  <2>1. PICK rows \in [PlanTables -> UNION {[1..n -> AnyRecord] : n \in 0..MaxRows}] : source' = rows
    BY <1>1
  <2>2. ASSUME NEW t \in PlanTables PROVE rows[t] \in Seq(AnyRecord)
    <3>1. PICK n \in 0..MaxRows : rows[t] \in [1..n -> AnyRecord]
      BY <2>1
    <3>2. n \in Nat
      BY BoundsAssumption
    <3> HIDE DEF AnyRecord
    <3> QED BY <3>1, <3>2
  <2> QED BY <2>1, <2>2
<1>4. ListsInv'
  BY <1>1, <1>2, <1>3 DEF ListsInv, IsList, ListsOf
<1>5. SpoolShape'
  BY <1>1, <1>2 DEF SpoolShape, RelationIds
<1>6. EvidenceSoFar'
  <2> SUFFICES ASSUME NEW g \in Relations, NEW role \in Sides
               PROVE  LET t == RelationDirective(g)[role].table IN
                      /\ spool'["before"][g.id][role]
                            = IF DoneBefore(t)' THEN ReferenceSide(g, role, scanned') ELSE NoEvidence
                      /\ spool'["after"][g.id][role]
                            = IF DoneAfter(t)' THEN ReferenceSide(g, role, output') ELSE NoEvidence
    BY <1>2 DEF EvidenceSoFar
  <2> DEFINE t == RelationDirective(g)[role].table
  <2>1. phase = "preflight"
    BY DEF Preflight
  <2>2. t \in PlanTables
    BY <2>1, RelationsAreGroups
  <2>3. ~DoneBefore(t)' /\ ~DoneAfter(t)'
    BY <1>1, <2>2 DEF DoneBefore, DoneAfter
  <2>4. spool'["before"][g.id][role] = NoEvidence /\ spool'["after"][g.id][role] = NoEvidence
    BY <1>1
  <2> QED BY <2>3, <2>4
<1> QED BY <1>4, <1>5, <1>6

\* Pass 1 of one table puts its evidence into the spool.
LEMMA PassOneEvidence ==
  ASSUME PlanInv, EvidenceInv, NEW t \in PlanTables, PassOneTable(t)
  PROVE  EvidenceInv'
<1> SUFFICES ASSUME phase' \in Judged PROVE (ListsInv /\ SpoolShape /\ EvidenceSoFar)'
  BY DEF EvidenceInv
<1> DEFINE new == Merged("before", t, source[t])
<1>1. /\ phase = "pass1" /\ phase \in Judged /\ t \in todo /\ UNCHANGED <<payload, facts, doc, source, output>>
      /\ spool' = [spool EXCEPT !["before"] = new]
      /\ scanned' = [scanned EXCEPT ![t] = source[t]]
      /\ IF todo = {t} THEN phase' = "pass2" /\ todo' = PlanTables
         ELSE todo' = todo \ {t} /\ phase' = "pass1"
  BY DEF PassOneTable, Judged, IsNextTable
<1>2. ListsInv /\ SpoolShape /\ EvidenceSoFar
  BY <1>1 DEF EvidenceInv
<1>3. Relations' = Relations /\ AnyRecord' = AnyRecord
  BY <1>1, RelationsUnchanged, RecordsUnchanged
<1>4. IsList(source[t])
  <2>1. source[t] \in Seq(AnyRecord)
    BY <1>2 DEF ListsInv
  <2> HIDE DEF AnyRecord
  <2> QED BY <2>1 DEF IsList
<1>5. ListsInv'
  BY <1>1, <1>2, <1>3, <1>4 DEF ListsInv, ListsOf
<1>6. DOMAIN new = RelationIds
  BY <1>2 DEF Merged, SpoolShape
<1> HIDE DEF new
<1>7. spool'["before"] = new /\ spool'["after"] = spool["after"] /\ DOMAIN spool' = {"before", "after"}
  BY <1>1, <1>2 DEF SpoolShape
<1>8. SpoolShape'
  BY <1>2, <1>3, <1>6, <1>7 DEF SpoolShape, RelationIds
<1>9. EvidenceSoFar'
  <2> SUFFICES ASSUME NEW g \in Relations, NEW role \in Sides
               PROVE  LET u == RelationDirective(g)[role].table IN
                      /\ new[g.id][role]
                            = IF DoneBefore(u)' THEN ReferenceSide(g, role, scanned') ELSE NoEvidence
                      /\ spool["after"][g.id][role]
                            = IF DoneAfter(u)' THEN ReferenceSide(g, role, output') ELSE NoEvidence
    BY <1>3, <1>7 DEF EvidenceSoFar
  <2> DEFINE u == RelationDirective(g)[role].table
             old == IF DoneBefore(u) THEN ReferenceSide(g, role, scanned) ELSE NoEvidence
  <2>1. u \in PlanTables
    BY <1>1, RelationsAreGroups
  <2>2. spool["before"][g.id][role] = old /\ spool["after"][g.id][role] = NoEvidence
    <3>1. ~DoneAfter(u)
      BY <1>1 DEF DoneAfter
    <3> QED BY <1>2, <3>1 DEF EvidenceSoFar
  <2>3. u = t => old = NoEvidence
    BY <1>1 DEF DoneBefore
  <2>4. old \in {NoEvidence, ReferenceSide(g, role, scanned)}
    OBVIOUS
  <2>5. ~DoneAfter(u)'
    <3>1. CASE todo = {t}
      BY <1>1, <2>1, <3>1 DEF DoneAfter
    <3>2. CASE todo # {t}
      BY <1>1, <3>2 DEF DoneAfter
    <3> QED BY <3>1, <3>2
  <2>6. DoneBefore(u)' <=> (DoneBefore(u) \/ u = t)
    <3>1. CASE todo = {t}
      BY <1>1, <3>1 DEF DoneBefore
    <3>2. CASE todo # {t}
      BY <1>1, <3>2 DEF DoneBefore
    <3> QED BY <3>1, <3>2
  <2> HIDE DEF old
  <2>7. new[g.id][role] = IF u = t THEN ReferenceSide(g, role, scanned') ELSE old
    <3>1. ListsOf(scanned) /\ DOMAIN scanned = PlanTables
      BY <1>2 DEF ListsInv, ListsOf
    <3>4. NotYet(spool["before"][g.id][role], g, role, t, scanned)
      BY <2>2, <2>3, <2>4 DEF NotYet
    <3>3. scanned'[t] = source[t]
      BY <1>1, <3>1
    <3>5. new[g.id][role]
             = merge_relation_shard(spool["before"][g.id][role], TableEvidence(g, role, t, source[t]))
      BY <1>1, <1>2, MergedMember DEF new, Merged
    <3>6. IsList(scanned[u])
      BY <2>1, <3>1 DEF ListsOf
    <3>7. merge_relation_shard(spool["before"][g.id][role], TableEvidence(g, role, t, source[t]))
             = IF u = t THEN ReferenceSide(g, role, scanned') ELSE spool["before"][g.id][role]
      BY <1>4, <3>3, <3>4, <3>6, MergedIsRight
    <3> QED BY <2>2, <3>5, <3>7
  <2>8. u # t => ReferenceSide(g, role, scanned') = ReferenceSide(g, role, scanned)
    <3>1. u # t => scanned'[u] = scanned[u]
      BY <1>1
    <3> QED BY <3>1, ReferenceReadsItsTable
  <2>9. new[g.id][role] = IF DoneBefore(u)' THEN ReferenceSide(g, role, scanned') ELSE NoEvidence
    <3>1. CASE u = t
      BY <2>6, <2>7, <3>1
    <3>2. CASE u # t
      BY <2>6, <2>7, <2>8, <3>2 DEF old
    <3> QED BY <3>1, <3>2
  <2> QED BY <2>2, <2>5, <2>9
<1> QED BY <1>5, <1>8, <1>9

\* Pass 2 of one table does the same for the records it wrote.
LEMMA PassTwoEvidence ==
  ASSUME PlanInv, EvidenceInv, NEW t \in PlanTables, PassTwoTable(t)
  PROVE  EvidenceInv'
<1> SUFFICES ASSUME phase' \in Judged PROVE (ListsInv /\ SpoolShape /\ EvidenceSoFar)'
  BY DEF EvidenceInv
<1> DEFINE wrote == [i \in DOMAIN source[t] |-> Transformed(t, source[t][i])]
           new == Merged("after", t, wrote)
<1>1. /\ phase = "pass2" /\ phase \in Judged /\ t \in todo
      /\ UNCHANGED <<payload, facts, doc, source, scanned>>
      /\ spool' = [spool EXCEPT !["after"] = new]
      /\ output' = [output EXCEPT ![t] = wrote]
      /\ todo' = todo \ {t}
      /\ phase' = IF todo = {t} THEN "derive" ELSE phase
  BY DEF PassTwoTable, Judged
<1>2. ListsInv /\ SpoolShape /\ EvidenceSoFar
  BY <1>1 DEF EvidenceInv
<1>3. Relations' = Relations /\ AnyRecord' = AnyRecord
  BY <1>1, RelationsUnchanged, RecordsUnchanged
<1>4. IsList(wrote)
  <2>1. source[t] \in Seq(AnyRecord)
    BY <1>2 DEF ListsInv
  <2> HIDE DEF AnyRecord
  <2>2. DOMAIN source[t] = 1..Len(source[t]) /\ Len(source[t]) \in Nat
    BY <2>1
  <2> QED BY <2>2 DEF IsList
<1> HIDE DEF wrote
<1>5. ListsInv'
  BY <1>1, <1>2, <1>3, <1>4 DEF ListsInv, ListsOf
<1>6. DOMAIN new = RelationIds
  BY <1>2 DEF Merged, SpoolShape
<1> HIDE DEF new
<1>7. spool'["after"] = new /\ spool'["before"] = spool["before"] /\ DOMAIN spool' = {"before", "after"}
  BY <1>1, <1>2 DEF SpoolShape
<1>8. SpoolShape'
  BY <1>2, <1>3, <1>6, <1>7 DEF SpoolShape, RelationIds
<1>9. EvidenceSoFar'
  <2> SUFFICES ASSUME NEW g \in Relations, NEW role \in Sides
               PROVE  LET u == RelationDirective(g)[role].table IN
                      /\ spool["before"][g.id][role]
                            = IF DoneBefore(u)' THEN ReferenceSide(g, role, scanned') ELSE NoEvidence
                      /\ new[g.id][role]
                            = IF DoneAfter(u)' THEN ReferenceSide(g, role, output') ELSE NoEvidence
    BY <1>3, <1>7 DEF EvidenceSoFar
  <2> DEFINE u == RelationDirective(g)[role].table
             old == IF DoneAfter(u) THEN ReferenceSide(g, role, output) ELSE NoEvidence
  <2>1. u \in PlanTables
    BY <1>1, RelationsAreGroups
  <2>2. /\ spool["after"][g.id][role] = old
        /\ spool["before"][g.id][role] = ReferenceSide(g, role, scanned)
    <3>1. DoneBefore(u)
      BY <1>1 DEF DoneBefore
    <3> QED BY <1>2, <3>1 DEF EvidenceSoFar
  <2>3. u = t => old = NoEvidence
    BY <1>1 DEF DoneAfter
  <2>4. old \in {NoEvidence, ReferenceSide(g, role, output)}
    OBVIOUS
  <2>5. DoneBefore(u)'
    BY <1>1 DEF DoneBefore
  <2>6. DoneAfter(u)' <=> (DoneAfter(u) \/ u = t)
    <3>1. CASE todo = {t}
      BY <1>1, <3>1 DEF DoneAfter
    <3>2. CASE todo # {t}
      BY <1>1, <3>2 DEF DoneAfter
    <3> QED BY <3>1, <3>2
  <2> HIDE DEF old
  <2>7. new[g.id][role] = IF u = t THEN ReferenceSide(g, role, output') ELSE old
    <3>1. ListsOf(output) /\ DOMAIN output = PlanTables
      BY <1>2 DEF ListsInv, ListsOf
    <3>4. NotYet(spool["after"][g.id][role], g, role, t, output)
      BY <2>2, <2>3, <2>4 DEF NotYet
    <3>3. output'[t] = wrote
      BY <1>1, <3>1
    <3>5. new[g.id][role]
             = merge_relation_shard(spool["after"][g.id][role], TableEvidence(g, role, t, wrote))
      BY <1>1, <1>2, MergedMember DEF new, Merged
    <3>6. IsList(output[u])
      BY <2>1, <3>1 DEF ListsOf
    <3>7. merge_relation_shard(spool["after"][g.id][role], TableEvidence(g, role, t, wrote))
             = IF u = t THEN ReferenceSide(g, role, output') ELSE spool["after"][g.id][role]
      BY <1>4, <3>3, <3>4, <3>6, MergedIsRight
    <3> QED BY <2>2, <3>5, <3>7
  <2>8. u # t => ReferenceSide(g, role, output') = ReferenceSide(g, role, output)
    <3>1. u # t => output'[u] = output[u]
      BY <1>1
    <3> QED BY <3>1, ReferenceReadsItsTable
  <2>9. new[g.id][role] = IF DoneAfter(u)' THEN ReferenceSide(g, role, output') ELSE NoEvidence
    <3>1. CASE u = t
      BY <2>6, <2>7, <3>1
    <3>2. CASE u # t
      BY <2>6, <2>7, <2>8, <3>2 DEF old
    <3> QED BY <3>1, <3>2
  <2> QED BY <1>1, <2>2, <2>5, <2>9
<1> QED BY <1>5, <1>8, <1>9

LEMMA EvidenceStep == PlanInv /\ EvidenceInv /\ [AssuranceNext]_assurance_vars => EvidenceInv'
<1> SUFFICES ASSUME PlanInv, EvidenceInv, [AssuranceNext]_assurance_vars PROVE EvidenceInv'
  OBVIOUS
<1>1. CASE BuildPlan
  BY <1>1 DEF BuildPlan, EvidenceInv, Judged
<1>2. CASE Preflight
  BY <1>2, PreflightEvidence
<1>3. ASSUME NEW t \in PlanTables, PassOneTable(t) PROVE EvidenceInv'
  BY <1>3, PassOneEvidence
<1>4. ASSUME NEW t \in PlanTables, PassTwoTable(t) PROVE EvidenceInv'
  BY <1>4, PassTwoEvidence
<1>5. CASE Derive \/ UNCHANGED assurance_vars
  <2>1. /\ UNCHANGED <<payload, facts, doc, source, scanned, todo, spool, output>>
        /\ (phase = "derive" /\ phase' \in {"failed", "done"}) \/ phase' = phase
    BY <1>5 DEF Derive, assurance_vars
  <2>2. Relations' = Relations /\ AnyRecord' = AnyRecord
    BY <2>1, RelationsUnchanged, RecordsUnchanged
  <2> SUFFICES ASSUME phase' \in Judged PROVE (ListsInv /\ SpoolShape /\ EvidenceSoFar)'
    BY DEF EvidenceInv
  <2>3. phase \in Judged /\ ((phase = "derive" /\ phase' = "done") \/ phase' = phase)
    BY <2>1 DEF Judged
  <2>4. ListsInv /\ SpoolShape /\ EvidenceSoFar
    BY <2>3 DEF EvidenceInv
  <2>5. \A t : DoneBefore(t)' = DoneBefore(t) /\ DoneAfter(t)' = DoneAfter(t)
    BY <2>1, <2>3 DEF DoneBefore, DoneAfter
  <2>6. EvidenceSoFar'
    BY <2>1, <2>2, <2>4, <2>5 DEF EvidenceSoFar
  <2> QED BY <2>1, <2>2, <2>4, <2>6 DEF ListsInv, SpoolShape, RelationIds
<1>6. ASSUME NEW t \in PlanTables, EditSource(t) PROVE EvidenceInv'
  <2>1. /\ UNCHANGED <<payload, facts, doc, scanned, todo, spool, output, phase>>
        /\ phase = "pass2" /\ phase \in Judged
        /\ \/ source[t] # <<>> /\ source' = [source EXCEPT ![t] = Tail(@)]
           \/ \E r \in RecordsOf(t) : source' = [source EXCEPT ![t] = Append(@, r)]
    BY <1>6 DEF EditSource, Judged
  <2>2. Relations' = Relations /\ AnyRecord' = AnyRecord
    BY <2>1, RelationsUnchanged, RecordsUnchanged
  <2>3. ListsInv /\ SpoolShape /\ EvidenceSoFar
    BY <2>1 DEF EvidenceInv
  <2>4. \A u : DoneBefore(u)' = DoneBefore(u) /\ DoneAfter(u)' = DoneAfter(u)
    BY <2>1 DEF DoneBefore, DoneAfter
  <2>5. EvidenceSoFar'
    BY <2>1, <2>2, <2>3, <2>4 DEF EvidenceSoFar
  <2>6. source' \in [PlanTables -> Seq(AnyRecord)]
    <3>1. source \in [PlanTables -> Seq(AnyRecord)] /\ RecordsOf(t) \subseteq AnyRecord
      BY <2>3 DEF ListsInv, AnyRecord
    <3> HIDE DEF AnyRecord
    <3>2. source[t] \in Seq(AnyRecord)
      BY <3>1
    <3>3. source[t] # <<>> => Tail(source[t]) \in Seq(AnyRecord)
      BY <3>2
    <3>4. \A r \in RecordsOf(t) : Append(source[t], r) \in Seq(AnyRecord)
      BY <3>1, <3>2
    <3> QED BY <2>1, <3>1, <3>3, <3>4
  <2> QED BY <2>1, <2>2, <2>3, <2>5, <2>6 DEF ListsInv, SpoolShape, RelationIds, EvidenceInv
<1> QED BY <1>1, <1>2, <1>3, <1>4, <1>5, <1>6 DEF AssuranceNext

\* The inductive invariants hold in every reachable state.
THEOREM AssuranceSafety == AssuranceSpec => [](PlanInv /\ EvidenceInv)
<1>1. AssuranceInit => PlanInv /\ EvidenceInv
  BY PlanInit, EvidenceInit
<1>2. PlanInv /\ EvidenceInv /\ [AssuranceNext]_assurance_vars => (PlanInv /\ EvidenceInv)'
  BY PlanStep, EvidenceStep
<1> QED BY <1>1, <1>2, PTL DEF AssuranceSpec

\* EvidenceIsExact: when both passes are over, the spool holds for every
\* relation and role the counts of the records pass 1 read and of those pass 2
\* wrote, whatever the order in which the workers' shards were merged.
THEOREM EvidenceTheorem == AssuranceSpec => []EvidenceIsExact
<1>1. EvidenceInv => EvidenceIsExact
  <2> SUFFICES ASSUME EvidenceInv, phase \in {"derive", "done"},
                      NEW g \in Relations, NEW role \in Sides
               PROVE  /\ spool["before"][g.id][role] = ReferenceSide(g, role, scanned)
                      /\ spool["after"][g.id][role] = ReferenceSide(g, role, output)
    BY DEF EvidenceIsExact
  <2>1. EvidenceSoFar
    BY DEF EvidenceInv, Judged
  <2> QED BY <2>1 DEF EvidenceSoFar, DoneBefore, DoneAfter
<1> QED BY <1>1, AssuranceSafety, PTL

-----------------------------------------------------------------------------
(* The two kernels.                                                        *)

\* What the evidence of a side says: the in-memory accumulator counts the
\* same, and the counts sum up to the tuples without a NULL.
LEMMA SideFacts ==
  ASSUME NEW g, NEW role, NEW tables, IsList(tables[RelationDirective(g)[role].table])
  PROVE  LET e == ReferenceSide(g, role, tables) IN
         /\ AccumulatedSide(Stream(g, role, tables)) = [nulls |-> e.nulls, counts |-> e.keys]
         /\ e.rows - e.nulls = SumOf(e.keys, DOMAIN e.keys)
         /\ e.rows \in Nat /\ e.nulls \in Nat
         /\ IsFiniteSet(DOMAIN e.keys)
         /\ IsFiniteSet(Pairs(e.keys, DOMAIN e.keys))
<1> DEFINE stream == Stream(g, role, tables)
           n == Len(stream)
           e == ReferenceSide(g, role, tables)
           F == FullUpTo(stream, n)
<1>1. n \in Nat /\ e = Counted(stream, n)
  BY ReferenceIsObserved
<1>2. AccumulatedSide(stream) = [nulls |-> e.nulls, counts |-> e.keys]
  BY <1>1, AccumulatedIsCounted
<1>3. e.rows = n /\ e.nulls = n - Cardinality(F) /\ e.keys = CountedKeys(stream, n)
  BY <1>1 DEF Counted
<1>4. IsFiniteSet(F) /\ Cardinality(F) \in Nat /\ Cardinality(F) <= n
  BY <1>1, CountsArePositive
<1> HIDE DEF stream, n, e
<1>5. IsFiniteSet(Pairs(e.keys, DOMAIN e.keys)) /\ SumOf(e.keys, DOMAIN e.keys) = Cardinality(F)
  BY <1>1, <1>3, TotalIsFull
<1>6. IsFiniteSet(DOMAIN e.keys)
  <2> DEFINE s == [i \in F |-> stream[i]]
  <2>1. DOMAIN e.keys = {stream[i] : i \in F}
    BY <1>3 DEF CountedKeys
  <2> HIDE DEF F
  <2>2. s \in Surjection(F, DOMAIN e.keys)
    BY <2>1 DEF Surjection
  <2> QED BY <1>4, <2>2, FS_Surjection
<1>7. e.rows - e.nulls = SumOf(e.keys, DOMAIN e.keys) /\ e.rows \in Nat /\ e.nulls \in Nat
  BY <1>1, <1>3, <1>4, <1>5
<1> QED BY <1>2, <1>5, <1>6, <1>7 DEF e, stream

\* pass2._compare_relations and compare_relation_metrics judge one relation
\* alike.
LEMMA SameVerdict ==
  ASSUME NEW g, NEW old, NEW now,
         \A role \in Sides : /\ IsList(old[RelationDirective(g)[role].table])
                             /\ IsList(now[RelationDirective(g)[role].table]),
         NEW before, NEW after,
         \A role \in Sides : /\ before[role] = ReferenceSide(g, role, old)
                             /\ after[role] = ReferenceSide(g, role, now)
  PROVE  RelationIsVerified(before, after)
            <=> compare_relation_metrics(Counts(g, old), Counts(g, now))
<1> DEFINE bp == before["parent"] bf == before["foreign"]
           ap == after["parent"]  af == after["foreign"]
<1>1. /\ AccumulatedSide(Stream(g, "parent", old)) = [nulls |-> bp.nulls, counts |-> bp.keys]
      /\ AccumulatedSide(Stream(g, "foreign", old)) = [nulls |-> bf.nulls, counts |-> bf.keys]
      /\ AccumulatedSide(Stream(g, "parent", now)) = [nulls |-> ap.nulls, counts |-> ap.keys]
      /\ AccumulatedSide(Stream(g, "foreign", now)) = [nulls |-> af.nulls, counts |-> af.keys]
      /\ bf.rows - bf.nulls = SumOf(bf.keys, DOMAIN bf.keys)
      /\ af.rows - af.nulls = SumOf(af.keys, DOMAIN af.keys)
  BY SideFacts DEF Sides
<1> HIDE DEF bp, bf, ap, af
<1>2. Counts(g, old) = build([nulls |-> bp.nulls, counts |-> bp.keys], [nulls |-> bf.nulls, counts |-> bf.keys])
  BY <1>1 DEF Counts
<1>3. Counts(g, now) = build([nulls |-> ap.nulls, counts |-> ap.keys], [nulls |-> af.nulls, counts |-> af.keys])
  BY <1>1 DEF Counts
<1>4. compare_relation_metrics(Counts(g, old), Counts(g, now)) <=>
        /\ relation_profile_equal(bp, ap)
        /\ relation_profile_equal(bf, af)
        /\ relation_matched_count(bp, bf) = relation_matched_count(ap, af)
        /\ Orphans(bp, bf) = Orphans(ap, af)
        /\ bp.nulls = ap.nulls
        /\ bf.nulls = af.nulls
  BY <1>1, <1>2, <1>3
  DEF compare_relation_metrics, build, side_metrics, relation_profile_equal,
      relation_matched_count, Orphans
<1> QED BY <1>4 DEF RelationIsVerified, bp, bf, ap, af

\* The relations are finitely many.
LEMMA RelationsAreFinite ==
  ASSUME PlanInv, phase \in Judged
  PROVE  IsFiniteSet(RelationIds)
<1>1. CASE doc = Absent
  <2>1. RelationIds = {}
    BY <1>1 DEF RelationIds, Relations
  <2> QED BY <2>1, FS_EmptySet
<1>2. CASE doc # Absent
  <2> DEFINE gs == payload.groups
             n == Len(gs)
             having == {i \in 1..n : doc.groups[i] \in Relations}
             s == [i \in having |-> doc.groups[i].id]
  <2>1. /\ payload \in Payloads \ {Absent} /\ doc = ParsedDocument(payload)
        /\ Relations \subseteq Elements(doc.groups)
    BY <1>2, RelationsAreGroups
  <2>2. n \in Nat /\ DOMAIN gs = 1..n
    BY <2>1, DocumentAssumption
  <2>3. DOMAIN doc.groups = 1..n
    BY <2>1, <2>2 DEF ParsedDocument
  <2> HIDE DEF n
  <2>4. IsFiniteSet(having)
    BY <2>2, FirstNumbers, FS_Subset
  <2>5. s \in Surjection(having, RelationIds)
    BY <2>1, <2>3 DEF Surjection, RelationIds, Elements
  <2> QED BY <2>4, <2>5, FS_Surjection
<1> QED BY <1>1, <1>2

\* Verdicts and statuses say the same of every relation.
LEMMA StatusesAreVerdicts ==
  ASSUME PlanInv, EvidenceInv, phase = "done"
  PROVE  /\ DOMAIN Verdicts = RelationIds /\ DOMAIN Statuses = RelationIds
         /\ \A id \in RelationIds : /\ Verdicts[id] \in BOOLEAN
                                    /\ Statuses[id] = IF Verdicts[id] THEN "VERIFIED" ELSE "FAILED"
<1>1. ListsInv /\ SpoolShape /\ EvidenceSoFar
  BY DEF EvidenceInv, Judged
<1>2. DOMAIN Verdicts = RelationIds /\ DOMAIN Statuses = RelationIds
  BY <1>1 DEF SpoolShape, Verdicts, Statuses
<1>3. ASSUME NEW id \in RelationIds
      PROVE  /\ Verdicts[id] \in BOOLEAN
             /\ Statuses[id] = IF Verdicts[id] THEN "VERIFIED" ELSE "FAILED"
  <2>1. PICK g \in Relations : g.id = id
    BY DEF RelationIds
  <2>2. (CHOOSE h \in Relations : h.id = id) = g
    BY <1>1, <2>1, MergedMember DEF Judged
  <2>3. \A role \in Sides : /\ spool["before"][id][role] = ReferenceSide(g, role, scanned)
                            /\ spool["after"][id][role] = ReferenceSide(g, role, output)
    BY <1>1, <2>1 DEF EvidenceSoFar, DoneBefore, DoneAfter
  <2>4. \A role \in Sides : /\ IsList(scanned[RelationDirective(g)[role].table])
                            /\ IsList(output[RelationDirective(g)[role].table])
    BY <1>1, RelationsAreGroups DEF ListsInv, ListsOf, Judged
  <2>5. RelationIsVerified(spool["before"][id], spool["after"][id])
           <=> compare_relation_metrics(Counts(g, scanned), Counts(g, output))
    BY <2>3, <2>4, SameVerdict
  <2>6. Verdicts[id] = RelationIsVerified(spool["before"][id], spool["after"][id])
    BY <1>1 DEF Verdicts, SpoolShape
  <2>7. Statuses[id] = IF compare_relation_metrics(Counts(g, scanned), Counts(g, output))
                       THEN "VERIFIED" ELSE "FAILED"
    BY <1>1, <2>2 DEF Statuses, SpoolShape
  <2>8. RelationIsVerified(spool["before"][id], spool["after"][id]) \in BOOLEAN
    BY DEF RelationIsVerified
  <2> QED BY <2>5, <2>6, <2>7, <2>8
<1> QED BY <1>2, <1>3

\* KernelsAgree: the level production derives from the spool is the one the
\* public in-memory kernel derives from the records themselves.
LEMMA KernelsAgreeLemma == PlanInv /\ EvidenceInv => KernelsAgree
<1> SUFFICES ASSUME PlanInv, EvidenceInv, phase = "done"
             PROVE  level = derive_relational_assurance(
                              meta, [fingerprint |-> meta.fingerprint, statuses |-> Statuses], binding)
  BY DEF KernelsAgree
<1> DEFINE V == {r \in DOMAIN Verdicts : Verdicts[r]}
           W == {r \in DOMAIN Statuses : Statuses[r] = "VERIFIED"}
           X == {r \in DOMAIN Statuses : Statuses[r] = "FAILED"}
           report == [fingerprint |-> meta.fingerprint, statuses |-> Statuses]
<1>1. /\ level = DerivedFromBoundedEvidence(meta, Verdicts, binding) /\ level # "refused"
      /\ IsFiniteSet(RelationIds)
  BY RelationsAreFinite DEF PlanInv, LevelIsDerived, Judged
<1>2. /\ Cardinality(DOMAIN Verdicts) = meta.count
      /\ ~(binding # Absent /\ ~ BindingMatches(meta, binding))
      /\ level = assurance_from_counts(meta, Cardinality(V), meta.count - Cardinality(V),
                                       validated_authority_binding(meta, binding))
  BY <1>1 DEF DerivedFromBoundedEvidence
<1>3. /\ DOMAIN Verdicts = RelationIds /\ DOMAIN Statuses = RelationIds
      /\ \A id \in RelationIds : /\ Verdicts[id] \in BOOLEAN
                                 /\ Statuses[id] = IF Verdicts[id] THEN "VERIFIED" ELSE "FAILED"
  BY StatusesAreVerdicts
<1>4. W = V /\ X = RelationIds \ V /\ V \in SUBSET RelationIds
  BY <1>3
<1>5. report.statuses = Statuses /\ report.fingerprint = meta.fingerprint
  OBVIOUS
<1>6. DOMAIN Statuses = {} => meta.count = 0
  BY <1>2, <1>3, FS_EmptySet
<1> DEFINE earned == /\ Cardinality(W) = meta.count
                     /\ meta.count > 0
                     /\ meta.authoritative
                     /\ validated_authority_binding(meta, binding)
<1>7. derive_relational_assurance(meta, report, binding)
        = assurance_from_counts(meta, Cardinality(W), Cardinality(X), earned)
  <2> DEFINE statuses == report.statuses
             Having(s) == Cardinality({r \in DOMAIN statuses : statuses[r] = s})
             refused == \/ binding # Absent /\ ~ BindingMatches(meta, binding)
                        \/ DOMAIN statuses = {} /\ meta.count > 0
                        \/ DOMAIN statuses # {} /\ \/ report.fingerprint # meta.fingerprint
                                                   \/ Cardinality(DOMAIN statuses) # meta.count
             own == /\ Having("VERIFIED") = meta.count
                    /\ meta.count > 0
                    /\ meta.authoritative
                    /\ validated_authority_binding(meta, binding)
  <2>1. derive_relational_assurance(meta, report, binding)
           = IF refused THEN "refused"
             ELSE assurance_from_counts(meta, Having("VERIFIED"), Having("FAILED"), own)
    BY DEF derive_relational_assurance
  <2>2. ~ refused
    BY <1>2, <1>3, <1>5, <1>6
  <2>3. Having("VERIFIED") = Cardinality(W) /\ Having("FAILED") = Cardinality(X) /\ own = earned
    BY <1>5
  <2> HIDE DEF refused, own, Having, earned
  <2> QED BY <2>1, <2>2, <2>3
<1> HIDE DEF V, W, X, report
<1>8. /\ meta.count \in Nat /\ Cardinality(V) \in Nat
      /\ Cardinality(X) = meta.count - Cardinality(V)
  <2>1. meta.count = Cardinality(RelationIds) /\ meta.count \in Nat
    BY <1>1, <1>2, <1>3, FS_CardinalityType
  <2>2. IsFiniteSet(V) /\ Cardinality(V) \in Nat
    BY <1>1, <1>4, FS_Subset, FS_CardinalityType
  <2>3. RelationIds \cap V = V
    BY <1>4
  <2>4. Cardinality(RelationIds \ V) = Cardinality(RelationIds) - Cardinality(V)
    BY <1>1, <2>2, <2>3, FS_Difference
  <2> QED BY <1>4, <2>1, <2>2, <2>4
<1>9. validated_authority_binding(meta, binding) => meta.authoritative
  BY DEF validated_authority_binding, BindingMatches
<1> DEFINE m == meta.count
           v == Cardinality(V)
           auth == validated_authority_binding(meta, binding)
<1>10. level = assurance_from_counts(meta, v, m - v, auth)
  BY <1>2
<1>11. derive_relational_assurance(meta, report, binding)
         = assurance_from_counts(meta, v, m - v, earned)
  BY <1>4, <1>7, <1>8
<1>12. m > 0 /\ v = m => (auth <=> earned)
  BY <1>4, <1>9
<1> HIDE DEF v, auth, earned
<1>13. CASE m = 0
  BY <1>10, <1>11, <1>13 DEF assurance_from_counts, report
<1>14. CASE m > 0 /\ v = m /\ m - v = 0
  BY <1>10, <1>11, <1>12, <1>14 DEF assurance_from_counts, report
<1>15. CASE ~(m = 0) /\ ~(m > 0 /\ v = m /\ m - v = 0)
  BY <1>10, <1>11, <1>15 DEF assurance_from_counts, report
<1> QED BY <1>13, <1>14, <1>15

THEOREM KernelsTheorem == AssuranceSpec => []KernelsAgree
BY AssuranceSafety, KernelsAgreeLemma, PTL

-----------------------------------------------------------------------------
(* The strongest level.                                                    *)

\* Equal multisets of counts and equal NULL counts: as many keys, as many
\* records.
LEMMA SameSide ==
  ASSUME NEW g, NEW role, NEW old, NEW now,
         IsList(old[RelationDirective(g)[role].table]), IsList(now[RelationDirective(g)[role].table]),
         relation_profile_equal(ReferenceSide(g, role, old), ReferenceSide(g, role, now)),
         ReferenceSide(g, role, old).nulls = ReferenceSide(g, role, now).nulls
  PROVE  LET b == ReferenceSide(g, role, old)
             a == ReferenceSide(g, role, now)
         IN  b.rows = a.rows /\ Cardinality(DOMAIN b.keys) = Cardinality(DOMAIN a.keys)
<1> DEFINE b == ReferenceSide(g, role, old)
           a == ReferenceSide(g, role, now)
<1>1. /\ b.rows - b.nulls = SumOf(b.keys, DOMAIN b.keys) /\ b.rows \in Nat /\ b.nulls \in Nat
      /\ IsFiniteSet(DOMAIN b.keys) /\ IsFiniteSet(Pairs(b.keys, DOMAIN b.keys))
  BY SideFacts
<1>2. /\ a.rows - a.nulls = SumOf(a.keys, DOMAIN a.keys) /\ a.rows \in Nat /\ a.nulls \in Nat
      /\ IsFiniteSet(DOMAIN a.keys)
  BY SideFacts
<1>3. relation_histogram_stream(b.keys) = relation_histogram_stream(a.keys) /\ b.nulls = a.nulls
  BY DEF relation_profile_equal
<1> HIDE DEF a, b
<1> DEFINE K == b.keys
           L == a.keys
<1>4. PICK m \in Bijection(DOMAIN K, DOMAIN L) : \A k \in DOMAIN K : L[m[k]] = K[k]
  BY <1>1, <1>2, <1>3, ProfileGivesBijection
<1>5. Cardinality(DOMAIN K) = Cardinality(DOMAIN L)
  BY <1>1, <1>4, FS_Bijection DEF ExistsBijection
<1>6. SumOf(K, DOMAIN K) = SumOf(L, DOMAIN L)
  BY <1>1, <1>4, SameSums
<1>7. b.rows = a.rows
  BY <1>1, <1>2, <1>3, <1>6
<1> QED BY <1>5, <1>7 DEF a, b

\* When the level is the strongest one, every verdict is positive and the
\* binding was minted.
LEMMA StrongestLevel ==
  ASSUME PlanInv, EvidenceInv, level = "VFP_METADATA_VERIFIED"
  PROVE  /\ phase = "done" /\ binding # Absent
         /\ \A id \in RelationIds : RelationIsVerified(spool["before"][id], spool["after"][id])
<1> DEFINE V == {r \in DOMAIN Verdicts : Verdicts[r]}
           m == meta.count
           v == Cardinality(V)
           auth == validated_authority_binding(meta, binding)
<1>1. phase = "done"
  BY AbsentAssumption DEF PlanInv, LevelIsDerived
<1>2. level = DerivedFromBoundedEvidence(meta, Verdicts, binding) /\ level # "refused"
  BY <1>1 DEF PlanInv, LevelIsDerived
<1>3. Cardinality(DOMAIN Verdicts) = m /\ level = assurance_from_counts(meta, v, m - v, auth)
  BY <1>2 DEF DerivedFromBoundedEvidence
<1>4. IsFiniteSet(RelationIds) /\ DOMAIN Verdicts = RelationIds
  BY <1>1, RelationsAreFinite, StatusesAreVerdicts DEF Judged
<1>5. V \in SUBSET RelationIds
  BY <1>4
<1>6. DOMAIN spool["before"] = RelationIds
  BY <1>1 DEF EvidenceInv, SpoolShape, Judged
<1> HIDE DEF v, auth
<1>7. auth /\ v = m
  <2>1. CASE m = 0
    BY <1>3, <2>1 DEF assurance_from_counts
  <2>2. CASE m > 0 /\ v = m /\ m - v = 0
    BY <1>3, <2>2 DEF assurance_from_counts
  <2>3. CASE ~(m = 0) /\ ~(m > 0 /\ v = m /\ m - v = 0)
    BY <1>3, <2>3 DEF assurance_from_counts
  <2> QED BY <2>1, <2>2, <2>3
<1>8. V = RelationIds
  <2> HIDE DEF V
  <2> QED BY <1>3, <1>4, <1>5, <1>7, FS_Subset DEF v
<1>9. ASSUME NEW id \in RelationIds PROVE RelationIsVerified(spool["before"][id], spool["after"][id])
  BY <1>6, <1>8 DEF Verdicts
<1> QED BY <1>1, <1>7, <1>9 DEF auth, validated_authority_binding

\* A binding is minted only for a document that came in a complete envelope
\* and has an authoritative claim; no such claim is of the caller's own making.
LEMMA BindingIsEarned ==
  ASSUME PlanIsBound, payload \in Payloads, binding # Absent
  PROVE  /\ Required \subseteq payload.envelope
         /\ \E g \in Elements(payload.groups) : IsAuthoritative(g)
         /\ \A g \in Elements(payload.groups) : IsAuthoritative(g) => g.provenance # "POLICY_FILE"
<1>1. /\ payload \in Payloads \ {Absent} /\ parse_relationship_document(payload)
      /\ doc = ParsedDocument(payload) /\ MintsBinding(doc)
  BY DEF PlanIsBound
<1>2. payload.envelope # {} /\ effective_groups(doc) # {} /\ doc.external
  BY <1>1 DEF MintsBinding, ParsedDocument
<1>3. Required \subseteq payload.envelope
  BY <1>1, <1>2 DEF parse_relationship_document, EnvelopeParses
<1>4. PICK g \in Elements(doc.groups) : IsAuthoritative(g)
  BY <1>2 DEF effective_groups, IsEffective
<1>5. PICK h \in Elements(payload.groups) : g = ParsedGroup(h, payload.envelope # {})
  BY <1>1, ParsedGroups
<1>6. IsAuthoritative(h)
  BY <1>2, <1>4, <1>5 DEF IsAuthoritative, ParsedGroup
<1>7. ASSUME NEW k \in Elements(payload.groups), IsAuthoritative(k)
      PROVE  k.provenance # "POLICY_FILE"
  <2>1. parse_group(k, payload.envelope # {})
    BY <1>1 DEF parse_relationship_document
  <2>2. ExternalClaimParses(k)
    BY <1>2, <2>1 DEF parse_group
  <2> QED BY <1>7, <2>2 DEF ExternalClaimParses, external_provenance_class_allowed
<1> QED BY <1>3, <1>6, <1>7

LEMMA AuthorityLemma == PlanInv /\ EvidenceInv => AuthorityIsEarned
<1> SUFFICES ASSUME PlanInv, EvidenceInv, level = "VFP_METADATA_VERIFIED" PROVE AuthorityIsEarned
  BY DEF AuthorityIsEarned
<1>1. /\ phase = "done" /\ binding # Absent
      /\ \A id \in RelationIds : RelationIsVerified(spool["before"][id], spool["after"][id])
  BY StrongestLevel
<1>2. PlanIsBound /\ payload \in Payloads
  BY <1>1 DEF PlanInv, Judged
<1>3. /\ Required \subseteq payload.envelope
      /\ \E g \in Elements(payload.groups) : IsAuthoritative(g)
      /\ \A g \in Elements(payload.groups) : IsAuthoritative(g) => g.provenance # "POLICY_FILE"
  BY <1>1, <1>2, BindingIsEarned
<1>4. ASSUME NEW g \in Relations, NEW role \in Sides
      PROVE  LET b == ReferenceSide(g, role, scanned)
                 a == ReferenceSide(g, role, output)
             IN  /\ b.rows = a.rows /\ b.nulls = a.nulls
                 /\ Cardinality(DOMAIN b.keys) = Cardinality(DOMAIN a.keys)
  <2>1. /\ spool["before"][g.id][role] = ReferenceSide(g, role, scanned)
        /\ spool["after"][g.id][role] = ReferenceSide(g, role, output)
    BY <1>1 DEF EvidenceInv, EvidenceSoFar, DoneBefore, DoneAfter, Judged
  <2>2. RelationIsVerified(spool["before"][g.id], spool["after"][g.id])
    BY <1>1 DEF RelationIds
  <2>3. /\ relation_profile_equal(spool["before"][g.id][role], spool["after"][g.id][role])
        /\ spool["before"][g.id][role].nulls = spool["after"][g.id][role].nulls
    BY <2>2 DEF RelationIsVerified, Sides
  <2>4. /\ IsList(scanned[RelationDirective(g)[role].table])
        /\ IsList(output[RelationDirective(g)[role].table])
    BY <1>1, RelationsAreGroups DEF EvidenceInv, ListsInv, ListsOf, Judged
  <2> QED BY <2>1, <2>3, <2>4, SameSide
<1> QED BY <1>3, <1>4 DEF AuthorityIsEarned

\* AuthorityIsEarned: the strongest level needs a complete envelope, an
\* authoritative claim of an authoritative provenance, and on both sides of
\* every relation as many records, NULL keys and distinct keys in the output
\* as in the source that pass 1 read.
THEOREM AuthorityTheorem == AssuranceSpec => []AuthorityIsEarned
BY AssuranceSafety, AuthorityLemma, PTL

-----------------------------------------------------------------------------
(* Renaming the keys.                                                      *)

\* phi renames the tuples of T: no two become one, and a tuple with a NULL
\* stays one.
IsRenaming(phi, T) ==
  /\ \A k \in T : Absent \in Elements(k) <=> Absent \in Elements(phi[k])
  /\ \A k, l \in T : phi[k] = phi[l] => k = l

\* L counts the renamed keys as K counts the keys.
Renames(phi, T, K, L) ==
  /\ DOMAIN K \subseteq T
  /\ DOMAIN L = {phi[k] : k \in DOMAIN K}
  /\ \A k \in DOMAIN K : L[phi[k]] = K[k]

\* A stream whose tuples are renamed is counted alike.
LEMMA RenamedCounts ==
  ASSUME NEW s, NEW w, NEW Length \in Nat, NEW T, NEW phi, IsRenaming(phi, T),
         \A i \in 1..Length : s[i] \in T /\ w[i] = phi[s[i]]
  PROVE  /\ FullUpTo(w, Length) = FullUpTo(s, Length)
         /\ Renames(phi, T, CountedKeys(s, Length), CountedKeys(w, Length))
<1> DEFINE F == FullUpTo(s, Length)
<1>1. FullUpTo(w, Length) = F
  BY DEF FullUpTo, IsRenaming
<1>2. \A i \in F : i \in 1..Length
  BY DEF FullUpTo
<1>3. DOMAIN CountedKeys(s, Length) = {s[i] : i \in F} /\ DOMAIN CountedKeys(w, Length) = {w[i] : i \in F}
  BY <1>1 DEF CountedKeys
<1> HIDE DEF F
<1>4. DOMAIN CountedKeys(s, Length) \subseteq T
  BY <1>2, <1>3
<1>5. DOMAIN CountedKeys(w, Length) = {phi[k] : k \in DOMAIN CountedKeys(s, Length)}
  BY <1>2, <1>3
<1>6. ASSUME NEW k \in DOMAIN CountedKeys(s, Length)
      PROVE  CountedKeys(w, Length)[phi[k]] = CountedKeys(s, Length)[k]
  <2>1. k \in T /\ phi[k] \in DOMAIN CountedKeys(w, Length)
    BY <1>4, <1>5
  <2>2. \A i \in F : w[i] = phi[k] <=> s[i] = k
    BY <1>2, <2>1 DEF IsRenaming
  <2>3. Sightings(w, Length, phi[k]) = Sightings(s, Length, k)
    BY <1>1, <2>2 DEF Sightings, F
  <2> QED BY <2>1, <2>3, CountsArePositive
<1> QED BY <1>1, <1>4, <1>5, <1>6 DEF Renames, F

\* The keys of S are carried to their new names.
LEMMA RenamedBijection ==
  ASSUME NEW T, NEW phi, IsRenaming(phi, T), NEW S \in SUBSET T
  PROVE  /\ [k \in S |-> phi[k]] \in Bijection(S, {phi[k] : k \in S})
         /\ \A k \in S : [j \in S |-> phi[j]][k] = phi[k]
BY DEF IsRenaming, Bijection, Injection, Surjection, IsInjective

LEMMA RenamedProfile ==
  ASSUME NEW T, NEW phi, IsRenaming(phi, T), NEW K, NEW L, Renames(phi, T, K, L),
         IsFiniteSet(DOMAIN K)
  PROVE  relation_histogram_stream(K) = relation_histogram_stream(L)
<1> DEFINE b == [k \in DOMAIN K |-> phi[k]]
<1>1. b \in Bijection(DOMAIN K, DOMAIN L) /\ \A k \in DOMAIN K : b[k] = phi[k]
  BY RenamedBijection DEF Renames
<1> HIDE DEF b
<1>2. \A k \in DOMAIN K : L[b[k]] = K[k]
  BY <1>1 DEF Renames
<1> QED BY <1>1, <1>2, BijectionKeepsProfile

\* And so are the keys the two sides share.
LEMMA RenamedMatches ==
  ASSUME NEW T, NEW phi, IsRenaming(phi, T), NEW K, NEW L, Renames(phi, T, K, L),
         NEW P, NEW Q, Renames(phi, T, P, Q), IsFiniteSet(Pairs(K, DOMAIN K))
  PROVE  SumOf(K, DOMAIN K \cap DOMAIN P) = SumOf(L, DOMAIN L \cap DOMAIN Q)
<1> DEFINE S == DOMAIN K \cap DOMAIN P
           b == [k \in S |-> phi[k]]
<1>1. S \in SUBSET T
  BY DEF Renames
<1>2. DOMAIN L \cap DOMAIN Q = {phi[k] : k \in S}
  <2>1. ASSUME NEW x \in DOMAIN L, x \in DOMAIN Q PROVE \E k \in S : x = phi[k]
    <3>1. PICK k \in DOMAIN K : x = phi[k]
      BY DEF Renames
    <3>2. PICK l \in DOMAIN P : x = phi[l]
      BY <2>1 DEF Renames
    <3>3. k \in T /\ l \in T
      BY DEF Renames
    <3> QED BY <3>1, <3>2, <3>3 DEF IsRenaming
  <2>2. \A k \in S : phi[k] \in DOMAIN L \cap DOMAIN Q
    BY DEF Renames
  <2> HIDE DEF S
  <2> QED BY <2>1, <2>2
<1>3. b \in Bijection(S, DOMAIN L \cap DOMAIN Q) /\ \A k \in S : b[k] = phi[k]
  BY <1>1, <1>2, RenamedBijection
<1> HIDE DEF b
<1>4. \A k \in S : L[b[k]] = K[k]
  BY <1>3 DEF Renames
<1>5. IsFiniteSet(Pairs(K, S))
  <2>1. Pairs(K, S) \in SUBSET Pairs(K, DOMAIN K)
    <3>1. ASSUME NEW q \in Pairs(K, S) PROVE q \in Pairs(K, DOMAIN K)
      <4>1. PICK k, n : k \in S /\ n \in 1..K[k] /\ q = <<k, n>>
        BY PairsMember
      <4> QED BY <4>1, PairsMember
    <3> QED BY <3>1
  <2> QED BY <2>1, FS_Subset
<1> HIDE DEF S
<1> QED BY <1>3, <1>4, <1>5, SameSums DEF S

\* The keys of relation g among the records now are the renamed keys of old.
KeysRenamed(g, old, now, T, phi) ==
  \A role \in Sides :
     LET u == RelationDirective(g)[role].table IN
     /\ IsList(old[u]) /\ IsList(now[u]) /\ Len(now[u]) = Len(old[u])
     /\ \A i \in 1..Len(old[u]) : /\ Stream(g, role, old)[i] \in T
                                  /\ Stream(g, role, now)[i] = phi[Stream(g, role, old)[i]]

\* When pass 2 renames the keys pass 1 read, the relation is verified.
LEMMA RenamedIsVerified ==
  ASSUME NEW g, NEW old, NEW now, NEW T, NEW phi, IsRenaming(phi, T),
         KeysRenamed(g, old, now, T, phi),
         NEW before, NEW after,
         \A role \in Sides : /\ before[role] = ReferenceSide(g, role, old)
                             /\ after[role] = ReferenceSide(g, role, now)
  PROVE  RelationIsVerified(before, after)
<1>1. ASSUME NEW role \in Sides
      PROVE  /\ before[role].rows = after[role].rows
             /\ before[role].nulls = after[role].nulls
             /\ Renames(phi, T, before[role].keys, after[role].keys)
             /\ IsFiniteSet(DOMAIN before[role].keys)
             /\ IsFiniteSet(Pairs(before[role].keys, DOMAIN before[role].keys))
  <2> DEFINE u == RelationDirective(g)[role].table
             s == Stream(g, role, old)
             w == Stream(g, role, now)
             n == Len(old[u])
  <2>1. /\ IsList(old[u]) /\ IsList(now[u]) /\ Len(now[u]) = n /\ n \in Nat
        /\ \A i \in 1..n : s[i] \in T /\ w[i] = phi[s[i]]
    BY DEF IsList, KeysRenamed
  <2>2. before[role] = Counted(s, n) /\ after[role] = Counted(w, n)
    BY <2>1, ReferenceIsObserved
  <2>3. /\ IsFiniteSet(DOMAIN before[role].keys)
        /\ IsFiniteSet(Pairs(before[role].keys, DOMAIN before[role].keys))
    BY <2>1, SideFacts
  <2> HIDE DEF s, w, n
  <2>4. FullUpTo(w, n) = FullUpTo(s, n) /\ Renames(phi, T, CountedKeys(s, n), CountedKeys(w, n))
    BY <2>1, RenamedCounts
  <2> QED BY <2>2, <2>3, <2>4 DEF Counted
<1> DEFINE bp == before["parent"] bf == before["foreign"]
           ap == after["parent"]  af == after["foreign"]
<1>2. /\ bp.nulls = ap.nulls /\ bf.nulls = af.nulls /\ bf.rows = af.rows
      /\ Renames(phi, T, bp.keys, ap.keys) /\ Renames(phi, T, bf.keys, af.keys)
      /\ IsFiniteSet(DOMAIN bp.keys) /\ IsFiniteSet(DOMAIN bf.keys)
      /\ IsFiniteSet(Pairs(bf.keys, DOMAIN bf.keys))
  BY <1>1 DEF Sides
<1> HIDE DEF bp, bf, ap, af
<1>3. relation_profile_equal(bp, ap) /\ relation_profile_equal(bf, af)
  BY <1>2, RenamedProfile DEF relation_profile_equal
<1>4. relation_matched_count(bp, bf) = relation_matched_count(ap, af)
  BY <1>2, RenamedMatches DEF relation_matched_count
<1>5. Orphans(bp, bf) = Orphans(ap, af)
  BY <1>2, <1>4 DEF Orphans
<1> QED BY <1>2, <1>3, <1>4, <1>5 DEF RelationIsVerified, bp, bf, ap, af

-----------------------------------------------------------------------------
(* The treatment of a relation's fields.                                   *)

\* What a key component may be in a run that pass 1 let through.
Known == Texts \cup Numbers \cup {Absent}

\* What becomes of a key component of relation g of document d, whichever
\* field it stands in.
Replaced(d, g, v) ==
  IF v \in {Absent, ""} THEN v
  ELSE IF v \in Texts THEN Pseudonym(GlobalText, v)
  ELSE IF g.strategy = "REVERSIBLE_BIJECTIVE" THEN Pseudonym(resolved_numeric_domain(d, g), v)
  ELSE v

LEMMA ReplacedIsInjective ==
  ASSUME NEW p \in Payloads \ {Absent}, NEW g \in Elements(ParsedDocument(p).groups)
  PROVE  LET d == ParsedDocument(p) IN
         /\ \A v \in Known : Replaced(d, g, v) = Absent <=> v = Absent
         /\ \A v, w \in Known : Replaced(d, g, v) = Replaced(d, g, w) => v = w
<1> DEFINE d == ParsedDocument(p)
           Words == Texts \ {""}
           R == [v \in Known |-> Replaced(d, g, v)]
           dom == resolved_numeric_domain(d, g)
<1>1. Texts \cap Numbers = {} /\ "" \in Texts /\ Absent \notin Texts \cup Numbers
  BY ValuesAssumption
<1>2. /\ IsReplacement(GlobalText, Words)
      /\ g.strategy = "REVERSIBLE_BIJECTIVE" => IsReplacement(dom, Numbers)
  BY PseudonymAssumption
<1> HIDE DEF dom, d
<1>3. /\ R[Absent] = Absent /\ R[""] = ""
      /\ \A v \in Words : R[v] = Pseudonym(GlobalText, v)
      /\ \A v \in Numbers : R[v] = IF g.strategy = "REVERSIBLE_BIJECTIVE" THEN Pseudonym(dom, v) ELSE v
  BY <1>1 DEF Replaced, dom, Known
<1>4. \A v \in Known : R[v] = Replaced(d, g, v)
  OBVIOUS
<1>5. /\ \A v : v \in Known <=> v \in Words \/ v \in Numbers \/ v = "" \/ v = Absent
      /\ Absent \notin Words /\ Absent \notin Numbers /\ "" \notin Words /\ "" \notin Numbers
      /\ Absent # "" /\ \A v \in Words : v \notin Numbers
  BY <1>1 DEF Known, Words
<1> HIDE DEF R, Words
<1>6. ASSUME NEW v \in Words, NEW w \in Words
      PROVE  R[v] \in Words /\ (R[v] = R[w] => v = w)
  <2>1. /\ Pseudonym(GlobalText, v) \in Words
        /\ Pseudonym(GlobalText, v) = Pseudonym(GlobalText, w) => v = w
    BY <1>2, Zenon DEF IsReplacement
  <2>2. R[v] = Pseudonym(GlobalText, v) /\ R[w] = Pseudonym(GlobalText, w)
    BY <1>3, Zenon
  <2> QED BY <2>1, <2>2, Zenon
<1>7. ASSUME NEW v \in Numbers, NEW w \in Numbers
      PROVE  R[v] \in Numbers /\ (R[v] = R[w] => v = w)
  <2>1. CASE g.strategy = "REVERSIBLE_BIJECTIVE"
    <3>1. /\ Pseudonym(dom, v) \in Numbers
          /\ Pseudonym(dom, v) = Pseudonym(dom, w) => v = w
      BY <1>2, <2>1, Zenon DEF IsReplacement
    <3>2. R[v] = Pseudonym(dom, v) /\ R[w] = Pseudonym(dom, w)
      BY <1>3, <2>1, Zenon
    <3> QED BY <3>1, <3>2, Zenon
  <2>2. CASE g.strategy # "REVERSIBLE_BIJECTIVE"
    BY <1>3, <2>2
  <2> QED BY <2>1, <2>2
<1>8. ASSUME NEW v \in Known PROVE R[v] = Absent <=> v = Absent
  <2>1. CASE v \in Words
    BY <1>5, <1>6, <2>1
  <2>2. CASE v \in Numbers
    BY <1>5, <1>7, <2>2
  <2>3. CASE v = "" \/ v = Absent
    BY <1>3, <1>5, <2>3
  <2> QED BY <1>5, <2>1, <2>2, <2>3
<1>9. ASSUME NEW v \in Known, NEW w \in Known, R[v] = R[w] PROVE v = w
  <2>1. CASE v \in Words
    <3>1. R[v] \in Words
      BY <1>6, <2>1
    <3>2. w \in Words
      BY <1>3, <1>5, <1>7, <1>9, <3>1
    <3> QED BY <1>6, <1>9, <2>1, <3>2
  <2>2. CASE v \in Numbers
    <3>1. R[v] \in Numbers
      BY <1>7, <2>2
    <3>2. w \in Numbers
      BY <1>3, <1>5, <1>6, <1>9, <3>1
    <3> QED BY <1>7, <1>9, <2>2, <3>2
  <2>3. CASE v = "" \/ v = Absent
    <3>1. R[v] = v
      BY <1>3, <2>3
    <3>2. w \notin Words
      BY <1>5, <1>6, <1>9, <2>3, <3>1
    <3>3. w \notin Numbers
      BY <1>5, <1>7, <1>9, <2>3, <3>1
    <3>4. R[w] = w
      BY <1>3, <1>5, <3>2, <3>3
    <3> QED BY <1>9, <3>1, <3>4
  <2> QED BY <1>5, <2>1, <2>2, <2>3
<1> QED BY <1>4, <1>8, <1>9 DEF d

\* The document and its schema, as a run that passed preflight has them.
RunIsBound ==
  /\ payload \in Payloads \ {Absent} /\ doc = ParsedDocument(payload) /\ facts \in SchemaFacts
  /\ parse_relationship_document(payload) /\ DocumentBinds(facts, doc)
  /\ validate_document_compatibility(doc) /\ doc # Absent

\* The members of a bound document agree with the schema.
LEMMA MemberFacts ==
  ASSUME RunIsBound, NEW g \in Elements(doc.groups), NEW m \in Elements(g.members)
  PROVE  /\ m.type \in {"C", "V", "I", "N"} /\ Place(m) \in DOMAIN facts
         /\ facts[Place(m)].type = m.type
         /\ is_numeric_member(m) =>
               Values(facts, Place(m)) \subseteq Numbers \cup {Absent, "fraction"}
         /\ ~ is_numeric_member(m) => Values(facts, Place(m)) \subseteq Texts \cup {Absent}
<1>1. MemberBinds(facts, g, m)
  BY DEF RunIsBound, DocumentBinds
<1>2. Place(m) \in DOMAIN facts /\ facts[Place(m)].type = m.type
  BY <1>1 DEF MemberBinds
<1>3. PICK h \in Elements(payload.groups) :
         parse_group(h, payload.envelope # {}) /\ g = ParsedGroup(h, payload.envelope # {})
  BY ParsedGroups DEF RunIsBound
<1>4. m \in Elements(h.members)
  BY <1>3 DEF ParsedGroup
<1>5. m.type \in {"C", "V", "I", "N"}
  BY <1>3, <1>4 DEF parse_group, parse_member, MemberIsValid
<1> QED BY <1>2, <1>5, ValuesAssumption DEF RunIsBound, is_numeric_member

\* The reversible groups a numeric field belongs to, by position.
HavingNumeric(place) ==
  {i \in DOMAIN doc.groups :
     /\ IsEffective(doc, doc.groups[i])
     /\ doc.groups[i].strategy = "REVERSIBLE_BIJECTIVE"
     /\ \E m \in Elements(doc.groups[i].members) : is_numeric_member(m) /\ Place(m) = place}

\* _numeric_member_of: preflight made sure that the first group found gives
\* the same domain as any other.
LEMMA NumericMemberOf ==
  ASSUME RunIsBound, NEW g \in effective_groups(doc), NEW m \in Elements(g.members),
         NEW t, NEW f, Place(m) = <<t, f>>
  PROVE  numeric_member_of(t, f)
            = IF is_numeric_member(m) /\ g.strategy = "REVERSIBLE_BIJECTIVE"
              THEN resolved_numeric_domain(doc, g) ELSE Absent
<1> DEFINE having == HavingNumeric(<<t, f>>)
<1>1. numeric_member_of(t, f)
         = IF having = {} THEN Absent
           ELSE <<relationship_fingerprint(doc), doc.groups[Min(having)].id>>
  BY DEF RunIsBound, numeric_member_of, HavingNumeric
<1>2. g \in Elements(doc.groups) /\ IsEffective(doc, g)
  BY DEF effective_groups
<1>3. ASSUME NEW i \in having
      PROVE  /\ is_numeric_member(m) /\ g.strategy = "REVERSIBLE_BIJECTIVE"
             /\ doc.groups[i].id = g.id
  <2> DEFINE h == doc.groups[i]
  <2>1. h \in Elements(doc.groups) /\ h.strategy = "REVERSIBLE_BIJECTIVE"
    BY DEF HavingNumeric, Elements
  <2>2. PICK n \in Elements(h.members) : is_numeric_member(n) /\ Place(n) = <<t, f>>
    BY DEF HavingNumeric
  <2> HIDE DEF h, having
  <2>3. m.type = n.type
    BY <1>2, <2>1, <2>2, MemberFacts
  <2>4. is_numeric_member(m)
    BY <2>2, <2>3 DEF is_numeric_member
  <2>5. NumericTreatmentsAgree(doc)
    BY DEF RunIsBound, validate_document_compatibility
  <2>6. /\ g.strategy = h.strategy
        /\ resolved_numeric_domain(doc, g) = resolved_numeric_domain(doc, h)
    BY <1>2, <2>1, <2>2, <2>4, <2>5 DEF NumericTreatmentsAgree
  <2>7. g.id = h.id
    BY <2>6 DEF resolved_numeric_domain
  <2> QED BY <2>1, <2>4, <2>6, <2>7 DEF h
<1>4. CASE having = {}
  <2>1. ~(is_numeric_member(m) /\ g.strategy = "REVERSIBLE_BIJECTIVE")
    <3> SUFFICES ASSUME is_numeric_member(m), g.strategy = "REVERSIBLE_BIJECTIVE" PROVE FALSE
      OBVIOUS
    <3>1. PICK i \in DOMAIN doc.groups : doc.groups[i] = g
      BY <1>2 DEF Elements
    <3>2. i \in having
      BY <1>2, <3>1 DEF HavingNumeric
    <3> QED BY <1>4, <3>2
  <2> QED BY <1>1, <1>4, <2>1
<1>5. CASE having # {}
  <2>1. having \in SUBSET Nat
    <3>1. DOMAIN payload.groups = 1..Len(payload.groups) /\ Len(payload.groups) \in Nat
      BY DocumentAssumption DEF RunIsBound
    <3>2. DOMAIN doc.groups = DOMAIN payload.groups
      BY DEF RunIsBound, ParsedDocument
    <3> QED BY <3>1, <3>2 DEF HavingNumeric
  <2> HIDE DEF having
  <2>2. \E i \in having : \A j \in having : i <= j
    BY <1>5, <2>1, LeastNatural
  <2>3. Min(having) \in having
    BY <2>2 DEF Min
  <2>4. is_numeric_member(m) /\ g.strategy = "REVERSIBLE_BIJECTIVE" /\ doc.groups[Min(having)].id = g.id
    BY <1>3, <2>3
  <2> QED BY <1>1, <1>5, <2>4 DEF resolved_numeric_domain
<1> QED BY <1>4, <1>5

\* A value of a relation's field is replaced the same way in every field of
\* the relation.
LEMMA TransformIsReplaced ==
  ASSUME RunIsBound, NEW g \in effective_groups(doc), NEW m \in Elements(g.members),
         NEW t, NEW f, Place(m) = <<t, f>>,
         NEW v, v \in Values(facts, <<t, f>>) \/ v = Absent, v # "fraction"
  PROVE  /\ v \in Known
         /\ transform_value(t, f, v) = Replaced(doc, g, v)
<1> DEFINE dom == resolved_numeric_domain(doc, g)
<1>1. g \in Elements(doc.groups) /\ payload \in Payloads \ {Absent} /\ doc = ParsedDocument(payload)
  BY DEF effective_groups, RunIsBound
<1>2. GlobalText # Absent /\ (g.strategy = "REVERSIBLE_BIJECTIVE" => dom # Absent)
  BY <1>1, PseudonymAssumption DEF IsReplacement
<1>3. numeric_member_of(t, f)
         = IF is_numeric_member(m) /\ g.strategy = "REVERSIBLE_BIJECTIVE" THEN dom ELSE Absent
  BY NumericMemberOf
<1>4. Texts \cap Numbers = {} /\ "" \in Texts /\ Absent \notin Texts \cup Numbers
  BY ValuesAssumption
<1>5. /\ facts[<<t, f>>].type = m.type /\ m.type \in {"C", "V", "I", "N"}
      /\ is_numeric_member(m) => v \in Numbers \cup {Absent}
      /\ ~ is_numeric_member(m) => v \in Texts \cup {Absent}
  BY <1>1, MemberFacts
<1> HIDE DEF dom
<1>6. Treatment(t, f) = IF is_numeric_member(m)
                        THEN IF g.strategy = "REVERSIBLE_BIJECTIVE" THEN dom ELSE Absent
                        ELSE GlobalText
  BY <1>2, <1>3, <1>5 DEF Treatment, is_numeric_member
<1>7. v \in Known
  BY <1>5 DEF Known
<1>8. CASE v \in {Absent, ""}
  BY <1>7, <1>8 DEF transform_value, Replaced
<1>9. CASE v \notin {Absent, ""} /\ is_numeric_member(m)
  <2>1. v \notin Texts
    BY <1>4, <1>5, <1>9
  <2> QED BY <1>2, <1>6, <1>7, <1>9, <2>1 DEF transform_value, Replaced, dom
<1>10. CASE v \notin {Absent, ""} /\ ~ is_numeric_member(m)
  <2>1. v \in Texts
    BY <1>5, <1>10
  <2> QED BY <1>2, <1>6, <1>7, <1>10, <2>1 DEF transform_value, Replaced
<1> QED BY <1>8, <1>9, <1>10

-----------------------------------------------------------------------------
(* A run whose source nobody changed.                                      *)

\* Pass 1 read the source and pass 2 wrote its transformation.
FaithSoFar ==
  \A t \in PlanTables :
     /\ \A i \in DOMAIN source[t] : source[t][i] \in RecordsOf(t)
     /\ DoneBefore(t) => scanned[t] = source[t] /\ ~ ObservationFails(t, source[t])
     /\ DoneAfter(t) => output[t] = [i \in DOMAIN source[t] |-> Transformed(t, source[t][i])]

FaithInv == edits \in Nat /\ (phase \in Judged /\ edits = 0 => FaithSoFar)

LEMMA FaithInit == AssuranceInit => FaithInv
BY DEF AssuranceInit, FaithInv, Judged

\* The treatment of a field is settled by the plan.
LEMMA TreatmentUnchanged ==
  UNCHANGED <<payload, facts, doc>> =>
     /\ \A t : RecordsOf(t)' = RecordsOf(t)
     /\ \A t, r : Transformed(t, r)' = Transformed(t, r)
     /\ \A t, rs : ObservationFails(t, rs)' = ObservationFails(t, rs)
<1> SUFFICES ASSUME UNCHANGED <<payload, facts, doc>>
             PROVE  /\ \A t : RecordsOf(t)' = RecordsOf(t)
                    /\ \A t, r : Transformed(t, r)' = Transformed(t, r)
                    /\ \A t, rs : ObservationFails(t, rs)' = ObservationFails(t, rs)
  OBVIOUS
<1>1. ASSUME NEW t PROVE RecordsOf(t)' = RecordsOf(t)
  BY DEF RecordsOf, Keyed
<1>2. ASSUME NEW t, NEW f PROVE Treatment(t, f)' = Treatment(t, f)
  BY DEF Treatment, numeric_member_of
<1>3. ASSUME NEW t, NEW r PROVE Transformed(t, r)' = Transformed(t, r)
  BY <1>2 DEF Transformed, transform_value
<1>4. Relations' = Relations
  BY RelationsUnchanged
<1>5. ASSUME NEW t, NEW rs PROVE ObservationFails(t, rs)' = ObservationFails(t, rs)
  BY <1>4 DEF ObservationFails
<1> QED BY <1>1, <1>3, <1>5

LEMMA FaithStep ==
  PlanInv /\ EvidenceInv /\ FaithInv /\ [AssuranceNext]_assurance_vars => FaithInv'
<1> SUFFICES ASSUME PlanInv, EvidenceInv, FaithInv, [AssuranceNext]_assurance_vars PROVE FaithInv'
  OBVIOUS
<1>1. edits \in Nat
  BY DEF FaithInv
<1>2. CASE BuildPlan
  BY <1>1, <1>2 DEF BuildPlan, FaithInv, Judged
<1>3. CASE Preflight
  <2>1. edits' = edits /\ UNCHANGED <<payload, facts, doc>> /\ phase' \in {"pass1", "refused"}
    BY <1>3 DEF Preflight
  <2>2. phase' = "pass1" =>
          /\ todo' = PlanTables
          /\ \A t \in PlanTables : \A i \in DOMAIN source'[t] : source'[t][i] \in RecordsOf(t)
    BY <1>3 DEF Preflight
  <2>3. phase' = "pass1" => FaithSoFar'
    BY <2>1, <2>2, TreatmentUnchanged DEF FaithSoFar, DoneBefore, DoneAfter
  <2> QED BY <1>1, <2>1, <2>3 DEF FaithInv, Judged
<1>4. ASSUME NEW t \in PlanTables, PassOneTable(t) PROVE FaithInv'
  <2>1. edits' = edits
    BY <1>4 DEF PassOneTable
  <2> SUFFICES ASSUME phase' \in Judged, edits' = 0 PROVE FaithSoFar'
    BY <1>1, <2>1 DEF FaithInv
  <2>2. /\ phase = "pass1" /\ phase \in Judged /\ t \in todo
        /\ UNCHANGED <<payload, facts, doc, source, output>>
        /\ ~ ObservationFails(t, source[t])
        /\ scanned' = [scanned EXCEPT ![t] = source[t]]
        /\ IF todo = {t} THEN phase' = "pass2" /\ todo' = PlanTables
           ELSE todo' = todo \ {t} /\ phase' = "pass1"
    BY <1>4 DEF PassOneTable, Judged, IsNextTable
  <2>3. FaithSoFar /\ DOMAIN scanned = PlanTables
    BY <2>1, <2>2 DEF FaithInv, EvidenceInv, ListsInv, ListsOf
  <2> SUFFICES ASSUME NEW u \in PlanTables
               PROVE  /\ \A i \in DOMAIN source[u] : source[u][i] \in RecordsOf(u)
                      /\ DoneBefore(u)' => scanned'[u] = source[u] /\ ~ ObservationFails(u, source[u])
                      /\ ~ DoneAfter(u)'
    BY <2>2, TreatmentUnchanged DEF FaithSoFar
  <2>4. ~ DoneAfter(u)' /\ (DoneBefore(u)' <=> (DoneBefore(u) \/ u = t))
    <3>1. CASE todo = {t}
      BY <2>2, <3>1 DEF DoneAfter, DoneBefore
    <3>2. CASE todo # {t}
      BY <2>2, <3>2 DEF DoneAfter, DoneBefore
    <3> QED BY <3>1, <3>2
  <2>5. scanned'[u] = IF u = t THEN source[t] ELSE scanned[u]
    BY <2>2, <2>3
  <2> QED BY <2>2, <2>3, <2>4, <2>5 DEF FaithSoFar
<1>5. ASSUME NEW t \in PlanTables, PassTwoTable(t) PROVE FaithInv'
  <2>1. edits' = edits
    BY <1>5 DEF PassTwoTable
  <2> SUFFICES ASSUME phase' \in Judged, edits' = 0 PROVE FaithSoFar'
    BY <1>1, <2>1 DEF FaithInv
  <2> DEFINE wrote == [i \in DOMAIN source[t] |-> Transformed(t, source[t][i])]
  <2>2. /\ phase = "pass2" /\ phase \in Judged /\ t \in todo
        /\ UNCHANGED <<payload, facts, doc, source, scanned>>
        /\ output' = [output EXCEPT ![t] = wrote]
        /\ todo' = todo \ {t}
        /\ phase' = IF todo = {t} THEN "derive" ELSE phase
    BY <1>5 DEF PassTwoTable, Judged
  <2>3. FaithSoFar /\ DOMAIN output = PlanTables
    BY <2>1, <2>2 DEF FaithInv, EvidenceInv, ListsInv, ListsOf
  <2>4. ASSUME NEW u \in PlanTables
        PROVE  /\ \A i \in DOMAIN source[u] : source[u][i] \in RecordsOf(u)
               /\ scanned[u] = source[u] /\ ~ ObservationFails(u, source[u])
               /\ DoneAfter(u)' =>
                     output'[u] = [i \in DOMAIN source[u] |-> Transformed(u, source[u][i])]
    <3>1. DoneBefore(u)
      BY <2>2 DEF DoneBefore
    <3>2. DoneAfter(u)' <=> (DoneAfter(u) \/ u = t)
      <4>1. CASE todo = {t}
        <5>1. todo = {t} /\ phase' = "derive"
          BY <2>2, <4>1
        <5> QED BY <2>2, <5>1 DEF DoneAfter
      <4>2. CASE todo # {t}
        BY <2>2, <4>2 DEF DoneAfter
      <4> QED BY <4>1, <4>2
    <3>3. u # t => output'[u] = output[u]
      BY <2>2
    <3>4. u = t => output'[u] = wrote
      BY <2>2, <2>3
    <3> QED BY <2>3, <3>1, <3>2, <3>3, <3>4 DEF FaithSoFar
  <2> HIDE DEF wrote
  <2> QED BY <2>2, <2>4, TreatmentUnchanged DEF FaithSoFar
<1>6. CASE Derive \/ UNCHANGED assurance_vars
  <2>1. /\ UNCHANGED <<payload, facts, doc, source, scanned, todo, output, edits>>
        /\ (phase = "derive" /\ phase' \in {"failed", "done"}) \/ phase' = phase
    BY <1>6 DEF Derive, assurance_vars
  <2> SUFFICES ASSUME phase' \in Judged, edits' = 0 PROVE FaithSoFar'
    BY <1>1, <2>1 DEF FaithInv
  <2>2. phase \in Judged /\ ((phase = "derive" /\ phase' = "done") \/ phase' = phase)
    BY <2>1 DEF Judged
  <2>3. FaithSoFar
    BY <2>1, <2>2 DEF FaithInv
  <2>4. \A t : DoneBefore(t)' = DoneBefore(t) /\ DoneAfter(t)' = DoneAfter(t)
    BY <2>1, <2>2 DEF DoneBefore, DoneAfter
  <2> QED BY <2>1, <2>3, <2>4, TreatmentUnchanged DEF FaithSoFar
<1>7. ASSUME NEW t \in PlanTables, EditSource(t) PROVE FaithInv'
  BY <1>1, <1>7 DEF EditSource, FaithInv
<1> QED BY <1>2, <1>3, <1>4, <1>5, <1>6, <1>7 DEF AssuranceNext

\* The key tuples of both sides of a relation, and their renaming.
Tuples(g) == UNION {[DOMAIN RelationDirective(g)[role].fields -> Known] : role \in Sides}
Renaming(d, g) == [k \in Tuples(g) |-> [j \in DOMAIN k |-> Replaced(d, g, k[j])]]

LEMMA RenamingRenames ==
  ASSUME NEW p \in Payloads \ {Absent}, NEW g \in Elements(ParsedDocument(p).groups)
  PROVE  IsRenaming(Renaming(ParsedDocument(p), g), Tuples(g))
<1> DEFINE d == ParsedDocument(p)
           phi == Renaming(d, g)
           T == Tuples(g)
<1>1. /\ \A v \in Known : Replaced(d, g, v) = Absent <=> v = Absent
      /\ \A v, w \in Known : Replaced(d, g, v) = Replaced(d, g, w) => v = w
  BY ReplacedIsInjective
<1>2. ASSUME NEW k \in T
      PROVE  /\ \E D : k \in [D -> Known]
             /\ phi[k] = [j \in DOMAIN k |-> Replaced(d, g, k[j])]
  BY DEF Tuples, Renaming
<1> HIDE DEF d, phi, T
<1>3. ASSUME NEW k \in T PROVE Absent \in Elements(k) <=> Absent \in Elements(phi[k])
  <2>1. phi[k] = [j \in DOMAIN k |-> Replaced(d, g, k[j])]
    BY <1>2
  <2>2. DOMAIN phi[k] = DOMAIN k /\ \A j \in DOMAIN k : phi[k][j] = Replaced(d, g, k[j])
    BY <2>1
  <2>3. \A j \in DOMAIN k : k[j] \in Known
    BY <1>2
  <2>4. \A j \in DOMAIN k : phi[k][j] = Absent <=> k[j] = Absent
    BY <1>1, <2>2, <2>3
  <2> QED BY <2>2, <2>4 DEF Elements
<1>4. ASSUME NEW k \in T, NEW l \in T, phi[k] = phi[l] PROVE k = l
  <2>1. DOMAIN k = DOMAIN l /\ \A j \in DOMAIN k : Replaced(d, g, k[j]) = Replaced(d, g, l[j])
    <3>1. /\ phi[k] = [j \in DOMAIN k |-> Replaced(d, g, k[j])]
          /\ phi[l] = [j \in DOMAIN l |-> Replaced(d, g, l[j])]
      BY <1>2
    <3>2. DOMAIN k = DOMAIN phi[k] /\ DOMAIN l = DOMAIN phi[l]
      BY <3>1
    <3>3. \A j \in DOMAIN k : phi[k][j] = Replaced(d, g, k[j])
      BY <3>1
    <3>4. \A j \in DOMAIN l : phi[l][j] = Replaced(d, g, l[j])
      BY <3>1
    <3> QED BY <1>4, <3>2, <3>3, <3>4
  <2>2. PICK D, E : k \in [D -> Known] /\ l \in [E -> Known]
    BY <1>2
  <2>3. D = E /\ \A j \in D : k[j] = l[j]
    BY <1>1, <2>1, <2>2
  <2> QED BY <2>2, <2>3
<1> QED BY <1>3, <1>4 DEF IsRenaming, d, phi, T

\* The key of a transformed record is the renamed key of the record.
LEMMA KeyIsRenamed ==
  ASSUME RunIsBound, NEW g \in effective_groups(doc), OneTablePerRole(g), NEW role \in Sides,
         NEW r \in RecordsOf(RelationDirective(g)[role].table),
         ~ Unsupported(RelationDirective(g)[role], r)
  PROVE  LET side == RelationDirective(g)[role] IN
         /\ KeyOf(side, r) \in Tuples(g)
         /\ KeyOf(side, Transformed(side.table, r)) = Renaming(doc, g)[KeyOf(side, r)]
<1> DEFINE side == RelationDirective(g)[role]
           t == side.table
           k == KeyOf(side, r)
           w == Transformed(t, r)
<1>1. g \in Elements(doc.groups)
  BY DEF effective_groups
<1>2. \A j \in DOMAIN side.fields : \E m \in Elements(g.members) :
         m.table = t /\ m.field = side.fields[j]
  BY <1>1, SideIsBound DEF RunIsBound
<1>3. /\ DOMAIN w = DOMAIN r
      /\ \A f \in DOMAIN r : w[f] = transform_value(t, f, r[f])
  BY DEF Transformed
<1>4. \A f \in DOMAIN r : r[f] \in Values(facts, <<t, f>>) \/ r[f] = Absent
  BY DEF RecordsOf
<1>5. ~ "fraction" \in Elements(k)
  BY DEF Unsupported
<1>6. /\ DOMAIN k = DOMAIN side.fields
      /\ \A j \in DOMAIN side.fields :
            k[j] = IF side.fields[j] \in DOMAIN r THEN r[side.fields[j]] ELSE Absent
      /\ k = [j \in DOMAIN side.fields |-> k[j]]
  BY DEF KeyOf
<1>7. KeyOf(side, w) = [j \in DOMAIN side.fields |->
                          IF side.fields[j] \in DOMAIN w THEN w[side.fields[j]] ELSE Absent]
  BY DEF KeyOf
<1>8. side \in {RelationDirective(g)[x] : x \in Sides}
  OBVIOUS
<1> HIDE DEF w, k, t, side
<1>9. ASSUME NEW j \in DOMAIN side.fields
      PROVE  /\ k[j] \in Known
             /\ (IF side.fields[j] \in DOMAIN w THEN w[side.fields[j]] ELSE Absent)
                   = Replaced(doc, g, k[j])
  <2> DEFINE f == side.fields[j]
  <2>1. PICK m \in Elements(g.members) : m.table = t /\ m.field = f
    BY <1>2
  <2>2. Place(m) = <<t, f>>
    BY <2>1 DEF Place
  <2>3. k[j] # "fraction"
    BY <1>5, <1>6 DEF Elements
  <2>4. k[j] \in Values(facts, <<t, f>>) \/ k[j] = Absent
    BY <1>4, <1>6
  <2>5. k[j] \in Known /\ transform_value(t, f, k[j]) = Replaced(doc, g, k[j])
    BY <2>2, <2>3, <2>4, TransformIsReplaced
  <2> HIDE DEF f
  <2>6. CASE f \in DOMAIN r
    BY <1>3, <1>6, <2>5, <2>6 DEF f
  <2>7. CASE f \notin DOMAIN r
    <3>1. k[j] = Absent
      BY <1>6, <2>7 DEF f
    <3>2. Replaced(doc, g, Absent) = Absent
      BY DEF Replaced
    <3> QED BY <1>3, <2>5, <2>7, <3>1, <3>2 DEF f
  <2> QED BY <2>6, <2>7
<1>10. k \in [DOMAIN side.fields -> Known]
  BY <1>6, <1>9
<1>11. k \in Tuples(g)
  BY <1>10 DEF Tuples, side
<1>12. KeyOf(side, w) = [j \in DOMAIN k |-> Replaced(doc, g, k[j])]
  BY <1>6, <1>7, <1>9
<1>13. Renaming(doc, g)[k] = [j \in DOMAIN k |-> Replaced(doc, g, k[j])]
  BY <1>11 DEF Renaming
<1> QED BY <1>11, <1>12, <1>13 DEF w, k, t, side

\* Every relation of a run whose source nobody changed is verified.
LEMMA FaithfulVerdict ==
  ASSUME PlanInv, EvidenceInv, FaithInv, phase = "done", edits = 0, NEW g \in Relations,
         OneTablePerRole(g)
  PROVE  RelationIsVerified(spool["before"][g.id], spool["after"][g.id])
<1>1. /\ doc # Absent
      /\ RunIsBound /\ g \in effective_groups(doc) /\ g \in Elements(doc.groups)
      /\ \A role \in Sides : RelationDirective(g)[role].table \in PlanTables
  <2>1. doc # Absent
    BY DEF Relations
  <2> QED BY <2>1, RelationsAreGroups DEF RunIsBound, PlanInv, Judged
<1>2. ListsInv /\ EvidenceSoFar /\ FaithSoFar
  BY DEF EvidenceInv, FaithInv, Judged
<1>3. \A t : DoneBefore(t) /\ DoneAfter(t)
  BY DEF DoneBefore, DoneAfter
<1>4. \A role \in Sides : /\ spool["before"][g.id][role] = ReferenceSide(g, role, scanned)
                          /\ spool["after"][g.id][role] = ReferenceSide(g, role, output)
  BY <1>2, <1>3 DEF EvidenceSoFar
<1> DEFINE T == Tuples(g)
           phi == Renaming(doc, g)
<1>5. IsRenaming(phi, T)
  BY <1>1, RenamingRenames DEF RunIsBound
<1>6. ASSUME NEW role \in Sides
      PROVE  LET u == RelationDirective(g)[role].table IN
             /\ IsList(scanned[u]) /\ IsList(output[u]) /\ Len(output[u]) = Len(scanned[u])
             /\ \A i \in 1..Len(scanned[u]) :
                   /\ Stream(g, role, scanned)[i] \in T
                   /\ Stream(g, role, output)[i] = phi[Stream(g, role, scanned)[i]]
  <2> DEFINE side == RelationDirective(g)[role]
             u == side.table
             rs == source[u]
             ws == output[u]
  <2>1. u \in PlanTables
    BY <1>1
  <2>2. /\ \A i \in DOMAIN rs : rs[i] \in RecordsOf(u)
        /\ scanned[u] = rs /\ ~ ObservationFails(u, rs)
        /\ ws = [i \in DOMAIN rs |-> Transformed(u, rs[i])]
    BY <1>2, <1>3, <2>1 DEF FaithSoFar
  <2>3. IsList(rs) /\ IsList(ws)
    BY <1>2, <2>1, <2>2 DEF ListsInv, ListsOf
  <2>4. \A i \in DOMAIN rs : ~ Unsupported(side, rs[i])
    BY <2>2 DEF ObservationFails
  <2>5. /\ Stream(g, role, scanned) = [i \in DOMAIN rs |-> KeyOf(side, rs[i])]
        /\ Stream(g, role, output) = [i \in DOMAIN ws |-> KeyOf(side, ws[i])]
    BY <2>2 DEF Stream, KeyStream
  <2>6. ASSUME NEW i \in DOMAIN rs
        PROVE  KeyOf(side, rs[i]) \in T /\ KeyOf(side, ws[i]) = phi[KeyOf(side, rs[i])]
    <3>1. rs[i] \in RecordsOf(side.table) /\ ~ Unsupported(side, rs[i])
      BY <2>2, <2>4
    <3>2. ws[i] = Transformed(side.table, rs[i])
      BY <2>2
    <3> HIDE DEF rs, ws
    <3> QED BY <1>1, <3>1, <3>2, KeyIsRenamed
  <2> HIDE DEF T, phi, rs, ws, side
  <2>7. DOMAIN ws = DOMAIN rs /\ Len(ws) = Len(rs) /\ DOMAIN rs = 1..Len(rs)
    BY <2>2, <2>3 DEF IsList
  <2>8. \A i \in 1..Len(rs) : /\ Stream(g, role, scanned)[i] \in T
                              /\ Stream(g, role, output)[i] = phi[Stream(g, role, scanned)[i]]
    BY <2>5, <2>6, <2>7
  <2> QED BY <2>2, <2>3, <2>7, <2>8 DEF rs, ws, side
<1> HIDE DEF T, phi
<1>7. KeysRenamed(g, scanned, output, T, phi)
  BY <1>6 DEF KeysRenamed
<1> QED BY <1>4, <1>5, <1>7, RenamedIsVerified

LEMMA FaithfulLemma == PlanInv /\ EvidenceInv /\ FaithInv => FaithfulRunIsVerified
<1> SUFFICES ASSUME PlanInv, EvidenceInv, FaithInv, phase = "done", edits = 0,
                    \A g \in Relations : OneTablePerRole(g)
             PROVE  level # "INCOMPLETE"
  BY DEF FaithfulRunIsVerified
<1> DEFINE V == {r \in DOMAIN Verdicts : Verdicts[r]}
           m == meta.count
           v == Cardinality(V)
           auth == validated_authority_binding(meta, binding)
<1>1. level = DerivedFromBoundedEvidence(meta, Verdicts, binding) /\ level # "refused"
  BY DEF PlanInv, LevelIsDerived
<1>2. Cardinality(DOMAIN Verdicts) = m /\ level = assurance_from_counts(meta, v, m - v, auth)
  BY <1>1 DEF DerivedFromBoundedEvidence
<1>3. IsFiniteSet(RelationIds) /\ DOMAIN Verdicts = RelationIds
  BY RelationsAreFinite, StatusesAreVerdicts DEF Judged
<1>4. \A id \in RelationIds : Verdicts[id]
  <2>1. DOMAIN spool["before"] = RelationIds
    BY DEF EvidenceInv, SpoolShape, Judged
  <2>2. \A id \in RelationIds : RelationIsVerified(spool["before"][id], spool["after"][id])
    BY FaithfulVerdict DEF RelationIds
  <2> QED BY <2>1, <2>2 DEF Verdicts
<1>5. V = DOMAIN Verdicts
  BY <1>3, <1>4
<1>6. m \in Nat /\ v = m
  BY <1>2, <1>3, <1>5, FS_CardinalityType
<1> HIDE DEF v, auth
<1>7. CASE m = 0
  BY <1>2, <1>7 DEF assurance_from_counts
<1>8. CASE m > 0 /\ v = m /\ m - v = 0
  BY <1>2, <1>8 DEF assurance_from_counts
<1> QED BY <1>6, <1>7, <1>8

\* FaithfulRunIsVerified: preflight accepts only documents that survive the
\* transformation of a source nobody changes, when each side of a relation is
\* in one table.
THEOREM FaithfulTheorem == AssuranceSpec => []FaithfulRunIsVerified
<1>1. AssuranceInit => PlanInv /\ EvidenceInv /\ FaithInv
  BY PlanInit, EvidenceInit, FaithInit
<1>2. PlanInv /\ EvidenceInv /\ FaithInv /\ [AssuranceNext]_assurance_vars
         => (PlanInv /\ EvidenceInv /\ FaithInv)'
  BY PlanStep, EvidenceStep, FaithStep
<1> QED BY <1>1, <1>2, FaithfulLemma, PTL DEF AssuranceSpec
=============================================================================
