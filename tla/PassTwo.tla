------------------------------- MODULE PassTwo -------------------------------
(***************************************************************************)
(* The table write pass, run_pass_two (engine/pass2.py).                   *)
(*                                                                         *)
(* With one worker the tables are written inline, one after the other.     *)
(* With more, a ThreadPoolExecutor gets them in batches of `workers'; the  *)
(* coordinator waits with FIRST_EXCEPTION and a short timeout, and only    *)
(* when a whole batch has succeeded it accepts the results in submission   *)
(* order: it merges the evidence shard of the table into the spool, moves  *)
(* the table into the dataset and reports progress.  The first failure, of *)
(* a worker or of the coordinator itself, sets `stop', cancels what has    *)
(* not started and waits for the rest.                                     *)
(***************************************************************************)
EXTENDS Integers, Sequences

CONSTANTS
  N,             \* number of tables of the engine plan, the tables are 1..N
  WorkerCounts,  \* the values of the `workers' argument
  Faults,        \* what can go wrong: a subset of AllFaults
  None           \* no error

AllFaults == {"data", "close", "cancel", "callback", "interrupt", "threads"}

\* The exceptions: of a worker's own work, of the stop, of a worker's clean-up,
\* of the caller's cancellation and callbacks, of an interrupt, and of the
\* coordinator's own work on spool and staging tree.
Errors == {"failure", "coordinator", "cleanup", "cancelled", "callback", "interrupt", "assembly"}

ASSUME TablesAssumption == N \in Nat
ASSUME WorkersAssumption == WorkerCounts \subseteq Nat \ {0}
ASSUME FaultsAssumption == Faults \subseteq AllFaults
ASSUME NoneAssumption == None \notin Errors

VARIABLES
  workers,  \* the `workers' argument of this call
  main,     \* where the coordinator is
  base,     \* first table of the current batch (`start' of the loop, plus one)
  turn,     \* next table to submit, or to accept
  pending,  \* futures not yet seen finished
  stop,     \* the Event shared with the workers
  threads,  \* the executor has started at least one thread
  job,      \* job[i]: where the worker of table i is, or how it ended
  why,      \* why[i]: the exception of the future of table i
  shard,    \* shard[i]: evidence shard file of table i
  reader,   \* reader[i]: worker i holds a read-only vault connection
  table,    \* table[i]: the output of table i
  merged,   \* shards merged into the spool, in order
  torn,     \* a merge failed halfway; the spool has journal_mode=OFF
  written,  \* tables accepted, in order
  root,     \* the evidence root directory exists
  error     \* the exception the coordinator is raising

batch == <<base, turn, pending>>
files == <<shard, reader, table>>
results == <<merged, torn, written, root>>
vars == <<workers, main, batch, stop, threads, job, why, files, results, error>>

Tables == 1..N
Pool == workers > 1
LastTable == IF base + workers - 1 < N THEN base + workers - 1 ELSE N
Batch == base..LastTable

Finished == {"ok", "failed", "cancelled"}
Body == {"checkpoint", "reader", "source", "write", "closeShard", "closeReader"}
Handler == {"setStop", "cleanShard", "cleanReader"}
Running == Body \cup Handler

\* The exceptions check_cancelled can raise: the caller cancelled, or the
\* caller's own callback raised.
Probe == {e \in {"cancelled", "callback"} :
            \/ e = "cancelled" /\ "cancel" \in Faults
            \/ e = "callback" /\ "callback" \in Faults}

Init ==
  /\ workers \in WorkerCounts
  /\ main = "start"
  /\ base = 1 /\ turn = 1
  /\ pending = {}
  /\ stop = FALSE /\ threads = FALSE
  /\ job = [i \in Tables |-> "idle"]
  /\ why = [i \in Tables |-> None]
  /\ shard = [i \in Tables |-> "absent"]
  /\ reader = [i \in Tables |-> FALSE]
  /\ table = [i \in Tables |-> "absent"]
  /\ merged = <<>> /\ torn = FALSE /\ written = <<>>
  /\ root = TRUE
  /\ error = None

-----------------------------------------------------------------------------
(* The worker, _write_table, for table i *)

Move(i, from, to) == job[i] = from /\ job' = [job EXCEPT ![i] = to]

\* Everything a worker leaves alone.
WorkerOnly == UNCHANGED <<workers, main, batch, threads, results, error>>

\* The exceptions that can end the body of worker i at a checkpoint or at any
\* call it makes.  Inline, the checkpoint is check_cancelled and an interrupt
\* reaches the worker; in the pool the checkpoint looks at `stop' only.
Failures ==
  (IF "data" \in Faults THEN {"failure"} ELSE {})
    \cup (IF Pool THEN IF stop THEN {"coordinator"} ELSE {}
          ELSE Probe \cup IF "interrupt" \in Faults THEN {"interrupt"} ELSE {})

\* A thread of the pool takes a queued future.
Take(i) ==
  /\ threads
  /\ Move(i, "queued", "checkpoint")
  /\ WorkerOnly /\ UNCHANGED <<stop, why, files>>

\* The first checkpoint, then the shard file is created exclusively.
OpenShard(i) ==
  /\ ~(Pool /\ stop)
  /\ Move(i, "checkpoint", "reader")
  /\ shard' = [shard EXCEPT ![i] = "open"]
  /\ WorkerOnly /\ UNCHANGED <<stop, why, reader, table>>

OpenReader(i) ==
  /\ Move(i, "reader", "source")
  /\ reader' = [reader EXCEPT ![i] = TRUE]
  /\ WorkerOnly /\ UNCHANGED <<stop, why, shard, table>>

\* read_source_table and the private directory of the table.
OpenSource(i) ==
  /\ ~(Pool /\ stop)
  /\ Move(i, "source", "write")
  /\ table' = [table EXCEPT ![i] = "partial"]
  /\ WorkerOnly /\ UNCHANGED <<stop, why, shard, reader>>

\* write_fresh_table runs to the end of the stream: no checkpoint on the way
\* saw `stop'.  It may have been set since the last one.
WriteRows(i) ==
  /\ Move(i, "write", "closeShard")
  /\ table' = [table EXCEPT ![i] = "written"]
  /\ WorkerOnly /\ UNCHANGED <<stop, why, shard, reader>>

CloseShard(i) ==
  /\ Move(i, "closeShard", "closeReader")
  /\ shard' = [shard EXCEPT ![i] = "closed"]
  /\ WorkerOnly /\ UNCHANGED <<stop, why, reader, table>>

\* reader.close() and the return of the result.
CloseReader(i) ==
  /\ Move(i, "closeReader", "ok")
  /\ reader' = [reader EXCEPT ![i] = FALSE]
  /\ WorkerOnly /\ UNCHANGED <<stop, why, shard, table>>

\* An exception leaves the body.  The constructor of the shard removes its own
\* file, and leaves it behind only if that fails.
BodyFails(i) ==
  /\ \E at \in {"checkpoint", "reader", "source", "write"} : Move(i, at, "setStop")
  /\ \E e \in Failures : why' = [why EXCEPT ![i] = e]
  /\ \/ UNCHANGED shard
     \/ {"data", "close"} \subseteq Faults /\ job[i] = "checkpoint" /\ why'[i] = "failure"
          /\ shard' = [shard EXCEPT ![i] = "orphan"]
  /\ WorkerOnly /\ UNCHANGED <<stop, reader, table>>

\* shard.close() or reader.close() fails; neither has a checkpoint.
CloseFails(i) ==
  /\ "close" \in Faults
  /\ \E at \in {"closeShard", "closeReader"} : Move(i, at, "setStop")
  /\ why' = [why EXCEPT ![i] = "failure"]
  /\ WorkerOnly /\ UNCHANGED <<stop, files>>

\* except BaseException: stop.set()
SetStop(i) ==
  /\ Move(i, "setStop", "cleanShard")
  /\ stop' = TRUE
  /\ WorkerOnly /\ UNCHANGED <<why, files>>

\* shard.cleanup(), when the worker still holds the shard; a closed shard is
\* no longer its own.
CleanShard(i) ==
  /\ Move(i, "cleanShard", "cleanReader")
  /\ \/ shard' = [shard EXCEPT ![i] = IF @ = "open" THEN "absent" ELSE @] /\ UNCHANGED why
     \/ shard[i] = "open" /\ "close" \in Faults /\ why' = [why EXCEPT ![i] = "cleanup"] /\ UNCHANGED shard
  /\ WorkerOnly /\ UNCHANGED <<stop, reader, table>>

\* reader.close(): a reader whose close failed before, behind the shard's, counts
\* as closed and is not tried again.  The failure of a clean-up replaces the
\* first exception.
CleanReader(i) ==
  /\ Move(i, "cleanReader", "failed")
  /\ \/ shard[i] # "closed" /\ reader' = [reader EXCEPT ![i] = FALSE] /\ UNCHANGED why
     \/ shard[i] = "closed" /\ UNCHANGED <<reader, why>>
     \/ "close" \in Faults /\ shard[i] # "closed" /\ reader[i] /\ UNCHANGED reader
          /\ why' = [why EXCEPT ![i] = "cleanup"]
  /\ WorkerOnly /\ UNCHANGED <<stop, shard, table>>

Worker(i) ==
  \/ Take(i) \/ OpenShard(i) \/ OpenReader(i) \/ OpenSource(i) \/ WriteRows(i)
  \/ CloseShard(i) \/ CloseReader(i)
  \/ BodyFails(i) \/ CloseFails(i) \/ SetStop(i) \/ CleanShard(i) \/ CleanReader(i)

-----------------------------------------------------------------------------
(* The coordinator *)

Goto(from, to) == main = from /\ main' = to

\* Everything the coordinator leaves to the workers.
CoordinatorOnly == UNCHANGED <<workers, why, reader>>

\* An exception leaves the loop; the executor's exit comes next.
Raise(from, e) ==
  /\ Goto(from, "join")
  /\ error' = e

\* The file system, the spool or the vault fails under the coordinator.
Assembly == IF "data" \in Faults THEN {"assembly"} ELSE {}

StartPhase ==
  /\ \/ Goto("start", "batch") /\ UNCHANGED error
     \/ \E e \in Probe \cup Assembly : Raise("start", e)
  /\ CoordinatorOnly /\ UNCHANGED <<batch, stop, threads, job, shard, table, results>>

\* The head of the loop over batches, check_cancelled included.
NextBatch ==
  /\ main = "batch"
  /\ base <= N
  /\ turn' = base
  /\ \/ Pool /\ Goto("batch", "submit") /\ UNCHANGED <<job, error>>
     \/ ~Pool /\ Goto("batch", "inline") /\ job' = [job EXCEPT ![base] = "checkpoint"] /\ UNCHANGED error
     \/ (\E e \in Probe : Raise("batch", e)) /\ UNCHANGED job
  /\ CoordinatorOnly /\ UNCHANGED <<base, pending, stop, threads, shard, table, results>>

\* workers == 1: the call of _write_table returns or raises.
InlineReturns ==
  /\ main = "inline"
  /\ job[base] \in {"ok", "failed"}
  /\ \/ job[base] = "ok" /\ Goto("inline", "merge") /\ UNCHANGED error
     \/ job[base] = "failed" /\ Raise("inline", why[base])
  /\ CoordinatorOnly /\ UNCHANGED <<batch, stop, threads, job, shard, table, results>>

\* executor.submit: the future is queued, then a thread is started.  If no
\* thread can be started the future stays in the queue.
Submit ==
  /\ turn \in Batch
  /\ job' = [job EXCEPT ![turn] = "queued"]
  /\ turn' = turn + 1
  /\ \/ /\ Goto("submit", IF turn = LastTable THEN "wait" ELSE "submit")
        /\ threads' = TRUE
        /\ pending' = IF turn = LastTable THEN Batch ELSE pending
        /\ UNCHANGED error
     \/ /\ "threads" \in Faults
        /\ Raise("submit", "failure")
        /\ UNCHANGED <<threads, pending>>
  /\ CoordinatorOnly /\ UNCHANGED <<base, stop, shard, table, results>>

First(S) == CHOOSE i \in S : \A j \in S : i <= j
Done == {i \in pending : job[i] \in Finished}

\* Mutant: finished futures stay pending.
WaitKeepsPending ==
  /\ main = "wait" /\ pending # {}
  /\ \/ (\E i \in Done : job[i] = "failed") /\ main' = "stopping"
     \/ (\A i \in Done : job[i] # "failed") /\ UNCHANGED main
  /\ CoordinatorOnly /\ UNCHANGED <<batch, stop, threads, job, shard, table, results, error>>

\* One turn of `while pending': wait returns what has finished (an exception
\* or the timeout ends it), a failure leads to the stop, otherwise the loop
\* goes on until `pending' is empty.
Wait ==
  /\ main = "wait" /\ pending # {}
  /\ pending' = pending \ Done
  /\ turn' = base
  /\ \/ (\E i \in Done : job[i] = "failed") /\ main' = "stopping"
     \/ (\A i \in Done : job[i] # "failed") /\ main' = (IF pending' = {} THEN "merge" ELSE "wait")
  /\ CoordinatorOnly /\ UNCHANGED <<base, stop, threads, job, shard, table, results, error>>

\* The same turn of the loop, when nothing has failed and check_cancelled raises.
WaitCancelled ==
  /\ main = "wait" /\ pending # {}
  /\ \A i \in Done : job[i] # "failed"
  /\ pending' = pending \ Done
  /\ main' = "stopping"
  /\ error' \in Probe
  /\ CoordinatorOnly /\ UNCHANGED <<base, turn, stop, threads, job, shard, table, results>>

\* stop.set(), and future.cancel() for what is pending: only a future that no
\* thread has taken can be cancelled.
StopWorkers ==
  /\ Goto("stopping", "drain")
  /\ stop' = TRUE
  /\ job' = [i \in Tables |-> IF i \in pending /\ job[i] = "queued" THEN "cancelled" ELSE job[i]]
  /\ CoordinatorOnly /\ UNCHANGED <<batch, threads, shard, table, results, error>>

\* _primary_worker_failure: the failures in submission order, the first one
\* that is no CancellationError if there is one.  CancellationError is what a
\* worker raises when it sees `stop'.
Failed == {i \in Batch : job[i] = "failed"}
Genuine == {i \in Failed : why[i] # "coordinator"}
Primary == why[First(IF Genuine # {} THEN Genuine ELSE Failed)]

\* Mutant: the failure is raised before the siblings have finished.
DrainAtOnce ==
  /\ Failed # {}
  /\ Raise("drain", IF error = None THEN Primary ELSE error)
  /\ CoordinatorOnly /\ UNCHANGED <<batch, stop, threads, job, shard, table, results>>

\* wait(pending), then the failure is raised: the coordinator's own, or the
\* primary one of the workers.
Drain ==
  /\ \A i \in pending : job[i] \in Finished
  /\ Raise("drain", IF error = None THEN Primary ELSE error)
  /\ CoordinatorOnly /\ UNCHANGED <<batch, stop, threads, job, shard, table, results>>

\* A KeyboardInterrupt in the main thread, at most while it still runs code of
\* run_pass_two; one that arrives while the executor joins its threads is left
\* out.  Inside the try statement it leads to the handler, which stops the
\* workers; elsewhere, the handler included, to the exit of the executor.
InterruptTry ==
  /\ "interrupt" \in Faults
  /\ main = "wait" \/ (main \in {"stopping", "drain"} /\ error = None)
  /\ main' = "stopping"
  /\ error' = "interrupt"
  /\ CoordinatorOnly /\ UNCHANGED <<batch, stop, threads, job, shard, table, results>>

InterruptElsewhere ==
  /\ "interrupt" \in Faults
  /\ \/ main \in {"start", "batch", "submit", "merge", "assemble", "report", "compare"}
     \/ main \in {"stopping", "drain"} /\ error # None
  /\ Raise(main, "interrupt")
  /\ CoordinatorOnly /\ UNCHANGED <<batch, stop, threads, job, shard, table, results>>

\* Mutant: a failed merge is logged and passed over.
MergeSwallowsError ==
  /\ Goto("merge", "assemble")
  /\ \/ shard[turn] = "closed" /\ shard' = [shard EXCEPT ![turn] = "absent"] /\ UNCHANGED torn
     \/ Assembly # {} /\ torn' = TRUE /\ UNCHANGED shard
  /\ merged' = Append(merged, turn)
  /\ CoordinatorOnly /\ UNCHANGED <<batch, stop, threads, job, table, written, root, error>>

\* accept: spool.merge_relation_shard merges the closed shard and unlinks it.
\* A missing shard cannot be opened, and a failure halfway leaves part of it in
\* the spool.
Merge ==
  /\ main = "merge"
  /\ \/ /\ Goto("merge", "assemble")
        /\ shard[turn] = "closed"
        /\ merged' = Append(merged, turn)
        /\ shard' = [shard EXCEPT ![turn] = "absent"]
        /\ UNCHANGED <<torn, error>>
     \/ /\ \E e \in Assembly : Raise("merge", e)
        /\ torn' = TRUE
        /\ UNCHANGED <<merged, shard>>
     \/ /\ shard[turn] # "closed"
        /\ Raise("merge", "assembly")
        /\ UNCHANGED <<merged, torn, shard>>
     \/ /\ "close" \in Faults /\ shard[turn] = "closed"
        /\ Raise("merge", "assembly")
        /\ merged' = Append(merged, turn)
        /\ UNCHANGED <<torn, shard>>
  /\ CoordinatorOnly /\ UNCHANGED <<batch, stop, threads, job, table, written, root>>

\* accept: staging.assemble_table moves the table into the dataset.
Assemble ==
  /\ main = "assemble"
  /\ \/ /\ Goto("assemble", "report")
        /\ table[turn] = "written"
        /\ table' = [table EXCEPT ![turn] = "placed"]
        /\ written' = Append(written, turn)
        /\ UNCHANGED error
     \/ /\ \E e \in (IF table[turn] = "written" THEN Assembly ELSE {"assembly"}) : Raise("assemble", e)
        /\ UNCHANGED <<table, written>>
  /\ CoordinatorOnly /\ UNCHANGED <<batch, stop, threads, job, shard, merged, torn, root>>

\* accept: control.bump calls the progress callback.  The next result follows,
\* or the next batch.
Report ==
  /\ \/ /\ main = "report" /\ turn < LastTable
        /\ main' = "merge" /\ turn' = turn + 1
        /\ UNCHANGED <<base, error>>
     \/ /\ main = "report" /\ turn = LastTable
        /\ main' = "batch" /\ base' = LastTable + 1
        /\ UNCHANGED <<turn, error>>
     \/ /\ "callback" \in Faults
        /\ Raise("report", "callback")
        /\ UNCHANGED <<base, turn>>
  /\ CoordinatorOnly /\ UNCHANGED <<pending, stop, threads, job, shard, table, results>>

\* Behind the loop, cleanup_evidence_root removes the root and what is in it.
CleanupRoot ==
  /\ base > N
  /\ \/ Goto("batch", "compare") /\ root' = FALSE /\ shard' = [i \in Tables |-> "absent"] /\ UNCHANGED error
     \/ "close" \in Faults /\ Raise("batch", "assembly") /\ UNCHANGED <<root, shard>>
  /\ CoordinatorOnly /\ UNCHANGED <<batch, stop, threads, job, table, merged, torn, written>>

\* spool.flush and _compare_relations, then the return of the result.
Compare ==
  /\ \/ Goto("compare", "returned") /\ UNCHANGED error
     \/ \E e \in Assembly : Raise("compare", e)
  /\ CoordinatorOnly /\ UNCHANGED <<batch, stop, threads, job, shard, table, results>>

\* Mutant: shutdown(wait=False).
JoinAtOnce ==
  /\ Goto("join", "raised")
  /\ CoordinatorOnly /\ UNCHANGED <<batch, stop, threads, job, shard, table, results, error>>

\* The executor's exit, shutdown(wait=True): threads finish what is running and
\* what is queued.  Without a thread a queued future is never run.
Join ==
  /\ Goto("join", "raised")
  /\ \A i \in Tables : job[i] \notin Running /\ (job[i] = "queued" => ~threads)
  /\ CoordinatorOnly /\ UNCHANGED <<batch, stop, threads, job, shard, table, results, error>>

\* What the coordinator does of its own, and what its caller makes it do.
CoordinatorStep ==
  \/ StartPhase \/ NextBatch \/ InlineReturns \/ Submit \/ Wait \/ StopWorkers \/ Drain
  \/ Merge \/ Assemble \/ Report \/ CleanupRoot \/ Compare \/ Join
Coordinator == CoordinatorStep \/ WaitCancelled \/ InterruptTry \/ InterruptElsewhere

Ended == main \in {"returned", "raised"}
Terminated == Ended /\ UNCHANGED vars

Next == Coordinator \/ (\E i \in Tables : Worker(i)) \/ Terminated

Spec == Init /\ [][Next]_vars

\* The coordinator's thread and the pool's threads are scheduled; a wait ends
\* after its timeout and no worker blocks on another one.  Nobody has to cancel
\* or to interrupt.
FairSpec == Spec /\ WF_vars(CoordinatorStep) /\ \A i \in Tables : WF_vars(Worker(i))

-----------------------------------------------------------------------------
(* Properties *)

Coordinating ==
  {"start", "batch", "inline", "submit", "wait", "stopping", "drain",
   "merge", "assemble", "report", "compare", "join", "returned", "raised"}

\* Every variable of run_pass_two and of its workers keeps its type.
TypeOK ==
  /\ workers \in WorkerCounts
  /\ main \in Coordinating
  /\ base \in Nat \ {0} /\ turn \in Nat \ {0}
  /\ pending \subseteq Tables
  /\ stop \in BOOLEAN /\ threads \in BOOLEAN
  /\ job \in [Tables -> {"idle", "queued"} \cup Running \cup Finished]
  /\ why \in [Tables -> Errors \cup {None}]
  /\ shard \in [Tables -> {"absent", "open", "closed", "orphan"}]
  /\ reader \in [Tables -> BOOLEAN]
  /\ table \in [Tables -> {"absent", "partial", "written", "placed"}]
  /\ merged \in Seq(Tables) /\ written \in Seq(Tables)
  /\ torn \in BOOLEAN /\ root \in BOOLEAN
  /\ error \in Errors \cup {None}

\* When run_pass_two has returned or raised, no worker touches the staging
\* tree, the evidence root or the vault any more: its caller deletes the first
\* two and closes the third.
NoWorkerOutlives ==
  Ended => \A i \in Tables : job[i] \notin Running /\ (threads => job[i] # "queued")

\* The cancellation a worker raises because a sibling failed never becomes the
\* error of the operation, whichever of the two futures is seen first: the
\* caller is told what really went wrong (_primary_worker_failure).
CauseIsReported == main \in {"join", "raised"} => error \in Errors \ {"coordinator"}

\* The relations are compared, and a result is returned, only when every table
\* is in the dataset and every shard is in the spool exactly once and whole,
\* in plan order, whatever order the workers finished in.
ResultIsWhole ==
  main \in {"compare", "returned"} =>
    /\ merged = [i \in Tables |-> i] /\ written = merged
    /\ ~torn /\ ~root
    /\ \A i \in Tables : table[i] = "placed" /\ shard[i] = "absent" /\ ~reader[i]

\* Nothing is merged or moved while the outcome of its batch is open: no table
\* of a batch reaches the dataset if a sibling fails.
BatchIsAllOrNothing ==
  \A i \in Tables : \A j \in Tables :
    /\ table[i] = "placed" /\ job[j] \in Running \cup {"queued", "failed", "cancelled"}
    => (i - 1) \div workers < (j - 1) \div workers

\* What ties the coordinator to its workers: the tables before the batch are
\* written, those behind it untouched, and what `pending' has lost is finished.
BatchIsKept ==
  /\ \A i \in Tables : i < base => job[i] = "ok"
  /\ \A i \in Tables : i > LastTable => job[i] = "idle"
  /\ main \in {"start", "batch"} => \A i \in Tables : i >= base => job[i] = "idle"
  /\ main \in {"compare", "returned"} => base > N
  /\ main \in {"inline", "submit", "wait", "stopping", "drain", "merge", "assemble", "report"}
       => base <= N
  /\ main = "inline" => ~Pool /\ turn = base
  /\ main \in {"submit", "wait", "stopping", "drain"} => Pool
  /\ main = "submit" => \A i \in Tables : i >= turn => job[i] = "idle"
  /\ main \in {"wait", "stopping", "drain"} =>
       /\ pending \subseteq Batch
       /\ \A i \in Batch \ pending : job[i] \in Finished
  /\ main \in {"submit", "wait"} => \A i \in Tables : job[i] # "cancelled"
  /\ main = "wait" => pending # {} /\ \A i \in Batch \ pending : job[i] = "ok"
  /\ main \in {"merge", "assemble", "report"} => (\A i \in Batch : job[i] = "ok") /\ turn \in Batch

\* A worker's exception is known when it has left the body.  A worker raises
\* the coordinator's cancellation only when `stop' is set, and `stop' is only
\* set by the coordinator's own failure or behind a worker with another reason.
CauseIsKnown ==
  /\ \A i \in Tables : (job[i] \in Handler \cup {"failed"}) => why[i] # None
  /\ \A i \in Tables : why[i] = "coordinator" => Pool /\ stop
  /\ error # "coordinator"
  /\ main \in {"join", "raised"} => error # None
  /\ main \in {"start", "batch", "inline", "submit", "wait", "merge", "assemble", "report", "compare", "returned"}
       => error = None
  /\ main \in {"stopping", "drain"} /\ error = None => \E i \in Batch : job[i] = "failed"
  /\ stop /\ error = None => \E i \in Tables :
       /\ job[i] \in {"cleanShard", "cleanReader", "failed"}
       /\ why[i] # "coordinator"

\* The inductive invariant behind NoWorkerOutlives and CauseIsReported.
Inv == TypeOK /\ BatchIsKept /\ CauseIsKnown /\ NoWorkerOutlives

\* A worker that a sibling, the caller or an interrupt stopped leaves neither its
\* shard, which holds key values, nor its vault connection behind, unless closing
\* or unlinking them failed.
FailedWorkerIsClean ==
  \A i \in Tables :
    job[i] = "cancelled" \/ (job[i] = "failed" /\ why[i] \notin {"failure", "cleanup"})
    => shard[i] = "absent" /\ ~reader[i]

\* What the files of table i are when its worker is at job[i]: a shard, a reader
\* and a table exist from the step that opens them on, only an accepted table is
\* placed, and a worker that was stopped has no closed or orphaned shard.
WorkerOwnsItsFiles(i) ==
  /\ job[i] \in {"idle", "queued", "cancelled", "checkpoint"} => shard[i] = "absent"
  /\ job[i] \in {"idle", "queued", "cancelled", "checkpoint", "reader", "ok"} => ~reader[i]
  /\ job[i] \in {"reader", "source", "write", "closeShard"} => shard[i] = "open"
  /\ job[i] = "closeReader" => shard[i] = "closed"
  /\ job[i] \in {"closeShard", "closeReader"} => table[i] = "written"
  /\ table[i] = "placed" => job[i] = "ok"
  /\ why[i] \notin {"failure", "cleanup"} =>
       /\ job[i] \in {"setStop", "cleanShard"} => shard[i] \in {"absent", "open"}
       /\ job[i] \in {"cleanReader", "failed"} => shard[i] = "absent"
       /\ job[i] = "failed" => ~reader[i]

\* The loop over batches has merged the shards, and moved the tables, of a prefix
\* of the plan: up to the batch, and within it up to the result being accepted.
Loop == Coordinating \ {"compare", "returned", "join", "raised"}
MergedUpTo ==
  IF main = "merge" THEN turn - 1 ELSE IF main \in {"assemble", "report"} THEN turn ELSE base - 1
WrittenUpTo ==
  IF main \in {"merge", "assemble"} THEN turn - 1 ELSE IF main = "report" THEN turn ELSE base - 1

AcceptedIsAPrefix ==
  /\ main \in Loop =>
       /\ merged = [i \in 1..MergedUpTo |-> i] /\ written = [i \in 1..WrittenUpTo |-> i]
       /\ ~torn
       /\ \A i \in Tables : i <= WrittenUpTo => table[i] = "placed"
       /\ \A i \in Tables : i > MergedUpTo /\ job[i] = "ok" => shard[i] = "closed"
       /\ \A i \in Tables : i > WrittenUpTo /\ job[i] = "ok" => table[i] = "written"
  /\ \A i \in Tables : table[i] = "placed" => i < base \/ \A j \in Batch : job[j] = "ok"
  /\ base <= N + 1
  /\ base <= N => \E k \in 0..N : base - 1 = k * workers

\* The inductive invariant behind the other conjuncts of WholeOrNothing.
WorkInv == AcceptedIsAPrefix /\ ResultIsWhole /\ \A i \in Tables : WorkerOwnsItsFiles(i)

\* Pass 2 yields a whole result or none: what it returns is complete, a batch
\* is accepted as a whole, and a worker that fails cleans up after itself;
\* coordinator, workers and stop flag agree throughout (pass2.py 88-338).
WholeOrNothing == Inv /\ WorkInv /\ ResultIsWhole /\ BatchIsAllOrNothing /\ FailedWorkerIsClean

\* run_pass_two ends, whichever workers fail and whenever it is cancelled.
PassEnds == <>Ended
=============================================================================
