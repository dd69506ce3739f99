--------------------------- MODULE VaultLifecycle ---------------------------
(***************************************************************************)
(* Creation, reopening and closing of one dictionary database              *)
(* (vault/store.py VaultDatabase, dictionary_identity.py) by any number of *)
(* processes that share its path.                                          *)
(*                                                                         *)
(* A file is an inode: a path may lose it while connections keep it open.  *)
(* What SQLite guarantees is taken from how the store uses it: a commit    *)
(* goes to the write-ahead log, the last read/write connection of a file   *)
(* that closes checkpoints the log and removes it, and connecting to a     *)
(* path that does not exist creates an empty file.  A KeyboardInterrupt in *)
(* a creation has an ending of its own; in open, open_reader and close it  *)
(* takes the way of a failure.                                             *)
(***************************************************************************)
EXTENDS Naturals

CONSTANTS
  Procs,       \* processes that call VaultDatabase.open and open_reader
  Files,       \* file identities (st_dev, st_ino)
  Identities,  \* source, policy and relationship fingerprints of a dataset
  Faults,      \* the kinds of fault the environment may inject
  None

FaultKinds == {"crash", "fail", "ambiguous", "interrupt", "operator"}

ASSUME VaultAssumption ==
  /\ None \notin Files \cup Identities
  /\ Faults \subseteq FaultKinds

VARIABLES
  path,      \* the file at the dictionary path
  db,        \* db[f]: the committed identity of file f, None without a schema
  main,      \* main[f]: what f holds without the log: "empty", "header", "whole"
  wal,       \* the -wal sidecar at the path: "none", "clean", "frames"
  pc,        \* control point of each process
  want,      \* the identity the process expects or creates
  reserved,  \* reserved_identity of _create
  conn,      \* the file the process has open
  readonly,  \* the connection is a live reader
  signal,    \* the creation was broken off by a KeyboardInterrupt or SystemExit
  \* auxiliary (history only, never read by an action)
  tags       \* tags[f]: what happened to file f out of the ordinary

handles == <<want, reserved, conn, readonly, signal>>
disk == <<path, db, main, wal>>
vars == <<disk, pc, handles, tags>>

Creating == {"reserve", "connectNew", "applyMode", "begin", "commit",
             "abortClose", "abortStat", "abortUnlink"}
Opening == {"probe", "sidecars", "validate", "connect", "mode", "connectReader", "bind"}
Points == {"idle", "bound", "closing"} \cup Creating \cup Opening
Tags == {"stray", "ambiguous", "removed", "shared", "left", "silent", "orphan", "died"}

Init ==
  /\ path = None /\ wal = "none"
  /\ db = [f \in Files |-> None] /\ main = [f \in Files |-> "empty"]
  /\ pc = [p \in Procs |-> "idle"]
  /\ want = [p \in Procs |-> None] /\ reserved = [p \in Procs |-> None]
  /\ conn = [p \in Procs |-> None] /\ readonly = [p \in Procs |-> FALSE]
  /\ signal = [p \in Procs |-> FALSE]
  /\ tags = [f \in Files |-> {}]

-----------------------------------------------------------------------------
(* Helpers *)

Move(p, from, to) == pc[p] = from /\ pc' = [pc EXCEPT ![p] = to]

\* The call returns or raises: what it knew is gone.
End(p) ==
  /\ pc' = [pc EXCEPT ![p] = "idle"]
  /\ want' = [want EXCEPT ![p] = None] /\ reserved' = [reserved EXCEPT ![p] = None]
  /\ conn' = [conn EXCEPT ![p] = None] /\ readonly' = [readonly EXCEPT ![p] = FALSE]
  /\ signal' = [signal EXCEPT ![p] = FALSE]

Fails == "fail" \in Faults
Interrupts == "interrupt" \in Faults

\* A file number is free when nobody can tell the new file from an old one.
Fresh == {f \in Files : f # path /\ \A p \in Procs : conn[p] # f /\ reserved[p] # f}

\* The path gets a new empty file.
NewFile(f, t) ==
  /\ f \in Fresh
  /\ path' = f
  /\ db' = [db EXCEPT ![f] = None] /\ main' = [main EXCEPT ![f] = "empty"]
  /\ tags' = [tags EXCEPT ![f] = t]
  /\ UNCHANGED wal

Tag(f, t) == tags' = [tags EXCEPT ![f] = @ \cup t]

\* connection.close(): the last read/write connection to the file of the path
\* checkpoints the log and removes it.  One that has lost its path, or whose
\* file has no database header yet, leaves the sidecars alone, and so does a
\* reader.
Close(p) ==
  LET f == conn[p]
      last == \A q \in Procs : conn[q] = f => q = p
      checkpoints == last /\ ~readonly[p] /\ path = f /\ main[f] # "empty" IN
  /\ wal' = IF checkpoints THEN "none" ELSE wal
  /\ main' = IF checkpoints /\ db[f] # None THEN [main EXCEPT ![f] = "whole"] ELSE main
  /\ UNCHANGED <<path, db>>

\* The first read of a database in WAL mode brings its sidecars to life.
Touched(f) == IF path = f /\ main[f] # "empty" /\ wal = "none" THEN "clean" ELSE wal

-----------------------------------------------------------------------------
(* _create *)

BeginCreate(p, id) ==
  /\ Move(p, "idle", "reserve")
  /\ want' = [want EXCEPT ![p] = id]
  /\ UNCHANGED <<disk, reserved, conn, readonly, signal, tags>>

\* The file kind, the parent directory and the reservation with O_CREAT|O_EXCL:
\* a creator that meets a file never touches it.  One that breaks off between
\* the creation of the file and the knowledge of its identity leaves it there.
Reserve(p) ==
  \/ /\ Move(p, "reserve", "connectNew")
     /\ path = None
     /\ \E f \in Fresh : NewFile(f, {}) /\ reserved' = [reserved EXCEPT ![p] = f]
     /\ UNCHANGED <<want, conn, readonly, signal>>
  \/ /\ pc[p] = "reserve"
     /\ path = None /\ (Fails \/ Interrupts)
     /\ \E f \in Fresh : NewFile(f, {"orphan"})
     /\ End(p)
  \/ /\ pc[p] = "reserve"
     /\ path # None \/ Fails
     /\ End(p) /\ UNCHANGED <<disk, tags>>

\* A failure behind the reservation leads to _abort_failed_creation.
CreationFails(p) ==
  /\ Fails
  /\ \E at \in {"connectNew", "applyMode", "begin", "commit"} : Move(p, at, "abortClose")
  /\ UNCHANGED <<disk, handles, tags>>

\* So does a KeyboardInterrupt, which is remembered.
CreationIsInterrupted(p) ==
  /\ Interrupts
  /\ \E at \in {"connectNew", "applyMode", "begin", "commit"} : Move(p, at, "abortClose")
  /\ signal' = [signal EXCEPT ![p] = TRUE]
  /\ UNCHANGED <<disk, want, reserved, conn, readonly, tags>>

\* sqlite3.connect(path), whatever file the path names by now.
Connect(p, tag) ==
  /\ \/ path # None /\ conn' = [conn EXCEPT ![p] = path] /\ UNCHANGED disk
          /\ Tag(path, IF pc[p] = "connectNew" /\ path # reserved[p] THEN {"shared"} ELSE {})
     \/ path = None /\ \E f \in Fresh : NewFile(f, tag) /\ conn' = [conn EXCEPT ![p] = f]
  /\ UNCHANGED <<want, reserved, readonly, signal>>

\* harden_vault_directory and _connect.
ConnectNew(p) ==
  /\ Move(p, "connectNew", "applyMode")
  /\ Connect(p, {"shared"})

\* PRAGMA journal_mode = WAL writes the header of an empty file, and the log of
\* a file that is gone is removed.
ApplyMode(p) ==
  /\ Move(p, "applyMode", "begin")
  /\ main' = [main EXCEPT ![conn[p]] = IF @ = "empty" THEN "header" ELSE @]
  /\ wal' = IF path = conn[p] /\ main[path] = "empty" THEN "none" ELSE wal
  /\ UNCHANGED <<path, db, handles, tags>>

\* BEGIN IMMEDIATE opens the log.
BeginCreation(p) ==
  /\ Move(p, "begin", "commit")
  /\ wal' = Touched(conn[p])
  /\ UNCHANGED <<path, db, main, handles, tags>>

\* The commit of a transaction on file f.
Committed(f) ==
  /\ wal' = IF path = f THEN "frames" ELSE wal
  /\ UNCHANGED <<path, main>>

\* The schema and the identity are written in one transaction; the tables
\* cannot be created twice.  COMMIT can also raise, or be interrupted, although
\* it was durable.
CommitCreation(p) ==
  LET f == conn[p] IN
  /\ pc[p] = "commit"
  /\ \/ /\ db[f] = None
        /\ Move(p, "commit", "bound")
        /\ db' = [db EXCEPT ![f] = want[p]] /\ Committed(f)
        /\ reserved' = [reserved EXCEPT ![p] = None]
        /\ UNCHANGED <<signal, tags>>
     \/ /\ db[f] = None
        /\ \E b \in BOOLEAN :
             /\ (IF b THEN "interrupt" ELSE "ambiguous") \in Faults
             /\ signal' = [signal EXCEPT ![p] = b]
        /\ Move(p, "commit", "abortClose")
        /\ db' = [db EXCEPT ![f] = want[p]] /\ Committed(f)
        /\ Tag(f, {"ambiguous"})
        /\ UNCHANGED reserved
     \/ /\ db[f] # None
        /\ Move(p, "commit", "abortClose")
        /\ UNCHANGED <<disk, reserved, signal, tags>>
  /\ UNCHANGED <<want, conn, readonly>>

\* _abort_failed_creation closes the connection if there is one, and goes on if
\* that fails.
AbortClose(p) ==
  /\ Move(p, "abortClose", "abortStat")
  /\ \/ (conn[p] = None \/ Fails) /\ UNCHANGED disk
     \/ conn[p] # None /\ Close(p)
  /\ conn' = [conn EXCEPT ![p] = None]
  /\ UNCHANGED <<want, reserved, readonly, signal, tags>>

\* CREATION_CLEANUP_FAILED tells the caller of the residue, unless a
\* KeyboardInterrupt is in flight: then it is swallowed.
Residue(p) == End(p) /\ Tag(reserved[p], {IF signal[p] THEN "silent" ELSE "left"})

\* Mutant: the file at the path is taken for the reservation.
AbortTrustsPath(p) ==
  /\ Move(p, "abortStat", "abortUnlink")
  /\ UNCHANGED <<disk, handles, tags>>

\* _remove_partial_dictionary: is the file at the path still the reservation?
AbortStat(p) ==
  /\ pc[p] = "abortStat"
  /\ \/ path = reserved[p] /\ Move(p, "abortStat", "abortUnlink") /\ UNCHANGED <<handles, tags>>
     \/ path = None /\ End(p) /\ UNCHANGED tags
     \/ (path \notin {None, reserved[p]} \/ Fails) /\ Residue(p)
  /\ UNCHANGED disk

\* Mutant: the removal is best effort and nobody is told.
AbortUnlinkSilently(p) ==
  /\ pc[p] = "abortUnlink"
  /\ path' = None \/ (Fails /\ UNCHANGED path)
  /\ End(p) /\ UNCHANGED <<db, main, wal, tags>>

\* path.unlink()
AbortUnlink(p) ==
  /\ pc[p] = "abortUnlink"
  /\ \/ path' = None /\ End(p) /\ UNCHANGED tags
     \/ Fails /\ Residue(p) /\ UNCHANGED path
  /\ UNCHANGED <<db, main, wal>>

\* A KeyboardInterrupt inside the clean-up ends it where it is; a connection that
\* is still open is closed when it is collected.
CleanupIsInterrupted(p) ==
  /\ Interrupts
  /\ pc[p] \in {"abortClose", "abortStat", "abortUnlink"}
  /\ IF conn[p] = None THEN UNCHANGED disk ELSE Close(p)
  /\ End(p) /\ Tag(reserved[p], {"silent"})

-----------------------------------------------------------------------------
(* open and open_reader *)

BeginOpen(p, id) ==
  /\ \/ Move(p, "idle", "probe") /\ UNCHANGED readonly
     \/ Move(p, "idle", "connectReader") /\ readonly' = [readonly EXCEPT ![p] = TRUE]
  /\ want' = [want EXCEPT ![p] = id]
  /\ UNCHANGED <<disk, reserved, conn, signal, tags>>

\* A call that has opened nothing ends.
Refuse(p) == End(p) /\ UNCHANGED <<disk, tags>>

\* A step of open fails before or while it opens a connection.
OpeningFails(p) ==
  /\ Fails
  /\ pc[p] \in {"probe", "sidecars", "validate", "connect", "connectReader"}
  /\ Refuse(p)

\* _raw_file_kind
Probe(p) ==
  \/ path # None /\ Move(p, "probe", "sidecars") /\ UNCHANGED <<disk, handles, tags>>
  \/ path = None /\ pc[p] = "probe" /\ Refuse(p)

\* _has_wal_sidecar decides between the crash-dirty and the clean way.
Sidecars(p) ==
  /\ Move(p, "sidecars", IF wal # "none" THEN "connect" ELSE "validate")
  /\ UNCHANGED <<disk, handles, tags>>

Mismatch(p, f) == db[f] # want[p]

\* _validate_existing_readonly: an immutable snapshot, which knows no log.
SnapshotMatches(p) == path # None /\ main[path] = "whole" /\ ~Mismatch(p, path)

Validate(p) ==
  \/ /\ Move(p, "validate", "connect")
     /\ SnapshotMatches(p)
     /\ UNCHANGED <<disk, handles, tags>>
  \/ /\ pc[p] = "validate"
     /\ ~SnapshotMatches(p)
     /\ Refuse(p)

\* _connect of an existing dictionary creates a file when the path has lost its
\* file in the meantime.
ConnectExisting(p) ==
  /\ Move(p, "connect", "mode")
  /\ Connect(p, {"stray"})

\* A binding that fails closes its connection.
Reject(p) == End(p) /\ Close(p) /\ UNCHANGED tags

\* _require_wal_journal_mode
RequireMode(p) ==
  \/ /\ Move(p, "mode", "bind")
     /\ main[conn[p]] # "empty"
     /\ wal' = Touched(conn[p])
     /\ UNCHANGED <<path, db, main, handles, tags>>
  \/ /\ pc[p] = "mode"
     /\ main[conn[p]] = "empty" \/ Fails
     /\ Reject(p)

\* _connect_live_reader: mode=ro does not create the file.
ConnectReader(p) ==
  \/ /\ Move(p, "connectReader", "bind")
     /\ path # None
     /\ conn' = [conn EXCEPT ![p] = path]
     /\ UNCHANGED <<disk, want, reserved, readonly, signal, tags>>
  \/ path = None /\ pc[p] = "connectReader" /\ Refuse(p)

\* Mutant: an identity is required, whichever it is.
BindAny(p) ==
  \/ /\ Move(p, "bind", "bound")
     /\ db[conn[p]] # None
     /\ wal' = Touched(conn[p])
     /\ UNCHANGED <<path, db, main, handles, tags>>
  \/ pc[p] = "bind" /\ db[conn[p]] = None /\ Reject(p)

\* _bind: the identity is read again, through the log, and compared.
Bind(p) ==
  \/ /\ Move(p, "bind", "bound")
     /\ ~Mismatch(p, conn[p])
     /\ wal' = Touched(conn[p])
     /\ UNCHANGED <<path, db, main, handles, tags>>
  \/ pc[p] = "bind" /\ (Mismatch(p, conn[p]) \/ Fails) /\ Reject(p)

-----------------------------------------------------------------------------
(* An open dictionary *)

\* An authorized transaction commits.
Write(p) ==
  /\ pc[p] = "bound" /\ ~readonly[p]
  /\ Committed(conn[p])
  /\ UNCHANGED <<db, pc, handles, tags>>

\* _close: a reader goes on to close its connection, the others run the truncating
\* checkpoint, which may find the log busy or fail; then the connection is closed
\* all the same.
Checkpoint(p) ==
  LET f == conn[p] IN
  /\ Move(p, "bound", "closing")
  /\ \/ /\ ~readonly[p] /\ path = f
        /\ wal' = "clean" /\ main' = [main EXCEPT ![f] = "whole"]
     \/ /\ readonly[p] \/ path # f \/ Fails \/ \E q \in Procs \ {p} : conn[q] = f
        /\ UNCHANGED <<wal, main>>
  /\ UNCHANGED <<path, db, handles, tags>>

CloseHandle(p) ==
  /\ pc[p] = "closing"
  /\ End(p) /\ UNCHANGED tags
  /\ Close(p) \/ (Fails /\ UNCHANGED disk)

-----------------------------------------------------------------------------
(* Environment *)

\* The process dies: its connection is gone, and nothing is checkpointed.
Crash(p) ==
  /\ "crash" \in Faults
  /\ pc[p] # "idle"
  /\ End(p)
  /\ tags' = IF reserved[p] = None THEN tags ELSE [tags EXCEPT ![reserved[p]] = @ \cup {"died"}]
  /\ UNCHANGED disk

\* An operator removes a dictionary that was never completed, at the wrong moment
\* perhaps, but not between the two system calls of a failed creation's clean-up.
OperatorRemoves ==
  /\ "operator" \in Faults
  /\ path # None /\ db[path] = None
  /\ \A p \in Procs : pc[p] # "abortUnlink"
  /\ path' = None
  /\ Tag(path, {"removed"})
  /\ UNCHANGED <<db, main, wal, pc, handles>>

Step(p) ==
  \/ (\E id \in Identities : BeginCreate(p, id) \/ BeginOpen(p, id))
  \/ Reserve(p) \/ CreationFails(p) \/ ConnectNew(p) \/ ApplyMode(p) \/ BeginCreation(p)
  \/ CommitCreation(p) \/ AbortClose(p) \/ AbortStat(p) \/ AbortUnlink(p)
  \/ CreationIsInterrupted(p) \/ CleanupIsInterrupted(p)
  \/ OpeningFails(p) \/ Probe(p) \/ Sidecars(p) \/ Validate(p) \/ ConnectExisting(p)
  \/ RequireMode(p) \/ ConnectReader(p) \/ Bind(p)
  \/ Write(p) \/ Checkpoint(p) \/ CloseHandle(p) \/ Crash(p)

Next == (\E p \in Procs : Step(p)) \/ OperatorRemoves

Spec == Init /\ [][Next]_vars

-----------------------------------------------------------------------------
(* Properties *)

\* Every variable keeps its type.
TypeOK ==
  /\ path \in Files \cup {None}
  /\ db \in [Files -> Identities \cup {None}]
  /\ main \in [Files -> {"empty", "header", "whole"}]
  /\ wal \in {"none", "clean", "frames"}
  /\ pc \in [Procs -> Points]
  /\ want \in [Procs -> Identities \cup {None}]
  /\ reserved \in [Procs -> Files \cup {None}]
  /\ conn \in [Procs -> Files \cup {None}]
  /\ readonly \in [Procs -> BOOLEAN]
  /\ signal \in [Procs -> BOOLEAN]
  /\ tags \in [Files -> SUBSET Tags]

Bound(p) == pc[p] \in {"bound", "closing"}

\* A handle that open, open_reader or a creation has returned is on a database
\* that holds exactly the identity its caller asked for, whatever other
\* processes did to the path between the checks.
AcceptedIsAuthentic == \A p \in Procs : Bound(p) => conn[p] # None /\ db[conn[p]] = want[p]

\* Tags of a database that its creator or an operator has taken off the path.
Detaching == {"ambiguous", "removed", "shared"}

\* And that database is the one at the dictionary path, so that what is written
\* will be found again.  The ways out are a creation whose COMMIT raised although
\* it was durable, and an operator who took a half-made file away, or made two
\* creators share one.
AcceptedIsAttached ==
  \A p \in Procs : Bound(p) => path = conn[p] \/ tags[conn[p]] \cap Detaching # {}

\* Tags of an incomplete file that somebody can account for: its creator was told
\* of it ("left"), died, broke off inside the reservation ("orphan"), or an open
\* recreated it behind the back of a failed creation ("stray", "shared").  The
\* last one names the exception to store.py 601-602, where residue "is never
\* silently absorbed": a creator that a KeyboardInterrupt broke off keeps a
\* clean-up failure to itself, store.py 575-576 ("silent").
Accounted == {"left", "died", "orphan", "stray", "shared", "silent"}

\* When nobody is at work, an incomplete file at the path is one of these: every
\* creation that failed in the ordinary way has removed its file or reported it
\* (store.py 480-660).
FailureLeavesNothing ==
  (\A p \in Procs : pc[p] = "idle") /\ path # None /\ db[path] = None
    => tags[path] \cap Accounted # {}

\* What has been committed can be seen by the next open: either the log is there
\* to be recovered, or the main file alone is whole, which is all that the
\* immutable snapshot of the read-only stage looks at.
CommittedIsVisible ==
  path # None /\ db[path] # None => wal = "frames" \/ main[path] = "whole"

\* A process has a connection or a reservation of its own exactly where the
\* code uses one.
HandlesAreKept ==
  /\ \A p \in Procs : pc[p] \in {"applyMode", "begin", "commit", "mode", "bind", "bound", "closing"}
       => conn[p] # None
  /\ \A p \in Procs : pc[p] \in Creating \ {"reserve"} => reserved[p] # None
  /\ \A p \in Procs : pc[p] # "idle" => want[p] # None
  /\ \A p, q \in Procs : reserved[p] # None /\ reserved[p] = reserved[q] => p = q

\* A reservation stays at the path unless an operator removes it; only its own
\* creator completes it, unless they share it, and then it is given up.
ReservationIsKept ==
  \A p \in Procs :
    /\ reserved[p] # None => path = reserved[p] \/ "removed" \in tags[reserved[p]]
    /\ reserved[p] # None => db[reserved[p]] = None \/ tags[reserved[p]] \cap {"ambiguous", "shared"} # {}
    /\ pc[p] \in {"applyMode", "begin", "commit"} => conn[p] = reserved[p] \/ "shared" \in tags[conn[p]]
    /\ pc[p] = "abortUnlink" => path = reserved[p]

\* WAL mode is set before anything is committed.
HeaderIsFirst ==
  /\ \A f \in Files : main[f] = "empty" => db[f] = None
  /\ \A p \in Procs : pc[p] \in {"begin", "commit"} => main[conn[p]] # "empty"

\* A complete database is at the path or has been taken off it.
DatabaseIsAttached ==
  \A f \in Files : db[f] # None => path = f \/ tags[f] \cap Detaching # {}

\* The inductive invariant behind AcceptedIsAuthentic, AcceptedIsAttached and
\* CommittedIsVisible.
Inv ==
  /\ TypeOK /\ HandlesAreKept /\ ReservationIsKept /\ HeaderIsFirst
  /\ DatabaseIsAttached /\ AcceptedIsAuthentic /\ CommittedIsVisible

\* A reservation belongs to a creation under way, and an incomplete file at the
\* path that nobody has reported is one: what FailureLeavesNothing needs beyond Inv.
ReservationIsHeld ==
  /\ \A p \in Procs : reserved[p] # None => pc[p] \in Creating \ {"reserve"}
  /\ \A p \in Procs : pc[p] \in {"applyMode", "begin", "commit"} /\ conn[p] # reserved[p] => path # reserved[p]
  /\ path # None /\ db[path] = None /\ tags[path] \cap Accounted = {}
       => \E p \in Procs : reserved[p] = path

\* "A rejected foreign vault is never checkpointed or rewritten merely to
\* release its failed pre-bind connection" (store.py 702-703): the step with
\* which an open is rejected changes no file.
RejectedIsUntouched ==
  [][\A p \in Procs : pc[p] \in {"validate", "mode", "bind"} /\ pc'[p] = "idle"
       => UNCHANGED <<path, main>>]_vars
=============================================================================
