------------------------------ MODULE ObdEvidence ------------------------------
(***************************************************************************)
(* The OBD evidence lane: OBDEvidenceManager.save over the OBDService that *)
(* owns the adapter connection and the SQLite database that files it.      *)
(* Three request threads meet here.  A saver looks at the service, reads   *)
(* the vehicle and looks again, taking the service lock three times; other *)
(* requests connect and disconnect in between; and the saver's database    *)
(* transaction, which publishes the files before it commits, excludes the  *)
(* service's own writes.  The process can die and the machine can lose     *)
(* power at any step; at startup open connection rows are reconciled and   *)
(* orphaned directories are removed or quarantined before any request.     *)
(***************************************************************************)
EXTENDS FiniteSets

CONSTANTS
  Savers,     \* request threads that save evidence
  Ops,        \* operation ids, chosen by the client and reused by its retries
  Kinds,      \* what a request asks for: the snapshot kind and its label
  Conns,      \* connection ids, one for each successful connect
  Sessions,   \* diagnostic sessions
  Files,      \* the files of a run
  NoSaver, NoOp, NoKind, NoConn, NoSession

ASSUME NoSaverAssumption == NoSaver \notin Savers
ASSUME NoOpAssumption == NoOp \notin Ops
ASSUME NoConnAssumption == NoConn \notin Conns
ASSUME NoSessionAssumption == NoSession \notin Sessions

VARIABLES
  phase,      \* "up", or the step of create_app after a restart
  swept,      \* operations whose directories startup has inspected
  live,       \* OBDService._connection_id
  conns,      \* the obd_connections table
  rows,       \* committed evidence, by operation
  dirs,       \* the operation's directory
  saving,     \* who holds OBDEvidenceManager._save_lock
  writing,    \* whose transaction holds SQLite's write lock
  pc,         \* the next step of each saver
  job,        \* the operation and kind a saver was asked for
  seen,       \* the connection of a saver's first status
  data,       \* the connection a saver's data was read through
  answered,   \* history: the evidence returned for each operation
  unclosed,   \* history: connections whose row disconnect failed to close
  debris      \* history: operations whose cleanup failed, or left no manifest

vars == <<phase, swept, live, conns, rows, dirs, saving, writing, pc, job,
          seen, data, answered, unclosed, debris>>

files == <<rows, dirs, debris>>
service == <<live, conns, unclosed>>
startup == <<phase, swept>>

(* The snapshot document: what was asked, the connection it is filed under *)
(* and the connection the data came from.                                  *)
Doc == [kind : Kinds, conn : Conns, data : Conns]
NoDoc == [kind |-> NoKind, conn |-> NoConn, data |-> NoConn]

(* Where a directory is, and how much of it has reached the disk: nothing, *)
(* its files, or its files and its place.  One at its final place whose    *)
(* manifest was unlinked is "torn"; one that was removed from there may    *)
(* come back with a power cut, until the removal is synced.                *)
Dir == [at : {"none", "partial", "final", "torn", "removed"}, doc : Doc \cup {NoDoc},
        synced : {"no", "files", "name"}]
NoDir == [at |-> "none", doc |-> NoDoc, synced |-> "no"]
There(o) == dirs[o].at \in {"partial", "final", "torn"}

Conn == [status : {"none", "connected", "closed", "error"},
         session : Sessions \cup {NoSession}]
NoJob == [op |-> NoOp, kind |-> NoKind]

Early == {"look", "replay", "status", "read", "recheck", "mkdir"}
Publishing == {"write", "owner", "insert", "sync", "rename", "syncname", "commit"}
Cleaning == {"unpartial", "unfinal", "rmdir", "syncgone"}
Steps == {"idle", "lock", "answer", "release"} \cup Early \cup Publishing \cup Cleaning

Init ==
  /\ phase = "up" /\ swept = {}
  /\ live = NoConn
  /\ conns = [c \in Conns |-> [status |-> "none", session |-> NoSession]]
  /\ rows = [o \in Ops |-> NoDoc]
  /\ dirs = [o \in Ops |-> NoDir]
  /\ saving = NoSaver /\ writing = NoSaver
  /\ pc = [s \in Savers |-> "idle"]
  /\ job = [s \in Savers |-> NoJob]
  /\ seen = [s \in Savers |-> NoConn]
  /\ data = [s \in Savers |-> NoConn]
  /\ answered = [o \in Ops |-> {}]
  /\ unclosed = {} /\ debris = {}

Op(s) == job[s].op
Goto(s, step) == pc' = [pc EXCEPT ![s] = step]
Session(c) == conns[c].session
--------------------------------------------------------------------------------
(* The service.  Each operation holds the service lock throughout; what it *)
(* writes to the database waits for a saver's transaction, or gives up     *)
(* after SQLite's busy timeout.                                            *)

(* OBDService.connect, under a diagnostic session or none. *)
Connect ==
  /\ phase = "up"
  /\ live = NoConn
  /\ writing = NoSaver
  /\ \E c \in Conns, session \in Sessions \cup {NoSession} :
       /\ conns[c].status = "none"
       /\ conns' = [conns EXCEPT ![c] = [status |-> "connected", session |-> session]]
       /\ live' = c
  /\ UNCHANGED <<startup, files, saving, writing, pc, job, seen, data, answered, unclosed>>

(* OBDService.disconnect: the row is closed, as an error when the provider *)
(* raises, or stays open when the database raises; the service forgets the *)
(* connection in every case.                                               *)
Disconnect ==
  /\ phase = "up"
  /\ live # NoConn
  /\ live' = NoConn
  /\ \/ /\ writing = NoSaver
        /\ \E status \in {"closed", "error"} :
             conns' = [conns EXCEPT ![live].status = status]
        /\ UNCHANGED unclosed
     \/ /\ unclosed' = unclosed \cup {live}
        /\ UNCHANGED conns
  /\ UNCHANGED <<startup, files, saving, writing, pc, job, seen, data, answered>>
--------------------------------------------------------------------------------
(* Saving.  OBDEvidenceManager.save holds _save_lock from "look" on. *)

Request(s) ==
  /\ phase = "up"
  /\ pc[s] = "idle"
  /\ \E o \in Ops, k \in Kinds : job' = [job EXCEPT ![s] = [op |-> o, kind |-> k]]
  /\ Goto(s, "lock")
  /\ UNCHANGED <<startup, service, files, saving, writing, seen, data, answered>>

Lock(s) ==
  /\ pc[s] = "lock"
  /\ saving = NoSaver
  /\ saving' = s
  /\ Goto(s, "look")
  /\ UNCHANGED <<startup, service, files, writing, job, seen, data, answered>>

(* Mutant: an operation id is not looked up. *)
LookAnew(s) ==
  /\ pc[s] = "look"
  /\ Goto(s, "status")
  /\ UNCHANGED <<startup, service, files, saving, writing, job, seen, data, answered>>

(* Is the operation known?  A row with its manifest is replayed if the     *)
(* request is the same; a row without a manifest, a directory without a    *)
(* row, and a different request are errors.                                *)
Look(s) ==
  LET row == rows[Op(s)] # NoDoc
      manifest == dirs[Op(s)].at = "final"
      exists == dirs[Op(s)].at \in {"final", "torn"}
  IN  /\ pc[s] = "look"
      /\ \/ row /\ manifest /\ dirs[Op(s)].doc.kind = job[s].kind /\ Goto(s, "replay")
         \/ row /\ manifest /\ dirs[Op(s)].doc.kind # job[s].kind /\ Goto(s, "release")
         \/ (row \/ exists) /\ ~(row /\ manifest) /\ Goto(s, "release")
         \/ ~row /\ ~exists /\ Goto(s, "status")
      /\ UNCHANGED <<startup, service, files, saving, writing, job, seen, data, answered>>

(* A replay is answered only on the connection and in the session of the   *)
(* original.                                                               *)
Replay(s) ==
  LET doc == dirs[Op(s)].doc
  IN  /\ pc[s] = "replay"
      /\ IF live # NoConn /\ live = rows[Op(s)].conn
           THEN /\ answered' = [answered EXCEPT ![Op(s)] = @ \cup {doc}]
                /\ Goto(s, "release")
           ELSE /\ Goto(s, "release")
                /\ UNCHANGED answered
      /\ UNCHANGED <<startup, service, files, saving, writing, job, seen, data>>

Status(s) ==
  /\ pc[s] = "status"
  /\ IF live # NoConn /\ Session(live) # NoSession
       THEN seen' = [seen EXCEPT ![s] = live] /\ Goto(s, "read")
       ELSE Goto(s, "release") /\ UNCHANGED seen
  /\ UNCHANGED <<startup, service, files, saving, writing, job, data, answered>>

(* read_live, read_faults or read_vehicle_info, of whatever connection is  *)
(* there now.                                                              *)
Read(s) ==
  /\ pc[s] = "read"
  /\ live # NoConn
  /\ data' = [data EXCEPT ![s] = live]
  /\ Goto(s, "recheck")
  /\ UNCHANGED <<startup, service, files, saving, writing, job, seen, answered>>

(* Mutant: there is no second status. *)
RecheckNot(s) ==
  /\ pc[s] = "recheck"
  /\ Goto(s, "mkdir")
  /\ UNCHANGED <<startup, service, files, saving, writing, job, seen, data, answered>>

(* The second status must name the connection of the first. *)
Recheck(s) ==
  /\ pc[s] = "recheck"
  /\ Goto(s, IF live = seen[s] THEN "mkdir" ELSE "release")
  /\ UNCHANGED <<startup, service, files, saving, writing, job, seen, data, answered>>

(* mkdir refuses a partial directory that an earlier cleanup left.         *)
Mkdir(s) ==
  /\ pc[s] = "mkdir"
  /\ dirs[Op(s)].at # "partial"
  /\ dirs' = [dirs EXCEPT ![Op(s)] = [NoDir EXCEPT !.at = "partial"]]
  /\ Goto(s, "write")
  /\ UNCHANGED <<startup, service, rows, debris, saving, writing, job, seen, data, answered>>

Document(s) == [kind |-> job[s].kind, conn |-> seen[s], data |-> data[s]]

Write(s) ==
  /\ pc[s] = "write"
  /\ dirs' = [dirs EXCEPT ![Op(s)].doc = Document(s)]
  /\ Goto(s, "owner")
  /\ UNCHANGED <<startup, service, rows, debris, saving, writing, job, seen, data, answered>>

(* create_obd_evidence looks up the connection before its first INSERT, so *)
(* before the transaction that excludes other writers begins.              *)
CheckOwner(s) ==
  /\ pc[s] = "owner"
  /\ conns[seen[s]].status = "connected"
  /\ Goto(s, "insert")
  /\ UNCHANGED <<startup, service, files, saving, writing, job, seen, data, answered>>

(* Mutant: the row is committed before the files are published. *)
InsertCommitted(s) ==
  /\ pc[s] = "insert"
  /\ rows[Op(s)] = NoDoc
  /\ rows' = [rows EXCEPT ![Op(s)] = Document(s)]
  /\ Goto(s, "sync")
  /\ UNCHANGED <<startup, service, dirs, debris, saving, writing, job, seen, data, answered>>

(* The row is inserted, pending and uncommitted; run_id is unique. *)
Insert(s) ==
  /\ pc[s] = "insert"
  /\ writing = NoSaver
  /\ rows[Op(s)] = NoDoc
  /\ writing' = s
  /\ Goto(s, "sync")
  /\ UNCHANGED <<startup, service, files, saving, job, seen, data, answered>>

(* publish_artifacts: the manifest is written and both files are synced, ... *)
SyncFiles(s) ==
  /\ pc[s] = "sync"
  /\ dirs' = [dirs EXCEPT ![Op(s)].synced = "files"]
  /\ Goto(s, "rename")
  /\ UNCHANGED <<startup, service, rows, debris, saving, writing, job, seen, data, answered>>

(* ... the directory is renamed into place, ... *)
Rename(s) ==
  /\ pc[s] = "rename"
  /\ dirs' = [dirs EXCEPT ![Op(s)].at = "final"]
  /\ Goto(s, "syncname")
  /\ UNCHANGED <<startup, service, rows, debris, saving, writing, job, seen, data, answered>>

(* ... and both parent directories are synced. *)
SyncName(s) ==
  /\ pc[s] = "syncname"
  /\ dirs' = [dirs EXCEPT ![Op(s)].synced = "name"]
  /\ Goto(s, "commit")
  /\ UNCHANGED <<startup, service, rows, debris, saving, writing, job, seen, data, answered>>

Commit(s) ==
  /\ pc[s] = "commit"
  /\ rows' = [rows EXCEPT ![Op(s)] = Document(s)]
  /\ writing' = NoSaver
  /\ Goto(s, "answer")
  /\ UNCHANGED <<startup, service, dirs, debris, saving, job, seen, data, answered>>

Answer(s) ==
  /\ pc[s] = "answer"
  /\ answered' = [answered EXCEPT ![Op(s)] = @ \cup {dirs[Op(s)].doc}]
  /\ Goto(s, "release")
  /\ UNCHANGED <<startup, service, files, saving, writing, job, seen, data>>

Release(s) ==
  /\ pc[s] = "release"
  /\ saving' = NoSaver
  /\ Goto(s, "idle")
  /\ job' = [job EXCEPT ![s] = NoJob]
  /\ seen' = [seen EXCEPT ![s] = NoConn]
  /\ data' = [data EXCEPT ![s] = NoConn]
  /\ UNCHANGED <<startup, service, files, writing, answered>>
--------------------------------------------------------------------------------
(* Failures: before the directory exists an exception only unwinds; after  *)
(* that the transaction is rolled back and the handler cleans up.          *)

(* Mutant: the save lock is not released when a read raises. *)
FailEarlyLocked(s) ==
  /\ pc[s] \in Early
  /\ Goto(s, "idle")
  /\ job' = [job EXCEPT ![s] = NoJob]
  /\ seen' = [seen EXCEPT ![s] = NoConn]
  /\ data' = [data EXCEPT ![s] = NoConn]
  /\ UNCHANGED <<startup, service, files, saving, writing, answered>>

FailEarly(s) ==
  /\ pc[s] \in Early
  /\ Goto(s, "release")
  /\ UNCHANGED <<startup, service, files, saving, writing, job, seen, data, answered>>

Fail(s) ==
  /\ pc[s] \in Publishing
  /\ writing' = IF writing = s THEN NoSaver ELSE writing
  /\ Goto(s, "unpartial")
  /\ UNCHANGED <<startup, service, files, saving, job, seen, data, answered>>

(* rmtree(ignore_errors=True) of the partial directory.  It is one step:   *)
(* whatever a death or a power cut leaves of it, startup removes.          *)
RemoveTree(o) ==
  IF dirs[o].at = "partial"
    THEN \/ dirs' = [dirs EXCEPT ![o] = NoDir] /\ UNCHANGED debris
         \/ debris' = debris \cup {o} /\ UNCHANGED dirs
    ELSE UNCHANGED <<dirs, debris>>

RemovePartial(s) ==
  /\ pc[s] = "unpartial"
  /\ RemoveTree(Op(s))
  /\ Goto(s, "unfinal")
  /\ UNCHANGED <<startup, service, rows, saving, writing, job, seen, data, answered>>

(* The sync of the partial directory raises inside the handler: the        *)
(* published directory is not removed.                                     *)
CleanupFails(s) ==
  /\ pc[s] = "unfinal"
  /\ debris' = IF dirs[Op(s)].at = "final" THEN debris \cup {Op(s)} ELSE debris
  /\ Goto(s, "release")
  /\ UNCHANGED <<startup, service, rows, dirs, saving, writing, job, seen, data, answered>>

(* rmtree(ignore_errors=True) of the published directory, file by file:    *)
(* its manifest goes, ...                                                  *)
RemoveFinal(s) ==
  /\ pc[s] = "unfinal"
  /\ \/ /\ dirs[Op(s)].at # "final"
        /\ Goto(s, "release")
        /\ UNCHANGED <<dirs, debris>>
     \/ /\ dirs[Op(s)].at = "final"
        /\ dirs' = [dirs EXCEPT ![Op(s)].at = "torn"]
        /\ Goto(s, "rmdir")
        /\ UNCHANGED debris
     \/ /\ dirs[Op(s)].at = "final"
        /\ debris' = debris \cup {Op(s)}
        /\ Goto(s, "syncgone")
        /\ UNCHANGED dirs
  /\ UNCHANGED <<startup, service, rows, saving, writing, job, seen, data, answered>>

(* ... the directory goes, unless another file of it could not, ...        *)
RemoveDir(s) ==
  /\ pc[s] = "rmdir"
  /\ \/ dirs' = [dirs EXCEPT ![Op(s)].at = "removed"] /\ UNCHANGED debris
     \/ debris' = debris \cup {Op(s)} /\ UNCHANGED dirs
  /\ Goto(s, "syncgone")
  /\ UNCHANGED <<startup, service, rows, saving, writing, job, seen, data, answered>>

(* ... and the removal is synced, or the sync raises in its turn.          *)
SyncRemoval(s) ==
  /\ pc[s] = "syncgone"
  /\ \/ dirs[Op(s)].at = "removed" /\ dirs' = [dirs EXCEPT ![Op(s)] = NoDir]
     \/ UNCHANGED dirs
  /\ Goto(s, "release")
  /\ UNCHANGED <<startup, service, rows, debris, saving, writing, job, seen, data, answered>>
--------------------------------------------------------------------------------
(* Death and startup. *)
ProcessDies ==
  /\ phase' = "reconcile" /\ swept' = {}
  /\ live' = NoConn
  /\ saving' = NoSaver /\ writing' = NoSaver
  /\ pc' = [s \in Savers |-> "idle"]
  /\ job' = [s \in Savers |-> NoJob]
  /\ seen' = [s \in Savers |-> NoConn]
  /\ data' = [s \in Savers |-> NoConn]
  /\ debris' = debris \cup {o \in Ops : dirs'[o].at = "torn"}
  /\ UNCHANGED <<conns, rows, answered, unclosed>>

Crash == UNCHANGED dirs /\ ProcessDies

(* What a power cut can leave: a removal that was not synced may be undone *)
(* in part or as a whole, so may a rename whose directories were not       *)
(* synced, and unsynced files vanish or are torn.                          *)
Survivors(d) ==
  {IF d.at = "removed" THEN NoDir ELSE d}
  \cup {[d EXCEPT !.at = a] : a \in IF d.at \in {"torn", "removed"} THEN {"torn", "final"} ELSE {}}
  \cup (IF d.synced = "files" THEN {NoDir, [d EXCEPT !.at = "partial"]} ELSE {})
  \cup (IF d.at # "none" /\ d.synced = "no" THEN {NoDir, [d EXCEPT !.doc = NoDoc]} ELSE {})

PowerCut ==
  /\ \E after \in [Ops -> UNION {Survivors(dirs[o]) : o \in Ops}] :
       /\ \A o \in Ops : after[o] \in Survivors(dirs[o])
       /\ dirs' = after
  /\ ProcessDies

(* Mutants: the rows are left open; their status is misspelt. *)
ReconcileNot ==
  /\ phase = "reconcile"
  /\ phase' = "sweep"
  /\ UNCHANGED <<swept, service, files, saving, writing, pc, job, seen, data, answered>>

ReconcileMisspelt ==
  /\ phase = "reconcile"
  /\ conns' = [c \in Conns |->
                 IF conns[c].status = "connected"
                   THEN [conns[c] EXCEPT !.status = "reconciled"] ELSE conns[c]]
  /\ phase' = "sweep"
  /\ UNCHANGED <<swept, live, unclosed, files, saving, writing, pc, job, seen, data, answered>>

(* EvidenceDatabase.initialize closes the rows the last process left open. *)
Reconcile ==
  /\ phase = "reconcile"
  /\ conns' = [c \in Conns |->
                 IF conns[c].status = "connected"
                   THEN [conns[c] EXCEPT !.status = "error"] ELSE conns[c]]
  /\ phase' = "sweep"
  /\ UNCHANGED <<swept, live, unclosed, files, saving, writing, pc, job, seen, data, answered>>

(* Mutant: startup only removes partial directories. *)
SweepPartial(o) ==
  /\ phase = "sweep"
  /\ o \notin swept
  /\ swept' = swept \cup {o}
  /\ RemoveTree(o)
  /\ UNCHANGED <<phase, service, rows, saving, writing, pc, job, seen, data, answered>>

(* _quarantine_orphaned_obd_runs: partial directories are removed, and     *)
(* published ones that have a manifest but no row are moved away; one      *)
(* without a manifest is passed over.                                      *)
Sweep(o) ==
  /\ phase = "sweep"
  /\ o \notin swept
  /\ swept' = swept \cup {o}
  /\ \/ dirs[o].at # "final" /\ RemoveTree(o)
     \/ /\ dirs[o].at = "final" /\ rows[o] = NoDoc
        /\ dirs' = [dirs EXCEPT ![o] = NoDir]
        /\ UNCHANGED debris
     \/ /\ dirs[o].at = "final" /\ rows[o] # NoDoc
        /\ UNCHANGED <<dirs, debris>>
  /\ UNCHANGED <<phase, service, rows, saving, writing, pc, job, seen, data, answered>>

Boot ==
  /\ phase = "sweep"
  /\ swept = Ops
  /\ phase' = "up"
  /\ UNCHANGED <<swept, service, files, saving, writing, pc, job, seen, data, answered>>
--------------------------------------------------------------------------------
Save(s) ==
  \/ Look(s) \/ Replay(s) \/ Status(s) \/ Read(s) \/ Recheck(s) \/ Mkdir(s)
  \/ Write(s) \/ CheckOwner(s) \/ Insert(s) \/ SyncFiles(s) \/ Rename(s)
  \/ SyncName(s) \/ Commit(s) \/ Answer(s) \/ Release(s)
  \/ RemovePartial(s) \/ RemoveFinal(s) \/ RemoveDir(s) \/ SyncRemoval(s)

Next ==
  \/ Connect \/ Disconnect
  \/ \E s \in Savers :
       Request(s) \/ Lock(s) \/ Save(s) \/ FailEarly(s) \/ Fail(s) \/ CleanupFails(s)
  \/ Crash \/ PowerCut \/ Reconcile \/ Boot
  \/ \E o \in Ops : Sweep(o)

Spec == Init /\ [][Next]_vars
--------------------------------------------------------------------------------
(* The type invariant: every table, directory and register holds a value   *)
(* the code can put there.                                                 *)
TypeOK ==
  /\ phase \in {"up", "reconcile", "sweep"} /\ swept \in SUBSET Ops
  /\ live \in Conns \cup {NoConn}
  /\ conns \in [Conns -> Conn]
  /\ rows \in [Ops -> Doc \cup {NoDoc}]
  /\ dirs \in [Ops -> Dir]
  /\ saving \in Savers \cup {NoSaver} /\ writing \in Savers \cup {NoSaver}
  /\ pc \in [Savers -> Steps]
  /\ job \in [Savers -> [op : Ops, kind : Kinds] \cup {NoJob}]
  /\ seen \in [Savers -> Conns \cup {NoConn}]
  /\ data \in [Savers -> Conns \cup {NoConn}]
  /\ answered \in [Ops -> SUBSET Doc]
  /\ unclosed \in SUBSET Conns /\ debris \in SUBSET Ops

(* Evidence is filed under the connection its data was read through, and   *)
(* that connection belongs to a diagnostic session, although connects and  *)
(* disconnects come between the two status calls and the read.             *)
FiledUnderItsConnection ==
  \A o \in Ops : rows[o] # NoDoc =>
    rows[o].data = rows[o].conn /\ Session(rows[o].conn) # NoSession

(* A committed row has its published, synced directory, with the document  *)
(* the row describes, whatever crashes and power cuts came before; and an  *)
(* operation id is only ever answered with that document, however often it *)
(* is retried, across restarts too (obd_evidence.py:120, 283).             *)
CommittedIsDurable ==
  \A o \in Ops :
    /\ rows[o] # NoDoc => dirs[o] = [at |-> "final", doc |-> rows[o], synced |-> "name"]
    /\ answered[o] \subseteq {rows[o]}

(* Once the service is up, an uncommitted directory belongs to a save in   *)
(* progress, or its removal failed, or a death cut its removal short after *)
(* the manifest was gone: in every other case a retry starts from nothing, *)
(* wherever in a save the last process died (obd_evidence.py:65, 326).     *)
RetryStartsClean ==
  \A o \in Ops : phase = "up" /\ There(o) /\ rows[o] = NoDoc =>
    o \in debris \/ \E s \in Savers : Op(s) = o /\ pc[s] \in Publishing \cup Cleaning

(* An open connection row is the service's connection, or one that a       *)
(* failed disconnect left open, and none is open before a restart is over. *)
OpenRowsAreLive ==
  \A c \in Conns : conns[c].status = "connected" =>
    phase # "sweep" /\ (phase = "up" => c = live \/ c \in unclosed)

(* The lane implements the evidence store with no loss, power cuts or not. *)
Store == INSTANCE EvidenceStore WITH
  Runs <- Ops,
  MayLose <- FALSE,
  published <- {o \in Ops : rows[o] # NoDoc},
  offered <- [o \in Ops |->
                IF rows[o] # NoDoc /\ dirs[o].at = "final" /\ dirs[o].doc # NoDoc
                  THEN Files ELSE {}]
ImplementsStore == Store!Spec

(* Fairness: a saver that holds the lock keeps running; its calls return   *)
(* or raise.                                                               *)
FairSpec == Spec /\ \A s \in Savers : WF_vars(Save(s) \/ FailEarly(s) \/ Fail(s))

(* The save lock comes free: every path through save releases it.          *)
SaveLockComesFree == saving # NoSaver ~> saving = NoSaver
--------------------------------------------------------------------------------
(* Why the invariants hold: the inductive invariant of the proofs.         *)

Working == Steps \ {"idle", "lock"}
Committing == {"sync", "rename", "syncname", "commit"}

(* Each lock is held at exactly the steps between its acquisition and its  *)
(* release, and no request outlives its process.                           *)
LocksAt(s) ==
  /\ pc[s] \in Working <=> saving = s
  /\ pc[s] \in Committing <=> writing = s
  /\ phase # "up" => pc[s] = "idle"
  /\ pc[s] # "idle" => Op(s) \in Ops

(* What a saver knows of the connection it saw: it belongs to a session,   *)
(* and if it is still there at the second status the data came through it, *)
(* because a connection that is gone never comes back.                     *)
SeenAt(s) ==
  /\ pc[s] \in {"read", "recheck", "mkdir", "answer"} \cup Publishing =>
       seen[s] \in Conns /\ Session(seen[s]) # NoSession
  /\ pc[s] = "recheck" => data[s] \in Conns /\ (live = seen[s] => data[s] = seen[s])
  /\ pc[s] \in {"mkdir", "answer"} \cup Publishing => data[s] = seen[s]

(* What it knows of its operation's row, ... *)
RowAt(s) ==
  /\ pc[s] = "replay" => rows[Op(s)] # NoDoc
  /\ pc[s] \in {"status", "read", "recheck", "mkdir"} =>
       rows[Op(s)] = NoDoc /\ dirs[Op(s)].at \notin {"final", "torn"}
  /\ pc[s] \in Publishing \cup Cleaning => rows[Op(s)] = NoDoc
  /\ pc[s] = "answer" => rows[Op(s)] = Document(s)

(* ... and of its directory.                                               *)
DirAt(s) ==
  LET dir == dirs[Op(s)]
      holds(at, doc, synced) == dir.at = at /\ dir.doc = doc /\ dir.synced = synced
  IN  /\ pc[s] = "write" => holds("partial", NoDoc, "no")
      /\ pc[s] \in {"owner", "insert", "sync"} => holds("partial", Document(s), "no")
      /\ pc[s] = "rename" => holds("partial", Document(s), "files")
      /\ pc[s] = "syncname" => holds("final", Document(s), "files")
      /\ pc[s] = "commit" => holds("final", Document(s), "name")
      /\ pc[s] \in {"unpartial", "unfinal"} => dir.at \in {"none", "partial", "final"}
      /\ pc[s] = "unfinal" => dir.at # "partial" \/ Op(s) \in debris
      /\ pc[s] = "rmdir" => dir.at = "torn"
      /\ pc[s] = "syncgone" => dir.at = "removed" \/ Op(s) \in debris

SaverOK(s) == LocksAt(s) /\ SeenAt(s) /\ RowAt(s) /\ DirAt(s)

(* A connection has its session from the moment it exists.                 *)
SessionsFromConnect == \A c \in Conns : conns[c].status = "none" => Session(c) = NoSession

(* A directory is renamed only after its files are synced, and they are    *)
(* synced only after they are written.                                     *)
SyncedInOrder ==
  \A o \in Ops : /\ dirs[o].at \in {"final", "torn", "removed"} => dirs[o].synced # "no"
                 /\ dirs[o].synced # "no" => dirs[o].doc # NoDoc

(* Startup has nothing of the last process left in memory, and has cleaned *)
(* what it has swept.                                                      *)
StartupOK ==
  /\ phase # "up" => live = NoConn /\ saving = NoSaver /\ writing = NoSaver
  /\ phase = "reconcile" => swept = {}
  /\ phase # "up" => \A o \in Ops : dirs[o].at = "torn" => o \in debris
  /\ phase = "sweep" => \A o \in swept : There(o) /\ rows[o] = NoDoc => o \in debris

IInv ==
  /\ TypeOK
  /\ \A s \in Savers : SaverOK(s)
  /\ SessionsFromConnect /\ SyncedInOrder /\ StartupOK
  /\ FiledUnderItsConnection /\ CommittedIsDurable
  /\ RetryStartsClean /\ OpenRowsAreLive
================================================================================
