--------------------------- MODULE ObdEvidenceProofs ---------------------------
(* Proofs about ObdEvidence for any savers, operations, kinds of request,  *)
(* connections, sessions and files.                                        *)
EXTENDS ObdEvidence, TLAPS

(* An empty document is no document. *)
LEMMA NoDocIsNone == NoDoc \notin Doc
BY NoConnAssumption DEF Doc, NoDoc

(* Nobody saves, nothing is connected and nothing is filed at first. *)
LEMMA InitIInv == Init => IInv
<1> SUFFICES ASSUME Init PROVE IInv
  OBVIOUS
<1> USE NoSaverAssumption, NoConnAssumption, NoSessionAssumption DEF Init
<1>1. TypeOK
  BY DEF TypeOK, Conn, Dir, NoDir, NoDoc, NoJob, Steps, Early, Publishing, Cleaning
<1>2. \A s \in Savers : SaverOK(s)
  BY DEF SaverOK, LocksAt, SeenAt, RowAt, DirAt, Working, Committing, Steps,
         Early, Publishing, Cleaning
<1>3. SessionsFromConnect /\ SyncedInOrder /\ StartupOK
  BY DEF SessionsFromConnect, SyncedInOrder, StartupOK, Session, NoDir
<1>4. FiledUnderItsConnection /\ CommittedIsDurable /\ RetryStartsClean /\ OpenRowsAreLive
  BY DEF FiledUnderItsConnection, CommittedIsDurable, RetryStartsClean, OpenRowsAreLive, NoDir,
         There
<1> QED
  BY <1>1, <1>2, <1>3, <1>4 DEF IInv
--------------------------------------------------------------------------------
(* The parts of the invariant that speak of the tables and directories.    *)
Evidence ==
  /\ SessionsFromConnect /\ SyncedInOrder /\ StartupOK
  /\ FiledUnderItsConnection /\ CommittedIsDurable
  /\ RetryStartsClean /\ OpenRowsAreLive

(* A saver past the save lock is alone there: the others are idle or wait. *)
LEMMA AloneUnderSaveLock ==
  ASSUME NEW s \in Savers, IInv, pc[s] \in Working
  PROVE  /\ saving = s /\ phase = "up" /\ Op(s) \in Ops
         /\ \A v \in Savers \ {s} : pc[v] \in {"idle", "lock"}
<1>1. saving = s /\ phase = "up" /\ Op(s) \in Ops
  BY DEF IInv, SaverOK, LocksAt, Working
<1>2. ASSUME NEW v \in Savers \ {s} PROVE pc[v] \in {"idle", "lock"}
  <2>1. pc[v] \in Steps /\ (pc[v] \in Working => saving = v)
    BY DEF IInv, TypeOK, SaverOK, LocksAt
  <2> QED
    BY <1>1, <2>1 DEF Working
<1> QED
  BY <1>1, <1>2

(* Savers that are idle or wait know nothing a step could make false.      *)
LEMMA WaitingUndisturbed ==
  ASSUME NEW s \in Savers, NEW v \in Savers, v # s, IInv,
         pc[v] \in {"idle", "lock"}, pc'[v] = pc[v], job'[v] = job[v],
         saving' # v, writing' # v, phase' = phase
  PROVE  SaverOK(v)'
<1>1. SaverOK(v)
  BY DEF IInv
<1> QED
  BY <1>1 DEF SaverOK, LocksAt, SeenAt, RowAt, DirAt, Op, Working, Committing,
              Early, Publishing, Cleaning

(* A step of a saver that leaves the tables and directories alone.         *)
LEMMA EvidenceUndisturbed ==
  ASSUME IInv, phase = "up",
         UNCHANGED <<startup, service, files, answered>>,
         \A v \in Savers : pc[v] \in Publishing \cup Cleaning =>
           pc'[v] \in Publishing \cup Cleaning /\ job'[v] = job[v]
  PROVE  Evidence'
<1>1. /\ phase' = phase /\ swept' = swept /\ live' = live /\ conns' = conns
      /\ unclosed' = unclosed /\ rows' = rows /\ dirs' = dirs /\ debris' = debris
      /\ answered' = answered
  BY DEF startup, service, files
<1>2. (SessionsFromConnect /\ SyncedInOrder /\ StartupOK)'
  BY <1>1 DEF IInv, SessionsFromConnect, SyncedInOrder, StartupOK, There, Session
<1>3. (FiledUnderItsConnection /\ CommittedIsDurable /\ OpenRowsAreLive)'
  BY <1>1 DEF IInv, FiledUnderItsConnection, CommittedIsDurable, OpenRowsAreLive, Session
<1>4. RetryStartsClean'
  BY <1>1 DEF IInv, RetryStartsClean, There, Op
<1> QED
  BY <1>2, <1>3, <1>4 DEF Evidence

(* A step under the save lock that changes the directory of an operation   *)
(* without a row, and nothing else on disk.                                *)
LEMMA OwnDirectoryOnly ==
  ASSUME NEW s \in Savers, IInv, phase = "up", Op(s) \in Ops, rows[Op(s)] = NoDoc,
         UNCHANGED <<startup, service, rows, answered>>,
         \A o \in Ops \ {Op(s)} : dirs'[o] = dirs[o],
         debris \subseteq debris',
         dirs'[Op(s)].at \in {"final", "torn", "removed"} => dirs'[Op(s)].synced # "no",
         dirs'[Op(s)].synced # "no" => dirs'[Op(s)].doc # NoDoc,
         \/ dirs'[Op(s)].at \notin {"partial", "final", "torn"}
         \/ Op(s) \in debris'
         \/ pc'[s] \in Publishing \cup Cleaning /\ job'[s] = job[s],
         \A v \in Savers \ {s} : pc[v] \in {"idle", "lock"}
  PROVE  Evidence'
<1>1. /\ phase' = phase /\ swept' = swept /\ live' = live /\ conns' = conns
      /\ unclosed' = unclosed /\ rows' = rows /\ answered' = answered
  BY DEF startup, service
<1>2. SessionsFromConnect' /\ SyncedInOrder' /\ StartupOK'
  BY <1>1 DEF IInv, SessionsFromConnect, SyncedInOrder, StartupOK, Session
<1>3. FiledUnderItsConnection' /\ OpenRowsAreLive'
  BY <1>1 DEF IInv, FiledUnderItsConnection, OpenRowsAreLive, Session
<1>4. CommittedIsDurable'
  BY <1>1 DEF IInv, CommittedIsDurable
<1>5. RetryStartsClean'
  <2> SUFFICES ASSUME NEW o \in Ops, There(o)', rows'[o] = NoDoc, o \notin debris'
               PROVE  \E v \in Savers : Op(v)' = o /\ pc'[v] \in Publishing \cup Cleaning
    BY DEF RetryStartsClean
  <2>1. CASE o = Op(s)
    BY <2>1 DEF Op, There
  <2>2. CASE o # Op(s)
    <3>1. There(o) /\ rows[o] = NoDoc /\ o \notin debris
      BY <1>1, <2>2 DEF There
    <3>2. PICK v \in Savers : Op(v) = o /\ pc[v] \in Publishing \cup Cleaning
      BY <3>1 DEF IInv, RetryStartsClean
    <3> QED
      BY <2>2, <3>2 DEF Publishing, Cleaning
  <2> QED
    BY <2>1, <2>2
<1> QED
  BY <1>2, <1>3, <1>4, <1>5 DEF Evidence
--------------------------------------------------------------------------------
(* The service. *)

(* OBDService.connect: a new connection is nobody's seen connection. *)
LEMMA ConnectStep == ASSUME IInv, Connect PROVE IInv'
<1> USE NoConnAssumption
<1>1. PICK c \in Conns, session \in Sessions \cup {NoSession} :
        /\ conns[c].status = "none"
        /\ conns' = [conns EXCEPT ![c] = [status |-> "connected", session |-> session]]
        /\ live' = c
  BY DEF Connect
<1>2. /\ phase = "up" /\ phase' = phase /\ swept' = swept
      /\ rows' = rows /\ dirs' = dirs /\ debris' = debris
      /\ saving' = saving /\ writing' = writing /\ pc' = pc /\ job' = job
      /\ seen' = seen /\ data' = data /\ answered' = answered /\ unclosed' = unclosed
  BY DEF Connect, startup, files
<1>3. TypeOK'
  BY <1>1, <1>2 DEF IInv, TypeOK, Conn
<1>4. Session(c) = NoSession /\ \A d \in Conns \ {c} : conns'[d] = conns[d]
  BY <1>1 DEF IInv, TypeOK, SessionsFromConnect
<1>5. ASSUME NEW s \in Savers PROVE SaverOK(s)'
  <2>1. SaverOK(s)
    BY DEF IInv
  <2>2. LocksAt(s)' /\ RowAt(s)' /\ DirAt(s)'
    BY <1>2, <2>1 DEF SaverOK, LocksAt, RowAt, DirAt, Op, Document
  <2>3. SeenAt(s)'
    BY <1>1, <1>2, <1>4, <2>1 DEF SaverOK, SeenAt, Session, Early, Publishing
  <2> QED
    BY <2>2, <2>3 DEF SaverOK
<1>6. ASSUME NEW o \in Ops, rows[o] # NoDoc
      PROVE  rows[o].data = rows[o].conn /\ conns'[rows[o].conn].session # NoSession
  BY <1>4, <1>6 DEF IInv, TypeOK, Doc, FiledUnderItsConnection, Session
<1>7. FiledUnderItsConnection'
  BY <1>2, <1>6 DEF FiledUnderItsConnection, Session
<1>8. SessionsFromConnect' /\ OpenRowsAreLive'
  <2>1. conns'[c].status = "connected"
    BY <1>1 DEF IInv, TypeOK, Conn
  <2>2. live = NoConn
    BY DEF Connect
  <2> QED
    BY <1>1, <1>2, <1>4, <2>1, <2>2 DEF IInv, SessionsFromConnect, OpenRowsAreLive, Session
<1>9. SyncedInOrder' /\ StartupOK' /\ CommittedIsDurable' /\ RetryStartsClean'
  BY <1>2 DEF IInv, SyncedInOrder, StartupOK, There, CommittedIsDurable, RetryStartsClean, Op
<1> QED
  BY <1>3, <1>5, <1>7, <1>8, <1>9 DEF IInv

(* OBDService.disconnect keeps the session of the row, closed or not.      *)
LEMMA DisconnectStep == ASSUME IInv, Disconnect PROVE IInv'
<1> USE NoConnAssumption
<1>1. live \in Conns /\ live' = NoConn
  BY DEF Disconnect, IInv, TypeOK
<1>2. /\ phase = "up" /\ phase' = phase /\ swept' = swept
      /\ rows' = rows /\ dirs' = dirs /\ debris' = debris
      /\ saving' = saving /\ writing' = writing /\ pc' = pc /\ job' = job
      /\ seen' = seen /\ data' = data /\ answered' = answered
  BY DEF Disconnect, startup, files
<1>3. \/ /\ unclosed' = unclosed
         /\ \E status \in {"closed", "error"} : conns' = [conns EXCEPT ![live].status = status]
      \/ unclosed' = unclosed \cup {live} /\ conns' = conns
  BY DEF Disconnect
<1>4. TypeOK'
  BY <1>1, <1>2, <1>3 DEF IInv, TypeOK, Conn
<1>5. \A c \in Conns : /\ conns'[c].session = conns[c].session
                       /\ conns'[c].status # conns[c].status =>
                            c = live /\ conns'[c].status \in {"closed", "error"}
                       /\ conns'[live].status = "connected" => live \in unclosed'
  BY <1>1, <1>3 DEF IInv, TypeOK, Conn
<1>6. ASSUME NEW s \in Savers PROVE SaverOK(s)'
  <2>1. SaverOK(s)
    BY DEF IInv
  <2>2. LocksAt(s)' /\ RowAt(s)' /\ DirAt(s)'
    BY <1>2, <2>1 DEF SaverOK, LocksAt, RowAt, DirAt, Op, Document
  <2>3. SeenAt(s)'
    BY <1>1, <1>2, <1>5, <2>1 DEF SaverOK, SeenAt, Session
  <2> QED
    BY <2>2, <2>3 DEF SaverOK
<1>7. FiledUnderItsConnection'
  BY <1>2, <1>5 DEF IInv, TypeOK, Doc, FiledUnderItsConnection, Session
<1>8. SessionsFromConnect'
  BY <1>1, <1>5 DEF IInv, SessionsFromConnect, Session
<1>9. OpenRowsAreLive'
  BY <1>1, <1>2, <1>3, <1>5 DEF IInv, OpenRowsAreLive
<1>10. SyncedInOrder' /\ StartupOK' /\ CommittedIsDurable' /\ RetryStartsClean'
  BY <1>2 DEF IInv, SyncedInOrder, StartupOK, There, CommittedIsDurable, RetryStartsClean, Op
<1> QED
  BY <1>4, <1>6, <1>7, <1>8, <1>9, <1>10 DEF IInv
--------------------------------------------------------------------------------
(* The savers. *)

LEMMA RequestStep == ASSUME NEW s \in Savers, IInv, Request(s) PROVE IInv'
<1>1. PICK o \in Ops, k \in Kinds : job' = [job EXCEPT ![s] = [op |-> o, kind |-> k]]
  BY DEF Request
<1>2. /\ pc[s] = "idle" /\ pc' = [pc EXCEPT ![s] = "lock"]
      /\ UNCHANGED <<startup, service, files, saving, writing, seen, data, answered>>
  BY DEF Request, Goto
<1>3. /\ phase = "up" /\ phase' = phase /\ live' = live /\ conns' = conns /\ rows' = rows
      /\ dirs' = dirs /\ debris' = debris
  BY <1>2 DEF Request, startup, service, files
<1>4. TypeOK'
  BY <1>1, <1>2 DEF IInv, TypeOK, Steps, startup, service, files
<1>5. SaverOK(s)'
  <2>1. pc'[s] = "lock" /\ job'[s] \in [op : Ops, kind : Kinds] /\ saving # s /\ writing # s
    BY <1>1, <1>2 DEF IInv, TypeOK, SaverOK, LocksAt, Working, Committing
  <2> QED
    BY <1>2, <1>3, <2>1 DEF SaverOK, LocksAt, SeenAt, RowAt, DirAt, Op, Working, Committing,
                            Early, Publishing, Cleaning
<1>6. ASSUME NEW v \in Savers \ {s} PROVE SaverOK(v)'
  <2>1. SaverOK(v) /\ pc'[v] = pc[v] /\ job'[v] = job[v]
    BY <1>1, <1>2 DEF IInv, TypeOK
  <2> QED
    BY <1>2, <1>3, <2>1 DEF SaverOK, LocksAt, SeenAt, RowAt, DirAt, Op, Document, Session
<1>7. Evidence'
  <2>1. ASSUME NEW v \in Savers, pc[v] \in Publishing \cup Cleaning
        PROVE  pc'[v] \in Publishing \cup Cleaning /\ job'[v] = job[v]
    BY <1>1, <1>2, <2>1 DEF IInv, TypeOK, Publishing, Cleaning
  <2> QED
    BY <1>2, <1>3, <2>1, EvidenceUndisturbed
<1> QED
  BY <1>4, <1>5, <1>6, <1>7 DEF IInv, Evidence

LEMMA LockStep == ASSUME NEW s \in Savers, IInv, Lock(s) PROVE IInv'
<1> USE NoSaverAssumption
<1>1. /\ pc[s] = "lock" /\ pc' = [pc EXCEPT ![s] = "look"] /\ saving = NoSaver /\ saving' = s
      /\ UNCHANGED <<startup, service, files, writing, job, seen, data, answered>>
  BY DEF Lock, Goto
<1>2. phase' = phase /\ live' = live /\ conns' = conns /\ rows' = rows /\ dirs' = dirs
  BY <1>1 DEF startup, service, files
<1>3. TypeOK'
  BY <1>1 DEF IInv, TypeOK, Steps, Early, startup, service, files
<1>4. LocksAt(s)
  BY DEF IInv, SaverOK
<1>5. pc'[s] = "look" /\ phase = "up" /\ writing # s
  BY <1>1, <1>4 DEF IInv, TypeOK, LocksAt, Committing
<1>6. SaverOK(s)'
  BY <1>1, <1>2, <1>4, <1>5
     DEF SaverOK, LocksAt, SeenAt, RowAt, DirAt, Op, Working, Committing, Steps,
         Early, Publishing, Cleaning
<1>7. ASSUME NEW v \in Savers \ {s} PROVE SaverOK(v)'
  <2>1. LocksAt(v) /\ pc[v] \in Steps /\ pc'[v] = pc[v] /\ job'[v] = job[v]
    BY <1>1 DEF IInv, TypeOK, SaverOK
  <2>2. pc[v] \in {"idle", "lock"} /\ writing' # v
    BY <1>1, <2>1 DEF LocksAt, Working, Committing
  <2> QED
    BY <1>1, <1>2, <2>1, <2>2, WaitingUndisturbed
<1>8. Evidence'
  <2>1. ASSUME NEW v \in Savers, pc[v] \in Publishing \cup Cleaning
        PROVE  pc'[v] \in Publishing \cup Cleaning /\ job'[v] = job[v]
    BY <1>1, <2>1 DEF IInv, TypeOK, Publishing, Cleaning
  <2> QED
    BY <1>1, <1>5, <2>1, EvidenceUndisturbed
<1> QED
  BY <1>3, <1>6, <1>7, <1>8 DEF IInv, Evidence

(* The steps under the save lock: what they leave to the other savers.     *)
LEMMA OthersWait ==
  ASSUME NEW s \in Savers, IInv, pc[s] \in Working, phase' = phase,
         saving' \in {s, NoSaver}, writing' \in {writing, s, NoSaver},
         \A v \in Savers \ {s} : pc'[v] = pc[v] /\ job'[v] = job[v]
  PROVE  \A v \in Savers \ {s} : SaverOK(v)'
<1> SUFFICES ASSUME NEW v \in Savers \ {s} PROVE SaverOK(v)'
  OBVIOUS
<1>1. pc[v] \in {"idle", "lock"}
  BY AloneUnderSaveLock
<1>2. writing # v
  BY <1>1 DEF IInv, SaverOK, LocksAt, Committing
<1> QED
  BY <1>1, <1>2, NoSaverAssumption, WaitingUndisturbed

(* Look, Status, Read, Recheck, CheckOwner, Insert, an early failure and   *)
(* the release change nothing but the saver's own registers and locks.     *)
Thinks(s) ==
  \/ Look(s) \/ Status(s) \/ Read(s) \/ Recheck(s) \/ CheckOwner(s) \/ Insert(s)
  \/ FailEarly(s) \/ Fail(s) \/ Release(s)

LEMMA ThinkingStep == ASSUME NEW s \in Savers, IInv, Thinks(s) PROVE IInv'
<1> USE NoSaverAssumption, NoConnAssumption
<1>1. pc[s] \in Working
  BY DEF Thinks, Look, Status, Read, Recheck, CheckOwner, Insert, FailEarly, Fail, Release,
         Working, Steps, Early, Publishing
<1>2. /\ phase = "up" /\ saving = s /\ Op(s) \in Ops
      /\ \A v \in Savers \ {s} : pc[v] \in {"idle", "lock"}
  BY <1>1, AloneUnderSaveLock
<1>3. UNCHANGED <<startup, service, files, answered>>
  BY DEF Thinks, Look, Status, Read, Recheck, CheckOwner, Insert, FailEarly, Fail, Release
<1>4. /\ phase' = phase /\ swept' = swept /\ live' = live /\ conns' = conns
      /\ unclosed' = unclosed /\ rows' = rows /\ dirs' = dirs /\ debris' = debris
      /\ answered' = answered
  BY <1>3 DEF startup, service, files
<1>5. LocksAt(s) /\ SeenAt(s) /\ RowAt(s) /\ DirAt(s) /\ pc[s] \in Steps
  BY DEF IInv, TypeOK, SaverOK
<1>6. /\ TypeOK' /\ SaverOK(s)'
      /\ saving' \in {s, NoSaver} /\ writing' \in {writing, s, NoSaver}
      /\ \A v \in Savers \ {s} : pc'[v] = pc[v] /\ job'[v] = job[v]
      /\ pc[s] \in Publishing \cup Cleaning =>
           pc'[s] \in Publishing \cup Cleaning /\ job'[s] = job[s]
  <2>1. CASE Look(s)
    <3>1. /\ pc[s] = "look" /\ pc'[s] \in {"replay", "release", "status"}
          /\ pc' = [pc EXCEPT ![s] = pc'[s]]
          /\ pc'[s] = "replay" => rows[Op(s)] # NoDoc
          /\ pc'[s] = "status" => rows[Op(s)] = NoDoc /\ dirs[Op(s)].at \notin {"final", "torn"}
          /\ UNCHANGED <<saving, writing, job, seen, data>>
      BY <2>1 DEF IInv, TypeOK, Look, Goto
    <3>2. TypeOK'
      BY <1>4, <3>1 DEF IInv, TypeOK, Steps, Early
    <3>3. SaverOK(s)'
      BY <1>2, <1>4, <1>5, <3>1
         DEF SaverOK, LocksAt, SeenAt, RowAt, DirAt, Op, Document, Session, Working,
             Committing, Steps, Early, Publishing, Cleaning
    <3> QED
      BY <1>2, <3>1, <3>2, <3>3 DEF IInv, TypeOK, Publishing, Cleaning
  <2>2. CASE Status(s)
    <3>1. /\ pc[s] = "status" /\ pc'[s] \in {"read", "release"}
          /\ pc' = [pc EXCEPT ![s] = pc'[s]]
          /\ seen' \in {seen, [seen EXCEPT ![s] = live]}
          /\ pc'[s] = "read" =>
               live # NoConn /\ Session(live) # NoSession /\ seen'[s] = live
          /\ UNCHANGED <<saving, writing, job, data>>
      BY <2>2 DEF IInv, TypeOK, Status, Goto
    <3>2. TypeOK'
      BY <1>4, <3>1 DEF IInv, TypeOK, Steps, Early
    <3>3. SaverOK(s)'
      BY <1>2, <1>4, <1>5, <3>1
         DEF IInv, TypeOK, SaverOK, LocksAt, SeenAt, RowAt, DirAt, Op, Document, Session,
             Working, Committing, Steps, Early, Publishing, Cleaning
    <3> QED
      BY <1>2, <3>1, <3>2, <3>3 DEF IInv, TypeOK, Publishing, Cleaning
  <2>3. CASE Read(s)
    <3>1. /\ pc[s] = "read" /\ live \in Conns
          /\ pc' = [pc EXCEPT ![s] = "recheck"]
          /\ data' = [data EXCEPT ![s] = live]
          /\ UNCHANGED <<saving, writing, job, seen>>
      BY <2>3 DEF IInv, TypeOK, Read, Goto
    <3>2. TypeOK'
      BY <1>4, <3>1 DEF IInv, TypeOK, Steps, Early
    <3>3. SaverOK(s)'
      BY <1>2, <1>4, <1>5, <3>1
         DEF IInv, TypeOK, SaverOK, LocksAt, SeenAt, RowAt, DirAt, Op, Document, Session,
             Working, Committing, Steps, Early, Publishing, Cleaning
    <3> QED
      BY <1>2, <3>1, <3>2, <3>3 DEF IInv, TypeOK, Publishing, Cleaning
  <2>4. CASE Recheck(s)
    <3>1. /\ pc[s] = "recheck" /\ pc'[s] \in {"mkdir", "release"}
          /\ pc' = [pc EXCEPT ![s] = pc'[s]]
          /\ pc'[s] = "mkdir" => live = seen[s]
          /\ UNCHANGED <<saving, writing, job, seen, data>>
      BY <2>4 DEF IInv, TypeOK, Recheck, Goto
    <3>2. TypeOK'
      BY <1>4, <3>1 DEF IInv, TypeOK, Steps, Early
    <3>3. SaverOK(s)'
      BY <1>2, <1>4, <1>5, <3>1
         DEF IInv, TypeOK, SaverOK, LocksAt, SeenAt, RowAt, DirAt, Op, Document, Session,
             Working, Committing, Steps, Early, Publishing, Cleaning
    <3> QED
      BY <1>2, <3>1, <3>2, <3>3 DEF IInv, TypeOK, Publishing, Cleaning
  <2>5. CASE CheckOwner(s)
    <3>1. /\ pc[s] = "owner" /\ pc' = [pc EXCEPT ![s] = "insert"]
          /\ UNCHANGED <<saving, writing, job, seen, data>>
      BY <2>5 DEF CheckOwner, Goto
    <3>2. TypeOK'
      BY <1>4, <3>1 DEF IInv, TypeOK, Steps, Publishing
    <3>3. SaverOK(s)'
      BY <1>2, <1>4, <1>5, <3>1
         DEF IInv, TypeOK, SaverOK, LocksAt, SeenAt, RowAt, DirAt, Op, Document, Session,
             Working, Committing, Steps, Early, Publishing, Cleaning
    <3> QED
      BY <1>2, <3>1, <3>2, <3>3 DEF IInv, TypeOK, Publishing, Cleaning
  <2>6. CASE Insert(s)
    <3>1. /\ pc[s] = "insert" /\ pc' = [pc EXCEPT ![s] = "sync"]
          /\ writing' = s /\ UNCHANGED <<saving, job, seen, data>>
      BY <2>6 DEF Insert, Goto
    <3>2. TypeOK'
      BY <1>4, <3>1 DEF IInv, TypeOK, Steps, Publishing
    <3>3. SaverOK(s)'
      BY <1>2, <1>4, <1>5, <3>1
         DEF IInv, TypeOK, SaverOK, LocksAt, SeenAt, RowAt, DirAt, Op, Document, Session,
             Working, Committing, Steps, Early, Publishing, Cleaning
    <3> QED
      BY <1>2, <3>1, <3>2, <3>3 DEF IInv, TypeOK, Publishing, Cleaning
  <2>7. CASE FailEarly(s)
    <3>1. /\ pc[s] \in Early /\ pc' = [pc EXCEPT ![s] = "release"]
          /\ UNCHANGED <<saving, writing, job, seen, data>>
      BY <2>7 DEF FailEarly, Goto
    <3>2. TypeOK'
      BY <1>4, <3>1 DEF IInv, TypeOK, Steps
    <3>3. SaverOK(s)'
      BY <1>2, <1>4, <1>5, <3>1
         DEF IInv, TypeOK, SaverOK, LocksAt, SeenAt, RowAt, DirAt, Op, Document, Session,
             Working, Committing, Steps, Early, Publishing, Cleaning
    <3> QED
      BY <1>2, <3>1, <3>2, <3>3 DEF IInv, TypeOK, Early, Publishing, Cleaning
  <2>8. CASE Fail(s)
    <3>1. /\ pc[s] \in Publishing /\ pc' = [pc EXCEPT ![s] = "unpartial"]
          /\ writing' = IF writing = s THEN NoSaver ELSE writing
          /\ UNCHANGED <<saving, job, seen, data>>
      BY <2>8 DEF Fail, Goto
    <3>2. TypeOK'
      BY <1>4, <3>1 DEF IInv, TypeOK, Steps, Cleaning
    <3>3. SaverOK(s)'
      BY <1>2, <1>4, <1>5, <3>1
         DEF IInv, TypeOK, SaverOK, LocksAt, SeenAt, RowAt, DirAt, Op, Document, Session,
             Working, Committing, Steps, Early, Publishing, Cleaning
    <3> QED
      BY <1>2, <3>1, <3>2, <3>3 DEF IInv, TypeOK, Publishing, Cleaning
  <2>9. CASE Release(s)
    <3>1. /\ pc[s] = "release" /\ pc' = [pc EXCEPT ![s] = "idle"] /\ saving' = NoSaver
          /\ job' = [job EXCEPT ![s] = NoJob] /\ seen' = [seen EXCEPT ![s] = NoConn]
          /\ data' = [data EXCEPT ![s] = NoConn] /\ UNCHANGED writing
      BY <2>9 DEF Release, Goto
    <3>2. TypeOK'
      BY <1>4, <3>1 DEF IInv, TypeOK, Steps
    <3>3. SaverOK(s)'
      BY <1>2, <1>4, <1>5, <3>1
         DEF IInv, TypeOK, SaverOK, LocksAt, SeenAt, RowAt, DirAt, Op, Document, Session,
             Working, Committing, Steps, Early, Publishing, Cleaning
    <3> QED
      BY <1>2, <3>1, <3>2, <3>3 DEF IInv, TypeOK, Publishing, Cleaning
  <2> QED
    BY <2>1, <2>2, <2>3, <2>4, <2>5, <2>6, <2>7, <2>8, <2>9 DEF Thinks
<1>7. \A v \in Savers \ {s} : SaverOK(v)'
  BY <1>1, <1>4, <1>6, OthersWait
<1>8. Evidence'
  <2>1. \A v \in Savers : pc[v] \in Publishing \cup Cleaning =>
           pc'[v] \in Publishing \cup Cleaning /\ job'[v] = job[v]
    BY <1>2, <1>6 DEF Publishing, Cleaning
  <2> QED
    BY <1>2, <1>3, <2>1, EvidenceUndisturbed
<1> QED
  BY <1>6, <1>7, <1>8 DEF IInv, Evidence
--------------------------------------------------------------------------------
(* The steps that write, publish and remove the saver's own directory.     *)
HandlesFiles(s) ==
  \/ Mkdir(s) \/ Write(s) \/ SyncFiles(s) \/ Rename(s) \/ SyncName(s)
  \/ RemovePartial(s) \/ CleanupFails(s)
  \/ RemoveFinal(s) \/ RemoveDir(s) \/ SyncRemoval(s)

LEMMA DirectoryStep == ASSUME NEW s \in Savers, IInv, HandlesFiles(s) PROVE IInv'
<1> USE NoSaverAssumption, NoConnAssumption
<1>1. pc[s] \in Working
  BY DEF HandlesFiles, Mkdir, Write, SyncFiles, Rename, SyncName, RemovePartial, CleanupFails,
         RemoveFinal, RemoveDir, SyncRemoval, Working, Steps, Early, Publishing, Cleaning
<1>2. /\ phase = "up" /\ saving = s /\ Op(s) \in Ops
      /\ \A v \in Savers \ {s} : pc[v] \in {"idle", "lock"}
  BY <1>1, AloneUnderSaveLock
<1>3. UNCHANGED <<startup, service, rows, saving, writing, job, seen, data, answered>>
  BY DEF HandlesFiles, Mkdir, Write, SyncFiles, Rename, SyncName, RemovePartial, CleanupFails,
         RemoveFinal, RemoveDir, SyncRemoval
<1>4. /\ phase' = phase /\ swept' = swept /\ live' = live /\ conns' = conns
      /\ unclosed' = unclosed /\ rows' = rows /\ answered' = answered
  BY <1>3 DEF startup, service
<1>5. SaverOK(s) /\ pc[s] \in Steps
  BY DEF IInv, TypeOK
<1>6. dirs[Op(s)] \in Dir /\ SyncedInOrder
  BY <1>2 DEF IInv, TypeOK
<1>7. pc[s] \in Publishing => Document(s) \in Doc /\ Document(s) # NoDoc
  <2> SUFFICES ASSUME pc[s] \in Publishing PROVE Document(s) \in Doc /\ Document(s) # NoDoc
    OBVIOUS
  <2>1. seen[s] \in Conns /\ data[s] = seen[s] /\ job[s].kind \in Kinds
    BY <1>2, <1>5, NoOpAssumption
       DEF IInv, TypeOK, SaverOK, SeenAt, LocksAt, Publishing, NoJob, Op
  <2> QED
    BY <2>1, NoDocIsNone DEF Document, Doc
(* What the step makes of the directory, and that this is what the saver   *)
(* expects at its next step.                                               *)
<1>8. /\ dirs' = [dirs EXCEPT ![Op(s)] = dirs'[Op(s)]] /\ dirs'[Op(s)] \in Dir
      /\ debris \subseteq debris' /\ debris' \in SUBSET Ops
      /\ pc' = [pc EXCEPT ![s] = pc'[s]]
      /\ dirs'[Op(s)].at \in {"final", "torn", "removed"} => dirs'[Op(s)].synced # "no"
      /\ dirs'[Op(s)].synced # "no" => dirs'[Op(s)].doc # NoDoc
      /\ pc'[s] \in Publishing \cup Cleaning \cup {"release"}
      /\ \/ dirs'[Op(s)].at \notin {"partial", "final", "torn"}
         \/ Op(s) \in debris'
         \/ pc'[s] \in Publishing \cup Cleaning
      /\ rows[Op(s)] = NoDoc
      /\ SaverOK(s)'
  <2>1. CASE Mkdir(s)
    <3>1. /\ pc[s] = "mkdir" /\ pc' = [pc EXCEPT ![s] = "write"]
          /\ dirs' = [dirs EXCEPT ![Op(s)] = dirs'[Op(s)]]
          /\ dirs'[Op(s)].at = "partial"
          /\ dirs'[Op(s)].doc = NoDoc
          /\ dirs'[Op(s)].synced = "no"
          /\ debris' = debris
      BY <1>2, <1>5, <2>1 DEF Mkdir, Goto, IInv, TypeOK, SaverOK, DirAt, NoDir, Dir
    <3>2. SaverOK(s)'
      BY <1>2, <1>3, <1>4, <1>5, <1>6, <1>7, <3>1
         DEF IInv, TypeOK, SaverOK, LocksAt, SeenAt, RowAt, DirAt, Op, Document, Session,
             Working, Committing, Steps, Early, Publishing, Cleaning, Dir, NoDir
    <3>3. dirs'[Op(s)] \in Dir
      BY <1>2, <1>6, <1>7, <2>1 DEF Mkdir, Dir, NoDir, Publishing, IInv, TypeOK
    <3>4. rows[Op(s)] = NoDoc /\ pc'[s] \in Publishing
      BY <1>5, <3>1 DEF IInv, TypeOK, SaverOK, RowAt, Publishing
    <3> QED
      BY <1>7, <3>1, <3>2, <3>3, <3>4 DEF IInv, TypeOK, Publishing
  <2>2. CASE Write(s)
    <3>1. /\ pc[s] = "write" /\ pc' = [pc EXCEPT ![s] = "owner"]
          /\ dirs' = [dirs EXCEPT ![Op(s)] = dirs'[Op(s)]]
          /\ dirs'[Op(s)].at = "partial"
          /\ dirs'[Op(s)].doc = Document(s)
          /\ dirs'[Op(s)].synced = "no"
          /\ debris' = debris
      BY <1>2, <1>5, <2>2 DEF Write, Goto, IInv, TypeOK, SaverOK, DirAt, NoDir, Dir
    <3>2. SaverOK(s)'
      BY <1>2, <1>3, <1>4, <1>5, <1>6, <1>7, <3>1
         DEF IInv, TypeOK, SaverOK, LocksAt, SeenAt, RowAt, DirAt, Op, Document, Session,
             Working, Committing, Steps, Early, Publishing, Cleaning, Dir, NoDir
    <3>3. dirs'[Op(s)] \in Dir
      BY <1>2, <1>6, <1>7, <2>2 DEF Write, Dir, NoDir, Publishing, IInv, TypeOK
    <3>4. rows[Op(s)] = NoDoc /\ pc'[s] \in Publishing
      BY <1>5, <3>1 DEF IInv, TypeOK, SaverOK, RowAt, Publishing
    <3> QED
      BY <1>7, <3>1, <3>2, <3>3, <3>4 DEF IInv, TypeOK, Publishing
  <2>3. CASE SyncFiles(s)
    <3>1. /\ pc[s] = "sync" /\ pc' = [pc EXCEPT ![s] = "rename"]
          /\ dirs' = [dirs EXCEPT ![Op(s)] = dirs'[Op(s)]]
          /\ dirs'[Op(s)].at = "partial"
          /\ dirs'[Op(s)].doc = Document(s)
          /\ dirs'[Op(s)].synced = "files"
          /\ debris' = debris
      BY <1>2, <1>5, <2>3 DEF SyncFiles, Goto, IInv, TypeOK, SaverOK, DirAt, NoDir, Dir
    <3>2. SaverOK(s)'
      BY <1>2, <1>3, <1>4, <1>5, <1>6, <1>7, <3>1
         DEF IInv, TypeOK, SaverOK, LocksAt, SeenAt, RowAt, DirAt, Op, Document, Session,
             Working, Committing, Steps, Early, Publishing, Cleaning, Dir, NoDir
    <3>3. dirs'[Op(s)] \in Dir
      BY <1>2, <1>6, <1>7, <2>3 DEF SyncFiles, Dir, NoDir, Publishing, IInv, TypeOK
    <3>4. rows[Op(s)] = NoDoc /\ pc'[s] \in Publishing
      BY <1>5, <3>1 DEF IInv, TypeOK, SaverOK, RowAt, Publishing
    <3> QED
      BY <1>7, <3>1, <3>2, <3>3, <3>4 DEF IInv, TypeOK, Publishing
  <2>4. CASE Rename(s)
    <3>1. /\ pc[s] = "rename" /\ pc' = [pc EXCEPT ![s] = "syncname"]
          /\ dirs' = [dirs EXCEPT ![Op(s)] = dirs'[Op(s)]]
          /\ dirs'[Op(s)].at = "final"
          /\ dirs'[Op(s)].doc = Document(s)
          /\ dirs'[Op(s)].synced = "files"
          /\ debris' = debris
      BY <1>2, <1>5, <2>4 DEF Rename, Goto, IInv, TypeOK, SaverOK, DirAt, NoDir, Dir
    <3>2. SaverOK(s)'
      BY <1>2, <1>3, <1>4, <1>5, <1>6, <1>7, <3>1
         DEF IInv, TypeOK, SaverOK, LocksAt, SeenAt, RowAt, DirAt, Op, Document, Session,
             Working, Committing, Steps, Early, Publishing, Cleaning, Dir, NoDir
    <3>3. dirs'[Op(s)] \in Dir
      BY <1>2, <1>6, <1>7, <2>4 DEF Rename, Dir, NoDir, Publishing, IInv, TypeOK
    <3>4. rows[Op(s)] = NoDoc /\ pc'[s] \in Publishing
      BY <1>5, <3>1 DEF IInv, TypeOK, SaverOK, RowAt, Publishing
    <3> QED
      BY <1>7, <3>1, <3>2, <3>3, <3>4 DEF IInv, TypeOK, Publishing
  <2>5. CASE SyncName(s)
    <3>1. /\ pc[s] = "syncname" /\ pc' = [pc EXCEPT ![s] = "commit"]
          /\ dirs' = [dirs EXCEPT ![Op(s)] = dirs'[Op(s)]]
          /\ dirs'[Op(s)].at = "final"
          /\ dirs'[Op(s)].doc = Document(s)
          /\ dirs'[Op(s)].synced = "name"
          /\ debris' = debris
      BY <1>2, <1>5, <2>5 DEF SyncName, Goto, IInv, TypeOK, SaverOK, DirAt, NoDir, Dir
    <3>2. SaverOK(s)'
      BY <1>2, <1>3, <1>4, <1>5, <1>6, <1>7, <3>1
         DEF IInv, TypeOK, SaverOK, LocksAt, SeenAt, RowAt, DirAt, Op, Document, Session,
             Working, Committing, Steps, Early, Publishing, Cleaning, Dir, NoDir
    <3>3. dirs'[Op(s)] \in Dir
      BY <1>2, <1>6, <1>7, <2>5 DEF SyncName, Dir, NoDir, Publishing, IInv, TypeOK
    <3>4. rows[Op(s)] = NoDoc /\ pc'[s] \in Publishing
      BY <1>5, <3>1 DEF IInv, TypeOK, SaverOK, RowAt, Publishing
    <3> QED
      BY <1>7, <3>1, <3>2, <3>3, <3>4 DEF IInv, TypeOK, Publishing
  <2>6. CASE RemovePartial(s)
    <3>1. /\ pc[s] = "unpartial" /\ pc' = [pc EXCEPT ![s] = "unfinal"]
          /\ \/ /\ dirs[Op(s)].at = "partial"
                /\ dirs' = [dirs EXCEPT ![Op(s)] = NoDir] /\ debris' = debris
             \/ dirs' = dirs /\ debris' = debris \cup {Op(s)}
             \/ dirs[Op(s)].at # "partial" /\ dirs' = dirs /\ debris' = debris
      BY <2>6 DEF RemovePartial, RemoveTree, Goto
    <3>2. SaverOK(s)'
      BY <1>2, <1>3, <1>4, <1>5, <1>6, <1>7, <3>1
         DEF IInv, TypeOK, SaverOK, LocksAt, SeenAt, RowAt, DirAt, Op, Document, Session,
             Working, Committing, Steps, Early, Publishing, Cleaning, Dir, NoDir
    <3> QED
      BY <1>2, <1>3, <1>5, <1>6, <1>7, <3>1, <3>2
         DEF IInv, TypeOK, SaverOK, RowAt, DirAt, SyncedInOrder, There, Op, Publishing, Cleaning,
             Dir, NoDir
  <2>7. CASE CleanupFails(s)
    <3>1. /\ pc[s] = "unfinal" /\ pc' = [pc EXCEPT ![s] = "release"]
          /\ dirs' = dirs
          /\ \/ debris' = debris \cup {Op(s)}
             \/ dirs[Op(s)].at # "final" /\ debris' = debris
      BY <2>7 DEF CleanupFails, Goto
    <3>2. SaverOK(s)'
      BY <1>2, <1>3, <1>4, <1>5, <1>6, <1>7, <3>1
         DEF IInv, TypeOK, SaverOK, LocksAt, SeenAt, RowAt, DirAt, Op, Document, Session,
             Working, Committing, Steps, Early, Publishing, Cleaning, Dir, NoDir
    <3> QED
      BY <1>2, <1>3, <1>5, <1>6, <1>7, <3>1, <3>2
         DEF IInv, TypeOK, SaverOK, RowAt, DirAt, SyncedInOrder, There, Op, Publishing, Cleaning,
             Dir, NoDir
  <2>8. CASE RemoveFinal(s)
    <3>1. /\ pc[s] = "unfinal" /\ pc' = [pc EXCEPT ![s] = pc'[s]]
          /\ \/ /\ dirs[Op(s)].at # "final" /\ pc'[s] = "release"
                /\ dirs' = dirs /\ debris' = debris
             \/ /\ dirs[Op(s)].at = "final" /\ pc'[s] = "rmdir"
                /\ dirs' = [dirs EXCEPT ![Op(s)].at = "torn"] /\ debris' = debris
             \/ /\ pc'[s] = "syncgone"
                /\ dirs' = dirs /\ debris' = debris \cup {Op(s)}
      BY <2>8 DEF RemoveFinal, Goto, IInv, TypeOK
    <3>2. SaverOK(s)'
      BY <1>2, <1>3, <1>4, <1>5, <1>6, <1>7, <3>1
         DEF IInv, TypeOK, SaverOK, LocksAt, SeenAt, RowAt, DirAt, Op, Document, Session,
             Working, Committing, Steps, Early, Publishing, Cleaning, Dir, NoDir
    <3> QED
      BY <1>2, <1>3, <1>5, <1>6, <1>7, <3>1, <3>2
         DEF IInv, TypeOK, SaverOK, RowAt, DirAt, SyncedInOrder, There, Op, Publishing, Cleaning,
             Dir, NoDir
  <2>9. CASE RemoveDir(s)
    <3>1. /\ pc[s] = "rmdir" /\ pc' = [pc EXCEPT ![s] = "syncgone"]
          /\ \/ dirs' = [dirs EXCEPT ![Op(s)].at = "removed"] /\ debris' = debris
             \/ dirs' = dirs /\ debris' = debris \cup {Op(s)}
      BY <2>9 DEF RemoveDir, Goto
    <3>2. SaverOK(s)'
      BY <1>2, <1>3, <1>4, <1>5, <1>6, <1>7, <3>1
         DEF IInv, TypeOK, SaverOK, LocksAt, SeenAt, RowAt, DirAt, Op, Document, Session,
             Working, Committing, Steps, Early, Publishing, Cleaning, Dir, NoDir
    <3> QED
      BY <1>2, <1>3, <1>5, <1>6, <1>7, <3>1, <3>2
         DEF IInv, TypeOK, SaverOK, RowAt, DirAt, SyncedInOrder, There, Op, Publishing, Cleaning,
             Dir, NoDir
  <2>10. CASE SyncRemoval(s)
    <3>1. /\ pc[s] = "syncgone" /\ pc' = [pc EXCEPT ![s] = "release"]
          /\ dirs' = [dirs EXCEPT ![Op(s)] = NoDir] \/ dirs' = dirs
          /\ debris' = debris
      BY <2>10 DEF SyncRemoval, Goto
    <3>2. SaverOK(s)'
      BY <1>2, <1>3, <1>4, <1>5, <1>6, <1>7, <3>1
         DEF IInv, TypeOK, SaverOK, LocksAt, SeenAt, RowAt, DirAt, Op, Document, Session,
             Working, Committing, Steps, Early, Publishing, Cleaning, Dir, NoDir
    <3> QED
      BY <1>2, <1>3, <1>5, <1>6, <1>7, <3>1, <3>2
         DEF IInv, TypeOK, SaverOK, RowAt, DirAt, SyncedInOrder, There, Op, Publishing, Cleaning,
             Dir, NoDir
  <2> QED
    BY <2>1, <2>2, <2>3, <2>4, <2>5, <2>6, <2>7, <2>8, <2>9, <2>10 DEF HandlesFiles
<1>9. TypeOK'
  BY <1>2, <1>3, <1>4, <1>8 DEF IInv, TypeOK, Steps
<1>10. \A v \in Savers \ {s} : SaverOK(v)'
  <2>1. \A v \in Savers \ {s} : pc'[v] = pc[v] /\ job'[v] = job[v]
    BY <1>3, <1>8 DEF IInv, TypeOK
  <2> QED
    BY <1>1, <1>2, <1>3, <1>4, <2>1, OthersWait
<1>11. Evidence'
  <2>1. \A o \in Ops \ {Op(s)} : dirs'[o] = dirs[o]
    BY <1>2, <1>8 DEF IInv, TypeOK
  <2> QED
    BY <1>2, <1>3, <1>8, <2>1, OwnDirectoryOnly
<1> QED
  BY <1>8, <1>9, <1>10, <1>11 DEF IInv, Evidence
--------------------------------------------------------------------------------
(* The commit: the directory is published and synced, with the document    *)
(* the row now describes, and nobody was answered about the operation yet. *)
LEMMA CommitStep == ASSUME NEW s \in Savers, IInv, Commit(s) PROVE IInv'
<1> USE NoSaverAssumption, NoConnAssumption
<1>1. /\ pc[s] = "commit" /\ pc' = [pc EXCEPT ![s] = "answer"]
      /\ rows' = [rows EXCEPT ![Op(s)] = Document(s)] /\ writing' = NoSaver
      /\ UNCHANGED <<startup, service, dirs, debris, saving, job, seen, data, answered>>
  BY DEF Commit, Goto
<1>2. pc[s] \in Working /\ pc[s] \in Publishing
  BY <1>1 DEF Working, Steps, Publishing
<1>3. /\ phase = "up" /\ saving = s /\ Op(s) \in Ops
      /\ \A v \in Savers \ {s} : pc[v] \in {"idle", "lock"}
  BY <1>2, AloneUnderSaveLock
<1>4. phase' = phase /\ swept' = swept /\ live' = live /\ conns' = conns /\ unclosed' = unclosed
  BY <1>1 DEF startup, service
<1>5. SaverOK(s)
  BY DEF IInv
<1>6. /\ Document(s) \in Doc /\ Document(s) # NoDoc
      /\ Document(s).conn = seen[s] /\ Document(s).data = seen[s]
      /\ Session(seen[s]) # NoSession
  <2>1. /\ seen[s] \in Conns /\ data[s] = seen[s] /\ job[s].kind \in Kinds
        /\ Session(seen[s]) # NoSession
    BY <1>2, <1>3, <1>5, NoOpAssumption DEF IInv, TypeOK, SaverOK, SeenAt, NoJob, Op
  <2> QED
    BY <2>1, NoDocIsNone DEF Document, Doc
<1>7. /\ rows[Op(s)] = NoDoc
      /\ dirs[Op(s)] = [at |-> "final", doc |-> Document(s), synced |-> "name"]
  BY <1>1, <1>2, <1>3, <1>5 DEF IInv, TypeOK, Dir, SaverOK, RowAt, DirAt
<1>8. rows'[Op(s)] = Document(s) /\ \A o \in Ops \ {Op(s)} : rows'[o] = rows[o]
  BY <1>1, <1>3 DEF IInv, TypeOK
<1>9. TypeOK'
  BY <1>1, <1>3, <1>4, <1>6 DEF IInv, TypeOK, Steps
<1>10. SaverOK(s)'
  BY <1>1, <1>2, <1>3, <1>4, <1>5, <1>8
     DEF IInv, TypeOK, SaverOK, LocksAt, SeenAt, RowAt, DirAt, Op, Document, Session,
         Working, Committing, Steps, Early, Publishing, Cleaning
<1>11. \A v \in Savers \ {s} : SaverOK(v)'
  <2>1. \A v \in Savers \ {s} : pc'[v] = pc[v] /\ job'[v] = job[v]
    BY <1>1 DEF IInv, TypeOK
  <2> QED
    BY <1>1, <1>2, <1>3, <1>4, <2>1, OthersWait
<1>12. SessionsFromConnect' /\ SyncedInOrder' /\ StartupOK' /\ OpenRowsAreLive'
  BY <1>1, <1>3, <1>4
     DEF IInv, SessionsFromConnect, SyncedInOrder, StartupOK, There, OpenRowsAreLive, Session
<1>13. FiledUnderItsConnection'
  BY <1>4, <1>6, <1>8 DEF IInv, FiledUnderItsConnection, Session
<1>14. CommittedIsDurable'
  <2>1. answered[Op(s)] = {}
    BY <1>3, <1>7, NoDocIsNone DEF IInv, TypeOK, CommittedIsDurable
  <2> QED
    BY <1>1, <1>7, <1>8, <2>1 DEF IInv, CommittedIsDurable
<1>15. RetryStartsClean'
  <2> SUFFICES ASSUME NEW o \in Ops, There(o), rows'[o] = NoDoc, o \notin debris
               PROVE  \E v \in Savers : Op(v)' = o /\ pc'[v] \in Publishing \cup Cleaning
    BY <1>1 DEF RetryStartsClean, There
  <2>1. o # Op(s) /\ rows[o] = NoDoc
    BY <1>6, <1>8
  <2>2. PICK v \in Savers : Op(v) = o /\ pc[v] \in Publishing \cup Cleaning
    BY <1>3, <2>1 DEF IInv, RetryStartsClean
  <2> QED
    BY <1>3, <2>1, <2>2 DEF Publishing, Cleaning
<1> QED
  BY <1>9, <1>10, <1>11, <1>12, <1>13, <1>14, <1>15 DEF IInv

(* A first answer and a replay return the document of the committed row.   *)
LEMMA AnswerStep == ASSUME NEW s \in Savers, IInv, Answer(s) \/ Replay(s) PROVE IInv'
<1> USE NoSaverAssumption, NoConnAssumption
<1>1. /\ pc[s] \in {"answer", "replay"} /\ pc' = [pc EXCEPT ![s] = "release"]
      /\ \/ answered' = answered
         \/ answered' = [answered EXCEPT ![Op(s)] = @ \cup {dirs[Op(s)].doc}]
      /\ UNCHANGED <<startup, service, files, saving, writing, job, seen, data>>
  BY DEF Answer, Replay, Goto
<1>2. pc[s] \in Working
  BY <1>1 DEF Working, Steps, Early
<1>3. /\ phase = "up" /\ saving = s /\ Op(s) \in Ops
      /\ \A v \in Savers \ {s} : pc[v] \in {"idle", "lock"}
  BY <1>2, AloneUnderSaveLock
<1>4. /\ phase' = phase /\ swept' = swept /\ live' = live /\ conns' = conns
      /\ unclosed' = unclosed /\ rows' = rows /\ dirs' = dirs /\ debris' = debris
  BY <1>1 DEF startup, service, files
<1>5. SaverOK(s)
  BY DEF IInv
<1>6. rows[Op(s)] # NoDoc /\ dirs[Op(s)].doc = rows[Op(s)] /\ rows[Op(s)] \in Doc
  <2>1. rows[Op(s)] # NoDoc
    <3>1. CASE pc[s] = "replay"
      BY <1>5, <3>1 DEF SaverOK, RowAt
    <3>2. CASE pc[s] = "answer"
      <4>1. /\ seen[s] \in Conns /\ rows[Op(s)] = Document(s)
        BY <1>5, <3>2 DEF SaverOK, RowAt, SeenAt
      <4> QED
        BY <4>1 DEF Document, NoDoc
    <3> QED
      BY <1>1, <3>1, <3>2
  <2> QED
    BY <1>3, <2>1 DEF IInv, TypeOK, CommittedIsDurable
<1>7. TypeOK'
  BY <1>1, <1>3, <1>4, <1>6 DEF IInv, TypeOK, Steps
<1>8. SaverOK(s)'
  BY <1>1, <1>3, <1>4, <1>5
     DEF IInv, TypeOK, SaverOK, LocksAt, SeenAt, RowAt, DirAt, Op, Document, Session,
         Working, Committing, Steps, Early, Publishing, Cleaning
<1>9. \A v \in Savers \ {s} : pc'[v] = pc[v] /\ job'[v] = job[v]
  BY <1>1 DEF IInv, TypeOK
<1>10. \A v \in Savers \ {s} : SaverOK(v)'
  BY <1>1, <1>2, <1>3, <1>4, <1>9, OthersWait
<1>11. SessionsFromConnect' /\ SyncedInOrder' /\ StartupOK' /\ OpenRowsAreLive'
       /\ FiledUnderItsConnection'
  BY <1>3, <1>4
     DEF IInv, SessionsFromConnect, SyncedInOrder, StartupOK, There, OpenRowsAreLive, Session,
         FiledUnderItsConnection
<1>12. CommittedIsDurable'
  <2>1. \A o \in Ops : answered'[o] \subseteq {rows[o]}
    BY <1>1, <1>3, <1>6 DEF IInv, TypeOK, CommittedIsDurable
  <2> QED
    BY <1>4, <2>1 DEF IInv, CommittedIsDurable
<1>13. RetryStartsClean'
  <2>1. \A v \in Savers : pc[v] \in Publishing \cup Cleaning =>
                            pc'[v] = pc[v] /\ job'[v] = job[v]
    BY <1>1, <1>9 DEF Publishing, Cleaning
  <2> QED
    BY <1>4, <2>1 DEF IInv, RetryStartsClean, There, Op
<1> QED
  BY <1>7, <1>8, <1>10, <1>11, <1>12, <1>13 DEF IInv
--------------------------------------------------------------------------------
(* Death and startup. *)

(* Whatever a crash or a power cut leaves of the directories: committed    *)
(* evidence, synced, survives either.                                      *)
LEMMA DeathStep == ASSUME IInv, Crash \/ PowerCut PROVE IInv'
<1> USE NoSaverAssumption, NoConnAssumption
<1>1. /\ phase' = "reconcile" /\ swept' = {} /\ live' = NoConn
      /\ saving' = NoSaver /\ writing' = NoSaver
      /\ pc' = [s \in Savers |-> "idle"] /\ job' = [s \in Savers |-> NoJob]
      /\ seen' = [s \in Savers |-> NoConn] /\ data' = [s \in Savers |-> NoConn]
      /\ debris' = debris \cup {o \in Ops : dirs'[o].at = "torn"}
      /\ UNCHANGED <<conns, rows, answered, unclosed>>
  BY DEF Crash, PowerCut, ProcessDies
<1>2. \A o \in Ops : dirs'[o] = dirs[o] \/ dirs'[o] \in Survivors(dirs[o])
  BY DEF Crash, PowerCut
<1>3. ASSUME NEW o \in Ops
      PROVE  /\ dirs'[o] \in Dir
             /\ dirs[o].at = "final" /\ dirs[o].synced = "name" => dirs'[o] = dirs[o]
             /\ dirs'[o].at \in {"final", "torn", "removed"} => dirs'[o].synced # "no"
             /\ dirs'[o].synced # "no" => dirs'[o].doc # NoDoc
  <2>1. /\ dirs[o] \in Dir
        /\ dirs[o].at \in {"final", "torn", "removed"} => dirs[o].synced # "no"
        /\ dirs[o].synced # "no" => dirs[o].doc # NoDoc
    BY DEF IInv, TypeOK, SyncedInOrder
  <2>2. \/ dirs'[o] = dirs[o]
        \/ (dirs[o].at = "removed" \/ dirs[o].synced # "name") /\ dirs'[o] = NoDir
        \/ /\ dirs[o].at \in {"torn", "removed"}
           /\ \E a \in {"torn", "final"} : dirs'[o] = [dirs[o] EXCEPT !.at = a]
        \/ dirs[o].synced = "files" /\ dirs'[o] = [dirs[o] EXCEPT !.at = "partial"]
        \/ dirs[o].at # "none" /\ dirs[o].synced = "no" /\ dirs'[o] = [dirs[o] EXCEPT !.doc = NoDoc]
    BY <1>2, <2>1 DEF Survivors, Dir
  <2> QED
    BY <2>1, <2>2 DEF Dir, NoDir
<1>4. dirs' \in [Ops -> Dir]
  <2>1. \E after : dirs' = [o \in Ops |-> after[o]]
    BY DEF Crash, PowerCut, IInv, TypeOK
  <2> QED
    BY <1>3, <2>1
<1>5. TypeOK'
  BY <1>1, <1>4 DEF IInv, TypeOK, Steps
<1>6. \A s \in Savers : SaverOK(s)'
  BY <1>1 DEF SaverOK, LocksAt, SeenAt, RowAt, DirAt, Working, Committing, Steps,
              Early, Publishing, Cleaning
<1>7. SessionsFromConnect' /\ SyncedInOrder' /\ StartupOK'
  BY <1>1, <1>3 DEF IInv, SessionsFromConnect, SyncedInOrder, StartupOK, Session
<1>8. FiledUnderItsConnection' /\ RetryStartsClean' /\ OpenRowsAreLive'
  BY <1>1 DEF IInv, FiledUnderItsConnection, RetryStartsClean, OpenRowsAreLive, Session
<1>9. CommittedIsDurable'
  BY <1>1, <1>3 DEF IInv, CommittedIsDurable
<1> QED
  BY <1>5, <1>6, <1>7, <1>8, <1>9 DEF IInv

(* No saver is disturbed while the service starts: none is running.        *)
LEMMA StartupUndisturbed ==
  ASSUME IInv, phase # "up", UNCHANGED <<saving, writing, pc>>
  PROVE  \A s \in Savers : SaverOK(s)'
<1> SUFFICES ASSUME NEW s \in Savers PROVE SaverOK(s)'
  OBVIOUS
<1>1. pc'[s] = "idle" /\ saving' # s /\ writing' # s
  BY DEF IInv, SaverOK, LocksAt, Working, Committing
<1> QED
  BY <1>1 DEF SaverOK, LocksAt, SeenAt, RowAt, DirAt, Working, Committing, Steps,
              Early, Publishing, Cleaning

LEMMA ReconcileStep == ASSUME IInv, Reconcile PROVE IInv'
<1>1. /\ phase = "reconcile" /\ phase' = "sweep" /\ swept = {}
      /\ conns' = [c \in Conns |-> IF conns[c].status = "connected"
                                     THEN [conns[c] EXCEPT !.status = "error"] ELSE conns[c]]
      /\ swept' = swept /\ rows' = rows /\ dirs' = dirs /\ debris' = debris
      /\ UNCHANGED <<live, unclosed, saving, writing, pc, job, seen, data, answered>>
  BY DEF Reconcile, files, IInv, StartupOK
<1>2. \A c \in Conns : /\ conns'[c] \in Conn /\ conns'[c].session = conns[c].session
                       /\ conns'[c].status # "connected"
                       /\ conns'[c].status = "none" => conns[c].status = "none"
  BY <1>1 DEF IInv, TypeOK, Conn
<1>3. TypeOK'
  BY <1>1, <1>2 DEF IInv, TypeOK
<1>4. \A s \in Savers : SaverOK(s)'
  BY <1>1, StartupUndisturbed
<1>5. SessionsFromConnect' /\ SyncedInOrder' /\ StartupOK' /\ OpenRowsAreLive'
  BY <1>1, <1>2
     DEF IInv, SessionsFromConnect, SyncedInOrder, StartupOK, There, OpenRowsAreLive, Session
<1>6. FiledUnderItsConnection'
  BY <1>1, <1>2 DEF IInv, TypeOK, Doc, FiledUnderItsConnection, Session
<1>7. CommittedIsDurable' /\ RetryStartsClean'
  BY <1>1 DEF IInv, CommittedIsDurable, RetryStartsClean
<1> QED
  BY <1>3, <1>4, <1>5, <1>6, <1>7 DEF IInv

(* A directory is removed at startup only if no row speaks of it.          *)
LEMMA SweepStep == ASSUME NEW o \in Ops, IInv, Sweep(o) PROVE IInv'
<1>1. /\ phase = "sweep" /\ phase' = phase /\ swept' = swept \cup {o}
      /\ live' = live /\ conns' = conns /\ unclosed' = unclosed /\ rows' = rows
      /\ UNCHANGED <<saving, writing, pc, job, seen, data, answered>>
  BY DEF Sweep, service
<1>2. /\ dirs[o] \in Dir
      /\ rows[o] # NoDoc => dirs[o].at = "final"
      /\ dirs[o].at = "torn" => o \in debris
  BY <1>1 DEF IInv, TypeOK, CommittedIsDurable, StartupOK
<1>3. \/ dirs' = [dirs EXCEPT ![o] = NoDir] /\ rows[o] = NoDoc /\ debris' = debris
      \/ dirs' = dirs /\ debris' = debris \cup {o}
      \/ dirs' = dirs /\ debris' = debris /\ (There(o) /\ rows[o] = NoDoc => o \in debris)
  BY <1>2 DEF Sweep, RemoveTree, Dir, There
<1>4. TypeOK'
  BY <1>1, <1>3 DEF IInv, TypeOK, Dir, NoDir
<1>5. \A s \in Savers : SaverOK(s)'
  BY <1>1, StartupUndisturbed
<1>6. SessionsFromConnect' /\ FiledUnderItsConnection' /\ RetryStartsClean' /\ OpenRowsAreLive'
  BY <1>1 DEF IInv, SessionsFromConnect, FiledUnderItsConnection, RetryStartsClean,
              OpenRowsAreLive, Session
<1>7. \A q \in Ops : \/ dirs'[q] = dirs[q]
                     \/ q = o /\ rows[o] = NoDoc /\ dirs'[q] = NoDir
  BY <1>3 DEF IInv, TypeOK
<1>8. SyncedInOrder' /\ CommittedIsDurable'
  BY <1>1, <1>7 DEF IInv, SyncedInOrder, CommittedIsDurable, NoDir
<1>9. StartupOK'
  <2>1. ASSUME NEW q \in swept', There(q)', rows[q] = NoDoc PROVE q \in debris'
    BY <1>1, <1>3, <1>7, <2>1 DEF IInv, TypeOK, StartupOK, NoDir, There
  <2>2. \A q \in Ops : dirs'[q].at = "torn" => q \in debris'
    BY <1>1, <1>3, <1>7 DEF IInv, StartupOK, NoDir
  <2> QED
    BY <1>1, <2>1, <2>2 DEF IInv, StartupOK
<1> QED
  BY <1>4, <1>5, <1>6, <1>8, <1>9 DEF IInv

LEMMA BootStep == ASSUME IInv, Boot PROVE IInv'
<1>1. /\ phase = "sweep" /\ swept = Ops /\ phase' = "up" /\ swept' = swept
      /\ live' = live /\ conns' = conns /\ unclosed' = unclosed
      /\ rows' = rows /\ dirs' = dirs /\ debris' = debris
      /\ UNCHANGED <<saving, writing, pc, job, seen, data, answered>>
  BY DEF Boot, service, files
<1>2. TypeOK'
  BY <1>1 DEF IInv, TypeOK
<1>3. \A s \in Savers : SaverOK(s)'
  BY <1>1, StartupUndisturbed
<1>4. SessionsFromConnect' /\ SyncedInOrder' /\ StartupOK' /\ OpenRowsAreLive'
  BY <1>1 DEF IInv, SessionsFromConnect, SyncedInOrder, StartupOK, There, OpenRowsAreLive, Session
<1>5. FiledUnderItsConnection' /\ CommittedIsDurable' /\ RetryStartsClean'
  BY <1>1 DEF IInv, FiledUnderItsConnection, CommittedIsDurable, RetryStartsClean, StartupOK,
              There, Session
<1> QED
  BY <1>2, <1>3, <1>4, <1>5 DEF IInv
--------------------------------------------------------------------------------
(* The inductive invariant holds in every reachable state. *)
THEOREM Invariance == Spec => []IInv
<1>1. IInv /\ [Next]_vars => IInv'
  <2> SUFFICES ASSUME IInv, [Next]_vars PROVE IInv'
    OBVIOUS
  <2>1. CASE UNCHANGED vars
    BY <2>1 DEF vars, IInv, TypeOK, SaverOK, LocksAt, SeenAt, RowAt, DirAt, Op, Document, Session,
                SessionsFromConnect, SyncedInOrder, StartupOK, FiledUnderItsConnection,
                CommittedIsDurable, RetryStartsClean, There, OpenRowsAreLive
  <2>2. ASSUME NEW s \in Savers,
               \/ Request(s) \/ Lock(s) \/ Save(s)
               \/ FailEarly(s) \/ Fail(s) \/ CleanupFails(s)
        PROVE  IInv'
    BY <2>2, RequestStep, LockStep, ThinkingStep, DirectoryStep, CommitStep, AnswerStep
       DEF Save, Thinks, HandlesFiles
  <2> QED
    BY <2>1, <2>2, ConnectStep, DisconnectStep, DeathStep, ReconcileStep, BootStep, SweepStep
       DEF Next
<1> QED
  BY <1>1, InitIInv, PTL DEF Spec

(* Every variable keeps its type. *)
THEOREM TypeCorrect == Spec => []TypeOK
<1>1. IInv => TypeOK
  BY DEF IInv
<1> QED
  BY <1>1, Invariance, PTL

(* save's second status is enough: however connects and disconnects fall   *)
(* between the two, evidence is filed under the connection it was read     *)
(* through, because the id of a connection that is gone is not used again. *)
THEOREM FiledCorrectly == Spec => []FiledUnderItsConnection
<1>1. IInv => FiledUnderItsConnection
  BY DEF IInv
<1> QED
  BY <1>1, Invariance, PTL

(* A committed row has its synced directory with the row's document after  *)
(* any crash or power cut, and nobody is ever answered with another.       *)
THEOREM CommitsAreDurable == Spec => []CommittedIsDurable
<1>1. IInv => CommittedIsDurable
  BY DEF IInv
<1> QED
  BY <1>1, Invariance, PTL

(* A retry finds nothing of an earlier attempt, unless its cleanup failed, *)
(* or the process died in the cleanup once the manifest was unlinked: only *)
(* then does startup pass over what an earlier process left.               *)
THEOREM RetriesStartClean == Spec => []RetryStartsClean
<1>1. IInv => RetryStartsClean
  BY DEF IInv
<1> QED
  BY <1>1, Invariance, PTL

(* An open connection row is the service's own or one disconnect failed to *)
(* close, and restarts leave none.                                         *)
THEOREM OpenRowsAreKnown == Spec => []OpenRowsAreLive
<1>1. IInv => OpenRowsAreLive
  BY DEF IInv
<1> QED
  BY <1>1, Invariance, PTL
--------------------------------------------------------------------------------
(* Readers notice a step only if it commits a row. *)
LEMMA OnlyCommitWrites ==
  ASSUME Next
  PROVE  rows' = rows \/ \E s \in Savers : Commit(s)
<1>1. ASSUME NEW s \in Savers, Save(s) PROVE rows' = rows \/ Commit(s)
  BY <1>1 DEF Save, Look, Replay, Status, Read, Recheck, Mkdir, Write, CheckOwner, Insert,
              SyncFiles, Rename, SyncName, Answer, Release, RemovePartial, RemoveFinal,
              RemoveDir, SyncRemoval, files
<1>2. ASSUME NEW s \in Savers,
             Request(s) \/ Lock(s) \/ FailEarly(s) \/ Fail(s) \/ CleanupFails(s)
      PROVE  rows' = rows
  BY <1>2 DEF Request, Lock, FailEarly, Fail, CleanupFails, files
<1>3. ASSUME \/ Connect \/ Disconnect \/ Crash \/ PowerCut \/ Reconcile \/ Boot
             \/ \E o \in Ops : Sweep(o)
      PROVE  rows' = rows
  BY <1>3 DEF Connect, Disconnect, Crash, PowerCut, ProcessDies, Reconcile, Boot, Sweep, files
<1> QED
  BY <1>1, <1>2, <1>3 DEF Next

(* No step, power cuts included, changes or removes committed evidence:    *)
(* neither its row nor its directory.                                      *)
THEOREM CommittedForever ==
  Spec => [][\A o \in Ops : rows[o] # NoDoc => rows'[o] = rows[o] /\ dirs'[o] = dirs[o]]_vars
<1> DEFINE Kept == \A o \in Ops : rows[o] # NoDoc => rows'[o] = rows[o] /\ dirs'[o] = dirs[o]
<1>1. IInv /\ IInv' /\ [Next]_vars => [Kept]_vars
  <2> SUFFICES ASSUME IInv, IInv', Next, NEW o \in Ops, rows[o] # NoDoc
               PROVE  rows'[o] = rows[o] /\ dirs'[o] = dirs[o]
    OBVIOUS
  <2>1. rows'[o] = rows[o]
    <3>1. ASSUME NEW s \in Savers, Commit(s) PROVE rows'[o] = rows[o]
      <4>1. Op(s) \in Ops /\ rows[Op(s)] = NoDoc /\ rows' = [rows EXCEPT ![Op(s)] = Document(s)]
        BY <3>1, AloneUnderSaveLock
           DEF Commit, IInv, SaverOK, RowAt, Working, Steps, Publishing
      <4> QED
        BY <4>1 DEF IInv, TypeOK
    <3> QED
      BY <3>1, OnlyCommitWrites
  <2>2. /\ dirs[o] = [at |-> "final", doc |-> rows[o], synced |-> "name"]
        /\ dirs'[o] = [at |-> "final", doc |-> rows'[o], synced |-> "name"]
    BY <2>1 DEF IInv, CommittedIsDurable
  <2> QED
    BY <2>1, <2>2
<1> QED
  BY <1>1, Invariance, PTL DEF Spec

(* What readers obtain is decided by the row alone. *)
LEMMA RowDecides ==
  ASSUME IInv, NEW o \in Ops, rows[o] # NoDoc
  PROVE  dirs[o].at = "final" /\ dirs[o].doc # NoDoc
<1>1. dirs[o] = [at |-> "final", doc |-> rows[o], synced |-> "name"]
  BY DEF IInv, CommittedIsDurable
<1> QED
  BY <1>1

(* The lane implements the evidence store without loss: a commit publishes *)
(* its run whole, and no crash or power cut takes a file away.             *)
THEOREM LaneImplementsStore == Spec => ImplementsStore
<1> DEFINE published == {o \in Ops : rows[o] # NoDoc}
           offered == [o \in Ops |->
                         IF rows[o] # NoDoc /\ dirs[o].at = "final" /\ dirs[o].doc # NoDoc
                           THEN Files ELSE {}]
<1>1. Init => Store!Init
  BY DEF Init, Store!Init
<1>2. IInv /\ IInv' /\ [Next]_vars => [Store!Next]_(Store!vars)
  <2> SUFFICES ASSUME IInv, IInv', [Next]_vars
               PROVE  Store!Next \/ UNCHANGED Store!vars
    BY DEF Store!vars
  <2>1. offered = [o \in Ops |-> IF rows[o] # NoDoc THEN Files ELSE {}]
    BY RowDecides
  <2>2. offered' = [o \in Ops |-> IF rows'[o] # NoDoc THEN Files ELSE {}]
    <3>1. ASSUME NEW o \in Ops, rows'[o] # NoDoc
          PROVE  dirs'[o].at = "final" /\ dirs'[o].doc # NoDoc
      <4>1. dirs'[o] = [at |-> "final", doc |-> rows'[o], synced |-> "name"]
        BY <3>1 DEF IInv, CommittedIsDurable
      <4> QED
        BY <3>1, <4>1
    <3> QED
      BY <3>1
  <2>3. CASE rows' = rows
    <3>1. published' = published /\ offered' = offered
      BY <2>1, <2>2, <2>3
    <3> QED
      BY <3>1 DEF Store!vars
  <2>4. ASSUME NEW s \in Savers, Commit(s) PROVE Store!Next
    <3>1. Op(s) \in Ops /\ rows[Op(s)] = NoDoc
      BY <2>4, AloneUnderSaveLock
         DEF Commit, IInv, SaverOK, RowAt, Working, Steps, Publishing
    <3>2. rows'[Op(s)] # NoDoc /\ \A o \in Ops \ {Op(s)} : rows'[o] = rows[o]
      <4>1. seen[s] \in Conns /\ rows' = [rows EXCEPT ![Op(s)] = Document(s)]
        BY <2>4 DEF Commit, IInv, SaverOK, SeenAt, Publishing
      <4>2. Document(s) # NoDoc
        BY <4>1, NoConnAssumption DEF Document, NoDoc
      <4> QED
        BY <3>1, <4>1, <4>2 DEF IInv, TypeOK
    <3>3. published' = published \cup {Op(s)} /\ Op(s) \notin published
      BY <3>1, <3>2
    <3>4. offered' = [offered EXCEPT ![Op(s)] = Files]
      <4>1. \A o \in Ops : offered'[o] = IF o = Op(s) THEN Files ELSE offered[o]
        BY <2>1, <2>2, <3>1, <3>2
      <4>2. offered' = [o \in Ops |-> offered'[o]] /\ offered = [o \in Ops |-> offered[o]]
        BY <2>1, <2>2
      <4> HIDE DEF offered
      <4> QED
        BY <3>1, <4>1, <4>2
    <3> QED
      BY <3>1, <3>3, <3>4 DEF Store!Next, Store!Publish
  <2>5. CASE UNCHANGED vars
    BY <2>3, <2>5 DEF vars
  <2> QED
    BY <2>3, <2>4, <2>5, OnlyCommitWrites
<1> QED
  BY <1>1, <1>2, Invariance, PTL DEF Spec, ImplementsStore, Store!Spec
================================================================================
