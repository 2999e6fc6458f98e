----------------------------- MODULE EvidenceRecords -----------------------------
(***************************************************************************)
(* The evidence database's own rules (database.py): its migration at       *)
(* start-up, and the records around the captures: customers, vehicles,     *)
(* diagnostic sessions, OBD connections, fault snapshots and the audit of  *)
(* fault clearing.  Requests run in threads, each on a connection of its   *)
(* own; SQLite lets one of them write at a time and commits all of a       *)
(* transaction or nothing.  The service may die at any point.              *)
(*                                                                         *)
(* The last two kinds of record are written through the database's own     *)
(* interface: the application refuses to clear faults.                     *)
(***************************************************************************)
EXTENDS Integers, Sequences, FiniteSets, SequencesExt

CONSTANTS Threads,     \* request threads
          Nobody,      \* not a thread, no way to write a VIN
          Forms,       \* ways VINs are written
          Vins,        \* VINs as the database normalises them
          Normal,      \* the VIN each form stands for: upper(trim(...))
          OldFleets    \* the vehicles an earlier release may have left

ASSUME RecordsAssumption ==
  /\ Nobody \notin Threads \cup Forms \cup {"start"} /\ "start" \notin Threads
  /\ Vins \subseteq Forms
  /\ Normal \in [Forms -> Vins] /\ \A v \in Vins : Normal[v] = v
  /\ \A fleet \in OldFleets : fleet \in Seq(Forms \cup {Nobody})

(* Bounds of the instances TLC checks. *)
CONSTANTS MaxVehicles, MaxSessions, MaxConnections, MaxSnapshots, MaxClears

Current == 2     \* SCHEMA_VERSION

VARIABLES
  disk,       \* the committed database
  work,       \* the writer's transaction
  writer,     \* who writes: a thread, "start" or Nobody
  service,    \* "down" or a step of initialize, or "up"
  pc, asked   \* each thread's step and what it was asked for

vars == <<disk, work, writer, service, pc, asked>>
--------------------------------------------------------------------------------
(* The schema's parts, each created as a whole by one statement or a few.  *)

Baseline == <<"assets", "cases", "sessions", "captures">>
Additions == <<"customers", "case customer", "vin index", "obd", "clear triggers">>
AllParts == Range(Baseline) \cup Range(Additions)

Empty == [version |-> 0, parts |-> {}, vehicles |-> <<>>, customers |-> 0, cases |-> <<>>,
          sessions |-> <<>>, connections |-> <<>>, snapshots |-> <<>>, clears |-> <<>>,
          orphans |-> FALSE]

(* What an earlier release left: any vehicles, and perhaps a row whose     *)
(* reference leads nowhere.                                                *)
Legacy ==
  {[Empty EXCEPT !.version = 1, !.parts = Range(Baseline), !.vehicles = vehicles,
                 !.orphans = orphans] :
     vehicles \in OldFleets, orphans \in BOOLEAN}

Init ==
  /\ disk \in {Empty} \cup Legacy
  /\ work = Empty /\ writer = Nobody /\ service = "down"
  /\ pc = [t \in Threads |-> "idle"] /\ asked = [t \in Threads |-> Nobody]

Same(vehicles, vin) == {i \in DOMAIN vehicles : vehicles[i] # Nobody /\ Normal[vehicles[i]] = vin}

Duplicates(vehicles) ==
  \E i \in DOMAIN vehicles : vehicles[i] # Nobody /\ Same(vehicles, Normal[vehicles[i]]) # {i}

Begin(who) == writer' = who /\ work' = disk
Rollback == writer' = Nobody /\ work' = Empty
Commit == disk' = work /\ writer' = Nobody /\ work' = Empty

(* The service dies: the transaction is gone, what was committed stays.    *)
Crash ==
  /\ service # "down"
  /\ service' = "down"
  /\ Rollback
  /\ pc' = [t \in Threads |-> "idle"] /\ asked' = [t \in Threads |-> Nobody]
  /\ UNCHANGED disk

(* docs/obd-activation-rollback.md:11: the release before this one writes  *)
(* its version number into whatever database it is started on.             *)
OldRelease ==
  /\ service = "down" /\ disk.version # 1
  /\ disk' = [disk EXCEPT !.version = 1, !.parts = @ \cup Range(Baseline)]
  /\ UNCHANGED <<work, writer, service, pc, asked>>
--------------------------------------------------------------------------------
(* EvidenceDatabase.initialize *)

requests == <<pc, asked>>

(* It refuses a database it cannot be sure about, and one whose vehicles   *)
(* the VIN index would not accept; otherwise it migrates what is old.      *)
Start ==
  /\ service = "down"
  /\ ~(disk.version = 0 /\ disk.parts # {})
  /\ ~(disk.version = 1 /\ Duplicates(disk.vehicles))
  /\ service' = IF disk.version < Current THEN "begin" ELSE "check"
  /\ UNCHANGED <<disk, work, writer, requests>>

(* The script creates one part after another: all of them, or what a       *)
(* version 1 database lacks.                                               *)
Script(version) == IF version = 0 THEN Baseline \o Additions ELSE Additions

(* The places in the script of the parts a database still lacks.           *)
Missing(script, db) == {i \in DOMAIN script : script[i] \notin db.parts}

(* The database with the first of them; none if nothing is missing.        *)
WithNext(script, db) ==
  {[db EXCEPT !.parts = @ \cup {script[i]}] :
     i \in {i \in Missing(script, db) : \A j \in Missing(script, db) : i <= j}}

(* Mutant: the script runs without a transaction; every statement is       *)
(* committed at once.                                                      *)
MigrateUnprotected ==
  /\ service \in {"begin", "migrate"}
  /\ \/ /\ Missing(Script(disk.version), disk) = {}
        /\ disk' = [disk EXCEPT !.version = Current] /\ service' = "check"
     \/ disk' \in WithNext(Script(disk.version), disk) /\ service' = "migrate"
  /\ UNCHANGED <<work, writer, requests>>

(* The script takes the write lock and runs; the version number is written *)
(* in the same transaction.                                                *)
Migrate ==
  \/ /\ service = "begin"
     /\ Begin("start") /\ service' = "migrate"
     /\ UNCHANGED <<disk, requests>>
  \/ /\ service = "migrate"
     /\ \/ /\ Missing(Script(disk.version), work) = {}
           /\ work' = [work EXCEPT !.version = Current] /\ service' = "check"
        \/ work' \in WithNext(Script(disk.version), work) /\ UNCHANGED service
     /\ UNCHANGED <<disk, writer, requests>>

(* Mutant: connections left open are deleted.                              *)
ReconciledAway(db) ==
  [db EXCEPT !.connections = SelectSeq(@, LAMBDA c : ~c.open)]

(* Connections left open by the last run have ended. *)
Reconciled(db) ==
  [db EXCEPT !.connections = [i \in DOMAIN @ |-> [@[i] EXCEPT !.open = FALSE]]]

(* The foreign-key check, the reconciliation and the commit; an error      *)
(* undoes the migration.                                                   *)
Check ==
  LET db == IF writer = "start" THEN work ELSE disk
  IN  /\ service = "check"
      /\ Rollback
      /\ IF db.orphans THEN service' = "down" /\ UNCHANGED disk
         ELSE service' = "up" /\ disk' = Reconciled(db)
      /\ UNCHANGED requests
--------------------------------------------------------------------------------
(* Requests.  Each looks up what it needs, and then writes in a            *)
(* transaction of its own, which begins at its first INSERT.               *)

Goto(t, step) == pc' = [pc EXCEPT ![t] = step]

(* record_obd_clear_event: the connection and the snapshot before are the  *)
(* session's own.                                                          *)
Lineage(db, a) ==
  /\ a.connection \in DOMAIN db.connections
  /\ db.connections[a.connection].session = a.session
  /\ a.before # 0 => /\ a.before \in DOMAIN db.snapshots
                     /\ db.snapshots[a.before].session = a.session
                     /\ db.snapshots[a.before].connection = a.connection

(* What a request looks up before it writes; session 0 is none. *)
Allowed(db, a) ==
  CASE a.kind = "customer" -> TRUE
    [] a.kind = "vehicle" -> a.vin = Nobody \/ Same(db.vehicles, a.vin) = {}
    [] a.kind = "session" -> a.customer <= db.customers /\ a.vehicle \in DOMAIN db.vehicles
    [] a.kind = "connection" -> a.session = 0 \/ a.session \in DOMAIN db.sessions
    [] a.kind = "snapshot" -> TRUE
    [] a.kind = "clear" -> Lineage(db, a)

(* A request that passes its look-ups goes on to write; another ends.      *)
Ask(t, what) ==
  /\ service = "up" /\ pc[t] = "idle"
  /\ Allowed(disk, what)
  /\ Goto(t, "insert") /\ asked' = [asked EXCEPT ![t] = what]
  /\ UNCHANGED <<disk, work, writer, service>>

AskCustomer(t) == Ask(t, [kind |-> "customer"])

(* The VIN is normalised; a blank one is none. *)
AskVehicle(t, form) ==
  Ask(t, [kind |-> "vehicle", vin |-> IF form = Nobody THEN Nobody ELSE Normal[form]])

AskSession(t, vehicle) == Ask(t, [kind |-> "session", customer |-> 1, vehicle |-> vehicle])

AskConnection(t, session) == Ask(t, [kind |-> "connection", session |-> session])

AskSnapshot(t, session, connection) ==
  Ask(t, [kind |-> "snapshot", session |-> session, connection |-> connection])

AskClear(t, session, connection, before) ==
  Ask(t, [kind |-> "clear", session |-> session, connection |-> connection, before |-> before])

(* What the schema itself requires of a row: the VIN index, references     *)
(* that lead somewhere.                                                    *)
Accepts(db, a) ==
  CASE a.kind = "vehicle" -> a.vin = Nobody \/ Same(db.vehicles, a.vin) = {}
    [] a.kind = "snapshot" -> /\ a.session \in {0} \cup DOMAIN db.sessions
                              /\ a.connection \in DOMAIN db.connections
    [] OTHER -> TRUE

(* The rows a request adds, by statement. *)
Row(db, a) ==
  CASE a.kind = "customer" -> [db EXCEPT !.customers = @ + 1]
    [] a.kind = "vehicle" -> [db EXCEPT !.vehicles = Append(@, a.vin)]
    [] a.kind = "session" ->
         [db EXCEPT !.cases = Append(@, [customer |-> a.customer, vehicle |-> a.vehicle])]
    [] a.kind = "connection" ->
         [db EXCEPT !.connections = Append(@, [session |-> a.session, open |-> TRUE])]
    [] a.kind = "snapshot" ->
         [db EXCEPT !.snapshots =
            Append(@, [session |-> a.session, connection |-> a.connection])]
    [] a.kind = "clear" ->
         [db EXCEPT !.clears =
            Append(@, [session |-> a.session, connection |-> a.connection, before |-> a.before])]

(* The instance's bounds. *)
Within(db) ==
  /\ db.customers <= 1 /\ Len(db.vehicles) <= MaxVehicles /\ Len(db.cases) <= MaxSessions
  /\ Len(db.connections) <= MaxConnections
  /\ Len(db.snapshots) <= MaxSnapshots /\ Len(db.clears) <= MaxClears

Refuse(t) == Goto(t, "idle") /\ asked' = [asked EXCEPT ![t] = Nobody]

(* The first INSERT takes the write lock; a row the schema refuses is an   *)
(* error, which rolls back and closes the connection.                      *)
Insert(t) ==
  /\ pc[t] = "insert" /\ writer = Nobody
  /\ Within(Row(disk, asked[t]))
  /\ IF Accepts(disk, asked[t])
       THEN /\ writer' = t /\ work' = Row(disk, asked[t])
            /\ Goto(t, IF asked[t].kind = "session" THEN "insert session" ELSE "commit")
            /\ UNCHANGED asked
       ELSE Refuse(t) /\ UNCHANGED <<work, writer>>
  /\ UNCHANGED <<disk, service>>

(* A diagnostic session is a case and a session. *)
InsertSession(t) ==
  /\ pc[t] = "insert session"
  /\ work' = [work EXCEPT !.sessions = Append(@, Len(work.cases))]
  /\ Goto(t, "commit")
  /\ UNCHANGED <<disk, writer, service, asked>>

Finish(t) ==
  /\ pc[t] = "commit"
  /\ Commit
  /\ Refuse(t)
  /\ UNCHANGED service

(* Mutant: an error leaves the transaction open.                           *)
FailOpen(t) ==
  /\ pc[t] \in {"insert", "insert session", "commit"}
  /\ Refuse(t)
  /\ UNCHANGED <<disk, work, writer, service>>

(* _connect: a statement fails, or waits too long for the lock.            *)
Fail(t) ==
  /\ pc[t] \in {"insert", "insert session", "commit"}
  /\ IF writer = t THEN Rollback ELSE UNCHANGED <<work, writer>>
  /\ Refuse(t)
  /\ UNCHANGED <<disk, service>>

(* close_obd_connection, "closed" or "error": of one that is still open.   *)
Close(t, c) ==
  /\ service = "up" /\ pc[t] = "idle" /\ writer = Nobody
  /\ disk.connections[c].open
  /\ disk' = [disk EXCEPT !.connections[c].open = FALSE]
  /\ UNCHANGED <<work, writer, service, requests>>
--------------------------------------------------------------------------------
Asks(t) ==
  \/ AskCustomer(t)
  \/ \E form \in Forms \cup {Nobody} : AskVehicle(t, form)
  \/ \E v \in DOMAIN disk.vehicles : AskSession(t, v)
  \/ \E s \in {0} \cup DOMAIN disk.sessions : AskConnection(t, s)
  \/ \E s \in DOMAIN disk.sessions, c \in DOMAIN disk.connections :
       \/ AskSnapshot(t, s, c)
       \/ \E before \in {0} \cup DOMAIN disk.snapshots : AskClear(t, s, c, before)

Serve(t) == Insert(t) \/ InsertSession(t) \/ Finish(t)

Next ==
  \/ Start \/ Migrate \/ Check \/ Crash \/ OldRelease
  \/ \E t \in Threads : Asks(t) \/ Serve(t) \/ Fail(t)
  \/ \E t \in Threads : \E c \in DOMAIN disk.connections : Close(t, c)

Spec == Init /\ [][Next]_vars
--------------------------------------------------------------------------------
(* What a table may hold, whatever the rules say; session 0 is none.       *)
Databases ==
  [version : 0..Current, parts : SUBSET AllParts,
   vehicles : Seq(Forms \cup {Nobody}), customers : Nat,
   cases : Seq([customer : Nat, vehicle : Nat]), sessions : Seq(Nat),
   connections : Seq([session : Nat, open : BOOLEAN]),
   snapshots : Seq([session : Nat, connection : Nat]),
   clears : Seq([session : Nat, connection : Nat, before : Nat]), orphans : BOOLEAN]

(* What a thread may be asked for. *)
Requests ==
  [kind : {"customer"}]
  \cup [kind : {"vehicle"}, vin : Vins \cup {Nobody}]
  \cup [kind : {"session"}, customer : Nat, vehicle : Nat]
  \cup [kind : {"connection"}, session : Nat]
  \cup [kind : {"snapshot"}, session : Nat, connection : Nat]
  \cup [kind : {"clear"}, session : Nat, connection : Nat, before : Nat]

(* The type invariant; the write lock is held by who is writing, whichever *)
(* statement failed before (database.py:279).                              *)
TypeOK ==
  /\ disk \in Databases /\ work \in Databases
  /\ writer \in Threads \cup {"start", Nobody}
  /\ service \in {"down", "begin", "migrate", "check", "up"}
  /\ pc \in [Threads -> {"idle", "insert", "insert session", "commit"}]
  /\ asked \in [Threads -> Requests \cup {Nobody}]
  /\ \A t \in Threads : pc[t] \in {"insert session", "commit"} <=> writer = t

(* Wherever the service or its migration stops, what is on disk is a       *)
(* database that the next start understands: empty, a release's own, or    *)
(* complete (database.py:341).                                             *)
AlwaysStartable(db) ==
  /\ db.version = 0 => db.parts = {}
  /\ db.version = 1 => Range(Baseline) \subseteq db.parts
  /\ db.version = Current => db.parts = AllParts

(* Two vehicles never have the same VIN, however it is written and however *)
(* requests race between the look-up and the insert (database.py:435).     *)
VinsAreUnique(db) == db.version = Current => ~Duplicates(db.vehicles)

(* A diagnostic session and its case are filed together, for a customer    *)
(* and a vehicle that exist (database.py:479).                             *)
SessionsAreWhole(db) ==
  /\ Len(db.cases) = Len(db.sessions)
  /\ \A s \in DOMAIN db.sessions :
       /\ db.sessions[s] = s
       /\ db.cases[s].customer \in 1..db.customers
       /\ db.cases[s].vehicle \in DOMAIN db.vehicles

(* A clear event's connection belongs to its session, and the faults it    *)
(* quotes were read through that connection (database.py:999).             *)
ClearsHaveLineage(db) == \A i \in DOMAIN db.clears : Lineage(db, db.clears[i])

(* What is on disk is whole, whatever failed or died (database.py:273).    *)
DiskIsWhole ==
  /\ AlwaysStartable(disk) /\ VinsAreUnique(disk)
  /\ SessionsAreWhole(disk) /\ ClearsHaveLineage(disk)

(* The rows of one database are those of another, whose connections may    *)
(* have ended.                                                             *)
Kept(old, new) ==
  /\ old.customers <= new.customers
  /\ IsPrefix(old.vehicles, new.vehicles)
  /\ IsPrefix(old.cases, new.cases)
  /\ IsPrefix(old.sessions, new.sessions)
  /\ IsPrefix(old.snapshots, new.snapshots)
  /\ IsPrefix(old.clears, new.clears)
  /\ \A c \in DOMAIN old.connections :
       /\ c \in DOMAIN new.connections
       /\ new.connections[c].session = old.connections[c].session
       /\ old.connections[c].open \/ new.connections[c] = old.connections[c]

(* Nothing that was committed is lost or changed, by a migration, a        *)
(* restart or the release before this one; only a connection ends, once.   *)
RecordsStay == [][Kept(disk, disk')]_vars
--------------------------------------------------------------------------------
(* Why the invariants hold: what a request that passed its look-ups still  *)
(* knows when it writes, and what a transaction holds when it commits.     *)

(* Its look-ups stay true, but for the VIN's and the schema's own; these   *)
(* are made again.                                                         *)
Known(db, a) ==
  /\ a.kind = "session" => a.customer \in 1..db.customers /\ a.vehicle \in DOMAIN db.vehicles
  /\ a.kind = "clear" => Lineage(db, a)

(* The database with all the rows of a request.                            *)
Filed(db, a) ==
  IF a.kind = "session"
    THEN [Row(db, a) EXCEPT !.sessions = Append(@, Len(Row(db, a).cases))]
  ELSE Row(db, a)

Asking(t) == pc[t] # "idle" => asked[t] \in Requests /\ Known(disk, asked[t])

Writing(t) ==
  writer = t =>
    /\ Accepts(disk, asked[t])
    /\ pc[t] = "insert session" => asked[t].kind = "session" /\ work = Row(disk, asked[t])
    /\ pc[t] = "commit" => work = Filed(disk, asked[t])

(* A migration changes the version and the parts of a database that is     *)
(* old and has no duplicates.                                              *)
Migrating ==
  /\ service \in {"begin", "migrate"} \/ writer = "start" =>
       disk.version < Current /\ ~Duplicates(disk.vehicles)
  /\ writer = "start" =>
       /\ disk.parts \subseteq work.parts
       /\ work = [disk EXCEPT !.parts = work.parts, !.version = work.version]
       /\ service = "check" => work.version = Current /\ work.parts = AllParts

(* Who may be at work in which phase of the service.                       *)
Phases ==
  /\ writer = "start" => service \in {"migrate", "check"}
  /\ service = "migrate" => writer = "start"
  /\ service # "up" => \A t \in Threads : pc[t] = "idle"
  /\ service = "up" => disk.version = Current
  /\ service = "check" => writer = "start" \/ disk.version = Current

IInv ==
  /\ TypeOK /\ DiskIsWhole
  /\ disk.version = 0 => disk = Empty
  /\ Phases /\ Migrating
  /\ \A t \in Threads : Asking(t) /\ Writing(t)
================================================================================
