--------------------------- MODULE CapturePublication ---------------------------
(***************************************************************************)
(* The evidence lanes of the service: CaptureManager ("scope"),            *)
(* BusSurveyManager ("survey"), SerialCaptureManager ("serial"),           *)
(* ModbusScanManager ("modbus") and CanDecodeManager ("decode").  A        *)
(* request thread acquires under its manager's lock, stages its files in a *)
(* hidden directory, inserts a pending row, renames the directory into     *)
(* place, registers the artifacts and completes the row.  Every step can   *)
(* fail, the whole process can die between any two steps, and the machine  *)
(* can lose power: SQLite commits are durable, the files are never synced. *)
(***************************************************************************)
EXTENDS FiniteSets

CONSTANTS
  Workers,    \* request threads of the service
  Runs,       \* run identifiers: microsecond timestamp, slug and lane
  Files,      \* the artifact names of a run
  Manifest,   \* the artifact written last
  Lanes,      \* the lanes at work, among LaneNames
  NoRun,      \* no run
  NoWorker,   \* nobody
  PowerCuts   \* may the machine lose power?

LaneNames == {"scope", "survey", "serial", "modbus", "decode"}

(* Mutant of LockOf: the bus survey makes a lock of its own. *)
LockOfEachLane(l) == l

(* The lock a lane's manager takes without blocking.  The hardware scope   *)
(* and bus-survey managers are built with the same pico_lock; the other    *)
(* managers make a lock of their own.                                      *)
LockOf(l) == IF l \in {"scope", "survey"} THEN "pico" ELSE l
Locks == {LockOf(l) : l \in LaneNames}

(* The device a lane acquires from: the scope and the bus survey both open *)
(* the PicoScope.                                                          *)
DeviceOf(l) == IF l \in {"scope", "survey"} THEN "pico" ELSE l

(* BusSurveyManager.run packages its data after releasing the lock. *)
KeepsLock(l) == l # "survey"

ASSUME LanesAssumption == Lanes \subseteq LaneNames
ASSUME ManifestAssumption == Manifest \in Files
ASSUME NoRunAssumption == NoRun \notin Runs
ASSUME NoWorkerAssumption == NoWorker \notin Workers
ASSUME PowerCutsAssumption == PowerCuts \in BOOLEAN

VARIABLES
  rows,       \* the captures table with each row's artifact records
  dirs,       \* the run's directory: staged, published or absent
  held,       \* who holds each manager lock
  pc,         \* the next step of each worker
  lane,       \* the lane a worker's request is for
  mine,       \* the run a worker is producing
  parent,     \* the source run a decode worker has validated
  synced,     \* runs whose files the kernel has written back on its own
  damaged,    \* history: runs that were not, when the power went
  abandoned   \* history: runs left behind by a death or a failed cleanup

vars == <<rows, dirs, held, pc, lane, mine, parent, synced, damaged, abandoned>>

NoRow == [status |-> "none", lane |-> "none", source |-> NoRun, registered |-> {}]
Row == [status : {"none", "pending", "complete"}, lane : LaneNames \cup {"none"},
        source : Runs \cup {NoRun}, registered : SUBSET Files]

NoDir == [at |-> "none", has |-> {}, torn |-> {}]
Dir == [at : {"none", "staging", "final"}, has : SUBSET Files, torn : SUBSET Files]

(* The steps inside the try block of _run_locked or _package. *)
Packaging == {"write", "row", "manifest", "rename", "register", "complete"}
Cleaning == {"unstage", "unpublish", "forget"}
Steps == {"idle", "acquire", "stage", "return"} \cup Packaging \cup Cleaning

Init ==
  /\ rows = [r \in Runs |-> NoRow]
  /\ dirs = [r \in Runs |-> NoDir]
  /\ held = [k \in Locks |-> NoWorker]
  /\ pc = [w \in Workers |-> "idle"]
  /\ lane = [w \in Workers |-> "none"]
  /\ mine = [w \in Workers |-> NoRun]
  /\ parent = [w \in Workers |-> NoRun]
  /\ synced = {}
  /\ damaged = {}
  /\ abandoned = {}

--------------------------------------------------------------------------------
(* What the readers see. *)

Visible(r) == rows[r].status = "complete"

(* read_authoritative_artifact: the record must be registered once, and    *)
(* the published file must exist with the registered size and digest.      *)
Offered(r) ==
  IF Visible(r) /\ dirs[r].at = "final"
    THEN rows[r].registered \cap (dirs[r].has \ dirs[r].torn)
    ELSE {}

(* Mutant: the source is looked up by its registered artifacts alone. *)
DecodableUnseen(r) ==
  rows[r].lane \in {"scope", "survey"} /\ rows[r].registered = Files

(* A run a decode accepts as its source: visible, not itself a decode, and *)
(* with a manifest and waveform that pass the authoritative reader.        *)
Decodable(r) ==
  /\ rows[r].lane \in {"scope", "survey"}
  /\ Offered(r) = Files

(* A run id is never in use twice: it carries the time of its acquisition. *)
Fresh(r) ==
  /\ rows[r] = NoRow
  /\ dirs[r] = NoDir
  /\ r \notin abandoned \cup synced \cup damaged
  /\ \A w \in Workers : mine[w] # r

Goto(w, step) == pc' = [pc EXCEPT ![w] = step]

(* The decode lane inserts its row before it writes its files; the others  *)
(* write first.                                                            *)
AfterStage(l) == IF l = "decode" THEN "row" ELSE "write"
AfterRow(l) == IF l = "decode" THEN "write" ELSE "manifest"
AfterWrite(l) == IF l = "decode" THEN "manifest" ELSE "row"

(* Mutant: every lane completes its row before it registers anything. *)
AfterRenameEarly(l) == "complete"

(* The decode lane registers its artifacts and completes the row in one    *)
(* transaction, complete_capture_with_artifacts.                           *)
AfterRename(l) == IF l = "decode" THEN "complete" ELSE "register"
--------------------------------------------------------------------------------
(* The request: the manager's lock is taken or the request is refused.     *)
Start(w) ==
  /\ pc[w] = "idle"
  /\ \E l \in Lanes :
       /\ held[LockOf(l)] = NoWorker
       /\ held' = [held EXCEPT ![LockOf(l)] = w]
       /\ lane' = [lane EXCEPT ![w] = l]
  /\ Goto(w, "acquire")
  /\ UNCHANGED <<rows, dirs, mine, parent, synced, damaged, abandoned>>

Unlock(w) ==
  held' = [k \in Locks |-> IF held[k] = w THEN NoWorker ELSE held[k]]

(* The backend returns its data, or the decoder its frames, and the run id *)
(* is drawn from the clock.  A bus survey gives its lock back here.        *)
Acquire(w) ==
  /\ pc[w] = "acquire"
  /\ IF lane[w] = "decode"
       THEN \E s \in Runs : Decodable(s) /\ parent' = [parent EXCEPT ![w] = s]
       ELSE UNCHANGED parent
  /\ \E r \in Runs : Fresh(r) /\ mine' = [mine EXCEPT ![w] = r]
  /\ IF KeepsLock(lane[w]) THEN UNCHANGED held ELSE Unlock(w)
  /\ Goto(w, "stage")
  /\ UNCHANGED <<rows, dirs, lane, synced, damaged, abandoned>>

(* mkdtemp of the hidden staging directory. *)
Stage(w) ==
  /\ pc[w] = "stage"
  /\ dirs' = [dirs EXCEPT ![mine[w]] = [at |-> "staging", has |-> {}, torn |-> {}]]
  /\ Goto(w, AfterStage(lane[w]))
  /\ UNCHANGED <<rows, held, lane, mine, parent, synced, damaged, abandoned>>

(* Every artifact but the manifest is written and hashed. *)
Write(w) ==
  /\ pc[w] = "write"
  /\ dirs' = [dirs EXCEPT ![mine[w]].has = Files \ {Manifest}]
  /\ Goto(w, AfterWrite(lane[w]))
  /\ UNCHANGED <<rows, held, lane, mine, parent, synced, damaged, abandoned>>

(* Mutant: the row is inserted complete. *)
CreateRowComplete(w) ==
  /\ pc[w] = "row"
  /\ rows' = [rows EXCEPT ![mine[w]] =
                [status |-> "complete", lane |-> lane[w],
                 source |-> parent[w], registered |-> {}]]
  /\ Goto(w, AfterRow(lane[w]))
  /\ UNCHANGED <<dirs, held, lane, mine, parent, synced, damaged, abandoned>>

(* create_capture commits a pending row (and set_capture_metadata follows  *)
(* in the decode lane).                                                    *)
CreateRow(w) ==
  /\ pc[w] = "row"
  /\ rows[mine[w]].status = "none"
  /\ rows' = [rows EXCEPT ![mine[w]] =
                [status |-> "pending", lane |-> lane[w],
                 source |-> parent[w], registered |-> {}]]
  /\ Goto(w, AfterRow(lane[w]))
  /\ UNCHANGED <<dirs, held, lane, mine, parent, synced, damaged, abandoned>>

WriteManifest(w) ==
  /\ pc[w] = "manifest"
  /\ dirs' = [dirs EXCEPT ![mine[w]].has = @ \cup {Manifest}]
  /\ Goto(w, "rename")
  /\ UNCHANGED <<rows, held, lane, mine, parent, synced, damaged, abandoned>>

(* partial.rename(final) *)
Rename(w) ==
  /\ pc[w] = "rename"
  /\ dirs' = [dirs EXCEPT ![mine[w]].at = "final"]
  /\ Goto(w, AfterRename(lane[w]))
  /\ UNCHANGED <<rows, held, lane, mine, parent, synced, damaged, abandoned>>

(* add_artifact: one transaction per file. *)
Register(w) ==
  /\ pc[w] = "register"
  /\ \E f \in Files \ rows[mine[w]].registered :
       /\ rows' = [rows EXCEPT ![mine[w]].registered = @ \cup {f}]
       /\ IF rows[mine[w]].registered \cup {f} = Files
            THEN Goto(w, "complete")
            ELSE UNCHANGED pc
  /\ UNCHANGED <<dirs, held, lane, mine, parent, synced, damaged, abandoned>>

(* Mutant: the status is misspelt. *)
CompleteMisspelt(w) ==
  /\ pc[w] = "complete"
  /\ rows' = [rows EXCEPT ![mine[w]].status = "completed"]
  /\ Goto(w, "return")
  /\ UNCHANGED <<dirs, held, lane, mine, parent, synced, damaged, abandoned>>

(* set_capture_status(complete), or complete_capture_with_artifacts, which *)
(* refuses a row that is not pending.                                      *)
Complete(w) ==
  /\ pc[w] = "complete"
  /\ rows[mine[w]].status = "pending"
  /\ LET row == rows[mine[w]]
         all == IF lane[w] = "decode" THEN Files ELSE row.registered
     IN  rows' = [rows EXCEPT ![mine[w]] =
                    [row EXCEPT !.status = "complete", !.registered = all]]
  /\ Goto(w, "return")
  /\ UNCHANGED <<dirs, held, lane, mine, parent, synced, damaged, abandoned>>

(* The manager returns or raises; the with-block or finally frees the lock. *)
Return(w) ==
  /\ pc[w] = "return"
  /\ Unlock(w)
  /\ lane' = [lane EXCEPT ![w] = "none"]
  /\ mine' = [mine EXCEPT ![w] = NoRun]
  /\ parent' = [parent EXCEPT ![w] = NoRun]
  /\ Goto(w, "idle")
  /\ UNCHANGED <<rows, dirs, synced, damaged, abandoned>>
--------------------------------------------------------------------------------
(* Failures.  Before the try block an exception just unwinds; inside it    *)
(* the handler removes the staging directory, the published directory and  *)
(* the row, in that order.                                                 *)
FailEarly(w) ==
  /\ pc[w] \in {"acquire", "stage"}
  /\ Goto(w, "return")
  /\ UNCHANGED <<rows, dirs, held, lane, mine, parent, synced, damaged, abandoned>>

(* Mutants: an error while answering is handled like one while packaging;  *)
(* the handler is missing.                                                 *)
FailLate(w) ==
  /\ pc[w] \in Packaging \cup {"return"}
  /\ mine[w] # NoRun
  /\ Goto(w, "unstage")
  /\ UNCHANGED <<rows, dirs, held, lane, mine, parent, synced, damaged, abandoned>>

FailUnhandled(w) ==
  /\ pc[w] \in Packaging
  /\ Goto(w, "return")
  /\ UNCHANGED <<rows, dirs, held, lane, mine, parent, synced, damaged, abandoned>>

Fail(w) ==
  /\ pc[w] \in Packaging
  /\ Goto(w, "unstage")
  /\ UNCHANGED <<rows, dirs, held, lane, mine, parent, synced, damaged, abandoned>>

(* shutil.rmtree(..., ignore_errors=True): it may leave the directory, and *)
(* the handler does not notice.                                            *)
RemoveTree(w, place) ==
  IF dirs[mine[w]].at = place
    THEN \/ /\ dirs' = [dirs EXCEPT ![mine[w]] = NoDir]
            /\ UNCHANGED abandoned
         \/ /\ abandoned' = abandoned \cup {mine[w]}
            /\ UNCHANGED dirs
    ELSE UNCHANGED <<dirs, abandoned>>

RemoveStaging(w) ==
  /\ pc[w] = "unstage"
  /\ RemoveTree(w, "staging")
  /\ Goto(w, "unpublish")
  /\ UNCHANGED <<rows, held, lane, mine, parent, synced, damaged>>

(* Mutant: the handler forgets the published directory. *)
RemovePublishedNot(w) ==
  /\ pc[w] = "unpublish"
  /\ Goto(w, "forget")
  /\ UNCHANGED <<rows, dirs, held, lane, mine, parent, synced, damaged, abandoned>>

RemovePublished(w) ==
  /\ pc[w] = "unpublish"
  /\ RemoveTree(w, "final")
  /\ Goto(w, "forget")
  /\ UNCHANGED <<rows, held, lane, mine, parent, synced, damaged>>

(* delete_capture cascades to the artifact records; it may fail in turn,   *)
(* and then its own exception leaves the pending row.                      *)
DeleteRow(w) ==
  /\ pc[w] = "forget"
  /\ \/ /\ rows' = [rows EXCEPT ![mine[w]] = NoRow]
        /\ UNCHANGED abandoned
     \/ /\ rows[mine[w]].status # "none"
        /\ abandoned' = abandoned \cup {mine[w]}
        /\ UNCHANGED rows
  /\ Goto(w, "return")
  /\ UNCHANGED <<dirs, held, lane, mine, parent, synced, damaged>>
--------------------------------------------------------------------------------
(* The environment. *)

(* The kernel writes a published directory back in its own time. *)
WriteBack(r) ==
  /\ PowerCuts
  /\ dirs[r].at = "final"
  /\ r \notin synced
  /\ synced' = synced \cup {r}
  /\ UNCHANGED <<rows, dirs, held, pc, lane, mine, parent, damaged, abandoned>>

(* The workers die with their locks; what they were producing stays. *)
WorkersDie ==
  /\ held' = [k \in Locks |-> NoWorker]
  /\ pc' = [w \in Workers |-> "idle"]
  /\ lane' = [w \in Workers |-> "none"]
  /\ mine' = [w \in Workers |-> NoRun]
  /\ parent' = [w \in Workers |-> NoRun]
  /\ abandoned' = abandoned \cup
       {r \in Runs : ~Visible(r) /\ \E w \in Workers : mine[w] = r}

(* The service is killed and systemd starts it again.  Startup leaves      *)
(* these lanes' rows and directories as they are.                          *)
Crash ==
  /\ \E w \in Workers : pc[w] # "idle"
  /\ WorkersDie
  /\ UNCHANGED <<rows, dirs, synced, damaged>>

(* What can be left of a directory nobody synced: files vanish or are torn. *)
Decayed(d) ==
  {e \in Dir : /\ e.at \in {"none", d.at}
               /\ e.has \subseteq (IF e.at = "none" THEN {} ELSE d.has)
               /\ e.torn \subseteq e.has
               /\ d.torn \cap e.has \subseteq e.torn}

Survivors(r) == IF r \in synced THEN {dirs[r]} ELSE Decayed(dirs[r])

PowerCut ==
  /\ PowerCuts
  /\ WorkersDie
  /\ \E after \in [Runs -> UNION {Survivors(r) : r \in Runs}] :
       /\ \A r \in Runs : after[r] \in Survivors(r)
       /\ dirs' = after
  /\ damaged' = damaged \cup {r \in Runs : r \notin synced /\ dirs[r].at # "none"}
  /\ UNCHANGED <<rows, synced>>
--------------------------------------------------------------------------------
Work(w) ==
  \/ Acquire(w) \/ Stage(w) \/ Write(w) \/ CreateRow(w) \/ WriteManifest(w)
  \/ Rename(w) \/ Register(w) \/ Complete(w) \/ Return(w)
  \/ RemoveStaging(w) \/ RemovePublished(w) \/ DeleteRow(w)

Next ==
  \/ \E w \in Workers : Start(w) \/ Work(w) \/ FailEarly(w) \/ Fail(w)
  \/ \E r \in Runs : WriteBack(r)
  \/ Crash
  \/ PowerCut

Spec == Init /\ [][Next]_vars
--------------------------------------------------------------------------------
(* The type invariant: every table, directory, lock and worker register    *)
(* holds a value the code can put there.                                   *)
TypeOK ==
  /\ rows \in [Runs -> Row]
  /\ dirs \in [Runs -> Dir]
  /\ held \in [Locks -> Workers \cup {NoWorker}]
  /\ pc \in [Workers -> Steps]
  /\ lane \in [Workers -> LaneNames \cup {"none"}]
  /\ mine \in [Workers -> Runs \cup {NoRun}]
  /\ parent \in [Workers -> Runs \cup {NoRun}]
  /\ synced \in SUBSET Runs
  /\ damaged \in SUBSET Runs
  /\ abandoned \in SUBSET Runs

(* A run whose row is complete has all its artifacts registered, and every *)
(* one of them passes the authoritative reader, unless the power went      *)
(* before its files reached the disk.  Completion comes last in every lane *)
(* and no cleanup, crash or other request reaches a completed run.         *)
VisibleIsWhole ==
  \A r \in Runs : Visible(r) =>
    /\ rows[r].registered = Files
    /\ r \notin damaged => Offered(r) = Files

(* Every trace of a run - a pending row, a staging or a published          *)
(* directory - is part of visible evidence or of a request still running,  *)
(* or was left by a death of the service or by a cleanup that failed       *)
(* itself: the except blocks of _run_locked and _package miss nothing.     *)
Traced(r) == rows[r].status # "none" \/ dirs[r].at # "none"
NoStrayTrace ==
  \A r \in Runs : Traced(r) =>
    Visible(r) \/ r \in abandoned \/ \E w \in Workers : mine[w] = r

(* The source a CAN decode names, in a pending or a complete row, is       *)
(* visible evidence of an acquisition lane: it was validated before the    *)
(* row was written, and nothing takes complete evidence away.              *)
LineageResolves ==
  \A r \in Runs : rows[r].lane = "decode" =>
    /\ rows[r].source \in Runs
    /\ Visible(rows[r].source)
    /\ rows[rows[r].source].lane \in {"scope", "survey"}

(* Two requests never acquire through the same device at the same time,    *)
(* whatever their lanes: the scope and bus-survey managers share pico_lock *)
(* although the survey gives it back before it packages.                   *)
ExclusiveAcquisition ==
  \A w, v \in Workers :
    /\ pc[w] = "acquire" /\ pc[v] = "acquire"
    /\ DeviceOf(lane[w]) = DeviceOf(lane[v])
    => w = v

(* Visible evidence is immutable: no step changes its row, and none but a  *)
(* power cut on files still unsynced changes its directory.                *)
PublishedForever ==
  [][\A r \in Runs : Visible(r) =>
       /\ rows'[r] = rows[r]
       /\ r \notin damaged' => dirs'[r] = dirs[r]]_vars

(* The inductive invariant behind the four invariants above: what each     *)
(* worker knows of its own run at each step, and that no two workers share *)
(* one.                                                                    *)
Owned(w) == pc[w] \in {"stage"} \cup Packaging \cup Cleaning

Pending(w) ==
  rows[mine[w]] = [status |-> "pending", lane |-> lane[w], source |-> parent[w],
                   registered |-> rows[mine[w]].registered]

(* The row and the directory of a worker's run, step by step. *)
RunAt(w) ==
  LET row == rows[mine[w]]
      dir == dirs[mine[w]]
  IN  /\ pc[w] = "stage" => row = NoRow /\ dir = NoDir
      /\ pc[w] \in {"write", "row", "manifest", "rename"} =>
           dir.at = "staging" /\ row.registered = {}
      /\ pc[w] = "row" \/ (pc[w] = "write" /\ lane[w] # "decode") => row = NoRow
      /\ pc[w] \in Packaging \ {"write", "row"} \/ (pc[w] = "write" /\ lane[w] = "decode")
           => Pending(w)
      /\ pc[w] = "manifest" \/ (pc[w] = "row" /\ lane[w] # "decode")
           => dir.has = Files \ {Manifest}
      /\ pc[w] \in {"rename", "register", "complete"} => dir.has = Files
      /\ pc[w] \in {"register", "complete"} => dir.at = "final"
      /\ pc[w] = "register" => lane[w] # "decode"
      /\ pc[w] = "complete" /\ lane[w] # "decode" => row.registered = Files

(* What cleanup has achieved so far. *)
CleanedTo(w) ==
  LET r == mine[w]
  IN  /\ pc[w] = "unpublish" => dirs[r].at # "staging" \/ r \in abandoned
      /\ pc[w] = "forget" => dirs[r].at = "none" \/ r \in abandoned
      /\ pc[w] = "return" /\ r # NoRun =>
           Visible(r) \/ ~Traced(r) \/ r \in abandoned

WorkerOK(w) ==
  /\ pc[w] \in {"idle", "acquire"} => mine[w] = NoRun
  /\ pc[w] # "idle" => lane[w] \in Lanes
  /\ pc[w] \in {"idle", "acquire"} \/ lane[w] # "decode" => parent[w] = NoRun
  /\ Owned(w) => mine[w] \in Runs /\ ~Visible(mine[w])
  /\ Owned(w) /\ lane[w] = "decode" =>
       /\ parent[w] \in Runs
       /\ Visible(parent[w])
       /\ rows[parent[w]].lane \in {"scope", "survey"}
  /\ mine[w] # NoRun => mine[w] \notin damaged
  /\ RunAt(w)
  /\ CleanedTo(w)
  /\ pc[w] = "acquire" => held[LockOf(lane[w])] = w

Owners == \A w, v \in Workers : mine[w] = mine[v] /\ mine[w] # NoRun => w = v

(* Only a power cut tears a file or takes one from a run that has it. *)
Intact ==
  \A r \in Runs : r \notin damaged =>
    /\ dirs[r].torn = {}
    /\ Visible(r) => dirs[r].at = "final" /\ dirs[r].has = Files

CompleteRows ==
  \A r \in Runs : Visible(r) => rows[r].registered = Files

IInv ==
  /\ TypeOK
  /\ Owners
  /\ \A w \in Workers : WorkerOK(w)
  /\ Intact
  /\ CompleteRows
  /\ NoStrayTrace
  /\ LineageResolves

(* The lanes implement the store the readers were promised.                *)
Store == INSTANCE EvidenceStore WITH
  MayLose <- PowerCuts,
  published <- {r \in Runs : Visible(r)},
  offered <- [r \in Runs |-> Offered(r)]
ImplementsStore == Store!Spec

(* Fairness: the thread pool runs every request thread, and every blocking *)
(* call of a request (acquisition, file and SQLite operations) returns or  *)
(* raises.                                                                 *)
FairSpec ==
  Spec /\ \A w \in Workers : WF_vars(Work(w) \/ FailEarly(w) \/ Fail(w))

(* A run that has left a trace becomes visible, or loses its traces, or is *)
(* one the service died on or could not clean up: no request stops with    *)
(* its evidence half published.                                            *)
RunsSettle ==
  \A r \in Runs : Traced(r) ~> (Visible(r) \/ ~Traced(r) \/ r \in abandoned)

(* A manager's lock always comes free: no path through a request keeps it. *)
LocksComeFree ==
  \A k \in Locks : held[k] # NoWorker ~> held[k] = NoWorker

(* Every request settles: its run and its lock (capture.py:526).           *)
RequestsSettle == RunsSettle /\ LocksComeFree
================================================================================
