------------------------------- MODULE UsbRouting -------------------------------
(***************************************************************************)
(* USB routing: the operator hands USB devices to VirtualHere or takes     *)
(* them back.  Handler threads of the app serialise routing, OBD connects  *)
(* and hardware captures with usb_routing_obd_lock; a routing apply waits  *)
(* at most five seconds for the root helper, a process of its own that     *)
(* serves one request at a time from a socket systemd holds.  The helper   *)
(* rewrites VirtualHere's allowlist, restarts VirtualHere, restores the    *)
(* allowlist when it does not come up, and audits the outcome before it    *)
(* answers.  A request whose client gave up is served all the same, and    *)
(* the helper dies answering it.                                           *)
(***************************************************************************)
EXTENDS Sequences, Integers, FiniteSets

CONSTANTS
  Threads,    \* handler threads of the app
  NoThread,   \* nobody
  Devices,    \* USB devices, by stable key
  Ids,        \* VID:PID pairs
  IdOf,       \* the VID:PID of a device
  Backlog     \* bound: requests the socket holds

ASSUME NoThreadAssumption == NoThread \notin Threads
ASSUME IdAssumption == IdOf \in [Devices -> Ids]
ASSUME BacklogAssumption == Backlog \in Nat \ {0}

VARIABLES
  pc,         \* what each handler thread is doing
  lock,       \* usb_routing_obd_lock
  obd,        \* the provider OBDService is connected to
  queue,      \* requests on the helper's socket
  step,       \* the next step of the helper
  cur,        \* the request the helper serves
  before,     \* the allowlist when the request was accepted
  outcome,    \* of the request the helper serves
  plugged,    \* devices now attached
  config,     \* AllowedDevices in VirtualHere's config file
  served,     \* what VirtualHere exports: the allowlist it last started with
  audited,    \* new_allowed_devices of the last audit record
  stale,      \* history: the last reload failed, was cut short or not undone
  unaudited   \* history: the last audit record failed or was cut short

vars == <<pc, lock, obd, queue, step, cur, before, outcome, plugged, config,
          served, audited, stale, unaudited>>
app == <<pc, lock, obd>>
helper == <<step, cur, before, outcome>>
virtualhere == <<config, served, stale>>
audit == <<audited, unaudited>>

(* An apply: the inventory the operator saw, the devices routed to         *)
(* VirtualHere, and the thread that waits, if one still does.              *)
Request == [seen : SUBSET Devices, chosen : SUBSET Devices, by : Threads \cup {NoThread}]
NoRequest == [seen |-> {}, chosen |-> {}, by |-> NoThread]

Steps == {"accept", "probe", "write", "restart", "check", "restore", "reload",
          "audit", "reply", "dead"}

Init ==
  /\ pc = [t \in Threads |-> "idle"] /\ lock = NoThread /\ obd = "none"
  /\ queue = <<>> /\ step = "accept" /\ cur = NoRequest
  /\ before = {} /\ outcome = "none"
  /\ plugged = Devices
  /\ config = {} /\ served = {} /\ audited = {}
  /\ stale = FALSE /\ unaudited = FALSE

Goto(t, where) == pc' = [pc EXCEPT ![t] = where]

(* Local hardware is in use: a capture runs, or OBD owns its adapter. *)
InUse == obd = "hardware" \/ \E t \in Threads : pc[t] = "capturing"

(* The thread gives up on its request, wherever that is.                   *)
GivenUp(r, ts) == IF r.by \in ts THEN [r EXCEPT !.by = NoThread] ELSE r
Abandon(ts) ==
  /\ queue' = [i \in 1..Len(queue) |-> GivenUp(queue[i], ts)]
  /\ cur' = GivenUp(cur, ts)
--------------------------------------------------------------------------------
(* The app. *)

(* Mutant: obd_connect does not take the lock. *)
LockUnlessConnect(t) ==
  /\ pc[t] = "idle"
  /\ \/ /\ lock = NoThread /\ lock' = t
        /\ \E h \in {"capturing", "checking"} : Goto(t, h)
     \/ Goto(t, "connecting") /\ UNCHANGED lock
  /\ UNCHANGED <<obd, queue, helper, plugged, virtualhere, audit>>

(* A request comes in and its handler gets the lock; until it does, the    *)
(* thread counts as idle.                                                  *)
Lock(t) ==
  /\ pc[t] = "idle"
  /\ lock = NoThread
  /\ lock' = t
  /\ \E h \in {"connecting", "capturing", "checking"} : Goto(t, h)
  /\ UNCHANGED <<obd, queue, helper, plugged, virtualhere, audit>>

(* obd_connect, to the simulator or the adapter; it fails when a provider  *)
(* is connected, and may fail otherwise.                                   *)
Connect(t) ==
  /\ pc[t] = "connecting"
  /\ \/ obd = "none" /\ obd' \in {"simulator", "hardware"}
     \/ UNCHANGED obd
  /\ Goto(t, "release")
  /\ UNCHANGED <<lock, queue, helper, plugged, virtualhere, audit>>

(* obd_disconnect takes no routing lock. *)
Disconnect ==
  /\ obd # "none"
  /\ obd' = "none"
  /\ UNCHANGED <<pc, lock, queue, helper, plugged, virtualhere, audit>>

(* A scope, survey or serial capture on the hardware ends. *)
EndCapture(t) ==
  /\ pc[t] = "capturing"
  /\ Goto(t, "release")
  /\ UNCHANGED <<lock, obd, queue, helper, plugged, virtualhere, audit>>

(* apply_usb_routing is refused while local hardware is in use. *)
Check(t) ==
  /\ pc[t] = "checking"
  /\ Goto(t, IF InUse THEN "release" ELSE "sending")
  /\ UNCHANGED <<lock, obd, queue, helper, plugged, virtualhere, audit>>

(* RoutingSocketClient.request: what the operator saw may be out of date,  *)
(* and what was selected need not be in it.                                *)
Send(t) ==
  /\ pc[t] = "sending"
  /\ Len(queue) < Backlog
  /\ \E seen, chosen \in SUBSET Devices :
       queue' = Append(queue, [seen |-> seen, chosen |-> chosen, by |-> t])
  /\ Goto(t, "waiting")
  /\ UNCHANGED <<lock, obd, helper, plugged, virtualhere, audit>>

SendFails(t) ==
  /\ pc[t] = "sending"
  /\ Goto(t, "release")
  /\ UNCHANGED <<lock, obd, queue, helper, plugged, virtualhere, audit>>

(* Mutant: the client waits for as long as it takes. *)
TimeoutNever(t) == FALSE

(* Five seconds pass without an answer. *)
Timeout(t) ==
  /\ pc[t] = "waiting"
  /\ Abandon({t})
  /\ Goto(t, "release")
  /\ UNCHANGED <<lock, obd, step, before, outcome, plugged, virtualhere, audit>>

Release(t) ==
  /\ pc[t] = "release"
  /\ lock' = NoThread
  /\ Goto(t, "idle")
  /\ UNCHANGED <<obd, queue, helper, plugged, virtualhere, audit>>

(* The app's process dies; the helper and its queue live on. *)
AppDies ==
  /\ pc' = [t \in Threads |-> "idle"] /\ lock' = NoThread /\ obd' = "none"
  /\ Abandon(Threads)
  /\ UNCHANGED <<step, before, outcome, plugged, virtualhere, audit>>
--------------------------------------------------------------------------------
(* The helper. *)
Want == {IdOf[d] : d \in cur.chosen}

(* serve_once accepts; RoutingHelperService.handle reads the allowlist,    *)
(* and answers an error without a record when it cannot.                   *)
Accept ==
  /\ step = "accept"
  /\ queue # <<>>
  /\ cur' = Head(queue) /\ queue' = Tail(queue)
  /\ before' = config
  /\ \/ step' = "probe" /\ UNCHANGED outcome
     \/ step' = "reply" /\ outcome' = "error"
  /\ UNCHANGED <<app, plugged, virtualhere, audit>>

(* Mutant: a twin of a selected device does not matter. *)
AcceptableTwins(devices, r) == r.seen = devices /\ r.chosen \subseteq devices

(* The inventory is the one the operator saw, and no selected device has   *)
(* a twin with its VID:PID.                                                *)
Acceptable(devices, r) ==
  /\ r.seen = devices
  /\ r.chosen \subseteq devices
  /\ \A d \in r.chosen, e \in devices : IdOf[e] = IdOf[d] => e = d

Probe ==
  /\ step = "probe"
  /\ IF Acceptable(plugged, cur)
       THEN step' = "write" /\ UNCHANGED outcome
       ELSE step' = "audit" /\ outcome' = "error"
  /\ UNCHANGED <<app, queue, cur, before, plugged, virtualhere, audit>>

(* apply_allowed_devices does nothing when the file already says so.       *)
Write ==
  /\ step = "write"
  /\ IF config = Want
       THEN step' = "audit" /\ outcome' = "success"
       ELSE step' = "restart" /\ UNCHANGED outcome
  /\ config' = Want
  /\ UNCHANGED <<app, queue, cur, before, plugged, served, stale, audit>>

(* Anything before the file is replaced may raise. *)
ApplyFails ==
  /\ step \in {"probe", "write"}
  /\ step' = "audit" /\ outcome' = "error"
  /\ UNCHANGED <<app, queue, cur, before, plugged, virtualhere, audit>>

Restart ==
  /\ step = "restart"
  /\ served' = config /\ stale' = FALSE
  /\ step' = "check"
  /\ UNCHANGED <<app, queue, cur, before, outcome, plugged, config, audit>>

(* systemctl restart fails and raises: nothing is restored.  VirtualHere   *)
(* runs as before, or not at all.                                          *)
RestartFails ==
  /\ step \in {"restart", "reload"}
  /\ served' \in {served, {}} /\ stale' = TRUE
  /\ step' = "audit" /\ outcome' = "error"
  /\ UNCHANGED <<app, queue, cur, before, plugged, config, audit>>

IsActive ==
  /\ step = "check"
  /\ \/ step' = "audit" /\ outcome' = "success" /\ UNCHANGED served
     \/ step' = "restore" /\ served' = {} /\ UNCHANGED outcome
  /\ UNCHANGED <<app, queue, cur, before, plugged, config, stale, audit>>

(* Mutant: the restored allowlist is the new one. *)
RestoreNot ==
  /\ step = "restore"
  /\ step' = "reload"
  /\ UNCHANGED <<app, queue, cur, before, outcome, plugged, virtualhere, audit>>

Restore ==
  /\ step = "restore"
  /\ config' = before
  /\ step' = "reload"
  /\ UNCHANGED <<app, queue, cur, before, outcome, plugged, served, stale, audit>>

(* Writing the old file back raises, or is_active does. *)
RestoreFails ==
  /\ step \in {"check", "restore"}
  /\ stale' = TRUE
  /\ step' = "audit" /\ outcome' = "error"
  /\ UNCHANGED <<app, queue, cur, before, plugged, config, served, audit>>

(* The restart on the old allowlist; the apply is an error all the same.   *)
Reload ==
  /\ step = "reload"
  /\ served' \in {config, {}} /\ stale' = (served' # config)
  /\ step' = "audit" /\ outcome' = "error"
  /\ UNCHANGED <<app, queue, cur, before, plugged, config, audit>>

(* Mutant: a failed apply is audited with the allowlist it asked for. *)
AuditWanted ==
  /\ step = "audit"
  /\ audited' = Want
  /\ unaudited' = FALSE
  /\ step' = "reply"
  /\ UNCHANGED <<app, queue, cur, before, outcome, plugged, virtualhere>>

(* The record of a failure reads the file again. *)
Audit ==
  /\ step = "audit"
  /\ audited' = IF outcome = "success" THEN Want ELSE config
  /\ unaudited' = FALSE
  /\ step' = "reply"
  /\ UNCHANGED <<app, queue, cur, before, outcome, plugged, virtualhere>>

(* Mutant: the outcome of a failed audit is misspelt. *)
AuditFailsMisspelt ==
  /\ step = "audit"
  /\ unaudited' = TRUE
  /\ outcome' = "failed"
  /\ step' = "reply"
  /\ UNCHANGED <<app, queue, cur, before, plugged, virtualhere, audited>>

(* An audit that raises turns every outcome into an error. *)
AuditFails ==
  /\ step = "audit"
  /\ unaudited' = TRUE
  /\ outcome' = "error"
  /\ step' = "reply"
  /\ UNCHANGED <<app, queue, cur, before, plugged, virtualhere, audited>>

(* The answer.  Nobody listens to an abandoned request: sendall raises     *)
(* outside the try and the process ends.                                   *)
Reply ==
  /\ step = "reply"
  /\ IF cur.by = NoThread
       THEN step' = "dead" /\ UNCHANGED pc
       ELSE step' = "accept" /\ Goto(cur.by, "release")
  /\ cur' = NoRequest /\ before' = {} /\ outcome' = "none"
  /\ UNCHANGED <<lock, obd, queue, plugged, virtualhere, audit>>

(* The helper is killed; a client still waiting gets an error.  The queue  *)
(* is systemd's.                                                           *)
HelperDies ==
  /\ step # "dead"
  /\ step' = "dead"
  /\ IF cur.by = NoThread THEN UNCHANGED pc ELSE Goto(cur.by, "release")
  /\ cur' = NoRequest /\ before' = {} /\ outcome' = "none"
  /\ stale' = (stale \/ served # config)
  /\ unaudited' = (unaudited \/ audited # config)
  /\ UNCHANGED <<lock, obd, queue, plugged, config, served, audited>>

(* systemd starts it again. *)
HelperStarts ==
  /\ step = "dead"
  /\ step' = "accept"
  /\ UNCHANGED <<app, queue, cur, before, outcome, plugged, virtualhere, audit>>
--------------------------------------------------------------------------------
(* The bench: devices come and go, and VirtualHere restarts by itself.     *)
Plug ==
  /\ \E d \in Devices : plugged' = IF d \in plugged THEN plugged \ {d} ELSE plugged \cup {d}
  /\ UNCHANGED <<app, queue, helper, virtualhere, audit>>

VirtualHereStarts ==
  /\ served' = config
  /\ UNCHANGED <<app, queue, helper, plugged, config, stale, audit>>

Handle(t) ==
  \/ Connect(t) \/ EndCapture(t) \/ Check(t) \/ Send(t)
  \/ SendFails(t) \/ Timeout(t) \/ Release(t)

Serve ==
  \/ Accept \/ Probe \/ Write \/ ApplyFails \/ Restart \/ RestartFails
  \/ IsActive \/ Restore \/ RestoreFails \/ Reload \/ Audit \/ AuditFails
  \/ Reply \/ HelperStarts

Next ==
  \/ \E t \in Threads : Lock(t) \/ Handle(t)
  \/ Disconnect \/ AppDies
  \/ Serve \/ HelperDies
  \/ Plug \/ VirtualHereStarts

Spec == Init /\ [][Next]_vars
--------------------------------------------------------------------------------
(* The type invariant of threads, socket, helper and VirtualHere.          *)
TypeOK ==
  /\ pc \in [Threads -> {"idle", "connecting", "capturing", "checking", "sending",
                         "waiting", "release"}]
  /\ lock \in Threads \cup {NoThread}
  /\ obd \in {"none", "simulator", "hardware"}
  /\ queue \in Seq(Request) /\ Len(queue) <= Backlog
  /\ step \in Steps /\ cur \in Request
  /\ before \in SUBSET Ids /\ outcome \in {"none", "success", "error"}
  /\ plugged \in SUBSET Devices
  /\ config \in SUBSET Ids /\ served \in SUBSET Ids /\ audited \in SUBSET Ids
  /\ stale \in BOOLEAN /\ unaudited \in BOOLEAN

(* No local capture and no hardware OBD connection while an apply is sent  *)
(* and waited for, although disconnects take no lock.                      *)
RoutingExcludesHardware ==
  \A t \in Threads : pc[t] \in {"sending", "waiting"} => ~InUse

(* The last audit record names the allowlist in the file whenever the      *)
(* helper is between requests, unless a record failed or was cut short.    *)
AuditMatchesConfig ==
  step \in {"accept", "probe", "reply", "dead"} => audited = config \/ unaudited

(* A success that is answered is in the file and in the audit, and is what *)
(* VirtualHere exports, unless an earlier reload of it failed.             *)
SuccessIsServed ==
  step = "reply" /\ outcome = "success" =>
    config = Want /\ audited = Want /\ (served = config \/ stale)

(* An apply that fails leaves the allowlist as it found it, unless a       *)
(* reload of VirtualHere failed.                                           *)
ErrorLeavesConfig ==
  step = "audit" /\ outcome = "error" => config = before \/ stale

(* The answer an apply gets is true, whether success or error.             *)
AnswersAreTrue == SuccessIsServed /\ ErrorLeavesConfig

(* apply_allowed_devices: "Apply one allowlist transaction with rollback   *)
(* if VirtualHere does not recover."                                       *)
ErrorRestoresConfig ==
  step = "audit" /\ outcome = "error" => config = before

(* The allowlist only changes to what the operator confirmed: of the       *)
(* devices he saw, exactly those he selected are exported; or back.        *)
ExportsConfirmed ==
  [][config' # config =>
       \/ config' = before
       \/ \A d \in cur.seen : IdOf[d] \in config' <=> d \in cur.chosen]_vars
--------------------------------------------------------------------------------
(* The inductive invariant. *)

(* Between Lock and Release a thread holds the lock. *)
LockHeld == \A t \in Threads : pc[t] # "idle" <=> lock = t

(* A request that has not been given up belongs to the thread that waits,  *)
(* and there is one of it.                                                 *)
OneWaits ==
  /\ cur.by # NoThread =>
       /\ pc[cur.by] = "waiting"
       /\ \A i \in 1..Len(queue) : queue[i].by = NoThread
  /\ \A i \in 1..Len(queue) : queue[i].by # NoThread =>
       /\ pc[queue[i].by] = "waiting"
       /\ \A j \in 1..Len(queue) \ {i} : queue[j].by = NoThread

(* What the helper knows of the allowlist, of VirtualHere and of the audit *)
(* at each of its steps.                                                   *)
HelperKnows ==
  /\ step \in {"probe", "write", "reload"} => config = before
  /\ step \in {"restart", "check"} => config = Want
  /\ step = "write" =>
       /\ cur.chosen \subseteq cur.seen
       /\ \A d \in cur.chosen, e \in cur.seen : IdOf[e] = IdOf[d] => e = d
  /\ step \in {"audit", "reply"} /\ outcome = "success" => config = Want
  /\ step = "reply" /\ outcome = "success" => audited = Want
  /\ step = "check" => served = config
  /\ step \notin {"restart", "restore", "reload"} => served = config \/ stale
  /\ step \in {"accept", "probe", "write", "reply", "dead"} => audited = config \/ unaudited

IInv == TypeOK /\ LockHeld /\ OneWaits /\ RoutingExcludesHardware /\ HelperKnows /\ ErrorLeavesConfig

--------------------------------------------------------------------------------
(* Fairness: a handler that has started keeps running, a capture ends, and *)
(* a client's wait times out.  Nothing is asked of the helper: systemctl   *)
(* may hang for ever.                                                      *)
FairSpec == Spec /\ \A t \in Threads : WF_vars(Handle(t))

(* The routing lock comes free even when the helper hangs or is dead.      *)
RoutingLockComesFree == lock # NoThread ~> lock = NoThread
================================================================================
