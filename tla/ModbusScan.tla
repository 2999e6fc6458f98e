------------------------------- MODULE ModbusScan -------------------------------
(***************************************************************************)
(* Modbus discovery: LiveModbusDiscoveryBackend.scan, the thread pool of   *)
(* scan_modbus_network and the request threads that reach it.  Managers    *)
(* are created lazily by whichever request comes first, so two may exist;  *)
(* behind them a lock of the process allows one scan at a time, and an     *)
(* interface cools for sixty seconds.  A scan listens for HICP gateways,   *)
(* probes every other host of the subnet with a few workers, and stops     *)
(* thirty seconds after it began, whatever its workers still have to do.   *)
(***************************************************************************)
EXTENDS Integers, FiniteSets

CONSTANTS
  Threads, NoThread,
  Hosts,        \* the subnet's hosts, without this machine's own addresses
  Foreign,      \* an address outside the subnet
  Macs,         \* HICP gateways
  Interfaces,
  Workers       \* probes submitted at a time

ASSUME NoThreadAssumption == NoThread \notin Threads
ASSUME HostsAssumption == IsFiniteSet(Hosts) /\ Foreign \notin Hosts
ASSUME WorkersAssumption == Workers \in Nat \ {0}

VARIABLES
  manager,      \* app.state.modbus_network_manager, by who created it
  pc,           \* the next step of each request thread
  using,        \* the manager it runs
  busy,         \* managers whose _lock is held
  scanning,     \* who holds LiveModbusDiscoveryBackend._scan_lock
  cooling,      \* interfaces scanned in the last sixty seconds
  on,           \* the interface of the scan, while it runs
  late,         \* the scan's deadline has passed
  heard,        \* HICP devices by MAC
  todo,         \* hosts the iterator has not reached
  pending,      \* hosts whose future has not been collected
  batch,        \* done futures that wait() returned
  probe,        \* each host's future
  outcome,      \* how each host's probe ended
  transactions, \* hosts the report has an outcome for
  found,        \* hosts the report has a Modbus device for
  truncated

requests == <<manager, pc, using, busy>>
scan == <<scanning, cooling, on, late>>
report == <<transactions, found, truncated>>
pool == <<pending, batch, probe, outcome>>
vars == <<requests, scan, heard, todo, pool, report>>

Addresses == Hosts \cup {Foreign}
Scope == {"on_link", "conflict"}
Gateway == [source : Addresses, ip : Addresses, scope : Scope]
NoGateway == [source |-> Foreign, ip |-> Foreign, scope |-> "none"]

(* What a probe finds: no connection, a connection without a valid answer, *)
(* or a Modbus identity or exception.                                      *)
Outcomes == {"unreachable", "candidate", "confirmed"}

Scanning == {"cooldown", "listen", "fill", "wait", "waiting", "collect", "cancel",
             "shutdown", "report", "scanned"}
Steps == {"idle", "check", "create", "pick", "lock", "scanlock", "unlock"} \cup Scanning

Init ==
  /\ manager = NoThread
  /\ pc = [t \in Threads |-> "idle"]
  /\ using = [t \in Threads |-> NoThread]
  /\ busy = {} /\ scanning = NoThread /\ cooling = {}
  /\ on \in Interfaces /\ late = FALSE
  /\ heard = [m \in Macs |-> NoGateway]
  /\ todo = {} /\ pending = {} /\ batch = {}
  /\ probe = [h \in Hosts |-> "none"]
  /\ outcome = [h \in Hosts |-> "none"]
  /\ transactions = {} /\ found = {} /\ truncated = FALSE

Goto(t, step) == pc' = [pc EXCEPT ![t] = step]
In(state) == {h \in Hosts : probe[h] = state}
--------------------------------------------------------------------------------
(* create_modbus_scan and ModbusScanManager.run. *)

Request(t) ==
  /\ pc[t] = "idle"
  /\ Goto(t, "check")
  /\ UNCHANGED <<manager, using, busy, scan, heard, todo, pool, report>>

Check(t) ==
  /\ pc[t] = "check"
  /\ Goto(t, IF manager = NoThread THEN "create" ELSE "pick")
  /\ UNCHANGED <<manager, using, busy, scan, heard, todo, pool, report>>

(* Another request may have created one since it was found missing. *)
Create(t) ==
  /\ pc[t] = "create"
  /\ manager' = t
  /\ Goto(t, "pick")
  /\ UNCHANGED <<using, busy, scan, heard, todo, pool, report>>

Pick(t) ==
  /\ pc[t] = "pick"
  /\ using' = [using EXCEPT ![t] = manager]
  /\ Goto(t, "lock")
  /\ UNCHANGED <<manager, busy, scan, heard, todo, pool, report>>

(* The manager refuses while its lock is held. *)
Lock(t) ==
  /\ pc[t] = "lock"
  /\ IF using[t] \in busy
       THEN Goto(t, "idle") /\ UNCHANGED busy
       ELSE Goto(t, "scanlock") /\ busy' = busy \cup {using[t]}
  /\ UNCHANGED <<manager, using, scan, heard, todo, pool, report>>

(* The report is packaged, or the request refused, before this. *)
Unlock(t) ==
  /\ pc[t] = "unlock"
  /\ busy' = busy \ {using[t]}
  /\ using' = [using EXCEPT ![t] = NoThread]
  /\ Goto(t, "idle")
  /\ UNCHANGED <<manager, scan, heard, todo, pool, report>>
--------------------------------------------------------------------------------
(* LiveModbusDiscoveryBackend.scan. *)

ScanLock(t) ==
  /\ pc[t] = "scanlock"
  /\ IF scanning = NoThread
       THEN scanning' = t /\ Goto(t, "cooldown")
       ELSE Goto(t, "unlock") /\ UNCHANGED scanning
  /\ UNCHANGED <<manager, using, busy, cooling, on, late, heard, todo, pool, report>>

(* A cooling interface is refused; any other begins to cool, also when     *)
(* the arguments of the scan are then found invalid.                       *)
Cooldown(t) ==
  /\ pc[t] = "cooldown"
  /\ \E i \in Interfaces :
       /\ on' = i
       /\ IF i \in cooling
            THEN Goto(t, "scanned") /\ UNCHANGED cooling
            ELSE (\E step \in {"listen", "scanned"} : Goto(t, step)) /\ cooling' = cooling \cup {i}
  /\ UNCHANGED <<manager, using, busy, scanning, late, heard, todo, pool, report>>

(* Thirty seconds pass in a scan; sixty since an interface was scanned,    *)
(* which is after the deadline of that scan.                               *)
Deadline ==
  /\ scanning # NoThread
  /\ late' = TRUE
  /\ UNCHANGED <<requests, scanning, cooling, on, heard, todo, pool, report>>

Cooled ==
  /\ \E i \in cooling :
       /\ scanning # NoThread /\ i = on => late
       /\ cooling' = cooling \ {i}
  /\ UNCHANGED <<requests, scanning, on, late, heard, todo, pool, report>>

(* The scan lock is released; the scan's own state goes with it. *)
Scanned(t) ==
  /\ pc[t] = "scanned"
  /\ scanning' = NoThread
  /\ late' = FALSE
  /\ heard' = [m \in Macs |-> NoGateway]
  /\ todo' = {}
  /\ probe' = [h \in Hosts |-> IF probe[h] \in {"done", "cancelled"} THEN "none" ELSE probe[h]]
  /\ outcome' = [h \in Hosts |-> "none"]
  /\ transactions' = {} /\ found' = {} /\ truncated' = FALSE
  /\ Goto(t, "unlock")
  /\ UNCHANGED <<manager, using, busy, cooling, on, pending, batch>>
--------------------------------------------------------------------------------
(* discover_hicp: replies in any order, repeated or contradictory. *)

Reply(source, ip) ==
  [source |-> source, ip |-> ip, scope |-> IF source = ip THEN "on_link" ELSE "conflict"]

(* A reply unlike the one before makes a conflict of the gateway. *)
Merge(previous, device) ==
  IF previous \notin {NoGateway, device} THEN [previous EXCEPT !.scope = "conflict"] ELSE device

Hear(t) ==
  /\ pc[t] = "listen"
  /\ \E m \in Macs, source, ip \in Addresses :
       heard' = [heard EXCEPT ![m] = Merge(heard[m], Reply(source, ip))]
  /\ UNCHANGED <<requests, scan, todo, pool, report>>

(* Mutant: gateways are probed like any host. *)
ExcludedNone(gateways) == {}

(* Gateways that answered from the address they advertise are not probed.  *)
Excluded(gateways) == {gateways[m].ip : m \in {m \in Macs : gateways[m].scope = "on_link"}}

(* Listening ends; discovery that raises counts as hearing nothing.        *)
Listen(t) ==
  /\ pc[t] = "listen"
  /\ heard' \in {heard, [m \in Macs |-> NoGateway]}
  /\ todo' = Hosts \ Excluded(heard')
  /\ Goto(t, "fill")
  /\ UNCHANGED <<manager, using, busy, scan, pool, report>>
--------------------------------------------------------------------------------
(* The scan's own thread. *)

(* submit_next, with the futures pending before it.                        *)
SubmitNext(before) ==
  \/ /\ ~late
     /\ \E h \in todo :
          /\ todo' = todo \ {h}
          /\ pending' = before \cup {h}
          /\ probe' = [probe EXCEPT ![h] = "queued"]
  \/ /\ late \/ todo = {}
     /\ pending' = before
     /\ UNCHANGED <<todo, probe>>

Fill(t) ==
  /\ pc[t] = "fill"
  /\ IF Cardinality(pending) < Workers /\ todo # {} /\ ~late
       THEN SubmitNext(pending) /\ UNCHANGED pc
       ELSE Goto(t, "wait") /\ UNCHANGED <<todo, pending, probe>>
  /\ UNCHANGED <<manager, using, busy, scan, heard, batch, outcome, report>>

(* The loop ends when nothing is pending, or at the deadline. *)
Wait(t) ==
  /\ pc[t] = "wait"
  /\ \/ pending = {} /\ Goto(t, "cancel") /\ UNCHANGED truncated
     \/ pending # {} /\ late /\ Goto(t, "cancel") /\ truncated' = TRUE
     \/ pending # {} /\ ~late /\ Goto(t, "waiting") /\ UNCHANGED truncated
  /\ UNCHANGED <<manager, using, busy, scan, heard, todo, pool, transactions, found>>

(* Mutant: wait() has no timeout. *)
WakeNoTimeout(t) ==
  LET done == pending \cap In("done")
  IN  /\ pc[t] = "waiting"
      /\ done # {} /\ batch' = done /\ Goto(t, "collect")
      /\ UNCHANGED <<manager, using, busy, scan, heard, todo, pending, probe, outcome, report>>

(* wait(FIRST_COMPLETED) returns the futures done, or none at the deadline. *)
Wake(t) ==
  LET done == pending \cap In("done")
  IN  /\ pc[t] = "waiting"
      /\ \/ done # {} /\ batch' = done /\ Goto(t, "collect") /\ UNCHANGED truncated
         \/ /\ done = {} /\ late
            /\ truncated' = TRUE /\ Goto(t, "cancel") /\ UNCHANGED batch
      /\ UNCHANGED <<manager, using, busy, scan, heard, todo, pending, probe, outcome,
                     transactions, found>>

(* Mutant: the next host is not submitted. *)
CollectOnly(t) ==
  /\ pc[t] = "collect"
  /\ \E h \in batch :
       /\ transactions' = transactions \cup {h}
       /\ found' = IF outcome[h] = "unreachable" THEN found ELSE found \cup {h}
       /\ pending' = pending \ {h}
       /\ batch' = batch \ {h}
  /\ Goto(t, IF batch' = {} THEN "wait" ELSE "collect")
  /\ UNCHANGED <<manager, using, busy, scan, heard, todo, probe, outcome, truncated>>

(* One outcome is recorded and the next host submitted. *)
Collect(t) ==
  /\ pc[t] = "collect"
  /\ \E h \in batch :
       /\ transactions' = transactions \cup {h}
       /\ found' = IF outcome[h] = "unreachable" THEN found ELSE found \cup {h}
       /\ SubmitNext(pending \ {h})
       /\ batch' = batch \ {h}
  /\ Goto(t, IF batch' = {} THEN "wait" ELSE "collect")
  /\ UNCHANGED <<manager, using, busy, scan, heard, outcome, truncated>>

(* What is left is cancelled and reported if it has not started; of a      *)
(* probe that has started or ended the report says nothing.                *)
Cancel(t) ==
  /\ pc[t] = "cancel"
  /\ IF pending = {}
       THEN Goto(t, "shutdown") /\ UNCHANGED <<pending, probe, transactions>>
       ELSE \E h \in pending :
              /\ pending' = pending \ {h}
              /\ IF probe[h] = "queued"
                   THEN /\ probe' = [probe EXCEPT ![h] = "cancelled"]
                        /\ transactions' = transactions \cup {h}
                   ELSE UNCHANGED <<probe, transactions>>
              /\ UNCHANGED pc
  /\ UNCHANGED <<manager, using, busy, scan, heard, todo, batch, outcome, found, truncated>>

(* Mutant: the pool is left to finish by itself. *)
ShutdownNoWait(t) ==
  /\ pc[t] = "shutdown"
  /\ Goto(t, "report")
  /\ UNCHANGED <<manager, using, busy, scan, heard, todo, pool, report>>

(* pool.shutdown(wait=True). *)
Shutdown(t) ==
  /\ pc[t] = "shutdown"
  /\ In("running") = {}
  /\ Goto(t, "report")
  /\ UNCHANGED <<manager, using, busy, scan, heard, todo, pool, report>>

Report(t) ==
  /\ pc[t] = "report"
  /\ Goto(t, "scanned")
  /\ UNCHANGED <<manager, using, busy, scan, heard, todo, pool, report>>
--------------------------------------------------------------------------------
(* The pool's workers, in probe_modbus_device: one connection and, on it,  *)
(* one request; the answer is awaited for as long as bytes keep coming.    *)
StartProbe(h) ==
  /\ probe[h] = "queued"
  /\ Cardinality(In("running")) < Workers
  /\ probe' = [probe EXCEPT ![h] = "running"]
  /\ UNCHANGED <<requests, scan, heard, todo, pending, batch, outcome, report>>

(* Mutant: an exception in the probe is an outcome of its own. *)
EndProbeRaising(h) ==
  /\ probe[h] = "running"
  /\ probe' = [probe EXCEPT ![h] = "done"]
  /\ outcome' = [outcome EXCEPT ![h] = "raised"]
  /\ UNCHANGED <<requests, scan, heard, todo, pending, batch, report>>

EndProbe(h) ==
  /\ probe[h] = "running"
  /\ probe' = [probe EXCEPT ![h] = "done"]
  /\ \E o \in Outcomes : outcome' = [outcome EXCEPT ![h] = o]
  /\ UNCHANGED <<requests, scan, heard, todo, pending, batch, report>>

Serve(t) ==
  \/ Check(t) \/ Create(t) \/ Pick(t) \/ Lock(t) \/ Unlock(t)
  \/ ScanLock(t) \/ Cooldown(t) \/ Listen(t) \/ Fill(t) \/ Wait(t) \/ Wake(t)
  \/ Collect(t) \/ Cancel(t) \/ Shutdown(t) \/ Report(t) \/ Scanned(t)

Next ==
  \/ \E t \in Threads : Request(t) \/ Hear(t) \/ Serve(t)
  \/ \E h \in Hosts : StartProbe(h) \/ EndProbe(h)
  \/ Deadline \/ Cooled

Spec == Init /\ [][Next]_vars
--------------------------------------------------------------------------------
(* The type invariant. *)
TypeOK ==
  /\ manager \in Threads \cup {NoThread}
  /\ pc \in [Threads -> Steps]
  /\ using \in [Threads -> Threads \cup {NoThread}]
  /\ busy \in SUBSET Threads /\ scanning \in Threads \cup {NoThread}
  /\ cooling \in SUBSET Interfaces /\ on \in Interfaces /\ late \in BOOLEAN
  /\ heard \in [Macs -> Gateway \cup {NoGateway}]
  /\ todo \in SUBSET Hosts /\ pending \in SUBSET Hosts /\ batch \in SUBSET Hosts
  /\ probe \in [Hosts -> {"none", "queued", "running", "done", "cancelled"}]
  /\ outcome \in [Hosts -> Outcomes \cup {"none"}]
  /\ transactions \in SUBSET Hosts /\ found \in SUBSET Hosts /\ truncated \in BOOLEAN

(* One scan runs in the process, although requests can race to create the  *)
(* manager and so come through two managers, each with a lock of its own;  *)
(* and no probe is on the network, or about to be, when no scan is running,*)
(* so that the next scan never overlaps the workers of one that met its    *)
(* deadline (modbus_scan.py:129, modbus_discovery.py:718).                  *)
ScansDoNotOverlap ==
  /\ \A t, u \in Threads : pc[t] \in Scanning /\ pc[u] \in Scanning => t = u
  /\ In("queued") \cup In("running") # {} => \E t \in Threads : pc[t] \in Scanning

Candidates == Hosts \ Excluded(heard)
Reported == \E t \in Threads : pc[t] = "report"

(* What the report says of a host is true: a host it has a device for      *)
(* answered, and one it has an outcome for was probed or withdrawn.  A     *)
(* scan that is over before its deadline has an outcome for every host     *)
(* that is not a gateway, however its probes overlapped.                   *)
ReportIsTrue ==
  /\ \A h \in found : h \in transactions /\ outcome[h] \in {"candidate", "confirmed"}
  /\ \A h \in transactions : probe[h] = "done" \/ probe[h] = "cancelled"
  /\ Reported /\ ~late => transactions = Candidates /\ ~truncated

(* No probe goes to a gateway known by a consistent HICP identity.         *)
GatewaysLeftAlone ==
  \A m \in Macs, h \in Hosts :
    heard[m].scope = "on_link" /\ heard[m].ip = h => probe[h] = "none"

(* README.md: "one Modbus 43/14 request per remaining candidate", which a  *)
(* report that does not say it is truncated claims to have done.           *)
UntruncatedReportIsFull == Reported /\ ~truncated => transactions = Candidates

(* Fairness: request threads and workers keep running, the deadline comes, *)
(* and every probe ends.                                                   *)
FairSpec ==
  /\ Spec
  /\ \A t \in Threads : WF_vars(Serve(t))
  /\ WF_vars(Deadline /\ ~late)
  /\ \A h \in Hosts : WF_vars(EndProbe(h))

(* A scan ends and its lock comes free, also when no worker ever starts.   *)
ScanLockComesFree == scanning # NoThread ~> scanning = NoThread
--------------------------------------------------------------------------------
(* Why the invariants hold: the inductive invariant of the proofs.         *)

(* A request has a manager before it takes its lock; the scan lock is held *)
(* from its acquisition to the end of the scan.                            *)
ThreadOK(t) ==
  /\ pc[t] = "pick" => manager # NoThread
  /\ pc[t] \in {"lock", "scanlock", "unlock"} \cup Scanning => using[t] # NoThread
  /\ pc[t] \in Scanning <=> scanning = t

(* Nothing is submitted, under way or reported. *)
Fresh ==
  /\ todo = {} /\ pending = {} /\ transactions = {} /\ found = {}
  /\ \A h \in Hosts : probe[h] = "none"

(* Every candidate is still to be submitted, submitted, or in the report.  *)
Accounted ==
  /\ Candidates = todo \cup pending \cup transactions
  /\ In("queued") \cup In("running") \subseteq pending

(* What the scanner's step says of its pool. *)
ScanAt(t) ==
  /\ pc[t] \in {"cooldown", "listen"} => Fresh
  /\ pc[t] \in {"fill", "wait", "waiting", "collect"} => Accounted
  /\ pc[t] = "wait" /\ ~late /\ pending = {} => todo = {}
  /\ pc[t] = "collect" => batch \subseteq pending \cap In("done")
  /\ pc[t] = "cancel" => In("queued") \subseteq pending
  /\ pc[t] \in {"cancel", "shutdown", "report"} /\ ~late => transactions = Candidates /\ pending = {}
  /\ pc[t] \in {"shutdown", "report", "scanned"} => In("queued") = {} /\ pending = {}
  /\ pc[t] \in {"report", "scanned"} => In("running") = {}

(* The futures agree with the sets the scan keeps of them.                 *)
PoolOK ==
  /\ \A h \in todo : probe[h] = "none" /\ h \in Candidates
  /\ \A h \in pending : probe[h] \in {"queued", "running", "done"}
  /\ \A h \in transactions : probe[h] \in {"done", "cancelled"}
  /\ \A h \in Hosts : probe[h] # "none" => h \in Candidates
  /\ \A h \in In("done") : outcome[h] \in Outcomes
  /\ found \subseteq transactions
  /\ \A h \in found : probe[h] = "done" /\ outcome[h] # "unreachable"
  /\ truncated => late

IInv ==
  /\ TypeOK
  /\ \A t \in Threads : ThreadOK(t) /\ ScanAt(t)
  /\ scanning = NoThread => Fresh
  /\ PoolOK
================================================================================
