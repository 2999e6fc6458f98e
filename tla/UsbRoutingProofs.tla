---------------------------- MODULE UsbRoutingProofs ----------------------------
(* Proofs about UsbRouting for any threads, devices and VID:PIDs.          *)
EXTENDS UsbRouting, SequenceTheorems, TLAPS

(* Nobody holds the lock and the helper is idle at first. *)
LEMMA InitIInv == Init => IInv
<1> SUFFICES ASSUME Init PROVE IInv
  OBVIOUS
<1> USE NoThreadAssumption, BacklogAssumption DEF Init
<1>1. TypeOK
  <2>1. queue \in Seq(Request) /\ Len(queue) = 0
    OBVIOUS
  <2>2. cur \in Request
    BY DEF Request, NoRequest
  <2>3. pc \in [Threads -> {"idle", "connecting", "capturing", "checking", "sending",
                            "waiting", "release"}]
    OBVIOUS
  <2>4. lock \in Threads \cup {NoThread} /\ obd \in {"none", "simulator", "hardware"}
    OBVIOUS
  <2>5. /\ step \in Steps /\ outcome \in {"none", "success", "error"}
        /\ before \in SUBSET Ids /\ plugged \in SUBSET Devices
        /\ config \in SUBSET Ids /\ served \in SUBSET Ids /\ audited \in SUBSET Ids
    BY DEF Steps
  <2>6. stale \in BOOLEAN /\ unaudited \in BOOLEAN
    BY Zenon
  <2>7. 0 <= Backlog
    BY BacklogAssumption
  <2> QED
    BY <2>1, <2>2, <2>3, <2>4, <2>5, <2>6, <2>7, Zenon DEF TypeOK
<1>2. LockHeld /\ OneWaits /\ RoutingExcludesHardware
  BY DEF LockHeld, OneWaits, RoutingExcludesHardware, NoRequest
<1>3. HelperKnows /\ ErrorLeavesConfig
  BY DEF HelperKnows, ErrorLeavesConfig
<1> QED
  BY <1>1, <1>2, <1>3 DEF IInv

(* Giving up on requests changes nothing of them but who waits. *)
LEMMA AbandonKeeps ==
  ASSUME TypeOK, NEW ts \in SUBSET Threads, Abandon(ts)
  PROVE  /\ queue' \in Seq(Request) /\ Len(queue') = Len(queue)
         /\ cur' \in Request /\ cur'.seen = cur.seen /\ cur'.chosen = cur.chosen
         /\ cur'.by = IF cur.by \in ts THEN NoThread ELSE cur.by
         /\ \A i \in 1..Len(queue) :
              queue'[i].by = IF queue[i].by \in ts THEN NoThread ELSE queue[i].by
<1>1. queue \in Seq(Request) /\ cur \in Request /\ Len(queue) \in Nat
  BY DEF TypeOK
<1>2. ASSUME NEW r \in Request
      PROVE  /\ GivenUp(r, ts) \in Request
             /\ GivenUp(r, ts).seen = r.seen /\ GivenUp(r, ts).chosen = r.chosen
             /\ GivenUp(r, ts).by = IF r.by \in ts THEN NoThread ELSE r.by
  BY DEF GivenUp, Request
<1>3. \A i \in 1..Len(queue) : queue[i] \in Request
  BY <1>1
<1>4. queue' \in [1..Len(queue) -> Request]
  BY <1>2, <1>3 DEF Abandon
<1>5. queue' \in Seq(Request) /\ Len(queue') = Len(queue)
  BY <1>1, <1>4, SeqDef
<1>6. \A i \in 1..Len(queue) : queue'[i] = GivenUp(queue[i], ts)
  BY DEF Abandon
<1> QED
  BY <1>1, <1>2, <1>3, <1>5, <1>6 DEF Abandon

(* The first request leaves the queue. *)
LEMMA AcceptTakes ==
  ASSUME TypeOK, Accept
  PROVE  /\ cur' = queue[1] /\ cur' \in Request
         /\ queue' \in Seq(Request) /\ Len(queue') = Len(queue) - 1
         /\ 1 \in 1..Len(queue)
         /\ \A i \in 1..Len(queue') : queue'[i] = queue[i + 1]
  BY HeadTailProperties, ElementOfSeq DEF TypeOK, Accept

(* A request joins the queue at its end. *)
LEMMA SendAppends ==
  ASSUME TypeOK, NEW t \in Threads, Send(t)
  PROVE  \E r \in Request :
           /\ r.by = t
           /\ queue' \in Seq(Request) /\ Len(queue') = Len(queue) + 1
           /\ Len(queue') <= Backlog
           /\ queue'[Len(queue) + 1] = r
           /\ \A i \in 1..Len(queue) : queue'[i] = queue[i]
<1>1. PICK seen \in SUBSET Devices, chosen \in SUBSET Devices :
        queue' = Append(queue, [seen |-> seen, chosen |-> chosen, by |-> t])
  BY DEF Send
<1> DEFINE r == [seen |-> seen, chosen |-> chosen, by |-> t]
<1>2. r \in Request /\ r.by = t
  BY DEF Request
<1>3. queue \in Seq(Request) /\ Len(queue) < Backlog
  BY DEF TypeOK, Send
<1> HIDE DEF r
<1>4. queue' = Append(queue, r)
  BY <1>1 DEF r
<1>5. /\ queue' \in Seq(Request) /\ Len(queue') = Len(queue) + 1
      /\ queue'[Len(queue) + 1] = r
      /\ \A i \in 1..Len(queue) : queue'[i] = queue[i]
  BY <1>2, <1>3, <1>4, AppendProperties
<1> QED
  BY <1>2, <1>3, <1>5, BacklogAssumption DEF TypeOK

(* The helper's steps: they leave the lock, OBD, the bench and, but for    *)
(* Accept, the queue alone.                                                *)
LEMMA ServeFrame ==
  ASSUME Serve \/ HelperDies
  PROVE  /\ lock' = lock /\ obd' = obd /\ plugged' = plugged
         /\ \/ pc' = pc
            \/ cur.by # NoThread /\ pc' = [pc EXCEPT ![cur.by] = "release"]
         /\ queue' = queue \/ Accept
<1> USE DEF app, helper, virtualhere, audit, Goto
<1>1. CASE Accept
  BY <1>1 DEF Accept
<1>2. CASE Probe \/ Write \/ ApplyFails \/ Restart \/ RestartFails \/ IsActive \/ Restore
  BY <1>2 DEF Probe, Write, ApplyFails, Restart, RestartFails, IsActive, Restore
<1>3. CASE RestoreFails \/ Reload \/ Audit \/ AuditFails \/ HelperStarts
  BY <1>3 DEF RestoreFails, Reload, Audit, AuditFails, HelperStarts
<1>4. CASE Reply \/ HelperDies
  BY <1>4 DEF Reply, HelperDies
<1> QED
  BY <1>1, <1>2, <1>3, <1>4 DEF Serve

(* The app's steps and the bench's leave the helper's step and VirtualHere *)
(* alone, and of the request in hand they change at most who waits.        *)
LEMMA AppFrame ==
  ASSUME TypeOK, (\E t \in Threads : Lock(t) \/ Handle(t)) \/ Disconnect \/ AppDies \/ Plug
  PROVE  /\ step' = step /\ before' = before /\ outcome' = outcome
         /\ cur' \in Request /\ cur'.seen = cur.seen /\ cur'.chosen = cur.chosen
         /\ config' = config /\ served' = served /\ stale' = stale
         /\ audited' = audited /\ unaudited' = unaudited
<1> USE DEF app, helper, virtualhere, audit
<1>1. ASSUME NEW t \in Threads, Timeout(t)
      PROVE  cur' \in Request /\ cur'.seen = cur.seen /\ cur'.chosen = cur.chosen
  <2>1. Abandon({t}) /\ {t} \in SUBSET Threads
    BY <1>1 DEF Timeout
  <2> QED
    BY <2>1, AbandonKeeps
<1>2. ASSUME AppDies
      PROVE  cur' \in Request /\ cur'.seen = cur.seen /\ cur'.chosen = cur.chosen
  <2>1. Abandon(Threads) /\ Threads \in SUBSET Threads
    BY <1>2 DEF AppDies
  <2> QED
    BY <2>1, AbandonKeeps
<1>3. cur \in Request
  BY DEF TypeOK
<1>4. ASSUME NEW t \in Threads, Lock(t) \/ Handle(t)
      PROVE  /\ step' = step /\ before' = before /\ outcome' = outcome
             /\ config' = config /\ served' = served /\ stale' = stale
             /\ audited' = audited /\ unaudited' = unaudited
             /\ cur' = cur \/ Timeout(t)
  BY <1>4 DEF Handle, Lock, Connect, EndCapture, Check, Send, SendFails, Timeout, Release
<1>5. CASE \E t \in Threads : Lock(t) \/ Handle(t)
  BY <1>1, <1>3, <1>4, <1>5
<1>6. CASE Disconnect \/ Plug
  BY <1>3, <1>6 DEF Disconnect, Plug
<1>7. CASE AppDies
  BY <1>2, <1>7 DEF AppDies
<1> QED
  BY <1>5, <1>6, <1>7

(* Types: the app's side. *)
LEMMA AppTypes ==
  ASSUME TypeOK, (\E t \in Threads : Lock(t) \/ Handle(t)) \/ Disconnect \/ AppDies \/ Plug
  PROVE  TypeOK'
<1> DEFINE Places == {"idle", "connecting", "capturing", "checking", "sending",
                      "waiting", "release"}
<1>1. /\ pc \in [Threads -> Places] /\ lock \in Threads \cup {NoThread}
      /\ obd \in {"none", "simulator", "hardware"}
      /\ queue \in Seq(Request) /\ Len(queue) <= Backlog
      /\ plugged \in SUBSET Devices
  BY DEF TypeOK
<1>2. ASSUME NEW t \in Threads, Lock(t) \/ Handle(t)
      PROVE  /\ pc' \in [Threads -> Places] /\ lock' \in Threads \cup {NoThread}
             /\ obd' \in {"none", "simulator", "hardware"}
             /\ plugged' = plugged
             /\ queue' = queue \/ Send(t) \/ Timeout(t)
  BY <1>1, <1>2 DEF Handle, Lock, Connect, EndCapture, Check, Send, SendFails, Timeout,
     Release, Goto, app, helper, virtualhere, audit
<1>3. ASSUME NEW t \in Threads, Send(t)
      PROVE  queue' \in Seq(Request) /\ Len(queue') <= Backlog
  BY <1>3, SendAppends
<1>4. ASSUME NEW t \in Threads, Timeout(t)
      PROVE  queue' \in Seq(Request) /\ Len(queue') <= Backlog
  <2>1. Abandon({t}) /\ {t} \in SUBSET Threads
    BY <1>4 DEF Timeout
  <2> QED
    BY <1>1, <2>1, AbandonKeeps
<1>5. ASSUME AppDies
      PROVE  queue' \in Seq(Request) /\ Len(queue') <= Backlog
  <2>1. Abandon(Threads) /\ Threads \in SUBSET Threads
    BY <1>5 DEF AppDies
  <2> QED
    BY <1>1, <2>1, AbandonKeeps
<1>6. ASSUME Disconnect \/ AppDies \/ Plug
      PROVE  /\ pc' \in [Threads -> Places] /\ lock' \in Threads \cup {NoThread}
             /\ obd' \in {"none", "simulator", "hardware"}
             /\ plugged' \in SUBSET Devices
             /\ queue' = queue \/ AppDies
  <2>1. CASE Disconnect
    BY <1>1, <2>1 DEF Disconnect
  <2>2. CASE AppDies
    BY <1>1, <2>2 DEF AppDies
  <2>3. CASE Plug
    BY <1>1, <2>3 DEF Plug, app
  <2> QED
    BY <1>6, <2>1, <2>2, <2>3
<1>7. /\ pc' \in [Threads -> Places] /\ lock' \in Threads \cup {NoThread}
      /\ obd' \in {"none", "simulator", "hardware"}
      /\ queue' \in Seq(Request) /\ Len(queue') <= Backlog
      /\ plugged' \in SUBSET Devices
  BY <1>1, <1>2, <1>3, <1>4, <1>5, <1>6
<1>8. /\ step' = step /\ before' = before /\ outcome' = outcome /\ cur' \in Request
      /\ config' = config /\ served' = served /\ stale' = stale
      /\ audited' = audited /\ unaudited' = unaudited
  BY AppFrame
<1>9. /\ step \in Steps /\ before \in SUBSET Ids /\ outcome \in {"none", "success", "error"}
      /\ config \in SUBSET Ids /\ served \in SUBSET Ids /\ audited \in SUBSET Ids
      /\ stale \in BOOLEAN /\ unaudited \in BOOLEAN
  BY Zenon DEF TypeOK
<1> QED
  BY <1>7, <1>8, <1>9, Zenon DEF TypeOK

(* An allowlist is a set of VID:PIDs. *)
LEMMA WantType == TypeOK => Want \in SUBSET Ids
  BY IdAssumption DEF TypeOK, Request, Want

(* Types: the helper's side. *)
LEMMA HelperTypes ==
  ASSUME TypeOK, OneWaits, Serve \/ HelperDies \/ VirtualHereStarts
  PROVE  TypeOK'
<1> DEFINE Places == {"idle", "connecting", "capturing", "checking", "sending",
                      "waiting", "release"}
<1>1. /\ pc \in [Threads -> Places] /\ lock \in Threads \cup {NoThread}
      /\ obd \in {"none", "simulator", "hardware"}
      /\ queue \in Seq(Request) /\ Len(queue) <= Backlog
      /\ plugged \in SUBSET Devices /\ cur \in Request
      /\ step \in Steps /\ before \in SUBSET Ids /\ outcome \in {"none", "success", "error"}
      /\ config \in SUBSET Ids /\ served \in SUBSET Ids /\ audited \in SUBSET Ids
  BY DEF TypeOK
<1>2. stale \in BOOLEAN /\ unaudited \in BOOLEAN
  BY Zenon DEF TypeOK
<1>3. Want \in SUBSET Ids /\ NoRequest \in Request
  BY WantType DEF Request, NoRequest
<1>4. CASE VirtualHereStarts
  <2>1. UNCHANGED <<app, queue, helper, plugged, config, stale, audit>> /\ served' = config
    BY <1>4 DEF VirtualHereStarts
  <2> QED
    BY <1>1, <1>2, <2>1, Zenon DEF TypeOK, app, helper, audit
<1>5. CASE Serve \/ HelperDies
  <2>1. pc' \in [Threads -> Places]
    BY <1>1, <1>5, ServeFrame DEF OneWaits
  <2>2. lock' = lock /\ obd' = obd /\ plugged' = plugged
    BY <1>5, ServeFrame
  <2>3. queue' \in Seq(Request) /\ Len(queue') <= Backlog
    <3>1. CASE Accept
      BY <1>1, <3>1, AcceptTakes, BacklogAssumption
    <3> QED
      BY <1>1, <1>5, <3>1, ServeFrame
  <2>4. cur' \in Request
    <3>1. CASE Accept
      BY <3>1, AcceptTakes
    <3>2. ASSUME Serve \/ HelperDies, ~Accept
          PROVE  cur' = cur \/ cur' = NoRequest
      BY <3>2 DEF Serve, Probe, Write, ApplyFails, Restart, RestartFails, IsActive, Restore,
         RestoreFails, Reload, Audit, AuditFails, Reply, HelperStarts, HelperDies
    <3> QED
      BY <1>1, <1>3, <1>5, <3>1, <3>2
  <2>5. /\ step' \in Steps /\ outcome' \in {"none", "success", "error"}
        /\ before' \in SUBSET Ids
        /\ config' \in SUBSET Ids /\ served' \in SUBSET Ids /\ audited' \in SUBSET Ids
    <3> USE <1>1, <1>3 DEF Steps, app, helper, virtualhere, audit
    <3>1. CASE Accept
      BY <3>1 DEF Accept
    <3>2. CASE Probe \/ Write \/ ApplyFails
      BY <3>2 DEF Probe, Write, ApplyFails
    <3>3. CASE Restart \/ RestartFails \/ IsActive
      BY <3>3 DEF Restart, RestartFails, IsActive
    <3>4. CASE Restore \/ RestoreFails \/ Reload
      BY <3>4 DEF Restore, RestoreFails, Reload
    <3>5. CASE Audit \/ AuditFails
      BY <3>5 DEF Audit, AuditFails
    <3>6. CASE Reply \/ HelperStarts \/ HelperDies
      BY <3>6 DEF Reply, HelperStarts, HelperDies
    <3> QED
      BY <1>5, <3>1, <3>2, <3>3, <3>4, <3>5, <3>6 DEF Serve
  <2>6. stale' \in BOOLEAN /\ unaudited' \in BOOLEAN
    <3> USE <1>2 DEF virtualhere, audit
    <3>1. CASE Accept \/ Probe \/ Write \/ ApplyFails \/ Restart \/ RestartFails
      BY <3>1, Zenon DEF Accept, Probe, Write, ApplyFails, Restart, RestartFails
    <3>2. CASE IsActive \/ Restore \/ RestoreFails \/ Audit \/ AuditFails \/ Reply \/ HelperStarts
      BY <3>2, Zenon DEF IsActive, Restore, RestoreFails, Audit, AuditFails, Reply, HelperStarts
    <3>3. CASE Reload \/ HelperDies
      BY <3>3, Zenon DEF Reload, HelperDies
    <3> QED
      BY <1>5, <3>1, <3>2, <3>3 DEF Serve
  <2> QED
    BY <1>1, <2>1, <2>2, <2>3, <2>4, <2>5, <2>6, Zenon DEF TypeOK
<1> QED
  BY <1>4, <1>5

(* The lock is held from Lock to Release. *)
LEMMA LockHeldStep ==
  ASSUME IInv, Next
  PROVE  LockHeld'
<1> USE NoThreadAssumption
<1>1. /\ pc \in [Threads -> {"idle", "connecting", "capturing", "checking", "sending",
                             "waiting", "release"}]
      /\ \A t \in Threads : pc[t] # "idle" <=> lock = t
  BY DEF IInv, TypeOK, LockHeld
<1>2. ASSUME NEW t \in Threads, Lock(t) \/ Handle(t)
      PROVE  LockHeld'
  <2>1. CASE Lock(t)
    BY <1>1, <2>1 DEF Lock, Goto, LockHeld
  <2>2. CASE Connect(t) \/ EndCapture(t) \/ Check(t) \/ Send(t) \/ SendFails(t) \/ Timeout(t)
    BY <1>1, <2>2 DEF Connect, EndCapture, Check, Send, SendFails, Timeout, Goto, LockHeld
  <2>3. CASE Release(t)
    BY <1>1, <2>3 DEF Release, Goto, LockHeld
  <2> QED
    BY <1>2, <2>1, <2>2, <2>3 DEF Handle
<1>3. CASE Disconnect \/ AppDies
  BY <1>1, <1>3 DEF Disconnect, AppDies, LockHeld
<1>4. CASE Serve \/ HelperDies
  <2>1. cur.by # NoThread => pc[cur.by] = "waiting"
    BY DEF IInv, OneWaits
  <2> QED
    BY <1>1, <1>4, <2>1, ServeFrame DEF LockHeld
<1>5. CASE Plug \/ VirtualHereStarts
  BY <1>1, <1>5 DEF Plug, VirtualHereStarts, app, LockHeld
<1> QED
  BY <1>2, <1>3, <1>4, <1>5 DEF Next

(* At most one request still has somebody waiting for it. *)
LEMMA OneWaitsStep ==
  ASSUME IInv, Next
  PROVE  OneWaits'
<1> USE NoThreadAssumption
<1>1. /\ pc \in [Threads -> {"idle", "connecting", "capturing", "checking", "sending",
                             "waiting", "release"}]
      /\ \A t \in Threads : pc[t] # "idle" <=> lock = t
      /\ queue \in Seq(Request) /\ Len(queue) \in Nat
      /\ cur.by \in Threads \cup {NoThread}
      /\ TypeOK
  BY DEF IInv, TypeOK, LockHeld, Request
<1>0. \A i \in 1..Len(queue) : queue[i].by \in Threads \cup {NoThread}
  <2>1. \A i \in 1..Len(queue) : queue[i] \in Request
    BY <1>1, ElementOfSeq
  <2> QED
    BY <2>1 DEF Request
<1>2. /\ cur.by # NoThread =>
           pc[cur.by] = "waiting" /\ \A i \in 1..Len(queue) : queue[i].by = NoThread
      /\ \A i \in 1..Len(queue) : queue[i].by # NoThread =>
           /\ pc[queue[i].by] = "waiting"
           /\ \A j \in 1..Len(queue) \ {i} : queue[j].by = NoThread
  BY DEF IInv, OneWaits
<1>3. ASSUME NEW t \in Threads, Lock(t) \/ Handle(t)
      PROVE  OneWaits'
  <2>1. CASE Lock(t) \/ Connect(t) \/ EndCapture(t) \/ Check(t) \/ SendFails(t) \/ Release(t)
    <3>1. /\ pc[t] # "waiting" /\ queue' = queue /\ cur' = cur
          /\ \A u \in Threads \ {t} : pc'[u] = pc[u]
      BY <1>1, <2>1 DEF Lock, Connect, EndCapture, Check, SendFails, Release, Goto, helper
    <3> QED
      BY <1>0, <1>1, <1>2, <3>1 DEF OneWaits
  <2>2. CASE Send(t)
    <3>1. /\ pc[t] = "sending" /\ pc' = [pc EXCEPT ![t] = "waiting"] /\ cur' = cur
      BY <2>2 DEF Send, Goto, helper
    <3>2. \A u \in Threads : pc[u] # "waiting"
      BY <1>1, <3>1
    <3>3. cur.by = NoThread /\ \A i \in 1..Len(queue) : queue[i].by = NoThread
      BY <1>0, <1>1, <1>2, <3>2
    <3>4. PICK r \in Request :
            /\ r.by = t /\ Len(queue') = Len(queue) + 1
            /\ queue'[Len(queue) + 1] = r
            /\ \A i \in 1..Len(queue) : queue'[i] = queue[i]
      BY <1>1, <2>2, SendAppends
    <3>5. \A i \in 1..Len(queue') : i = Len(queue) + 1 \/ i \in 1..Len(queue)
      BY <1>1, <3>4
    <3> QED
      BY <1>0, <1>1, <3>1, <3>3, <3>4, <3>5 DEF OneWaits
  <2>3. CASE Timeout(t)
    <3>1. pc[t] = "waiting" /\ Abandon({t}) /\ {t} \in SUBSET Threads
      BY <2>3 DEF Timeout
    <3>2. cur.by \in {t, NoThread} /\ \A i \in 1..Len(queue) : queue[i].by \in {t, NoThread}
      BY <1>0, <1>1, <1>2, <3>1
    <3>3. cur'.by = NoThread /\ \A i \in 1..Len(queue') : queue'[i].by = NoThread
      BY <1>0, <1>1, <3>1, <3>2, AbandonKeeps
    <3> QED
      BY <3>3 DEF OneWaits
  <2> QED
    BY <1>3, <2>1, <2>2, <2>3 DEF Handle
<1>4. CASE AppDies
  <2>1. Abandon(Threads) /\ Threads \in SUBSET Threads
    BY <1>4 DEF AppDies
  <2>2. cur'.by = NoThread /\ \A i \in 1..Len(queue') : queue'[i].by = NoThread
    BY <1>0, <1>1, <2>1, AbandonKeeps
  <2> QED
    BY <2>2 DEF OneWaits
<1>5. CASE Disconnect \/ Plug \/ VirtualHereStarts
  <2>1. pc' = pc /\ queue' = queue /\ cur' = cur
    BY <1>5 DEF Disconnect, Plug, VirtualHereStarts, app, helper
  <2> QED
    BY <1>2, <2>1 DEF OneWaits
<1>6. CASE Accept
  <2>1. /\ cur' = queue[1] /\ Len(queue') = Len(queue) - 1 /\ 1 \in 1..Len(queue)
        /\ \A i \in 1..Len(queue') : queue'[i] = queue[i + 1]
    BY <1>1, <1>6, AcceptTakes
  <2>2. pc' = pc
    BY <1>6 DEF Accept, app
  <2>3. \A i \in 1..Len(queue') : i + 1 \in 1..Len(queue) \ {1}
    BY <1>1, <2>1
  <2>4. \A i \in 1..Len(queue') : \A j \in 1..Len(queue') \ {i} :
         j + 1 \in 1..Len(queue) \ {i + 1}
    BY <1>1, <2>1
  <2>5. cur'.by # NoThread =>
          pc'[cur'.by] = "waiting" /\ \A i \in 1..Len(queue') : queue'[i].by = NoThread
    BY <1>2, <2>1, <2>2, <2>3
  <2>6. ASSUME NEW i \in 1..Len(queue'), queue'[i].by # NoThread
        PROVE  /\ pc'[queue'[i].by] = "waiting"
               /\ \A j \in 1..Len(queue') \ {i} : queue'[j].by = NoThread
    <3>1. i + 1 \in 1..Len(queue) /\ queue'[i] = queue[i + 1]
      BY <2>1, <2>3
    <3>2. \A j \in 1..Len(queue) \ {i + 1} : queue[j].by = NoThread
      BY <1>2, <2>6, <3>1
    <3> QED
      BY <1>2, <2>1, <2>2, <2>4, <2>6, <3>1, <3>2
  <2> QED
    BY <2>5, <2>6 DEF OneWaits
<1>7. CASE (Serve \/ HelperDies) /\ ~Accept
  <2>1. CASE Reply \/ HelperDies
    <3>1. /\ cur'.by = NoThread /\ queue' = queue
          /\ cur.by = NoThread => pc' = pc
          /\ cur.by # NoThread => \A u \in Threads \ {cur.by} : pc'[u] = pc[u]
      BY <1>1, <2>1 DEF Reply, HelperDies, NoRequest, Goto
    <3> QED
      BY <1>0, <1>1, <1>2, <3>1 DEF OneWaits
  <2>2. CASE ~(Reply \/ HelperDies)
    <3>1. cur' = cur /\ queue' = queue /\ pc' = pc
      BY <1>7, <2>2 DEF Serve, Probe, Write, ApplyFails, Restart, RestartFails, IsActive,
         Restore, RestoreFails, Reload, Audit, AuditFails, HelperStarts, app
    <3> QED
      BY <1>2, <3>1 DEF OneWaits
  <2> QED
    BY <2>1, <2>2
<1> QED
  BY <1>3, <1>4, <1>5, <1>6, <1>7 DEF Next

(* Local hardware is not in use while an apply is sent and waited for: to  *)
(* use it takes the lock, which the apply holds since it looked.           *)
LEMMA ExcludesStep ==
  ASSUME IInv, Next
  PROVE  RoutingExcludesHardware'
<1>1. /\ pc \in [Threads -> {"idle", "connecting", "capturing", "checking", "sending",
                             "waiting", "release"}]
      /\ \A t \in Threads : pc[t] # "idle" <=> lock = t
      /\ cur.by \in Threads \cup {NoThread}
  BY DEF IInv, TypeOK, LockHeld, Request
<1>2. \A t \in Threads : pc[t] \in {"sending", "waiting"} =>
        obd # "hardware" /\ \A u \in Threads : pc[u] # "capturing"
  BY DEF IInv, RoutingExcludesHardware, InUse
<1>3. ASSUME NEW t \in Threads, Lock(t) \/ Handle(t)
      PROVE  RoutingExcludesHardware'
  <2>1. CASE Lock(t)
    <3>1. lock = NoThread /\ lock # t
      BY <2>1, NoThreadAssumption DEF Lock
    <3>2. \A u \in Threads : pc[u] = "idle"
      BY <1>1, <3>1, NoThreadAssumption
    <3>3. \A u \in Threads : pc'[u] \notin {"sending", "waiting"}
      BY <1>1, <2>1, <3>2 DEF Lock, Goto
    <3> QED
      BY <3>3 DEF RoutingExcludesHardware
  <2>2. CASE Connect(t)
    <3>1. pc[t] = "connecting" /\ pc' = [pc EXCEPT ![t] = "release"]
      BY <2>2 DEF Connect, Goto
    <3>2. \A u \in Threads : pc'[u] \notin {"sending", "waiting"}
      BY <1>1, <3>1
    <3> QED
      BY <3>2 DEF RoutingExcludesHardware
  <2>3. CASE Check(t)
    <3>1. /\ pc[t] = "checking" /\ obd' = obd
          /\ \A u \in Threads \ {t} : pc'[u] = pc[u] /\ pc[u] = "idle"
      BY <1>1, <2>3 DEF Check, Goto
    <3>2. InUse => pc'[t] = "release"
      BY <1>1, <2>3 DEF Check, Goto
    <3>3. ~InUse => ~InUse'
      BY <1>1, <2>3, <3>1 DEF InUse, Check, Goto
    <3> QED
      BY <3>1, <3>2, <3>3 DEF RoutingExcludesHardware
  <2>4. CASE EndCapture(t) \/ Send(t) \/ SendFails(t) \/ Timeout(t) \/ Release(t)
    <3>1. /\ obd' = obd
          /\ \A u \in Threads :
               /\ pc'[u] = "capturing" => pc[u] = "capturing"
               /\ pc'[u] \in {"sending", "waiting"} => pc[u] \in {"sending", "waiting"}
      BY <1>1, <2>4 DEF EndCapture, Send, SendFails, Timeout, Release, Goto
    <3> QED
      BY <1>2, <3>1 DEF RoutingExcludesHardware, InUse
  <2> QED
    BY <1>3, <2>1, <2>2, <2>3, <2>4 DEF Handle
<1>4. CASE Disconnect \/ AppDies
  BY <1>2, <1>4 DEF Disconnect, AppDies, RoutingExcludesHardware, InUse
<1>5. CASE Serve \/ HelperDies
  <2>1. /\ obd' = obd
        /\ \A u \in Threads : pc'[u] = pc[u] \/ pc'[u] = "release"
    BY <1>1, <1>5, ServeFrame
  <2> QED
    BY <1>2, <2>1 DEF RoutingExcludesHardware, InUse
<1>6. CASE Plug \/ VirtualHereStarts
  BY <1>2, <1>6 DEF Plug, VirtualHereStarts, app, RoutingExcludesHardware, InUse
<1> QED
  BY <1>3, <1>4, <1>5, <1>6 DEF Next

(* What the helper knows survives each of its steps, and nobody else       *)
(* writes the allowlist or the audit.                                      *)
LEMMA HelperKnowsStep ==
  ASSUME IInv, Next
  PROVE  HelperKnows' /\ ErrorLeavesConfig'
<1> USE DEF HelperKnows, ErrorLeavesConfig
<1>1. HelperKnows /\ ErrorLeavesConfig /\ TypeOK
  BY DEF IInv
<1>2. CASE (\E t \in Threads : Lock(t) \/ Handle(t)) \/ Disconnect \/ AppDies \/ Plug
  <2>1. /\ step' = step /\ before' = before /\ outcome' = outcome
        /\ cur'.seen = cur.seen /\ cur'.chosen = cur.chosen
        /\ config' = config /\ served' = served /\ stale' = stale
        /\ audited' = audited /\ unaudited' = unaudited
    BY <1>1, <1>2, AppFrame
  <2>2. Want' = Want
    BY <2>1 DEF Want
  <2> QED
    BY <1>1, <2>1, <2>2
<1>3. CASE VirtualHereStarts
  BY <1>1, <1>3 DEF VirtualHereStarts, helper, audit, Want
<1>4. CASE Accept
  BY <1>1, <1>4 DEF Accept, virtualhere, audit
<1>5. CASE Probe
  <2>1. step = "probe" /\ UNCHANGED <<cur, before, config, served, stale, audited, unaudited>>
    BY <1>5 DEF Probe, virtualhere, audit
  <2>2. CASE Acceptable(plugged, cur)
    <3>1. step' = "write" /\ outcome' = outcome
      BY <1>5, <2>2 DEF Probe
    <3>2. /\ cur'.chosen \subseteq cur'.seen
          /\ \A d \in cur'.chosen, e \in cur'.seen : IdOf[e] = IdOf[d] => e = d
      BY <2>1, <2>2 DEF Acceptable
    <3> QED
      BY <1>1, <2>1, <3>1, <3>2
  <2>3. CASE ~Acceptable(plugged, cur)
    <3>1. step' = "audit" /\ outcome' = "error"
      BY <1>5, <2>3 DEF Probe
    <3> QED
      BY <1>1, <2>1, <3>1
  <2> QED
    BY <2>2, <2>3
<1>6. CASE Write
  <2>1. /\ step = "write" /\ config' = Want /\ Want' = Want
        /\ UNCHANGED <<cur, before, served, stale, audited, unaudited>>
    BY <1>6 DEF Write, Want, audit
  <2>2. CASE config = Want
    <3>1. step' = "audit" /\ outcome' = "success"
      BY <1>6, <2>2 DEF Write
    <3> QED
      BY <1>1, <2>1, <2>2, <3>1
  <2>3. CASE config # Want
    <3>1. step' = "restart" /\ outcome' = outcome
      BY <1>6, <2>3 DEF Write
    <3> QED
      BY <1>1, <2>1, <3>1
  <2> QED
    BY <2>2, <2>3
<1>7. CASE ApplyFails
  BY <1>1, <1>7 DEF ApplyFails, Want, virtualhere, audit
<1>8. CASE Restart \/ RestartFails
  BY <1>1, <1>8 DEF Restart, RestartFails, Want, audit
<1>9. CASE IsActive
  BY <1>1, <1>9 DEF IsActive, Want, audit
<1>10. CASE Restore \/ RestoreFails
  BY <1>1, <1>10 DEF Restore, RestoreFails, Want, audit
<1>11. CASE Reload
  <2>1. /\ step = "reload" /\ step' = "audit" /\ outcome' = "error"
        /\ config' = config /\ before' = before
    BY <1>11 DEF Reload
  <2>2. served' = config' \/ stale'
    BY <1>11, <2>1, Zenon DEF Reload
  <2> QED
    BY <1>1, <2>1, <2>2
<1>12. CASE Audit \/ AuditFails
  BY <1>1, <1>12 DEF Audit, AuditFails, Want, virtualhere
<1>13. CASE Reply \/ HelperStarts
  BY <1>1, <1>13 DEF Reply, HelperStarts, virtualhere, audit
<1>14. CASE HelperDies
  <2>1. step' = "dead" /\ outcome' = "none" /\ config' = config
    BY <1>14 DEF HelperDies
  <2>2. served' = config' \/ stale'
    BY <1>14, Zenon DEF HelperDies
  <2>3. audited' = config' \/ unaudited'
    BY <1>14, Zenon DEF HelperDies
  <2> QED
    BY <2>1, <2>2, <2>3
<1> QED
  BY <1>2, <1>3, <1>4, <1>5, <1>6, <1>7, <1>8, <1>9, <1>10, <1>11, <1>12, <1>13, <1>14
     DEF Next, Serve

(* Steps that change nothing keep the invariant. *)
LEMMA StutterStep ==
  ASSUME IInv, UNCHANGED vars
  PROVE  IInv'
<1> USE DEF vars
<1>1. TypeOK'
  <2>1. TypeOK
    BY DEF IInv
  <2> QED
    BY <2>1, Zenon DEF TypeOK
<1>2. LockHeld' /\ OneWaits' /\ RoutingExcludesHardware'
  BY DEF IInv, LockHeld, OneWaits, RoutingExcludesHardware, InUse
<1>3. HelperKnows' /\ ErrorLeavesConfig'
  BY DEF IInv, HelperKnows, ErrorLeavesConfig, Want
<1> QED
  BY <1>1, <1>2, <1>3 DEF IInv

(* The inductive invariant of routing: who holds the lock and waits, that  *)
(* an apply excludes local hardware, and what the helper knows of the      *)
(* allowlist, of VirtualHere and of the audit at each step.                *)
THEOREM RoutingInvariance == Spec => []IInv
<1>1. IInv /\ [Next]_vars => IInv'
  <2> SUFFICES ASSUME IInv, [Next]_vars PROVE IInv'
    OBVIOUS
  <2>1. CASE Next
    <3>1. TypeOK'
      <4>1. TypeOK /\ OneWaits
        BY DEF IInv
      <4> QED
        BY <2>1, <4>1, AppTypes, HelperTypes DEF Next
    <3> QED
      BY <2>1, <3>1, LockHeldStep, OneWaitsStep, ExcludesStep, HelperKnowsStep DEF IInv
  <2> QED
    BY <2>1, StutterStep
<1> QED
  BY <1>1, InitIInv, PTL DEF Spec

(* Routing's state keeps its types: what the lock holds, the queue of the  *)
(* helper and the allowlist in the file (UsbRoutingService, helper main).  *)
THEOREM RoutingTypes == Spec => []TypeOK
<1>1. IInv => TypeOK
  BY DEF IInv
<1> QED
  BY <1>1, RoutingInvariance, PTL

(* A hardware capture or connection never runs while an apply is waited    *)
(* for (apply_usb_routing, usb_routing_obd_lock).                          *)
THEOREM HardwareIsExcluded == Spec => []RoutingExcludesHardware
<1>1. IInv => RoutingExcludesHardware
  BY DEF IInv
<1> QED
  BY <1>1, RoutingInvariance, PTL

(* The audit names the allowlist in the file (JsonlAuditLog).              *)
THEOREM AuditIsTrue == Spec => []AuditMatchesConfig
<1>1. IInv => AuditMatchesConfig
  BY DEF IInv, HelperKnows, AuditMatchesConfig
<1> QED
  BY <1>1, RoutingInvariance, PTL

(* What is answered with success is in force, and a failed apply changes   *)
(* nothing, but after a failed reload (apply_allowed_devices).             *)
THEOREM AnswersHold == Spec => []AnswersAreTrue
<1>1. IInv => SuccessIsServed
  BY DEF IInv, HelperKnows, SuccessIsServed
<1>2. IInv => ErrorLeavesConfig
  BY DEF IInv
<1>3. IInv => AnswersAreTrue
  BY <1>1, <1>2 DEF AnswersAreTrue
<1> QED
  BY <1>3, RoutingInvariance, PTL

(* What the operator did not select is never exported: VID:PIDs name one   *)
(* device each in the inventory he confirmed (plan_virtualhere_allowlist). *)
THEOREM ExportsAreConfirmed == Spec => ExportsConfirmed
<1> DEFINE Confirmed ==
      config' # config =>
        \/ config' = before
        \/ \A d \in cur.seen : IdOf[d] \in config' <=> d \in cur.chosen
<1>1. IInv /\ [Next]_vars => [Confirmed]_vars
  <2> SUFFICES ASSUME IInv, Next, config' # config
               PROVE  \/ config' = before
                      \/ \A d \in cur.seen : IdOf[d] \in config' <=> d \in cur.chosen
    OBVIOUS
  <2>1. CASE Write
    <3>1. config' = Want /\ step = "write"
      BY <2>1 DEF Write
    <3>2. /\ cur.chosen \subseteq cur.seen
          /\ \A d \in cur.chosen, e \in cur.seen : IdOf[e] = IdOf[d] => e = d
      BY <3>1 DEF IInv, HelperKnows
    <3> QED
      BY <3>1, <3>2 DEF Want
  <2>2. CASE Restore
    BY <2>2 DEF Restore
  <2>3. CASE ~Write /\ ~Restore
    <3>1. config' = config
      <4>1. TypeOK
        BY DEF IInv
      <4>2. CASE Serve \/ HelperDies \/ VirtualHereStarts
        BY <2>3, <4>2 DEF Serve, Accept, Probe, ApplyFails, Restart, RestartFails, IsActive,
           RestoreFails, Reload, Audit, AuditFails, Reply, HelperStarts, HelperDies,
           VirtualHereStarts, virtualhere
      <4> QED
        BY <4>1, <4>2, AppFrame DEF Next
    <3> QED
      BY <3>1
  <2> QED
    BY <2>1, <2>2, <2>3
<1> QED
  BY <1>1, RoutingInvariance, PTL DEF Spec, ExportsConfirmed
================================================================================
