---------------------------- MODULE ModbusScanProofs ----------------------------
(* Proofs about ModbusScan for any request threads, hosts, gateways,       *)
(* interfaces and number of workers.                                       *)
EXTENDS ModbusScan, FiniteSetTheorems, TLAPS

(* No scan runs at first. *)
LEMMA InitIInv == Init => IInv
<1> SUFFICES ASSUME Init PROVE IInv
  OBVIOUS
<1> USE NoThreadAssumption DEF Init
<1>1. TypeOK
  BY DEF TypeOK, Steps
<1>2. \A t \in Threads : ThreadOK(t) /\ ScanAt(t)
  BY DEF ThreadOK, ScanAt, Scanning
<1>3. Fresh /\ PoolOK
  BY DEF Fresh, PoolOK, In
<1> QED
  BY <1>1, <1>2, <1>3 DEF IInv

(* The scan lock admits one thread to the scan. *)
LEMMA ScannerAlone ==
  ASSUME NEW t \in Threads, IInv, pc[t] \in Scanning
  PROVE  scanning = t /\ \A u \in Threads \ {t} : pc[u] \notin Scanning
BY DEF IInv, ThreadOK

(* What a thread that is not scanning says of the scan, nothing, survives. *)
LEMMA OutsiderUndisturbed ==
  ASSUME NEW u \in Threads, IInv, pc[u] \notin Scanning, pc'[u] = pc[u], using'[u] = using[u],
         scanning' # u, manager # NoThread => manager' # NoThread
  PROVE  ThreadOK(u)' /\ ScanAt(u)'
<1>1. ThreadOK(u)
  BY DEF IInv
<1> QED
  BY <1>1 DEF ThreadOK, ScanAt, Scanning
--------------------------------------------------------------------------------
(* The requests' way to the scan and back. *)
FrontDoor(t) ==
  Request(t) \/ Check(t) \/ Create(t) \/ Pick(t) \/ Lock(t) \/ Unlock(t)

LEMMA FrontDoorStep == ASSUME NEW t \in Threads, IInv, FrontDoor(t) PROVE IInv'
<1> USE NoThreadAssumption
<1>1. ThreadOK(t) /\ pc[t] \in Steps
  BY DEF IInv, TypeOK
<1>2. /\ pc[t] \notin Scanning /\ pc'[t] \notin Scanning
      /\ pc' = [pc EXCEPT ![t] = pc'[t]] /\ pc'[t] \in Steps
      /\ using' = [using EXCEPT ![t] = using'[t]]
      /\ using'[t] \in Threads \cup {NoThread}
      /\ manager' \in {manager, t} /\ busy' \in SUBSET Threads
      /\ pc'[t] = "pick" => manager' # NoThread
      /\ pc'[t] \in {"lock", "scanlock", "unlock"} => using'[t] # NoThread
  BY <1>1 DEF FrontDoor, Request, Check, Create, Pick, Lock, Unlock, Goto, IInv, TypeOK,
              ThreadOK, Steps, Scanning
<1>3. UNCHANGED <<scan, heard, todo, pool, report>>
  BY DEF FrontDoor, Request, Check, Create, Pick, Lock, Unlock
<1>4. /\ scanning' = scanning /\ cooling' = cooling /\ on' = on /\ late' = late
      /\ heard' = heard /\ todo' = todo /\ pending' = pending /\ batch' = batch
      /\ probe' = probe /\ outcome' = outcome
      /\ transactions' = transactions /\ found' = found /\ truncated' = truncated
  BY <1>3 DEF scan, pool, report
<1>5. TypeOK'
  BY <1>2, <1>4 DEF IInv, TypeOK
<1>6. ThreadOK(t)' /\ ScanAt(t)'
  BY <1>1, <1>2, <1>4 DEF ThreadOK, ScanAt, Scanning, IInv, TypeOK
<1>7. ASSUME NEW u \in Threads \ {t} PROVE ThreadOK(u)' /\ ScanAt(u)'
  <2>1. ThreadOK(u) /\ ScanAt(u) /\ pc'[u] = pc[u] /\ using'[u] = using[u]
    BY <1>2 DEF IInv, TypeOK
  <2>2. manager # NoThread => manager' # NoThread
    BY <1>2
  <2>3. Candidates' = Candidates /\ \A state : In(state)' = In(state)
    BY <1>4 DEF Candidates, In
  <2> QED
    BY <1>4, <2>1, <2>2, <2>3 DEF ThreadOK, ScanAt, Fresh, Accounted
<1>8. PoolOK' /\ (scanning = NoThread => Fresh)'
  BY <1>4 DEF IInv, PoolOK, Fresh, Candidates, In
<1> QED
  BY <1>5, <1>6, <1>7, <1>8 DEF IInv
--------------------------------------------------------------------------------
(* The clock. *)

(* A deadline asks less of the report, and none of what it asks changes.   *)
LEMMA ClockStep == ASSUME IInv, Deadline \/ Cooled PROVE IInv'
<1>1. /\ scanning' = scanning /\ on' = on /\ cooling' \subseteq cooling
      /\ UNCHANGED <<requests, heard, todo, pool, report>>
      /\ late' \in BOOLEAN /\ (late => late')
  BY DEF Deadline, Cooled, IInv, TypeOK
<1>2. /\ manager' = manager /\ pc' = pc /\ using' = using /\ busy' = busy
      /\ heard' = heard /\ todo' = todo /\ pending' = pending /\ batch' = batch
      /\ probe' = probe /\ outcome' = outcome
      /\ transactions' = transactions /\ found' = found /\ truncated' = truncated
  BY <1>1 DEF requests, pool, report
<1>3. TypeOK'
  BY <1>1, <1>2 DEF IInv, TypeOK
<1>4. Candidates' = Candidates /\ \A state : In(state)' = In(state)
  BY <1>2 DEF Candidates, In
<1>5. ASSUME NEW t \in Threads PROVE ThreadOK(t)' /\ ScanAt(t)'
  <2>1. ThreadOK(t) /\ ScanAt(t)
    BY DEF IInv
  <2>2. ThreadOK(t)'
    BY <1>1, <1>2, <2>1 DEF ThreadOK
  <2>3. (Fresh' <=> Fresh) /\ (Accounted' <=> Accounted)
    BY <1>2, <1>4 DEF Fresh, Accounted
  <2>4. ScanAt(t)'
    BY <1>1, <1>2, <1>4, <2>1, <2>3 DEF ScanAt
  <2> QED
    BY <2>2, <2>4
<1>6. PoolOK' /\ (scanning = NoThread => Fresh)'
  BY <1>1, <1>2, <1>4 DEF IInv, TypeOK, PoolOK, Fresh
<1> QED
  BY <1>3, <1>5, <1>6 DEF IInv
--------------------------------------------------------------------------------
(* The pool's workers. *)

(* A probe begins and ends among the pending ones, or among those cancel   *)
(* left to finish; what the report says rests on neither.                  *)
LEMMA ProbeStep == ASSUME NEW h \in Hosts, IInv, StartProbe(h) \/ EndProbe(h) PROVE IInv'
<1>1. /\ \/ probe[h] = "queued" /\ probe' = [probe EXCEPT ![h] = "running"] /\ outcome' = outcome
         \/ /\ probe[h] = "running" /\ probe' = [probe EXCEPT ![h] = "done"]
            /\ \E o \in Outcomes : outcome' = [outcome EXCEPT ![h] = o]
      /\ UNCHANGED <<requests, scan, heard, todo, pending, batch, report>>
  BY DEF StartProbe, EndProbe
<1>2. /\ manager' = manager /\ pc' = pc /\ using' = using /\ busy' = busy
      /\ scanning' = scanning /\ cooling' = cooling /\ on' = on /\ late' = late
      /\ heard' = heard /\ todo' = todo /\ pending' = pending /\ batch' = batch
      /\ transactions' = transactions /\ found' = found /\ truncated' = truncated
  BY <1>1 DEF requests, scan, report
<1>3. TypeOK'
  BY <1>1, <1>2 DEF IInv, TypeOK
<1>4. /\ \A g \in Hosts \ {h} : probe'[g] = probe[g] /\ outcome'[g] = outcome[g]
      /\ \/ probe[h] = "queued" /\ probe'[h] = "running"
         \/ probe[h] = "running" /\ probe'[h] = "done" /\ outcome'[h] \in Outcomes
  BY <1>1 DEF IInv, TypeOK
<1>5. Candidates' = Candidates
  BY <1>2 DEF Candidates
<1>6. /\ In("queued")' \subseteq In("queued")
      /\ In("running")' \subseteq In("queued") \cup In("running")
      /\ In("done") \subseteq In("done")'
  BY <1>4 DEF In
<1>7. ~Fresh
  BY <1>4 DEF Fresh
<1>8. PoolOK'
  <2>1. PoolOK
    BY DEF IInv
  <2>2. h \in Candidates /\ h \notin todo /\ h \notin transactions /\ h \notin found
    BY <1>4, <2>1 DEF PoolOK
  <2>3. /\ \A g \in todo' : probe'[g] = "none" /\ g \in Candidates'
        /\ \A g \in pending' : probe'[g] \in {"queued", "running", "done"}
        /\ \A g \in transactions' : probe'[g] \in {"done", "cancelled"}
        /\ \A g \in Hosts : probe'[g] # "none" => g \in Candidates'
    BY <1>2, <1>4, <1>5, <2>1, <2>2 DEF IInv, TypeOK, PoolOK
  <2>4. \A g \in In("done")' : outcome'[g] \in Outcomes
    BY <1>4, <2>1 DEF PoolOK, In
  <2>5. \A g \in found' : probe'[g] = "done" /\ outcome'[g] # "unreachable"
    BY <1>2, <1>4, <2>1, <2>2 DEF IInv, TypeOK, PoolOK
  <2> QED
    BY <1>2, <2>1, <2>3, <2>4, <2>5 DEF PoolOK
<1>9. ASSUME NEW t \in Threads PROVE ThreadOK(t)' /\ ScanAt(t)'
  <2>1. ThreadOK(t) /\ ScanAt(t)
    BY DEF IInv
  <2>2. ThreadOK(t)'
    BY <1>2, <2>1 DEF ThreadOK
  <2>3. Accounted => Accounted'
    BY <1>2, <1>5, <1>6 DEF Accounted
  <2>4. pc[t] \in {"report", "scanned"} => In("running")' = {}
    BY <1>6, <2>1 DEF ScanAt
  <2>5. ScanAt(t)'
    BY <1>2, <1>5, <1>6, <1>7, <2>1, <2>3, <2>4 DEF ScanAt
  <2> QED
    BY <2>2, <2>5
<1>10. scanning # NoThread
  BY <1>7 DEF IInv
<1> QED
  BY <1>2, <1>3, <1>8, <1>9, <1>10 DEF IInv
--------------------------------------------------------------------------------
(* The scan's own thread. *)

(* What a step of the scanner leaves to the other threads, and to itself   *)
(* of the requests' locks.                                                 *)
LEMMA OthersOutside ==
  ASSUME NEW t \in Threads, IInv, pc[t] \in Scanning,
         pc' = [pc EXCEPT ![t] = pc'[t]], pc'[t] \in Scanning \cup {"unlock"},
         UNCHANGED <<manager, using>>,
         scanning' \in {t, NoThread}, pc'[t] \in Scanning <=> scanning' = t
  PROVE  ThreadOK(t)' /\ \A u \in Threads \ {t} : ThreadOK(u)' /\ ScanAt(u)'
<1>1. ThreadOK(t)'
  <2>1. ThreadOK(t)
    BY DEF IInv
  <2> QED
    BY <2>1 DEF ThreadOK, Scanning
<1>2. ASSUME NEW u \in Threads \ {t} PROVE ThreadOK(u)' /\ ScanAt(u)'
  <2>1. pc[u] \notin Scanning /\ pc'[u] = pc[u] /\ using'[u] = using[u] /\ scanning' # u
    BY ScannerAlone, NoThreadAssumption DEF IInv, TypeOK
  <2> QED
    BY <2>1, OutsiderUndisturbed
<1> QED
  BY <1>1, <1>2

(* The steps of the scanner that leave the pool alone.                     *)
LEMMA ScanLockStep == ASSUME NEW t \in Threads, IInv, ScanLock(t) PROVE IInv'
<1> USE NoThreadAssumption
<1>1. /\ pc[t] = "scanlock" /\ pc' = [pc EXCEPT ![t] = pc'[t]]
      /\ \/ scanning = NoThread /\ scanning' = t /\ pc'[t] = "cooldown"
         \/ scanning' = scanning /\ pc'[t] = "unlock"
      /\ UNCHANGED <<manager, using, busy, cooling, on, late, heard, todo, pool, report>>
  BY DEF ScanLock, Goto, IInv, TypeOK
<1>2. /\ pending' = pending /\ batch' = batch /\ probe' = probe /\ outcome' = outcome
      /\ transactions' = transactions /\ found' = found /\ truncated' = truncated
  BY <1>1 DEF pool, report
<1>3. TypeOK'
  BY <1>1, <1>2 DEF IInv, TypeOK, Steps, Scanning
<1>4. /\ Candidates' = Candidates /\ \A state : In(state)' = In(state)
      /\ (Fresh' <=> Fresh) /\ (Accounted' <=> Accounted)
  BY <1>1, <1>2 DEF Candidates, In, Fresh, Accounted
<1>5. PoolOK' /\ (scanning = NoThread => Fresh)'
  BY <1>1, <1>2, <1>4 DEF IInv, PoolOK
<1>6. ThreadOK(t)' /\ ScanAt(t)'
  BY <1>1, <1>4 DEF IInv, ThreadOK, ScanAt, Scanning
<1>7. ASSUME NEW u \in Threads \ {t} PROVE ThreadOK(u)' /\ ScanAt(u)'
  <2>1. ThreadOK(u) /\ ScanAt(u) /\ pc'[u] = pc[u] /\ (scanning = u <=> scanning' = u)
    BY <1>1 DEF IInv, TypeOK
  <2> QED
    BY <1>1, <1>2, <1>4, <2>1 DEF ThreadOK, ScanAt
<1> QED
  BY <1>3, <1>5, <1>6, <1>7 DEF IInv

LEMMA CooldownStep == ASSUME NEW t \in Threads, IInv, Cooldown(t) PROVE IInv'
<1> USE NoThreadAssumption
<1>1. /\ pc[t] = "cooldown" /\ pc' = [pc EXCEPT ![t] = pc'[t]]
      /\ pc'[t] \in {"listen", "scanned"}
      /\ on' \in Interfaces /\ cooling' \in SUBSET Interfaces
      /\ UNCHANGED <<manager, using, busy, scanning, late, heard, todo, pool, report>>
  BY DEF Cooldown, Goto, IInv, TypeOK
<1>2. /\ pending' = pending /\ batch' = batch /\ probe' = probe /\ outcome' = outcome
      /\ transactions' = transactions /\ found' = found /\ truncated' = truncated
  BY <1>1 DEF pool, report
<1>3. pc[t] \in Scanning /\ scanning = t /\ Fresh
  BY <1>1, ScannerAlone DEF Scanning, IInv, ScanAt
<1>4. TypeOK'
  BY <1>1, <1>2 DEF IInv, TypeOK, Steps, Scanning
<1>5. Candidates' = Candidates /\ (\A state : In(state)' = In(state)) /\ (Fresh' <=> Fresh)
  BY <1>1, <1>2 DEF Candidates, In, Fresh
<1>6. PoolOK'
  BY <1>1, <1>2, <1>5 DEF IInv, PoolOK
<1>7. ScanAt(t)'
  BY <1>1, <1>3, <1>5 DEF ScanAt, Fresh, In
<1>8. ThreadOK(t)' /\ \A u \in Threads \ {t} : ThreadOK(u)' /\ ScanAt(u)'
  BY <1>1, <1>3, OthersOutside DEF Scanning
<1> QED
  BY <1>1, <1>3, <1>4, <1>6, <1>7, <1>8 DEF IInv

(* A host is excluded if some gateway was heard to be there consistently.  *)
LEMMA ExcludedIsOnLink ==
  ASSUME NEW gateways, NEW h
  PROVE  h \in Excluded(gateways) <=>
           \E m \in Macs : gateways[m].scope = "on_link" /\ gateways[m].ip = h
BY DEF Excluded

(* Gateways are heard while nothing has been submitted. *)
LEMMA HearStep == ASSUME NEW t \in Threads, IInv, Hear(t) PROVE IInv'
<1> USE NoThreadAssumption
<1>1. PICK m \in Macs, source \in Addresses, ip \in Addresses :
        heard' = [heard EXCEPT ![m] = Merge(heard[m], Reply(source, ip))]
  BY DEF Hear
<1>2. pc[t] = "listen" /\ UNCHANGED <<requests, scan, todo, pool, report>>
  BY DEF Hear
<1>3. /\ manager' = manager /\ pc' = pc /\ using' = using /\ busy' = busy
      /\ scanning' = scanning /\ cooling' = cooling /\ on' = on /\ late' = late
      /\ todo' = todo /\ pending' = pending /\ batch' = batch
      /\ probe' = probe /\ outcome' = outcome
      /\ transactions' = transactions /\ found' = found /\ truncated' = truncated
  BY <1>2 DEF requests, scan, pool, report
<1>4. pc[t] \in Scanning /\ scanning = t /\ Fresh
  BY <1>2, ScannerAlone DEF Scanning, IInv, ScanAt
<1>5. Merge(heard[m], Reply(source, ip)) \in Gateway
  <2>1. Reply(source, ip) \in Gateway
    BY DEF Reply, Gateway, Scope
  <2>2. heard[m] \in Gateway \cup {NoGateway}
    BY DEF IInv, TypeOK
  <2>3. CASE heard[m] \notin {NoGateway, Reply(source, ip)}
    BY <2>2, <2>3 DEF Merge, Gateway, Scope
  <2>4. CASE heard[m] \in {NoGateway, Reply(source, ip)}
    BY <2>1, <2>4 DEF Merge
  <2> QED
    BY <2>3, <2>4
<1>6. TypeOK'
  BY <1>1, <1>3, <1>5 DEF IInv, TypeOK
<1>7. (\A state : In(state)' = In(state)) /\ (Fresh' <=> Fresh)
  BY <1>3 DEF In, Fresh
<1>8. PoolOK'
  BY <1>3, <1>4, <1>7 DEF IInv, PoolOK, Fresh
<1>9. ASSUME NEW u \in Threads PROVE ThreadOK(u)' /\ ScanAt(u)'
  <2>1. ThreadOK(u)'
    BY <1>3 DEF IInv, ThreadOK
  <2>2. CASE u = t
    BY <1>2, <1>3, <1>4, <1>7, <2>1, <2>2 DEF ScanAt
  <2>3. CASE u # t
    BY <1>3, <1>4, <2>3, ScannerAlone, OutsiderUndisturbed
  <2> QED
    BY <2>1, <2>2, <2>3
<1> QED
  BY <1>3, <1>4, <1>6, <1>8, <1>9 DEF IInv

LEMMA ListenStep == ASSUME NEW t \in Threads, IInv, Listen(t) PROVE IInv'
<1> USE NoThreadAssumption
<1>1. /\ pc[t] = "listen" /\ pc' = [pc EXCEPT ![t] = "fill"]
      /\ heard' \in {heard, [m \in Macs |-> NoGateway]}
      /\ todo' = Hosts \ Excluded(heard')
      /\ UNCHANGED <<manager, using, busy, scan, pool, report>>
  BY DEF Listen, Goto
<1>2. /\ scanning' = scanning /\ cooling' = cooling /\ on' = on /\ late' = late
      /\ pending' = pending /\ batch' = batch /\ probe' = probe /\ outcome' = outcome
      /\ transactions' = transactions /\ found' = found /\ truncated' = truncated
  BY <1>1 DEF scan, pool, report
<1>3. pc[t] \in Scanning /\ scanning = t /\ Fresh
  BY <1>1, ScannerAlone DEF Scanning, IInv, ScanAt
<1>4. TypeOK'
  BY <1>1, <1>2 DEF IInv, TypeOK, Steps, Scanning
<1>5. todo' = Candidates' /\ In("queued")' = {} /\ In("running")' = {}
  BY <1>1, <1>2, <1>3 DEF Candidates, Fresh, In
<1>6. PoolOK'
  BY <1>1, <1>2, <1>3, <1>5 DEF IInv, PoolOK, Fresh, In, Candidates
<1>7. Accounted'
  BY <1>2, <1>3, <1>5 DEF Accounted, Fresh
<1>8. pc'[t] = "fill"
  BY <1>1 DEF IInv, TypeOK
<1>9. ScanAt(t)'
  BY <1>7, <1>8 DEF ScanAt
<1>10. ThreadOK(t)' /\ \A u \in Threads \ {t} : ThreadOK(u)' /\ ScanAt(u)'
  BY <1>1, <1>2, <1>3, <1>8, OthersOutside DEF Scanning
<1> QED
  BY <1>2, <1>3, <1>4, <1>6, <1>9, <1>10 DEF IInv

(* submit_next moves one host from the iterator to the futures before it,  *)
(* or none, if the deadline has passed or no host is left.                 *)
LEMMA Submitting ==
  ASSUME IInv, NEW before \in SUBSET pending, SubmitNext(before)
  PROVE  /\ todo' \in SUBSET Hosts /\ pending' \in SUBSET Hosts
         /\ probe' \in [Hosts -> {"none", "queued", "running", "done", "cancelled"}]
         /\ todo' \cup pending' = todo \cup before
         /\ todo' \subseteq todo /\ before \subseteq pending'
         /\ ~late /\ pending' = {} => todo' = {}
         /\ \A h \in Hosts : \/ probe'[h] = probe[h]
                             \/ h \in todo \ todo' /\ h \in pending' /\ probe'[h] = "queued"
         /\ \A h \in pending' : h \in before \/ probe'[h] = "queued"
         /\ \A h \in todo' : probe'[h] = "none"
<1>1. /\ todo \in SUBSET Hosts /\ before \in SUBSET Hosts
      /\ probe \in [Hosts -> {"none", "queued", "running", "done", "cancelled"}]
      /\ \A h \in todo : probe[h] = "none"
  BY DEF IInv, TypeOK, PoolOK
<1>2. CASE late \/ todo = {}
  <2>1. CASE pending' = before /\ UNCHANGED <<todo, probe>>
    BY <1>1, <1>2, <2>1
  <2>2. CASE ~late /\ \E h \in todo : todo' = todo \ {h}
    BY <1>2, <2>2
  <2> QED
    BY <2>1, <2>2 DEF SubmitNext
<1>3. CASE ~(late \/ todo = {})
  <2>1. PICK h \in todo : /\ todo' = todo \ {h} /\ pending' = before \cup {h}
                          /\ probe' = [probe EXCEPT ![h] = "queued"]
    BY <1>3 DEF SubmitNext
  <2> QED
    BY <1>1, <2>1
<1> QED
  BY <1>2, <1>3

(* Filling ends only at the deadline, with no host left or with a worker's *)
(* share pending.                                                          *)
LEMMA FillStep == ASSUME NEW t \in Threads, IInv, Fill(t) PROVE IInv'
<1> USE NoThreadAssumption
<1>1. /\ pc[t] = "fill" /\ UNCHANGED <<manager, using, busy, scan, heard, batch, outcome, report>>
      /\ \/ SubmitNext(pending) /\ pc' = pc
         \/ /\ pc' = [pc EXCEPT ![t] = "wait"] /\ UNCHANGED <<todo, pending, probe>>
            /\ ~late /\ pending = {} => todo = {}
  <2>1. pending = {} => Cardinality(pending) < Workers
    BY FS_EmptySet, WorkersAssumption
  <2> QED
    BY <2>1 DEF Fill, Goto
<1>2. /\ scanning' = scanning /\ cooling' = cooling /\ on' = on /\ late' = late
      /\ transactions' = transactions /\ found' = found /\ truncated' = truncated
      /\ manager' = manager /\ using' = using /\ busy' = busy /\ heard' = heard
      /\ batch' = batch /\ outcome' = outcome
  BY <1>1 DEF scan, report
<1>3. pc[t] \in Scanning /\ scanning = t /\ Accounted /\ PoolOK /\ Candidates' = Candidates
  BY <1>1, <1>2, ScannerAlone DEF Scanning, IInv, ScanAt, Candidates
<1>4. pc' = [pc EXCEPT ![t] = pc'[t]] /\ pc'[t] \in {"fill", "wait"}
  BY <1>1 DEF IInv, TypeOK
<1>5. ThreadOK(t)' /\ \A u \in Threads \ {t} : ThreadOK(u)' /\ ScanAt(u)'
  BY <1>2, <1>3, <1>4, OthersOutside DEF Scanning
<1>6. CASE UNCHANGED <<todo, pending, probe>> /\ pc'[t] = "wait" /\ (~late /\ pending = {} => todo = {})
  <2>1. TypeOK'
    BY <1>2, <1>4, <1>6 DEF IInv, TypeOK, Steps, Scanning
  <2>2. (Accounted' <=> Accounted) /\ PoolOK'
    BY <1>2, <1>3, <1>6 DEF Accounted, PoolOK, In
  <2>3. ScanAt(t)'
    BY <1>2, <1>3, <1>6, <2>2 DEF ScanAt
  <2> QED
    BY <1>2, <1>3, <1>5, <2>1, <2>2, <2>3 DEF IInv
<1>7. CASE SubmitNext(pending) /\ pc' = pc
  <2>1. /\ todo' \in SUBSET Hosts /\ pending' \in SUBSET Hosts
        /\ probe' \in [Hosts -> {"none", "queued", "running", "done", "cancelled"}]
        /\ todo' \cup pending' = todo \cup pending
        /\ todo' \subseteq todo /\ pending \subseteq pending'
        /\ \A h \in Hosts : \/ probe'[h] = probe[h]
                            \/ h \in todo \ todo' /\ h \in pending' /\ probe'[h] = "queued"
        /\ \A h \in pending' : h \in pending \/ probe'[h] = "queued"
        /\ \A h \in todo' : probe'[h] = "none"
    BY <1>7, Submitting
  <2>2. TypeOK'
    BY <1>2, <1>7, <2>1 DEF IInv, TypeOK
  <2>3. Accounted'
    BY <1>2, <1>3, <2>1 DEF Accounted, In
  <2>4. PoolOK'
    BY <1>2, <1>3, <2>1 DEF IInv, TypeOK, PoolOK, In
  <2>5. ScanAt(t)'
    BY <1>1, <1>2, <1>7, <2>3 DEF ScanAt
  <2> QED
    BY <1>2, <1>3, <1>5, <2>2, <2>4, <2>5 DEF IInv
<1> QED
  BY <1>1, <1>6, <1>7 DEF IInv, TypeOK

(* wait() and the loop around it: before the deadline the scan goes on     *)
(* until every candidate is in the report.                                 *)
LEMMA WaitStep == ASSUME NEW t \in Threads, IInv, Wait(t) \/ Wake(t) PROVE IInv'
<1> USE NoThreadAssumption
<1>1. /\ pc' = [pc EXCEPT ![t] = pc'[t]]
      /\ \/ pc[t] = "wait" /\ pc'[t] = "cancel" /\ pending = {} /\ truncated' = truncated
         \/ pc[t] = "wait" /\ pc'[t] = "waiting" /\ truncated' = truncated
         \/ pc[t] \in {"wait", "waiting"} /\ pc'[t] = "cancel" /\ late /\ truncated' = TRUE
         \/ /\ pc[t] = "waiting" /\ pc'[t] = "collect" /\ truncated' = truncated
            /\ batch' = pending \cap In("done")
      /\ pc'[t] # "collect" => batch' = batch
      /\ UNCHANGED <<manager, using, busy, scan, heard, todo, pending, probe, outcome,
                     transactions, found>>
  BY DEF Wait, Wake, Goto, pool, IInv, TypeOK
<1>2. scanning' = scanning /\ cooling' = cooling /\ on' = on /\ late' = late
  BY <1>1 DEF scan
<1>3. pc[t] \in Scanning /\ scanning = t /\ Accounted /\ PoolOK /\ ScanAt(t)
  BY <1>1, ScannerAlone DEF Scanning, IInv, ScanAt
<1>4. Candidates' = Candidates /\ (\A state : In(state)' = In(state)) /\ (Accounted' <=> Accounted)
  BY <1>1 DEF Candidates, In, Accounted
<1>5. TypeOK'
  BY <1>1, <1>2 DEF IInv, TypeOK, Steps, Scanning
<1>6. PoolOK'
  BY <1>1, <1>2, <1>3, <1>4 DEF PoolOK
<1>7. pc[t] = "wait" /\ pending = {} /\ ~late => transactions = Candidates
  BY <1>3 DEF ScanAt, Accounted
<1>8. In("queued") \subseteq pending
  BY <1>3 DEF Accounted
<1>9. ScanAt(t)'
  BY <1>1, <1>2, <1>3, <1>4, <1>7, <1>8 DEF ScanAt
<1>10. ThreadOK(t)' /\ \A u \in Threads \ {t} : ThreadOK(u)' /\ ScanAt(u)'
  BY <1>1, <1>2, <1>3, OthersOutside DEF Scanning
<1> QED
  BY <1>2, <1>3, <1>5, <1>6, <1>9, <1>10 DEF IInv

(* An outcome is recorded of a probe that is done, and the next host, if   *)
(* any may still be submitted, takes its place.                            *)
LEMMA CollectStep == ASSUME NEW t \in Threads, IInv, Collect(t) PROVE IInv'
<1> USE NoThreadAssumption
<1>1. PICK h \in batch :
        /\ transactions' = transactions \cup {h}
        /\ found' = IF outcome[h] = "unreachable" THEN found ELSE found \cup {h}
        /\ SubmitNext(pending \ {h})
        /\ batch' = batch \ {h}
  BY DEF Collect
<1>2. /\ pc[t] = "collect" /\ pc' = [pc EXCEPT ![t] = pc'[t]] /\ pc'[t] \in {"wait", "collect"}
      /\ UNCHANGED <<manager, using, busy, scan, heard, outcome, truncated>>
  BY DEF Collect, Goto, IInv, TypeOK
<1>3. scanning' = scanning /\ cooling' = cooling /\ on' = on /\ late' = late
  BY <1>2 DEF scan
<1>4. /\ pc[t] \in Scanning /\ scanning = t /\ Accounted /\ PoolOK
      /\ batch \subseteq pending \cap In("done") /\ Candidates' = Candidates
  BY <1>2, ScannerAlone DEF Scanning, IInv, ScanAt, Candidates
<1>5. h \in Hosts /\ h \in pending /\ probe[h] = "done" /\ outcome[h] \in Outcomes
  BY <1>1, <1>4 DEF In, PoolOK
<1>6. /\ todo' \in SUBSET Hosts /\ pending' \in SUBSET Hosts
      /\ probe' \in [Hosts -> {"none", "queued", "running", "done", "cancelled"}]
      /\ todo' \cup pending' = todo \cup (pending \ {h})
      /\ todo' \subseteq todo /\ pending \ {h} \subseteq pending'
      /\ ~late /\ pending' = {} => todo' = {}
      /\ \A g \in Hosts : \/ probe'[g] = probe[g]
                          \/ g \in todo \ todo' /\ g \in pending' /\ probe'[g] = "queued"
      /\ \A g \in pending' : g \in pending \ {h} \/ probe'[g] = "queued"
      /\ \A g \in todo' : probe'[g] = "none"
  <2>1. pending \ {h} \in SUBSET pending
    OBVIOUS
  <2> QED
    BY <1>1, <2>1, Submitting
<1>7. TypeOK'
  BY <1>1, <1>2, <1>3, <1>5, <1>6 DEF IInv, TypeOK, Steps, Scanning
<1>8. \A g \in Hosts : probe[g] # "none" => probe'[g] = probe[g]
  BY <1>4, <1>6 DEF PoolOK
<1>9. Accounted'
  <2>1. Candidates = todo' \cup pending' \cup transactions'
    BY <1>1, <1>4, <1>5, <1>6 DEF Accounted
  <2>2. In("queued")' \cup In("running")' \subseteq pending'
    BY <1>4, <1>5, <1>6 DEF Accounted, In
  <2> QED
    BY <1>4, <2>1, <2>2 DEF Accounted
<1>10. PoolOK'
  <2>1. /\ \A g \in todo' : probe'[g] = "none" /\ g \in Candidates'
        /\ \A g \in pending' : probe'[g] \in {"queued", "running", "done"}
        /\ \A g \in Hosts : probe'[g] # "none" => g \in Candidates'
    BY <1>4, <1>6, <1>8 DEF IInv, TypeOK, PoolOK
  <2>2. \A g \in transactions' : probe'[g] \in {"done", "cancelled"}
    BY <1>1, <1>4, <1>5, <1>8 DEF IInv, TypeOK, PoolOK
  <2>3. \A g \in In("done")' : outcome'[g] \in Outcomes
    BY <1>2, <1>4, <1>6 DEF PoolOK, In
  <2>4. found' \subseteq transactions' /\ \A g \in found' : probe'[g] = "done" /\ outcome'[g] # "unreachable"
    BY <1>1, <1>2, <1>4, <1>5, <1>8 DEF IInv, TypeOK, PoolOK
  <2> QED
    BY <1>2, <1>3, <1>4, <2>1, <2>2, <2>3, <2>4 DEF PoolOK
<1>11. ScanAt(t)'
  <2>1. batch' \subseteq pending' \cap In("done")'
    BY <1>1, <1>4, <1>6, <1>8 DEF In
  <2> QED
    BY <1>2, <1>3, <1>6, <1>9, <2>1 DEF ScanAt
<1>12. ThreadOK(t)' /\ \A u \in Threads \ {t} : ThreadOK(u)' /\ ScanAt(u)'
  BY <1>2, <1>3, <1>4, OthersOutside DEF Scanning
<1> QED
  BY <1>3, <1>4, <1>7, <1>10, <1>11, <1>12 DEF IInv

(* A host withdrawn before its probe started is in the report; nothing is  *)
(* queued when the pending ones have been seen to.                         *)
LEMMA CancelStep == ASSUME NEW t \in Threads, IInv, Cancel(t) PROVE IInv'
<1> USE NoThreadAssumption
<1>1. /\ pc[t] = "cancel" /\ pc' = [pc EXCEPT ![t] = pc'[t]]
      /\ UNCHANGED <<manager, using, busy, scan, heard, todo, batch, outcome, found, truncated>>
  BY DEF Cancel, Goto, IInv, TypeOK
<1>2. scanning' = scanning /\ cooling' = cooling /\ on' = on /\ late' = late
  BY <1>1 DEF scan
<1>3. /\ pc[t] \in Scanning /\ scanning = t /\ PoolOK /\ ScanAt(t) /\ Candidates' = Candidates
  BY <1>1, ScannerAlone DEF Scanning, IInv, ScanAt, Candidates
<1>4. pc'[t] \in {"cancel", "shutdown"}
  BY <1>1 DEF Cancel, Goto, IInv, TypeOK
<1>5. ThreadOK(t)' /\ \A u \in Threads \ {t} : ThreadOK(u)' /\ ScanAt(u)'
  BY <1>1, <1>2, <1>3, <1>4, OthersOutside DEF Scanning
<1>6. CASE pending = {} /\ Goto(t, "shutdown") /\ UNCHANGED <<pending, probe, transactions>>
  <2>1. TypeOK' /\ pc'[t] = "shutdown"
    BY <1>1, <1>2, <1>6 DEF IInv, TypeOK, Steps, Scanning, Goto
  <2>2. \A state : In(state)' = In(state)
    BY <1>6 DEF In
  <2>3. PoolOK' /\ ScanAt(t)'
    BY <1>1, <1>2, <1>3, <1>6, <2>1, <2>2 DEF PoolOK, ScanAt
  <2> QED
    BY <1>2, <1>3, <1>5, <2>1, <2>3 DEF IInv
<1>7. ASSUME pending # {}
      PROVE  IInv'
  <2>1. PICK h \in pending :
          /\ pending' = pending \ {h}
          /\ \/ /\ probe[h] = "queued"
                /\ probe' = [probe EXCEPT ![h] = "cancelled"]
                /\ transactions' = transactions \cup {h}
             \/ probe[h] # "queued" /\ probe' = probe /\ transactions' = transactions
    BY <1>7 DEF Cancel
  <2>2. pc' = pc /\ h \in Hosts
    BY <1>7 DEF Cancel, IInv, TypeOK
  <2>3. TypeOK'
    BY <1>1, <1>2, <2>1, <2>2 DEF IInv, TypeOK
  <2>4. /\ \A g \in Hosts \ {h} : probe'[g] = probe[g]
        /\ probe'[h] # probe[h] => probe[h] = "queued" /\ probe'[h] = "cancelled"
        /\ probe'[h] # "queued"
    BY <2>1, <2>2 DEF IInv, TypeOK
  <2>5. PoolOK'
    <3>1. /\ \A g \in todo' : probe'[g] = "none" /\ g \in Candidates'
          /\ \A g \in pending' : probe'[g] \in {"queued", "running", "done"}
          /\ \A g \in Hosts : probe'[g] # "none" => g \in Candidates'
          /\ \A g \in transactions' : probe'[g] \in {"done", "cancelled"}
      BY <1>1, <1>3, <2>1, <2>2, <2>4 DEF IInv, TypeOK, PoolOK
    <3>2. \A g \in In("done")' : outcome'[g] \in Outcomes
      BY <1>1, <1>3, <2>4 DEF PoolOK, In
    <3>3. found' \subseteq transactions' /\ \A g \in found' : probe'[g] = "done" /\ outcome'[g] # "unreachable"
      BY <1>1, <1>3, <2>1, <2>4 DEF IInv, TypeOK, PoolOK
    <3> QED
      BY <1>1, <1>2, <1>3, <3>1, <3>2, <3>3 DEF PoolOK
  <2>6. late
    BY <1>1, <1>3, <1>7 DEF ScanAt, IInv, TypeOK
  <2>7. In("queued")' \subseteq pending'
    BY <1>1, <1>3, <2>1, <2>4 DEF ScanAt, In
  <2>8. ScanAt(t)'
    BY <1>1, <1>2, <2>2, <2>6, <2>7 DEF ScanAt
  <2> QED
    BY <1>2, <1>3, <1>5, <2>3, <2>5, <2>8 DEF IInv
<1> QED
  BY <1>6, <1>7 DEF Cancel

(* The pool is shut down when its last worker is done. *)
LEMMA ShutdownStep == ASSUME NEW t \in Threads, IInv, Shutdown(t) \/ Report(t) PROVE IInv'
<1> USE NoThreadAssumption
<1>1. /\ \/ pc[t] = "shutdown" /\ In("running") = {} /\ pc' = [pc EXCEPT ![t] = "report"]
         \/ pc[t] = "report" /\ pc' = [pc EXCEPT ![t] = "scanned"]
      /\ UNCHANGED <<manager, using, busy, scan, heard, todo, pool, report>>
  BY DEF Shutdown, Report, Goto
<1>2. /\ scanning' = scanning /\ cooling' = cooling /\ on' = on /\ late' = late
      /\ pending' = pending /\ batch' = batch /\ probe' = probe /\ outcome' = outcome
      /\ transactions' = transactions /\ found' = found /\ truncated' = truncated
  BY <1>1 DEF scan, pool, report
<1>3. pc[t] \in Scanning /\ scanning = t /\ ScanAt(t)
  BY <1>1, ScannerAlone DEF Scanning, IInv
<1>4. Candidates' = Candidates /\ (\A state : In(state)' = In(state)) /\ (Fresh' <=> Fresh)
  BY <1>1, <1>2 DEF Candidates, In, Fresh
<1>5. TypeOK'
  BY <1>1, <1>2 DEF IInv, TypeOK, Steps, Scanning
<1>6. PoolOK'
  BY <1>1, <1>2, <1>4 DEF IInv, PoolOK
<1>7. /\ pc' = [pc EXCEPT ![t] = pc'[t]]
      /\ \/ pc[t] = "shutdown" /\ pc'[t] = "report" /\ In("running") = {}
         \/ pc[t] = "report" /\ pc'[t] = "scanned"
  BY <1>1 DEF IInv, TypeOK
<1>8. ScanAt(t)'
  BY <1>2, <1>3, <1>4, <1>7 DEF ScanAt
<1>9. ThreadOK(t)' /\ \A u \in Threads \ {t} : ThreadOK(u)' /\ ScanAt(u)'
  BY <1>1, <1>2, <1>3, <1>7, OthersOutside DEF Scanning
<1> QED
  BY <1>2, <1>3, <1>5, <1>6, <1>8, <1>9 DEF IInv

(* A scan that ends leaves nothing to the next: its probes have all ended. *)
LEMMA ScannedStep == ASSUME NEW t \in Threads, IInv, Scanned(t) PROVE IInv'
<1> USE NoThreadAssumption
<1>1. /\ pc[t] = "scanned" /\ pc' = [pc EXCEPT ![t] = "unlock"]
      /\ scanning' = NoThread /\ late' = FALSE
      /\ heard' = [m \in Macs |-> NoGateway]
      /\ todo' = {}
      /\ probe' = [h \in Hosts |-> IF probe[h] \in {"done", "cancelled"} THEN "none" ELSE probe[h]]
      /\ outcome' = [h \in Hosts |-> "none"]
      /\ transactions' = {} /\ found' = {} /\ truncated' = FALSE
      /\ UNCHANGED <<manager, using, busy, cooling, on, pending, batch>>
  BY DEF Scanned, Goto
<1>2. pc[t] \in Scanning /\ pending = {} /\ In("queued") = {} /\ In("running") = {}
  BY <1>1 DEF Scanning, IInv, ScanAt
<1>3. TypeOK'
  BY <1>1 DEF IInv, TypeOK, Steps
<1>4. Fresh'
  <2>1. \A h \in Hosts : probe[h] \in {"none", "done", "cancelled"}
    BY <1>2 DEF IInv, TypeOK, In
  <2> QED
    BY <1>1, <1>2, <2>1 DEF Fresh
<1>5. PoolOK'
  BY <1>1, <1>4 DEF PoolOK, Fresh, In
<1>6. pc'[t] = "unlock"
  BY <1>1 DEF IInv, TypeOK
<1>7. ScanAt(t)'
  BY <1>6 DEF ScanAt
<1>8. ThreadOK(t)' /\ \A u \in Threads \ {t} : ThreadOK(u)' /\ ScanAt(u)'
  BY <1>1, <1>2, <1>6, OthersOutside DEF Scanning
<1> QED
  BY <1>3, <1>4, <1>5, <1>7, <1>8 DEF IInv
--------------------------------------------------------------------------------
(* The inductive invariant holds in every reachable state. *)
THEOREM ScanInvariance == Spec => []IInv
<1>1. IInv /\ [Next]_vars => IInv'
  <2> SUFFICES ASSUME IInv, [Next]_vars PROVE IInv'
    OBVIOUS
  <2>1. CASE UNCHANGED vars
    <3>1. /\ UNCHANGED <<manager, pc, using, busy, scanning, cooling, on, late, heard, todo>>
          /\ UNCHANGED <<pending, batch, probe, outcome, transactions, found, truncated>>
      BY <2>1 DEF vars, requests, scan, pool, report
    <3> QED
      BY <3>1 DEF IInv, TypeOK, ThreadOK, ScanAt, Fresh, Accounted, PoolOK, Candidates, In
  <2>2. ASSUME NEW t \in Threads, Request(t) \/ Hear(t) \/ Serve(t) PROVE IInv'
    BY <2>2, FrontDoorStep, ScanLockStep, CooldownStep, HearStep, ListenStep, FillStep, WaitStep,
       CollectStep, CancelStep, ShutdownStep, ScannedStep
       DEF Serve, FrontDoor
  <2> QED
    BY <2>1, <2>2, ProbeStep, ClockStep DEF Next
<1> QED
  BY <1>1, InitIInv, PTL DEF Spec

(* Every variable keeps its type. *)
THEOREM ScanTypes == Spec => []TypeOK
<1>1. IInv => TypeOK
  BY DEF IInv
<1> QED
  BY <1>1, ScanInvariance, PTL

(* However many managers the requests create, one scan runs at a time, and *)
(* no probe is queued or running when none does.                           *)
THEOREM OneScanAtATime == Spec => []ScansDoNotOverlap
<1>1. IInv => ScansDoNotOverlap
  <2> SUFFICES ASSUME IInv PROVE ScansDoNotOverlap
    OBVIOUS
  <2>1. \A t, u \in Threads : pc[t] \in Scanning /\ pc[u] \in Scanning => t = u
    BY ScannerAlone
  <2>2. ASSUME In("queued") \cup In("running") # {}
        PROVE  \E t \in Threads : pc[t] \in Scanning
    <3>1. scanning # NoThread
      BY <2>2 DEF IInv, Fresh, In
    <3> QED
      BY <3>1 DEF IInv, TypeOK, ThreadOK
  <2> QED
    BY <2>1, <2>2 DEF ScansDoNotOverlap
<1> QED
  BY <1>1, ScanInvariance, PTL

(* The report says of a host only what its probe found, and a scan that is *)
(* over in time has an outcome for every candidate.                        *)
THEOREM ReportsAreTrue == Spec => []ReportIsTrue
<1>1. IInv => ReportIsTrue
  <2> SUFFICES ASSUME IInv PROVE ReportIsTrue
    OBVIOUS
  <2>1. \A h \in found : h \in transactions /\ outcome[h] \in {"candidate", "confirmed"}
    <3> SUFFICES ASSUME NEW h \in found
                 PROVE  h \in transactions /\ outcome[h] \in {"candidate", "confirmed"}
      OBVIOUS
    <3>1. h \in Hosts /\ h \in transactions /\ probe[h] = "done" /\ outcome[h] # "unreachable"
      BY DEF IInv, TypeOK, PoolOK
    <3>2. outcome[h] \in Outcomes
      BY <3>1 DEF IInv, PoolOK, In
    <3> QED
      BY <3>1, <3>2 DEF Outcomes
  <2>2. \A h \in transactions : probe[h] = "done" \/ probe[h] = "cancelled"
    BY DEF IInv, PoolOK
  <2>3. Reported /\ ~late => transactions = Candidates /\ ~truncated
    BY DEF Reported, IInv, ScanAt, PoolOK
  <2> QED
    BY <2>1, <2>2, <2>3 DEF ReportIsTrue
<1> QED
  BY <1>1, ScanInvariance, PTL

(* A host where a gateway was heard consistently is never probed.          *)
THEOREM GatewaysAreLeftAlone == Spec => []GatewaysLeftAlone
<1>1. IInv => GatewaysLeftAlone
  BY ExcludedIsOnLink DEF IInv, PoolOK, Candidates, GatewaysLeftAlone
<1> QED
  BY <1>1, ScanInvariance, PTL
================================================================================
