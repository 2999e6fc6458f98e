------------------------ MODULE CapturePublicationProofs ------------------------
(* Proofs about CapturePublication for any workers, runs, files and lanes. *)
EXTENDS CapturePublication, TLAPS

(* Nothing is published, staged or running at first. *)
LEMMA InitIInv == Init => IInv
<1> SUFFICES ASSUME Init PROVE IInv
  OBVIOUS
<1> USE NoRunAssumption, NoWorkerAssumption DEF Init
<1>1. TypeOK
  BY DEF TypeOK, Row, Dir, NoRow, NoDir, Steps
<1>2. Owners
  BY DEF Owners
<1>3. \A w \in Workers : WorkerOK(w)
  BY DEF WorkerOK, RunAt, CleanedTo, Owned, Packaging, Cleaning, Visible, Traced
<1>4. Intact /\ CompleteRows /\ NoStrayTrace
  BY DEF Intact, CompleteRows, NoStrayTrace, Visible, Traced, NoRow, NoDir
<1>5. LineageResolves
  BY DEF LineageResolves, Visible, NoRow
<1> QED
  BY <1>1, <1>2, <1>3, <1>4, <1>5 DEF IInv

(* What a step of worker w leaves alone: the other workers' registers and  *)
(* locks, every run but w's own, and all visible evidence.                 *)
StepOf(w) ==
  /\ \A v \in Workers \ {w} :
       /\ pc'[v] = pc[v]
       /\ lane'[v] = lane[v]
       /\ mine'[v] = mine[v]
       /\ parent'[v] = parent[v]
       /\ \A k \in Locks : held[k] = v => held'[k] = v
  /\ \A r \in Runs :
       r # mine[w] \/ Visible(r) => rows'[r] = rows[r] /\ dirs'[r] = dirs[r]
  /\ damaged' = damaged
  /\ abandoned \subseteq abandoned'

(* A step of w does not disturb what another worker knows of its own run:  *)
(* the two runs differ, and the source of a decode is visible.             *)
LEMMA OthersUndisturbed ==
  ASSUME NEW w \in Workers, IInv, StepOf(w),
         NEW v \in Workers, v # w
  PROVE  WorkerOK(v)'
<1> USE NoRunAssumption, LanesAssumption
<1>1. /\ pc'[v] = pc[v] /\ lane'[v] = lane[v]
      /\ mine'[v] = mine[v] /\ parent'[v] = parent[v]
      /\ damaged' = damaged /\ abandoned \subseteq abandoned'
  BY DEF StepOf
<1>2. WorkerOK(v)
  BY DEF IInv
<1>3. ASSUME mine[v] \in Runs
      PROVE  rows'[mine[v]] = rows[mine[v]] /\ dirs'[mine[v]] = dirs[mine[v]]
  BY <1>3 DEF IInv, Owners, StepOf
<1>4. ASSUME parent[v] \in Runs, Visible(parent[v])
      PROVE  rows'[parent[v]] = rows[parent[v]]
  BY <1>4 DEF StepOf
<1>5. Owned(v)' <=> Owned(v)
  BY <1>1 DEF Owned
<1>6. mine[v] \in Runs \/ mine[v] = NoRun
  BY DEF IInv, TypeOK
<1>7. RunAt(v)'
  <2>1. CASE mine[v] \in Runs
    BY <1>1, <1>2, <1>3, <2>1 DEF WorkerOK, RunAt, Pending
  <2>2. CASE mine[v] = NoRun
    BY <1>1, <1>2, <2>2 DEF WorkerOK, RunAt, Owned, Packaging
  <2> QED
    BY <1>6, <2>1, <2>2
<1>8. CleanedTo(v)'
  <2>1. CASE mine[v] \in Runs
    BY <1>1, <1>2, <1>3, <2>1 DEF WorkerOK, CleanedTo, Visible, Traced
  <2>2. CASE mine[v] = NoRun
    BY <1>1, <1>2, <2>2 DEF WorkerOK, CleanedTo, Owned, Cleaning
  <2> QED
    BY <1>6, <2>1, <2>2
<1>9. Owned(v) => ~Visible(mine[v])'
  BY <1>1, <1>2, <1>3 DEF WorkerOK, Visible
<1>10. Owned(v) /\ lane[v] = "decode" =>
         Visible(parent[v])' /\ rows'[parent[v]].lane \in {"scope", "survey"}
  BY <1>1, <1>2, <1>4 DEF WorkerOK, Visible
<1>11. pc[v] = "acquire" => held'[LockOf(lane[v])] = v
  <2> SUFFICES ASSUME pc[v] = "acquire" PROVE held'[LockOf(lane[v])] = v
    OBVIOUS
  <2>1. held[LockOf(lane[v])] = v
    BY <1>2 DEF WorkerOK
  <2>2. LockOf(lane[v]) \in Locks
    BY <1>2 DEF WorkerOK, Locks
  <2> QED
    BY <2>1, <2>2 DEF StepOf
<1> QED
  BY <1>1, <1>2, <1>5, <1>7, <1>8, <1>9, <1>10, <1>11 DEF WorkerOK

(* The parts of the invariant that speak of all runs survive a step in     *)
(* which w works on its own run without completing it.                     *)
LEMMA RunsUndisturbed ==
  ASSUME NEW w \in Workers, IInv, StepOf(w), mine' = mine,
         mine[w] \in Runs,
         Visible(mine[w])' => Visible(mine[w]),
         dirs'[mine[w]].torn = {},
         rows'[mine[w]].lane = "decode" =>
           \/ /\ rows[mine[w]].lane = "decode"
              /\ rows'[mine[w]].source = rows[mine[w]].source
           \/ /\ Owned(w)
              /\ lane[w] = "decode"
              /\ rows'[mine[w]].source = parent[w]
  PROVE  (Intact /\ CompleteRows /\ NoStrayTrace /\ LineageResolves)'
<1> DEFINE r0 == mine[w]
<1>1. \A r \in Runs : r # r0 => rows'[r] = rows[r] /\ dirs'[r] = dirs[r]
  BY DEF StepOf
<1>2. \A r \in Runs : Visible(r) => rows'[r] = rows[r] /\ dirs'[r] = dirs[r]
  BY DEF StepOf
<1>3. \A r \in Runs : Visible(r)' <=> Visible(r)
  BY <1>1, <1>2 DEF Visible
<1>4. Intact'
  BY <1>1, <1>2, <1>3 DEF IInv, Intact, StepOf
<1>5. CompleteRows'
  BY <1>1, <1>2, <1>3 DEF IInv, CompleteRows
<1>6. NoStrayTrace'
  BY <1>1, <1>3 DEF IInv, NoStrayTrace, Traced, StepOf
<1>7. LineageResolves'
  <2> SUFFICES ASSUME NEW r \in Runs, rows'[r].lane = "decode"
               PROVE  /\ rows'[r].source \in Runs
                      /\ Visible(rows'[r].source)
                      /\ rows[rows'[r].source].lane \in {"scope", "survey"}
    BY <1>2 DEF LineageResolves, Visible
  <2>1. CASE rows[r].lane = "decode" /\ rows'[r].source = rows[r].source
    BY <2>1 DEF IInv, LineageResolves
  <2>2. CASE r = r0 /\ Owned(w) /\ lane[w] = "decode" /\ rows'[r].source = parent[w]
    BY <2>2 DEF IInv, WorkerOK
  <2> QED
    BY <1>1, <2>1, <2>2
<1> QED
  BY <1>4, <1>5, <1>6, <1>7

(* mkdtemp *)
LEMMA StageStep ==
  ASSUME NEW w \in Workers, IInv, Stage(w)
  PROVE  IInv'
<1> USE NoRunAssumption, NoWorkerAssumption, ManifestAssumption DEF Stage, AfterStage, Goto
<1>1. mine[w] \in Runs /\ Owned(w) /\ ~Visible(mine[w]) /\ mine[w] \notin damaged /\ WorkerOK(w)
  BY DEF IInv, WorkerOK, Owned, Packaging, Cleaning
<1>2. TypeOK'
  BY <1>1 DEF IInv, TypeOK, WorkerOK, Row, Dir, Steps, Packaging, Cleaning
<1>3. Owners'
  BY DEF IInv, Owners
<1>4. StepOf(w)
  BY <1>1 DEF StepOf, IInv, TypeOK, Traced
<1>5. /\ pc[w] = "stage" /\ pc'[w] = AfterStage(lane[w])
      /\ dirs'[mine[w]] = [at |-> "staging", has |-> {}, torn |-> {}]
      /\ rows' = rows /\ rows[mine[w]] = NoRow
      /\ lane' = lane /\ mine' = mine /\ parent' = parent /\ held' = held /\ damaged' = damaged
  BY <1>1 DEF IInv, TypeOK, Row, Dir, Steps, Intact, WorkerOK, RunAt
<1>6. RunAt(w)'
  BY <1>1, <1>5 DEF WorkerOK, RunAt, Pending, Packaging, NoRow, NoDir, Visible
<1>7. CleanedTo(w)'
  BY <1>1, <1>5 DEF CleanedTo
<1>8. WorkerOK(w)'
  <2>1. lane[w] = "decode" => rows'[parent[w]] = rows[parent[w]] /\ Visible(parent[w])'
    BY <1>1, <1>4 DEF WorkerOK, StepOf, Visible
  <2> QED
    BY <1>1, <1>5, <1>6, <1>7, <2>1 DEF WorkerOK, Owned, Packaging, Cleaning, Visible, NoRow
<1>9. (Intact /\ CompleteRows /\ NoStrayTrace /\ LineageResolves)'
  BY <1>1, <1>4, <1>5, RunsUndisturbed DEF Visible
<1> QED
  BY <1>2, <1>3, <1>4, <1>8, <1>9, OthersUndisturbed DEF IInv

(* The artifacts are written. *)
LEMMA WriteStep ==
  ASSUME NEW w \in Workers, IInv, Write(w)
  PROVE  IInv'
<1> USE NoRunAssumption, NoWorkerAssumption, ManifestAssumption DEF Write, AfterWrite, Goto
<1>1. mine[w] \in Runs /\ Owned(w) /\ ~Visible(mine[w]) /\ mine[w] \notin damaged /\ WorkerOK(w)
  BY DEF IInv, WorkerOK, Owned, Packaging, Cleaning
<1>2. TypeOK'
  BY <1>1 DEF IInv, TypeOK, WorkerOK, Row, Dir, Steps, Packaging, Cleaning
<1>3. Owners'
  BY DEF IInv, Owners
<1>4. StepOf(w)
  BY <1>1 DEF StepOf, IInv, TypeOK, Traced
<1>5. /\ pc[w] = "write" /\ pc'[w] = AfterWrite(lane[w])
      /\ dirs'[mine[w]].at = dirs[mine[w]].at
      /\ dirs'[mine[w]].has = Files \ {Manifest}
      /\ dirs'[mine[w]].torn = {}
      /\ rows' = rows
      /\ lane' = lane /\ mine' = mine /\ parent' = parent /\ held' = held /\ damaged' = damaged
  BY <1>1 DEF IInv, TypeOK, Row, Dir, Steps, Intact
<1>6. RunAt(w)'
  <2>1. CASE lane[w] = "decode"
    BY <1>1, <1>5, <2>1 DEF WorkerOK, RunAt, Pending, Packaging
  <2>2. CASE lane[w] # "decode"
    <3>1. pc[w] = "write" /\ pc'[w] = "row" /\ rows' = rows /\ mine' = mine
      BY <1>5, <2>2
    <3>2. rows[mine[w]] = NoRow /\ rows[mine[w]].registered = {} /\ dirs[mine[w]].at = "staging"
      BY <1>1, <3>1, <2>2 DEF WorkerOK, RunAt
    <3> QED
      BY <1>5, <2>2, <3>1, <3>2 DEF RunAt, Packaging, NoRow
  <2> QED
    BY <2>1, <2>2
<1>7. CleanedTo(w)'
  BY <1>1, <1>5 DEF CleanedTo
<1>8. WorkerOK(w)'
  <2>1. lane[w] = "decode" => rows'[parent[w]] = rows[parent[w]] /\ Visible(parent[w])'
    BY <1>1, <1>4 DEF WorkerOK, StepOf, Visible
  <2> QED
    BY <1>1, <1>5, <1>6, <1>7, <2>1 DEF WorkerOK, Owned, Packaging, Cleaning, Visible
<1>9. (Intact /\ CompleteRows /\ NoStrayTrace /\ LineageResolves)'
  BY <1>1, <1>4, <1>5, RunsUndisturbed DEF Visible
<1> QED
  BY <1>2, <1>3, <1>4, <1>8, <1>9, OthersUndisturbed DEF IInv

(* The pending row is inserted. *)
LEMMA CreateRowStep ==
  ASSUME NEW w \in Workers, IInv, CreateRow(w)
  PROVE  IInv'
<1> USE NoRunAssumption, NoWorkerAssumption, ManifestAssumption DEF CreateRow, AfterRow, Goto
<1>1. mine[w] \in Runs /\ Owned(w) /\ ~Visible(mine[w]) /\ mine[w] \notin damaged /\ WorkerOK(w)
  BY DEF IInv, WorkerOK, Owned, Packaging, Cleaning
<1>2. TypeOK'
  BY <1>1 DEF IInv, TypeOK, WorkerOK, Row, Dir, Steps, Packaging, Cleaning, LaneNames
<1>3. Owners'
  BY DEF IInv, Owners
<1>4. StepOf(w)
  BY <1>1 DEF StepOf, IInv, TypeOK, Traced
<1>5. /\ pc[w] = "row" /\ pc'[w] = AfterRow(lane[w])
      /\ rows'[mine[w]] = [status |-> "pending", lane |-> lane[w],
                            source |-> parent[w], registered |-> {}]
      /\ dirs' = dirs /\ dirs[mine[w]].torn = {}
      /\ lane' = lane /\ mine' = mine /\ parent' = parent /\ held' = held /\ damaged' = damaged
  BY <1>1 DEF IInv, TypeOK, Row, Dir, Steps, Intact
<1>6. RunAt(w)'
  <2>0. dirs[mine[w]].at = "staging"
    BY <1>1, <1>5 DEF WorkerOK, RunAt
  <2>1. Pending(w)' /\ rows'[mine[w]].registered = {}
    BY <1>5 DEF Pending
  <2>2. lane[w] # "decode" => dirs[mine[w]].has = Files \ {Manifest}
    BY <1>1, <1>5 DEF WorkerOK, RunAt
  <2>3. CASE lane[w] = "decode"
    BY <1>5, <2>0, <2>1, <2>3 DEF RunAt, Packaging
  <2>4. CASE lane[w] # "decode"
    BY <1>5, <2>0, <2>1, <2>2, <2>4 DEF RunAt, Packaging
  <2> QED
    BY <2>3, <2>4
<1>7. CleanedTo(w)'
  BY <1>1, <1>5 DEF CleanedTo
<1>8. WorkerOK(w)'
  <2>1. lane[w] = "decode" => rows'[parent[w]] = rows[parent[w]] /\ Visible(parent[w])'
    BY <1>1, <1>4 DEF WorkerOK, StepOf, Visible
  <2> QED
    BY <1>1, <1>5, <1>6, <1>7, <2>1 DEF WorkerOK, Owned, Packaging, Cleaning, Visible
<1>9. (Intact /\ CompleteRows /\ NoStrayTrace /\ LineageResolves)'
  BY <1>1, <1>4, <1>5, RunsUndisturbed DEF Visible
<1> QED
  BY <1>2, <1>3, <1>4, <1>8, <1>9, OthersUndisturbed DEF IInv

(* The manifest is written. *)
LEMMA WriteManifestStep ==
  ASSUME NEW w \in Workers, IInv, WriteManifest(w)
  PROVE  IInv'
<1> USE NoRunAssumption, NoWorkerAssumption, ManifestAssumption DEF WriteManifest, Goto
<1>1. mine[w] \in Runs /\ Owned(w) /\ ~Visible(mine[w]) /\ mine[w] \notin damaged /\ WorkerOK(w)
  BY DEF IInv, WorkerOK, Owned, Packaging, Cleaning
<1>2. TypeOK'
  BY <1>1 DEF IInv, TypeOK, WorkerOK, Row, Dir, Steps, Packaging, Cleaning
<1>3. Owners'
  BY DEF IInv, Owners
<1>4. StepOf(w)
  BY <1>1 DEF StepOf, IInv, TypeOK, Traced
<1>5. /\ pc[w] = "manifest" /\ pc'[w] = "rename"
      /\ dirs'[mine[w]].at = dirs[mine[w]].at
      /\ dirs'[mine[w]].has = dirs[mine[w]].has \cup {Manifest}
      /\ dirs'[mine[w]].torn = {}
      /\ rows' = rows
      /\ lane' = lane /\ mine' = mine /\ parent' = parent /\ held' = held /\ damaged' = damaged
  BY <1>1 DEF IInv, TypeOK, Row, Dir, Steps, Intact
<1>6. RunAt(w)'
  BY <1>1, <1>5 DEF WorkerOK, RunAt, Pending, Packaging, NoRow, NoDir, Visible
<1>7. CleanedTo(w)'
  BY <1>1, <1>5 DEF CleanedTo
<1>8. WorkerOK(w)'
  <2>1. lane[w] = "decode" => rows'[parent[w]] = rows[parent[w]] /\ Visible(parent[w])'
    BY <1>1, <1>4 DEF WorkerOK, StepOf, Visible
  <2> QED
    BY <1>1, <1>5, <1>6, <1>7, <2>1 DEF WorkerOK, Owned, Packaging, Cleaning, Visible
<1>9. (Intact /\ CompleteRows /\ NoStrayTrace /\ LineageResolves)'
  BY <1>1, <1>4, <1>5, RunsUndisturbed DEF Visible
<1> QED
  BY <1>2, <1>3, <1>4, <1>8, <1>9, OthersUndisturbed DEF IInv

(* The directory is renamed into place. *)
LEMMA RenameStep ==
  ASSUME NEW w \in Workers, IInv, Rename(w)
  PROVE  IInv'
<1> USE NoRunAssumption, NoWorkerAssumption, ManifestAssumption DEF Rename, AfterRename, Goto
<1>1. mine[w] \in Runs /\ Owned(w) /\ ~Visible(mine[w]) /\ mine[w] \notin damaged /\ WorkerOK(w)
  BY DEF IInv, WorkerOK, Owned, Packaging, Cleaning
<1>2. TypeOK'
  <2>1. dirs' \in [Runs -> Dir]
    <3>1. dirs[mine[w]] \in Dir /\ dirs \in [Runs -> Dir]
      BY <1>1 DEF IInv, TypeOK
    <3>2. [dirs[mine[w]] EXCEPT !.at = "final"] \in Dir
      BY <3>1 DEF Dir
    <3> QED
      BY <3>1, <3>2
  <2>2. pc' \in [Workers -> Steps]
    BY DEF IInv, TypeOK, Steps, Packaging
  <2> QED
    BY <2>1, <2>2 DEF IInv, TypeOK
<1>3. Owners'
  BY DEF IInv, Owners
<1>4. StepOf(w)
  BY <1>1 DEF StepOf, IInv, TypeOK, Traced
<1>5. /\ pc[w] = "rename" /\ pc'[w] = AfterRename(lane[w])
      /\ dirs'[mine[w]].at = "final"
      /\ dirs'[mine[w]].has = dirs[mine[w]].has
      /\ dirs'[mine[w]].torn = {}
      /\ rows' = rows
      /\ lane' = lane /\ mine' = mine /\ parent' = parent /\ held' = held /\ damaged' = damaged
  BY <1>1 DEF IInv, TypeOK, Row, Dir, Steps, Intact
<1>6. RunAt(w)'
  BY <1>1, <1>5 DEF WorkerOK, RunAt, Pending, Packaging, NoRow, NoDir, Visible
<1>7. CleanedTo(w)'
  BY <1>1, <1>5 DEF CleanedTo
<1>8. WorkerOK(w)'
  <2>1. lane[w] = "decode" => rows'[parent[w]] = rows[parent[w]] /\ Visible(parent[w])'
    BY <1>1, <1>4 DEF WorkerOK, StepOf, Visible
  <2> QED
    BY <1>1, <1>5, <1>6, <1>7, <2>1 DEF WorkerOK, Owned, Packaging, Cleaning, Visible
<1>9. (Intact /\ CompleteRows /\ NoStrayTrace /\ LineageResolves)'
  BY <1>1, <1>4, <1>5, RunsUndisturbed DEF Visible
<1> QED
  BY <1>2, <1>3, <1>4, <1>8, <1>9, OthersUndisturbed DEF IInv

(* One artifact is registered. *)
LEMMA RegisterStep ==
  ASSUME NEW w \in Workers, IInv, Register(w)
  PROVE  IInv'
<1> USE NoRunAssumption, NoWorkerAssumption, ManifestAssumption DEF Register, Goto
<1>1. mine[w] \in Runs /\ Owned(w) /\ ~Visible(mine[w]) /\ mine[w] \notin damaged /\ WorkerOK(w)
  BY DEF IInv, WorkerOK, Owned, Packaging, Cleaning
<1>2. TypeOK'
  <2>1. rows' \in [Runs -> Row]
    <3> PICK f \in Files : rows' = [rows EXCEPT ![mine[w]].registered = @ \cup {f}]
      OBVIOUS
    <3> QED
      BY <1>1 DEF IInv, TypeOK, Row
  <2>2. pc' \in [Workers -> Steps]
    BY <1>1 DEF IInv, TypeOK, Steps, Packaging
  <2> QED
    BY <2>1, <2>2 DEF IInv, TypeOK
<1>3. Owners'
  BY DEF IInv, Owners
<1>4. StepOf(w)
  BY <1>1 DEF StepOf, IInv, TypeOK, Traced
<1>5. /\ pc[w] = "register" /\ pc'[w] \in {"register", "complete"}
      /\ pc'[w] = "complete" => rows'[mine[w]].registered = Files
      /\ rows'[mine[w]].status = rows[mine[w]].status
      /\ rows'[mine[w]].lane = rows[mine[w]].lane
      /\ rows'[mine[w]].source = rows[mine[w]].source
      /\ rows'[mine[w]] \in Row
      /\ dirs' = dirs /\ dirs[mine[w]].torn = {}
      /\ lane' = lane /\ mine' = mine /\ parent' = parent /\ held' = held /\ damaged' = damaged
  <2> DEFINE row == rows[mine[w]]
  <2>1. PICK f \in Files : /\ rows' = [rows EXCEPT ![mine[w]].registered = @ \cup {f}]
                           /\ IF row.registered \cup {f} = Files
                                THEN pc' = [pc EXCEPT ![w] = "complete"]
                                ELSE UNCHANGED pc
    OBVIOUS
  <2>2. row \in Row /\ rows \in [Runs -> Row] /\ pc \in [Workers -> Steps]
    BY <1>1 DEF IInv, TypeOK
  <2>3. rows'[mine[w]] = [row EXCEPT !.registered = @ \cup {f}]
    BY <1>1, <2>1, <2>2
  <2>4. /\ rows'[mine[w]] \in Row
        /\ rows'[mine[w]].status = row.status /\ rows'[mine[w]].lane = row.lane
        /\ rows'[mine[w]].source = row.source
        /\ rows'[mine[w]].registered = row.registered \cup {f}
    BY <2>2, <2>3 DEF Row
  <2>5. /\ pc[w] = "register" /\ pc'[w] \in {"register", "complete"}
        /\ pc'[w] = "complete" => row.registered \cup {f} = Files
    BY <2>1, <2>2
  <2>6. dirs[mine[w]].torn = {}
    BY <1>1 DEF IInv, Intact
  <2> QED
    BY <2>4, <2>5, <2>6
<1>6. RunAt(w)'
  <2>1. rows'[mine[w]] = [status |-> "pending", lane |-> lane[w], source |-> parent[w],
                          registered |-> rows'[mine[w]].registered]
    <3>1. Pending(w)
      BY <1>1, <1>5 DEF WorkerOK, RunAt, Packaging
    <3>2. rows'[mine[w]] \in Row /\ rows[mine[w]].status = "pending"
          /\ rows[mine[w]].lane = lane[w] /\ rows[mine[w]].source = parent[w]
      BY <1>5, <3>1 DEF Pending
    <3> QED
      BY <1>5, <3>2 DEF Row
  <2>2. /\ dirs[mine[w]].at = "final" /\ dirs[mine[w]].has = Files
        /\ lane[w] # "decode"
    BY <1>1, <1>5 DEF WorkerOK, RunAt
  <2> QED
    BY <1>5, <2>1, <2>2 DEF RunAt, Pending, Packaging
<1>7. CleanedTo(w)'
  BY <1>1, <1>5 DEF CleanedTo
<1>8. WorkerOK(w)'
  <2>1. lane[w] = "decode" => rows'[parent[w]] = rows[parent[w]] /\ Visible(parent[w])'
    BY <1>1, <1>4 DEF WorkerOK, StepOf, Visible
  <2> QED
    BY <1>1, <1>5, <1>6, <1>7, <2>1 DEF WorkerOK, Owned, Packaging, Cleaning, Visible
<1>9. (Intact /\ CompleteRows /\ NoStrayTrace /\ LineageResolves)'
  BY <1>1, <1>4, <1>5, RunsUndisturbed DEF Visible
<1> QED
  BY <1>2, <1>3, <1>4, <1>8, <1>9, OthersUndisturbed DEF IInv

(* A step inside the try block raises. *)
LEMMA FailStep ==
  ASSUME NEW w \in Workers, IInv, Fail(w)
  PROVE  IInv'
<1> USE NoRunAssumption, NoWorkerAssumption, ManifestAssumption DEF Fail, Goto
<1>1. mine[w] \in Runs /\ Owned(w) /\ ~Visible(mine[w]) /\ mine[w] \notin damaged /\ WorkerOK(w)
  BY DEF IInv, WorkerOK, Owned, Packaging, Cleaning
<1>2. TypeOK'
  BY <1>1 DEF IInv, TypeOK, WorkerOK, Row, Dir, Steps, Packaging, Cleaning
<1>3. Owners'
  BY DEF IInv, Owners
<1>4. StepOf(w)
  BY <1>1 DEF StepOf, IInv, TypeOK, Traced
<1>5. /\ pc'[w] = "unstage"
      /\ rows' = rows /\ dirs' = dirs /\ dirs[mine[w]].torn = {}
      /\ lane' = lane /\ mine' = mine /\ parent' = parent /\ held' = held /\ damaged' = damaged
  BY <1>1 DEF IInv, TypeOK, Row, Dir, Steps, Intact
<1>6. RunAt(w)'
  BY <1>1, <1>5 DEF RunAt, Packaging
<1>7. CleanedTo(w)'
  BY <1>1, <1>5 DEF CleanedTo
<1>8. WorkerOK(w)'
  <2>1. lane[w] = "decode" => rows'[parent[w]] = rows[parent[w]] /\ Visible(parent[w])'
    BY <1>1, <1>4 DEF WorkerOK, StepOf, Visible
  <2> QED
    BY <1>1, <1>5, <1>6, <1>7, <2>1 DEF WorkerOK, Owned, Packaging, Cleaning, Visible
<1>9. (Intact /\ CompleteRows /\ NoStrayTrace /\ LineageResolves)'
  BY <1>1, <1>4, <1>5, RunsUndisturbed DEF Visible
<1> QED
  BY <1>2, <1>3, <1>4, <1>8, <1>9, OthersUndisturbed DEF IInv

(* The handler removes the staging directory. *)
LEMMA RemoveStagingStep ==
  ASSUME NEW w \in Workers, IInv, RemoveStaging(w)
  PROVE  IInv'
<1> USE NoRunAssumption, NoWorkerAssumption, ManifestAssumption DEF RemoveStaging, RemoveTree, Goto
<1>1. mine[w] \in Runs /\ Owned(w) /\ ~Visible(mine[w]) /\ mine[w] \notin damaged /\ WorkerOK(w)
  BY DEF IInv, WorkerOK, Owned, Packaging, Cleaning
<1>2. TypeOK'
  BY <1>1 DEF IInv, TypeOK, Dir, NoDir, Steps, Packaging, Cleaning
<1>3. Owners'
  BY DEF IInv, Owners
<1>4. StepOf(w)
  BY <1>1 DEF StepOf, IInv, TypeOK, Traced
<1>5. /\ pc'[w] = "unpublish"
      /\ dirs'[mine[w]].at # "staging" \/ mine[w] \in abandoned'
      /\ rows' = rows /\ dirs'[mine[w]].torn = {}
      /\ lane' = lane /\ mine' = mine /\ parent' = parent /\ held' = held /\ damaged' = damaged
  BY <1>1 DEF IInv, TypeOK, Row, Dir, Steps, Intact, NoDir
<1>6. RunAt(w)'
  BY <1>1, <1>5 DEF RunAt, Packaging
<1>7. CleanedTo(w)'
  BY <1>1, <1>5 DEF CleanedTo
<1>8. WorkerOK(w)'
  <2>1. lane[w] = "decode" => rows'[parent[w]] = rows[parent[w]] /\ Visible(parent[w])'
    BY <1>1, <1>4 DEF WorkerOK, StepOf, Visible
  <2> QED
    BY <1>1, <1>5, <1>6, <1>7, <2>1 DEF WorkerOK, Owned, Packaging, Cleaning, Visible
<1>9. (Intact /\ CompleteRows /\ NoStrayTrace /\ LineageResolves)'
  BY <1>1, <1>4, <1>5, RunsUndisturbed DEF Visible
<1> QED
  BY <1>2, <1>3, <1>4, <1>8, <1>9, OthersUndisturbed DEF IInv

(* The handler removes the published directory. *)
LEMMA RemovePublishedStep ==
  ASSUME NEW w \in Workers, IInv, RemovePublished(w)
  PROVE  IInv'
<1> USE NoRunAssumption, NoWorkerAssumption, ManifestAssumption DEF RemovePublished, RemoveTree, Goto
<1>1. mine[w] \in Runs /\ Owned(w) /\ ~Visible(mine[w]) /\ mine[w] \notin damaged /\ WorkerOK(w)
  BY DEF IInv, WorkerOK, Owned, Packaging, Cleaning
<1>2. TypeOK'
  BY <1>1 DEF IInv, TypeOK, Dir, NoDir, Steps, Packaging, Cleaning
<1>3. Owners'
  BY DEF IInv, Owners
<1>4. StepOf(w)
  BY <1>1 DEF StepOf, IInv, TypeOK, Traced
<1>5. /\ pc'[w] = "forget"
      /\ dirs'[mine[w]].at = "none" \/ mine[w] \in abandoned'
      /\ rows' = rows /\ dirs'[mine[w]].torn = {}
      /\ lane' = lane /\ mine' = mine /\ parent' = parent /\ held' = held /\ damaged' = damaged
  BY <1>1 DEF IInv, TypeOK, Row, Dir, Steps, Intact, NoDir, WorkerOK, CleanedTo
<1>6. RunAt(w)'
  BY <1>1, <1>5 DEF RunAt, Packaging
<1>7. CleanedTo(w)'
  BY <1>1, <1>5 DEF CleanedTo
<1>8. WorkerOK(w)'
  <2>1. lane[w] = "decode" => rows'[parent[w]] = rows[parent[w]] /\ Visible(parent[w])'
    BY <1>1, <1>4 DEF WorkerOK, StepOf, Visible
  <2> QED
    BY <1>1, <1>5, <1>6, <1>7, <2>1 DEF WorkerOK, Owned, Packaging, Cleaning, Visible
<1>9. (Intact /\ CompleteRows /\ NoStrayTrace /\ LineageResolves)'
  BY <1>1, <1>4, <1>5, RunsUndisturbed DEF Visible
<1> QED
  BY <1>2, <1>3, <1>4, <1>8, <1>9, OthersUndisturbed DEF IInv

(* The handler deletes the row. *)
LEMMA DeleteRowStep ==
  ASSUME NEW w \in Workers, IInv, DeleteRow(w)
  PROVE  IInv'
<1> USE NoRunAssumption, NoWorkerAssumption, ManifestAssumption DEF DeleteRow, Goto
<1>1. mine[w] \in Runs /\ Owned(w) /\ ~Visible(mine[w]) /\ mine[w] \notin damaged /\ WorkerOK(w)
  BY DEF IInv, WorkerOK, Owned, Packaging, Cleaning
<1>2. TypeOK'
  BY <1>1 DEF IInv, TypeOK, WorkerOK, Row, Dir, Steps, Packaging, Cleaning, NoRow
<1>3. Owners'
  BY DEF IInv, Owners
<1>4. StepOf(w)
  BY <1>1 DEF StepOf, IInv, TypeOK, Traced
<1>5. /\ pc[w] = "forget" /\ pc'[w] = "return"
      /\ rows'[mine[w]] = NoRow \/ (rows' = rows /\ mine[w] \in abandoned')
      /\ dirs' = dirs /\ dirs[mine[w]].torn = {}
      /\ abandoned \subseteq abandoned'
      /\ lane' = lane /\ mine' = mine /\ parent' = parent /\ held' = held /\ damaged' = damaged
  BY <1>1 DEF IInv, TypeOK, Row, Dir, Steps, Intact
<1>6. RunAt(w)'
  BY <1>1, <1>5 DEF RunAt, Packaging
<1>7. CleanedTo(w)'
  BY <1>1, <1>5 DEF WorkerOK, CleanedTo, Visible, Traced, NoRow
<1>8. WorkerOK(w)'
  <2>1. lane[w] = "decode" => rows'[parent[w]] = rows[parent[w]] /\ Visible(parent[w])'
    BY <1>1, <1>4 DEF WorkerOK, StepOf, Visible
  <2> QED
    BY <1>1, <1>5, <1>6, <1>7, <2>1 DEF WorkerOK, Owned, Packaging, Cleaning, Visible, NoRow
<1>9. (Intact /\ CompleteRows /\ NoStrayTrace /\ LineageResolves)'
  BY <1>1, <1>4, <1>5, RunsUndisturbed DEF Visible, NoRow
<1> QED
  BY <1>2, <1>3, <1>4, <1>8, <1>9, OthersUndisturbed DEF IInv

(* The row is completed: the run becomes visible. *)
LEMMA CompleteStep ==
  ASSUME NEW w \in Workers, IInv, Complete(w)
  PROVE  IInv'
<1> USE NoRunAssumption, NoWorkerAssumption, ManifestAssumption DEF Complete, Goto
<1>1. /\ mine[w] \in Runs /\ Owned(w) /\ ~Visible(mine[w])
      /\ mine[w] \notin damaged /\ WorkerOK(w)
  BY DEF IInv, WorkerOK, Owned, Packaging, Cleaning
<1>2. rows' \in [Runs -> Row]
  <2> DEFINE old == rows[mine[w]]
             all == IF lane[w] = "decode" THEN Files ELSE old.registered
             new == [old EXCEPT !.status = "complete", !.registered = all]
  <2>1. old \in Row
    BY <1>1 DEF IInv, TypeOK
  <2>2. new \in Row
    BY <2>1 DEF Row
  <2>3. rows' = [rows EXCEPT ![mine[w]] = new]
    OBVIOUS
  <2> QED
    BY <2>2, <2>3 DEF IInv, TypeOK
<1>3. TypeOK'
  BY <1>2 DEF IInv, TypeOK, Steps
<1>4. Owners'
  BY DEF IInv, Owners
<1>5. StepOf(w)
  BY <1>1 DEF StepOf, IInv, TypeOK
<1>6. /\ Visible(mine[w])'
      /\ rows'[mine[w]].registered = Files
      /\ rows'[mine[w]].lane = lane[w] /\ rows'[mine[w]].source = parent[w]
      /\ dirs[mine[w]].at = "final" /\ dirs[mine[w]].has = Files
      /\ dirs[mine[w]].torn = {}
  BY <1>1 DEF IInv, TypeOK, Row, WorkerOK, RunAt, Pending, Packaging, Intact, Visible
<1>7. WorkerOK(w)'
  <2>1. pc'[w] = "return"
    BY DEF IInv, TypeOK
  <2> QED
    BY <1>1, <1>6, <2>1 DEF WorkerOK, RunAt, CleanedTo, Owned, Packaging, Cleaning
<1>8. Intact' /\ CompleteRows' /\ NoStrayTrace'
  BY <1>5, <1>6 DEF IInv, Intact, CompleteRows, NoStrayTrace, Traced, Visible, StepOf
<1>9. LineageResolves'
  <2>0. \A q \in Runs : Visible(q) => rows'[q] = rows[q]
    BY <1>5 DEF StepOf
  <2> SUFFICES ASSUME NEW r \in Runs, rows'[r].lane = "decode"
               PROVE  /\ rows'[r].source \in Runs
                      /\ Visible(rows'[r].source)
                      /\ rows[rows'[r].source].lane \in {"scope", "survey"}
    BY <2>0 DEF LineageResolves, Visible
  <2>1. CASE r = mine[w]
    BY <1>1, <1>6, <2>1 DEF WorkerOK
  <2>2. CASE r # mine[w]
    BY <1>5, <2>2 DEF StepOf, IInv, LineageResolves
  <2> QED
    BY <2>1, <2>2
<1> QED
  BY <1>3, <1>4, <1>5, <1>7, <1>8, <1>9, OthersUndisturbed DEF IInv

(* Steps that touch neither a row nor a directory keep what is said of     *)
(* runs alone.                                                             *)
LEMMA RunsUntouched ==
  ASSUME IInv, rows' = rows, dirs' = dirs, damaged' = damaged
  PROVE  (Intact /\ CompleteRows /\ LineageResolves)'
BY DEF IInv, Intact, CompleteRows, LineageResolves, Visible

(* A request takes a free lock and no run yet. *)
LEMMA StartStep ==
  ASSUME NEW w \in Workers, IInv, Start(w)
  PROVE  IInv'
<1> USE NoRunAssumption, NoWorkerAssumption, LanesAssumption DEF Start, Goto
<1>1. PICK l \in Lanes : /\ held[LockOf(l)] = NoWorker
                         /\ held' = [held EXCEPT ![LockOf(l)] = w]
                         /\ lane' = [lane EXCEPT ![w] = l]
  OBVIOUS
<1>2. LockOf(l) \in Locks
  BY DEF Locks
<1>3. TypeOK'
  BY <1>1, <1>2 DEF IInv, TypeOK, Steps
<1>4. Owners'
  BY DEF IInv, Owners
<1>5. StepOf(w)
  BY <1>1 DEF StepOf, IInv, TypeOK
<1>6. /\ pc[w] = "idle" /\ pc'[w] = "acquire" /\ lane'[w] = l /\ held'[LockOf(l)] = w
      /\ mine' = mine /\ parent' = parent
  BY <1>1, <1>2 DEF IInv, TypeOK
<1>7. WorkerOK(w)'
  BY <1>6 DEF IInv, WorkerOK, RunAt, CleanedTo, Owned, Packaging, Cleaning
<1>8. NoStrayTrace'
  BY DEF IInv, NoStrayTrace, Traced, Visible
<1> QED
  BY <1>3, <1>4, <1>5, <1>7, <1>8, RunsUntouched, OthersUndisturbed DEF IInv

(* What is decodable is visible. *)
LEMMA DecodableIsVisible ==
  ASSUME NEW r \in Runs, Decodable(r)
  PROVE  Visible(r)
BY ManifestAssumption DEF Decodable, Offered

(* The new run is fresh: no other worker has it, and its source is visible. *)
LEMMA AcquireStep ==
  ASSUME NEW w \in Workers, IInv, Acquire(w)
  PROVE  IInv'
<1> USE NoRunAssumption, NoWorkerAssumption, LanesAssumption DEF Acquire, Goto
<1>1. PICK r \in Runs : Fresh(r) /\ mine' = [mine EXCEPT ![w] = r]
  OBVIOUS
<1>2. /\ pc[w] = "acquire" /\ pc'[w] = "stage" /\ mine[w] = NoRun /\ mine'[w] = r
      /\ lane' = lane /\ lane[w] \in Lanes /\ parent[w] = NoRun
      /\ rows' = rows /\ dirs' = dirs /\ damaged' = damaged
  BY <1>1 DEF IInv, TypeOK, WorkerOK
<1>3. /\ held' \in [Locks -> Workers \cup {NoWorker}]
      /\ \A v \in Workers \ {w}, k \in Locks : held[k] = v => held'[k] = v
  BY DEF Unlock, IInv, TypeOK
<1>4. /\ parent' \in [Workers -> Runs \cup {NoRun}]
      /\ \A v \in Workers \ {w} : parent'[v] = parent[v]
      /\ lane[w] = "decode" =>
           /\ parent'[w] \in Runs
           /\ Visible(parent'[w])
           /\ rows[parent'[w]].lane \in {"scope", "survey"}
      /\ lane[w] # "decode" => parent'[w] = NoRun
  <2>1. CASE lane[w] = "decode"
    <3> PICK s \in Runs : Decodable(s) /\ parent' = [parent EXCEPT ![w] = s]
      BY <2>1
    <3> QED
      BY <2>1, DecodableIsVisible DEF IInv, TypeOK, Decodable
  <2>2. CASE lane[w] # "decode"
    BY <1>2, <2>2 DEF IInv, TypeOK
  <2> QED
    BY <2>1, <2>2
<1>5. TypeOK'
  BY <1>1, <1>3, <1>4 DEF IInv, TypeOK, Steps
<1>6. Owners'
  BY <1>1 DEF IInv, TypeOK, Owners, Fresh
<1>7. StepOf(w)
  BY <1>1, <1>3, <1>4 DEF StepOf, IInv, TypeOK
<1>8. WorkerOK(w)'
  BY <1>1, <1>2, <1>4 DEF WorkerOK, RunAt, CleanedTo, Owned, Packaging, Cleaning, Fresh,
                          Visible, NoRow, NoDir
<1>9. NoStrayTrace'
  BY <1>1, <1>2 DEF IInv, TypeOK, NoStrayTrace, Traced, Visible
<1> QED
  BY <1>2, <1>5, <1>6, <1>7, <1>8, <1>9, RunsUntouched, OthersUndisturbed DEF IInv

(* An exception before the try block: the run has left no trace. *)
LEMMA FailEarlyStep ==
  ASSUME NEW w \in Workers, IInv, FailEarly(w)
  PROVE  IInv'
<1> USE NoRunAssumption DEF FailEarly, Goto
<1>1. TypeOK' /\ Owners' /\ NoStrayTrace'
  BY DEF IInv, TypeOK, Owners, NoStrayTrace, Traced, Visible, Steps
<1>2. StepOf(w)
  BY DEF StepOf, IInv, TypeOK
<1>3. /\ pc[w] \in {"acquire", "stage"} /\ pc'[w] = "return" /\ WorkerOK(w)
      /\ mine' = mine /\ lane' = lane /\ parent' = parent /\ rows' = rows /\ dirs' = dirs
      /\ damaged' = damaged
  BY DEF IInv, TypeOK
<1>4. CleanedTo(w)'
  BY <1>3 DEF WorkerOK, RunAt, CleanedTo, Traced, NoRow, NoDir
<1>5. WorkerOK(w)'
  BY <1>3, <1>4 DEF WorkerOK, RunAt, Owned, Packaging, Cleaning
<1> QED
  BY <1>1, <1>2, <1>3, <1>5, RunsUntouched, OthersUndisturbed DEF IInv

(* A worker that leaves has completed its run, cleaned it or abandoned it. *)
LEMMA ReturnStep ==
  ASSUME NEW w \in Workers, IInv, Return(w)
  PROVE  IInv'
<1> USE NoRunAssumption, NoWorkerAssumption DEF Return, Goto
<1>1. /\ held' \in [Locks -> Workers \cup {NoWorker}]
      /\ \A v \in Workers \ {w}, k \in Locks : held[k] = v => held'[k] = v
  BY DEF Unlock, IInv, TypeOK
<1>2. TypeOK' /\ Owners'
  BY <1>1 DEF IInv, TypeOK, Owners, Steps
<1>3. StepOf(w)
  BY <1>1 DEF StepOf, IInv, TypeOK
<1>4. /\ pc'[w] = "idle" /\ lane'[w] = "none" /\ mine'[w] = NoRun /\ parent'[w] = NoRun
      /\ \A v \in Workers \ {w} : mine'[v] = mine[v]
      /\ rows' = rows /\ dirs' = dirs /\ abandoned' = abandoned /\ damaged' = damaged
  BY DEF IInv, TypeOK
<1>5. WorkerOK(w)'
  BY <1>4 DEF WorkerOK, RunAt, CleanedTo, Owned, Packaging, Cleaning
<1>6. CleanedTo(w) /\ pc[w] = "return"
  BY DEF IInv, WorkerOK
<1>7. NoStrayTrace'
  BY <1>4, <1>6 DEF IInv, NoStrayTrace, CleanedTo, Traced, Visible
<1> QED
  BY <1>2, <1>3, <1>4, <1>5, <1>7, RunsUntouched, OthersUndisturbed DEF IInv

(* Writing a directory back changes nothing a reader or a worker sees. *)
LEMMA WriteBackStep ==
  ASSUME NEW r \in Runs, IInv, WriteBack(r)
  PROVE  IInv'
<1> USE DEF WriteBack
<1>1. TypeOK' /\ Owners' /\ NoStrayTrace'
  BY DEF IInv, TypeOK, Owners, NoStrayTrace, Traced, Visible
<1>2. \A w \in Workers : WorkerOK(w)'
  BY DEF IInv, WorkerOK, RunAt, CleanedTo, Owned, Pending, Visible, Traced
<1> QED
  BY <1>1, <1>2, RunsUntouched DEF IInv

(* When the workers die nothing remains to be known of them. *)
LEMMA DeathClears ==
  ASSUME IInv, WorkersDie
  PROVE  Owners' /\ \A w \in Workers : WorkerOK(w)'
BY DEF WorkersDie, Owners, WorkerOK, RunAt, CleanedTo, Owned, Packaging, Cleaning

(* The death of the service abandons the runs in progress and no other. *)
LEMMA CrashStep ==
  ASSUME IInv, Crash
  PROVE  IInv'
<1> USE DEF Crash, WorkersDie
<1>1. TypeOK'
  BY DEF IInv, TypeOK, Steps
<1>2. NoStrayTrace'
  BY DEF IInv, NoStrayTrace, Traced, Visible
<1> QED
  BY <1>1, <1>2, DeathClears, RunsUntouched DEF IInv

(* A power cut damages only runs that were not written back. *)
LEMMA PowerCutStep ==
  ASSUME IInv, PowerCut
  PROVE  IInv'
<1> USE DEF PowerCut
<1>1. /\ dirs' \in [Runs -> UNION {Survivors(r) : r \in Runs}]
      /\ \A r \in Runs : dirs'[r] \in Survivors(r)
  OBVIOUS
<1>2. \A r \in Runs : dirs'[r] \in Dir
  BY <1>1 DEF Survivors, Decayed, IInv, TypeOK
<1>3. TypeOK'
  BY <1>1, <1>2 DEF WorkersDie, IInv, TypeOK, Steps
<1>4. \A r \in Runs : dirs[r].at = "none" => dirs'[r].at = "none"
  BY <1>1 DEF Survivors, Decayed
<1>5. \A r \in Runs : r \notin damaged' =>
        r \notin damaged /\ (dirs'[r] = dirs[r] \/ (dirs[r].at = "none" /\ dirs'[r].torn = {}))
  BY <1>1 DEF Survivors, Decayed
<1>6. Intact'
  BY <1>5 DEF IInv, Intact, Visible
<1>7. NoStrayTrace'
  BY <1>4 DEF WorkersDie, IInv, NoStrayTrace, Traced, Visible
<1>8. CompleteRows' /\ LineageResolves'
  BY DEF IInv, CompleteRows, LineageResolves, Visible
<1> QED
  BY <1>3, <1>6, <1>7, <1>8, DeathClears DEF IInv

(* Every step preserves the inductive invariant. *)
LEMMA NextIInv == IInv /\ [Next]_vars => IInv'
<1> SUFFICES ASSUME IInv, [Next]_vars PROVE IInv'
  OBVIOUS
<1>1. CASE UNCHANGED vars
  BY <1>1 DEF vars, IInv, TypeOK, Owners, WorkerOK, RunAt, CleanedTo, Owned, Pending, Intact,
              CompleteRows, NoStrayTrace, LineageResolves, Traced, Visible
<1>2. ASSUME NEW w \in Workers, Start(w) \/ FailEarly(w) \/ Fail(w) PROVE IInv'
  BY <1>2, StartStep, FailEarlyStep, FailStep
<1>3. ASSUME NEW w \in Workers, Work(w) PROVE IInv'
  BY <1>3, AcquireStep, StageStep, WriteStep, CreateRowStep, WriteManifestStep, RenameStep,
     RegisterStep, CompleteStep, ReturnStep, RemoveStagingStep, RemovePublishedStep,
     DeleteRowStep DEF Work
<1>4. ASSUME NEW r \in Runs, WriteBack(r) PROVE IInv'
  BY <1>4, WriteBackStep
<1>5. CASE Crash \/ PowerCut
  BY <1>5, CrashStep, PowerCutStep
<1> QED
  BY <1>1, <1>2, <1>3, <1>4, <1>5 DEF Next

(* The inductive invariant holds in every behaviour. *)
THEOREM Invariance == Spec => []IInv
BY InitIInv, NextIInv, PTL DEF Spec

(* Every table, directory, lock and worker register keeps a value the code *)
(* can put there.                                                          *)
THEOREM TypeCorrect == Spec => []TypeOK
<1>1. IInv => TypeOK
  BY DEF IInv
<1> QED
  BY <1>1, Invariance, PTL

(* A complete row has all its artifacts registered and readable, however   *)
(* many requests, failures and restarts came before.                       *)
THEOREM VisibleRunsAreWhole == Spec => []VisibleIsWhole
<1>1. IInv => VisibleIsWhole
  BY DEF IInv, Intact, CompleteRows, VisibleIsWhole, Offered
<1> QED
  BY <1>1, Invariance, PTL

(* The except blocks leave no row and no directory behind: what is there   *)
(* is visible, in progress, or abandoned by a death or a failed cleanup.   *)
THEOREM NothingStrays == Spec => []NoStrayTrace
<1>1. IInv => NoStrayTrace
  BY DEF IInv
<1> QED
  BY <1>1, Invariance, PTL

(* The source a decode names is visible evidence of an acquisition lane.   *)
THEOREM LineageHolds == Spec => []LineageResolves
<1>1. IInv => LineageResolves
  BY DEF IInv
<1> QED
  BY <1>1, Invariance, PTL

(* No two requests acquire through one device at the same time.            *)
THEOREM AcquisitionIsExclusive == Spec => []ExclusiveAcquisition
<1>1. IInv => ExclusiveAcquisition
  BY DEF IInv, WorkerOK, ExclusiveAcquisition, LockOf, DeviceOf
<1> QED
  BY <1>1, Invariance, PTL

(* A step readers cannot notice: no run appears or disappears and nothing  *)
(* of a visible run changes.                                               *)
Unnoticed ==
  \A r \in Runs :
    /\ Visible(r)' <=> Visible(r)
    /\ Visible(r) => rows'[r] = rows[r] /\ dirs'[r] = dirs[r]

(* Of a request's steps readers notice only the completion of its row.     *)
LEMMA OnlyCompletionShows ==
  ASSUME NEW w \in Workers, IInv,
         Start(w) \/ FailEarly(w) \/ Fail(w) \/ (Work(w) /\ ~Complete(w))
  PROVE  Unnoticed
<1> USE DEF Unnoticed, Visible
<1>1. CASE UNCHANGED <<rows, dirs>>
  BY <1>1
<1>2. ASSUME Owned(w) PROVE mine[w] \in Runs /\ ~Visible(mine[w])
  BY <1>2 DEF IInv, WorkerOK
<1>3. CASE Stage(w) \/ Write(w) \/ WriteManifest(w) \/ Rename(w)
  <2>1. Owned(w) /\ rows' = rows
    BY <1>3 DEF Stage, Write, WriteManifest, Rename, Owned, Packaging
  <2>2. \A r \in Runs \ {mine[w]} : dirs'[r] = dirs[r]
    BY <1>3 DEF Stage, Write, WriteManifest, Rename, IInv, TypeOK
  <2> QED
    BY <1>2, <2>1, <2>2
<1>4. CASE RemoveStaging(w) \/ RemovePublished(w)
  <2>1. Owned(w) /\ rows' = rows
    BY <1>4 DEF RemoveStaging, RemovePublished, Owned, Cleaning
  <2>2. \A r \in Runs \ {mine[w]} : dirs'[r] = dirs[r]
    BY <1>4 DEF RemoveStaging, RemovePublished, RemoveTree, IInv, TypeOK
  <2> QED
    BY <1>2, <2>1, <2>2
<1>5. CASE CreateRow(w) \/ Register(w) \/ DeleteRow(w)
  <2>1. Owned(w) /\ dirs' = dirs /\ mine' = mine
    BY <1>5 DEF CreateRow, Register, DeleteRow, Owned, Packaging, Cleaning
  <2>2. \A r \in Runs \ {mine[w]} : rows'[r] = rows[r]
    BY <1>5 DEF CreateRow, Register, DeleteRow, IInv, TypeOK
  <2>3. ~Visible(mine[w])'
    <3>1. CASE CreateRow(w)
      BY <1>2, <2>1, <3>1 DEF CreateRow, IInv, TypeOK
    <3>2. CASE Register(w)
      <4>1. PICK f \in Files : rows' = [rows EXCEPT ![mine[w]].registered = @ \cup {f}]
        BY <3>2 DEF Register
      <4> QED
        BY <1>2, <2>1, <4>1 DEF IInv, TypeOK, Row
    <3>3. CASE DeleteRow(w)
      BY <1>2, <2>1, <3>3 DEF DeleteRow, NoRow, IInv, TypeOK
    <3> QED
      BY <1>5, <3>1, <3>2, <3>3
  <2> QED
    BY <1>2, <2>1, <2>2, <2>3
<1> QED
  BY <1>1, <1>3, <1>4, <1>5 DEF Work, Start, FailEarly, Fail, Acquire, Return

(* Completion shows one run, whole, and touches no other.                  *)
LEMMA CompletionPublishes ==
  ASSUME NEW w \in Workers, IInv, IInv', Complete(w)
  PROVE  \E r \in Runs :
           /\ ~Visible(r) /\ Visible(r)' /\ Offered(r)' = Files
           /\ \A q \in Runs \ {r} : rows'[q] = rows[q]
           /\ dirs' = dirs
<1>1. mine[w] \in Runs /\ ~Visible(mine[w]) /\ mine[w] \notin damaged
  BY NoRunAssumption DEF IInv, WorkerOK, Complete, Owned, Packaging
<1>2. dirs' = dirs /\ damaged' = damaged /\ \A r \in Runs \ {mine[w]} : rows'[r] = rows[r]
  BY DEF Complete, IInv, TypeOK
<1>3. \A r \in Runs : r = mine[w] => Visible(r)'
  BY <1>1 DEF Complete, IInv, TypeOK, Row, Visible
<1>4. \A r \in Runs : r = mine[w] => Offered(r)' = Files
  BY <1>1, <1>2, <1>3 DEF IInv, Intact, CompleteRows, Offered
<1> QED
  BY <1>1, <1>2, <1>3, <1>4

(* No step, of a request or of the environment, changes visible evidence,  *)
(* but a power cut on files not yet written back.                          *)
THEOREM EvidenceIsImmutable == Spec => PublishedForever
<1> DEFINE Kept == \A r \in Runs : Visible(r) =>
                     /\ rows'[r] = rows[r]
                     /\ r \notin damaged' => dirs'[r] = dirs[r]
<1>1. IInv /\ IInv' /\ [Next]_vars => [Kept]_vars
  <2> SUFFICES ASSUME IInv, IInv', Next PROVE Kept
    OBVIOUS
  <2>1. ASSUME NEW w \in Workers,
               Start(w) \/ FailEarly(w) \/ Fail(w) \/ (Work(w) /\ ~Complete(w))
        PROVE  Kept
    BY <2>1, OnlyCompletionShows DEF Unnoticed
  <2>2. ASSUME NEW w \in Workers, Complete(w) PROVE Kept
    BY <2>2, CompletionPublishes
  <2>3. CASE Crash \/ \E r \in Runs : WriteBack(r)
    BY <2>3 DEF Crash, WriteBack
  <2>4. CASE PowerCut
    <3>1. /\ rows' = rows
          /\ damaged' = damaged \cup {r \in Runs : r \notin synced /\ dirs[r].at # "none"}
          /\ \A r \in Runs : dirs'[r] \in Survivors(r)
      BY <2>4 DEF PowerCut
    <3>2. ASSUME NEW r \in Runs, Visible(r), r \notin damaged' PROVE dirs'[r] = dirs[r]
      BY <3>1, <3>2 DEF IInv, Intact, Survivors
    <3> QED
      BY <3>1, <3>2
  <2> QED
    BY <2>1, <2>2, <2>3, <2>4 DEF Next
<1> QED
  BY <1>1, Invariance, PTL DEF Spec, PublishedForever

(* The lanes implement the evidence store: completing a row publishes the  *)
(* run, a power cut may lose published files, and readers notice no other  *)
(* step.                                                                   *)
THEOREM LanesImplementStore == Spec => ImplementsStore
<1>1. Init => Store!Init
  BY DEF Init, Store!Init, Visible, Offered, NoRow
<1>2. IInv /\ IInv' /\ [Next]_vars => [Store!Next]_(Store!vars)
  <2> SUFFICES ASSUME IInv, IInv', [Next]_vars
               PROVE  Store!Next \/ UNCHANGED Store!vars
    BY DEF Store!vars
  <2> USE DEF Store!vars
  <2>1. ASSUME Unnoticed PROVE UNCHANGED Store!vars
    BY <2>1 DEF Unnoticed, Offered
  <2>2. CASE UNCHANGED vars
    BY <2>2 DEF vars, Visible, Offered
  <2>3. ASSUME NEW w \in Workers,
               Start(w) \/ FailEarly(w) \/ Fail(w) \/ (Work(w) /\ ~Complete(w))
        PROVE  UNCHANGED Store!vars
    BY <2>1, <2>3, OnlyCompletionShows
  <2>4. ASSUME NEW w \in Workers, Complete(w) PROVE Store!Next
    <3>1. PICK r \in Runs :
            /\ ~Visible(r) /\ Visible(r)' /\ Offered(r)' = Files
            /\ \A q \in Runs \ {r} : rows'[q] = rows[q]
            /\ dirs' = dirs
      BY <2>4, CompletionPublishes
    <3>2. \A q \in Runs \ {r} : (Visible(q)' <=> Visible(q)) /\ Offered(q)' = Offered(q)
      BY <3>1 DEF Visible, Offered
    <3>3. {q \in Runs : Visible(q)}' = {q \in Runs : Visible(q)} \cup {r}
      BY <3>1, <3>2
    <3>4. [q \in Runs |-> Offered(q)]' = [[q \in Runs |-> Offered(q)] EXCEPT ![r] = Files]
      BY <3>1, <3>2
    <3> QED
      BY <3>1, <3>3, <3>4 DEF Store!Next, Store!Publish
  <2>5. CASE Crash \/ \E r \in Runs : WriteBack(r)
    BY <2>5 DEF Crash, WriteBack, Visible, Offered
  <2>6. CASE PowerCut
    <3>1. PowerCuts /\ rows' = rows /\ \A r \in Runs : dirs'[r] \in Survivors(r)
      BY <2>6 DEF PowerCut
    <3>2. \A r \in Runs : Offered(r)' \subseteq Offered(r) /\ Offered(r)' \subseteq Files
      BY <3>1 DEF IInv, TypeOK, Row, Offered, Visible, Survivors, Decayed
    <3> QED
      BY <3>1, <3>2 DEF Store!Next, Store!Lose, Visible
  <2> QED
    BY <2>2, <2>3, <2>4, <2>5, <2>6 DEF Next
<1> QED
  BY <1>1, <1>2, Invariance, PTL DEF Spec, ImplementsStore, Store!Spec
================================================================================
