----------------------------- MODULE EvidenceStore -----------------------------
(***************************************************************************)
(* What Remote Dan promises the readers of its evidence: a run is either   *)
(* unknown to them or published, it becomes published in one step, and at  *)
(* that step every one of its files can be read.  The capture, serial,     *)
(* Modbus, bus-survey, CAN-decode and OBD lanes all implement this store;  *)
(* a database row, a staging directory, a rename and a set of artifact     *)
(* records are their business and not the readers'.                        *)
(*                                                                         *)
(* MayLose says whether a power cut may take published files away again.   *)
(* It is FALSE for the OBD lane, which syncs a run before it commits the   *)
(* run's row, and TRUE for the other lanes, which never call fsync.        *)
(***************************************************************************)
CONSTANTS
  Runs,       \* run identifiers
  Files,      \* the files of a run, the manifest included
  MayLose     \* may published files be lost?

VARIABLES
  published,  \* the runs whose row is complete
  offered     \* offered[r] is the set of files of r that a reader can obtain

vars == <<published, offered>>

Init ==
  /\ published = {}
  /\ offered = [r \in Runs |-> {}]

(* A run appears whole. *)
Publish(r) ==
  /\ r \notin published
  /\ published' = published \cup {r}
  /\ offered' = [offered EXCEPT ![r] = Files]

(* Files of published runs disappear; nothing is ever served in their place. *)
Lose ==
  /\ MayLose
  /\ offered' \in [Runs -> SUBSET Files]
  /\ \A r \in Runs : offered'[r] \subseteq offered[r]
  /\ UNCHANGED published

Next == Lose \/ \E r \in Runs : Publish(r)

Spec == Init /\ [][Next]_vars
================================================================================
