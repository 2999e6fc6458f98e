--------------------------- MODULE MCEvidenceRecords -----------------------------
(* Small instances of EvidenceRecords for TLC. *)
EXTENDS EvidenceRecords, TLC

(* One VIN, written in two ways. *)
VinForms == {"vin", " vin "}
NormalVins == {"vin"}
Normalised == [form \in VinForms |-> "vin"]
Fleets == {<<>>, <<" vin ">>, <<"vin", " vin ">>}
Symmetry == Permutations(Threads)
================================================================================
