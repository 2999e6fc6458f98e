----------------------------- MODULE MCObdEvidence -----------------------------
(* Small instances of ObdEvidence for TLC: one operation id that two       *)
(* savers may ask for with the same kind or with another.                  *)
EXTENDS ObdEvidence, TLC

CONSTANTS o1, liveData, faultCodes

OneOp == {o1}
Asked == {liveData, faultCodes}
================================================================================
