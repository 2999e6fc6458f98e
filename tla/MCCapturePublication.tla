-------------------------- MODULE MCCapturePublication --------------------------
(* Small instances of CapturePublication for TLC. *)
EXTENDS CapturePublication, TLC

(* Runs and workers are interchangeable in the safety run; the manifest is *)
(* no file like another, so the files are left alone.                      *)
Symmetric == Permutations(Workers) \cup Permutations(Runs)
================================================================================
