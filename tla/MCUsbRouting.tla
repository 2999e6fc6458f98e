------------------------------ MODULE MCUsbRouting ------------------------------
(* UsbRouting for TLC: two devices that are twins by VID:PID, or one.      *)
EXTENDS UsbRouting, TLC

CONSTANTS d1, d2, a

Bench == {d1, d2}
TwinIds == [d \in Bench |-> a]

OneDevice == {d1}
OneId == [d \in OneDevice |-> a]

(* Twins may be exchanged, and so may threads. *)
Symmetric == Permutations(Threads) \cup Permutations(Bench)
================================================================================
