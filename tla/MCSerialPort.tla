---------------------------- MODULE MCSerialPort ----------------------------
(* Instances of SerialPort for TLC: threads of a kind are interchangeable.   *)
EXTENDS SerialPort, TLC

Symmetry == Permutations(Monitor) \cup Permutations(Writer)
=============================================================================
