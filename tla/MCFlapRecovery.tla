--------------------------- MODULE MCFlapRecovery ---------------------------
(* Instances of FlapRecovery for TLC: recovery threads are interchangeable.   *)
EXTENDS FlapRecovery

Symmetry == Permutations(Rec)
=============================================================================
