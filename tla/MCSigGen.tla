------------------------------ MODULE MCSigGen ------------------------------
(* Instances of SigGen for TLC: threads are interchangeable.                 *)
EXTENDS SigGen, TLC

Symmetry == Permutations(Thread)
=============================================================================
