----------------------------- MODULE MCSdrDongle -----------------------------
(* Instances of SdrDongle for TLC: threads are interchangeable.              *)
EXTENDS SdrDongle, TLC

Symmetry == Permutations(Thread)
=============================================================================
