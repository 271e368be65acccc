---------------------------- MODULE MCHumanPrompt ----------------------------
(* Instances of HumanPrompt for TLC: handler threads are interchangeable.     *)
EXTENDS HumanPrompt, TLC

Symmetry == Permutations(Caller)
=============================================================================
