---------------------------- MODULE MCSlotGrants ----------------------------
(* Instances of SlotGrants for TLC: clients are interchangeable.             *)
EXTENDS SlotGrants, TLC

Symmetry == Permutations(Client) \cup Permutations(Slot)
=============================================================================
