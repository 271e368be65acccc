---------------------------- MODULE MCSlotProxy ----------------------------
(* Instances of SlotProxy for TLC.  Threads and process ids are               *)
(* interchangeable: no definition tells two of them apart.                    *)
EXTENDS SlotProxy, TLC

Symmetry == Permutations(Thread) \cup Permutations(Pid)
=============================================================================
