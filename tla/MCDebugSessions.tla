--------------------------- MODULE MCDebugSessions ---------------------------
(* Instances of DebugSessions for TLC.  SLOT1 holds a board with JTAG of its  *)
(* own, SLOT2 one that a probe is wired to.                                   *)
EXTENDS DebugSessions, TLC

CONSTANTS s1, s2, p1

OneWired == [p \in Probe |-> s2]

Symmetry == Permutations(Thread) \cup Permutations(Proc)
=============================================================================
