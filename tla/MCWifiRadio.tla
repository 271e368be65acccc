----------------------------- MODULE MCWifiRadio -----------------------------
(* Instances of WifiRadio for TLC: threads, names and stations are           *)
(* interchangeable.                                                          *)
EXTENDS WifiRadio, TLC

Symmetry == Permutations(Thread) \cup Permutations(Ssid)
=============================================================================
