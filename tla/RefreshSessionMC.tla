-------------------------- MODULE RefreshSessionMC --------------------------
(* RefreshSession for TLC: session ids, devices and call slots are         *)
(* interchangeable (no liveness is checked).                               *)
EXTENDS RefreshSession, TLC

Interchangeable == Permutations(Sessions) \cup Permutations(Devices) \cup Permutations(Calls)
=============================================================================
