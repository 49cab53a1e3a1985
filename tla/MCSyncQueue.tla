------------------------------ MODULE MCSyncQueue ------------------------------
(* Instances of SyncQueue for TLC. *)
EXTENDS SyncQueue, TLC

OpSymmetry == Permutations(Ops)
===============================================================================
