------------------------------ MODULE MCShipments ------------------------------
(* Instances of Shipments for TLC. *)
EXTENDS Shipments, TLC

\* Calls and decisions in progress are interchangeable, and so are the officers:
\* here all of them hold both permissions, as logistics officers do.
SlotAndUserSymmetry ==
  Permutations(Requests) \cup Permutations(Deciders) \cup Permutations(Users)
===============================================================================
