------------------------------ MODULE MCDispatch -------------------------------
(* Instances of Dispatch for TLC. *)
EXTENDS Dispatch

CONSTANTS near, far

\* Both responders are in range of every incident.
MCInRange == [r \in Reports |-> <<near, far>>]
===============================================================================
