----------------------------- MODULE SecureStorage -----------------------------
(***************************************************************************)
(* The keys of SecureTokenStorage (lib/core/storage/                       *)
(* secure_token_storage.dart) and the calls it makes to the plugin         *)
(* flutter_secure_storage.  A value is the number of the login that wrote  *)
(* it; NoValue is what a read answers when nothing is stored.              *)
(***************************************************************************)
EXTENDS Naturals, Sequences

CONSTANT MaxLogins   \* bound: logins explored

ASSUME LoginsAssumption == MaxLogins \in Nat

Keys    == {"refresh", "email", "access", "marker"}
NoValue == 0
Value   == 0 .. MaxLogins
Map     == [Keys -> Value]
Empty   == [k \in Keys |-> NoValue]

\* swallowed: SecureTokenStorage catches the error of this call and goes on;
\* otherwise the error abandons the calls that were to follow.
Call == [method : {"write", "delete", "deleteAll"}, key : Keys, value : Value, swallowed : BOOLEAN]

CallWrite(k, v)  == [method |-> "write", key |-> k, value |-> v, swallowed |-> FALSE]
CallMarker(v)    == [method |-> "write", key |-> "marker", value |-> v, swallowed |-> TRUE]
CallClearMarker  == [method |-> "delete", key |-> "marker", value |-> NoValue, swallowed |-> TRUE]
CallDeleteAll    == [method |-> "deleteAll", key |-> "marker", value |-> NoValue, swallowed |-> FALSE]

\* What a call makes of the stored map when it succeeds.
Effect(call, map) ==
  CASE call.method = "write"     -> [map EXCEPT ![call.key] = call.value]
    [] call.method = "delete"    -> [map EXCEPT ![call.key] = NoValue]
    [] call.method = "deleteAll" -> Empty
===============================================================================
