------------------------------- MODULE Requests --------------------------------
(***************************************************************************)
(* HTTP requests that read a row, check it, and write it in the same       *)
(* transaction without having locked it (backend/app/alerts/service.py,    *)
(* responders/service.py, field/service.py).  PostgreSQL runs them at READ *)
(* COMMITTED: the row may have changed in between, and an update waits for *)
(* the transactions that have locked it and then applies to what they left.*)
(* What a request writes therefore becomes visible as one step, its last.  *)
(***************************************************************************)
CONSTANTS
  Calls,    \* bound: requests under way at the same time
  NoCall

VARIABLE calls   \* what each request has checked and is about to write

\* on: the table; row: the row; new: the status to write.
RequestOf(on, rows, statuses) == [on : {on}, row : rows, new : statuses]

RequestsInit == calls = [c \in Calls |-> NoCall]

Begin(c, request) ==
  /\ calls[c] = NoCall
  /\ calls' = [calls EXCEPT ![c] = request]

End(c) == calls' = [calls EXCEPT ![c] = NoCall]

\* A request fails, at any point: its transaction is rolled back.
CallDies(c) == calls[c] # NoCall /\ End(c)

InProgress(c, on) == calls[c] # NoCall /\ calls[c].on = on
===============================================================================
