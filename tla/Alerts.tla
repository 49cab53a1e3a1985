-------------------------------- MODULE Alerts ---------------------------------
(***************************************************************************)
(* Alerts of the decision-intelligence cycle (backend/app/alerts/          *)
(* service.py, workers/runner.py intel_assessment): one per dedup key,     *)
(* acknowledged and resolved by officers.                                  *)
(*                                                                         *)
(* Two statements of the source always fail, and are modelled so.  The     *)
(* refresh of an open alert calls format on a SQLAlchemy text object; the  *)
(* exception ends the cycle.  The staleness query of the escalation sweep  *)
(* mixes an aggregate with a plain column; PostgreSQL refuses it and the   *)
(* sweep changes nothing, so stages and the status ESCALATED do not occur. *)
(* Nothing calls transition(), so VALIDATED, MITIGATED and CLOSED do not   *)
(* occur either.                                                           *)
(*                                                                         *)
(* The insert of create_alert and the sweep's update name the column       *)
(* current_role without the quotes that PostgreSQL asks for.  The insert   *)
(* is modelled as if it had them: without, no alert is ever created and    *)
(* what follows is true of an empty table.                                 *)
(***************************************************************************)
EXTENDS Requests, Naturals

CONSTANTS
  Keys,        \* dedup keys: a segment and a kind of hazard
  NoKey,
  MaxAlerts    \* bound: alerts ever inserted

AlertIds    == 1 .. MaxAlerts
AlertStatus == {"ACTIVE", "ACKNOWLEDGED", "RESOLVED"}

ASSUME AlertAssumption ==
  /\ MaxAlerts \in Nat
  /\ NoKey \notin Keys
  /\ NoCall \notin RequestOf("alert", AlertIds, AlertStatus)

VARIABLES
  key,          \* dedup_key of each committed alert, NoKey: no such row
  status,       \* its status
  resolvedAt,   \* its resolved_at is set
  dangerous,    \* keys whose hazard is HIGH or CRITICAL, or in conflict
  intelPc,      \* intel_assessment: "idle" or "upsert"
  assessed,     \* keys it has still to create or refresh an alert for
  inserted      \* key of each alert its open transaction has inserted

alertVars == <<key, status, resolvedAt, dangerous, intelPc, assessed, inserted>>
vars      == <<calls, alertVars>>

NoRows == [a \in AlertIds |-> NoKey]

TypeOK ==
  /\ calls \in [Calls -> RequestOf("alert", AlertIds, AlertStatus) \cup {NoCall}]
  /\ key \in [AlertIds -> Keys \cup {NoKey}]
  /\ status \in [AlertIds -> AlertStatus]
  /\ resolvedAt \in [AlertIds -> BOOLEAN]
  /\ dangerous \subseteq Keys
  /\ intelPc \in {"idle", "upsert"}
  /\ assessed \subseteq Keys
  /\ inserted \in [AlertIds -> Keys \cup {NoKey}]

Init ==
  /\ RequestsInit
  /\ key = NoRows
  /\ status = [a \in AlertIds |-> "ACTIVE"]
  /\ resolvedAt = [a \in AlertIds |-> FALSE]
  /\ dangerous = {}
  /\ intelPc = "idle" /\ assessed = {} /\ inserted = NoRows

Exists(a) == key[a] # NoKey

\* Mutant: an acknowledged alert is taken for a closed one.
IsOpenUnattended(a) == Exists(a) /\ status[a] = "ACTIVE"

IsOpen(a) == Exists(a) /\ status[a] \in {"ACTIVE", "ACKNOWLEDGED"}
-------------------------------------------------------------------------------
\* acknowledge and resolve, up to the checks of the row.
LoadAlert(c, a, new) ==
  /\ Exists(a)
  /\ new = "ACKNOWLEDGED" => status[a] = "ACTIVE"
  /\ new = "RESOLVED" => status[a] # "RESOLVED"
  /\ Begin(c, [on |-> "alert", row |-> a, new |-> new])
  /\ UNCHANGED alertVars

\* ... the update, on whatever the row has become.
WriteAlert(c) ==
  /\ InProgress(c, "alert")
  /\ status' = [status EXCEPT ![calls[c].row] = calls[c].new]
  /\ resolvedAt' = [resolvedAt EXCEPT ![calls[c].row] = @ \/ calls[c].new = "RESOLVED"]
  /\ End(c)
  /\ UNCHANGED <<key, dangerous, intelPc, assessed, inserted>>

AlertCall(c) ==
  \/ \E a \in AlertIds, new \in {"ACKNOWLEDGED", "RESOLVED"} : LoadAlert(c, a, new)
  \/ WriteAlert(c)
  \/ CallDies(c) /\ UNCHANGED alertVars
-------------------------------------------------------------------------------
\* The weather and the rivers.
ConditionChanges(k) ==
  /\ dangerous' = IF k \in dangerous THEN dangerous \ {k} ELSE dangerous \cup {k}
  /\ UNCHANGED <<key, status, resolvedAt, intelPc, assessed, inserted, calls>>

EndCycle == intelPc' = "idle" /\ assessed' = {} /\ inserted' = NoRows

\* Mutant: the cycle also asks for an alert that has no dedup key.
AssessUnkeyed ==
  /\ intelPc = "idle"
  /\ intelPc' = "upsert"
  /\ assessed' = dangerous \cup {NoKey}
  /\ UNCHANGED <<key, status, resolvedAt, dangerous, inserted, calls>>

\* intel_assessment: a transaction begins with the assessment of the segments.  It
\* sees the dangers on the first 50 segments by id that have a prediction, without
\* those on segments whose row it cannot digest.
Assess ==
  /\ intelPc = "idle"
  /\ intelPc' = "upsert"
  /\ assessed' \in SUBSET dangerous
  /\ UNCHANGED <<key, status, resolvedAt, dangerous, inserted, calls>>

\* The row the next insert makes.
IsNextRow(a) == \A b \in AlertIds : (Exists(b) \/ inserted[b] # NoKey) <=> b < a

\* upsert_deduped_alert: no open alert has the key, one is inserted.
CreateForKey(k) ==
  /\ k \in assessed
  /\ \A a \in AlertIds : IsOpen(a) => key[a] # k
  /\ \E a \in AlertIds : IsNextRow(a) /\ inserted' = [inserted EXCEPT ![a] = k]
  /\ assessed' = assessed \ {k}
  /\ UNCHANGED <<key, status, resolvedAt, dangerous, intelPc, calls>>

\* upsert_deduped_alert: an open alert has the key; the exception reaches
\* intel_assessment, which gives up the cycle with all it has inserted.
RefreshFails(k) ==
  /\ k \in assessed
  /\ \E a \in AlertIds : IsOpen(a) /\ key[a] = k
  /\ EndCycle
  /\ UNCHANGED <<key, status, resolvedAt, dangerous, calls>>

\* The assessment or a statement fails otherwise, or the worker is restarted.
CycleFails ==
  /\ intelPc = "upsert"
  /\ EndCycle
  /\ UNCHANGED <<key, status, resolvedAt, dangerous, calls>>

CommitCycle ==
  /\ intelPc = "upsert" /\ assessed = {}
  /\ key' = [a \in AlertIds |-> IF inserted[a] # NoKey THEN inserted[a] ELSE key[a]]
  /\ EndCycle
  /\ UNCHANGED <<status, resolvedAt, dangerous, calls>>

Upsert == \E k \in Keys : CreateForKey(k) \/ RefreshFails(k)

IntelCycle == Assess \/ Upsert \/ CommitCycle \/ CycleFails
-------------------------------------------------------------------------------
Next ==
  \/ \E c \in Calls : AlertCall(c)
  \/ \E k \in Keys : ConditionChanges(k)
  \/ IntelCycle

Spec == Init /\ [][Next]_vars

\* One alert per condition: while none of a key's alerts has been resolved there
\* is only one of them, whatever officers and the cycle do in between
\* (upsert_deduped_alert, "No duplicate spam per polling cycle").
OneAlertPerKey ==
  \A a, b \in AlertIds :
    Exists(a) /\ key[a] = key[b] /\ a # b => resolvedAt[a] \/ resolvedAt[b]
===============================================================================
