----------------------------- MODULE AlertsProofs ------------------------------
(***************************************************************************)
(* Proofs about Alerts for any number of requests, dedup keys and alerts.  *)
(***************************************************************************)
EXTENDS Alerts, TLAPS

\* Requests begin and end.
LEMMA BeginType ==
  ASSUME TypeOK, NEW c \in Calls, NEW a \in AlertIds, NEW new \in {"ACKNOWLEDGED", "RESOLVED"},
         Begin(c, [on |-> "alert", row |-> a, new |-> new])
  PROVE  calls' \in [Calls -> RequestOf("alert", AlertIds, AlertStatus) \cup {NoCall}]
<1>1. [on |-> "alert", row |-> a, new |-> new] \in RequestOf("alert", AlertIds, AlertStatus)
  BY DEF RequestOf, AlertStatus
<1>2. QED
  BY <1>1 DEF Begin, TypeOK

LEMMA EndType ==
  ASSUME TypeOK, NEW c \in Calls, End(c)
  PROVE  calls' \in [Calls -> RequestOf("alert", AlertIds, AlertStatus) \cup {NoCall}]
BY DEF End, TypeOK

\* What a request under way may hold.
LEMMA CallHolds ==
  ASSUME TypeOK, NEW c \in Calls, InProgress(c, "alert")
  PROVE  calls[c].row \in AlertIds /\ calls[c].new \in AlertStatus
BY DEF InProgress, TypeOK, RequestOf

LEMMA EndCycleType ==
  ASSUME EndCycle
  PROVE  /\ intelPc' \in {"idle", "upsert"} /\ assessed' \subseteq Keys
         /\ inserted' \in [AlertIds -> Keys \cup {NoKey}]
BY DEF EndCycle, NoRows

LEMMA TypeStep ==
  ASSUME TypeOK, [Next]_vars
  PROVE  TypeOK'
<1>1. ASSUME NEW c \in Calls, NEW a \in AlertIds, NEW new \in {"ACKNOWLEDGED", "RESOLVED"},
             LoadAlert(c, a, new)
      PROVE  TypeOK'
  BY <1>1, BeginType DEF LoadAlert, alertVars, TypeOK
<1>2. ASSUME NEW c \in Calls, WriteAlert(c)
      PROVE  TypeOK'
  <2>1. status' \in [AlertIds -> AlertStatus]
    BY <1>2, CallHolds DEF WriteAlert, TypeOK
  <2>2. resolvedAt' \in [AlertIds -> BOOLEAN]
    BY <1>2, CallHolds DEF WriteAlert, TypeOK
  <2>3. QED
    BY <1>2, <2>1, <2>2, EndType DEF WriteAlert, TypeOK
<1>3. ASSUME NEW c \in Calls, CallDies(c), UNCHANGED alertVars
      PROVE  TypeOK'
  BY <1>3, EndType DEF CallDies, alertVars, TypeOK
<1>4. ASSUME NEW k \in Keys, ConditionChanges(k)
      PROVE  TypeOK'
  BY <1>4 DEF ConditionChanges, TypeOK
<1>5. CASE Assess
  BY <1>5 DEF Assess, TypeOK
<1>6. ASSUME NEW k \in Keys, CreateForKey(k)
      PROVE  TypeOK'
  <2>1. inserted' \in [AlertIds -> Keys \cup {NoKey}]
    BY <1>6 DEF CreateForKey, TypeOK
  <2>2. QED
    BY <1>6, <2>1 DEF CreateForKey, TypeOK
<1>7. ASSUME NEW k \in Keys, RefreshFails(k)
      PROVE  TypeOK'
  BY <1>7, EndCycleType DEF RefreshFails, TypeOK
<1>8. CASE CycleFails
  BY <1>8, EndCycleType DEF CycleFails, TypeOK
<1>9. ASSUME CommitCycle
      PROVE  TypeOK'
  <2>1. key' \in [AlertIds -> Keys \cup {NoKey}]
    BY <1>9 DEF CommitCycle, TypeOK
  <2>2. QED
    BY <1>9, <2>1, EndCycleType DEF CommitCycle, TypeOK
<1>10. CASE UNCHANGED vars
  BY <1>10 DEF vars, alertVars, TypeOK
<1>11. QED
  BY <1>1, <1>2, <1>3, <1>4, <1>5, <1>6, <1>7, <1>8, <1>9, <1>10
  DEF Next, AlertCall, IntelCycle, Upsert

LEMMA InitType ==
  ASSUME Init
  PROVE  TypeOK
BY DEF Init, RequestsInit, NoRows, AlertStatus, TypeOK

\* Every variable of the requests, the alerts and the cycle keeps its type.
THEOREM TypeCorrect == Spec => []TypeOK
<1>1. Init => TypeOK
  BY InitType
<1>2. TypeOK /\ [Next]_vars => TypeOK'
  BY TypeStep
<1>3. QED
  BY <1>1, <1>2, PTL DEF Spec
-------------------------------------------------------------------------------
\* A resolved alert carries its time stamp, which nothing takes away again.
ResolvedIsStamped == \A a \in AlertIds : status[a] = "RESOLVED" => resolvedAt[a]

\* What the open transaction of the cycle has inserted: new rows, one per key,
\* of keys whose committed alerts were all resolved.
InsertsAreNew ==
  \A a \in AlertIds : inserted[a] # NoKey =>
    /\ ~Exists(a)
    /\ inserted[a] \notin assessed
    /\ \A b \in AlertIds : a # b => inserted[b] # inserted[a]
    /\ \A b \in AlertIds : key[b] = inserted[a] => resolvedAt[b]

IdleIsClean == intelPc = "idle" => assessed = {} /\ inserted = NoRows

AlertInv == TypeOK /\ ResolvedIsStamped /\ InsertsAreNew /\ IdleIsClean /\ OneAlertPerKey

LEMMA EndCycleInv ==
  ASSUME TypeOK, EndCycle
  PROVE  InsertsAreNew' /\ IdleIsClean'
BY DEF EndCycle, InsertsAreNew, IdleIsClean, NoRows

\* The inserts of an upsert: all earlier alerts of the key are resolved.
LEMMA CreateInv ==
  ASSUME AlertInv, NEW k \in Keys, CreateForKey(k)
  PROVE  InsertsAreNew'
<1>1. PICK a \in AlertIds : IsNextRow(a) /\ inserted' = [inserted EXCEPT ![a] = k]
  BY DEF CreateForKey
<1>2. ~Exists(a) /\ inserted[a] = NoKey
  BY <1>1, AlertAssumption DEF IsNextRow, AlertIds
<1>3. \A b \in AlertIds : key[b] = k => resolvedAt[b]
  <2>1. ASSUME NEW b \in AlertIds, key[b] = k
        PROVE  status[b] = "RESOLVED"
    BY <2>1, AlertAssumption DEF CreateForKey, IsOpen, Exists, AlertInv, TypeOK, AlertStatus
  <2>2. QED
    BY <2>1 DEF AlertInv, ResolvedIsStamped
<1>4. \A b \in AlertIds : inserted[b] # k
  BY AlertAssumption DEF CreateForKey, AlertInv, InsertsAreNew
<1>5. inserted'[a] = k /\ \A b \in AlertIds : b # a => inserted'[b] = inserted[b]
  BY <1>1 DEF AlertInv, TypeOK
<1>6. key' = key /\ resolvedAt' = resolvedAt /\ assessed' = assessed \ {k}
  BY DEF CreateForKey
<1>7. QED
  BY <1>2, <1>3, <1>4, <1>5, <1>6 DEF AlertInv, InsertsAreNew, Exists

\* The commit puts the new rows beside the old ones.
LEMMA CommitInv ==
  ASSUME AlertInv, CommitCycle
  PROVE  OneAlertPerKey'
<1>1. \A a \in AlertIds : key'[a] = IF inserted[a] # NoKey THEN inserted[a] ELSE key[a]
  BY DEF CommitCycle
<1>2. resolvedAt' = resolvedAt
  BY DEF CommitCycle
<1>3. SUFFICES ASSUME NEW a \in AlertIds, NEW b \in AlertIds,
                      key'[a] # NoKey, key'[a] = key'[b], a # b
               PROVE  resolvedAt[a] \/ resolvedAt[b]
  BY <1>2 DEF OneAlertPerKey, Exists
<1>4. CASE inserted[a] # NoKey
  BY <1>1, <1>3, <1>4 DEF AlertInv, InsertsAreNew
<1>5. CASE inserted[b] # NoKey
  BY <1>1, <1>3, <1>5 DEF AlertInv, InsertsAreNew
<1>6. CASE inserted[a] = NoKey /\ inserted[b] = NoKey
  BY <1>1, <1>3, <1>6 DEF AlertInv, OneAlertPerKey, Exists
<1>7. QED
  BY <1>4, <1>5, <1>6

LEMMA AlertStep ==
  ASSUME AlertInv, [Next]_vars
  PROVE  AlertInv'
<1>1. TypeOK'
  BY TypeStep DEF AlertInv
<1>2. ASSUME UNCHANGED <<key, status, resolvedAt, intelPc, assessed, inserted>>
      PROVE  AlertInv'
  BY <1>1, <1>2 DEF AlertInv, ResolvedIsStamped, InsertsAreNew, IdleIsClean, OneAlertPerKey, Exists
<1>3. CASE \E c \in Calls : (\E a \in AlertIds, new \in {"ACKNOWLEDGED", "RESOLVED"} : LoadAlert(c, a, new))
                            \/ (CallDies(c) /\ UNCHANGED alertVars)
  BY <1>2, <1>3 DEF LoadAlert, alertVars
<1>4. ASSUME NEW c \in Calls, WriteAlert(c)
      PROVE  AlertInv'
  <2>1. \A a \in AlertIds : resolvedAt[a] => resolvedAt'[a]
    BY <1>4, CallHolds DEF WriteAlert, AlertInv, TypeOK
  <2>2. \A a \in AlertIds : status'[a] = "RESOLVED" => resolvedAt'[a]
    BY <1>4, CallHolds DEF WriteAlert, AlertInv, TypeOK, ResolvedIsStamped
  <2>3. UNCHANGED <<key, intelPc, assessed, inserted>>
    BY <1>4 DEF WriteAlert
  <2>4. OneAlertPerKey'
    BY <2>1, <2>3 DEF AlertInv, OneAlertPerKey, Exists
  <2>5. InsertsAreNew'
    BY <2>1, <2>3 DEF AlertInv, InsertsAreNew, Exists
  <2>6. QED
    BY <1>1, <2>2, <2>3, <2>4, <2>5 DEF AlertInv, ResolvedIsStamped, IdleIsClean
<1>5. CASE \E k \in Keys : ConditionChanges(k)
  BY <1>2, <1>5 DEF ConditionChanges
<1>6. CASE Assess
  BY <1>1, <1>6 DEF Assess, AlertInv, ResolvedIsStamped, InsertsAreNew, IdleIsClean, NoRows,
                    OneAlertPerKey, Exists
<1>7. ASSUME NEW k \in Keys, CreateForKey(k)
      PROVE  AlertInv'
  <2>1. InsertsAreNew'
    BY <1>7, CreateInv
  <2>2. UNCHANGED <<key, status, resolvedAt, intelPc>> /\ intelPc # "idle"
    BY <1>7 DEF CreateForKey, AlertInv, IdleIsClean
  <2>3. QED
    BY <1>1, <2>1, <2>2 DEF AlertInv, ResolvedIsStamped, IdleIsClean, OneAlertPerKey, Exists
<1>8. CASE CycleFails \/ \E k \in Keys : RefreshFails(k)
  <2>1. EndCycle /\ UNCHANGED <<key, status, resolvedAt>>
    BY <1>8 DEF CycleFails, RefreshFails
  <2>2. QED
    BY <1>1, <2>1, EndCycleInv DEF AlertInv, ResolvedIsStamped, OneAlertPerKey, Exists
<1>9. CASE CommitCycle
  <2>1. EndCycle /\ UNCHANGED <<status, resolvedAt>>
    BY <1>9 DEF CommitCycle
  <2>2. OneAlertPerKey'
    BY <1>9, CommitInv
  <2>3. QED
    BY <1>1, <2>1, <2>2, EndCycleInv DEF AlertInv, ResolvedIsStamped
<1>10. CASE UNCHANGED vars
  BY <1>2, <1>10 DEF vars, alertVars
<1>11. QED
  BY <1>3, <1>4, <1>5, <1>6, <1>7, <1>8, <1>9, <1>10 DEF Next, AlertCall, IntelCycle, Upsert

\* At most one alert of a key has never been resolved, whatever officers write
\* over each other and however often cycles fail (upsert_deduped_alert).
THEOREM OneAlert == Spec => []OneAlertPerKey
<1>1. ASSUME Init
      PROVE  AlertInv
  BY <1>1, InitType DEF Init, NoRows, AlertInv, ResolvedIsStamped, InsertsAreNew, IdleIsClean,
                        OneAlertPerKey, Exists
<1>2. AlertInv /\ [Next]_vars => AlertInv'
  BY AlertStep
<1>3. AlertInv => OneAlertPerKey
  BY DEF AlertInv
<1>4. QED
  BY <1>1, <1>2, <1>3, PTL DEF Spec
===============================================================================
