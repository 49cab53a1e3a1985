---------------------------- MODULE ShipmentsProofs ----------------------------
(***************************************************************************)
(* Proofs about Shipments and Approvals, for any number of shipments,      *)
(* officers, approval requests and calls in progress.                      *)
(***************************************************************************)
EXTENDS Shipments, TLAPS

\* What a step of each half leaves to the other.
LEMMA NextCases ==
  ASSUME [Next]_vars
  PROVE  \/ ShipmentStep /\ UNCHANGED approvalVars
         \/ ApprovalNext /\ UNCHANGED shipmentVars
         \/ UNCHANGED vars
BY DEF Next

-------------------------------------------------------------------------------
LEMMA ApprovalTypeStep ==
  ASSUME ApprovalTypeOK, ApprovalNext
  PROVE  ApprovalTypeOK'
<1>1. ASSUME NEW a \in Approvals, NEW u \in Users, NEW s \in Shipments, RequestApproval(a, u, s)
      PROVE  ApprovalTypeOK'
  BY <1>1 DEF RequestApproval, ApprovalTypeOK, ApprovalRow
<1>2. ASSUME NEW d \in Deciders, NEW a \in Approvals, NEW u \in Users,
             NEW decision \in {"APPROVED", "REJECTED"}, CheckDecision(d, a, u, decision)
      PROVE  ApprovalTypeOK'
  BY <1>2 DEF CheckDecision, ApprovalTypeOK, Decision
<1>3. ASSUME NEW d \in Deciders, ApplyDecision(d) PROVE ApprovalTypeOK'
  <2> DEFINE x == deciding[d]
  <2>1. x \in Decision
    BY <1>3 DEF ApplyDecision, ApprovalTypeOK
  <2>2. /\ x.approval \in Approvals /\ x.by \in Users /\ x.decision \in {"APPROVED", "REJECTED"}
    BY <2>1 DEF Decision
  <2> DEFINE row == approval[x.approval]
             new == [status |-> x.decision, ship |-> row.ship, requester |-> row.requester,
                     approver |-> x.by]
  <2>3. row \in ApprovalRow \cup {NoApproval}
    BY <2>2 DEF ApprovalTypeOK
  <2>4. row.status = "PENDING" => new \in ApprovalRow
    BY <2>2, <2>3 DEF ApprovalRow, NoApproval
  <2>5. approval' = [approval EXCEPT ![x.approval] = IF row.status = "PENDING" THEN new ELSE row]
    BY <1>3, <2>2 DEF ApplyDecision, ApprovalTypeOK
  <2>6. approval' \in [Approvals -> ApprovalRow \cup {NoApproval}]
    <3> HIDE DEF x, row, new
    <3> QED  BY <2>2, <2>3, <2>4, <2>5 DEF ApprovalTypeOK
  <2>7. deciding' \in [Deciders -> Decision \cup {NoDecision}]
    BY <1>3 DEF ApplyDecision, ApprovalTypeOK
  <2> QED  BY <2>6, <2>7 DEF ApprovalTypeOK
<1>4. ASSUME NEW d \in Deciders, DecisionDies(d) PROVE ApprovalTypeOK'
  BY <1>4 DEF DecisionDies, ApprovalTypeOK
<1> QED  BY <1>1, <1>2, <1>3, <1>4 DEF ApprovalNext

ShipmentTypeOK ==
  /\ status \in [Shipments -> Status]
  /\ vehicleOf \in [Shipments -> Vehicles \cup {NoVehicle}]
  /\ vehicleStatus \in [Vehicles -> {"AVAILABLE", "ASSIGNED"}]
  /\ req \in [Requests -> Req \cup {Idle}]

LEMMA CheckedType ==
  ASSUME ShipmentTypeOK, NEW r \in Requests, req[r] # Idle
  PROVE  /\ req[r] \in Req
         /\ req[r].call \in Call
         /\ req[r].ship \in Shipments
         /\ req[r].vehicle \in Vehicles
         /\ req[r].hadVehicle \in BOOLEAN
BY DEF ShipmentTypeOK, Req

LEMMA ShipmentTypeStep ==
  ASSUME ShipmentTypeOK, ShipmentStep
  PROVE  ShipmentTypeOK'
<1>1. ASSUME NEW s \in Shipments, CreateShipment(s) PROVE ShipmentTypeOK'
  BY <1>1 DEF CreateShipment, ShipmentTypeOK, Status
<1>2. ASSUME NEW r \in Requests, NEW call \in Call, NEW s \in Shipments, NEW v \in Vehicles,
             Load(r, call, s, v)
      PROVE  ShipmentTypeOK'
  BY <1>2 DEF Load, ShipmentTypeOK, Req
<1>3. ASSUME NEW r \in Requests, Check(r) PROVE ShipmentTypeOK'
  <2>1. [req[r] EXCEPT !.phase = "checked"] \in Req
    BY <1>3, CheckedType DEF Check, Req
  <2> QED  BY <1>3, <2>1 DEF Check, ShipmentTypeOK
<1>4. ASSUME NEW r \in Requests, AssignVehicle(r) PROVE ShipmentTypeOK'
  BY <1>4, CheckedType DEF AssignVehicle, Checked, Finish, ShipmentTypeOK, Status
<1>5. ASSUME NEW r \in Requests, AssignRoute(r) PROVE ShipmentTypeOK'
  BY <1>5, CheckedType DEF AssignRoute, Checked, Finish, ShipmentTypeOK, Status
<1>6. ASSUME NEW r \in Requests, ConfirmDelivery(r) PROVE ShipmentTypeOK'
  BY <1>6, CheckedType DEF ConfirmDelivery, FreeVehicle, Checked, Finish, ShipmentTypeOK, Status
<1>7. ASSUME NEW r \in Requests, UpdateStatus(r) PROVE ShipmentTypeOK'
  BY <1>7, CheckedType
     DEF UpdateStatus, FreeVehicle, Checked, Finish, ShipmentTypeOK, Status, NewStatus
<1>8. ASSUME NEW r \in Requests, Abandon(r) PROVE ShipmentTypeOK'
  BY <1>8 DEF Abandon, Finish, ShipmentTypeOK
<1> QED  BY <1>1, <1>2, <1>3, <1>4, <1>5, <1>6, <1>7, <1>8 DEF ShipmentStep

LEMMA TypeStep == TypeOK /\ [Next]_vars => TypeOK'
<1> SUFFICES ASSUME TypeOK, [Next]_vars PROVE TypeOK'
  OBVIOUS
<1>1. CASE ShipmentStep /\ UNCHANGED approvalVars
  BY <1>1, ShipmentTypeStep DEF TypeOK, ShipmentTypeOK, ApprovalTypeOK, approvalVars
<1>2. CASE ApprovalNext /\ UNCHANGED shipmentVars
  BY <1>2, ApprovalTypeStep DEF TypeOK, shipmentVars
<1>3. CASE UNCHANGED vars
  BY <1>3 DEF vars, TypeOK, ApprovalTypeOK
<1> QED  BY <1>1, <1>2, <1>3, NextCases

LEMMA TypeInit == Init => TypeOK
BY DEF Init, ApprovalInit, TypeOK, ApprovalTypeOK, Status

\* Every variable of shipments, vehicles, approvals and the calls in progress
\* keeps its type.
THEOREM TypeCorrect == Spec => []TypeOK
BY TypeInit, TypeStep, PTL DEF Spec
-------------------------------------------------------------------------------
\* A decided request is never changed again, whoever decides it a second time.
LEMMA DecidedStays ==
  ASSUME TypeOK, [Next]_vars, NEW a \in Approvals, Decided(a)
  PROVE  approval'[a] = approval[a]
<1>1. CASE UNCHANGED approval
  BY <1>1
<1>2. CASE ApprovalNext
  <2>1. ASSUME NEW b \in Approvals, NEW u \in Users, NEW s \in Shipments, RequestApproval(b, u, s)
        PROVE  approval'[a] = approval[a]
    BY <2>1 DEF RequestApproval, Decided, TypeOK, ApprovalTypeOK
  <2>2. ASSUME NEW d \in Deciders, ApplyDecision(d) PROVE approval'[a] = approval[a]
    BY <2>2 DEF ApplyDecision, Decided, TypeOK, ApprovalTypeOK, Decision
  <2> QED  BY <1>1, <1>2, <2>1, <2>2 DEF ApprovalNext, CheckDecision, DecisionDies
<1> QED  BY <1>1, <1>2, NextCases DEF approvalVars, vars

\* The first decision on an approval request is final: decide_approval reads the
\* request and updates it in two statements, and only the condition of the
\* update keeps a second officer from overruling the first.
THEOREM DecisionsAreFinal == Spec => DecisionIsFinal
<1>1. TypeOK /\ [Next]_vars => [\A a \in Approvals : Decided(a) => approval'[a] = approval[a]]_approvalVars
  BY DecidedStays
<1> QED  BY <1>1, TypeCorrect, PTL DEF Spec, DecisionIsFinal
-------------------------------------------------------------------------------
\* A shipment becomes DELIVERED only from IN_TRANSIT or ROUTE_ASSIGNED: the one
\* update that writes DELIVERED repeats the condition that its call has checked
\* too early.
THEOREM DeliveriesStartOnTheRoad == Spec => DeliveredFromTheRoad
<1> DEFINE A == \A s \in Shipments : status'[s] = "DELIVERED" /\ status[s] # "DELIVERED"
                   => status[s] \in {"IN_TRANSIT", "ROUTE_ASSIGNED"}
<1>1. TypeOK /\ [Next]_vars => [A]_vars
  <2> SUFFICES ASSUME TypeOK, ShipmentStep PROVE A
    BY NextCases DEF shipmentVars, vars
  <2>1. ShipmentTypeOK
    BY DEF TypeOK, ShipmentTypeOK
  <2>2. ASSUME NEW s \in Shipments, CreateShipment(s) PROVE A
    BY <2>2 DEF CreateShipment, TypeOK
  <2>3. ASSUME NEW r \in Requests,
               AssignVehicle(r) \/ AssignRoute(r) \/ ConfirmDelivery(r) \/ UpdateStatus(r)
        PROVE  A
    BY <2>1, <2>3, CheckedType
       DEF AssignVehicle, AssignRoute, ConfirmDelivery, UpdateStatus, Checked, TypeOK
  <2> QED  BY <2>2, <2>3 DEF ShipmentStep, Load, Check, Abandon
<1> QED  BY <1>1, TypeCorrect, PTL DEF Spec, DeliveredFromTheRoad
-------------------------------------------------------------------------------
\* The inductive invariant behind TwoPersonRule: what every party has checked
\* stays true until it acts on it, because an approved request stays approved.
DecidedByAnother ==
  \A d \in Deciders : deciding[d] # NoDecision =>
    /\ approval[deciding[d].approval].status # "none"
    /\ approval[deciding[d].approval].requester # deciding[d].by

ApprovedByTwo ==
  \A a \in Approvals : approval[a].status = "APPROVED" => approval[a].approver # approval[a].requester

CheckedIsApproved ==
  \A r \in Requests :
    Checked(r) /\ IsTerminal(req[r].call) /\ req[r].ship \in Critical => IsApproved(req[r].ship)

TerminalIsApproved == \A s \in Critical : status[s] \in Terminal => IsApproved(s)

TwoPersonInv ==
  /\ TypeOK
  /\ DecidedByAnother
  /\ ApprovedByTwo
  /\ CheckedIsApproved
  /\ TerminalIsApproved

LEMMA ApprovedStays ==
  ASSUME TypeOK, [Next]_vars, NEW s, IsApproved(s)
  PROVE  IsApproved(s)'
<1>1. PICK a \in Approvals : approval[a].status = "APPROVED" /\ approval[a].ship = s
  BY DEF IsApproved
<1>2. approval'[a] = approval[a]
  BY <1>1, DecidedStays DEF Decided
<1> QED  BY <1>1, <1>2 DEF IsApproved

\* The requester of a request does not change, and no request disappears.
LEMMA RequesterStays ==
  ASSUME TypeOK, [Next]_vars, NEW a \in Approvals, approval[a].status # "none"
  PROVE  approval'[a].status # "none" /\ approval'[a].requester = approval[a].requester
<1>1. CASE UNCHANGED approval
  BY <1>1
<1>2. CASE ApprovalNext
  <2>1. ASSUME NEW b \in Approvals, NEW u \in Users, NEW s \in Shipments, RequestApproval(b, u, s)
        PROVE  approval'[a] = approval[a]
    BY <2>1 DEF RequestApproval, TypeOK, ApprovalTypeOK
  <2>2. ASSUME NEW d \in Deciders, ApplyDecision(d)
        PROVE  approval'[a].status # "none" /\ approval'[a].requester = approval[a].requester
    BY <2>2 DEF ApplyDecision, TypeOK, ApprovalTypeOK, Decision
  <2> QED  BY <1>1, <1>2, <2>1, <2>2 DEF ApprovalNext, CheckDecision, DecisionDies
<1> QED  BY <1>1, <1>2, NextCases DEF approvalVars, vars

LEMMA DecidedByAnotherStep == TwoPersonInv /\ [Next]_vars => DecidedByAnother'
<1> SUFFICES ASSUME TwoPersonInv, [Next]_vars, NEW d \in Deciders, deciding'[d] # NoDecision
             PROVE  /\ approval'[deciding'[d].approval].status # "none"
                    /\ approval'[deciding'[d].approval].requester # deciding'[d].by
  BY DEF DecidedByAnother
<1> USE DEF TwoPersonInv
<1>1. CASE deciding'[d] = deciding[d]
  <2>1. deciding[d].approval \in Approvals
    BY <1>1 DEF TypeOK, ApprovalTypeOK, Decision
  <2> QED  BY <1>1, <2>1, RequesterStays DEF DecidedByAnother
<1>2. CASE deciding'[d] # deciding[d]
  <2>1. PICK a \in Approvals, u \in Users, decision \in {"APPROVED", "REJECTED"} :
          CheckDecision(d, a, u, decision)
    BY <1>2, NextCases
       DEF ApprovalNext, RequestApproval, CheckDecision, ApplyDecision, DecisionDies,
           approvalVars, vars, TypeOK, ApprovalTypeOK
  <2> QED  BY <2>1 DEF CheckDecision, TypeOK, ApprovalTypeOK
<1> QED  BY <1>1, <1>2

LEMMA ApprovedByTwoStep == TwoPersonInv /\ [Next]_vars => ApprovedByTwo'
<1> SUFFICES ASSUME TwoPersonInv, [Next]_vars, NEW a \in Approvals, approval'[a].status = "APPROVED"
             PROVE  approval'[a].approver # approval'[a].requester
  BY DEF ApprovedByTwo
<1> USE DEF TwoPersonInv
<1>1. CASE approval'[a] = approval[a]
  BY <1>1 DEF ApprovedByTwo
<1>2. CASE approval'[a] # approval[a]
  <2>1. ASSUME NEW b \in Approvals, NEW u \in Users, NEW s \in Shipments, RequestApproval(b, u, s)
        PROVE  FALSE
    BY <1>2, <2>1 DEF RequestApproval, TypeOK, ApprovalTypeOK
  <2>2. PICK d \in Deciders : ApplyDecision(d)
    BY <1>2, <2>1, NextCases
       DEF ApprovalNext, CheckDecision, DecisionDies, approvalVars, vars
  <2>3. deciding[d].approval = a /\ deciding[d] # NoDecision /\ approval[a].status = "PENDING"
    BY <1>2, <2>2 DEF ApplyDecision, TypeOK, ApprovalTypeOK, Decision
  <2>4. approval'[a].approver = deciding[d].by /\ approval'[a].requester = approval[a].requester
    BY <2>2, <2>3 DEF ApplyDecision, TypeOK, ApprovalTypeOK
  <2> QED  BY <2>3, <2>4 DEF DecidedByAnother
<1> QED  BY <1>1, <1>2

LEMMA CheckedIsApprovedStep == TwoPersonInv /\ [Next]_vars => CheckedIsApproved'
<1> SUFFICES ASSUME TwoPersonInv, [Next]_vars, NEW r \in Requests, Checked(r)',
                    IsTerminal(req[r].call)', req'[r].ship \in Critical
             PROVE  IsApproved(req[r].ship)'
  BY DEF CheckedIsApproved
<1> USE DEF TwoPersonInv
<1>1. CASE req'[r] = req[r]
  <2>1. IsApproved(req[r].ship)
    BY <1>1 DEF CheckedIsApproved, Checked, IsTerminal, IsDelivery
  <2> QED  BY <1>1, <2>1, ApprovedStays DEF IsApproved
<1>2. CASE req'[r] # req[r]
  <2>1. ShipmentTypeOK
    BY DEF TypeOK, ShipmentTypeOK
  <2>2. Check(r)
    BY <1>2, <2>1, NextCases
       DEF ShipmentStep, CreateShipment, Load, Check, AssignVehicle, AssignRoute, ConfirmDelivery,
           UpdateStatus, Abandon, Finish, Checked, Idle, shipmentVars, vars, ShipmentTypeOK
  <2>3. req[r] \in Req /\ req'[r].call = req[r].call /\ req'[r].ship = req[r].ship
    BY <2>1, <2>2, CheckedType DEF Check, ShipmentTypeOK, Req
  <2>4. IsApproved(req[r].ship)
    BY <2>2, <2>3 DEF Check, IsTerminal, IsDelivery
  <2> QED  BY <2>3, <2>4, ApprovedStays DEF IsApproved
<1> QED  BY <1>1, <1>2

LEMMA TerminalIsApprovedStep == TwoPersonInv /\ [Next]_vars => TerminalIsApproved'
<1> SUFFICES ASSUME TwoPersonInv, [Next]_vars, NEW s \in Critical, status'[s] \in Terminal
             PROVE  IsApproved(s)'
  BY DEF TerminalIsApproved, Terminal
<1> USE DEF TwoPersonInv
<1>1. s \in Shipments /\ ShipmentTypeOK
  BY ShipmentAssumption DEF TypeOK, ShipmentTypeOK
<1>2. CASE status'[s] = status[s]
  BY <1>2, ApprovedStays DEF TerminalIsApproved
<1>3. CASE status'[s] # status[s]
  <2>1. PICK r \in Requests : /\ ConfirmDelivery(r) \/ UpdateStatus(r)
                              /\ req[r].ship = s
    BY <1>1, <1>3, NextCases, CheckedType
       DEF ShipmentStep, CreateShipment, Load, Check, AssignVehicle, AssignRoute, ConfirmDelivery,
           UpdateStatus, Abandon, Checked, shipmentVars, vars, ShipmentTypeOK, Terminal
  <2>2. IsTerminal(req[r].call)
    BY <1>1, <1>3, <2>1
       DEF ConfirmDelivery, UpdateStatus, IsTerminal, IsDelivery, Terminal, ShipmentTypeOK
  <2>3. IsApproved(s)
    BY <2>1, <2>2 DEF CheckedIsApproved, ConfirmDelivery, UpdateStatus
  <2> QED  BY <2>3, ApprovedStays
<1> QED  BY <1>2, <1>3

\* No critical shipment reaches DELIVERED or CANCELLED without an approval given
\* by an officer other than the one who asked for it, for any number of
\* officers, requests and concurrent calls.
THEOREM TwoPersons == Spec => []TwoPersonRule
<1>1. Init => TwoPersonInv
  <2> SUFFICES ASSUME Init PROVE TwoPersonInv
    OBVIOUS
  <2>1. TypeOK
    BY TypeInit
  <2>2. DecidedByAnother
    BY DEF Init, ApprovalInit, DecidedByAnother
  <2>3. ApprovedByTwo
    BY DEF Init, ApprovalInit, ApprovedByTwo, NoApproval
  <2>4. CheckedIsApproved
    BY DEF Init, CheckedIsApproved, Checked
  <2>5. TerminalIsApproved
    BY ShipmentAssumption DEF Init, TerminalIsApproved, Terminal
  <2> QED  BY <2>1, <2>2, <2>3, <2>4, <2>5 DEF TwoPersonInv
<1>2. TwoPersonInv /\ [Next]_vars => TwoPersonInv'
  BY TypeStep, DecidedByAnotherStep, ApprovedByTwoStep, CheckedIsApprovedStep,
     TerminalIsApprovedStep DEF TwoPersonInv
<1>3. TwoPersonInv => TwoPersonRule
  BY DEF TwoPersonInv, ApprovedByTwo, TerminalIsApproved, IsApproved, TwoPersonRule
<1> QED  BY <1>1, <1>2, <1>3, PTL DEF Spec
===============================================================================
