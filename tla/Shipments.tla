------------------------------- MODULE Shipments -------------------------------
(***************************************************************************)
(* Shipments and their vehicles (backend/app/shipments/), with the         *)
(* approvals that shipments of critical goods need.                        *)
(*                                                                         *)
(* A handler loads the shipment, checks what it read, and then writes; the *)
(* statements see what is committed when each of them runs.  The writes    *)
(* take row locks until the commit, shipment before vehicle in every       *)
(* handler, so the writes of one handler are one step here.                *)
(***************************************************************************)
EXTENDS Approvals

CONSTANTS
  Vehicles,
  Critical,   \* shipments with is_critical
  Requests,   \* slots for shipment calls in progress
  NoVehicle   \* vehicle_id is null

ASSUME ShipmentAssumption == Critical \subseteq Shipments /\ NoVehicle \notin Vehicles

\* "none": not created yet.
Status   == {"none", "DRAFT", "VEHICLE_ASSIGNED", "ROUTE_ASSIGNED", "IN_TRANSIT",
             "DELIVERED", "CANCELLED"}
Terminal == {"DELIVERED", "CANCELLED"}

\* TRANSITIONS.
Transitions == [status \in Status |->
  CASE status = "DRAFT"            -> {"VEHICLE_ASSIGNED", "CANCELLED"}
    [] status = "VEHICLE_ASSIGNED" -> {"ROUTE_ASSIGNED", "IN_TRANSIT", "CANCELLED"}
    [] status = "ROUTE_ASSIGNED"   -> {"IN_TRANSIT", "CANCELLED"}
    [] status = "IN_TRANSIT"       -> {"DELIVERED", "CANCELLED"}
    [] OTHER                       -> {}]

\* The calls: three endpoints, and POST /status named by its new_status.
NewStatus == Status \ {"none", "DRAFT"}
Call      == {"assign-vehicle", "assign-route", "confirm-delivery"} \cup NewStatus

\* The statuses a call accepts when it loads the shipment.  validate_transition
\* lets the current status pass as new one, a terminal status included.
AcceptedFrom(call) ==
  CASE call = "assign-vehicle"   -> {"DRAFT", "VEHICLE_ASSIGNED"}
    [] call = "assign-route"     -> {"DRAFT", "VEHICLE_ASSIGNED", "ROUTE_ASSIGNED"}
    [] call = "confirm-delivery" -> Status \ {"none"}
    [] OTHER                     -> {status \in Status : status = call \/ call \in Transitions[status]}

Idle == [phase |-> "idle"]
Req  == [phase : {"loaded", "checked"}, call : Call, ship : Shipments, vehicle : Vehicles,
         hadVehicle : BOOLEAN]

VARIABLES
  status,         \* shipments.status
  vehicleOf,      \* shipments.vehicle_id
  vehicleStatus,  \* vehicles.status
  req             \* calls between their load and their writes

shipmentVars == <<status, vehicleOf, vehicleStatus, req>>
vars == <<approval, deciding, status, vehicleOf, vehicleStatus, req>>

TypeOK ==
  /\ ApprovalTypeOK
  /\ status \in [Shipments -> Status]
  /\ vehicleOf \in [Shipments -> Vehicles \cup {NoVehicle}]
  /\ vehicleStatus \in [Vehicles -> {"AVAILABLE", "ASSIGNED"}]
  /\ req \in [Requests -> Req \cup {Idle}]

Init ==
  /\ ApprovalInit
  /\ status = [s \in Shipments |-> "none"]
  /\ vehicleOf = [s \in Shipments |-> NoVehicle]
  /\ vehicleStatus = [v \in Vehicles |-> "AVAILABLE"]
  /\ req = [r \in Requests |-> Idle]

Active(s) == status[s] \notin Terminal \cup {"none"}
IsDelivery(call) == call \in {"confirm-delivery", "DELIVERED"}
IsTerminal(call) == IsDelivery(call) \/ call = "CANCELLED"

Checked(r) == req[r] # Idle /\ req[r].phase = "checked"
Finish(r)  == req' = [req EXCEPT ![r] = Idle]
-------------------------------------------------------------------------------
CreateShipment(s) ==
  /\ status[s] = "none"
  /\ status' = [status EXCEPT ![s] = "DRAFT"]
  /\ UNCHANGED <<vehicleOf, vehicleStatus, req>>

\* _load_or_404 and the checks on what it returned.
Load(r, call, s, v) ==
  /\ req[r] = Idle
  /\ status[s] \in AcceptedFrom(call)
  /\ req' = [req EXCEPT ![r] = [phase |-> "loaded", call |-> call, ship |-> s, vehicle |-> v,
                                hadVehicle |-> vehicleOf[s] # NoVehicle]]
  /\ UNCHANGED <<status, vehicleOf, vehicleStatus>>

\* Mutant: POST /confirm-delivery does not ask for an approval.
CheckConfirmUngated(r) ==
  /\ req[r] # Idle
  /\ req[r].phase = "loaded"
  /\ req[r].call = "assign-vehicle" => vehicleStatus[req[r].vehicle] = "AVAILABLE"
  /\ req[r].call \in Terminal /\ req[r].ship \in Critical => IsApproved(req[r].ship)
  /\ req' = [req EXCEPT ![r].phase = "checked"]
  /\ UNCHANGED <<status, vehicleOf, vehicleStatus>>

\* What a call reads after the shipment: the vehicle has to be AVAILABLE, a
\* terminal status of a critical shipment has to be approved.
Check(r) ==
  /\ req[r] # Idle
  /\ req[r].phase = "loaded"
  /\ req[r].call = "assign-vehicle" => vehicleStatus[req[r].vehicle] = "AVAILABLE"
  /\ IsTerminal(req[r].call) /\ req[r].ship \in Critical => IsApproved(req[r].ship)
  /\ req' = [req EXCEPT ![r].phase = "checked"]
  /\ UNCHANGED <<status, vehicleOf, vehicleStatus>>

AssignVehicle(r) ==
  /\ Checked(r)
  /\ req[r].call = "assign-vehicle"
  /\ status' = [status EXCEPT ![req[r].ship] = "VEHICLE_ASSIGNED"]
  /\ vehicleOf' = [vehicleOf EXCEPT ![req[r].ship] = req[r].vehicle]
  /\ vehicleStatus' = [vehicleStatus EXCEPT ![req[r].vehicle] = "ASSIGNED"]
  /\ Finish(r)

\* The update itself looks at the status again.
AssignRoute(r) ==
  /\ Checked(r)
  /\ req[r].call = "assign-route"
  /\ status' = [status EXCEPT ![req[r].ship] = IF @ = "DRAFT" THEN "ROUTE_ASSIGNED" ELSE @]
  /\ Finish(r)
  /\ UNCHANGED <<vehicleOf, vehicleStatus>>

\* Mutant: a vehicle is set to a status the rest of the code does not know.
FreeVehicleUnknown(s) ==
  vehicleStatus' = [v \in Vehicles |-> IF v = vehicleOf[s] THEN "FREE" ELSE vehicleStatus[v]]

\* update vehicles set status = 'AVAILABLE' where id = (the shipment's vehicle_id)
FreeVehicle(s) ==
  vehicleStatus' = [v \in Vehicles |-> IF v = vehicleOf[s] THEN "AVAILABLE" ELSE vehicleStatus[v]]

\* Mutant: the update of _confirm_delivery loses its condition on the status.
ConfirmDeliveryUnguarded(r) ==
  /\ Checked(r)
  /\ IsDelivery(req[r].call)
  /\ status' = [status EXCEPT ![req[r].ship] = "DELIVERED"]
  /\ FreeVehicle(req[r].ship)
  /\ Finish(r)
  /\ UNCHANGED vehicleOf

\* _confirm_delivery: the update is conditional on the status, then the vehicle
\* is freed; a shipment in another status is refused and nothing is written.
ConfirmDelivery(r) ==
  /\ Checked(r)
  /\ IsDelivery(req[r].call)
  /\ status[req[r].ship] \in {"IN_TRANSIT", "ROUTE_ASSIGNED"}
  /\ status' = [status EXCEPT ![req[r].ship] = "DELIVERED"]
  /\ FreeVehicle(req[r].ship)
  /\ Finish(r)
  /\ UNCHANGED vehicleOf

\* update_status: an unconditional update; cancelling frees the vehicle if the
\* shipment had one when it was loaded.
UpdateStatus(r) ==
  /\ Checked(r)
  /\ req[r].call \in NewStatus \ {"DELIVERED"}
  /\ status' = [status EXCEPT ![req[r].ship] = req[r].call]
  /\ IF req[r].call = "CANCELLED" /\ req[r].hadVehicle
       THEN FreeVehicle(req[r].ship) ELSE UNCHANGED vehicleStatus
  /\ Finish(r)
  /\ UNCHANGED vehicleOf

\* A check fails or the call dies: everything it did is rolled back.
Abandon(r) ==
  /\ req[r] # Idle
  /\ Finish(r)
  /\ UNCHANGED <<status, vehicleOf, vehicleStatus>>

ShipmentStep ==
  \/ \E s \in Shipments : CreateShipment(s)
  \/ \E r \in Requests :
       \/ \E call \in Call, s \in Shipments, v \in Vehicles : Load(r, call, s, v)
       \/ Check(r) \/ AssignVehicle(r) \/ AssignRoute(r)
       \/ ConfirmDelivery(r) \/ UpdateStatus(r) \/ Abandon(r)

Next ==
  \/ ShipmentStep /\ UNCHANGED approvalVars
  \/ ApprovalNext /\ UNCHANGED shipmentVars

Spec == Init /\ [][Next]_vars
-------------------------------------------------------------------------------
\* "Two-person mandate for critical logistics status changes"
\* (shipments/service.py 230): a critical shipment reaches a terminal status,
\* by whichever endpoint and interleaving, only when an officer other than the
\* requester approved it.
TwoPersonRule ==
  \A s \in Critical : status[s] \in Terminal =>
    \E a \in Approvals :
      /\ approval[a].status = "APPROVED"
      /\ approval[a].ship = s
      /\ approval[a].approver # approval[a].requester

\* A shipment is delivered only from IN_TRANSIT or ROUTE_ASSIGNED, although the
\* call read its status two steps earlier: a delivery never overtakes a
\* cancellation.
DeliveredFromTheRoad ==
  [][\A s \in Shipments : status'[s] = "DELIVERED" /\ status[s] # "DELIVERED"
       => status[s] \in {"IN_TRANSIT", "ROUTE_ASSIGNED"}]_vars

\* "ASSIGN VEHICLE - vehicle must exist and be AVAILABLE" (router.py 157): no
\* vehicle is on two shipments that are under way.
NoSharedVehicle ==
  \A s, t \in Shipments :
    s # t /\ Active(s) /\ Active(t) /\ vehicleOf[s] # NoVehicle => vehicleOf[s] # vehicleOf[t]
===============================================================================
