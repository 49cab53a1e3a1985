------------------------------- MODULE Approvals -------------------------------
(***************************************************************************)
(* The two-person approval workflow (backend/app/approvals/router.py), for *)
(* its CRITICAL_LOGISTICS_STATUS requests: the ones shipments wait for.    *)
(*                                                                         *)
(* A decision reads the request in one statement and updates it in another *)
(* one, so two decisions may both have found the request PENDING.          *)
(***************************************************************************)
CONSTANTS
  Users,
  Modifiers,   \* users with MODIFY_SHIPMENT
  Rerouters,   \* users with APPROVE_REROUTE
  Shipments,   \* what payload ->> 'shipment_id' may name
  Approvals,   \* ids of approval_requests rows
  Deciders     \* slots for decide_approval calls in progress

ASSUME ApprovalAssumption == Modifiers \subseteq Users /\ Rerouters \subseteq Users

NoApproval == [status |-> "none"]
NoDecision == [phase |-> "idle"]

ApprovalRow ==
  [status : {"PENDING"}, ship : Shipments, requester : Users]
    \cup [status : {"APPROVED", "REJECTED"}, ship : Shipments, requester : Users, approver : Users]

Decision == [phase : {"checked"}, approval : Approvals, by : Users, decision : {"APPROVED", "REJECTED"}]

VARIABLES
  approval,  \* approval_requests
  deciding   \* decide_approval calls between their read and their update

approvalVars == <<approval, deciding>>

ApprovalTypeOK ==
  /\ approval \in [Approvals -> ApprovalRow \cup {NoApproval}]
  /\ deciding \in [Deciders -> Decision \cup {NoDecision}]

ApprovalInit ==
  /\ approval = [a \in Approvals |-> NoApproval]
  /\ deciding = [d \in Deciders |-> NoDecision]

\* APPROVAL_WORKFLOW_PERMISSIONS holds the two permissions of an action in a
\* set: which of them unpacks as the requester's and which as the approver's
\* is up to the iteration order of the process that serves the call.
MayRequest(u) == u \in Modifiers \cup Rerouters
MayDecide(u)  == u \in Modifiers \cup Rerouters
-------------------------------------------------------------------------------
RequestApproval(a, u, s) ==
  /\ approval[a].status = "none"
  /\ MayRequest(u)
  /\ approval' = [approval EXCEPT ![a] = [status |-> "PENDING", ship |-> s, requester |-> u]]
  /\ UNCHANGED deciding

\* decide_approval up to its update.  The requester is refused before the
\* CANCELLED branch, which is for the requester only: nothing can be cancelled.
CheckDecision(d, a, u, decision) ==
  /\ deciding[d] = NoDecision
  /\ approval[a].status = "PENDING"
  /\ MayDecide(u)
  /\ u # approval[a].requester
  /\ deciding' = [deciding EXCEPT ![d] =
                    [phase |-> "checked", approval |-> a, by |-> u, decision |-> decision]]
  /\ UNCHANGED approval

\* Mutant: the update trusts the status that was read.
ApplyDecisionUnguarded(d) ==
  /\ deciding[d] # NoDecision
  /\ LET x == deciding[d]
     IN  approval' = [approval EXCEPT ![x.approval] =
           [status |-> x.decision, ship |-> @.ship, requester |-> @.requester, approver |-> x.by]]
  /\ deciding' = [deciding EXCEPT ![d] = NoDecision]

\* The update applies to a PENDING row only; the caller is told its decision
\* stands either way.
ApplyDecision(d) ==
  /\ deciding[d] # NoDecision
  /\ LET x == deciding[d]
     IN  approval' = [approval EXCEPT ![x.approval] =
           IF @.status = "PENDING"
             THEN [status |-> x.decision, ship |-> @.ship, requester |-> @.requester,
                   approver |-> x.by]
             ELSE @]
  /\ deciding' = [deciding EXCEPT ![d] = NoDecision]

\* The call dies before its transaction commits.
DecisionDies(d) ==
  /\ deciding[d] # NoDecision
  /\ deciding' = [deciding EXCEPT ![d] = NoDecision]
  /\ UNCHANGED approval

ApprovalNext ==
  \/ \E a \in Approvals, u \in Users, s \in Shipments : RequestApproval(a, u, s)
  \/ \E d \in Deciders :
       \/ \E a \in Approvals, u \in Users, decision \in {"APPROVED", "REJECTED"} :
            CheckDecision(d, a, u, decision)
       \/ ApplyDecision(d)
       \/ DecisionDies(d)

\* require_terminal_approval: an approved request names the shipment.
IsApproved(s) == \E a \in Approvals : approval[a].status = "APPROVED" /\ approval[a].ship = s
-------------------------------------------------------------------------------
Decided(a) == approval[a].status \in {"APPROVED", "REJECTED"}

\* The first decision of a request stands, although two officers may both have
\* found it PENDING (router.py 89 reads, 106-108 writes): neither the outcome
\* nor the officer on record changes.
DecisionIsFinal ==
  [][\A a \in Approvals : Decided(a) => approval'[a] = approval[a]]_approvalVars
===============================================================================
