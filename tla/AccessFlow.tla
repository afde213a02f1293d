------------------------------ MODULE AccessFlow ------------------------------
(***************************************************************************)
(* A request from submission to its grant: Approvals and Provisioning over *)
(* the same rows.  Provisioning knows the approvals only through           *)
(* approval_status = "approved", read under the request lock, and the      *)
(* directory only through the role of the one permissions admin.           *)
(***************************************************************************)
EXTENDS Approvals

CONSTANTS Admin,  \* EMP-004
          Workers, IamResults, IamForgets, MaxAttempts

ASSUME AccessFlowAssumption == Admin \in Employees

VARIABLES attempt, granted, iam, effects, worker

provisioningVars == <<attempt, granted, iam, effects, worker>>
flowVars == <<vars, provisioningVars>>

\* Mutant: the manager's approval is enough.
ApprovedByManager == {r \in Requests : case[r] \in {"approved", "pending_data_owner"}}

Approved == {r \in Requests : case[r] = "approved"}

P == INSTANCE Provisioning WITH approved <- Approved

ASSUME WorkersAssumption == P!ConstantsOK

FlowInit ==
    /\ Init
    /\ attempt = [r \in Requests |-> [status |-> "none", count |-> 0]]
    /\ granted = {}
    /\ iam = [r \in Requests |-> "absent"]
    /\ effects = [r \in Requests |-> 0]
    /\ worker = [p \in Workers |-> P!Idle]

(* _load_context: the session's roles are read from the directory anew.    *)
AdminCalls(p, r) ==
    /\ "permissions_admin" \in directory.roles[Admin]
    /\ P!ProvisionLock(p, r) \/ P!RecoverLock(p, r)

FlowNext ==
    \/ Next /\ UNCHANGED provisioningVars
    \/ /\ UNCHANGED vars
       /\ \/ \E p \in Workers, r \in Requests : AdminCalls(p, r)
          \/ \E p \in Workers : P!WorkerStep(p) \/ P!Abort(p)
          \/ \E p, q \in Workers, r \in Requests : P!BreakDeadlock(p, q, r)
          \/ P!Restart

FlowSpec == FlowInit /\ [][FlowNext]_flowVars

(* An administrator keeps asking for recovery and is at last answered, no  *)
(* call hangs, PostgreSQL detects every deadlock, and its lock queues are  *)
(* first come first served: who waits for a row gets it before callers     *)
(* that come later (strong fairness of LockAttempt and ApplyOutcome).      *)
Step(A) == UNCHANGED vars /\ A
FlowFairness ==
    \A p \in Workers :
       /\ WF_flowVars(Step(P!WorkerStep(p)))
       /\ \A r \in Requests :
             SF_flowVars(Step(AdminCalls(p, r) /\ P!RecoverLock(p, r)))
       /\ SF_flowVars(Step(P!RecoverAnswered(p)))
       /\ SF_flowVars(Step(P!LockAttempt(p)))
       /\ SF_flowVars(Step(P!ApplyOutcome(p)))
       /\ SF_flowVars(Step(P!AnswerCommitted(p)))
       /\ \A q \in Workers, r \in Requests : WF_flowVars(Step(P!BreakDeadlock(p, q, r)))

FairFlowSpec == FlowSpec /\ FlowFairness

-----------------------------------------------------------------------------
(* The whole flow provisions as Provisioning alone says: its environment   *)
(* action Approve is the last decision of decide_approval and nothing else.*)
FlowProvisions == P!Spec

(* POL-003 and POL-006 from end to end: behind every call to IAM, and so   *)
(* behind every grant, stand the decisions of all approvers of the frozen  *)
(* route, none of them the requester, whatever the directory says by now.  *)
NoAccessWithoutApprovers ==
    \A r \in Requests :
        (r \in granted \/ effects[r] > 0 \/ attempt[r].status # "none") =>
            /\ packet[r] # NoRoute
            /\ \A k \in DOMAIN packet[r] :
                  /\ packet[r][k].approver # RequesterOf[r]
                  /\ \E i \in DOMAIN audit[r] :
                        audit[r][i] = Event("approval.step.approved",
                                            packet[r][k].approver, k)

(* An operation in doubt is settled in the end, unless IAM loses it or the *)
(* directory loses its administrator: crashes, row-lock deadlocks, lost    *)
(* answers and other calls of recover_provisioning do not prevent it.      *)
InDoubt(r) == attempt[r].status \in {"in_progress", "unknown"} /\ iam[r] # "absent"
HasAdmin == "permissions_admin" \in directory.roles[Admin]
FlowSettles == \A r \in Requests : InDoubt(r) ~> ~InDoubt(r) \/ ~HasAdmin
===============================================================================
