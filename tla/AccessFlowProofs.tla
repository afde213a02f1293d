--------------------------- MODULE AccessFlowProofs ---------------------------
(***************************************************************************)
(* From submission to grant, for any directories, requests and workers:    *)
(* the flow implements Provisioning (its environment action is the last    *)
(* decision of a case), so what is proved of Provisioning holds of the     *)
(* flow, and what is proved of Approvals tells who stands behind a grant.  *)
(***************************************************************************)
EXTENDS AccessFlow, ApprovalsProofs

(* Provisioning's theorems, read for the flow's variables.                 *)
PP == INSTANCE ProvisioningProofs WITH approved <- Approved

(* P and PP are two instances of one module: what they define is the same. *)
LEMMA SameCalls ==
    /\ P!Idle = PP!Idle
    /\ P!Restart <=> PP!Restart
    /\ \A p, r : P!ProvisionLock(p, r) <=> PP!ProvisionLock(p, r)
    /\ \A p, r : P!RecoverLock(p, r) <=> PP!RecoverLock(p, r)
    /\ \A p : P!Abort(p) <=> PP!Abort(p)
    /\ \A p, q, r : P!BreakDeadlock(p, q, r) <=> PP!BreakDeadlock(p, q, r)
BY DEF P!Idle, PP!Idle, P!Restart, PP!Restart, P!ProvisionLock, PP!ProvisionLock,
       P!RecoverLock, PP!RecoverLock, P!Abort, PP!Abort, P!BreakDeadlock,
       PP!BreakDeadlock, P!Deadlocked, PP!Deadlocked, P!WaitsForAttempt,
       PP!WaitsForAttempt, P!LocksAttempt, PP!LocksAttempt, P!At, PP!At,
       P!RequestFree, PP!RequestFree, P!LocksRequest, PP!LocksRequest,
       P!Busy, PP!Busy, P!MustWrite, PP!MustWrite

(* A worker's steps are the same in both instances.                        *)
LEMMA SameSteps == \A p : P!WorkerStep(p) <=> PP!WorkerStep(p)
<1> TAKE p
<1> USE DEF P!At, PP!At, P!Idle, PP!Idle, P!Busy, PP!Busy, P!RequestFree, PP!RequestFree,
            P!LocksRequest, PP!LocksRequest, P!AttemptFree, PP!AttemptFree,
            P!LocksAttempt, PP!LocksAttempt
<1>1. P!ProvisionAdopt(p) <=> PP!ProvisionAdopt(p)
    BY DEF P!ProvisionAdopt, PP!ProvisionAdopt
<1>2. P!ProvisionReconcile(p) <=> PP!ProvisionReconcile(p)
    BY DEF P!ProvisionReconcile, PP!ProvisionReconcile
<1>3. P!ProvisionStart(p) <=> PP!ProvisionStart(p)
    BY DEF P!ProvisionStart, PP!ProvisionStart
<1>4. \A result : P!IamCall(p, result) <=> PP!IamCall(p, result)
    BY DEF P!IamCall, PP!IamCall
<1>5. P!LockAttempt(p) <=> PP!LockAttempt(p)
    BY DEF P!LockAttempt, PP!LockAttempt
<1>6. \A answered : P!RecoverQuery(p, answered) <=> PP!RecoverQuery(p, answered)
    BY DEF P!RecoverQuery, PP!RecoverQuery
<1>7. P!ApplyOutcome(p) <=> PP!ApplyOutcome(p)
    BY DEF P!ApplyOutcome, PP!ApplyOutcome
<1> USE <1>1, <1>2, <1>3, <1>4, <1>5, <1>6, <1>7
<1> QED
    BY Zenon DEF P!WorkerStep, PP!WorkerStep

(* The specification is the same in both instances.                        *)
LEMMA SameSpec == P!Spec <=> PP!Spec
<1>1. P!Init <=> PP!Init
    BY SameCalls DEF P!Init, PP!Init
<1>2. [P!Next]_(P!vars) <=> [PP!Next]_(PP!vars)
    <2>1. P!vars = PP!vars
        BY DEF P!vars, PP!vars
    <2>2. UNCHANGED P!vars <=> UNCHANGED PP!vars
        BY DEF P!vars, PP!vars
    <2>3. \A r : P!Approve(r) <=> PP!Approve(r)
        BY DEF P!Approve, PP!Approve
    <2>4. P!Next <=> PP!Next
        BY <2>3, SameCalls, SameSteps, Zenon DEF P!Next, PP!Next
    <2> QED
        BY <2>2, <2>4
<1> QED
    BY <1>1, <1>2, PTL DEF P!Spec, PP!Spec

-----------------------------------------------------------------------------
(* A step of the approvals approves one more request, or none.             *)
LEMMA ApprovalsStep ==
    ASSUME TypeOK, Next
    PROVE  \/ Approved' = Approved
           \/ \E r \in Requests : r \notin Approved /\ Approved' = Approved \cup {r}
<1> USE DEF TypeOK
<1>1. CASE case' = case
    BY <1>1 DEF Approved
<1>2. ASSUME NEW r \in Requests, StartApprovalCase(r)
      PROVE  Approved' = Approved
    BY <1>2 DEF StartApprovalCase, Approved
<1>3. ASSUME NEW r \in Requests, NEW k \in 1..2, NEW actor \in Employees,
             NEW decision \in {"approve", "reject"}, NEW commented \in BOOLEAN,
             DecideApproval(r, k, actor, decision, commented)
      PROVE  \/ Approved' = Approved
             \/ r \notin Approved /\ Approved' = Approved \cup {r}
    <2>1. case[r] # "approved" /\ case' = [case EXCEPT ![r] = CaseAfter(r, k, decision)]
        BY <1>3 DEF DecideApproval, DecisionReply
    <2>2. CASE CaseAfter(r, k, decision) = "approved"
        BY <2>1, <2>2 DEF Approved
    <2>3. CASE CaseAfter(r, k, decision) # "approved"
        BY <2>1, <2>3 DEF Approved
    <2> QED
        BY <2>2, <2>3
<1> QED
    BY <1>1, <1>2, <1>3 
       DEF Next, SeedCatalog, SubmitAccessRequest, BeginDecisionPacket,
           CommitDecisionPacket, AbandonDecisionPacket

(* Every step of the flow is one of Provisioning, or changes nothing of    *)
(* it.                                                                     *)
LEMMA FlowStep == TypeOK /\ [FlowNext]_flowVars => [P!Next]_(P!vars)
<1> SUFFICES ASSUME TypeOK, [FlowNext]_flowVars PROVE [P!Next]_(P!vars)
    OBVIOUS
<1>1. CASE Next /\ UNCHANGED provisioningVars
    <2>1. CASE Approved' = Approved
        BY <1>1, <2>1 DEF provisioningVars, P!vars
    <2>2. ASSUME NEW r \in Requests, r \notin Approved, Approved' = Approved \cup {r}
          PROVE  P!Next
        <3>1. P!Approve(r)
            BY <1>1, <2>2 DEF P!Approve, provisioningVars
        <3> QED
            BY <3>1 DEF P!Next
    <2> QED
        BY <1>1, <2>1, <2>2, ApprovalsStep
<1>2. ASSUME NEW p \in Workers, NEW r \in Requests, AdminCalls(p, r) PROVE P!Next
    BY <1>2, Zenon DEF AdminCalls, P!Next
<1>3. ASSUME NEW p \in Workers, P!WorkerStep(p) \/ P!Abort(p) PROVE P!Next
    BY <1>3, Zenon DEF P!Next
<1>4. ASSUME NEW p \in Workers, NEW q \in Workers, NEW r \in Requests,
             P!BreakDeadlock(p, q, r)
      PROVE  P!Next
    BY <1>4, Zenon DEF P!Next
<1>5. CASE P!Restart
    BY <1>5 DEF P!Next
<1>6. CASE UNCHANGED flowVars
    BY <1>6 DEF flowVars, provisioningVars, vars, P!vars, Approved
<1> QED
    BY <1>1, <1>2, <1>3, <1>4, <1>5, <1>6 DEF FlowNext

(* The flow's approvals are those of Approvals, whatever the calls to      *)
(* provision and recover do meanwhile.                                     *)
LEMMA FlowApproves == FlowSpec => Spec
<1>1. FlowInit => Init
    BY DEF FlowInit
<1>2. [FlowNext]_flowVars => [Next]_vars
    BY DEF FlowNext, flowVars
<1> QED
    BY <1>1, <1>2, PTL DEF FlowSpec, Spec

(* The whole flow, from the submission of a request to its grant,          *)
(* provisions as Provisioning alone says (approvals.py decide_approval,    *)
(* provisioning.py provision_access and recover_provisioning).             *)
THEOREM FlowImplementsProvisioning == FlowSpec => FlowProvisions
<1>1. FlowInit => P!Init
    <2>1. FlowInit => Approved \subseteq Requests
        BY DEF Approved
    <2> QED
        BY <2>1 DEF FlowInit, P!Init
<1>2. FlowSpec => []TypeOK
    BY FlowApproves, TypeCorrect, PTL
<1> QED
    BY <1>1, <1>2, FlowStep, PTL DEF FlowSpec, FlowProvisions, P!Spec

-----------------------------------------------------------------------------
(* An approved case was approved step by step, by people other than the    *)
(* requester, and the audit trail has each of them.                        *)
ApprovalsStand(r) ==
    /\ packet[r] # NoRoute
    /\ \A k \in DOMAIN packet[r] :
          /\ packet[r][k].approver # RequesterOf[r]
          /\ \E i \in DOMAIN audit[r] :
                audit[r][i] = Event("approval.step.approved", packet[r][k].approver, k)

(* An approved case has all its approvals.                                 *)
LEMMA ApprovedStands ==
    ASSUME CasesInv, Accounted, ByOthers, NEW r \in Approved
    PROVE  ApprovalsStand(r)
<1>1. r \in Requests /\ case[r] = "approved"
    BY DEF Approved
<1>2. /\ packet[r] # NoRoute
      /\ DOMAIN steps[r] = DOMAIN packet[r]
      /\ \A k \in DOMAIN steps[r] :
            steps[r][k].approver = packet[r][k].approver /\ steps[r][k].status = "approved"
    BY <1>1 DEF CasesInv, OnceEach, CaseMatchesSteps
<1>3. \A k \in DOMAIN packet[r] : packet[r][k].approver # RequesterOf[r]
    BY <1>1 DEF ByOthers, Foreign
<1>4. ASSUME NEW k \in DOMAIN packet[r]
      PROVE  \E i \in DOMAIN audit[r] :
                audit[r][i] = Event("approval.step.approved", packet[r][k].approver, k)
    BY <1>1, <1>2 DEF Accounted
<1> QED
    BY <1>2, <1>3, <1>4 DEF ApprovalsStand

(* Behind every call to IAM and every grant stand the decisions of all     *)
(* approvers of the frozen route, none of them the requester, whatever     *)
(* the directory says by now (decide_approval and provision_access).       *)
THEOREM NobodyGetsAccessUnapproved == FlowSpec => []NoAccessWithoutApprovers
<1>1. FlowSpec => [](CasesInv /\ Accounted /\ ByOthers)
    BY FlowApproves, AccountHolds, PTL
<1>2. PP!ConstantsOK
    BY WorkersAssumption DEF P!ConstantsOK, PP!ConstantsOK, P!IamResult, PP!IamResult,
                                 P!IsFiniteSet, PP!IsFiniteSet
<1>3. FlowSpec => []PP!LocksHold
    BY <1>2, FlowImplementsProvisioning, SameSpec, PP!LocksHoldAlways, PTL DEF FlowProvisions
<1>4. ASSUME PP!LocksHold, NEW r \in Requests,
             r \in granted \/ effects[r] > 0 \/ attempt[r].status # "none"
      PROVE  r \in Approved
    BY <1>4 DEF PP!LocksHold, PP!RequestOK, PP!TypeOK
<1>5. CasesInv /\ Accounted /\ ByOthers /\ PP!LocksHold => NoAccessWithoutApprovers
    BY <1>4, ApprovedStands DEF NoAccessWithoutApprovers, ApprovalsStand
<1> QED
    BY <1>1, <1>3, <1>5, PTL
===============================================================================
