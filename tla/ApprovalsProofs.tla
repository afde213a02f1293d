---------------------------- MODULE ApprovalsProofs ---------------------------
(***************************************************************************)
(* Safety of Approvals for any requests, employees and directories, and    *)
(* for any order of re-seeding, packets, starts and decisions.             *)
(***************************************************************************)
EXTENDS Approvals, SequenceTheorems, TLAPS

(* The fixed route is none, or one or two steps with real approvers.       *)
LEMMA RouteOfIsRoute ==
    ASSUME NEW d \in Directory, NEW r \in Requests
    PROVE  RouteOf(d, r) \in Routes
<1> DEFINE requester == RequesterOf[r]
           manager == d.manager[requester]
           owner == d.owner[r]
<1>1. requester \in Employees /\ manager \in Employees \cup {Nobody}
      /\ owner \in Employees \cup {Nobody}
    BY ApprovalsAssumption DEF Directory
<1>2. manager # Nobody => [approver |-> manager, role |-> "manager"] \in RouteStep
    BY <1>1 DEF RouteStep, ApproverRoles
<1>3. owner # Nobody => [approver |-> owner, role |-> "data_owner"] \in RouteStep
    BY <1>1 DEF RouteStep, ApproverRoles
<1> QED
    BY <1>1, <1>2, <1>3 DEF RouteOf, Routes, NoRoute

(* A stored route is a function on the positions of its steps.             *)
LEMMA RouteShape ==
    ASSUME NEW route \in Routes
    PROVE  /\ DOMAIN route \in {{}, 1..1, 1..2}
           /\ DOMAIN route = {} <=> route = NoRoute
           /\ \A k \in DOMAIN route : route[k] \in RouteStep
BY DEF Routes, NoRoute

(* decide_approval writes only for the approver of the step whose turn it  *)
(* is, in an open case, and never for the requester.                       *)
LEMMA OnlyTheApproverDecides ==
    ASSUME NEW r, NEW k, NEW actor, NEW roles, NEW decision, NEW commented,
           DecisionReply(r, k, actor, roles, decision, commented) = "ok"
    PROVE  /\ IsCurrent(r, k)
           /\ steps[r][k].approver = actor
           /\ actor # RequesterOf[r]
           /\ case[r] \notin {"approved", "rejected"}
BY DEF DecisionReply

-----------------------------------------------------------------------------
(* Types of one step.                                                      *)
LEMMA NextTypeOK == TypeOK /\ [Next]_vars => TypeOK'
<1> SUFFICES ASSUME TypeOK, [Next]_vars PROVE TypeOK'
    OBVIOUS
<1> USE DEF TypeOK
<1>1. ASSUME NEW d \in Directories, SeedCatalog(d) PROVE TypeOK'
    BY <1>1, ApprovalsAssumption DEF SeedCatalog
<1>2. ASSUME NEW r \in Requests, NEW e \in AuditEvent
      PROVE  [audit EXCEPT ![r] = Append(@, e)] \in [Requests -> Seq(AuditEvent)]
    OBVIOUS
<1>3. \A r \in Requests : RequesterOf[r] \in Employees
    BY ApprovalsAssumption
<1>4. ASSUME NEW r \in Requests, SubmitAccessRequest(r) PROVE TypeOK'
    <2>0. Event("request.submitted", RequesterOf[r], 0) \in AuditEvent
        BY <1>3 DEF Event, AuditEvent
    <2>1. audit' \in [Requests -> Seq(AuditEvent)]
        BY <1>2, <1>4, <2>0 DEF SubmitAccessRequest
    <2> QED
        BY <1>4, <2>1 DEF SubmitAccessRequest
<1>5. ASSUME NEW r \in Requests, BeginDecisionPacket(r) PROVE TypeOK'
    BY <1>5, RouteOfIsRoute DEF BeginDecisionPacket
<1>6. ASSUME NEW r \in Requests, CommitDecisionPacket(r) PROVE TypeOK'
    <2>0. Event("decision_packet.created", RequesterOf[r], 0) \in AuditEvent
        BY <1>3 DEF Event, AuditEvent
    <2>1. audit' \in [Requests -> Seq(AuditEvent)]
        BY <1>2, <1>6, <2>0 DEF CommitDecisionPacket
    <2> QED
        BY <1>6, <2>1 DEF CommitDecisionPacket, Routes
<1>7. ASSUME NEW r \in Requests, AbandonDecisionPacket(r) PROVE TypeOK'
    BY <1>7 DEF AbandonDecisionPacket, Routes
<1>8. ASSUME NEW r \in Requests, StartApprovalCase(r) PROVE TypeOK'
    <2>0. Event("approval.started", RequesterOf[r], 0) \in AuditEvent
        BY <1>3 DEF Event, AuditEvent
    <2>1. audit' \in [Requests -> Seq(AuditEvent)]
        BY <1>2, <1>8, <2>0 DEF StartApprovalCase
    <2>2. case' \in [Requests -> CaseStatus]
        BY <1>8 DEF StartApprovalCase, CaseStatus
    <2>3. /\ DOMAIN steps'[r] \in {{}, 1..1, 1..2}
          /\ \A k \in DOMAIN steps'[r] :
                steps'[r][k] \in [approver : Employees, role : ApproverRoles,
                                  status : StepStatus]
        BY <1>8, RouteShape DEF StartApprovalCase, RouteStep, StepStatus
    <2> QED
        BY <1>8, <2>1, <2>2, <2>3 DEF StartApprovalCase
<1>9. ASSUME NEW r \in Requests, NEW k \in 1..2, NEW actor \in Employees,
             NEW decision \in {"approve", "reject"}, NEW commented \in BOOLEAN,
             DecideApproval(r, k, actor, decision, commented)
      PROVE  TypeOK'
    <2>0. \A type \in {"approval.step.approved", "approval.step.rejected"} :
             Event(type, actor, k) \in AuditEvent
        BY DEF Event, AuditEvent
    <2>1. audit' \in [Requests -> Seq(AuditEvent)]
        BY <1>2, <1>9, <2>0 DEF DecideApproval
    <2>2. case' \in [Requests -> CaseStatus]
        BY <1>9 DEF DecideApproval, CaseAfter, CaseStatus
    <2>3. k \in DOMAIN steps[r]
        BY <1>9, OnlyTheApproverDecides DEF DecideApproval, IsCurrent
    <2>4. \A j \in DOMAIN steps[r] : StatusAfter(r, k, decision, j) \in StepStatus
        BY DEF StatusAfter, StepStatus
    <2>5. /\ DOMAIN steps'[r] = DOMAIN steps[r]
          /\ \A j \in DOMAIN steps'[r] :
                steps'[r][j] \in [approver : Employees, role : ApproverRoles,
                                  status : StepStatus]
        <3>1. steps'[r] = [j \in DOMAIN steps[r] |->
                              [steps[r][j] EXCEPT !.status = StatusAfter(r, k, decision, j)]]
            BY <1>9 DEF DecideApproval
        <3> QED
            BY <2>4, <3>1
    <2> QED
        BY <1>9, <2>1, <2>2, <2>5 DEF DecideApproval
<1>10. CASE UNCHANGED vars
    BY <1>10 DEF vars
<1> QED
    BY <1>1, <1>4, <1>5, <1>6, <1>7, <1>8, <1>9, <1>10 DEF Next

(* Type correctness of the records of the approval tables.                 *)
THEOREM TypeCorrect == Spec => []TypeOK
<1>1. Init => TypeOK
    BY ApprovalsAssumption DEF Init, TypeOK, Routes, NoRoute, CaseStatus
<1> QED
    BY <1>1, NextTypeOK, PTL DEF Spec

-----------------------------------------------------------------------------
(* Packets and cases come once, in this order.                             *)
OnceEach ==
    \A r \in Requests :
        /\ drafting[r] # NoRoute => packet[r] = NoRoute
        /\ case[r] # "none" => packet[r] # NoRoute
        /\ case[r] = "none" => DOMAIN steps[r] = {}

CasesInv == TypeOK /\ OnceEach /\ CaseMatchesSteps

(* What a decision does to the steps of its case.                          *)
LEMMA DecidedSteps ==
    ASSUME TypeOK, NEW r \in Requests, NEW k \in 1..2, NEW actor \in Employees,
           NEW decision \in {"approve", "reject"}, NEW commented \in BOOLEAN,
           DecideApproval(r, k, actor, decision, commented)
    PROVE  /\ case' = [case EXCEPT ![r] = CaseAfter(r, k, decision)]
           /\ DOMAIN steps'[r] = DOMAIN steps[r]
           /\ \A j \in DOMAIN steps[r] :
                 /\ steps'[r][j].approver = steps[r][j].approver
                 /\ steps'[r][j].role = steps[r][j].role
                 /\ steps'[r][j].status = StatusAfter(r, k, decision, j)
           /\ \A s \in Requests \ {r} : case'[s] = case[s] /\ steps'[s] = steps[s]
           /\ UNCHANGED <<drafting, packet>>
<1>1. steps'[r] = [j \in DOMAIN steps[r] |->
                      [steps[r][j] EXCEPT !.status = StatusAfter(r, k, decision, j)]]
    BY DEF DecideApproval, TypeOK
<1>2. \A j \in DOMAIN steps[r] :
         steps[r][j] \in [approver : Employees, role : ApproverRoles, status : StepStatus]
    BY DEF TypeOK
<1>3. \A s \in Requests \ {r} : case'[s] = case[s] /\ steps'[s] = steps[s]
    BY DEF DecideApproval, TypeOK
<1> QED
    BY <1>1, <1>2, <1>3 DEF DecideApproval

(* Whose turn it is, in each open case.                                    *)
LEMMA CurrentStep ==
    ASSUME CasesInv, NEW r \in Requests, NEW k, IsCurrent(r, k),
           case[r] \notin {"approved", "rejected"}
    PROVE  \/ /\ case[r] = "pending_manager" /\ k = 1
              /\ LaterWaiting(r, k) = DOMAIN steps[r] \ {1}
           \/ /\ case[r] = "pending_data_owner" /\ k = 2
              /\ LaterWaiting(r, k) = {}
<1>1. k \in DOMAIN steps[r] /\ steps[r][k].status = "pending"
    BY DEF IsCurrent
<1>2. case[r] \in {"pending_manager", "pending_data_owner"}
    BY <1>1 DEF CasesInv, OnceEach, TypeOK, CaseStatus
<1>3. DOMAIN steps[r] \in {1..1, 1..2}
    BY <1>1 DEF CasesInv, TypeOK
<1>4. CASE case[r] = "pending_manager"
    <2>1. \A j \in DOMAIN steps[r] :
             steps[r][j].status = (IF j = 1 THEN "pending" ELSE "waiting")
        BY <1>4 DEF CasesInv, CaseMatchesSteps
    <2> QED
        BY <1>1, <1>3, <1>4, <2>1 DEF LaterWaiting
<1>5. CASE case[r] = "pending_data_owner"
    <2>1. DOMAIN steps[r] = 1..2 /\ steps[r][1].status = "approved"
        BY <1>5 DEF CasesInv, CaseMatchesSteps
    <2> QED
        BY <1>1, <1>5, <2>1 DEF LaterWaiting
<1> QED
    BY <1>2, <1>4, <1>5

(* Every step keeps the cases in order; only three touch them.             *)
LEMMA NextCases == CasesInv /\ [Next]_vars => CasesInv'
<1> SUFFICES ASSUME CasesInv, [Next]_vars
             PROVE  OnceEach' /\ CaseMatchesSteps'
    BY NextTypeOK DEF CasesInv
<1>1. CASE UNCHANGED <<drafting, packet, case, steps>>
    BY <1>1 DEF CasesInv, OnceEach, CaseMatchesSteps
<1>2. ASSUME NEW r \in Requests, BeginDecisionPacket(r) \/ AbandonDecisionPacket(r)
      PROVE  OnceEach' /\ CaseMatchesSteps'
    <2>1. OnceEach'
        BY <1>2
           DEF BeginDecisionPacket, AbandonDecisionPacket, CasesInv, OnceEach,
               TypeOK
    <2>2. UNCHANGED <<packet, case, steps>>
        BY <1>2 DEF BeginDecisionPacket, AbandonDecisionPacket
    <2> QED
        BY <2>1, <2>2 DEF CasesInv, CaseMatchesSteps
<1>3. ASSUME NEW r \in Requests, CommitDecisionPacket(r)
      PROVE  OnceEach' /\ CaseMatchesSteps'
    <2>1. OnceEach'
        BY <1>3 DEF CommitDecisionPacket, CasesInv, OnceEach, TypeOK
    <2>2. case[r] = "none"
        BY <1>3 DEF CommitDecisionPacket, CasesInv, OnceEach
    <2>3. /\ UNCHANGED <<case, steps>>
          /\ \A s \in Requests \ {r} : packet'[s] = packet[s]
        BY <1>3 DEF CommitDecisionPacket, CasesInv, TypeOK
    <2> QED
        BY <2>1, <2>2, <2>3 DEF CasesInv, CaseMatchesSteps
<1>4. ASSUME NEW r \in Requests, StartApprovalCase(r)
      PROVE  OnceEach' /\ CaseMatchesSteps'
    <2>1. /\ UNCHANGED <<drafting, packet>> /\ packet[r] # NoRoute
          /\ case' = [case EXCEPT ![r] = "pending_manager"]
          /\ \A s \in Requests \ {r} : case'[s] = case[s] /\ steps'[s] = steps[s]
          /\ DOMAIN steps'[r] = DOMAIN packet[r]
          /\ \A k \in DOMAIN packet[r] :
                /\ steps'[r][k].approver = packet[r][k].approver
                /\ steps'[r][k].role = packet[r][k].role
                /\ steps'[r][k].status = (IF k = 1 THEN "pending" ELSE "waiting")
        BY <1>4 DEF StartApprovalCase, CasesInv, TypeOK
    <2>2. OnceEach'
        BY <1>4, <2>1 DEF CasesInv, OnceEach, TypeOK, StartApprovalCase
    <2>3. case'[r] = "pending_manager"
        BY <2>1 DEF CasesInv, TypeOK
    <2> QED
        BY <2>1, <2>2, <2>3 DEF CasesInv, CaseMatchesSteps
<1>5. ASSUME NEW r \in Requests, NEW k \in 1..2, NEW actor \in Employees,
             NEW decision \in {"approve", "reject"}, NEW commented \in BOOLEAN,
             DecideApproval(r, k, actor, decision, commented)
      PROVE  OnceEach' /\ CaseMatchesSteps'
    <2>1. /\ case' = [case EXCEPT ![r] = CaseAfter(r, k, decision)]
          /\ DOMAIN steps'[r] = DOMAIN steps[r]
          /\ \A j \in DOMAIN steps[r] :
                /\ steps'[r][j].approver = steps[r][j].approver
                /\ steps'[r][j].role = steps[r][j].role
                /\ steps'[r][j].status = StatusAfter(r, k, decision, j)
          /\ \A s \in Requests \ {r} : case'[s] = case[s] /\ steps'[s] = steps[s]
          /\ UNCHANGED <<drafting, packet>>
        BY <1>5, DecidedSteps DEF CasesInv
    <2>2. IsCurrent(r, k) /\ case[r] \notin {"approved", "rejected"}
        BY <1>5, OnlyTheApproverDecides DEF DecideApproval
    <2>3. k \in DOMAIN steps[r] /\ case[r] # "none"
        BY <2>2 DEF IsCurrent, CasesInv, OnceEach
    <2>4. case'[r] = CaseAfter(r, k, decision) /\ case'[r] # "none"
        BY <2>1 DEF CasesInv, TypeOK, CaseAfter
    <2>5. OnceEach'
        BY <2>1, <2>3, <2>4 DEF CasesInv, OnceEach
    <2>6. /\ DOMAIN steps[r] = DOMAIN packet[r]
          /\ \A j \in DOMAIN steps[r] :
                /\ steps[r][j].approver = packet[r][j].approver
                /\ steps[r][j].role = packet[r][j].role
        BY <2>3 DEF CasesInv, CaseMatchesSteps
    <2>7. DOMAIN steps[r] \in {1..1, 1..2}
        BY <2>3 DEF CasesInv, TypeOK
    <2> DEFINE Matches(t) ==
            /\ case'[t] = "pending_manager" =>
                  \A j \in DOMAIN steps'[t] :
                     steps'[t][j].status = (IF j = 1 THEN "pending" ELSE "waiting")
            /\ case'[t] = "pending_data_owner" =>
                  /\ DOMAIN steps'[t] = 1..2
                  /\ steps'[t][1].status = "approved"
                  /\ steps'[t][2].status = "pending"
            /\ case'[t] = "approved" =>
                  \A j \in DOMAIN steps'[t] : steps'[t][j].status = "approved"
            /\ case'[t] = "rejected" =>
                  \E i \in DOMAIN steps'[t] :
                     /\ steps'[t][i].status = "rejected"
                     /\ \A j \in DOMAIN steps'[t] :
                           /\ j < i => steps'[t][j].status = "approved"
                           /\ j > i => steps'[t][j].status = "cancelled"
    <2>8. ASSUME case[r] = "pending_manager" PROVE Matches(r)
        <3>1. k = 1 /\ LaterWaiting(r, k) = DOMAIN steps[r] \ {1}
            BY <2>2, <2>8, CurrentStep
        <3>2. ASSUME decision = "approve" PROVE Matches(r)
            BY <2>1, <2>4, <2>7, <3>1, <3>2 DEF CaseAfter, StatusAfter, IsNext
        <3>3. ASSUME decision = "reject" PROVE Matches(r)
            BY <2>1, <2>4, <2>7, <3>1, <3>3 DEF CaseAfter, StatusAfter
        <3> QED
            BY <3>2, <3>3
    <2>9. ASSUME case[r] = "pending_data_owner" PROVE Matches(r)
        <3>1. k = 2 /\ LaterWaiting(r, k) = {}
            BY <2>2, <2>9, CurrentStep
        <3>2. DOMAIN steps[r] = 1..2 /\ steps[r][1].status = "approved"
            BY <2>9 DEF CasesInv, CaseMatchesSteps
        <3> QED
            BY <2>1, <2>4, <3>1, <3>2 DEF CaseAfter, StatusAfter, IsNext
    <2>10. Matches(r)
        BY <2>2, <2>3, <2>8, <2>9 DEF CasesInv, TypeOK, CaseStatus
    <2> QED
        BY <2>1, <2>5, <2>6, <2>10 DEF CasesInv, CaseMatchesSteps
<1> QED
    BY <1>1, <1>2, <1>3, <1>4, <1>5 DEF Next, SeedCatalog, SubmitAccessRequest, vars

(* The inductive invariant: well-typed records, packets and cases in their *)
(* order, and a case status that agrees with its steps.                    *)
THEOREM CasesInvAlways == Spec => []CasesInv
<1>1. Init => CasesInv
    <2>1. Init => TypeOK
        BY ApprovalsAssumption DEF Init, TypeOK, Routes, NoRoute, CaseStatus
    <2>2. Init => OnceEach /\ CaseMatchesSteps
        BY DEF Init, OnceEach, CaseMatchesSteps
    <2> QED
        BY <2>1, <2>2 DEF CasesInv
<1> QED
    BY <1>1, NextCases, PTL DEF Spec

(* A case always has the steps of its frozen packet, and its status is the *)
(* true account of which of them are decided.                              *)
THEOREM CasesMatch == Spec => []CaseMatchesSteps
<1>1. CasesInv => CaseMatchesSteps
    BY DEF CasesInv
<1> QED
    BY <1>1, CasesInvAlways, PTL

-----------------------------------------------------------------------------
(* A step adds at most one event to an audit trail, and a decision event   *)
(* carries an actor who is not the requester.                              *)
LEMMA AuditStep ==
    ASSUME TypeOK, [Next]_vars, NEW r \in Requests
    PROVE  \/ audit'[r] = audit[r]
           \/ \E e \in AuditEvent :
                 /\ audit'[r] = Append(audit[r], e)
                 /\ e.type \in {"approval.step.approved", "approval.step.rejected"}
                       => e.actor # RequesterOf[r]
<1> USE DEF TypeOK
<1> DEFINE Grows(t) ==
        \/ audit'[t] = audit[t]
        \/ \E e \in AuditEvent :
              /\ audit'[t] = Append(audit[t], e)
              /\ e.type \in {"approval.step.approved", "approval.step.rejected"}
                    => e.actor # RequesterOf[t]
<1>1. ASSUME NEW s \in Requests, NEW e \in AuditEvent,
             audit' = [audit EXCEPT ![s] = Append(@, e)],
             e.type \in {"approval.step.approved", "approval.step.rejected"}
                => e.actor # RequesterOf[s]
      PROVE  Grows(r)
    BY <1>1
<1>2. CASE UNCHANGED audit
    BY <1>2
<1>3. ASSUME NEW s \in Requests,
             NEW type \in {"request.submitted", "decision_packet.created",
                           "approval.started"},
             audit' = [audit EXCEPT ![s] = Append(@, Event(type, RequesterOf[s], 0))]
      PROVE  Grows(r)
    <2>1. Event(type, RequesterOf[s], 0) \in AuditEvent
        BY ApprovalsAssumption DEF Event, AuditEvent
    <2> QED
        BY <1>1, <1>3, <2>1 DEF Event
<1>4. ASSUME NEW s \in Requests, NEW k \in 1..2, NEW actor \in Employees,
             NEW decision \in {"approve", "reject"}, NEW commented \in BOOLEAN,
             DecideApproval(s, k, actor, decision, commented)
      PROVE  Grows(r)
    <2>1. actor # RequesterOf[s]
        BY <1>4, OnlyTheApproverDecides DEF DecideApproval
    <2>2. PICK type \in {"approval.step.approved", "approval.step.rejected"} :
             audit' = [audit EXCEPT ![s] = Append(@, Event(type, actor, k))]
        BY <1>4 DEF DecideApproval
    <2>3. Event(type, actor, k) \in AuditEvent
        BY DEF Event, AuditEvent
    <2> QED
        BY <1>1, <2>1, <2>2, <2>3 DEF Event
<1>5. CASE \E s \in Requests : SubmitAccessRequest(s)
    BY <1>3, <1>5 DEF SubmitAccessRequest
<1>6. CASE \E s \in Requests : CommitDecisionPacket(s)
    BY <1>3, <1>6 DEF CommitDecisionPacket
<1>7. CASE \E s \in Requests : StartApprovalCase(s)
    BY <1>3, <1>7 DEF StartApprovalCase
<1> QED
    BY <1>2, <1>4, <1>5, <1>6, <1>7
       DEF Next, SeedCatalog, BeginDecisionPacket, AbandonDecisionPacket, vars

(* POL-006 for every directory history: nobody decides on his own request. *)
THEOREM NobodyDecidesHisOwn == Spec => []NoSelfApproval
<1>1. Init => NoSelfApproval
    BY DEF Init, NoSelfApproval
<1>2. TypeOK /\ NoSelfApproval /\ [Next]_vars => NoSelfApproval'
    <2> SUFFICES ASSUME TypeOK, NoSelfApproval, [Next]_vars,
                        NEW r \in Requests, NEW i \in DOMAIN audit'[r],
                        audit'[r][i].type \in {"approval.step.approved",
                                               "approval.step.rejected"}
                 PROVE  audit'[r][i].actor # RequesterOf[r]
        BY DEF NoSelfApproval
    <2>1. audit[r] \in Seq(AuditEvent)
        BY DEF TypeOK
    <2>2. CASE audit'[r] = audit[r]
        BY <2>2 DEF NoSelfApproval
    <2>3. ASSUME NEW e \in AuditEvent, audit'[r] = Append(audit[r], e),
                 e.type \in {"approval.step.approved", "approval.step.rejected"}
                    => e.actor # RequesterOf[r]
          PROVE  audit'[r][i].actor # RequesterOf[r]
        <3>1. CASE i \in DOMAIN audit[r]
            <4>1. audit'[r][i] = audit[r][i]
                BY <2>1, <2>3, <3>1, AppendProperties
            <4> QED
                BY <3>1, <4>1 DEF NoSelfApproval
        <3>2. CASE i \notin DOMAIN audit[r]
            <4>1. audit'[r][i] = e
                BY <2>1, <2>3, <3>2, AppendProperties
            <4> QED
                BY <2>3, <4>1
        <3> QED
            BY <3>1, <3>2
    <2> QED
        BY <2>2, <2>3, AuditStep
<1> QED
    BY <1>1, <1>2, TypeCorrect, PTL DEF Spec

-----------------------------------------------------------------------------
(* The audit table is only appended to: what was there stays a prefix.     *)
LEMMA AppendKeepsPrefix ==
    ASSUME NEW S, NEW seq \in Seq(S), NEW e \in S
    PROVE  SubSeq(Append(seq, e), 1, Len(seq)) = seq
<1>1. Len(seq) \in Nat
    OBVIOUS
<1>2. CASE seq = << >>
    BY <1>2, AppendProperties, SubSeqEmpty
<1>3. CASE seq # << >>
    <2>1. Append(seq, e) \in Seq(S) /\ Len(Append(seq, e)) = Len(seq) + 1
          /\ \A i \in 1..Len(seq) : Append(seq, e)[i] = seq[i]
        BY AppendProperties
    <2>2. /\ SubSeq(Append(seq, e), 1, Len(seq)) \in Seq(S)
          /\ Len(SubSeq(Append(seq, e), 1, Len(seq))) = Len(seq)
          /\ \A i \in 1..Len(seq) : SubSeq(Append(seq, e), 1, Len(seq))[i] = seq[i]
        BY <1>1, <1>3, <2>1, SubSeqProperties
    <2> QED
        BY <2>2
<1> QED
    BY <1>2, <1>3

(* One decision, case start or packet changes nothing that was final.      *)
LEMMA StepIsFinal ==
    ASSUME CasesInv, [Next]_vars, NEW r \in Requests
    PROVE  /\ packet[r] # NoRoute => packet'[r] = packet[r]
           /\ case[r] \in {"approved", "rejected"} =>
                 case'[r] = case[r] /\ steps'[r] = steps[r]
           /\ \A k \in DOMAIN steps[r] :
                 steps[r][k].status \in {"approved", "rejected", "cancelled"} =>
                     steps'[r][k] = steps[r][k]
<1> USE DEF CasesInv
<1> DEFINE Final ==
        /\ packet[r] # NoRoute => packet'[r] = packet[r]
        /\ case[r] \in {"approved", "rejected"} =>
              case'[r] = case[r] /\ steps'[r] = steps[r]
        /\ \A k \in DOMAIN steps[r] :
              steps[r][k].status \in {"approved", "rejected", "cancelled"} =>
                  steps'[r][k] = steps[r][k]
<1>1. CASE UNCHANGED <<packet, case, steps>>
    BY <1>1
<1>2. ASSUME NEW s \in Requests, CommitDecisionPacket(s) PROVE Final
    BY <1>2 DEF CommitDecisionPacket, OnceEach, TypeOK
<1>3. ASSUME NEW s \in Requests, StartApprovalCase(s) PROVE Final
    <2>1. case[s] = "none" /\ DOMAIN steps[s] = {}
        BY <1>3 DEF StartApprovalCase, OnceEach
    <2>2. s # r => case'[r] = case[r] /\ steps'[r] = steps[r]
        BY <1>3 DEF StartApprovalCase, TypeOK
    <2> QED
        BY <1>3, <2>1, <2>2 DEF StartApprovalCase
<1>4. ASSUME NEW s \in Requests, NEW k \in 1..2, NEW actor \in Employees,
             NEW decision \in {"approve", "reject"}, NEW commented \in BOOLEAN,
             DecideApproval(s, k, actor, decision, commented)
      PROVE  Final
    <2>1. IsCurrent(s, k) /\ case[s] \notin {"approved", "rejected"}
        BY <1>4, OnlyTheApproverDecides DEF DecideApproval
    <2>2. s # r => case'[r] = case[r] /\ steps'[r] = steps[r]
        BY <1>4, DecidedSteps
    <2>3. ASSUME s = r, NEW j \in DOMAIN steps[r],
                 steps[r][j].status \in {"approved", "rejected", "cancelled"}
          PROVE  steps'[r][j] = steps[r][j]
        <3>1. StatusAfter(r, k, decision, j) = steps[r][j].status
            BY <2>1, <2>3 DEF StatusAfter, IsNext, LaterWaiting, IsCurrent
        <3>2. steps'[r][j] = [steps[r][j] EXCEPT !.status = StatusAfter(r, k, decision, j)]
            BY <1>4, <2>3 DEF DecideApproval, TypeOK
        <3>3. steps[r][j] \in [approver : Employees, role : ApproverRoles,
                               status : StepStatus]
            BY DEF TypeOK
        <3> QED
            BY <3>1, <3>2, <3>3
    <2>4. UNCHANGED packet
        BY <1>4 DEF DecideApproval
    <2> QED
        BY <2>1, <2>2, <2>3, <2>4
<1> QED
    BY <1>1, <1>2, <1>3, <1>4
       DEF Next, SeedCatalog, SubmitAccessRequest, BeginDecisionPacket,
           AbandonDecisionPacket, vars

(* Decided steps, closed cases and stored packets stay as they are, and    *)
(* the audit trail only grows.                                             *)
THEOREM Finality == Spec => DecisionsAreFinal
<1>1. CasesInv /\ [Next]_vars =>
        [\A r \in Requests :
          /\ packet[r] # NoRoute => packet'[r] = packet[r]
          /\ case[r] \in {"approved", "rejected"} =>
                case'[r] = case[r] /\ steps'[r] = steps[r]
          /\ \A k \in DOMAIN steps[r] :
                steps[r][k].status \in {"approved", "rejected", "cancelled"} =>
                    steps'[r][k] = steps[r][k]
          /\ SubSeq(audit'[r], 1, Len(audit[r])) = audit[r]]_vars
    <2> SUFFICES ASSUME CasesInv, [Next]_vars, NEW r \in Requests
                 PROVE  SubSeq(audit'[r], 1, Len(audit[r])) = audit[r]
        BY StepIsFinal
    <2>1. audit[r] \in Seq(AuditEvent)
        BY DEF CasesInv, TypeOK
    <2>2. audit'[r] = audit[r] \/ \E e \in AuditEvent : audit'[r] = Append(audit[r], e)
        BY AuditStep DEF CasesInv
    <2> QED
        BY <2>1, <2>2, AppendKeepsPrefix, SubSeqFull
<1> QED
    BY <1>1, CasesInvAlways, PTL DEF Spec, DecisionsAreFinal

-----------------------------------------------------------------------------
(* The audit trail accounts for every approval, and no route goes through  *)
(* the requester.                                                          *)
Accounted ==
    \A r \in Requests : \A k \in DOMAIN steps[r] : steps[r][k].status = "approved" =>
        \E i \in DOMAIN audit[r] :
            audit[r][i] = Event("approval.step.approved", steps[r][k].approver, k)
Foreign(route, r) == \A k \in DOMAIN route : route[k].approver # RequesterOf[r]
ByOthers == \A r \in Requests : Foreign(drafting[r], r) /\ Foreign(packet[r], r)

(* A route that fixed_route returns never goes through the requester.      *)
LEMMA RouteByOthers ==
    ASSUME NEW d \in Directory, NEW r \in Requests
    PROVE  Foreign(RouteOf(d, r), r)
BY DEF RouteOf, Foreign, NoRoute

(* Neither a route being drafted nor a stored one comes to name the        *)
(* requester.                                                              *)
LEMMA NextByOthers == TypeOK /\ ByOthers /\ [Next]_vars => ByOthers'
<1> SUFFICES ASSUME TypeOK, ByOthers, [Next]_vars PROVE ByOthers'
    OBVIOUS
<1>1. Foreign(NoRoute, 0) /\ \A r : Foreign(NoRoute, r)
    BY DEF Foreign, NoRoute
<1>2. ASSUME NEW r \in Requests, BeginDecisionPacket(r) PROVE ByOthers'
    <2>1. Foreign(RouteOf(directory, r), r)
        BY RouteByOthers DEF TypeOK
    <2> QED
        BY <1>2, <2>1 DEF BeginDecisionPacket, ByOthers, Foreign, TypeOK
<1>3. ASSUME NEW r \in Requests, CommitDecisionPacket(r) \/ AbandonDecisionPacket(r)
      PROVE  ByOthers'
    BY <1>1, <1>3 DEF CommitDecisionPacket, AbandonDecisionPacket, ByOthers, Foreign, TypeOK
<1>4. CASE UNCHANGED <<drafting, packet>>
    BY <1>4 DEF ByOthers, Foreign
<1> QED
    BY <1>2, <1>3, <1>4
       DEF Next, SeedCatalog, SubmitAccessRequest, StartApprovalCase, DecideApproval, vars

(* What is in the audit trail stays where it is.                           *)
LEMMA AuditKept ==
    ASSUME TypeOK, [Next]_vars, NEW r \in Requests, NEW i \in DOMAIN audit[r]
    PROVE  i \in DOMAIN audit'[r] /\ audit'[r][i] = audit[r][i]
<1>1. audit[r] \in Seq(AuditEvent)
    BY DEF TypeOK
<1> QED
    BY <1>1, AuditStep, AppendProperties

(* A step that is approved has its event from the same commit on.          *)
LEMMA NextAccounted == CasesInv /\ Accounted /\ [Next]_vars => Accounted'
<1> SUFFICES ASSUME CasesInv, Accounted, [Next]_vars PROVE Accounted'
    OBVIOUS
<1> DEFINE Told(r, k, approver) ==
        \E i \in DOMAIN audit'[r] :
            audit'[r][i] = Event("approval.step.approved", approver, k)
<1>1. ASSUME NEW r \in Requests, NEW k \in DOMAIN steps[r], steps[r][k].status = "approved"
      PROVE  Told(r, k, steps[r][k].approver)
    BY <1>1, AuditKept DEF Accounted, CasesInv
<1>2. CASE UNCHANGED steps
    BY <1>1, <1>2 DEF Accounted
<1>3. ASSUME NEW r \in Requests, StartApprovalCase(r) PROVE Accounted'
    <2>1. \A s \in Requests \ {r} : steps'[s] = steps[s]
        BY <1>3 DEF StartApprovalCase, CasesInv, TypeOK
    <2>2. \A k \in DOMAIN steps'[r] : steps'[r][k].status # "approved"
        BY <1>3 DEF StartApprovalCase, CasesInv, TypeOK
    <2> QED
        BY <1>1, <2>1, <2>2 DEF Accounted
<1>4. ASSUME NEW r \in Requests, NEW k \in 1..2, NEW actor \in Employees,
             NEW decision \in {"approve", "reject"}, NEW commented \in BOOLEAN,
             DecideApproval(r, k, actor, decision, commented)
      PROVE  Accounted'
    <2>1. /\ DOMAIN steps'[r] = DOMAIN steps[r]
          /\ \A j \in DOMAIN steps[r] :
                /\ steps'[r][j].approver = steps[r][j].approver
                /\ steps'[r][j].status = StatusAfter(r, k, decision, j)
          /\ \A s \in Requests \ {r} : steps'[s] = steps[s]
        BY <1>4, DecidedSteps DEF CasesInv
    <2>2. steps[r][k].approver = actor /\ k \in DOMAIN steps[r]
        BY <1>4, OnlyTheApproverDecides DEF DecideApproval, IsCurrent
    <2>3. decision = "approve" => Told(r, k, actor)
        <3>1. ASSUME decision = "approve" PROVE Told(r, k, actor)
            <4>1. audit[r] \in Seq(AuditEvent)
                BY DEF CasesInv, TypeOK
            <4>2. Event("approval.step.approved", actor, k) \in AuditEvent
                BY DEF Event, AuditEvent
            <4>3. audit'[r] = Append(audit[r], Event("approval.step.approved", actor, k))
                BY <1>4, <3>1 DEF DecideApproval, CasesInv, TypeOK
            <4> QED
                BY <4>1, <4>2, <4>3, AppendProperties
        <3> QED
            BY <3>1
    <2>4. ASSUME NEW j \in DOMAIN steps[r], StatusAfter(r, k, decision, j) = "approved"
          PROVE  Told(r, j, steps[r][j].approver)
        <3>1. (j = k /\ decision = "approve") \/ steps[r][j].status = "approved"
            BY <2>4 DEF StatusAfter
        <3> QED
            BY <1>1, <2>2, <2>3, <3>1
    <2>5. ASSUME NEW s \in Requests, NEW j \in DOMAIN steps'[s],
                 steps'[s][j].status = "approved"
          PROVE  Told(s, j, steps'[s][j].approver)
        <3>1. CASE s = r
            BY <2>1, <2>4, <2>5, <3>1
        <3>2. CASE s # r
            BY <1>1, <2>1, <2>5, <3>2
        <3> QED
            BY <3>1, <3>2
    <2> QED
        BY <2>5 DEF Accounted
<1> QED
    BY <1>2, <1>3, <1>4
       DEF Next, SeedCatalog, SubmitAccessRequest, BeginDecisionPacket, CommitDecisionPacket,
           AbandonDecisionPacket, vars

(* The three invariants hold together.                                     *)
LEMMA AccountHolds == Spec => [](CasesInv /\ Accounted /\ ByOthers)
<1>1. Init => CasesInv /\ Accounted /\ ByOthers
    <2>1. Init => TypeOK
        BY ApprovalsAssumption DEF Init, TypeOK, Routes, NoRoute, CaseStatus
    <2>2. Init => OnceEach /\ CaseMatchesSteps /\ Accounted /\ ByOthers
        BY DEF Init, OnceEach, CaseMatchesSteps, Accounted, ByOthers, Foreign, NoRoute
    <2> QED
        BY <2>1, <2>2 DEF CasesInv
<1>2. CasesInv => TypeOK
    BY DEF CasesInv
<1> QED
    BY <1>1, <1>2, NextCases, NextAccounted, NextByOthers, PTL DEF Spec

-----------------------------------------------------------------------------
(* The open cases: one step is pending, the ones before it are approved,   *)
(* the ones after it wait.                                                 *)
LEMMA OpenCase ==
    ASSUME CasesInv, NEW r \in Requests, NEW k \in DOMAIN steps[r], steps[r][k].status = "pending"
    PROVE  /\ case[r] \notin {"approved", "rejected"} /\ IsCurrent(r, k) /\ k \in 1..2
           /\ \A j \in DOMAIN steps[r] : j \in 1..2
           /\ \A j \in DOMAIN steps[r] : j < k => steps[r][j].status = "approved"
           /\ \A j \in DOMAIN steps[r] : j > k => steps[r][j].status = "waiting"
<1>1. DOMAIN steps[r] \in {1..1, 1..2}
    BY DEF CasesInv, TypeOK
<1>2. case[r] \in CaseStatus \ {"none"}
    BY DEF CasesInv, OnceEach, TypeOK
<1>3. case[r] # "approved"
    BY DEF CasesInv, CaseMatchesSteps
<1>4. case[r] # "rejected"
    <2> SUFFICES ASSUME case[r] = "rejected" PROVE FALSE
        OBVIOUS
    <2>1. PICK i \in DOMAIN steps[r] :
             /\ steps[r][i].status = "rejected"
             /\ \A j \in DOMAIN steps[r] :
                   /\ j < i => steps[r][j].status = "approved"
                   /\ j > i => steps[r][j].status = "cancelled"
        BY DEF CasesInv, CaseMatchesSteps
    <2>2. k < i \/ k > i \/ k = i
        BY <1>1
    <2> QED
        BY <2>1, <2>2
<1>5. CASE case[r] = "pending_manager"
    <2>1. \A j \in DOMAIN steps[r] :
             steps[r][j].status = (IF j = 1 THEN "pending" ELSE "waiting")
        BY <1>5 DEF CasesInv, CaseMatchesSteps
    <2> QED
        BY <1>1, <1>5, <2>1 DEF IsCurrent
<1>6. CASE case[r] = "pending_data_owner"
    <2>1. DOMAIN steps[r] = 1..2 /\ steps[r][1].status = "approved"
          /\ steps[r][2].status = "pending"
        BY <1>6 DEF CasesInv, CaseMatchesSteps
    <2> QED
        BY <1>6, <2>1 DEF IsCurrent
<1> QED
    BY <1>2, <1>3, <1>4, <1>5, <1>6 DEF CaseStatus

(* The requester is nobody's approver.                                     *)
LEMMA ApproverIsForeign ==
    ASSUME CasesInv, ByOthers, NEW r \in Requests, NEW k \in DOMAIN steps[r]
    PROVE  steps[r][k].approver # RequesterOf[r] /\ steps[r][k].role \in ApproverRoles
<1>1. case[r] # "none"
    BY DEF CasesInv, OnceEach
<1>2. k \in DOMAIN packet[r] /\ steps[r][k].approver = packet[r][k].approver
    BY <1>1 DEF CasesInv, CaseMatchesSteps
<1>3. steps[r][k].role \in ApproverRoles
    BY DEF CasesInv, TypeOK
<1> QED
    BY <1>2, <1>3 DEF ByOthers, Foreign

(* The inbox query of operations.py and the checks of decide_approval say  *)
(* the same, for any directory: a case is listed for an employee exactly   *)
(* when he may decide it now.                                              *)
THEOREM InboxIsTruthful == Spec => []InboxMatchesDecision
<1>1. ASSUME CasesInv, ByOthers, NEW r \in Requests, NEW actor \in Employees, r \in Inbox(actor)
      PROVE  \E k \in 1..2 :
                DecisionReply(r, k, actor, directory.roles[actor], "approve", FALSE) = "ok"
    <2>1. PICK k \in DOMAIN steps[r] :
             /\ steps[r][k].approver = actor
             /\ steps[r][k].role \in directory.roles[actor] \cap ApproverRoles
             /\ steps[r][k].status = "pending"
        BY <1>1 DEF Inbox
    <2>2. /\ case[r] \notin {"approved", "rejected"} /\ IsCurrent(r, k) /\ k \in 1..2
          /\ actor # RequesterOf[r]
        BY <1>1, <2>1, OpenCase, ApproverIsForeign
    <2>3. Related(r, actor, directory.roles[actor])
        BY <2>1 DEF Related, StepsOf
    <2> QED
        BY <2>1, <2>2, <2>3 DEF DecisionReply
<1>2. ASSUME CasesInv, ByOthers, NEW r \in Requests, NEW actor \in Employees, NEW k \in 1..2,
             DecisionReply(r, k, actor, directory.roles[actor], "approve", FALSE) = "ok"
      PROVE  r \in Inbox(actor)
    <2>1. IsCurrent(r, k) /\ steps[r][k].approver = actor
        BY <1>2 DEF DecisionReply
    <2>2. steps[r][k].role \in directory.roles[actor]
        BY <1>2, <2>1 DEF DecisionReply
    <2>3. k \in DOMAIN steps[r] /\ steps[r][k].status = "pending"
        BY <2>1 DEF IsCurrent
    <2>4. steps[r][k].role \in ApproverRoles
        BY <1>2, <2>3, ApproverIsForeign
    <2> QED
        BY <2>1, <2>2, <2>3, <2>4 DEF Inbox
<1>3. CasesInv /\ ByOthers => InboxMatchesDecision
    BY <1>1, <1>2 DEF InboxMatchesDecision
<1> QED
    BY <1>3, AccountHolds, PTL

(* What a refusal tells its caller is so: out_of_order only while an       *)
(* earlier step is open, already_decided only to someone whose own         *)
(* approval stands in the audit trail (decide_approval of approvals.py).   *)
THEOREM RefusalsHold == Spec => []RefusalsAreTruthful
<1> DEFINE Reply(r, k, actor) ==
        DecisionReply(r, k, actor, directory.roles[actor], "approve", FALSE)
<1>1. ASSUME CasesInv, NEW r \in Requests, NEW actor \in Employees, NEW expected \in 1..2,
             Reply(r, expected, actor) \in {"out_of_order", "already_decided"}
      PROVE  \E k \in DOMAIN steps[r] :
                /\ steps[r][k].status = "pending"
                /\ \/ expected # k /\ expected \in StepsOf(r, actor)
                   \/ expected = k /\ steps[r][k].approver # actor
                /\ StepsOf(r, actor) # {}
                /\ Reply(r, expected, actor) = "out_of_order" <=> Waiting(r, actor)
    <2>1. Related(r, actor, directory.roles[actor]) /\ \E k \in DOMAIN steps[r] : IsCurrent(r, k)
        BY <1>1 DEF DecisionReply
    <2>2. PICK k \in DOMAIN steps[r] : IsCurrent(r, k) /\ steps[r][k].status = "pending"
        BY <2>1 DEF IsCurrent
    <2>3. \A j : IsCurrent(r, j) <=> j = k
        <3>0. DOMAIN steps[r] \in {{}, 1..1, 1..2}
            BY <1>1 DEF CasesInv, TypeOK
        <3>1. DOMAIN steps[r] \subseteq 1..2
            BY <3>0
        <3> QED
            BY <2>2, <3>1 DEF IsCurrent
    <2>4. /\ \/ expected # k /\ expected \in StepsOf(r, actor)
             \/ expected = k /\ steps[r][k].approver # actor
          /\ Reply(r, expected, actor) = "out_of_order" <=> Waiting(r, actor)
        BY <1>1, <2>3 DEF DecisionReply
    <2>5. StepsOf(r, actor) # {}
        BY <2>1 DEF Related
    <2> QED
        BY <2>2, <2>4, <2>5
<1>2. ASSUME CasesInv, Accounted, NEW r \in Requests, NEW actor \in Employees,
             NEW expected \in 1..2, Reply(r, expected, actor) \in {"out_of_order", "already_decided"}
      PROVE  /\ Reply(r, expected, actor) = "out_of_order" =>
                   \E j \in StepsOf(r, actor), i \in DOMAIN steps[r] :
                      i < j /\ steps[r][i].status = "pending"
             /\ Reply(r, expected, actor) = "already_decided" =>
                   \E i \in DOMAIN audit[r] :
                      audit[r][i].type = "approval.step.approved" /\ audit[r][i].actor = actor
    <2>1. PICK k \in DOMAIN steps[r] :
             /\ steps[r][k].status = "pending"
             /\ \/ expected # k /\ expected \in StepsOf(r, actor)
                \/ expected = k /\ steps[r][k].approver # actor
             /\ StepsOf(r, actor) # {}
             /\ Reply(r, expected, actor) = "out_of_order" <=> Waiting(r, actor)
        BY <1>1, <1>2
    <2>2. /\ k \in 1..2 /\ \A j \in DOMAIN steps[r] : j \in 1..2
          /\ \A j \in DOMAIN steps[r] : j < k => steps[r][j].status = "approved"
          /\ \A j \in DOMAIN steps[r] : j > k => steps[r][j].status = "waiting"
        BY <1>2, <2>1, OpenCase
    <2>3. PICK j \in DOMAIN steps[r] : j # k /\ steps[r][j].approver = actor
        BY <2>1 DEF StepsOf
    <2>4. CASE Reply(r, expected, actor) = "out_of_order"
        <3>1. PICK i \in StepsOf(r, actor) : steps[r][i].status = "waiting"
            BY <2>1, <2>4 DEF Waiting
        <3>2. i \in DOMAIN steps[r] /\ k < i
            BY <2>1, <2>2, <3>1 DEF StepsOf
        <3> QED
            BY <2>1, <2>4, <3>1, <3>2
    <2>5. CASE Reply(r, expected, actor) = "already_decided"
        <3>1. steps[r][j].status # "waiting"
            BY <2>1, <2>3, <2>5 DEF Waiting, StepsOf
        <3>2. steps[r][j].status = "approved"
            BY <2>2, <2>3, <3>1
        <3>3. PICK i \in DOMAIN audit[r] :
                 audit[r][i] = Event("approval.step.approved", actor, j)
            BY <1>2, <2>3, <3>2 DEF Accounted
        <3>4. audit[r][i].type = "approval.step.approved" /\ audit[r][i].actor = actor
            BY <3>3 DEF Event
        <3>5. Reply(r, expected, actor) # "out_of_order"
            BY <2>5
        <3> HIDE DEF Reply
        <3> QED
            BY <3>4, <3>5
    <2> QED
        BY <1>2, <2>4, <2>5
<1>3. CasesInv /\ Accounted => RefusalsAreTruthful
    BY <1>2 DEF RefusalsAreTruthful
<1> QED
    BY <1>3, AccountHolds, PTL

-----------------------------------------------------------------------------
(* Every approval in the audit trail is of a step that stands approved, by *)
(* that step's approver, and the trail has them in route order.  It is     *)
(* what ApprovedByWholeRoute says of an approved case, for every case.     *)
Backed(r) ==
    \A i \in ApprovalEvents(r) :
        /\ audit[r][i].step \in DOMAIN steps[r]
        /\ steps[r][audit[r][i].step].status = "approved"
        /\ steps[r][audit[r][i].step].approver = audit[r][i].actor
Ordered(r) ==
    \A i, j \in ApprovalEvents(r) : i < j => audit[r][i].step < audit[r][j].step
InRoute == \A r \in Requests : Backed(r) /\ Ordered(r)

(* An approval in a trail that grew by one event is an old one or that     *)
(* event.                                                                  *)
LEMMA ApprovalsAfter ==
    ASSUME TypeOK, NEW r \in Requests, NEW e \in AuditEvent,
           audit' = [audit EXCEPT ![r] = Append(@, e)],
           NEW s \in Requests
    PROVE  \A i \in ApprovalEvents(s)' :
              /\ i \in Nat
              /\ \/ i \in ApprovalEvents(s) /\ audit'[s][i] = audit[s][i] /\ i <= Len(audit[s])
                 \/ /\ s = r /\ i = Len(audit[s]) + 1 /\ audit'[s][i] = e
                    /\ e.type = "approval.step.approved"
<1> SUFFICES ASSUME NEW i \in ApprovalEvents(s)'
             PROVE  /\ i \in Nat
                    /\ \/ i \in ApprovalEvents(s) /\ audit'[s][i] = audit[s][i] /\ i <= Len(audit[s])
                       \/ /\ s = r /\ i = Len(audit[s]) + 1 /\ audit'[s][i] = e
                          /\ e.type = "approval.step.approved"
    OBVIOUS
<1>1. audit[s] \in Seq(AuditEvent) /\ audit \in [Requests -> Seq(AuditEvent)]
    BY DEF TypeOK
<1>2. i \in DOMAIN audit'[s] /\ audit'[s][i].type = "approval.step.approved"
    BY DEF ApprovalEvents
<1>3. CASE s = r
    <2>1. audit'[s] = Append(audit[s], e)
        BY <1>1, <1>3
    <2>2. /\ DOMAIN audit'[s] = 1..Len(audit[s]) + 1 /\ DOMAIN audit[s] = 1..Len(audit[s])
          /\ audit'[s][Len(audit[s]) + 1] = e
          /\ \A j \in 1..Len(audit[s]) : audit'[s][j] = audit[s][j]
        BY <1>1, <2>1, AppendProperties
    <2> QED
        BY <1>1, <1>2, <1>3, <2>2 DEF ApprovalEvents
<1>4. CASE s # r
    <2>1. audit'[s] = audit[s]
        BY <1>1, <1>4
    <2> QED
        BY <1>1, <1>2, <2>1 DEF ApprovalEvents
<1> QED
    BY <1>3, <1>4

(* What is appended without approving anything leaves the trail in order,  *)
(* as long as the steps it speaks of stay as they are.                     *)
LEMMA OtherEventsInRoute ==
    ASSUME CasesInv, InRoute, NEW r \in Requests, NEW e \in AuditEvent,
           audit' = [audit EXCEPT ![r] = Append(@, e)],
           e.type # "approval.step.approved",
           NEW s \in Requests, steps'[s] = steps[s] \/ DOMAIN steps[s] = {}
    PROVE  Backed(s)' /\ Ordered(s)'
<1>1. \A i \in ApprovalEvents(s)' : i \in ApprovalEvents(s) /\ audit'[s][i] = audit[s][i]
    BY ApprovalsAfter DEF CasesInv, ApprovalEvents
<1>2. ApprovalEvents(s) # {} => steps'[s] = steps[s]
    BY DEF InRoute, Backed
<1> QED
    BY <1>1, <1>2 DEF InRoute, Backed, Ordered

(* A decision keeps the steps that stand approved, and approves one more   *)
(* only when every step before it is: the trail stays in route order.      *)
LEMMA DecisionInRoute ==
    ASSUME CasesInv, InRoute, NEW r \in Requests, NEW k \in 1..2, NEW actor \in Employees,
           NEW decision \in {"approve", "reject"}, NEW commented \in BOOLEAN,
           DecideApproval(r, k, actor, decision, commented)
    PROVE  InRoute'
<1>0. TypeOK
    BY DEF CasesInv
<1>1. PICK e \in AuditEvent :
         /\ audit' = [audit EXCEPT ![r] = Append(@, e)]
         /\ e.type = "approval.step.approved" =>
               decision = "approve" /\ e.step = k /\ e.actor = actor
    <2> DEFINE new == Event(IF decision = "approve" THEN "approval.step.approved"
                                                    ELSE "approval.step.rejected", actor, k)
    <2>1. new \in AuditEvent
        BY DEF Event, AuditEvent
    <2>2. /\ audit' = [audit EXCEPT ![r] = Append(@, new)]
          /\ new.type = "approval.step.approved" => decision = "approve"
          /\ new.step = k /\ new.actor = actor
        BY DEF DecideApproval, Event
    <2> QED
        BY <2>1, <2>2
<1>2. /\ DOMAIN steps'[r] = DOMAIN steps[r]
      /\ \A j \in DOMAIN steps[r] :
            /\ steps'[r][j].approver = steps[r][j].approver
            /\ steps'[r][j].status = StatusAfter(r, k, decision, j)
      /\ \A s \in Requests \ {r} : steps'[s] = steps[s]
    BY <1>0, DecidedSteps
<1>3. /\ k \in DOMAIN steps[r] /\ steps[r][k].status = "pending"
      /\ steps[r][k].approver = actor
    BY OnlyTheApproverDecides DEF DecideApproval, IsCurrent
<1>4. \A j \in DOMAIN steps[r] :
         steps[r][j].status = "approved" => j < k /\ steps'[r][j].status = "approved"
    <2>1. \A j \in DOMAIN steps[r] : j \in 1..2 /\ (j > k => steps[r][j].status = "waiting")
        BY <1>3, OpenCase
    <2> QED
        BY <1>2, <1>3, <2>1 DEF StatusAfter, IsNext, LaterWaiting
<1>5. ASSUME NEW i \in ApprovalEvents(r)
      PROVE  audit[r][i].step \in DOMAIN steps[r] /\ audit[r][i].step < k
             /\ steps'[r][audit[r][i].step].status = "approved"
             /\ steps'[r][audit[r][i].step].approver = audit[r][i].actor
    BY <1>2, <1>4 DEF InRoute, Backed
<1>6. ASSUME NEW s \in Requests PROVE Backed(s)' /\ Ordered(s)'
    <2>0. Len(audit[s]) \in Nat
        BY <1>0 DEF TypeOK
    <2>1. CASE s = r
        <3>1. \A i \in ApprovalEvents(r)' :
                 /\ i \in Nat
                 /\ \/ i \in ApprovalEvents(r) /\ audit'[r][i] = audit[r][i] /\ i <= Len(audit[r])
                    \/ /\ i = Len(audit[r]) + 1 /\ audit'[r][i] = e
                       /\ e.type = "approval.step.approved"
            BY <1>0, <1>1, ApprovalsAfter DEF ApprovalEvents
        <3>2. e.type = "approval.step.approved" =>
                 /\ e.step = k /\ k \in DOMAIN steps'[r]
                 /\ steps'[r][k].status = "approved" /\ steps'[r][k].approver = e.actor
            BY <1>1, <1>2, <1>3 DEF StatusAfter, IsNext, LaterWaiting
        <3>3. Backed(r)'
            BY <1>2, <1>5, <3>1, <3>2 DEF Backed
        <3>4. Ordered(r)'
            <4> SUFFICES ASSUME NEW i \in ApprovalEvents(r)', NEW j \in ApprovalEvents(r)', i < j
                         PROVE  audit'[r][i].step < audit'[r][j].step
                BY DEF Ordered
            <4>1. i \in ApprovalEvents(r) /\ audit'[r][i] = audit[r][i]
                BY <2>0, <2>1, <3>1
            <4>2. CASE j \in ApprovalEvents(r) /\ audit'[r][j] = audit[r][j]
                BY <4>1, <4>2 DEF InRoute, Ordered
            <4>3. CASE audit'[r][j] = e /\ e.type = "approval.step.approved"
                BY <1>5, <3>2, <4>1, <4>3
            <4> QED
                BY <3>1, <4>2, <4>3
        <3> QED
            BY <2>1, <3>3, <3>4
    <2>2. CASE s # r
        <3>1. \A i \in ApprovalEvents(s)' : i \in ApprovalEvents(s) /\ audit'[s][i] = audit[s][i]
            BY <1>0, <1>1, <2>2, ApprovalsAfter DEF ApprovalEvents
        <3>2. steps'[s] = steps[s]
            BY <1>2, <2>2
        <3> QED
            BY <3>1, <3>2 DEF InRoute, Backed, Ordered
    <2> QED
        BY <2>1, <2>2
<1> QED
    BY <1>6 DEF InRoute

(* Every step keeps the trail in route order.                              *)
LEMMA NextInRoute == CasesInv /\ InRoute /\ [Next]_vars => InRoute'
<1> SUFFICES ASSUME CasesInv, InRoute, [Next]_vars PROVE InRoute'
    OBVIOUS
<1>1. CASE UNCHANGED <<steps, audit>>
    BY <1>1 DEF InRoute, Backed, Ordered, ApprovalEvents
<1>2. \A r \in Requests : RequesterOf[r] \in Employees
    BY ApprovalsAssumption
<1>3. ASSUME NEW r \in Requests, SubmitAccessRequest(r) \/ CommitDecisionPacket(r)
      PROVE  InRoute'
    <2>1. PICK e \in AuditEvent : /\ audit' = [audit EXCEPT ![r] = Append(@, e)]
                                  /\ e.type # "approval.step.approved"
        BY <1>2, <1>3 DEF SubmitAccessRequest, CommitDecisionPacket, Event, AuditEvent
    <2>2. steps' = steps
        BY <1>3 DEF SubmitAccessRequest, CommitDecisionPacket
    <2> QED
        BY <2>1, <2>2, OtherEventsInRoute DEF InRoute
<1>4. ASSUME NEW r \in Requests, StartApprovalCase(r) PROVE InRoute'
    <2>1. PICK e \in AuditEvent : /\ audit' = [audit EXCEPT ![r] = Append(@, e)]
                                  /\ e.type # "approval.step.approved"
        <3> DEFINE new == Event("approval.started", RequesterOf[r], 0)
        <3>1. new \in AuditEvent /\ new.type # "approval.step.approved"
            BY <1>2 DEF Event, AuditEvent
        <3>2. audit' = [audit EXCEPT ![r] = Append(@, new)]
            BY <1>4 DEF StartApprovalCase
        <3> QED
            BY <3>1, <3>2
    <2>2. DOMAIN steps[r] = {} /\ \A s \in Requests \ {r} : steps'[s] = steps[s]
        BY <1>4 DEF StartApprovalCase, CasesInv, OnceEach, TypeOK
    <2> QED
        BY <2>1, <2>2, OtherEventsInRoute DEF InRoute
<1> QED
    BY <1>1, <1>3, <1>4, DecisionInRoute
       DEF Next, SeedCatalog, BeginDecisionPacket, AbandonDecisionPacket, vars

(* An approved case was approved by exactly the approvers of the frozen    *)
(* packet, each once and in route order, whatever the directory became     *)
(* since (start_approval_case and decide_approval of approvals.py).        *)
THEOREM WholeRouteApproved == Spec => []ApprovedByWholeRoute
<1>1. Init => InRoute
    BY DEF Init, InRoute, Backed, Ordered, ApprovalEvents
<1>2. ASSUME CasesInv, Accounted, InRoute, NEW r \in Requests, case[r] = "approved"
      PROVE  /\ {audit[r][i].step : i \in ApprovalEvents(r)} = DOMAIN packet[r]
             /\ \A i \in ApprovalEvents(r) :
                   audit[r][i].actor = packet[r][audit[r][i].step].approver
             /\ Ordered(r)
    <2>1. /\ DOMAIN steps[r] = DOMAIN packet[r]
          /\ \A k \in DOMAIN steps[r] :
                steps[r][k].approver = packet[r][k].approver /\ steps[r][k].status = "approved"
        BY <1>2 DEF CasesInv, CaseMatchesSteps
    <2>2. \A i \in ApprovalEvents(r) :
             /\ audit[r][i].step \in DOMAIN steps[r]
             /\ steps[r][audit[r][i].step].approver = audit[r][i].actor
        BY <1>2 DEF InRoute, Backed
    <2>3. \A k \in DOMAIN steps[r] : \E i \in ApprovalEvents(r) : audit[r][i].step = k
        <3> SUFFICES ASSUME NEW k \in DOMAIN steps[r]
                     PROVE  \E i \in ApprovalEvents(r) : audit[r][i].step = k
            OBVIOUS
        <3>1. PICK i \in DOMAIN audit[r] :
                 audit[r][i] = Event("approval.step.approved", steps[r][k].approver, k)
            BY <1>2, <2>1 DEF Accounted
        <3>2. audit[r][i].type = "approval.step.approved" /\ audit[r][i].step = k
            BY <3>1 DEF Event
        <3> QED
            BY <3>2 DEF ApprovalEvents
    <2> QED
        BY <1>2, <2>1, <2>2, <2>3 DEF InRoute
<1>3. CasesInv /\ Accounted /\ InRoute => ApprovedByWholeRoute
    BY <1>2 DEF ApprovedByWholeRoute, Ordered
<1> QED
    BY <1>1, <1>3, AccountHolds, NextInRoute, PTL DEF Spec
===============================================================================
