------------------------------ MODULE Approvals ------------------------------
(***************************************************************************)
(* The approval of access requests: requests.py (the frozen request),      *)
(* decision_packets.py (the immutable packet with its fixed route),        *)
(* approvals.py (case creation and one decision per call) and the approval *)
(* inbox of operations.py, against a directory that seed_catalog rewrites  *)
(* at every deployment.                                                    *)
(*                                                                         *)
(* A handler that holds a FOR UPDATE lock from its first read to its       *)
(* commit is one step.  Packet generation is two: the route is read before *)
(* the advisory model is called and committed afterwards, with the request *)
(* row locked in between but not the directory.                            *)
(* Not modelled here: the wording of packets, how the draft came about,    *)
(* comments beyond "present or not".                                       *)
(***************************************************************************)
EXTENDS Naturals, Sequences, FiniteSets

CONSTANTS Requests,     \* ids of formal requests
          Employees,    \* directory entries
          Nobody,       \* the null employee: no manager, no data owner
          RequesterOf,  \* the employee whose draft became the request
          Directories   \* the directory versions that deployments install

ApproverRoles == {"manager", "data_owner"}

Directory == [manager : [Employees -> Employees \cup {Nobody}],
              roles   : [Employees -> SUBSET (ApproverRoles \cup {"permissions_admin"})],
              policy  : [Requests -> {"manager", "manager_and_data_owner",
                                      "manual_security"}],
              owner   : [Requests -> Employees \cup {Nobody}]]

ASSUME ApprovalsAssumption ==
    /\ Nobody \notin Employees
    /\ RequesterOf \in [Requests -> Employees]
    /\ Directories \subseteq Directory

VARIABLES directory,  \* employees, roles and entitlements as the last seed left them
          submitted,  \* requests whose request_status is "submitted"
          drafting,   \* drafting[r]: the route a running packet generation has read
          packet,     \* packet[r]: the fixed route of the stored packet, <<>> if none
          case,       \* case[r]: approval_status, "none" before the case exists
          steps,      \* steps[r]: the approval steps in step_order
          audit       \* audit[r]: the append-only audit events of the request

vars == <<directory, submitted, drafting, packet, case, steps, audit>>

RouteStep == [approver : Employees, role : ApproverRoles]
NoRoute == <<>>
Routes == {NoRoute} \cup {<<s>> : s \in RouteStep} \cup (RouteStep \X RouteStep)

StepStatus == {"waiting", "pending", "approved", "rejected", "cancelled"}
CaseStatus == {"none", "pending_manager", "pending_data_owner", "approved", "rejected"}
AuditEvent == [type : {"request.submitted", "decision_packet.created",
                       "approval.started", "approval.step.approved",
                       "approval.step.rejected"},
               actor : Employees,
               step  : 0..2]

Event(type, actor, step) == [type |-> type, actor |-> actor, step |-> step]

TypeOK ==
    /\ directory \in Directory
    /\ submitted \subseteq Requests
    /\ drafting \in [Requests -> Routes]
    /\ packet \in [Requests -> Routes]
    /\ case \in [Requests -> CaseStatus]
    /\ DOMAIN steps = Requests
    /\ \A r \in Requests :
          /\ DOMAIN steps[r] \in {{}, 1..1, 1..2}
          /\ \A k \in DOMAIN steps[r] :
                steps[r][k] \in [approver : Employees, role : ApproverRoles,
                                 status : StepStatus]
    /\ audit \in [Requests -> Seq(AuditEvent)]

Init ==
    /\ directory \in Directories
    /\ submitted = {}
    /\ drafting = [r \in Requests |-> NoRoute]
    /\ packet = [r \in Requests |-> NoRoute]
    /\ case = [r \in Requests |-> "none"]
    /\ steps = [r \in Requests |-> <<>>]
    /\ audit = [r \in Requests |-> <<>>]

-----------------------------------------------------------------------------
(* The fixed route.  NoRoute stands for ApprovalRoutingError.              *)

\* Mutant: a missing data owner is not noticed.
RouteWithoutOwner(d, r) ==
    LET requester == RequesterOf[r]
    IN  CASE d.manager[requester] \in {Nobody, requester}   -> NoRoute
          [] d.policy[r] = "manager_and_data_owner"         ->
                <<[approver |-> d.manager[requester], role |-> "manager"],
                  [approver |-> d.owner[r], role |-> "data_owner"]>>
          [] OTHER                                          -> NoRoute

RouteOf(d, r) ==
    LET requester == RequesterOf[r]
        manager   == d.manager[requester]
        owner     == d.owner[r]
        byManager == [approver |-> manager, role |-> "manager"]
        byOwner   == [approver |-> owner, role |-> "data_owner"]
    IN  CASE manager \in {Nobody, requester}                -> NoRoute
          [] manager \notin {Nobody, requester}
             /\ d.policy[r] = "manager"                     -> <<byManager>>
          [] manager \notin {Nobody, requester}
             /\ d.policy[r] = "manager_and_data_owner"
             /\ owner \notin {Nobody, requester}            -> <<byManager, byOwner>>
          [] OTHER                                          -> NoRoute

(* A new deployment re-seeds the directory while cases are open.           *)
SeedCatalog(d) ==
    /\ d # directory
    /\ directory' = d
    /\ UNCHANGED <<submitted, drafting, packet, case, steps, audit>>

SubmitAccessRequest(r) ==
    /\ r \notin submitted
    /\ submitted' = submitted \cup {r}
    /\ audit' = [audit EXCEPT ![r] =
                    Append(@, Event("request.submitted", RequesterOf[r], 0))]
    /\ UNCHANGED <<directory, drafting, packet, case, steps>>

\* Mutant: a packet that exists is generated again.
RegenerateDecisionPacket(r) ==
    /\ r \in submitted
    /\ drafting[r] = NoRoute
    /\ RouteOf(directory, r) # NoRoute
    /\ drafting' = [drafting EXCEPT ![r] = RouteOf(directory, r)]
    /\ UNCHANGED <<directory, submitted, packet, case, steps, audit>>

(* generate_decision_packet up to the advisory call: the request row is    *)
(* locked, the route is built from the directory of this moment.           *)
BeginDecisionPacket(r) ==
    /\ r \in submitted
    /\ packet[r] = NoRoute
    /\ drafting[r] = NoRoute
    /\ RouteOf(directory, r) # NoRoute
    /\ drafting' = [drafting EXCEPT ![r] = RouteOf(directory, r)]
    /\ UNCHANGED <<directory, submitted, packet, case, steps, audit>>

(* ... and its commit: packet and audit event together.                    *)
CommitDecisionPacket(r) ==
    /\ drafting[r] # NoRoute
    /\ packet' = [packet EXCEPT ![r] = drafting[r]]
    /\ drafting' = [drafting EXCEPT ![r] = NoRoute]
    /\ audit' = [audit EXCEPT ![r] =
                    Append(@, Event("decision_packet.created", RequesterOf[r], 0))]
    /\ UNCHANGED <<directory, submitted, case, steps>>

(* Evidence search or the save fails, or the process dies: rollback.       *)
AbandonDecisionPacket(r) ==
    /\ drafting[r] # NoRoute
    /\ drafting' = [drafting EXCEPT ![r] = NoRoute]
    /\ UNCHANGED <<directory, submitted, packet, case, steps, audit>>

(* The frozen route must still be the one the directory gives.             *)
StartApprovalCase(r) ==
    /\ r \in submitted
    /\ drafting[r] = NoRoute
    /\ case[r] = "none"
    /\ packet[r] # NoRoute
    /\ packet[r] = RouteOf(directory, r)
    /\ case' = [case EXCEPT ![r] = "pending_manager"]
    /\ steps' = [steps EXCEPT ![r] =
                    [k \in DOMAIN packet[r] |->
                        [approver |-> packet[r][k].approver,
                         role     |-> packet[r][k].role,
                         status   |-> IF k = 1 THEN "pending" ELSE "waiting"]]]
    /\ audit' = [audit EXCEPT ![r] =
                    Append(@, Event("approval.started", RequesterOf[r], 0))]
    /\ UNCHANGED <<directory, submitted, drafting, packet>>

-----------------------------------------------------------------------------
(* One decision.  The browser sends the step it saw, so expected may be    *)
(* any step; the reply names the refusal, and only "ok" writes.            *)

StepsOf(r, actor) == {k \in DOMAIN steps[r] : steps[r][k].approver = actor}

\* Mutant: a decided step counts as one that waits.
NotPending(r, actor) == \E k \in StepsOf(r, actor) : steps[r][k].status # "pending"

Waiting(r, actor) == \E k \in StepsOf(r, actor) : steps[r][k].status = "waiting"
IsCurrent(r, k) ==
    /\ k \in DOMAIN steps[r]
    /\ steps[r][k].status = "pending"
    /\ \A j \in DOMAIN steps[r] : steps[r][j].status = "pending" => k <= j
Related(r, actor, roles) ==
    \E k \in StepsOf(r, actor) : steps[r][k].role \in roles \cap ApproverRoles

\* Mutant: whoever has the role of the current step decides it.
ReplyByRole(r, expected, actor, roles, decision, commented) ==
    CASE case[r] \in {"approved", "rejected"}               -> "terminal"
      [] IsCurrent(r, expected)
         /\ steps[r][expected].role \in roles               -> "ok"
      [] OTHER                                              -> "actor_mismatch"

DecisionReply(r, expected, actor, roles, decision, commented) ==
    CASE ~Related(r, actor, roles) -> "not_found"
      [] OTHER ->
    CASE \/ case[r] \in {"approved", "rejected"}
         \/ ~\E k \in DOMAIN steps[r] : IsCurrent(r, k) -> "terminal"
      [] OTHER ->
    CASE ~IsCurrent(r, expected) /\ expected \notin StepsOf(r, actor) -> "actor_mismatch"
      [] \/ ~IsCurrent(r, expected) /\ expected \in StepsOf(r, actor)
         \/ IsCurrent(r, expected) /\ steps[r][expected].approver # actor ->
            IF Waiting(r, actor) THEN "out_of_order" ELSE "already_decided"
      [] OTHER ->
    CASE \/ steps[r][expected].role \notin roles
         \/ actor = RequesterOf[r] -> "actor_mismatch"
      [] steps[r][expected].role \in roles /\ actor # RequesterOf[r]
         /\ decision = "reject" /\ ~commented -> "comment_required"
      [] OTHER -> "ok"

LaterWaiting(r, k) == {j \in DOMAIN steps[r] : j > k /\ steps[r][j].status = "waiting"}

(* The step that approving k hands the case to, if any.                    *)
IsNext(r, k, j) == j \in LaterWaiting(r, k) /\ \A i \in LaterWaiting(r, k) : j <= i

\* Mutant: a rejection leaves the later steps waiting.
StatusWithoutCancel(r, k, decision, j) ==
    CASE j = k /\ decision = "approve"                       -> "approved"
      [] j = k /\ decision = "reject"                        -> "rejected"
      [] decision = "approve" /\ IsNext(r, k, j)             -> "pending"
      [] OTHER                                               -> steps[r][j].status

StatusAfter(r, k, decision, j) ==
    CASE j = k /\ decision = "approve"                       -> "approved"
      [] j = k /\ decision = "reject"                        -> "rejected"
      [] decision = "approve" /\ IsNext(r, k, j)             -> "pending"
      [] decision = "reject" /\ j \in LaterWaiting(r, k)     -> "cancelled"
      [] OTHER                                               -> steps[r][j].status

\* Mutant: the first approval approves the case.
CaseAfterFirst(r, k, decision) ==
    IF decision = "reject" THEN "rejected" ELSE "approved"

CaseAfter(r, k, decision) ==
    CASE decision = "reject"                                 -> "rejected"
      [] decision = "approve" /\ LaterWaiting(r, k) = {}     -> "approved"
      [] OTHER                                               -> "pending_data_owner"

DecideApproval(r, k, actor, decision, commented) ==
    /\ DecisionReply(r, k, actor, directory.roles[actor], decision, commented) = "ok"
    /\ case' = [case EXCEPT ![r] = CaseAfter(r, k, decision)]
    /\ steps' = [steps EXCEPT ![r] =
                    [j \in DOMAIN steps[r] |->
                        [steps[r][j] EXCEPT !.status = StatusAfter(r, k, decision, j)]]]
    /\ audit' = [audit EXCEPT ![r] =
                    Append(@, Event(IF decision = "approve" THEN "approval.step.approved"
                                                            ELSE "approval.step.rejected",
                                    actor, k))]
    /\ UNCHANGED <<directory, submitted, drafting, packet>>

Next ==
    \/ \E d \in Directories : SeedCatalog(d)
    \/ \E r \in Requests :
          \/ SubmitAccessRequest(r)
          \/ BeginDecisionPacket(r)
          \/ CommitDecisionPacket(r)
          \/ AbandonDecisionPacket(r)
          \/ StartApprovalCase(r)
          \/ \E k \in 1..2, actor \in Employees, decision \in {"approve", "reject"},
                commented \in BOOLEAN : DecideApproval(r, k, actor, decision, commented)

Spec == Init /\ [][Next]_vars

-----------------------------------------------------------------------------

\* Mutant: the inbox does not look at today's roles.
InboxOfApprover(actor) ==
    {r \in Requests : \E k \in StepsOf(r, actor) : steps[r][k].status = "pending"}

(* list_approval_inbox: what the approver's page offers.                   *)
Inbox(actor) ==
    {r \in Requests : \E k \in DOMAIN steps[r] :
        /\ steps[r][k].approver = actor
        /\ steps[r][k].role \in directory.roles[actor] \cap ApproverRoles
        /\ steps[r][k].status = "pending"}

ApprovalEvents(r) == {i \in DOMAIN audit[r] : audit[r][i].type = "approval.step.approved"}

(* An approved case was approved by exactly the approvers of the frozen    *)
(* packet, each once, in route order, whatever the directory became since  *)
(* (approvals.py: start_approval_case and decide_approval together).       *)
ApprovedByWholeRoute ==
    \A r \in Requests : case[r] = "approved" =>
        /\ {audit[r][i].step : i \in ApprovalEvents(r)} = DOMAIN packet[r]
        /\ \A i \in ApprovalEvents(r) :
              audit[r][i].actor = packet[r][audit[r][i].step].approver
        /\ \A i, j \in ApprovalEvents(r) : i < j => audit[r][i].step < audit[r][j].step

(* The steps of a case are those of the packet, and the case status says   *)
(* which of them is being waited for; a rejection leaves nothing open.     *)
CaseMatchesSteps ==
    \A r \in Requests :
        /\ case[r] # "none" =>
              /\ DOMAIN steps[r] = DOMAIN packet[r]
              /\ \A k \in DOMAIN steps[r] :
                    /\ steps[r][k].approver = packet[r][k].approver
                    /\ steps[r][k].role = packet[r][k].role
        /\ case[r] = "pending_manager" =>
              \A k \in DOMAIN steps[r] :
                 steps[r][k].status = (IF k = 1 THEN "pending" ELSE "waiting")
        /\ case[r] = "pending_data_owner" =>
              /\ DOMAIN steps[r] = 1..2
              /\ steps[r][1].status = "approved"
              /\ steps[r][2].status = "pending"
        /\ case[r] = "approved" =>
              \A k \in DOMAIN steps[r] : steps[r][k].status = "approved"
        /\ case[r] = "rejected" =>
              \E k \in DOMAIN steps[r] :
                 /\ steps[r][k].status = "rejected"
                 /\ \A j \in DOMAIN steps[r] :
                       /\ j < k => steps[r][j].status = "approved"
                       /\ j > k => steps[r][j].status = "cancelled"

(* POL-006: nobody decides on a request of his own, even after the         *)
(* directory made the requester manager or owner.                          *)
NoSelfApproval ==
    \A r \in Requests : \A k \in DOMAIN audit[r] :
        audit[r][k].type \in {"approval.step.approved", "approval.step.rejected"}
            => audit[r][k].actor # RequesterOf[r]

(* The inbox and the decision endpoint are two queries written apart: a    *)
(* case is listed for an employee exactly when his decision would be taken.*)
InboxMatchesDecision ==
    \A r \in Requests, actor \in Employees :
        r \in Inbox(actor) <=>
            \E k \in 1..2 :
               DecisionReply(r, k, actor, directory.roles[actor], "approve", FALSE) = "ok"

(* A refusal names its true reason: out_of_order only while an earlier     *)
(* step is undecided, already_decided only if the caller did decide one.   *)
RefusalsAreTruthful ==
    \A r \in Requests, actor \in Employees, k \in 1..2 :
        LET reply == DecisionReply(r, k, actor, directory.roles[actor], "approve", FALSE)
        IN  /\ reply = "out_of_order" =>
                  \E j \in StepsOf(r, actor), i \in DOMAIN steps[r] :
                     i < j /\ steps[r][i].status = "pending"
            /\ reply = "already_decided" =>
                  \E i \in DOMAIN audit[r] :
                     audit[r][i].type = "approval.step.approved" /\ audit[r][i].actor = actor

(* Decisions are final: a decided step, a closed case and a stored packet  *)
(* never change, and the audit trail only grows.                           *)
DecisionsAreFinal ==
    [][\A r \in Requests :
          /\ packet[r] # NoRoute => packet'[r] = packet[r]
          /\ case[r] \in {"approved", "rejected"} =>
                case'[r] = case[r] /\ steps'[r] = steps[r]
          /\ \A k \in DOMAIN steps[r] :
                steps[r][k].status \in {"approved", "rejected", "cancelled"} =>
                    steps'[r][k] = steps[r][k]
          /\ SubSeq(audit'[r], 1, Len(audit[r])) = audit[r]]_vars
=============================================================================
