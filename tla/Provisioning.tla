---------------------------- MODULE Provisioning -----------------------------
(***************************************************************************)
(* Provisioning of approved requests: provision_access and                 *)
(* recover_provisioning of provisioning.py, run by concurrent workers      *)
(* against PostgreSQL (READ COMMITTED, row locks) and an identity system   *)
(* (IAM) that may refuse, lose its answer, or never receive the call.      *)
(*                                                                         *)
(* A worker is one HTTP call in one database session.  Two row locks shape *)
(* the interleavings: the request row, FOR UPDATE from the first read to   *)
(* the next commit, and the attempt row, FOR UPDATE in _apply_outcome and  *)
(* in recovery.  Every commit also inserts an audit event whose foreign    *)
(* key needs the request row, so it waits for another worker's lock on it: *)
(* after the IAM call a worker takes attempt, then request, while recovery *)
(* and retry take request, then attempt.  PostgreSQL breaks the cycle.     *)
(*                                                                         *)
(* Sessions are built with expire_on_commit=False and never populate       *)
(* loaded objects again, so _apply_outcome locks the attempt but tests the *)
(* status this worker itself last read or wrote, "seen".                   *)
(*                                                                         *)
(* Not modelled: the 403/404 replies (only the one permissions admin gets  *)
(* past _load_context), audit wording, grant dates, and v1.1 rows whose    *)
(* idempotency key is not the server's (they only yield 409).              *)
(***************************************************************************)
EXTENDS Naturals, FiniteSets

CONSTANTS Requests,
          Workers,      \* concurrent HTTP calls
          IamResults,   \* what a provision call may do, a subset of IamResult
          IamForgets,   \* TRUE: IAM's memory dies with the process
          MaxAttempts   \* bound on attempt_count

\* carried out and answered; refused; carried out, answer lost; never received
IamResult == {"succeeded", "failed", "response_lost", "not_received"}

ConstantsOK ==
    /\ IsFiniteSet(Workers)
    /\ IamResults \subseteq IamResult
    /\ IamForgets \in BOOLEAN
    /\ MaxAttempts \in Nat \ {0}

ASSUME ProvisioningAssumption == ConstantsOK

VARIABLES approved,  \* requests whose case is approved (Approvals)
          attempt,   \* the ProvisioningAttemptRecord of each request
          granted,   \* requests with an AccessGrantRecord
          iam,       \* what IAM remembers of each request's operation
          effects,   \* history: how often IAM carried out the operation
          worker     \* the local state of each call

vars == <<approved, attempt, granted, iam, effects, worker>>

AttemptStatus == {"none", "in_progress", "unknown", "failed", "succeeded"}
Outcomes == {"none", "succeeded", "failed", "unknown"}

Idle == [pc |-> "idle"]
WorkerState ==
    [pc : {"provisioning", "calling", "called", "recovering", "settling"},
     req : Requests,
     root : BOOLEAN,        \* holds the request row
     seen : AttemptStatus,  \* the status of the attempt in this session
     outcome : Outcomes]

TypeOK ==
    /\ approved \subseteq Requests
    /\ attempt \in [Requests -> [status : AttemptStatus, count : Nat]]
    /\ granted \subseteq Requests
    /\ iam \in [Requests -> {"absent", "succeeded", "failed"}]
    /\ effects \in [Requests -> Nat]
    /\ worker \in [Workers -> WorkerState \cup {Idle}]

(* A grant without an attempt is one that v1.1 left behind.                *)
Init ==
    /\ approved \in SUBSET Requests
    /\ granted \in SUBSET approved
    /\ attempt = [r \in Requests |-> [status |-> "none", count |-> 0]]
    /\ iam = [r \in Requests |-> "absent"]
    /\ effects = [r \in Requests |-> IF r \in granted THEN 1 ELSE 0]
    /\ worker = [p \in Workers |-> Idle]

At(p, pc) == worker[p].pc = pc
Busy(p, r) == ~At(p, "idle") /\ worker[p].req = r

LocksRequest(p, r) == Busy(p, r) /\ worker[p].root
LocksAttempt(p, r) == Busy(p, r) /\ At(p, "settling")

\* The calls to IAM under way for r.
Calling(r) == {p \in Workers : Busy(p, r) /\ At(p, "calling")}

RequestFree(p, r) == \A q \in Workers \ {p} : ~LocksRequest(q, r)
AttemptFree(p, r) == \A q \in Workers \ {p} : ~LocksAttempt(q, r)

-----------------------------------------------------------------------------
Approve(r) ==
    /\ r \notin approved
    /\ approved' = approved \cup {r}
    /\ UNCHANGED <<attempt, granted, iam, effects, worker>>

\* Mutant: an operation in doubt is provisioned again, not recovered.
MustWriteUnknown(r) ==
    \/ r \in granted /\ attempt[r].status # "succeeded"
    \/ r \notin granted /\ attempt[r].status \in {"none", "failed", "unknown"}

(* provision_access locks the request and reads attempt and grant, which   *)
(* nobody can commit to before it lets go.  Only calls that will write are *)
(* steps: an attempt under way, or done, is returned as it is.             *)
MustWrite(r) ==
    \/ r \in granted /\ attempt[r].status # "succeeded"
    \/ r \notin granted /\ attempt[r].status \in {"none", "failed"}

\* Mutant: approval_status is not checked.
ProvisionAnything(p, r) ==
    /\ At(p, "idle") /\ RequestFree(p, r) /\ MustWrite(r)
    /\ worker' = [worker EXCEPT ![p] =
                    [pc |-> "provisioning", req |-> r, root |-> TRUE,
                     seen |-> attempt[r].status, outcome |-> "none"]]
    /\ UNCHANGED <<approved, attempt, granted, iam, effects>>

ProvisionLock(p, r) ==
    /\ At(p, "idle")
    /\ r \in approved
    /\ RequestFree(p, r)
    /\ MustWrite(r)
    /\ worker' = [worker EXCEPT ![p] =
                    [pc |-> "provisioning", req |-> r, root |-> TRUE,
                     seen |-> attempt[r].status, outcome |-> "none"]]
    /\ UNCHANGED <<approved, attempt, granted, iam, effects>>

(* A grant without any attempt: a succeeded one is inserted for it.        *)
ProvisionAdopt(p) ==
    /\ At(p, "provisioning")
    /\ worker[p].req \in granted
    /\ worker[p].seen = "none"
    /\ attempt' = [attempt EXCEPT ![worker[p].req] = [status |-> "succeeded", count |-> 1]]
    /\ worker' = [worker EXCEPT ![p] = Idle]
    /\ UNCHANGED <<approved, granted, iam, effects>>

(* A grant whose attempt is not succeeded: IAM is not asked again.         *)
ProvisionReconcile(p) ==
    /\ At(p, "provisioning")
    /\ worker[p].req \in granted
    /\ worker[p].seen # "none"
    /\ AttemptFree(p, worker[p].req)
    /\ worker' = [worker EXCEPT ![p].pc = "settling", ![p].outcome = "succeeded"]
    /\ UNCHANGED <<approved, attempt, granted, iam, effects>>

\* Mutant: a retry is not counted.
ProvisionUncounted(p) ==
    /\ At(p, "provisioning") /\ worker[p].req \notin granted
    /\ attempt' = [attempt EXCEPT ![worker[p].req] =
                      [status |-> "in_progress", count |-> IF @.count = 0 THEN 1 ELSE @.count]]
    /\ worker' = [worker EXCEPT ![p].pc = "calling", ![p].root = FALSE,
                                ![p].seen = "in_progress"]
    /\ UNCHANGED <<approved, granted, iam, effects>>

(* in_progress is committed, and the request let go, before IAM is called. *)
ProvisionStart(p) ==
    /\ At(p, "provisioning")
    /\ worker[p].req \notin granted
    /\ worker[p].seen # "none" => AttemptFree(p, worker[p].req)
    /\ attempt[worker[p].req].count < MaxAttempts
    /\ attempt' = [attempt EXCEPT ![worker[p].req] =
                      [status |-> "in_progress", count |-> @.count + 1]]
    /\ worker' = [worker EXCEPT ![p].pc = "calling", ![p].root = FALSE,
                                ![p].seen = "in_progress"]
    /\ UNCHANGED <<approved, granted, iam, effects>>

(* The external call; an exception counts as unknown, received or not.     *)
IamCall(p, result) ==
    LET r == worker[p].req
        carriedOut == result \in {"succeeded", "response_lost"}
    IN  /\ At(p, "calling")
        /\ iam' = [iam EXCEPT ![r] =
                     IF carriedOut THEN "succeeded"
                     ELSE IF result = "failed" THEN "failed" ELSE @]
        /\ effects' = [effects EXCEPT ![r] = IF carriedOut THEN @ + 1 ELSE @]
        /\ worker' = [worker EXCEPT ![p].pc = "called",
                        ![p].outcome = IF result \in {"succeeded", "failed"}
                                       THEN result ELSE "unknown"]
        /\ UNCHANGED <<approved, attempt, granted>>

(* _apply_outcome after the call: the attempt row is locked.               *)
LockAttempt(p) ==
    /\ At(p, "called")
    /\ AttemptFree(p, worker[p].req)
    /\ worker' = [worker EXCEPT ![p].pc = "settling"]
    /\ UNCHANGED <<approved, attempt, granted, iam, effects>>

\* Mutant: only "unknown" attempts can be recovered.
RecoverUnknown(p, r) ==
    /\ At(p, "idle") /\ r \in approved /\ RequestFree(p, r)
    /\ attempt[r].status = "unknown"
    /\ worker' = [worker EXCEPT ![p] =
                    [pc |-> "recovering", req |-> r, root |-> TRUE,
                     seen |-> "none", outcome |-> "none"]]
    /\ UNCHANGED <<approved, attempt, granted, iam, effects>>

(* recover_provisioning: the request row, then the attempt row, then IAM's *)
(* answer, which is unknown when the query fails or finds nothing.         *)
RecoverLock(p, r) ==
    /\ At(p, "idle")
    /\ r \in approved
    /\ RequestFree(p, r)
    /\ attempt[r].status \notin {"none", "succeeded"}
    /\ worker' = [worker EXCEPT ![p] =
                    [pc |-> "recovering", req |-> r, root |-> TRUE,
                     seen |-> "none", outcome |-> "none"]]
    /\ UNCHANGED <<approved, attempt, granted, iam, effects>>

\* Mutant: IAM's answer is stored as it is.
RecoverRaw(p, answered) ==
    /\ At(p, "recovering") /\ AttemptFree(p, worker[p].req)
    /\ worker' = [worker EXCEPT ![p].pc = "settling",
                    ![p].seen = attempt[worker[p].req].status,
                    ![p].outcome = IF answered THEN iam[worker[p].req] ELSE "unknown"]
    /\ UNCHANGED <<approved, attempt, granted, iam, effects>>

RecoverQuery(p, answered) ==
    LET r == worker[p].req
    IN  /\ At(p, "recovering")
        /\ AttemptFree(p, r)
        /\ worker' = [worker EXCEPT ![p].pc = "settling",
                        ![p].seen = attempt[r].status,
                        ![p].outcome = IF answered /\ iam[r] # "absent"
                                       THEN iam[r] ELSE "unknown"]
        /\ UNCHANGED <<approved, attempt, granted, iam, effects>>

\* Mutant: everything but a refusal is granted.
ApplyHopefully(p) ==
    LET r == worker[p].req
    IN  /\ At(p, "settling") /\ RequestFree(p, r)
        /\ attempt' = [attempt EXCEPT ![r].status = worker[p].outcome]
        /\ granted' = IF worker[p].outcome # "failed" THEN granted \cup {r} ELSE granted
        /\ worker' = [worker EXCEPT ![p] = Idle]
        /\ UNCHANGED <<approved, iam, effects>>

(* The rest of _apply_outcome: outcome, grant unless one is there, audit   *)
(* event; one commit.  Its early return for a succeeded attempt reads      *)
(* "seen", and no session gets here having seen that.                      *)
ApplyOutcome(p) ==
    LET r == worker[p].req
    IN  /\ At(p, "settling")
        /\ RequestFree(p, r)
        /\ worker[p].seen # "succeeded"
        /\ attempt' = [attempt EXCEPT ![r].status = worker[p].outcome]
        /\ granted' = IF worker[p].outcome = "succeeded" THEN granted \cup {r} ELSE granted
        /\ worker' = [worker EXCEPT ![p] = Idle]
        /\ UNCHANGED <<approved, iam, effects>>

(* Two workers wait for each other's row; PostgreSQL fails one of them.    *)
WaitsForAttempt(p, r) ==
    /\ LocksRequest(p, r)
    /\ \/ At(p, "recovering")
       \/ At(p, "provisioning") /\ worker[p].seen # "none"
Deadlocked(p, q, r) ==
    /\ p # q
    /\ WaitsForAttempt(p, r) /\ LocksAttempt(q, r) /\ ~LocksRequest(q, r)

BreakDeadlock(p, q, r) ==
    /\ Deadlocked(p, q, r) \/ Deadlocked(q, p, r)
    /\ worker' = [worker EXCEPT ![p] = Idle]
    /\ UNCHANGED <<approved, attempt, granted, iam, effects>>

(* A statement or commit of one call fails, or its process dies.           *)
Abort(p) ==
    /\ ~At(p, "idle")
    /\ worker' = [worker EXCEPT ![p] = Idle]
    /\ UNCHANGED <<approved, attempt, granted, iam, effects>>

(* The server restarts; the simulator's memory is a dict of that process.  *)
Restart ==
    /\ worker' = [p \in Workers |-> Idle]
    /\ iam' = IF IamForgets THEN [r \in Requests |-> "absent"] ELSE iam
    /\ UNCHANGED <<approved, attempt, granted, effects>>

WorkerStep(p) ==
    \/ ProvisionAdopt(p)
    \/ ProvisionReconcile(p)
    \/ ProvisionStart(p)
    \/ \E result \in IamResults : IamCall(p, result)
    \/ LockAttempt(p)
    \/ \E answered \in BOOLEAN : RecoverQuery(p, answered)
    \/ ApplyOutcome(p)

Next ==
    \/ \E r \in Requests : Approve(r)
    \/ \E p \in Workers, r \in Requests : ProvisionLock(p, r) \/ RecoverLock(p, r)
    \/ \E p \in Workers : WorkerStep(p) \/ Abort(p)
    \/ \E p, q \in Workers, r \in Requests : BreakDeadlock(p, q, r)
    \/ Restart

Spec == Init /\ [][Next]_vars

-----------------------------------------------------------------------------
(* Steps the fairness of AccessFlow is about: IAM answers a recovery, and  *)
(* the answer is committed.                                                *)
RecoverAnswered(p) == RecoverQuery(p, TRUE)
AnswerCommitted(p) == ApplyOutcome(p) /\ worker[p].outcome # "unknown"

-----------------------------------------------------------------------------
(* A grant exists only for an approved request whose operation IAM really  *)
(* carried out, and an attempt is succeeded only together with its grant.  *)
GrantIsEarned ==
    \A r \in Requests :
        /\ r \in granted => r \in approved /\ effects[r] >= 1
        /\ attempt[r].status = "succeeded" => r \in granted

(* Every call was counted in a committed attempt before it went out, so a  *)
(* crash never hides one: the effects never exceed attempt_count.          *)
EffectsAreCounted ==
    \A r \in Requests :
        attempt[r].status # "none" =>
            /\ attempt[r].count >= 1
            /\ effects[r] + Cardinality(Calling(r)) <= attempt[r].count

(* The tickets' "at most one IAM side effect" under repeats, concurrency   *)
(* and recovery (docs/tickets/accesspilot-productized-agent-v1.2.md:180).  *)
AtMostOneEffect == \A r \in Requests : effects[r] <= 1

(* attempt_count never decreases, a grant is never withdrawn, and a        *)
(* finished attempt changes only by a late answer or a counted retry.      *)
NothingIsUndone ==
    [][\A r \in Requests :
          /\ r \in granted => r \in granted'
          /\ attempt'[r].count >= attempt[r].count
          /\ (attempt[r].status # "none" /\ attempt'[r].status = "in_progress"
                /\ attempt[r].status # "in_progress")
                => /\ attempt[r].status = "failed"
                   /\ attempt'[r].count = attempt[r].count + 1]_vars

(* The abstract promise.                                                   *)
Grant == INSTANCE AccessGrant WITH carried <- {r \in Requests : effects[r] >= 1}
ImplementsAccessGrant == Grant!Spec
=============================================================================
