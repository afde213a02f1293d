-------------------------- MODULE ProvisioningProofs --------------------------
(***************************************************************************)
(* Safety of Provisioning for any number of requests, workers and attempts *)
(* and whatever IAM answers or forgets.  The inductive invariant says what *)
(* the two row locks buy: while a worker holds the request row, what it    *)
(* read of attempt and grant stays true.                                   *)
(***************************************************************************)
EXTENDS Provisioning, FiniteSetTheorems, TLAPS

(* At most one worker holds a request row.                                 *)
OneHolder ==
    \A p, q \in Workers, r \in Requests :
        LocksRequest(p, r) /\ LocksRequest(q, r) => p = q

(* What a worker at its place in the code may rely on.                     *)
WorkerOK(p) ==
    ~At(p, "idle") =>
        /\ worker[p].req \in approved
        /\ At(p, "provisioning") =>
              /\ worker[p].root
              /\ worker[p].seen = attempt[worker[p].req].status
              /\ MustWrite(worker[p].req)
        /\ At(p, "recovering") => worker[p].root
        /\ ~At(p, "provisioning") => attempt[worker[p].req].status # "none"
        /\ At(p, "called") \/ At(p, "settling") =>
              /\ worker[p].outcome # "none"
              /\ worker[p].outcome = "succeeded" => effects[worker[p].req] >= 1

(* What holds of a request between any two commits.                        *)
RequestOK(r) ==
    /\ r \in granted => effects[r] >= 1
    /\ effects[r] >= 1 => r \in approved
    /\ attempt[r].status # "none" => r \in approved
    /\ iam[r] = "succeeded" => effects[r] >= 1
    /\ attempt[r].status = "succeeded" => r \in granted
    /\ attempt[r].status = "none" =>
          attempt[r].count = 0 /\ effects[r] = (IF r \in granted THEN 1 ELSE 0)

LocksHold ==
    /\ TypeOK
    /\ OneHolder
    /\ \A p \in Workers : WorkerOK(p)
    /\ \A r \in Requests : RequestOK(r)

-----------------------------------------------------------------------------
(* Types.  A busy worker has a record of WorkerState; only its pc changes  *)
(* in most steps.                                                          *)
LEMMA BusyWorker ==
    ASSUME TypeOK, NEW p \in Workers, ~At(p, "idle")
    PROVE  worker[p] \in WorkerState
BY DEF TypeOK, At, Idle

(* Each operation leaves records, calls and IAM's own state well typed.    *)
LEMMA NextTypeOK == TypeOK /\ [Next]_vars => TypeOK'
<1> SUFFICES ASSUME TypeOK, [Next]_vars PROVE TypeOK'
    OBVIOUS
<1> USE ProvisioningAssumption DEF TypeOK, ConstantsOK
<1>1. ASSUME NEW r \in Requests, Approve(r) PROVE TypeOK'
    BY <1>1 DEF Approve
<1>2. ASSUME NEW p \in Workers, NEW r \in Requests,
             ProvisionLock(p, r) \/ RecoverLock(p, r)
      PROVE  TypeOK'
    <2>1. attempt[r].status \in AttemptStatus /\ "none" \in AttemptStatus
        BY DEF AttemptStatus
    <2>2. CASE ProvisionLock(p, r)
        BY <2>1, <2>2 DEF ProvisionLock, WorkerState, Outcomes
    <2>3. CASE RecoverLock(p, r)
        BY <2>1, <2>3 DEF RecoverLock, WorkerState, Outcomes
    <2> QED
        BY <1>2, <2>2, <2>3
<1>3. ASSUME NEW p \in Workers, WorkerStep(p) PROVE TypeOK'
    <2>1. CASE ProvisionAdopt(p)
        <3>1. worker[p] \in WorkerState
            BY <2>1, BusyWorker DEF ProvisionAdopt, At
        <3> QED
            BY <2>1, <3>1 DEF ProvisionAdopt, WorkerState, AttemptStatus
    <2>2. CASE ProvisionReconcile(p)
        <3>1. worker[p] \in WorkerState
            BY <2>2, BusyWorker DEF ProvisionReconcile, At
        <3> QED
            BY <2>2, <3>1 DEF ProvisionReconcile, WorkerState, Outcomes
    <2>3. CASE ProvisionStart(p)
        <3>1. worker[p] \in WorkerState
            BY <2>3, BusyWorker DEF ProvisionStart, At
        <3>2. worker' \in [Workers -> WorkerState \cup {Idle}]
            BY <2>3, <3>1 DEF ProvisionStart, WorkerState, AttemptStatus
        <3>3. attempt' \in [Requests -> [status : AttemptStatus, count : Nat]]
            BY <2>3, <3>1 DEF ProvisionStart, WorkerState, AttemptStatus
        <3> QED
            BY <2>3, <3>2, <3>3 DEF ProvisionStart
    <2>4. ASSUME NEW result \in IamResults, IamCall(p, result) PROVE TypeOK'
        <3>1. worker[p] \in WorkerState
            BY <2>4, BusyWorker DEF IamCall, At
        <3>2. worker' \in [Workers -> WorkerState \cup {Idle}]
            BY <2>4, <3>1 DEF IamCall, WorkerState, Outcomes
        <3>3. iam' \in [Requests -> {"absent", "succeeded", "failed"}]
            BY <2>4, <3>1 DEF IamCall, WorkerState
        <3>4. effects' \in [Requests -> Nat]
            BY <2>4, <3>1 DEF IamCall, WorkerState
        <3> QED
            BY <2>4, <3>2, <3>3, <3>4 DEF IamCall
    <2>5. CASE LockAttempt(p)
        <3>1. worker[p] \in WorkerState
            BY <2>5, BusyWorker DEF LockAttempt, At
        <3> QED
            BY <2>5, <3>1 DEF LockAttempt, WorkerState
    <2>6. ASSUME NEW answered \in BOOLEAN, RecoverQuery(p, answered) PROVE TypeOK'
        <3>1. worker[p] \in WorkerState
            BY <2>6, BusyWorker DEF RecoverQuery, At
        <3> QED
            BY <2>6, <3>1 DEF RecoverQuery, WorkerState, Outcomes
    <2>7. CASE ApplyOutcome(p)
        <3>1. worker[p] \in WorkerState
            BY <2>7, BusyWorker DEF ApplyOutcome, At
        <3> QED
            BY <2>7, <3>1 DEF ApplyOutcome, WorkerState, Outcomes, AttemptStatus
    <2> QED
        BY <1>3, <2>1, <2>2, <2>3, <2>4, <2>5, <2>6, <2>7 DEF WorkerStep
<1>4. ASSUME NEW p \in Workers, Abort(p) PROVE TypeOK'
    BY <1>4 DEF Abort
<1>5. ASSUME NEW p \in Workers, NEW q \in Workers, NEW r \in Requests,
             BreakDeadlock(p, q, r)
      PROVE  TypeOK'
    BY <1>5 DEF BreakDeadlock
<1>6. CASE Restart
    BY <1>6 DEF Restart
<1>7. CASE UNCHANGED vars
    BY <1>7 DEF vars
<1> QED
    BY <1>1, <1>2, <1>3, <1>4, <1>5, <1>6, <1>7 DEF Next

(* Type correctness of provisioning.py's records and of every call.        *)
THEOREM TypeCorrect == Spec => []TypeOK
<1>1. Init => TypeOK
    BY DEF Init, TypeOK, AttemptStatus
<1> QED
    BY <1>1, NextTypeOK, PTL DEF Spec

-----------------------------------------------------------------------------
(* The initial state, with whatever grants v1.1 left behind.               *)
LEMMA InitLocksHold == Init => LocksHold
BY DEF Init, LocksHold, TypeOK, OneHolder, WorkerOK, RequestOK, LocksRequest,
       Busy, At, Idle, AttemptStatus

(* Every step keeps it.                                                    *)
LEMMA NextLocksHold == LocksHold /\ [Next]_vars => LocksHold'
<1> SUFFICES ASSUME LocksHold, [Next]_vars
             PROVE  /\ OneHolder'
                    /\ \A p \in Workers : WorkerOK(p)'
                    /\ \A r \in Requests : RequestOK(r)'
    BY NextTypeOK DEF LocksHold
<1> USE DEF LocksHold
<1>1. ASSUME NEW r \in Requests, Approve(r)
      PROVE  /\ OneHolder'
             /\ \A q \in Workers : WorkerOK(q)'
             /\ \A s \in Requests : RequestOK(s)'
    <2>1. OneHolder'
        BY <1>1 DEF Approve, OneHolder, LocksRequest, Busy, At
    <2>2. \A q \in Workers : WorkerOK(q)'
        BY <1>1 DEF Approve, At, WorkerOK, MustWrite
    <2>3. \A s \in Requests : RequestOK(s)'
        BY <1>1 DEF Approve, RequestOK
    <2> QED
        BY <2>1, <2>2, <2>3
<1>2. ASSUME NEW p \in Workers, NEW r \in Requests, ProvisionLock(p, r)
      PROVE  /\ OneHolder'
             /\ \A q \in Workers : WorkerOK(q)'
             /\ \A s \in Requests : RequestOK(s)'
    <2>1. OneHolder'
        BY <1>2 DEF ProvisionLock, OneHolder, LocksRequest, Busy, At, RequestFree
    <2>2. \A q \in Workers : WorkerOK(q)'
        BY <1>2 DEF ProvisionLock, At, WorkerOK, MustWrite
    <2>3. \A s \in Requests : RequestOK(s)'
        BY <1>2 DEF ProvisionLock, RequestOK
    <2> QED
        BY <2>1, <2>2, <2>3
<1>3. ASSUME NEW p \in Workers, NEW r \in Requests, RecoverLock(p, r)
      PROVE  /\ OneHolder'
             /\ \A q \in Workers : WorkerOK(q)'
             /\ \A s \in Requests : RequestOK(s)'
    <2>1. OneHolder'
        BY <1>3 DEF RecoverLock, OneHolder, LocksRequest, Busy, At, RequestFree
    <2>2. \A q \in Workers : WorkerOK(q)'
        BY <1>3 DEF RecoverLock, At, WorkerOK, MustWrite
    <2>3. \A s \in Requests : RequestOK(s)'
        BY <1>3 DEF RecoverLock, RequestOK
    <2> QED
        BY <2>1, <2>2, <2>3
<1>4. ASSUME NEW p \in Workers, ProvisionAdopt(p)
      PROVE  /\ OneHolder'
             /\ \A q \in Workers : WorkerOK(q)'
             /\ \A s \in Requests : RequestOK(s)'
    <2>0. worker[p] \in WorkerState
        BY <1>4, BusyWorker DEF ProvisionAdopt, At
    <2>1. OneHolder'
        BY <1>4, <2>0 DEF ProvisionAdopt, OneHolder, LocksRequest, Busy, At, Idle
    <2>2. \A q \in Workers : WorkerOK(q)'
        BY <1>4, <2>0
           DEF ProvisionAdopt, OneHolder, LocksRequest, Busy, At, WorkerOK,
               MustWrite, TypeOK, Idle
    <2>3. \A s \in Requests : RequestOK(s)'
        BY <1>4, <2>0 DEF ProvisionAdopt, RequestOK
    <2> QED
        BY <2>1, <2>2, <2>3
<1>5. ASSUME NEW p \in Workers, ProvisionReconcile(p)
      PROVE  /\ OneHolder'
             /\ \A q \in Workers : WorkerOK(q)'
             /\ \A s \in Requests : RequestOK(s)'
    <2>0. worker[p] \in WorkerState
        BY <1>5, BusyWorker DEF ProvisionReconcile, At
    <2>1. OneHolder'
        BY <1>5, <2>0
           DEF ProvisionReconcile, OneHolder, LocksRequest, Busy, At, TypeOK
    <2>2. \A q \in Workers : WorkerOK(q)'
        <3>1. effects[worker[p].req] >= 1 /\ attempt[worker[p].req].status # "none"
            BY <1>5, <2>0
               DEF ProvisionReconcile, WorkerOK, RequestOK, At, WorkerState
        <3>2. WorkerOK(p)'
            BY <1>5, <2>0, <3>1 DEF ProvisionReconcile, WorkerOK, At, TypeOK
        <3>3. ASSUME NEW q \in Workers \ {p} PROVE WorkerOK(q)'
            BY <1>5 DEF ProvisionReconcile, WorkerOK, MustWrite, At, TypeOK
        <3> QED
            BY <3>2, <3>3
    <2>3. \A s \in Requests : RequestOK(s)'
        BY <1>5, <2>0 DEF ProvisionReconcile, RequestOK
    <2> QED
        BY <2>1, <2>2, <2>3
<1>6. ASSUME NEW p \in Workers, ProvisionStart(p)
      PROVE  /\ OneHolder'
             /\ \A q \in Workers : WorkerOK(q)'
             /\ \A s \in Requests : RequestOK(s)'
    <2>0. worker[p] \in WorkerState
        BY <1>6, BusyWorker DEF ProvisionStart, At
    <2>1. OneHolder'
        BY <1>6, <2>0 DEF ProvisionStart, OneHolder, LocksRequest, Busy, At, TypeOK
    <2>2. \A q \in Workers : WorkerOK(q)'
        BY <1>6, <2>0 DEF ProvisionStart, At, WorkerOK, TypeOK, WorkerState
    <2>3. \A s \in Requests : RequestOK(s)'
        BY <1>6, <2>0 DEF ProvisionStart, WorkerOK, RequestOK, At, TypeOK
    <2> QED
        BY <2>1, <2>2, <2>3
<1>7. ASSUME NEW p \in Workers, NEW result \in IamResults, IamCall(p, result)
      PROVE  /\ OneHolder'
             /\ \A q \in Workers : WorkerOK(q)'
             /\ \A s \in Requests : RequestOK(s)'
    <2>0. worker[p] \in WorkerState
        BY <1>7, BusyWorker DEF IamCall, At
    <2>1. OneHolder'
        BY <1>7, <2>0 DEF IamCall, OneHolder, LocksRequest, Busy, At, TypeOK
    <2>2. \A q \in Workers : WorkerOK(q)'
        BY <1>7, <2>0 DEF IamCall, At, WorkerOK, MustWrite, TypeOK
    <2>3. \A s \in Requests : RequestOK(s)'
        BY <1>7, <2>0 DEF IamCall, WorkerOK, RequestOK, At, TypeOK
    <2> QED
        BY <2>1, <2>2, <2>3
<1>8. ASSUME NEW p \in Workers, LockAttempt(p)
      PROVE  /\ OneHolder'
             /\ \A q \in Workers : WorkerOK(q)'
             /\ \A s \in Requests : RequestOK(s)'
    <2>0. worker[p] \in WorkerState
        BY <1>8, BusyWorker DEF LockAttempt, At
    <2>1. OneHolder'
        BY <1>8, <2>0 DEF LockAttempt, OneHolder, LocksRequest, Busy, At
    <2>2. \A q \in Workers : WorkerOK(q)'
        BY <1>8, <2>0 DEF LockAttempt, At, WorkerOK, MustWrite
    <2>3. \A s \in Requests : RequestOK(s)'
        BY <1>8, <2>0 DEF LockAttempt, RequestOK
    <2> QED
        BY <2>1, <2>2, <2>3
<1>9. ASSUME NEW p \in Workers, NEW answered \in BOOLEAN, RecoverQuery(p, answered)
      PROVE  /\ OneHolder'
             /\ \A q \in Workers : WorkerOK(q)'
             /\ \A s \in Requests : RequestOK(s)'
    <2>0. worker[p] \in WorkerState
        BY <1>9, BusyWorker DEF RecoverQuery, At
    <2>1. OneHolder'
        BY <1>9, <2>0 DEF RecoverQuery, OneHolder, LocksRequest, Busy, At, TypeOK
    <2>2. \A q \in Workers : WorkerOK(q)'
        <3>1. iam[worker[p].req] = "succeeded" => effects[worker[p].req] >= 1
            BY <2>0 DEF RequestOK, WorkerState
        <3>2. WorkerOK(p)'
            BY <1>9, <2>0, <3>1 DEF RecoverQuery, WorkerOK, At, TypeOK
        <3>3. ASSUME NEW q \in Workers \ {p} PROVE WorkerOK(q)'
            BY <1>9 DEF RecoverQuery, WorkerOK, MustWrite, At, TypeOK
        <3> QED
            BY <3>2, <3>3
    <2>3. \A s \in Requests : RequestOK(s)'
        BY <1>9, <2>0 DEF RecoverQuery, RequestOK
    <2> QED
        BY <2>1, <2>2, <2>3
<1>10. ASSUME NEW p \in Workers, ApplyOutcome(p)
      PROVE  /\ OneHolder'
             /\ \A q \in Workers : WorkerOK(q)'
             /\ \A s \in Requests : RequestOK(s)'
    <2>0. worker[p] \in WorkerState
        BY <1>10, BusyWorker DEF ApplyOutcome, At
    <2>1. OneHolder'
        BY <1>10, <2>0 DEF ApplyOutcome, OneHolder, LocksRequest, Busy, At, Idle
    <2>2. \A q \in Workers : WorkerOK(q)'
        BY <1>10, <2>0
           DEF ApplyOutcome, LocksRequest, Busy, At, WorkerOK, MustWrite,
               RequestFree, Idle
    <2>3. \A s \in Requests : RequestOK(s)'
        BY <1>10, <2>0 DEF ApplyOutcome, WorkerOK, RequestOK, At
    <2> QED
        BY <2>1, <2>2, <2>3
<1>11. ASSUME NEW p \in Workers, worker' = [worker EXCEPT ![p] = Idle],
              UNCHANGED <<approved, attempt, granted, iam, effects>>
      PROVE  /\ OneHolder'
             /\ \A q \in Workers : WorkerOK(q)'
             /\ \A s \in Requests : RequestOK(s)'
    <2>1. OneHolder'
        BY <1>11 DEF Idle, OneHolder, LocksRequest, Busy, At
    <2>2. \A q \in Workers : WorkerOK(q)'
        BY <1>11 DEF Idle, At, WorkerOK, MustWrite
    <2>3. \A s \in Requests : RequestOK(s)'
        BY <1>11 DEF Idle, RequestOK
    <2> QED
        BY <2>1, <2>2, <2>3
<1>12. CASE Restart
    BY <1>12
       DEF Restart, OneHolder, LocksRequest, Busy, At, WorkerOK, RequestOK, Idle
<1>13. CASE UNCHANGED vars
    BY <1>13
       DEF vars, OneHolder, LocksRequest, Busy, At, WorkerOK, RequestOK,
           MustWrite
<1> QED
    BY <1>1, <1>2, <1>3, <1>4, <1>5, <1>6, <1>7, <1>8, <1>9, <1>10, <1>11, <1>12, <1>13
       DEF Next, WorkerStep, Abort, BreakDeadlock

(* The row locks do what provisioning.py takes them for: one holder per    *)
(* request, and what it read under the lock is what it writes over.        *)
THEOREM LocksHoldAlways == Spec => []LocksHold
BY InitLocksHold, NextLocksHold, PTL DEF Spec

-----------------------------------------------------------------------------
(* Nothing is granted that was not approved and carried out, whatever IAM  *)
(* answers and wherever workers, processes and transactions fail.          *)
THEOREM GrantsAreEarned == Spec => []GrantIsEarned
<1>1. LocksHold => GrantIsEarned
    BY DEF LocksHold, RequestOK, GrantIsEarned
<1> QED
    BY <1>1, LocksHoldAlways, PTL

(* What a step does to attempts and grants: only a provision call of the   *)
(* holder of the request row puts an attempt in progress.                  *)
LEMMA StepUndoesNothing ==
    LocksHold /\ [Next]_vars =>
        \A r \in Requests :
          /\ r \in granted => r \in granted'
          /\ attempt'[r].count >= attempt[r].count
          /\ (attempt[r].status # "none" /\ attempt'[r].status = "in_progress"
                /\ attempt[r].status # "in_progress")
                => /\ attempt[r].status = "failed"
                   /\ attempt'[r].count = attempt[r].count + 1
<1> SUFFICES ASSUME LocksHold, [Next]_vars, NEW r \in Requests
             PROVE  /\ r \in granted => r \in granted'
                    /\ attempt'[r].count >= attempt[r].count
                    /\ (attempt[r].status # "none" /\ attempt'[r].status = "in_progress"
                          /\ attempt[r].status # "in_progress")
                          => /\ attempt[r].status = "failed"
                             /\ attempt'[r].count = attempt[r].count + 1
    OBVIOUS
<1> USE DEF LocksHold
<1>0. attempt[r] \in [status : AttemptStatus, count : Nat]
    BY DEF TypeOK
<1>1. CASE UNCHANGED <<attempt, granted>>
    BY <1>0, <1>1
<1>2. ASSUME NEW p \in Workers, ProvisionAdopt(p)
      PROVE  /\ UNCHANGED granted
             /\ attempt'[r].count >= attempt[r].count
             /\ attempt'[r].status = "in_progress" => attempt[r].status = "in_progress"
    BY <1>0, <1>2 DEF ProvisionAdopt, WorkerOK, RequestOK, At, TypeOK
<1>3. ASSUME NEW p \in Workers, ProvisionStart(p)
      PROVE  /\ UNCHANGED granted
             /\ \/ attempt'[r] = attempt[r]
                \/ /\ attempt[r].status \in {"none", "failed"}
                   /\ attempt'[r].count = attempt[r].count + 1
    <2>1. worker[p] \in WorkerState
        BY <1>3, BusyWorker DEF ProvisionStart, At
    <2>2. attempt[worker[p].req].status \in {"none", "failed"}
        BY <1>3 DEF ProvisionStart, WorkerOK, MustWrite, At
    <2>3. UNCHANGED granted
          /\ attempt' = [attempt EXCEPT ![worker[p].req] =
                            [status |-> "in_progress", count |-> @.count + 1]]
        BY <1>3 DEF ProvisionStart
    <2>4. CASE r = worker[p].req
        <3>1. attempt'[r] = [status |-> "in_progress", count |-> attempt[r].count + 1]
            BY <2>3, <2>4 DEF TypeOK
        <3> QED
            BY <2>2, <2>3, <2>4, <3>1
    <2>5. CASE r # worker[p].req
        BY <2>3, <2>5 DEF TypeOK
    <2> QED
        BY <2>4, <2>5
<1>4. ASSUME NEW p \in Workers, ApplyOutcome(p)
      PROVE  /\ r \in granted => r \in granted'
             /\ attempt'[r].count = attempt[r].count
             /\ attempt'[r].status = "in_progress" => attempt[r].status = "in_progress"
    <2>1. worker[p] \in WorkerState
        BY <1>4, BusyWorker DEF ApplyOutcome, At
    <2> QED
        BY <1>0, <1>4, <2>1 DEF ApplyOutcome, WorkerState, Outcomes, TypeOK
<1>5. CASE \E p \in Workers : ProvisionAdopt(p)
    BY <1>0, <1>2, <1>5
<1>6. CASE \E p \in Workers : ProvisionStart(p)
    BY <1>0, <1>3, <1>6
<1>7. CASE \E p \in Workers : ApplyOutcome(p)
    BY <1>0, <1>4, <1>7
<1> QED
    BY <1>1, <1>5, <1>6, <1>7
       DEF Next, WorkerStep, Approve, ProvisionLock, RecoverLock, ProvisionReconcile,
           IamCall, LockAttempt, RecoverQuery, Abort, BreakDeadlock, Restart, vars

(* A grant is never withdrawn, attempt_count never falls, and an attempt   *)
(* is retried only after a refusal, never while it is in doubt.            *)
THEOREM NothingUndone == Spec => NothingIsUndone
<1>1. LocksHold /\ [Next]_vars => 
         [\A r \in Requests :
          /\ r \in granted => r \in granted'
          /\ attempt'[r].count >= attempt[r].count
          /\ (attempt[r].status # "none" /\ attempt'[r].status = "in_progress"
                /\ attempt[r].status # "in_progress")
                => /\ attempt[r].status = "failed"
                   /\ attempt'[r].count = attempt[r].count + 1]_vars
    BY StepUndoesNothing
<1> QED
    BY <1>1, LocksHoldAlways, PTL DEF Spec, NothingIsUndone

-----------------------------------------------------------------------------
(* Provisioning implements AccessGrant: an IAM call that is carried out is *)
(* CarryOut the first time, the commit of its answer is GrantAccess.       *)
LEMMA StepImplements == LocksHold /\ [Next]_vars => [Grant!Next]_(Grant!grantVars)
<1> SUFFICES ASSUME LocksHold, [Next]_vars
             PROVE  [Grant!Next]_(Grant!grantVars)
    OBVIOUS
<1> USE DEF LocksHold
<1>1. ASSUME NEW r \in Requests, Approve(r) PROVE Grant!Approve(r)
    BY <1>1 DEF Approve, Grant!Approve
<1>2. ASSUME NEW p \in Workers, NEW result \in IamResults, IamCall(p, result)
      PROVE  UNCHANGED Grant!grantVars \/ \E r \in Requests : Grant!CarryOut(r)
    <2>1. worker[p] \in WorkerState
        BY <1>2, BusyWorker DEF IamCall, At
    <2> DEFINE r == worker[p].req
    <2>2. r \in approved /\ r \in Requests
        BY <1>2, <2>1 DEF IamCall, WorkerOK, At, WorkerState
    <2>3. \A s \in Requests : effects[s] \in Nat
        BY DEF TypeOK
    <2>4. CASE result \in {"succeeded", "response_lost"}
        <3>1. effects' = [effects EXCEPT ![r] = effects[r] + 1]
            BY <1>2, <2>4 DEF IamCall
        <3>2. {s \in Requests : effects'[s] >= 1}
                = {s \in Requests : effects[s] >= 1} \cup {r}
            BY <2>2, <2>3, <3>1 DEF TypeOK
        <3> QED
            BY <1>2, <2>2, <3>2 DEF IamCall, Grant!grantVars, Grant!CarryOut
    <2>5. CASE result \notin {"succeeded", "response_lost"}
        <3>1. effects' = effects
            BY <1>2, <2>2, <2>5 DEF IamCall, TypeOK
        <3> QED
            BY <1>2, <3>1 DEF IamCall, Grant!grantVars
    <2> QED
        BY <2>4, <2>5
<1>3. ASSUME NEW p \in Workers, ApplyOutcome(p)
      PROVE  UNCHANGED Grant!grantVars \/ \E r \in Requests : Grant!GrantAccess(r)
    <2>1. worker[p] \in WorkerState
        BY <1>3, BusyWorker DEF ApplyOutcome, At
    <2>2. worker[p].req \in Requests
          /\ (worker[p].outcome = "succeeded" => effects[worker[p].req] >= 1)
        BY <1>3, <2>1 DEF ApplyOutcome, WorkerOK, At, WorkerState
    <2> QED
        BY <1>3, <2>2 DEF ApplyOutcome, Grant!grantVars, Grant!GrantAccess
<1>4. CASE UNCHANGED <<approved, effects, granted>>
    BY <1>4 DEF Grant!grantVars
<1> QED
    BY <1>1, <1>2, <1>3, <1>4
       DEF Next, WorkerStep, ProvisionLock, RecoverLock, ProvisionAdopt,
           ProvisionReconcile, ProvisionStart, LockAttempt, RecoverQuery,
           Abort, BreakDeadlock, Restart, vars, Grant!Next

(* The whole of provisioning.py keeps the abstract promise of AccessGrant. *)
THEOREM ProvisioningImplements == Spec => ImplementsAccessGrant
<1>1. Init => Grant!Init
    BY DEF Init, Grant!Init
<1> QED
    BY <1>1, StepImplements, LocksHoldAlways, PTL
       DEF Spec, ImplementsAccessGrant, Grant!Spec

-----------------------------------------------------------------------------
(* Counting calls.  Workers are finite, so the calls under way are.        *)
LEMMA CallingFinite ==
    ASSUME NEW r \in Requests
    PROVE  /\ IsFiniteSet(Calling(r)) /\ Cardinality(Calling(r)) \in Nat
           /\ IsFiniteSet(Calling(r)') /\ Cardinality(Calling(r)') \in Nat
           /\ Calling(r)' \subseteq Calling(r) =>
                 Cardinality(Calling(r)') <= Cardinality(Calling(r))
<1>1. Calling(r) \in SUBSET Workers /\ Calling(r)' \in SUBSET Workers
    BY DEF Calling
<1>2. IsFiniteSet(Calling(r)) /\ IsFiniteSet(Calling(r)')
    BY <1>1, FS_Subset, ProvisioningAssumption DEF ConstantsOK
<1> QED
    BY <1>2, FS_Subset, FS_CardinalityType

(* A step that starts no call and leaves attempt and effects alone.        *)
LEMMA StillCounted ==
    ASSUME TypeOK, EffectsAreCounted, NEW r \in Requests,
           Calling(r)' \subseteq Calling(r),
           UNCHANGED <<effects, attempt>>
    PROVE  attempt'[r].status # "none" =>
              /\ attempt'[r].count >= 1
              /\ effects'[r] + Cardinality(Calling(r)') <= attempt'[r].count
<1>1. effects[r] \in Nat /\ attempt[r].count \in Nat
    BY DEF TypeOK
<1> QED
    BY <1>1, CallingFinite DEF EffectsAreCounted

(* A call is paid for before it is made: attempt_count is committed first, *)
(* and only the call itself can turn a call under way into an effect.      *)
LEMMA NextCounted == LocksHold /\ EffectsAreCounted /\ [Next]_vars => EffectsAreCounted'
<1> SUFFICES ASSUME LocksHold, EffectsAreCounted, [Next]_vars, NEW r \in Requests
             PROVE  attempt'[r].status # "none" =>
                       /\ attempt'[r].count >= 1
                       /\ effects'[r] + Cardinality(Calling(r)') <= attempt'[r].count
    BY DEF EffectsAreCounted
<1> DEFINE Counted == attempt'[r].status # "none" =>
                         /\ attempt'[r].count >= 1
                         /\ effects'[r] + Cardinality(Calling(r)') <= attempt'[r].count
<1>0. /\ TypeOK
      /\ attempt[r] \in [status : AttemptStatus, count : Nat] /\ effects[r] \in Nat
      /\ attempt[r].status # "none" =>
            /\ attempt[r].count >= 1
            /\ effects[r] + Cardinality(Calling(r)) <= attempt[r].count
    BY DEF LocksHold, TypeOK, EffectsAreCounted
<1>1. attempt[r].status = "none" =>
         /\ Calling(r) = {}
         /\ attempt[r].count = 0
         /\ effects[r] = (IF r \in granted THEN 1 ELSE 0)
    BY DEF LocksHold, WorkerOK, RequestOK, Calling, Busy, At
<1>2. ASSUME NEW p \in Workers, ProvisionAdopt(p) PROVE Counted
    <2>1. Calling(r)' \subseteq Calling(r)
        BY <1>0, <1>2 DEF ProvisionAdopt, Calling, Busy, At, Idle, TypeOK
    <2>2. CASE r = worker[p].req
        <3>1. attempt[r].status = "none" /\ r \in granted
            BY <1>2, <2>2 DEF LocksHold, ProvisionAdopt, WorkerOK, At
        <3>2. attempt'[r].count = 1 /\ effects'[r] = 1
            BY <1>0, <1>1, <1>2, <2>2, <3>1 DEF ProvisionAdopt, TypeOK
        <3>3. Cardinality(Calling(r)') = 0
            BY <1>1, <2>1, <3>1, FS_EmptySet
        <3> QED
            BY <3>2, <3>3
    <2>3. CASE r # worker[p].req
        <3>1. attempt'[r] = attempt[r] /\ effects'[r] = effects[r]
            BY <1>0, <1>2, <2>3 DEF ProvisionAdopt, TypeOK
        <3> QED
            BY <1>0, <2>1, <3>1, CallingFinite
    <2> QED
        BY <2>2, <2>3
<1>3. ASSUME NEW p \in Workers, ProvisionStart(p) PROVE Counted
    <2>1. worker[p] \in WorkerState
        BY <1>0, <1>3, BusyWorker DEF ProvisionStart, At
    <2>2. CASE r = worker[p].req
        <3>1. Calling(r)' = Calling(r) \cup {p} /\ p \notin Calling(r)
            BY <1>0, <1>3, <2>1, <2>2
               DEF ProvisionStart, Calling, Busy, At, TypeOK, WorkerState
        <3>2. Cardinality(Calling(r)') = Cardinality(Calling(r)) + 1
            BY <3>1, CallingFinite, FS_AddElement
        <3>3. attempt'[r].count = attempt[r].count + 1 /\ effects'[r] = effects[r]
            BY <1>0, <1>3, <2>2 DEF ProvisionStart, TypeOK
        <3>4. effects[r] + Cardinality(Calling(r)) <= attempt[r].count
            <4>1. CASE attempt[r].status = "none"
                <5>1. r \notin granted
                    BY <1>3, <2>2 DEF ProvisionStart
                <5> QED
                    BY <1>1, <4>1, <5>1, FS_EmptySet
            <4> QED
                BY <1>0, <4>1
        <3> QED
            BY <1>0, <3>2, <3>3, <3>4, CallingFinite
    <2>3. CASE r # worker[p].req
        <3>1. attempt'[r] = attempt[r] /\ effects'[r] = effects[r]
            BY <1>0, <1>3, <2>3 DEF ProvisionStart, TypeOK
        <3>2. Calling(r)' \subseteq Calling(r)
            BY <1>0, <1>3, <2>1, <2>3
               DEF ProvisionStart, Calling, Busy, At, TypeOK, WorkerState
        <3> QED
            BY <1>0, <3>1, <3>2, CallingFinite
    <2> QED
        BY <2>2, <2>3
<1>4. ASSUME NEW p \in Workers, NEW result \in IamResults, IamCall(p, result)
      PROVE  Counted
    <2>1. worker[p] \in WorkerState
        BY <1>0, <1>4, BusyWorker DEF IamCall, At
    <2>2. UNCHANGED attempt
        BY <1>4 DEF IamCall
    <2>3. CASE r = worker[p].req
        <3>1. Calling(r)' = Calling(r) \ {p} /\ p \in Calling(r)
            BY <1>0, <1>4, <2>1, <2>3
               DEF IamCall, Calling, Busy, At, TypeOK, WorkerState
        <3>2. Cardinality(Calling(r)') = Cardinality(Calling(r)) - 1
            BY <3>1, CallingFinite, FS_RemoveElement
        <3>3. effects'[r] \in {effects[r], effects[r] + 1}
            BY <1>0, <1>4, <2>3 DEF IamCall, TypeOK
        <3> QED
            BY <1>0, <2>2, <3>2, <3>3, CallingFinite
    <2>4. CASE r # worker[p].req
        <3>1. effects'[r] = effects[r]
            BY <1>0, <1>4, <2>4 DEF IamCall, TypeOK
        <3>2. Calling(r)' \subseteq Calling(r)
            BY <1>0, <1>4, <2>1, <2>4
               DEF IamCall, Calling, Busy, At, TypeOK, WorkerState
        <3> QED
            BY <1>0, <2>2, <3>1, <3>2, CallingFinite
    <2> QED
        BY <2>3, <2>4
<1>5. ASSUME NEW p \in Workers, ApplyOutcome(p) PROVE Counted
    <2>1. Calling(r)' \subseteq Calling(r)
        BY <1>0, <1>5 DEF ApplyOutcome, Calling, Busy, At, Idle, TypeOK
    <2>2. UNCHANGED effects /\ attempt'[r].count = attempt[r].count
        BY <1>0, <1>5 DEF ApplyOutcome, TypeOK
    <2>3. attempt'[r].status # "none" => attempt[r].status # "none"
        BY <1>0, <1>5 DEF LocksHold, WorkerOK, ApplyOutcome, At, TypeOK
    <2> QED
        BY <1>0, <2>1, <2>2, <2>3, CallingFinite
<1>6. ASSUME UNCHANGED <<effects, attempt>>, Calling(r)' \subseteq Calling(r)
      PROVE  Counted
    BY <1>0, <1>6, StillCounted
<1>7. ASSUME NEW p \in Workers, UNCHANGED <<effects, attempt>>,
             worker'[p].pc # "calling",
             worker' = [worker EXCEPT ![p] = worker'[p]]
      PROVE  Counted
    <2>1. Calling(r)' \subseteq Calling(r)
        BY <1>0, <1>7 DEF Calling, Busy, At, TypeOK
    <2> QED
        BY <1>6, <1>7, <2>1
<1>8. CASE Restart
    <2>1. Calling(r)' \subseteq Calling(r)
        BY <1>8 DEF Restart, Calling, At, Idle
    <2> QED
        BY <1>6, <1>8, <2>1 DEF Restart
<1>9. CASE UNCHANGED vars \/ \E s \in Requests : Approve(s)
    BY <1>6, <1>9 DEF vars, Approve, Calling, Busy, At
<1>10. ASSUME NEW p \in Workers,
              NEW s \in Requests, ProvisionLock(p, s) \/ RecoverLock(p, s)
       PROVE  Counted
    <2>1. worker'[p].pc # "calling" /\ worker' = [worker EXCEPT ![p] = worker'[p]]
        BY <1>0, <1>10 DEF ProvisionLock, RecoverLock, TypeOK
    <2> QED
        BY <1>7, <1>10, <2>1 DEF ProvisionLock, RecoverLock
<1>11. ASSUME NEW p \in Workers,
              \/ ProvisionReconcile(p) \/ LockAttempt(p)
              \/ \E answered \in BOOLEAN : RecoverQuery(p, answered)
       PROVE  Counted
    <2>1. worker[p] \in WorkerState
        BY <1>0, <1>11, BusyWorker
           DEF ProvisionReconcile, LockAttempt, RecoverQuery, At
    <2>2. worker'[p].pc # "calling" /\ worker' = [worker EXCEPT ![p] = worker'[p]]
        BY <1>0, <1>11, <2>1
           DEF ProvisionReconcile, LockAttempt, RecoverQuery, TypeOK, WorkerState
    <2> QED
        BY <1>7, <1>11, <2>2 DEF ProvisionReconcile, LockAttempt, RecoverQuery
<1>12. ASSUME NEW p \in Workers,
              Abort(p) \/ \E q \in Workers, s \in Requests : BreakDeadlock(p, q, s)
       PROVE  Counted
    <2>1. worker'[p].pc # "calling" /\ worker' = [worker EXCEPT ![p] = worker'[p]]
        BY <1>0, <1>12 DEF Abort, BreakDeadlock, Idle, TypeOK
    <2> QED
        BY <1>7, <1>12, <2>1 DEF Abort, BreakDeadlock
<1> QED
    BY <1>2, <1>3, <1>4, <1>5, <1>8, <1>9, <1>10, <1>11, <1>12
       DEF Next, WorkerStep

(* No call to IAM escapes the books: its effects, with the calls that may  *)
(* still take effect, never exceed the committed attempt_count.            *)
THEOREM EveryEffectCounted == Spec => []EffectsAreCounted
<1>1. Init => EffectsAreCounted
    BY DEF Init, EffectsAreCounted
<1> QED
    BY <1>1, NextCounted, LocksHoldAlways, PTL DEF Spec

-----------------------------------------------------------------------------
(* Without refusals nothing is ever provisioned twice: "failed" is the only*)
(* status from which an attempt is retried, and no other answer leads to   *)
(* it.                                                                     *)
NeverRefused ==
    /\ \A r \in Requests :
          /\ iam[r] # "failed"
          /\ attempt[r].status # "failed"
          /\ attempt[r].count <= 1
    /\ \A p \in Workers : ~At(p, "idle") => worker[p].outcome # "failed"

(* Every operation of an IAM that never refuses keeps it so.               *)
LEMMA NextNeverRefused ==
    ASSUME "failed" \notin IamResults
    PROVE  LocksHold /\ NeverRefused /\ [Next]_vars => NeverRefused'
<1> SUFFICES ASSUME LocksHold, NeverRefused, [Next]_vars PROVE NeverRefused'
    OBVIOUS
<1>0. TypeOK
    BY DEF LocksHold
<1> DEFINE Calm(p) == ~At(p, "idle") => worker[p].outcome # "failed"
<1>2. ASSUME NEW p \in Workers, ~At(p, "idle")
      PROVE  worker[p].req \in Requests /\ worker[p] \in WorkerState
    BY <1>0, <1>2, BusyWorker DEF WorkerState
<1>3. ASSUME NEW p \in Workers, ProvisionAdopt(p) PROVE NeverRefused'
    <2>1. \A q \in Workers : Calm(q)'
        BY <1>0, <1>3 DEF ProvisionAdopt, NeverRefused, At, Idle, TypeOK
    <2> QED
        BY <1>0, <1>3, <2>1 DEF ProvisionAdopt, NeverRefused, TypeOK
<1>4. ASSUME NEW p \in Workers, ProvisionStart(p) PROVE NeverRefused'
    <2>1. worker[p] \in WorkerState
        BY <1>2, <1>4 DEF ProvisionStart, At
    <2>2. attempt[worker[p].req].count = 0
        BY <1>4, <2>1
           DEF LocksHold, NeverRefused, ProvisionStart, WorkerOK, RequestOK,
               MustWrite, At, WorkerState
    <2>3. \A q \in Workers : Calm(q)'
        BY <1>0, <1>4, <2>1
           DEF ProvisionStart, NeverRefused, At, TypeOK, WorkerState
    <2> QED
        BY <1>0, <1>4, <2>2, <2>3 DEF ProvisionStart, NeverRefused, TypeOK
<1>5. ASSUME NEW p \in Workers, NEW result \in IamResults, IamCall(p, result)
      PROVE  NeverRefused'
    <2>1. worker[p] \in WorkerState
        BY <1>2, <1>5 DEF IamCall, At
    <2>2. result # "failed"
        OBVIOUS
    <2>3. \A q \in Workers : Calm(q)'
        BY <1>0, <1>5, <2>1, <2>2 DEF IamCall, NeverRefused, At, TypeOK, WorkerState
    <2>4. \A r \in Requests : iam'[r] # "failed"
        BY <1>0, <1>5, <2>2 DEF IamCall, NeverRefused, TypeOK
    <2> QED
        BY <1>5, <2>3, <2>4 DEF IamCall, NeverRefused
<1>6. ASSUME NEW p \in Workers, NEW answered \in BOOLEAN, RecoverQuery(p, answered)
      PROVE  NeverRefused'
    <2>1. worker[p] \in WorkerState
        BY <1>2, <1>6 DEF RecoverQuery, At
    <2>2. iam[worker[p].req] # "failed"
        BY <2>1 DEF NeverRefused, WorkerState
    <2>3. \A q \in Workers : Calm(q)'
        BY <1>0, <1>6, <2>1, <2>2
           DEF RecoverQuery, NeverRefused, At, TypeOK, WorkerState
    <2> QED
        BY <1>6, <2>3 DEF RecoverQuery, NeverRefused
<1>7. ASSUME NEW p \in Workers, ApplyOutcome(p) PROVE NeverRefused'
    <2>1. worker[p].outcome # "failed"
        BY <1>7 DEF NeverRefused, ApplyOutcome, At
    <2>2. \A q \in Workers : Calm(q)'
        BY <1>0, <1>7 DEF ApplyOutcome, NeverRefused, At, Idle, TypeOK
    <2> QED
        BY <1>0, <1>7, <2>1, <2>2 DEF ApplyOutcome, NeverRefused, TypeOK
<1>8. ASSUME NEW p \in Workers, NEW r \in Requests,
             ProvisionLock(p, r) \/ RecoverLock(p, r)
      PROVE  NeverRefused'
    <2>1. \A q \in Workers : Calm(q)'
        BY <1>0, <1>8 DEF ProvisionLock, RecoverLock, NeverRefused, At, TypeOK
    <2> QED
        BY <1>8, <2>1 DEF ProvisionLock, RecoverLock, NeverRefused
<1>9. ASSUME NEW p \in Workers, ProvisionReconcile(p) \/ LockAttempt(p)
      PROVE  NeverRefused'
    <2>1. worker[p] \in WorkerState
        BY <1>2, <1>9 DEF ProvisionReconcile, LockAttempt, At
    <2>2. \A q \in Workers : Calm(q)'
        BY <1>0, <1>9, <2>1
           DEF ProvisionReconcile, LockAttempt, NeverRefused, At, TypeOK, WorkerState
    <2> QED
        BY <1>9, <2>2 DEF ProvisionReconcile, LockAttempt, NeverRefused
<1>10. ASSUME NEW p \in Workers,
              Abort(p) \/ \E q \in Workers, r \in Requests : BreakDeadlock(p, q, r)
       PROVE  NeverRefused'
    <2>1. \A q \in Workers : Calm(q)'
        BY <1>0, <1>10 DEF Abort, BreakDeadlock, NeverRefused, At, Idle, TypeOK
    <2> QED
        BY <1>10, <2>1 DEF Abort, BreakDeadlock, NeverRefused
<1>11. CASE Restart
    BY <1>0, <1>11 DEF Restart, NeverRefused, At, Idle
<1>12. CASE UNCHANGED vars \/ \E r \in Requests : Approve(r)
    BY <1>12 DEF vars, Approve, NeverRefused, At
<1> QED
    BY <1>3, <1>4, <1>5, <1>6, <1>7, <1>8, <1>9, <1>10, <1>11, <1>12
       DEF Next, WorkerStep

(* The ticket's "at most one side effect", under the one condition that it *)
(* needs: IAM never refuses.  Repeats, races, lost answers, crashes and a  *)
(* forgetful IAM do no harm.                                               *)
THEOREM AtMostOnce ==
    ASSUME "failed" \notin IamResults
    PROVE  Spec => []AtMostOneEffect
<1>1. Init => NeverRefused
    BY DEF Init, NeverRefused, At, Idle
<1>2. LocksHold /\ NeverRefused /\ EffectsAreCounted => AtMostOneEffect
    <2> SUFFICES ASSUME LocksHold, NeverRefused, EffectsAreCounted,
                        NEW r \in Requests
                 PROVE  effects[r] <= 1
        BY DEF AtMostOneEffect
    <2>1. effects[r] \in Nat /\ attempt[r].count \in Nat
        BY DEF LocksHold, TypeOK
    <2> QED
        BY <2>1, CallingFinite
           DEF LocksHold, RequestOK, NeverRefused, EffectsAreCounted
<1> QED
    BY <1>1, <1>2, NextNeverRefused, LocksHoldAlways, EveryEffectCounted, PTL
       DEF Spec
===============================================================================
