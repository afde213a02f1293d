---------------------------- MODULE TurnExecution -----------------------------
(***************************************************************************)
(* One Workspace's conversation turns: TurnExecutionService                *)
(* (agent/turn_execution.py), driven by LangGraphConversationOrchestrator  *)
(* (agent/json_orchestrator.py) through FencedGraphTurnRunner, with the    *)
(* application writes of a graph run (agent/step_operations.py) and the    *)
(* fenced checkpoint head (agent/checkpoint.py).                           *)
(*                                                                         *)
(* A worker is one HTTP call in some application process.  Each method of  *)
(* the two services is one transaction over locked rows, hence one step.   *)
(* Between them anything may happen: the lease expires, the process dies,  *)
(* the connection that holds the advisory lock drops while the graph runs  *)
(* on, the user edits the draft in the form (preview_draft takes no lease) *)
(* or logs out.                                                            *)
(*                                                                         *)
(* A login creates its own Workspace, so there is one AuthSession here,    *)
(* and one graph run and checkpoint thread.  A checkpoint is named by the  *)
(* fence of the graph invocation that saved it.  Expiry is a flag: it may  *)
(* be raised at any time while the row is running, heartbeat or not.       *)
(* Not modelled: message texts, the trace, and the save by which a read of *)
(* the Workspace drops a consumed Cursor: it writes the whole row back and *)
(* may lower draft_revision (WorkspaceDraft).  What is said here of a      *)
(* revision that only grows is said in its absence.  The Cursor, the       *)
(* retirement of a pending input and the legacy engine are in              *)
(* EngineRollback.                                                         *)
(***************************************************************************)
EXTENDS Naturals, Sequences, FiniteSets

CONSTANTS Workers, NoWorker,
          QuotaLimit,  \* model_call_limit of the Workspace
          MaxFence,    \* bound on lease_fence: on inputs, failures and what they meet
          MaxRevision  \* bound on edits of the draft form

ASSUME TurnExecutionAssumption ==
    /\ NoWorker \notin Workers
    /\ QuotaLimit \in Nat /\ MaxFence \in Nat /\ MaxRevision \in Nat

VARIABLES session,  \* the AuthSession is neither revoked nor expired
          fence,    \* WorkspaceRecord.lease_fence
          exec,     \* AgentTurnExecutionRecords, by input_seq + 1
          pending,  \* AgentPendingInputRecords, in order of creation
          draft,    \* revision and confirmed flag of the Workspace's draft
          ledger,   \* AgentStepExecutionRecords: operation -> committed revision
          quota,    \* model_calls_used
          saved,    \* checkpoints in the saver: id -> parent id
          lock,     \* who holds the thread's advisory lock
          worker

rows == <<fence, exec, pending>>
effects == <<draft, ledger, quota>>
vars == <<session, rows, effects, saved, lock, worker>>

NoHead == 0
NoInput == 0
Texts == {"confirm", "other"}
Outcomes == {"end", "error", "interrupt"}
GraphPC == {"hydrating", "routing", "parsing", "retrying", "persisting", "confirming",
            "stopping"}

\* the stable operation identities of identity.py: the two or three model
\* calls of an input, its draft write, and the confirmation of a pending input
Quota(s, k) == <<"quota", s, k>>
Persist(s) == <<"persist", s, 1>>
Confirm(n) == <<"confirm", n, 1>>
Done(op) == op \in DOMAIN ledger
Record(op, revision) ==
    ledger' = [o \in DOMAIN ledger \cup {op} |-> IF o = op THEN revision ELSE ledger[o]]

Idle == [pc |-> "idle"]
ExecStatus == {"running", "waiting_input", "completed", "recoverable_error", "interrupted"}
Exec == [status : ExecStatus, fence : Nat, live : BOOLEAN, head : Nat, text : Texts,
         terminals : Nat]  \* terminal WorkspaceEvents with its turn_id
PendingStatus == {"active", "resuming", "resolved", "abandoned_to_legacy",
                  "abandoned_conflict"}
Pending == [status : PendingStatus, revision : Nat, head : Nat, resumeSeq : Nat]
Busy == [pc : GraphPC \cup {"admitted", "stopped", "parked"}, seq : Nat, fence : Nat,
         resumed : Nat,  \* the pending input this turn answers, or NoInput
         head : Nat,     \* the accepted head the graph started from
         base : Nat,     \* the draft revision it read, or asks about
         outcome : Outcomes]

TypeOK ==
    /\ session \in BOOLEAN
    /\ fence \in Nat
    /\ exec \in Seq(Exec)
    /\ pending \in Seq(Pending)
    /\ draft \in [revision : Nat, confirmed : BOOLEAN]
    /\ DOMAIN ledger \subseteq {"quota", "persist", "confirm"} \X Nat \X (1..3)
    /\ \A op \in DOMAIN ledger : ledger[op] \in Nat
    /\ quota \in 0..QuotaLimit
    /\ \A id \in DOMAIN saved : id \in 1..fence /\ saved[id] \in Nat
    /\ lock \in Workers \cup {NoWorker}
    /\ worker \in [Workers -> Busy \cup {Idle}]

Init ==
    /\ session = TRUE
    /\ fence = 0
    /\ exec = <<>>
    /\ pending = <<>>
    /\ draft = [revision |-> 0, confirmed |-> FALSE]
    /\ ledger = [op \in {} |-> 0]
    /\ quota = 0
    /\ saved = [id \in {} |-> NoHead]
    /\ lock = NoWorker
    /\ worker = [p \in Workers |-> Idle]

At(p, pc) == worker[p].pc = pc
Running(s) == exec[s].status = "running"
Live(n) == pending[n].status \in {"active", "resuming"}
LockFor(p) == lock \in {p, NoWorker}

(* _lock_execution and the first half of every finalizer: the row is       *)
(* running under this fence, its lease has not expired, and the Workspace  *)
(* still carries the same fence.                                           *)
Fenced(p) ==
    LET e == exec[worker[p].seq]
    IN  /\ e.status = "running" /\ e.live
        /\ e.fence = worker[p].fence /\ fence = worker[p].fence

Admit(p, s, f, n) ==
    worker' = [worker EXCEPT ![p] =
                  [pc |-> "admitted", seq |-> s, fence |-> f, resumed |-> n,
                   head |-> NoHead, base |-> 0, outcome |-> "error"]]

Release(p) == lock' = IF lock = p THEN NoWorker ELSE lock

-----------------------------------------------------------------------------
(* Admission of an input.  The lock-free look at running and pending rows  *)
(* that chooses among the three is repeated inside each transaction.       *)

\* Mutant: an open question does not stop a new input.
BeginInputAnyway(p) ==
    /\ At(p, "idle") /\ session /\ fence < MaxFence
    /\ \A s \in DOMAIN exec : ~Running(s)
    /\ fence' = fence + 1
    /\ exec' = Append(exec, [status |-> "running", fence |-> fence + 1, live |-> TRUE,
                             head |-> NoHead, text |-> "other", terminals |-> 0])
    /\ Admit(p, Len(exec) + 1, fence + 1, NoInput)
    /\ UNCHANGED <<session, pending, effects, saved, lock>>

BeginInput(p) ==
    /\ At(p, "idle") /\ session /\ fence < MaxFence
    /\ \A s \in DOMAIN exec : ~Running(s)
    /\ \A n \in DOMAIN pending : ~Live(n)
    /\ fence' = fence + 1
    /\ exec' = Append(exec, [status |-> "running", fence |-> fence + 1, live |-> TRUE,
                             head |-> NoHead, text |-> "other", terminals |-> 0])
    /\ Admit(p, Len(exec) + 1, fence + 1, NoInput)
    /\ UNCHANGED <<session, pending, effects, saved, lock>>

\* Mutant: it resumes whatever pending input it finds.
BeginResumeAny(p, n, text) ==
    /\ At(p, "idle") /\ session /\ LockFor(p) /\ fence < MaxFence
    /\ \A s \in DOMAIN exec : ~Running(s)
    /\ pending[n].head \in DOMAIN saved
    /\ fence' = fence + 1
    /\ exec' = Append(exec, [status |-> "running", fence |-> fence + 1, live |-> TRUE,
                             head |-> pending[n].head, text |-> text, terminals |-> 0])
    /\ pending' = [pending EXCEPT ![n].status = "resuming",
                                  ![n].resumeSeq = Len(exec) + 1]
    /\ Admit(p, Len(exec) + 1, fence + 1, n)
    /\ lock' \in {p, NoWorker}
    /\ UNCHANGED <<session, effects, saved>>

(* The pending's head must be in the saver.  _preflight_resume_quota       *)
(* refuses a change of the request when no quota is left; a question goes  *)
(* on to the graph, which may need the model all the same.                 *)
BeginResume(p, n, text) ==
    /\ At(p, "idle") /\ session /\ LockFor(p) /\ fence < MaxFence
    /\ \A s \in DOMAIN exec : ~Running(s)
    /\ pending[n].status = "active"
    /\ pending[n].head \in DOMAIN saved
    /\ fence' = fence + 1
    /\ exec' = Append(exec, [status |-> "running", fence |-> fence + 1, live |-> TRUE,
                             head |-> pending[n].head, text |-> text, terminals |-> 0])
    /\ pending' = [pending EXCEPT ![n].status = "resuming",
                                  ![n].resumeSeq = Len(exec) + 1]
    /\ Admit(p, Len(exec) + 1, fence + 1, n)
    /\ lock' \in {p, NoWorker}  \* JSON keeps the lock, SSE takes it again later
    /\ UNCHANGED <<session, effects, saved>>

(* takeover: an expired lease and the advisory lock.  Recovery goes on     *)
(* from the execution's own head, else from that of the latest turn that   *)
(* has one, else from the latest question's; a head that a retired pending *)
(* input refers to is none of them.                                        *)
Retired(n) == pending[n].status \in {"abandoned_to_legacy", "abandoned_conflict"}
Tombstoned == {pending[n].head : n \in {m \in DOMAIN pending : Retired(m)}}
Heads == {t \in DOMAIN exec : exec[t].head \notin {NoHead} \cup Tombstoned}
Fallback == {n \in DOMAIN pending : ~Retired(n)}
Latest(places) == CHOOSE i \in places : \A j \in places : j <= i

\* Mutant: recovery continues from the newest checkpoint in the saver.
NewestCheckpoint(s) ==
    IF DOMAIN saved = {} THEN NoHead
    ELSE CHOOSE id \in DOMAIN saved : \A other \in DOMAIN saved : other <= id

\* Mutant: the heads of retired pending inputs are not left out.
TombstonedHead(s) ==
    LET history == {t \in DOMAIN exec : exec[t].head # NoHead}
    IN  IF exec[s].head # NoHead THEN exec[s].head
        ELSE IF history = {} THEN NoHead
        ELSE exec[Latest(history)].head

RecoveryHead(s) ==
    IF exec[s].head \notin {NoHead} \cup Tombstoned THEN exec[s].head
    ELSE IF Heads # {} THEN exec[Latest(Heads)].head
    ELSE IF Fallback # {} THEN pending[Latest(Fallback)].head
    ELSE NoHead

(* It is written to the row only where there was none.                     *)
Recovered(s) == IF exec[s].head = NoHead THEN RecoveryHead(s) ELSE exec[s].head

ResumedBy(s) ==
    LET ns == {n \in DOMAIN pending : Live(n) /\ pending[n].resumeSeq = s}
    IN  IF ns = {} THEN NoInput ELSE CHOOSE n \in ns : TRUE

\* Mutant: only an execution with a checkpoint can be taken over.
TakeoverWithHead(p, s) ==
    /\ At(p, "idle") /\ session /\ LockFor(p)
    /\ Running(s) /\ ~exec[s].live
    /\ RecoveryHead(s) \in DOMAIN saved
    /\ fence' = fence + 1
    /\ exec' = [exec EXCEPT ![s].fence = fence + 1, ![s].live = TRUE,
                            ![s].head = Recovered(s)]
    /\ Admit(p, s, fence + 1, ResumedBy(s))
    /\ lock' \in {p, NoWorker}
    /\ UNCHANGED <<session, pending, effects, saved>>

Takeover(p, s) ==
    /\ At(p, "idle") /\ session /\ LockFor(p)
    /\ Running(s) /\ ~exec[s].live
    /\ RecoveryHead(s) \in DOMAIN saved \cup {NoHead}
    /\ fence' = fence + 1
    /\ exec' = [exec EXCEPT ![s].fence = fence + 1, ![s].live = TRUE,
                            ![s].head = Recovered(s)]
    /\ Admit(p, s, fence + 1, ResumedBy(s))
    /\ lock' \in {p, NoWorker}
    /\ UNCHANGED <<session, pending, effects, saved>>

-----------------------------------------------------------------------------
(* The graph.  FencedGraphTurnRunner.run: lock, heartbeat CAS, invoke; the *)
(* first checkpoint is saved on top of the accepted head of the row.       *)
StartGraph(p) ==
    /\ At(p, "admitted") /\ LockFor(p) /\ Fenced(p)
    /\ lock' = p
    /\ saved' = [id \in DOMAIN saved \cup {fence} |->
                    IF id = fence THEN exec[worker[p].seq].head ELSE saved[id]]
    /\ worker' = [worker EXCEPT ![p].pc = "hydrating",
                                ![p].head = exec[worker[p].seq].head]
    /\ UNCHANGED <<session, rows, effects>>

Goto(p, pc) == worker' = [worker EXCEPT ![p].pc = pc, ![p].base = draft.revision]
Stop(p, outcome) ==
    worker' = [worker EXCEPT ![p].pc = "stopping", ![p].outcome = outcome, ![p].base = 0]

(* The snapshot of a new input.                                            *)
HydrateInput(p) ==
    /\ At(p, "hydrating") /\ worker[p].resumed = NoInput
    /\ Goto(p, "routing")
    /\ UNCHANGED <<session, rows, effects, saved, lock>>

\* Mutant: the revision is not compared.
StillOpen(p, n, text) == session /\ Live(n) /\ (text = "confirm" => Fenced(p))

(* rehydrate_resume_snapshot: the pending input must still be the one that *)
(* was asked, about the draft as it is now.                                *)
StillAsked(p, n, text) ==
    /\ session /\ Live(n)
    /\ text = "confirm" => Fenced(p)
    /\ IF text = "confirm" /\ Done(Confirm(n))
       THEN /\ ledger[Confirm(n)] = pending[n].revision + 1
            /\ draft.revision = ledger[Confirm(n)] /\ draft.confirmed
       ELSE draft.revision = pending[n].revision

(* It also asks for the Cursor of the question, which another request may  *)
(* have cleared: EngineRollback says when.                                 *)
HydrateResume(p) ==
    LET n == worker[p].resumed
        text == exec[worker[p].seq].text
    IN  /\ At(p, "hydrating") /\ n # NoInput
        /\ \/ Stop(p, "error")
           \/ StillAsked(p, n, text) /\ text = "confirm" /\ Goto(p, "confirming")
           \/ StillAsked(p, n, text) /\ text = "other" /\ Goto(p, "routing")
        /\ UNCHANGED <<session, rows, effects, saved, lock>>

(* reserve_model_attempt: once for the route, once or, after a malformed   *)
(* reply, twice for the change.  Each call is reserved and counted once; a *)
(* replay that already committed its draft asks for no reply.              *)
ModelPC == {"routing", "parsing", "retrying"}
CallNumber(pc) == CASE pc = "routing" -> 1 [] pc = "parsing" -> 2 [] pc = "retrying" -> 3
Call(p) == Quota(worker[p].seq, CallNumber(worker[p].pc))

\* Mutant: the call is counted, and the step not recorded.
ReserveUnrecorded(p) ==
    /\ Fenced(p) /\ session
    /\ quota < QuotaLimit /\ quota' = quota + 1 /\ UNCHANGED ledger

\* Mutant: the limit is not looked at.
ReserveUnlimited(p) ==
    /\ Fenced(p) /\ session
    /\ IF Done(Call(p))
       THEN UNCHANGED <<quota, ledger>>
       ELSE quota' = quota + 1 /\ Record(Call(p), 0)

Reserve(p) ==
    /\ Fenced(p) /\ session
    /\ IF Done(Call(p))
       THEN UNCHANGED <<quota, ledger>>
       ELSE quota < QuotaLimit /\ quota' = quota + 1 /\ Record(Call(p), 0)

NeedsReply(p) == At(p, "parsing") => ~Done(Persist(worker[p].seq))
CallModel(p) ==
    /\ worker[p].pc \in ModelPC /\ NeedsReply(p)
    /\ Reserve(p)
    /\ \/ At(p, "routing") /\ worker' = [worker EXCEPT ![p].pc = "parsing"]
       \/ Stop(p, "end")  \* a read-only route, or no one entitlement is meant
       \/ At(p, "parsing") /\ worker' = [worker EXCEPT ![p].pc = "retrying"]
       \/ ~At(p, "routing") /\ worker' = [worker EXCEPT ![p].pc = "persisting"]
       \/ ~At(p, "routing") /\ Stop(p, "error")  \* no usable reply
    /\ UNCHANGED <<session, rows, draft, saved, lock>>

(* Without the model: fast path, deterministic provider, or a replay.      *)
SkipModel(p) ==
    /\ worker[p].pc \in {"routing", "parsing"}
    /\ NeedsReply(p) => ~Done(Call(p))
    /\ \/ At(p, "routing") /\ worker' = [worker EXCEPT ![p].pc = "parsing"]
       \/ Stop(p, "end")
       \/ At(p, "parsing") /\ worker' = [worker EXCEPT ![p].pc = "persisting"]
    /\ UNCHANGED <<session, rows, effects, saved, lock>>

(* ModelQuotaExceededError: complete_turn_with_event ends the execution,   *)
(* without a checkpoint and without a look at the pending input.           *)
QuotaExhausted(p) ==
    /\ worker[p].pc \in ModelPC /\ NeedsReply(p) /\ ~Done(Call(p))
    /\ Fenced(p) /\ session /\ lock = p
    /\ quota = QuotaLimit
    /\ exec' = [exec EXCEPT ![worker[p].seq].status = "recoverable_error",
                            ![worker[p].seq].live = FALSE,
                            ![worker[p].seq].terminals = @ + 1]
    /\ worker' = [worker EXCEPT ![p] = Idle]
    /\ lock' = NoWorker
    /\ UNCHANGED <<session, fence, pending, effects, saved>>

(* _persist_draft: a CAS on the revision the graph hydrated, once per      *)
(* input.  The draft is then complete, and the requester must confirm it,  *)
(* or something is still to be collected.  It is refused when the revision *)
(* has changed, or the Cursor is gone that a short reply was read by.      *)
Committed(p, revision) ==
    \E outcome \in {"end", "interrupt"} :
        worker' = [worker EXCEPT ![p].pc = "stopping", ![p].outcome = outcome,
                                 ![p].base = revision]

\* Mutant: a changed draft stays confirmed.
PersistConfirmed(p) ==
    LET op == Persist(worker[p].seq)
    IN  /\ At(p, "persisting") /\ Fenced(p) /\ session
        /\ ~Done(op) /\ draft.revision = worker[p].base
        /\ draft' = [draft EXCEPT !.revision = @ + 1]
        /\ Record(op, draft'.revision)
        /\ Committed(p, draft'.revision)
        /\ UNCHANGED <<session, rows, quota, saved, lock>>

PersistDraft(p) ==
    LET op == Persist(worker[p].seq)
    IN  /\ At(p, "persisting") /\ Fenced(p) /\ session
        /\ \/ Done(op) /\ Committed(p, ledger[op]) /\ UNCHANGED <<draft, ledger>>
           \/ /\ ~Done(op) /\ draft.revision = worker[p].base
              /\ \/ draft' = [revision |-> draft.revision + 1, confirmed |-> FALSE]
                 \/ ~draft.confirmed /\ UNCHANGED draft
              /\ Record(op, draft'.revision)
              /\ Committed(p, draft'.revision)
           \/ ~Done(op) /\ Stop(p, "error") /\ UNCHANGED <<draft, ledger>>
        /\ UNCHANGED <<session, rows, quota, saved, lock>>

\* Mutant: it does not compare the revision.
ConfirmUncompared(p) ==
    LET n == worker[p].resumed
    IN  /\ At(p, "confirming") /\ Fenced(p) /\ session /\ Live(n)
        /\ draft' = [revision |-> draft.revision + 1, confirmed |-> TRUE]
        /\ Record(Confirm(n), draft'.revision)
        /\ Stop(p, "end")
        /\ UNCHANGED <<session, rows, quota, saved, lock>>

(* confirm_draft: a CAS as well, once per pending input.                   *)
ApplyConfirmation(p) ==
    LET n == worker[p].resumed
        sound == draft.revision = worker[p].base /\ Live(n)
    IN  /\ At(p, "confirming")
        /\ \/ Fenced(p) /\ session /\ Done(Confirm(n)) /\ Stop(p, "end")
              /\ UNCHANGED <<draft, ledger>>
           \/ /\ Fenced(p) /\ session /\ ~Done(Confirm(n)) /\ sound
              /\ draft' = [revision |-> IF draft.confirmed THEN draft.revision
                                        ELSE draft.revision + 1,
                           confirmed |-> TRUE]
              /\ Record(Confirm(n), draft'.revision)
              /\ Stop(p, "end")
           \/ /\ ~(Fenced(p) /\ session /\ (Done(Confirm(n)) \/ sound))
              /\ Stop(p, "error") /\ UNCHANGED <<draft, ledger>>
        /\ UNCHANGED <<session, rows, quota, saved, lock>>

(* The candidate is verified.  A JSON call finalizes under the lock it     *)
(* holds; SSE lets it go, streams the answer, and takes it again.          *)
StopGraph(p) ==
    /\ At(p, "stopping") /\ lock = p
    /\ \/ worker' = [worker EXCEPT ![p].pc = "stopped"] /\ UNCHANGED lock
       \/ worker' = [worker EXCEPT ![p].pc = "parked"] /\ lock' = NoWorker
    /\ UNCHANGED <<session, rows, effects, saved>>

-----------------------------------------------------------------------------
(* The three finalizers, each one fenced transaction on the lock's own     *)
(* session.  SSE may have to report a broken stream or a lost client.      *)
StatusFor == [end |-> "completed", error |-> "recoverable_error",
              interrupt |-> "waiting_input"]
MayReport(p, status) ==
    \/ status = StatusFor[worker[p].outcome]
    \/ At(p, "parked") /\ status \in {"recoverable_error", "interrupted"}
MayFinalize(p) ==
    /\ \/ At(p, "stopped") /\ lock = p
       \/ At(p, "parked") /\ lock = NoWorker
    /\ Fenced(p)
    /\ exec[worker[p].seq].head = worker[p].head  \* the CAS of promote

Close(p, status) ==
    /\ exec' = [exec EXCEPT ![worker[p].seq].status = status,
                            ![worker[p].seq].live = FALSE,
                            ![worker[p].seq].head = worker[p].fence,
                            ![worker[p].seq].terminals = @ + 1]
    /\ worker' = [worker EXCEPT ![p] = Idle]
    /\ lock' = NoWorker
    /\ UNCHANGED <<session, fence, effects, saved>>

FinalizeGraphTurn(p, status) ==
    /\ MayFinalize(p) /\ MayReport(p, status)
    /\ worker[p].resumed = NoInput /\ worker[p].outcome # "interrupt"
    /\ status = "completed" => session
    /\ Close(p, status)
    /\ UNCHANGED pending

FinalizeResumeOutcome(p, status) ==
    LET n == worker[p].resumed
    IN  /\ MayFinalize(p) /\ MayReport(p, status)
        /\ n # NoInput /\ worker[p].outcome # "interrupt"
        /\ session \/ status = "recoverable_error"
        /\ Live(n)
        /\ pending' = [pending EXCEPT ![n].status = "resolved"]
        /\ Close(p, status)

(* A first question inserts the pending input; asking again re-arms the    *)
(* row of the answered one, or only closes it when the session is gone.    *)
FinalizeInterrupt(p, status) ==
    LET n == worker[p].resumed
        asked == [status |-> "active", revision |-> worker[p].base,
                  head |-> worker[p].fence, resumeSeq |-> NoInput]
    IN  /\ MayFinalize(p) /\ MayReport(p, status)
        /\ worker[p].outcome = "interrupt"
        /\ IF n = NoInput
           THEN pending' = Append(pending, asked) /\ Close(p, status)
           ELSE /\ Live(n)
                /\ IF session
                   THEN pending' = [pending EXCEPT ![n] = asked] /\ Close(p, status)
                   ELSE /\ pending' = [pending EXCEPT ![n].status = "resolved"]
                        /\ Close(p, "recoverable_error")

Finalize(p) ==
    \E status \in ExecStatus \ {"running"} :
        \/ FinalizeGraphTurn(p, status)
        \/ FinalizeResumeOutcome(p, status)
        \/ FinalizeInterrupt(p, status)

-----------------------------------------------------------------------------
(* What may go wrong.                                                      *)

GiveUp(p) ==
    /\ worker' = [worker EXCEPT ![p] = Idle]
    /\ Release(p)
    /\ UNCHANGED <<session, fence, pending, effects, saved>>

(* A stale or expired handle, a session that ended, an advisory lock that  *)
(* is lost or held elsewhere: an error, and no write.                      *)
LockLost(p) == worker[p].pc \in GraphPC \cup {"stopped"} /\ lock # p
LockTaken(p) == worker[p].pc \in {"admitted", "parked"} /\ ~LockFor(p)
Reject(p) ==
    /\ ~At(p, "idle")
    /\ ~Fenced(p) \/ ~session \/ LockLost(p) \/ (LockTaken(p) /\ fence < MaxFence)
    /\ GiveUp(p)
    /\ UNCHANGED exec

Crash(p) ==
    /\ ~At(p, "idle") /\ fence < MaxFence
    /\ GiveUp(p)
    /\ UNCHANGED exec

\* Mutant: it does not look for a terminal that is there.
DisconnectBlindly(p) ==
    /\ At(p, "admitted") /\ lock # p /\ fence < MaxFence
    /\ exec' = [exec EXCEPT ![worker[p].seq].terminals = @ + 1]
    /\ GiveUp(p)

(* handle_disconnect before the graph worker exists: append_turn_terminal  *)
(* writes turn.interrupted, once, and leaves the execution running.        *)
DisconnectEarly(p) ==
    /\ At(p, "admitted") /\ lock # p /\ fence < MaxFence
    /\ exec' = [exec EXCEPT ![worker[p].seq].terminals = IF @ = 0 THEN 1 ELSE @]
    /\ GiveUp(p)

LoseLock(p) ==
    /\ LockLost(p) = FALSE /\ worker[p].pc \in GraphPC \cup {"stopped"}
    /\ fence < MaxFence
    /\ lock' = NoWorker
    /\ UNCHANGED <<session, rows, effects, saved, worker>>

LeaseExpires(s) ==
    /\ Running(s) /\ exec[s].live /\ fence < MaxFence
    /\ exec' = [exec EXCEPT ![s].live = FALSE]
    /\ UNCHANGED <<session, fence, pending, effects, saved, lock, worker>>

(* preview_draft: a CAS on the revision it read itself.  Its reads' save   *)
(* of a row without its consumed Cursor is left out (see the header).      *)
FormEdit(confirmed) ==
    /\ session /\ draft.revision < MaxRevision
    /\ draft' = [revision |-> draft.revision + 1, confirmed |-> confirmed]
    /\ UNCHANGED <<session, rows, ledger, quota, saved, lock, worker>>

Logout ==
    /\ session
    /\ session' = FALSE
    /\ UNCHANGED <<rows, effects, saved, lock, worker>>

GraphStep(p) ==
    \/ StartGraph(p)
    \/ HydrateInput(p) \/ HydrateResume(p)
    \/ CallModel(p) \/ SkipModel(p) \/ QuotaExhausted(p)
    \/ PersistDraft(p) \/ ApplyConfirmation(p)
    \/ StopGraph(p)
    \/ Finalize(p)

Next ==
    \/ \E p \in Workers : BeginInput(p)
    \/ \E p \in Workers, n \in DOMAIN pending, text \in Texts : BeginResume(p, n, text)
    \/ \E p \in Workers, s \in DOMAIN exec : Takeover(p, s)
    \/ \E p \in Workers :
          GraphStep(p) \/ Reject(p) \/ Crash(p) \/ DisconnectEarly(p) \/ LoseLock(p)
    \/ \E s \in DOMAIN exec : LeaseExpires(s)
    \/ \E confirmed \in BOOLEAN : FormEdit(confirmed)
    \/ Logout

Spec == Init /\ [][Next]_vars

(* Every call ends in an answer or an error; nobody renews the lease of an *)
(* execution without a live call; and the user whose input was interrupted *)
(* sends it again, which takes it over.                                    *)
Attended(s) == \E p \in Workers :
    ~At(p, "idle") /\ worker[p].seq = s /\ worker[p].fence = exec[s].fence
LeaseRunsOut(s) == s \in DOMAIN exec /\ ~Attended(s) /\ LeaseExpires(s)
SentAgain(s) == s \in DOMAIN exec /\ \E p \in Workers : Takeover(p, s)

Fairness ==
    /\ \A p \in Workers : WF_vars(GraphStep(p)) /\ WF_vars(Reject(p))
    /\ \A s \in 1..MaxFence : WF_vars(LeaseRunsOut(s)) /\ WF_vars(SentAgain(s))
FairSpec == Spec /\ Fairness

-----------------------------------------------------------------------------
(* One conversation: at most one execution runs and one pending input is   *)
(* open, and while the requester is asked, nothing else runs.              *)
OneConversation ==
    /\ Cardinality({s \in DOMAIN exec : Running(s)}) <= 1
    /\ Cardinality({n \in DOMAIN pending : Live(n)}) <= 1
    /\ \A n \in DOMAIN pending, s \in DOMAIN exec :
          Live(n) /\ Running(s) => pending[n].status = "resuming" /\ pending[n].resumeSeq = s

(* An accepted head was saved on top of another accepted head: no          *)
(* checkpoint of a superseded attempt enters the conversation.             *)
AcceptedLineage ==
    \A s \in DOMAIN exec : exec[s].head # NoHead =>
        /\ exec[s].head \in DOMAIN saved
        /\ saved[exec[s].head] \in {NoHead} \cup {exec[t].head : t \in DOMAIN exec \ {s}}

(* Crashes, takeovers and replays charge every reserved call exactly once. *)
QuotaIsAccounted ==
    quota = Cardinality({op \in DOMAIN ledger : op[1] = "quota"})

(* Nothing in the record keeps an open question from its answer: its head  *)
(* is that of the turn that asked it and is in the saver, and the draft it *)
(* is about is not confirmed already.                                      *)
OpenQuestionIsAnswerable ==
    \A n \in DOMAIN pending : pending[n].status = "active" =>
        /\ \E s \in DOMAIN exec : ~Running(s) /\ exec[s].head = pending[n].head
        /\ pending[n].head \in DOMAIN saved
        /\ ~Done(Confirm(n))
        /\ draft.revision = pending[n].revision => ~draft.confirmed

(* A conversation confirms only the revision the requester was asked       *)
(* about, for a running answer, in a live session.                         *)
ConfirmedWhatWasAsked ==
    [][\A n \in DOMAIN pending : ~Done(Confirm(n)) /\ Done(Confirm(n))' =>
          /\ session
          /\ pending[n].status = "resuming" /\ Running(pending[n].resumeSeq)
          /\ draft.revision = pending[n].revision]_vars

(* A turn that ended is over: no late attempt, disconnect or recovery      *)
(* gives it another status, head or terminal.                              *)
TurnEndsOnce ==
    [][\A s \in DOMAIN exec : ~Running(s) => exec'[s] = exec[s]]_vars

(* Crashes, takeovers, replays and late calls included, the requester sees *)
(* a Conversation: one input at a time, nothing but its answer while a     *)
(* question is open, and one confirmation of the draft that was asked about*)
Open == {n \in DOMAIN pending : Live(n)}
Phase ==
    IF Open # {}
    THEN IF \E n \in Open : pending[n].status = "active" THEN "asked" ELSE "answering"
    ELSE IF \E s \in DOMAIN exec : Running(s) THEN "working" ELSE "free"
Subject == {pending[n].revision : n \in Open}
Confirmed == \E n \in Open : Done(Confirm(n))
Promise == INSTANCE Conversation WITH
    phase <- Phase, subject <- Subject, confirmed <- Confirmed, revision <- draft.revision
ImplementsConversation == Promise!Spec

(* As long as the session lives, every accepted input comes to its end.    *)
Unfinished(s) == session /\ s \in DOMAIN exec /\ Running(s)
TurnEnds == \A s \in 1..MaxFence : Unfinished(s) ~> ~Unfinished(s)

(* The ticket: "confirm, re-route and failure all close or replace the     *)
(* pending input in the same transaction that ends the execution"          *)
(* (docs/tickets/accesspilot-langgraph-agent-loop-v1.3.md:229).            *)
AnswerClosesQuestion ==
    \A n \in DOMAIN pending :
        pending[n].status = "resuming" => Running(pending[n].resumeSeq)

(* The specification: a takeover "reuses the turn_id and writes its unique *)
(* terminal" (docs/specs/accesspilot-langgraph-agent-loop-v1.3.md:259).    *)
OneTerminal == \A s \in DOMAIN exec : exec[s].terminals <= 1
=============================================================================
