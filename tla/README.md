# AccessPilot: a TLA+ verification project

AccessPilot is a FastAPI service (apps/api/src/accesspilot) that lets an
employee ask for access in a conversation, has a fixed route of approvers decide
on the request, and provisions the approved access through an identity system
(IAM). State lives in PostgreSQL; several processes serve requests; LangGraph
runs the conversation and keeps checkpoints in a saver of its own. This project
specifies the parts in which order, failure and concurrency decide whether the
system is right, checks them with TLC, and proves the safety of approvals,
provisioning and their composition, of the draft, of the conversation's turns, of their
move between the engines and of the event stream with TLAPS.

Paths below are relative to `src/apps/api/src/accesspilot/`. `PROJECT.json` maps
every definition to the lines it models.

## The system

| part | state | operations | hard because |
|---|---|---|---|
| Workspace (`workspaces.py`, `db/workspace_store.py`) | one row: draft, draft_revision, Cursor, quota, lease_fence, flow_version | get (normalises and saves), whole-row save, CAS on draft and Cursor | whole-row saves race with CAS updates |
| Turn execution (`agent/turn_execution.py`, `agent/json_orchestrator.py`) | executions, pending inputs, lease, advisory lock | begin_input, begin_resume, takeover, heartbeat, four finalizers | workers die, leases expire, zombies come back |
| Step operations (`agent/step_operations.py`) | the ledger of operation ids, quota, draft | reserve_model_attempt, persist_draft, confirm_draft | replays must charge and write once |
| Checkpoints (`agent/checkpoint.py`) | saver, accepted heads | exact get, fenced put, verify, promote | the newest checkpoint may be a dead worker's |
| Production graph (`agent/production_graph.py`) | the graph state of one invocation | hydrate, route, parse, persist, ask, confirm | reads before, writes after model calls |
| Legacy engine (`conversation.py`) | none of its own: draft, Cursor, events | one message, over SSE or JSON | reads the draft, asks a model, writes by CAS |
| Events and SSE (`events.py`, `streaming.py`, `main.py`) | append-only WorkspaceEvents | append, list after an id, disconnect handling | commit order is not id order; disconnects |
| Submission (`requests.py`) | access_requests | submit | the draft is read long before |
| Decision packet (`decision_packets.py`) | one immutable packet per request | generate | route read, model called, then committed |
| Approval (`approvals.py`) | case, steps, audit events | start, decide | directory drifts, pages are stale |
| Provisioning (`provisioning.py`) | attempt and grant per request; IAM | provision, recover | lost answers, crashes, two row locks |
| Read models (`operations.py`, `access_overview.py`) | none | inbox, task list, details | must agree with the endpoints |
| Sign-in (`auth.py`) | AuthSessions | login, rotate CSRF, revoke | ends while calls are running |
| Rollback (`agent/rollback.py`, `agent/engine_binding.py`) | flow_version, engine of rows | convert a Workspace, resolve the engine | races with turns |
| Directory (`db/seed.py`) | employees, roles, entitlements | re-seeded at every start | changes under open cases |
| Policies, tools, risk, model adapters, trace, evaluation, web client | none that decides | reads, advice, display | not modelled, see below |

How they interact: the browser calls HTTP handlers; a conversation turn is
admitted by `begin_input`, `begin_resume` or `takeover`, runs the graph under a
PostgreSQL advisory lock, writes drafts through step operations under the fence
of its lease, and is ended by a finalizer that promotes its checkpoint and
writes the terminal event. The confirmed draft becomes a formal request, whose
packet fixes the approval route. `flow_version` says which of the two engines
serves a Workspace; the bridge moves it back to the legacy engine, together with
the question that is open. A page reads what happened from the event stream.
Approvals and provisioning meet only in
`approval_status`; provisioning and IAM meet only in the idempotency key.

What makes each part right is listed as its properties below; what is hard to
test in it is listed, with lines, under "hazards" in `PROJECT.json`.

## Modules

| module | models | checked by |
|---|---|---|
| `Approvals` | submission, packet, case, decisions, inbox, re-seeding | `MCApprovals` |
| `ApprovalsProofs` | theorems about `Approvals` | TLAPS |
| `AccessGrant` | the abstract promise of provisioning | (refined by `Provisioning`) |
| `Provisioning` | concurrent provision and recover calls against IAM | `MCProvisioning` |
| `ProvisioningProofs` | theorems about `Provisioning` | TLAPS |
| `AccessFlow` | `Approvals` and `Provisioning` composed | `MCAccessFlow` |
| `AccessFlowProofs` | theorems about `AccessFlow` | TLAPS |
| `TurnExecution` | LangGraph turns of one Workspace: leases, graph run, pending inputs, quota, confirmation | `MCTurnExecution` |
| `TurnExecutionProofs`, `TurnHeadsProofs` | theorems about `TurnExecution` | TLAPS |
| `Conversation` | the abstract promise of a conversation | (refined by `TurnExecution`) |
| `EngineRollback` | `TurnExecution` with the bridge to the legacy engine and the dispatch by flow_version | `MCEngineRollback` |
| `EngineRollbackProofs` | theorems about `EngineRollback` | TLAPS |
| `WorkspaceDraft` | the draft and its Cursor under legacy turns, forms, submissions and reads | `MCWorkspaceDraft` |
| `WorkspaceDraftProofs` | theorems about `WorkspaceDraft` | TLAPS |
| `LegacyTurns` | legacy turns and the event log they write | (through `EventStream`) |
| `EventStream` | `LegacyTurns` with the background stream of a page | itself |
| `EventStreamProofs` | theorems about `EventStream` | TLAPS |

A mutant of a definition (an operator marked `Mutant`, standing before the
definition it distorts) shows for each property which plausible slip in the code
it would catch. No specification uses these operators.

### Approvals

A handler that locks with FOR UPDATE from its first read to its commit is one
action. Packet generation is two (`BeginDecisionPacket`, `CommitDecisionPacket`,
or `AbandonDecisionPacket`), because the advisory model is called between
reading the directory and the commit. `SeedCatalog` may replace the directory at
any time. `DecisionReply` is the chain of refusals of `decide_approval`, in its
order; the browser may send any step id, so a stale page is an input.

### Provisioning

A worker is one HTTP call in one database session. `pc` marks the points between
its locks and commits: `provisioning` and `recovering` hold the request row,
`calling` has committed in_progress and let go, `called` has IAM's answer,
`settling` holds the attempt row and still has to insert the audit event, whose
foreign key waits for the request row. `seen` is the status the session last
read or wrote, which is what `_apply_outcome` tests
(`expire_on_commit=False`, and `get(..., with_for_update=True)` does not refresh
a loaded object). `effects` is a history variable, read by no action.
PostgreSQL's deadlock detection is `BreakDeadlock` (external).

### AccessFlow

`Approvals` extended with the variables of `Provisioning`, whose `approved` is
the set of requests with an approved case. `FlowProvisions` says that every
behaviour of the flow is one of `Provisioning`; so what is proved there holds
here, and the last decision of `decide_approval` is the only way in.

### TurnExecution

One action per transaction of the turn and step services, one worker per HTTP
call. The graph is its program counters: what the user's text means and what the
model answers is a choice. A checkpoint is named by the fence of the invocation
that saved it; `exec[s].head` is the accepted head of the execution. Failures
are actions of their own: `Crash`, `LeaseExpires` (a flag, raised at any
moment, heartbeat or not), `LoseLock`, `DisconnectEarly`, `FormEdit`, `Logout`.
A takeover continues on the accepted head of its execution, the latest of an
earlier one, or that of a pending input (`RecoveryHead`), and on none that a question
retired by the bridge refers to (`Tombstoned`); it writes the head to the row only
where there was none (`Recovered`), so a retired one that is there stays written and the
attempt starts anew.

The draft's revision only grows here. The writer that can lower it, the save of the
whole row by a read that finds a consumed Cursor, is in `WorkspaceDraft` and not a
step of `TurnExecution` or `EngineRollback`, although an answer to a collection
question consumes Cursors in LangGraph turns too (`step_operations.py`, line 669). What
is checked and proved of the turns is under that restriction; what the save can do is
`revision_goes_back`.

`Conversation` says what all of it promises: one input at a time, nothing but its
answer while a question is open, and one confirmation, of the draft that was asked
about. `ImplementsConversation` maps the open pending input to the question and
the running execution to the work; crashes, takeovers and late calls map to stutters,
the bridge to a question that is withdrawn. The defect of `turn_stuck_resuming`
maps to an answer that is never settled: `Conversation` promises safety only.

### EngineRollback

`TurnExecution` extended: its actions keep their meaning, and what they do to the
Cursor (`CursorFollows`) and to the interrupt tasks that accepted checkpoints
retain (`TaskFollows`) is added to the same step, since the code does both in
one transaction. The Cursor asks for the confirmation or for a missing field of
the draft (which field is left out), beside an open question or without
one. `PersistCursor`: a draft that changes clears or consumes it. `ResumeCursor`: a
resumed graph goes on only from a confirmation Cursor. `InterruptCursor` and
`OutcomeCursor` are what the finalizers project: the confirmation question; nothing
after help, status and policies; the first missing field, if the draft is still the one
the terminal tells; otherwise what is there. An answer consumes the one it was for.
Since a row does not say what draft its Cursor was asked about, the model adds the
revision: a reader takes the question to be about the draft it finds, and
`MovedQuestionFits` says that at the move this is so, for a collection Cursor that the
bridge leaves alone as for a confirmation it keeps or puts in its place.
`Submission` clears the Cursor, whichever is there by then; the draft it froze was
read long before, so it is allowed for any. `activate_missing_cursor` is not a
step: only `ProductionGraph.prepare` calls it, and the services run the graph by `invoke`
and let the finalizers project.
 A call resolves its engine before it is admitted, so a worker
that was idle when the bridge moved the Workspace may still be admitted to
LangGraph: `stragglers`. `Blocked` is the sum of the blocking reasons of
`PublishPreflightGate` and of the bridge; `RowsAccepted` is a CHECK constraint of
the table that the bridge may run into.

### WorkspaceDraft

A call is an HTTP request; the methods of `WorkspaceStore` are its steps.
`Loaded` is `WorkspaceService.get`: it returns the row without a consumed Cursor
and owes (`dirty`) the whole-row save, which `Normalise` does in a later
transaction, before the call goes on. Because the store reads the row again
to find which columns differ, without a lock, any of draft, revision and Cursor may be
written back or left as another call has made it meanwhile. `consent` is a history variable: the fields the
requester said "confirmed" to, where the record has a flag. Which of the fields a
message changes and whether it confirms is a choice (`Next`).

### LegacyTurns and EventStream

An event takes its id at insert and is seen at commit, in between another
transaction may commit: `open` and `log`. `turn.started` of an SSE turn and the
terminals are written under the Workspace row lock; the foreign key of
`workspace_events` makes every other insert wait for the holder of that lock
and the lock wait for the insert, but two such inserts do not wait for each other. So ids are
overtaken only by events of turns that do not lock the row: `JsonSpec`, under which
every turn comes over JSON, shows it. `pc` follows a turn through the worker
thread, the streamed answer, its terminal and the move of the Cursor; `cut` are the
turns whose client left while the worker ran, which the cleanup task then owns.
`EventStream` adds one page: its stream lists by id, sends one event at a time
after a look at the session, may break at any point, and connects again with the
last id the page received.

## Runs

| run | question | bounds |
|---|---|---|
| `approvals` | Is a case approved only by its whole frozen route, are inbox, refusals and audit trail truthful, are decisions final? | 2 requests, 3 employees, 5 directories |
| `provisioning` | Are grants earned and calls counted, is nothing undone, is AccessGrant implemented? | 1 request, 3 calls, 3 attempts, all answers, restarts that forget |
| `access_flow` | Does no access go past the approvers, end to end, and is what IAM knows of settled? | 1 request, 4 employees, 3 directories, 2 calls, 2 attempts |
| `turns` | One conversation, one accepted lineage, only what was asked is confirmed, a turn ends once; and what the bridge retires is not answered, stays retired, fits the draft, and nothing blocks it for good; and is Conversation implemented? | 2 workers, 3 fences, 1 form edit, no model quota |
| `turns_live` | Is each reserved model call charged once, and does every accepted input end? | 2 workers, 2 fences, quota 3, 1 form edit |
| `drafts` | Does a confirmation cover what was confirmed, and who writes over a newer draft? | 2 calls, revisions up to 3, one term above the maximum |
| `stream` | One terminal per turn, no two SSE turns at once, nothing shown twice or out of order, no event missed but an overtaken one, no stream after logout, every turn closed? | 2 turns, 1 page |

The state spaces are small enough to be exhausted. One request is enough for
provisioning because requests share nothing but workers, and the proofs cover
all. Three calls let two provision calls and a recovery meet. Three fences are a
question, its answer and a takeover of either, or an input taken over twice; at
the last fence no further failure is injected, so that what was started can be
seen to end, and nobody submits, logs out (`Bounded`, an action constraint of
`MCEngineRollback`, not of the specification) or moves the legacy engine's Cursor. The form can be edited once at revision 0, before a question or
while one about that revision is open. `turns` has no model quota, so
its calls take the fast path or are refused; `turns_live` has one that
lasts for a route and two parses of one input, and runs out after that. Two requests in `approvals` show that cases do
not leak into one another. Two calls in `drafts` are a reader or writer and the
one it races with, over three revisions: a draft, a newer one, and one written
over it; the proofs hold for any number of both. Two turns in
`stream` give the log up to five events, so two of them may commit out of order
on either side of a third, and a lapsed lease lets the second turn begin beside
the first. The largest runs are `drafts` (about 1.1 million distinct states), `turns`
(0.7 million) and `stream` (0.3 million), each of a few minutes.

`MCProvisioning`, `MCEngineRollback` and `MCWorkspaceDraft` take the workers or
calls as a symmetry set in safety runs; nothing in the
specifications distinguishes them. The liveness runs use no symmetry. The turn,
draft and stream runs do not check for deadlock: after logout, or once
the fences, revisions or turns are used up, the Workspace really stops.

`DrainedCanMove` says that nothing in the plan blocks the bridge; that the rows accept
it is `RowsAccepted`, and not claimed.

### Where code and documentation disagree

Each of these runs checks one statement of the repository and ends in a
counterexample; `PROJECT.json` quotes the statements.

- `provisioning_two_effects`: a late refusal overwrites a later success and makes
  the request provisionable again, so IAM carries the operation out twice. The
  early return of `_apply_outcome` does not help: under the row lock it tests the
  status its session had read before the call. (The simulator that is shipped refuses
  only under its fault mode; the interface is made for an IAM that does.)
- `turn_stuck_resuming`: an answer that exhausts the quota ends without closing
  the pending input, which blocks every later input.
- `turn_two_terminals`: a disconnect before the graph starts writes a terminal
  event, and the takeover writes a second one.
- `revision_goes_back`: a read that found a consumed Cursor saves the row as it was
  read, over a draft committed since, and the "monotone" `draft_revision` falls.
  `OnlyReadsTakeBack` shows that nothing else does this.
- `events_missed`: ids are taken at insert and seen at commit, so the stream and its
  `Last-Event-ID` pass over an event that commits after one with a larger id. In the
  trace two JSON turns begin at once, neither of which locks the row: the second
  commits and is shown, then the first, with the smaller id. An event cannot be overtaken
  while another turn holds the row (the foreign key makes its insert wait).
  `OnlyOvertakenAreMissed` shows that no other event is lost.

Two more were met on the way and are not runs of their own. After a crash during
the IAM call the task list offers neither provision nor recover (the recover
endpoint can still be called by hand, and settles what IAM knows of:
`FlowSettles`). And retiring a question that is still resuming violates a CHECK
constraint of the table (`RowsAccepted`), although the bridge's plan reports
nothing that blocks it.

## Fairness

`AccessFlow!FairFlowSpec`: a call that is running goes on (weak fairness of
`WorkerStep`: no handler waits for anything but row locks), PostgreSQL resolves
every deadlock and serves its lock queues in order (strong fairness of the
steps that take a lock), and the administrator keeps asking for recovery until
IAM's query is once answered and its answer committed. Provisioning itself is
not assumed fair: nobody has to retry. `FlowSettles` excepts an administrator
whom a re-seeding has deprived of the role.

`TurnExecution!FairSpec`: calls go on or are rejected, the lease of an execution
without a live call runs out (nobody renews it), and the user whose input was
interrupted sends it again, which is what the 409 reply asks for.

`EventStream!FairStreamSpec`: each turn's thread, event loop and transactions go on
(weak fairness of `ServerStep`, per turn: the row lock is held only
between an insert and its commit), and an open stream polls on. Clients, leases and
the end of the session are not fair; nobody has to reconnect. `TurnsAreClosed`
excepts the turn whose process died or whose response was dropped.

## Proofs

`ProvisioningProofs` proves, for any sets of requests and (finitely many)
workers, any subset of IAM's behaviours and any attempt bound, from
`ProvisioningAssumption` alone:

- `TypeCorrect`: `Spec => []TypeOK`.
- `LocksHoldAlways`: the inductive invariant `LocksHold`. The properties below are
  not inductive: that a grant is earned when `ApplyOutcome` commits depends on
  what the worker saw several steps earlier. `OneHolder` says that a request row
  has one holder; `WorkerOK` says what a worker may rely on at each pc, in
  particular that the holder's copy of the attempt is current and that a
  positive answer stands for an effect; `RequestOK` relates attempt, grant, IAM
  and effects of a request between commits. The foreign key of the audit event
  is what makes it hold: `ApplyOutcome` waits for the holder of the request.
- `GrantsAreEarned`, `NothingUndone`: from `LocksHold`.
- `ProvisioningImplements`: `Spec => ImplementsAccessGrant`, with
  `carried <- {r : effects[r] >= 1}`; an IAM call that is carried out maps to
  `CarryOut` the first time and to a stutter afterwards, the commit of a positive
  answer to `GrantAccess`.
- `EveryEffectCounted`: effects plus calls under way never exceed
  `attempt_count`; `StillCounted` covers the steps that start no call.

- `AtMostOnce`: if IAM never refuses (`"failed" \notin IamResults`), every
  request has at most one effect. `NeverRefused` is the inductive part: "failed"
  is the only status that is retried, so `attempt_count` never passes 1, and
  `EveryEffectCounted` does the rest. With refusals the promise is false, as
  `provisioning_two_effects` shows.

TLC checked `LocksHold` on one and on two requests before it was proved.

`ApprovalsProofs` proves, for any requests, employees and directories, from
`ApprovalsAssumption`:

- `TypeCorrect`, and `CasesInvAlways`: the inductive invariant `CasesInv` is
  `TypeOK`, `OnceEach` (a packet is committed once and before its case, a case is
  opened once, with the steps) and `CaseMatchesSteps`, which is `CasesMatch`. The
  first two are needed because a case that could be started again, or a packet
  generated again, would not match the steps any more.
- `NobodyDecidesHisOwn`: `NoSelfApproval`, from `AuditStep`: a step appends at most
  one event, and only a decision by somebody else appends a decision event.
- `Finality`: `DecisionsAreFinal`, from `CasesInv`; `StatusAfter` changes only the
  step decided, the next pending one and those still waiting.
- `InboxIsTruthful` and `RefusalsHold`, from `CasesInv` and two more inductive parts.
  `Accounted`: a step that is approved has its event in the audit trail; without
  it "already decided" could be told to somebody who decided nothing. `ByOthers`: no
  drafted or stored route names the requester; without it the inbox would list
  cases that the last check of `decide_approval` refuses. `OpenCase` says which
  steps of an open case are approved, pending and waiting.
- `WholeRouteApproved`: `ApprovedByWholeRoute`. `Accounted` gives every approval its
  event; that the trail holds no other, and has them in route order, is `InRoute`,
  which speaks of every case and not only of the approved ones: each approval in the
  trail is of a step that stands approved, by its approver, so the step decided
  now comes after all of them (`OpenCase`).

`AccessFlowProofs` takes the two together, from their assumptions:

- `FlowImplementsProvisioning`: `FlowSpec => FlowProvisions`. `ApprovalsStep` shows
  that a step of the approvals approves one more case or none, which is
  `Provisioning`'s `Approve` or a stutter; the other steps are its own.
- `NobodyGetsAccessUnapproved`: hence `LocksHold` holds of the flow (the theorems of
  `ProvisioningProofs` are used through an INSTANCE), and it says that attempt, effect
  and grant belong to an approved request; `CasesInv`, `Accounted` and `ByOthers` say
  who approved it.

`WorkspaceDraftProofs` proves, for any number of calls and revisions and any maximal
term, from `DraftAssumption` and `NoDraftAssumption`:

- `DraftSafety`: the inductive invariant `DraftInv`. That the row is honest (its
  confirmation covers its fields) is not inductive, because a call may save a row
  it read long before: so `HonestCall` says the same of every copy in the hands of
  a call, the draft it is to write and the row it has seen.
- `TypeCorrect`, `ConsentCovers`, `Submitted`: parts of it, or consequences.
- `OnlyReadsDo`: `OnlyReadsTakeBack`, from the types and from what a CAS writes.

`TurnExecutionProofs` proves, for any number of calls and any bounds on quota, fences
and form edits, from `TurnExecutionAssumption`:

- `TypeCorrect`, and the inductive invariant `TurnInv` it rests on. That one turn runs
  and one question is open (`RowsOK`) is not inductive: a finalizer writes what
  its call was told at admission. `WorkerOK` says that this is still true of the
  call that holds the current fence of a running execution (`Current`), and claims
  nearly nothing of any other, whose writes the fence refuses; `LedgerOK` says
  that a question is confirmed only by a running answer that says so.
- `OneConversationHolds`, `TurnEndsOnceHolds`, `ConfirmedWhatWasAskedHolds`: from
  `TurnInv`.
- `QuotaIsAccountedHolds`: one step records at most one call, and charges it
  (`ChargedOnce`); the ledger's set of calls is finite, which is part of what is proved.
- `ImplementsConversationHolds`: `Spec => ImplementsConversation`, each action
  mapped to the step of `Conversation` it is or to a stutter.

`TurnHeadsProofs` extends it with two more inductive parts. `HeadInv`: a running turn
stands on a head that another turn left, a question on one that an ended turn left,
and the checkpoint of a call bears a fence no other call has; hence
`AcceptedLineageHolds`. A takeover recovers an accepted head that no retired question
refers to, or none (`RecoveryHeadSettled`); what is written to the row is settled in
either case (`RecoveredSettled`). `DraftInv`: what a recorded draft write, a call that
is about to ask, or a question refers to is a revision nobody has confirmed; with
`HeadInv` and `LedgerOK` this gives `OpenQuestionIsAnswerableHolds`. Recovery
takes the latest turn with a head: the lemma `LastOf` gets it from the library's `WFMin`,
since induction over the turns is not available.

These theorems are about `TurnExecution!Spec`. TLC checked `TurnInv`, `HeadInv` and
`DraftInv` before they were proved.

`EngineRollbackProofs` proves the eleven safety properties of the run `turns` for
`EngineSpec`, the turns with the bridge, the forms and the legacy engine beside them.
`BridgeOrTurn` shows that a step of the composition is the bridge's or one of
`TurnExecution` (a legacy turn writes the draft as the form does), so what the turns
keep is taken from the modules above and only the bridge is new there. The
inductive invariant `RollbackInv` is `TurnInv`, `HeadInv` and `DraftInv` with:

- `TasksOK`: a retained interrupt belongs to a checkpoint that was accepted and to a
  question that was recorded; `AnswersOK`: an open question has its interrupt, and the
  turn that answered one superseded it. These are what `DrainedCanMoveHolds` needs.
- `Unaccepted`: no turn has accepted yet what a call is still working on. Without
  it a late finalizer could give a new interrupt the head of an old one.
- `BindingOK` and `CursorOK`: only idle calls are stragglers, and before the move the
  Cursor is the confirmation of the open question, about its revision (`Confirms`), or
  a collection, about the draft as it is, while no question is open (`Collects`); hence
  `MovedQuestionFitsHolds`.
- `Apart`: two questions never stand on one head. Without it a retired question's
  head could be that of a question a running answer goes on from.
- `RetiredIsUnanswered` itself: that a retired question has no confirmation depends on
  the constraint `RowsAccepted` at the move and on `LedgerOK` before it; that no turn
  continues on its head, on the heads that a takeover leaves out.

From it follow `EngineTypeCorrect`, `RetiredIsUnansweredHolds`, `DrainedCanMoveHolds`,
the action properties `RetiredStaysRetiredHolds` and `MovedQuestionFitsHolds`, and, for
the composition, the theorems of the turns: `OneConversationThroughMove`,
`AcceptedLineageThroughMove`, `OpenQuestionThroughMove`, `ConfirmedThroughMove`,
`TurnEndsOnceThroughMove` and the refinement `ConversationThroughMove`, in which the
move is `Conversation`'s withdrawal of a question. TLC checked `RollbackInv` on the
instance of `turns` before it was proved.

`EventStreamProofs` proves, for any number of turns, events and broken connections,
the seven safety properties of the run `stream`. The inductive invariant is
`LogInv /\ PageInv`:

- `LogInv`: ids are taken once and have a largest one (by a `LastOf` of its own), an event
  that has not committed tells where its turn is, a turn has no terminal before it
  closes (`TurnOK`, `OneEach`), and a turn that starts over SSE is alone unless a
  lease has lapsed (`OneStream`). `OneTerminalPerTurnHolds`, `OneStreamedTurnHolds`
  and `CursorAfterAnswerHolds` follow. That there is one terminal is not inductive: the
  handlers look for one and append under the row lock, but the append commits
  later, and in between only `Placed` says that nobody else can write.
- `PageInv`: the stream's cursor is what the page saw last, and what the stream has
  listed committed before anything beyond its cursor that it has not listed
  (`ListedFirst`). The second is what `OnlyOvertakenAreMissedHolds` needs, because
  the log may grow between the listing and the sending. `ShownInOrderHolds` and
  `RevokedStreamStopsHolds` follow.

TLC checked the invariant before it was proved.

Every invariant, every action property and every refinement that a passing run checks
are proved. Not proved, and checked by TLC only: liveness (`FlowSettles`, `TurnEnds`,
`TurnsAreClosed`), which is out of the prover's reach.

## Not modelled

The web client but for its event stream (its calls are inputs), policy retrieval
and read-only tools (pure reads), model adapters and risk advice (advice
authorises nothing, ADR-0006; that a call may fail or be malformed is modelled),
trace, evaluation, access overview, migrations and bootstrap. Wording,
redaction, validation of payloads and display are data no property is about.

Of the modelled parts: the demo operations of `WorkspaceService` (their routes are
closed by the prefixes of `auth_boundary` in `main.py`); a Cursor that belongs to another
session or actor; CSRF rotation (the client reads the shared cookie before
every call, so a second tab sends the rotated secret); checkpoint tasks
that are unreadable, orphaned or of another graph version, which the
bridge refuses and nothing in the program writes; the quota of legacy
turns, which is counted in the same column and in the same way as that of `TurnExecution`.

## Plan

1. Done: `Approvals`, `Provisioning` with `AccessGrant`, `AccessFlow`,
   `TurnExecution` with `Conversation`, `EngineRollback`, `WorkspaceDraft`, `LegacyTurns`,
   `EventStream`; proofs of the safety of each.
2. Open: steps towards liveness that are safety (what a fair step helps, and that it
   is never lost); a packet whose frozen route no longer matches the directory,
   and the question asked under a revision read after the CAS, which no property covers.
