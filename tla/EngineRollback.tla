---------------------------- MODULE EngineRollback ----------------------------
(***************************************************************************)
(* Moving a Workspace back to the legacy engine (agent/rollback.py) while  *)
(* its LangGraph turns go on: the bridge that retires the open question,   *)
(* the reconciliation of pending inputs with the interrupt tasks that      *)
(* accepted checkpoints retain, and the engine every call is dispatched to *)
(* (agent/engine_binding.py, WorkspaceBoundConversationOrchestrator).      *)
(*                                                                         *)
(* The steps of TurnExecution are those of the LangGraph engine.  A call   *)
(* resolves its engine from three rows in a transaction of its own and is  *)
(* admitted in a later one, which does not look at flow_version: the calls *)
(* that resolved before the move and are admitted after it are stragglers. *)
(* Of the legacy engine there is what it does to the draft and the Cursor. *)
(* Tasks that are unreadable, orphaned or of another graph version are not *)
(* modelled: nothing in the program writes them.                           *)
(*                                                                         *)
(* The Cursor is the question by which the next message is read: for the   *)
(* confirmation, or for what is still to be collected.  Its row has no     *)
(* revision of its own, a reader takes it to be about the draft it finds;  *)
(* here it also says which revision it was asked about.  A consumed Cursor *)
(* asks nothing, as if there were none: what a read makes of it, a save of *)
(* the whole row that may lower draft_revision, is in WorkspaceDraft and   *)
(* not here.  activate_missing_cursor is the step of ProductionGraph's     *)
(* prepare, which no service calls: the finalizers project the Cursor.     *)
(***************************************************************************)
EXTENDS TurnExecution

VARIABLES flow,       \* WorkspaceRecord.flow_version: 1 legacy, 2 LangGraph
          cursor,     \* the open Cursor question, if any
          task,       \* accepted head -> pending input whose interrupt it retains
          stragglers  \* calls that resolved the engine before the move

binding == <<flow, stragglers>>
rollback == <<binding, cursor, task>>

NoCursor == {}
Cursors == [kind : {"confirmation", "collection"}, revision : Nat]
Question(kind, revision) == {[kind |-> kind, revision |-> revision]}
Asks(kind) == \E c \in cursor : c.kind = kind

EngineTypeOK ==
    /\ TypeOK
    /\ flow \in {1, 2}
    /\ cursor \subseteq Cursors /\ Cardinality(cursor) <= 1
    /\ \A c \in cursor : c.revision <= draft.revision
    /\ \A head \in DOMAIN task : head \in DOMAIN saved /\ task[head] \in DOMAIN pending
    /\ stragglers \subseteq {p \in Workers : At(p, "idle")}

EngineInit ==
    /\ Init
    /\ flow = 2
    /\ cursor = NoCursor
    /\ task = [head \in {} |-> 0]
    /\ stragglers = {}

-----------------------------------------------------------------------------
(* The LangGraph engine.                                                   *)

(* The Cursor in the transactions of a graph run.  A draft that changes    *)
(* consumes it or clears it, an unchanged one and the confirmation leave   *)
(* it alone.                                                               *)
PersistCursor(p) ==
    /\ At(p, "persisting")
    /\ cursor' = IF draft' = draft THEN cursor ELSE NoCursor

(* A resumed graph goes on only from a confirmation Cursor.                *)
ResumeCursor(p) ==
    LET answer == exec[worker[p].seq].text
    IN  /\ At(p, "hydrating") /\ worker[p].resumed # NoInput
        /\ StillAsked(p, worker[p].resumed, answer) /\ Asks("confirmation")
              <=> ~At(p, "stopping")'
        /\ UNCHANGED cursor

(* finalize_interrupt sets the Cursor, unless it can only close.           *)
InterruptCursor(p) ==
    /\ worker[p].outcome = "interrupt"
    /\ cursor' = IF worker[p].resumed = NoInput \/ session
                 THEN Question("confirmation", worker[p].base) ELSE NoCursor

(* The others consume the Cursor an answer was for.  A completed turn then *)
(* projects its own (_project_collection_cursor): none after help, status  *)
(* and policies; the first missing field, where the draft is the one that  *)
(* its terminal tells; or the one that is there.  A terminal that tells    *)
(* another revision fails the transaction: the call ends, as in Crash.     *)
OutcomeCursor(p) ==
    LET completed == exec'[worker[p].seq].status = "completed"
        held == IF worker[p].resumed = NoInput THEN cursor ELSE NoCursor
    IN  /\ worker[p].outcome # "interrupt"
        /\ \/ cursor' = held
           \/ completed /\ cursor' = NoCursor
           \/ /\ completed /\ ~draft.confirmed /\ exec[worker[p].seq].text # "confirm"
              /\ cursor' = Question("collection", draft.revision)

CursorFollows(p) ==
    \/ PersistCursor(p)
    \/ ResumeCursor(p)
    \/ worker[p].pc \in {"stopped", "parked"} /\ (InterruptCursor(p) \/ OutcomeCursor(p))
    \/ /\ worker[p].pc \notin {"persisting", "stopped", "parked"}
       /\ At(p, "hydrating") => worker[p].resumed = NoInput
       /\ UNCHANGED cursor

(* A candidate that is promoted where the graph interrupted retains the    *)
(* interrupt task of the pending input it asks for, an answered one again. *)
Interrupts(p) ==
    worker[p].outcome = "interrupt" /\ exec'[worker[p].seq].head # exec[worker[p].seq].head
Retain(head, n) ==
    task' = [h \in DOMAIN task \cup {head} |-> IF h = head THEN n ELSE task[h]]

TaskFollows(p) ==
    IF worker[p].pc \in {"stopped", "parked"} /\ Interrupts(p)
    THEN Retain(worker[p].fence,
                IF worker[p].resumed = NoInput THEN Len(pending)' ELSE worker[p].resumed)
    ELSE UNCHANGED task

Resolves(p) == flow = 2 \/ p \in stragglers
Admission(p) ==
    /\ Resolves(p)
    /\ \/ BeginInput(p)
       \/ \E n \in DOMAIN pending, text \in Texts : BeginResume(p, n, text)
       \/ \E s \in DOMAIN exec : Takeover(p, s)
    /\ stragglers' = stragglers \ {p}
    /\ UNCHANGED <<flow, cursor, task>>

Turn(p) ==
    ~At(p, "idle") /\ GraphStep(p) /\ CursorFollows(p) /\ TaskFollows(p) /\ UNCHANGED binding

(* An idle worker may have had no call, or find its admission refused.     *)
Refused(p) ==
    /\ p \in stragglers
    /\ stragglers' = stragglers \ {p}
    /\ UNCHANGED <<vars, flow, cursor, task>>

Mishap ==
    /\ \/ \E p \in Workers : Reject(p) \/ Crash(p) \/ DisconnectEarly(p) \/ LoseLock(p)
       \/ \E s \in DOMAIN exec : LeaseExpires(s)
       \/ Logout
    /\ UNCHANGED rollback

-----------------------------------------------------------------------------
(* The form and the submission, whatever the engine.                       *)
Form(confirmed) ==
    FormEdit(confirmed) /\ cursor' = NoCursor /\ UNCHANGED <<binding, task>>

(* submit_request freezes the confirmed draft it read at its start, and    *)
(* clears the Cursor at its end, whichever question is open by then.  Of   *)
(* an earlier draft it is not kept whether it was confirmed: any may be.   *)
Submission ==
    /\ session /\ draft.revision > 0 /\ cursor # NoCursor /\ fence < MaxFence
    /\ cursor' = NoCursor
    /\ UNCHANGED <<vars, binding, task>>

-----------------------------------------------------------------------------
(* The bridge.                                                             *)

(* pending_is_superseded: the turn that answered has ended on another head *)
(* that retains no task.                                                   *)
\* Mutant: only a completed turn consumes the interrupt.
CompletedSupersedes(n) ==
    /\ pending[n].status = "resolved"
    /\ LET answer == exec[pending[n].resumeSeq]
       IN  /\ answer.status = "completed"
           /\ answer.head \notin {NoHead, pending[n].head} \cup DOMAIN task

Superseded(n) ==
    /\ pending[n].status = "resolved"
    /\ LET answer == exec[pending[n].resumeSeq]
       IN  /\ answer.status # "running"
           /\ answer.head \notin {NoHead, pending[n].head} \cup DOMAIN task

(* A task belongs to the open question, to a retired one, or was consumed; *)
(* every other one blocks.                                                 *)
Accounted(head) ==
    LET n == task[head]
    IN  Live(n) \/ pending[n].status # "resolved" \/ Superseded(n)
AcceptedHeads ==
    {exec[s].head : s \in DOMAIN exec} \cup {pending[n].head : n \in DOMAIN pending}
Blocked ==
    \/ \E s \in DOMAIN exec : Running(s)
    \/ \E head \in AcceptedHeads \cap DOMAIN task : ~Accounted(head)
    \/ \E n \in DOMAIN pending : Live(n) /\ pending[n].head \notin DOMAIN task

OpenQuestions == {n \in DOMAIN pending : Live(n)}

(* resume_sequence_status_consistent (db/models.py): a retired row has no  *)
(* resume_input_seq, and the bridge does not take it away: a question that *)
(* is still resuming makes the transaction fail, although the plan is free *)
(* of blocking reasons.                                                    *)
RowsAccepted == \A n \in OpenQuestions : pending[n].resumeSeq = NoInput

(* _clean_mapping: the question is still about the draft, and its session  *)
(* is valid.  The Cursor of such a question is kept (_cursor_matches_      *)
(* pending: the actor and the session are always the same here), or put in *)
(* the place of what there is.                                             *)
Clean(n) == session /\ draft.revision = pending[n].revision

\* Mutant: a Cursor that is there is kept, and otherwise there is none.
RetireCarrying(n) ==
    /\ pending' = [pending EXCEPT ![n].status =
                      IF Clean(n) THEN "abandoned_to_legacy" ELSE "abandoned_conflict"]
    /\ UNCHANGED cursor

Retire(n) ==
    IF Clean(n)
    THEN /\ pending' = [pending EXCEPT ![n].status = "abandoned_to_legacy"]
         /\ cursor' = IF Asks("confirmation") THEN cursor
                      ELSE Question("confirmation", pending[n].revision)
    ELSE /\ pending' = [pending EXCEPT ![n].status = "abandoned_conflict"]
         /\ cursor' = NoCursor

Move ==
    /\ \/ OpenQuestions = {} /\ UNCHANGED <<pending, cursor>>
       \/ \E n \in OpenQuestions : Retire(n)
    /\ flow' = 1
    /\ stragglers' = IF flow = 2 THEN {p \in Workers : At(p, "idle")} ELSE stragglers
    /\ UNCHANGED <<session, fence, exec, effects, saved, lock, worker, task>>

(* execute: under the advisory lock and the locked Workspace row.          *)
Bridge == lock = NoWorker /\ ~Blocked /\ RowsAccepted /\ Move

(* A legacy turn: a CAS on the draft, which clears or consumes the Cursor, *)
(* and in a later transaction a question about the draft as it is, or none *)
(* (_apply_cursor_transition).                                             *)
LegacyWrite(confirmed) ==
    /\ flow = 1 /\ session /\ draft.revision < MaxRevision
    /\ draft' = [revision |-> draft.revision + 1, confirmed |-> confirmed]
    /\ cursor' = NoCursor
    /\ UNCHANGED <<session, rows, ledger, quota, saved, lock, worker, binding, task>>
LegacyCursor ==
    /\ flow = 1 /\ session /\ fence < MaxFence
    /\ \/ cursor' = NoCursor
       \/ ~draft.confirmed /\ \E kind \in {"confirmation", "collection"} :
             cursor' = Question(kind, draft.revision)
    /\ UNCHANGED <<vars, binding, task>>

EngineNext ==
    \/ \E p \in Workers : Admission(p) \/ Turn(p) \/ Refused(p)
    \/ Mishap
    \/ \E confirmed \in BOOLEAN : Form(confirmed)
    \/ Submission
    \/ Bridge
    \/ \E confirmed \in BOOLEAN : LegacyWrite(confirmed)
    \/ LegacyCursor

engineVars == <<vars, rollback>>
EngineSpec == EngineInit /\ [][EngineNext]_engineVars

-----------------------------------------------------------------------------
(* A question that was handed to the legacy engine was not answered by     *)
(* LangGraph, and never will be: no replay of its answer may still confirm *)
(* the draft behind the legacy engine's back, and no call that was         *)
(* dispatched before the move continues the conversation where it asked.   *)
RetiredIsUnanswered ==
    \A n \in DOMAIN pending : Retired(n) =>
        /\ ~Done(Confirm(n))
        /\ \A s \in DOMAIN exec : Running(s) => exec[s].head # pending[n].head

(* A tombstone is immutable: no call that was dispatched before the move   *)
(* resumes, re-arms or resolves it.                                        *)
RetiredStaysRetired ==
    [][\A n \in DOMAIN pending : Retired(n) => pending'[n] = pending[n]]_engineVars

(* Whatever question the legacy engine finds in the Cursor after the move, *)
(* it is about the draft as it is, an open one that is carried over        *)
(* included; and it is the confirmation if and only if the bridge has just *)
(* handed that very question over.                                         *)
HandedOver(n) == ~Retired(n) /\ pending'[n].status = "abandoned_to_legacy"
MovedQuestionFits ==
    [][flow = 2 /\ flow' = 1 =>
          /\ \A c \in cursor' : c.revision = draft'.revision
          /\ Asks("confirmation")' <=> \E n \in DOMAIN pending : HandedOver(n)]_engineVars

(* With the session alive, every conversation that has come to rest can be *)
(* reconciled: whatever crashed, was taken over or asked again before, no  *)
(* retained task is left unaccounted for.  (The rows may still refuse the  *)
(* plan, see RowsAccepted.)                                                *)
DrainedCanMove == session /\ (\A s \in DOMAIN exec : ~Running(s)) => ~Blocked
=============================================================================
