------------------------------ MODULE LegacyTurns ------------------------------
(***************************************************************************)
(* The turns of a Workspace that the legacy engine serves, and the log of  *)
(* WorkspaceEvents they write (events.py).  A turn comes over SSE          *)
(* (create_chat_message_stream, main.py: a worker thread prepares the      *)
(* turn, the event loop streams the answer and writes the terminal) or     *)
(* over JSON (handle_chat_message, conversation.py).                       *)
(*                                                                         *)
(* An event gets its id from a sequence when it is inserted and is seen    *)
(* when its transaction commits, so both are steps; the gaps that rolled   *)
(* back inserts leave in the ids are left out.  turn.started of an SSE     *)
(* turn and all terminals are written under the Workspace row lock (FOR    *)
(* UPDATE).  Other events do not ask for it, but the foreign key           *)
(* workspace_events.workspace_id does, FOR KEY SHARE, at the end of their  *)
(* INSERT, when the id is drawn: such an insert waits while another turn   *)
(* holds the row, and keeps the row from the others until it commits.  Two *)
(* of them do not wait for each other.  Here the key is checked in the     *)
(* step that commits: sooner or later makes no difference to the others,   *)
(* who meanwhile may only draw ids.                                        *)
(*                                                                         *)
(* A client may go away at any time: a response that awaits its worker or  *)
(* answer is told, one that is sending a frame may just be dropped.  The   *)
(* process may die at any time.                                            *)
(* Not modelled: texts and payloads, the draft and the quota, LangGraph    *)
(* turns (TurnExecution), the replay of facts into the turn's own stream,  *)
(* and the other events of a turn, which are written as JSON's turn.started*)
(* is: without FOR UPDATE, each in a transaction of its own.               *)
(***************************************************************************)
EXTENDS Naturals, FiniteSets, Sequences

CONSTANT TurnCount  \* turns are numbered in the order in which they begin

ASSUME TurnCountAssumption == TurnCount \in Nat \ {0}

Turns == 1..TurnCount
NoTurn == 0

VARIABLES log,     \* committed events, in the order of their commits
          open,    \* events inserted by transactions that have not committed
          row,     \* the turn whose transaction holds the Workspace row, or NoTurn
          lapsed,  \* turns whose five-minute lease has run out
          asked,   \* the turn whose question the Cursor is, or NoTurn
          streamed,\* turns that came over SSE
          cut,     \* SSE turns whose client left while the worker ran
          pc

events == <<log, open, row>>
turnVars == <<events, lapsed, asked, streamed, cut, pc>>

Terminals == {"completed", "error", "interrupted"}
Event == [id : Nat, turn : Turns, type : Terminals \cup {"started"}]
PC == {"idle", "starting", "ready", "working", "apologising", "prepared", "failed",
       "answered", "closing", "finalizing", "done", "over"}

Logged == {log[i] : i \in DOMAIN log}
Inserted == Logged \cup open
\* Mutant: the id of an event is counted from the events that can be read.
LastReadableId == CHOOSE n \in {0} \cup {e.id : e \in Logged} : \A e \in Logged : e.id <= n

LastId == CHOOSE n \in {0} \cup {e.id : e \in Inserted} : \A e \in Inserted : e.id <= n

TurnsTypeOK ==
    /\ log \in Seq(Event) /\ open \subseteq Event
    /\ \A e, f \in Inserted : e.id = f.id => e = f
    /\ row \in Turns \cup {NoTurn} /\ asked \in Turns \cup {NoTurn}
    /\ lapsed \subseteq Turns /\ cut \subseteq streamed /\ streamed \subseteq Turns
    /\ pc \in [Turns -> PC]

TurnsInit ==
    /\ log = <<>> /\ open = {}
    /\ row = NoTurn /\ asked = NoTurn
    /\ lapsed = {} /\ streamed = {} /\ cut = {}
    /\ pc = [t \in Turns |-> "idle"]

At(t, label) == pc[t] = label
Goto(t, label) == pc' = [pc EXCEPT ![t] = label]
IsNext(t) == At(t, "idle") /\ \A u \in Turns : u < t => ~At(u, "idle")
Of(t, types) == {e \in Logged : e.turn = t /\ e.type \in types}
Started(t) == Of(t, {"started"}) # {}
Terminated(t) == Of(t, Terminals) # {}
Writes(t) == \E e \in open : e.turn = t
Insert(t, type) ==
    /\ open' = open \cup {[id |-> LastId + 1, turn |-> t, type |-> type]}
    /\ UNCHANGED log

-----------------------------------------------------------------------------
(* append_turn_started: under the row lock, no other turn may be in        *)
(* progress, unless its lease has run out.                                 *)
InProgress(t) == Started(t) /\ ~Terminated(t) /\ t \notin lapsed

\* Mutant: the row is locked after the look at the other turns.
BeginSseLate(t) ==
    /\ IsNext(t)
    /\ \A u \in Turns : ~InProgress(u)
    /\ Insert(t, "started") /\ UNCHANGED row
    /\ streamed' = streamed \cup {t}
    /\ Goto(t, "starting")
    /\ UNCHANGED <<lapsed, asked, cut>>

BeginSse(t) ==
    /\ IsNext(t) /\ row = NoTurn
    /\ \A u \in Turns : ~InProgress(u)
    /\ Insert(t, "started") /\ row' = t
    /\ streamed' = streamed \cup {t}
    /\ Goto(t, "starting")
    /\ UNCHANGED <<lapsed, asked, cut>>

(* The JSON entry just writes turn.started.                                *)
BeginJson(t) ==
    /\ IsNext(t)
    /\ Insert(t, "started")
    /\ Goto(t, "starting")
    /\ UNCHANGED <<row, lapsed, asked, streamed, cut>>

\* Mutant: the Cursor moves on after whatever terminal this turn wrote.
AfterAny(t, type) ==
    CASE At(t, "starting") -> IF t \in streamed THEN "ready" ELSE "working"
      [] At(t, "closing") -> IF t \in streamed THEN "finalizing" ELSE "over"
      [] OTHER -> pc[t]

(* What the turn goes on with when its insert has committed.               *)
After(t, type) ==
    CASE At(t, "starting") -> IF t \in streamed THEN "ready" ELSE "working"
      [] At(t, "closing") -> IF t \in streamed /\ type = "completed" THEN "finalizing"
                             ELSE IF t \in streamed THEN "done" ELSE "over"
      [] OTHER -> pc[t]

(* The turn holds the row, or its foreign key is checked when nobody does. *)
Commit(t) ==
    \E e \in open :
        /\ e.turn = t /\ row \in {t, NoTurn}
        /\ open' = open \ {e} /\ log' = Append(log, e)
        /\ row' = IF row = t THEN NoTurn ELSE row
        /\ Goto(t, After(t, e.type))
        /\ UNCHANGED <<lapsed, asked, streamed, cut>>

-----------------------------------------------------------------------------
(* _process_chat_message, in the worker thread or the JSON call.           *)
StartWorker(t) ==
    /\ At(t, "ready") /\ Goto(t, "working")
    /\ UNCHANGED <<events, lapsed, asked, streamed, cut>>

(* No usable reply: JSON writes its error.recoverable as any other event,  *)
(* followed by the assistant's message.                                    *)
Apologise(t) ==
    /\ At(t, "working") /\ ~Writes(t) /\ t \notin streamed
    /\ Insert(t, "error")
    /\ Goto(t, "apologising")
    /\ UNCHANGED <<row, lapsed, asked, streamed, cut>>

WorkerEnds(t) ==
    /\ At(t, "working") /\ ~Writes(t)
    /\ \E label \in {"prepared", "failed"} : Goto(t, label)
    /\ UNCHANGED <<events, lapsed, asked, streamed, cut>>

-----------------------------------------------------------------------------
(* append_turn_terminal: once per turn, under the row lock.                *)
\* Mutant: it does not look for a terminal that is there.
AppendTerminalBlindly(t, type) ==
    /\ row = NoTurn
    /\ Insert(t, type) /\ row' = t /\ Goto(t, "closing")

AppendTerminal(t, type) ==
    /\ row = NoTurn
    /\ IF Terminated(t)
       THEN UNCHANGED events /\ Goto(t, "over")
       ELSE Insert(t, type) /\ row' = t /\ Goto(t, "closing")

(* The event loop after the worker: the answer or an error.  Once the      *)
(* client has left, only cleanup_after_worker_stops waits for the worker.  *)
CloseSse(t) ==
    /\ t \in streamed \ cut
    /\ \/ At(t, "prepared") /\ \E type \in Terminals : AppendTerminal(t, type)
       \/ At(t, "failed") /\ AppendTerminal(t, "error")
    /\ UNCHANGED <<lapsed, asked, streamed, cut>>

\* Mutant: it gives up when the worker has failed.
CleanupPrepared(t) ==
    /\ t \in cut /\ At(t, "prepared") /\ AppendTerminal(t, "interrupted")
    /\ UNCHANGED <<lapsed, asked, streamed, cut>>

Cleanup(t) ==
    /\ t \in cut /\ pc[t] \in {"prepared", "failed"} /\ AppendTerminal(t, "interrupted")
    /\ UNCHANGED <<lapsed, asked, streamed, cut>>

(* JSON: the Cursor first (MoveCursor), then the terminal.                 *)
CloseJson(t) ==
    /\ t \notin streamed
    /\ \/ At(t, "answered") /\ AppendTerminal(t, "completed")
       \/ pc[t] \in {"prepared", "failed"} /\ AppendTerminal(t, "error")
       \/ At(t, "apologising") /\ ~Writes(t) /\ AppendTerminal(t, "error")
    /\ UNCHANGED <<lapsed, asked, streamed, cut>>

(* finalize_success of an SSE turn, whose own message.completed is in the  *)
(* log; a JSON turn on its way there.  The CAS of activate_cursor may find *)
(* another revision, and a turn may ask nothing.                           *)
MoveCursor(t) ==
    /\ row = NoTurn
    /\ \/ At(t, "finalizing") /\ Goto(t, "done")
       \/ At(t, "prepared") /\ t \notin streamed /\ Goto(t, "answered")
    /\ asked' \in {t, asked, NoTurn}
    /\ UNCHANGED <<events, lapsed, streamed, cut>>

(* handle_disconnect, before there is a worker or after the end; while the *)
(* worker runs the turn is left to Cleanup.                                *)
Disconnect(t) ==
    /\ t \in streamed \ cut
    /\ \/ pc[t] \in {"ready", "done"} /\ AppendTerminal(t, "interrupted") /\ UNCHANGED cut
       \/ At(t, "working") /\ cut' = cut \cup {t} /\ UNCHANGED <<events, pc>>
    /\ UNCHANGED <<lapsed, asked, streamed>>

(* The process dies, or the response is dropped between two frames; an     *)
(* open transaction is rolled back.                                        *)
Vanish(t) ==
    /\ pc[t] \notin {"idle", "done", "over"}
    /\ open' = {e \in open : e.turn # t}
    /\ row' = IF row = t THEN NoTurn ELSE row
    /\ Goto(t, "over")
    /\ UNCHANGED <<log, lapsed, asked, streamed, cut>>

(* The lease matters only to a turn that has yet to begin.                 *)
LeaseLapses(t) ==
    /\ InProgress(t) /\ \E u \in Turns : At(u, "idle")
    /\ lapsed' = lapsed \cup {t}
    /\ UNCHANGED <<events, asked, streamed, cut, pc>>

ServerStep(t) ==
    \/ Commit(t) \/ StartWorker(t) \/ WorkerEnds(t)
    \/ CloseSse(t) \/ Cleanup(t) \/ CloseJson(t) \/ MoveCursor(t)
TurnStep(t) ==
    \/ BeginSse(t) \/ BeginJson(t)
    \/ ServerStep(t)
    \/ Apologise(t) \/ Disconnect(t) \/ Vanish(t) \/ LeaseLapses(t)

-----------------------------------------------------------------------------
(* A turn has one terminal, however its worker, its response, its cleanup  *)
(* and its client's departure follow on each other.                        *)
OneTerminalPerTurn ==
    \A t \in Turns :
        Cardinality({e \in Inserted : e.turn = t /\ e.type \in Terminals}) <= 1

(* Two SSE turns are never in progress at once, unless a lease ran out.    *)
OneStreamedTurn == Cardinality({t \in streamed : InProgress(t)}) <= 1

(* The question of an SSE turn becomes the Cursor only when its answer is  *)
(* in the log as completed: a number is never read as the reply to a       *)
(* question whose turn broke off.                                          *)
CursorAfterAnswer == asked \in streamed => Of(asked, {"completed"}) # {}
=============================================================================
