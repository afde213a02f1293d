------------------------------ MODULE EventStream ------------------------------
(***************************************************************************)
(* The background event stream of a page (replay_events, main.py, and its  *)
(* client, WorkbenchRuntime.tsx) over the log that LegacyTurns write, in a *)
(* session that may be revoked or expire (auth.py).                        *)
(*                                                                         *)
(* The generator checks the session before it lists the events after its   *)
(* cursor and again before each of them.  The page remembers the largest   *)
(* id it received and names it in Last-Event-ID when it connects again.    *)
(* Frames that were sent but not received are lost with the connection.    *)
(***************************************************************************)
EXTENDS LegacyTurns

VARIABLES session,   \* the AuthSession is neither revoked nor expired
          stream,    \* the generator: closed, listening, or checked the session
          cursor,    \* the generator's cursor
          batch,     \* listed events that are still to be sent
          seen,      \* ids the page received, in order
          late       \* events sent since the session ended

streamVars == <<stream, cursor, batch, seen, late>>
allVars == <<turnVars, session, streamVars>>

LastSeen == IF seen = <<>> THEN 0 ELSE seen[Len(seen)]

StreamTypeOK ==
    /\ TurnsTypeOK
    /\ session \in BOOLEAN
    /\ stream \in {"closed", "listening", "checked"}
    /\ cursor \in 0..LastId
    /\ batch \subseteq {e \in Logged : e.id > cursor}
    /\ \A i \in DOMAIN seen : \E e \in Logged : e.id = seen[i]
    /\ late \in Nat

StreamInit ==
    /\ TurnsInit
    /\ session = TRUE
    /\ stream = "closed" /\ cursor = 0 /\ batch = {}
    /\ seen = <<>> /\ late = 0

(* auth_boundary and require_workspace: a new stream needs a session.      *)
\* Mutant: the stream starts at the beginning of the log.
ConnectAnew ==
    /\ stream = "closed" /\ session
    /\ stream' = "listening" /\ cursor' = 0 /\ batch' = {}
    /\ UNCHANGED <<turnVars, session, seen, late>>

\* Mutant: the stream starts at the end of the log.
ConnectAtEnd ==
    /\ stream = "closed" /\ session
    /\ stream' = "listening" /\ cursor' = LastReadableId /\ batch' = {}
    /\ UNCHANGED <<turnVars, session, seen, late>>

Connect ==
    /\ stream = "closed" /\ session
    /\ stream' = "listening" /\ cursor' = LastSeen /\ batch' = {}
    /\ UNCHANGED <<turnVars, session, seen, late>>

CheckSession ==
    /\ stream = "listening"
    /\ stream' = IF session THEN "checked" ELSE "closed"
    /\ batch' = IF session THEN batch ELSE {}
    /\ cursor' = IF session THEN cursor ELSE 0
    /\ UNCHANGED <<turnVars, session, seen, late>>

(* list_workspace_events.                                                  *)
New == {e \in Logged : e.id > cursor}
List ==
    /\ stream = "checked" /\ batch = {}
    /\ batch' = New
    /\ stream' = "listening"
    /\ UNCHANGED <<turnVars, session, cursor, seen, late>>

\* Mutant: the session is checked once per listing.
Connected == stream # "closed"

Checked == stream = "checked"

(* One event goes out, in order of id.                                     *)
Send ==
    /\ Checked
    /\ \E e \in batch :
          /\ \A f \in batch : e.id <= f.id
          /\ cursor' = e.id
          /\ seen' = Append(seen, e.id)
          /\ batch' = batch \ {e}
    /\ stream' = "listening"
    /\ late' = IF session THEN late ELSE late + 1
    /\ UNCHANGED <<turnVars, session>>

Drop ==
    /\ stream # "closed"
    /\ stream' = "closed" /\ batch' = {} /\ cursor' = 0
    /\ UNCHANGED <<turnVars, session, seen, late>>

(* revoke_session, or the time of expiry.                                  *)
SessionEnds ==
    /\ session
    /\ session' = FALSE
    /\ UNCHANGED <<turnVars, streamVars>>

StreamStep == CheckSession \/ List \/ Send

StreamNext ==
    \/ \E t \in Turns : TurnStep(t) /\ UNCHANGED <<session, streamVars>>
    \/ Connect \/ StreamStep \/ Drop
    \/ SessionEnds

StreamSpec == StreamInit /\ [][StreamNext]_allVars

(* The pages and clients of a Workspace that only uses the JSON entry.     *)
JsonSpec == StreamInit /\ [][StreamNext /\ streamed' = {}]_allVars

(* Threads and the event loop go on, and the page reconnects.              *)
StreamFairness ==
    /\ \A t \in Turns : WF_allVars(ServerStep(t) /\ UNCHANGED <<session, streamVars>>)
    /\ WF_allVars(StreamStep)
FairStreamSpec == StreamSpec /\ StreamFairness

-----------------------------------------------------------------------------
(* The page is shown every event at most once and in the order of the log, *)
(* over any number of broken connections.                                  *)
ShownInOrder == \A i, j \in DOMAIN seen : i < j => seen[i] < seen[j]

(* An event that the page has passed over for ever was overtaken: an event *)
(* with a larger id was committed before it.  A lost connection or frame   *)
(* alone never costs an event.                                             *)
Shown(e) == \E i \in DOMAIN seen : seen[i] = e.id
Overtaken(n) == \E m \in 1..(n - 1) : log[m].id > log[n].id
OnlyOvertakenAreMissed ==
    \A n \in DOMAIN log : log[n].id < LastSeen => Shown(log[n]) \/ Overtaken(n)

(* Logout and expiry reach an open stream: at most the one event it was    *)
(* about to send still goes out.                                           *)
RevokedStreamStops == late <= 1

(* Every turn that was started over SSE gets its terminal, unless its      *)
(* process died or its response was dropped: neither an error nor a client *)
(* that leaves keeps the Workspace waiting for the lease.                  *)
TurnsAreClosed ==
    \A t \in Turns : t \in streamed ~> Terminated(t) \/ At(t, "over")

(* "Reconnecting with Last-Event-ID resends exactly the missed events"     *)
(* (docs/tickets/accesspilot-mvp-v1.md:68).                                *)
NothingMissed == \A e \in Logged : e.id < LastSeen => Shown(e)
=============================================================================
