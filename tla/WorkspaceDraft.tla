---------------------------- MODULE WorkspaceDraft ----------------------------
(***************************************************************************)
(* The draft of a Workspace on flow 1 and everyone who writes it: turns of *)
(* the Legacy engine (conversation.py), the form and the submission        *)
(* (main.py, requests.py), and the reads, over WorkspaceService and its    *)
(* store (workspaces.py, db/workspace_store.py).                           *)
(*                                                                         *)
(* A call is one HTTP request.  Each method of the store is a transaction  *)
(* of its own, hence a step; between a call's read of the row and its      *)
(* write any other call may commit.  A read that meets a consumed Cursor   *)
(* drops it and then saves the whole row as it was read: Normalise.  Of    *)
(* the fields of a request, the term and one text stand for all; a term    *)
(* above MaxDays fails the directory's checks.                             *)
(*                                                                         *)
(* Not modelled here: quota, events and terminals of a turn (LegacyTurns), *)
(* what a message is understood to say (it may say anything), a Cursor of  *)
(* another AuthSession or actor, and the Demo operations of                *)
(* WorkspaceService, whose routes auth_boundary closes.                    *)
(***************************************************************************)
EXTENDS Naturals

CONSTANTS Calls, NoDraft,
          MaxDays,     \* max_duration_days of the entitlement
          MaxRevision  \* bound on draft_revision

ASSUME DraftAssumption == MaxDays \in Nat \ {0} /\ MaxRevision \in Nat

VARIABLES row,       \* the WorkspaceRecord: draft, draft_revision, Cursor
          requests,  \* the AccessRequestRecords
          call

vars == <<row, requests, call>>

Missing == 0  \* a term or a text that is not there yet
Terms == 0..MaxDays + 1
Texts == 0..1
NoConsent == <<>>
Consents == {NoConsent} \cup (Terms \X Texts)

(* A draft, and the fields its requester said "confirmed" to (a ghost: the *)
(* record has only the flag `confirmed`).                                  *)
Drafts == [days : Terms, text : Texts, consent : Consents]
Blank == [days |-> Missing, text |-> Missing, consent |-> NoConsent]
ASSUME NoDraftAssumption == NoDraft \notin Drafts
Seen(d) == IF d = NoDraft THEN Blank ELSE d
Confirmed(d) == d.consent # NoConsent
Complete(d) == d.days # Missing /\ d.text # Missing
Valid(d) == Complete(d) /\ d.days <= MaxDays

Fields == {"duration_days", "justification", "confirmation"}
\* Mutant: a complete draft is asked for what no Cursor may ask.
AskMore(d) ==
    CASE d.days = Missing -> "duration_days"
      [] d.days # Missing /\ d.text = Missing -> "justification"
      [] OTHER -> "anything_else"

NextQuestion(d) ==
    CASE d.days = Missing -> "duration_days"
      [] d.days # Missing /\ d.text = Missing -> "justification"
      [] OTHER -> "confirmation"

Cursors == [field : Fields \cup {"none"}, consumed : BOOLEAN]
NoCursor == [field |-> "none", consumed |-> FALSE]
Asking(field) == [field |-> field, consumed |-> FALSE]
Rows == [draft : Drafts \cup {NoDraft}, revision : Nat, cursor : Cursors]

Idle == [pc |-> "idle"]
Busy == [pc : {"composing", "counted", "reloading", "rereading", "asking", "activating",
               "dropping", "clearing", "drafted", "saving", "submitting", "leaving"},
         seen : Rows,           \* the Workspace as last read
         dirty : BOOLEAN,       \* that read dropped a consumed Cursor: save it
         draft : Drafts,        \* what the call writes or wrote
         turn : Cursors \X Nat] \* the question and draft_revision of its turn

TypeOK ==
    /\ row \in Rows
    /\ requests \subseteq Drafts
    /\ call \in [Calls -> Busy \cup {Idle}]

Init ==
    /\ row = [draft |-> NoDraft, revision |-> 0, cursor |-> NoCursor]
    /\ requests = {}
    /\ call = [p \in Calls |-> Idle]

At(p, pc) == call[p].pc = pc /\ (pc # "idle" => ~call[p].dirty)
Now(p, c) == call' = [call EXCEPT ![p] = c]
End(p) == Now(p, Idle)
Grows == row.revision < MaxRevision

-----------------------------------------------------------------------------
(* WorkspaceService.get.  A call keeps of the row what it will compare or  *)
(* copy: all of it, the draft, the revision with either, or nothing.       *)
NoTurn == <<NoCursor, 0>>
Unread == [draft |-> NoDraft, revision |-> 0, cursor |-> NoCursor]
Kept(r, pc) ==
    CASE pc \in {"composing", "counted"} -> r
      [] pc = "saving" -> [r EXCEPT !.cursor = NoCursor]
      [] pc = "submitting" -> [Unread EXCEPT !.draft = r.draft]
      [] pc \in {"activating", "clearing"} -> [r EXCEPT !.draft = NoDraft]
      [] OTHER -> Unread

Loaded(c, pc) ==
    LET clean == [row EXCEPT !.cursor = NoCursor]
    IN  [c EXCEPT !.pc = pc, !.dirty = row.cursor.consumed,
                  !.seen = IF row.cursor.consumed THEN clean ELSE Kept(row, pc)]

Load(p, pc) == Now(p, Loaded(call[p], pc))
Fresh(draft) ==
    [pc |-> "leaving", seen |-> Unread, dirty |-> FALSE, draft |-> draft, turn |-> NoTurn]

(* WorkspaceStore.save compares what was read with the row it selects, and *)
(* writes the columns that differ: where others commit before and after    *)
(* the select, any of the columns may be among them.                       *)
Normalise(p) ==
    /\ call[p].pc # "idle" /\ call[p].dirty
    /\ row' \in [draft : {row.draft, call[p].seen.draft},
                 revision : {row.revision, call[p].seen.revision},
                 cursor : {row.cursor, call[p].seen.cursor}]
    /\ Now(p, [call[p] EXCEPT !.dirty = FALSE, !.seen = Kept(@, call[p].pc)])
    /\ UNCHANGED requests

\* Mutant: the update compares nothing.
UpdateDraft(expected, draft) ==
    row' = [draft |-> draft, revision |-> expected + 1, cursor |-> NoCursor]

UpdateDraftCas(expected, draft) ==
    /\ row.revision = expected
    /\ row' = [draft |-> draft, revision |-> expected + 1, cursor |-> NoCursor]

ConsumeCursorCas(expected, field, draft) ==
    /\ row.revision = expected /\ row.cursor = Asking(field)
    /\ row' = [draft |-> draft, revision |-> expected + 1,
               cursor |-> [field |-> field, consumed |-> TRUE]]

-----------------------------------------------------------------------------
(* A turn: _process_chat_message reads the row, and what it makes of the   *)
(* message ends in at most one write of the draft.                         *)
StartTurn(p) ==
    /\ At(p, "idle")
    /\ Now(p, Loaded(Fresh(Blank), "composing"))
    /\ UNCHANGED <<row, requests>>

(* Afterwards the turn's Cursor transition, or none.                       *)
Leave(p) == Now(p, Fresh(Blank))
Ask(p, draft, revision) ==
    Now(p, [Fresh(Blank) EXCEPT !.pc = "asking",
                                !.turn = <<Asking(NextQuestion(draft)), revision>>])

(* Help, policies and queries drop the Cursor; what is unknown or unsafe,  *)
(* fails, or names no one entitlement changes nothing.                     *)
Digress(p) ==
    /\ At(p, "composing")
    /\ \/ Load(p, "clearing")
       \/ Load(p, "counted")
       \/ Leave(p)
    /\ UNCHANGED <<row, requests>>

(* _numeric_follow_up reads the row again; what the number means is for    *)
(* the Cursor to say.                                                      *)
AnswerWithNumber(p, days) ==
    LET seen == call[p].seen
        proposed == [Seen(seen.draft) EXCEPT !.days = days, !.consent = NoConsent]
        meant == seen.cursor = Asking("duration_days") /\ days \in 1..MaxDays
    IN  /\ At(p, "counted")
        /\ \/ ~meant /\ Leave(p) /\ UNCHANGED row
           \/ /\ ~meant /\ seen.cursor # NoCursor
              /\ Ask(p, Seen(seen.draft), seen.revision) /\ UNCHANGED row
           \/ /\ meant /\ Grows
              /\ ConsumeCursorCas(seen.revision, "duration_days", proposed)
              /\ Now(p, [Fresh(Blank) EXCEPT !.pc = "rereading"])
           \/ /\ meant /\ (row.revision # seen.revision \/ row.cursor # seen.cursor)
              /\ Leave(p) /\ UNCHANGED row
        /\ UNCHANGED requests

(* _merge_reply of a parsed reply.  Its consent is read from the user's    *)
(* own words: a changed field needs a consent of this very turn.           *)
Merged(d, days, text) ==
    [d EXCEPT !.days = IF days = Missing THEN @ ELSE days,
              !.text = IF text = Missing THEN @ ELSE text]

\* Mutant: the old confirmation covers the new fields.
MergeKeepingConsent(d, days, text, says) ==
    LET new == Merged(d, days, text)
    IN  [new EXCEPT !.consent = CASE says = "yes" -> <<new.days, new.text>>
                                  [] says = "no" -> NoConsent
                                  [] OTHER -> @]

MergeReply(d, days, text, says) ==
    LET new == Merged(d, days, text)
    IN  [new EXCEPT !.consent =
            CASE says = "yes" -> <<new.days, new.text>>
              [] says = "no" \/ (says = "nothing" /\ new # d) -> NoConsent
              [] OTHER -> @]

(* The write is a CAS on the revision the turn entered with.  A text that  *)
(* answers a justification Cursor has to consume that Cursor; the others   *)
(* clear it.  A conflict leaves the newer draft alone and ends the turn.   *)
AnswerWithReply(p, days, text, says) ==
    LET seen == call[p].seen
        draft == MergeReply(Seen(seen.draft), days, text, says)
        Wrote == Now(p, [Fresh(draft) EXCEPT !.pc = "reloading"])
        reason == seen.cursor = Asking("justification") /\ days = Missing
                      /\ text # Missing /\ says = "nothing"
    IN  /\ At(p, "composing")
        /\ \/ draft = seen.draft /\ Wrote /\ UNCHANGED row
           \/ /\ draft # seen.draft /\ Grows
              /\ UpdateDraftCas(seen.revision, draft) /\ Wrote
           \/ /\ draft # seen.draft /\ reason /\ Grows
              /\ ConsumeCursorCas(seen.revision, "justification", draft) /\ Wrote
           \/ /\ draft # seen.draft
              /\ (row.revision # seen.revision \/ (reason /\ row.cursor # seen.cursor))
              /\ Leave(p) /\ UNCHANGED row
        /\ UNCHANGED requests

(* The turn talks about the draft it wrote, or after a number about the    *)
(* draft it reads back, under the revision of the row as it is read back.  *)
(* A draft that fails the checks asks nothing.                             *)
JudgeDraft(p) ==
    LET d == IF At(p, "reloading") THEN call[p].draft ELSE Seen(row.draft)
        c == CASE Valid(d) /\ Confirmed(d) -> Loaded(Fresh(Blank), "dropping")
               [] Complete(d) /\ ~Valid(d) -> Loaded(Fresh(Blank), "leaving")
               [] OTHER -> [Loaded(Fresh(Blank), "asking") EXCEPT
                               !.turn = <<Asking(NextQuestion(d)), row.revision>>]
    IN  /\ At(p, "reloading") \/ At(p, "rereading")
        /\ Now(p, c)
        /\ UNCHANGED <<row, requests>>

(* _apply_cursor_transition.  A turn whose stream broke off makes none.    *)
BreakOff(p) ==
    /\ At(p, "asking") \/ At(p, "dropping")
    /\ End(p)
    /\ UNCHANGED <<row, requests>>

LoadForCursor(p) ==
    /\ \/ At(p, "asking") /\ Load(p, "activating")
       \/ At(p, "dropping") /\ Load(p, "clearing")
    /\ UNCHANGED <<row, requests>>

ActivateCursor(p) ==
    LET revision == call[p].turn[2]
        fits == call[p].seen.revision = revision /\ row.revision = revision
    IN  /\ At(p, "activating")
        /\ \/ fits /\ row' = [row EXCEPT !.cursor = call[p].turn[1]]
           \/ ~fits /\ UNCHANGED row
        /\ Leave(p)
        /\ UNCHANGED requests

ClearCursor(p) ==
    LET seen == call[p].seen
    IN  /\ At(p, "clearing")
        /\ row' = IF seen.cursor # NoCursor /\ row.revision = seen.revision
                  THEN [row EXCEPT !.cursor = NoCursor] ELSE row
        /\ Leave(p)
        /\ UNCHANGED requests

-----------------------------------------------------------------------------
(* The form and the submission.                                            *)

(* The fields posted replace the draft's.  The confirmation posted counts  *)
(* when no field changes and the directory has no objection.               *)
PreviewDraft(p, days, text, consents) ==
    LET posted == [days |-> days, text |-> text, consent |-> <<days, text>>]
        changed == row.draft # NoDraft /\ (row.draft.days # days \/ row.draft.text # text)
        agreed == consents /\ ~changed /\ (Complete(posted) => Valid(posted))
    IN  /\ At(p, "idle")
        /\ Now(p, Loaded(Fresh(IF agreed THEN posted
                               ELSE [posted EXCEPT !.consent = NoConsent]), "drafted"))
        /\ UNCHANGED <<row, requests>>

(* save_draft reads the row again, and its CAS is on what it reads then.   *)
LoadForSave(p) ==
    /\ At(p, "drafted")
    /\ Load(p, "saving")
    /\ UNCHANGED <<row, requests>>

SaveDraft(p) ==
    LET c == call[p]
    IN  /\ At(p, "saving")
        /\ \/ c.seen.draft = c.draft /\ UNCHANGED row
           \/ c.seen.draft # c.draft /\ Grows /\ UpdateDraftCas(c.seen.revision, c.draft)
           \/ c.seen.draft # c.draft /\ row.revision # c.seen.revision /\ UNCHANGED row
        /\ Leave(p)
        /\ UNCHANGED requests

StartSubmit(p) ==
    /\ At(p, "idle")
    /\ Now(p, Loaded(Fresh(Blank), "submitting"))
    /\ UNCHANGED <<row, requests>>

\* Mutant: a draft that is complete may be submitted.
SubmitComplete(p) ==
    LET d == Seen(call[p].seen.draft)
    IN  /\ At(p, "submitting") /\ Valid(d)
        /\ requests' = requests \cup {d} /\ Load(p, "clearing")
        /\ UNCHANGED row

(* submit_access_request freezes the draft this call has read; the Cursor  *)
(* is cleared after it.                                                    *)
SubmitRequest(p) ==
    LET d == Seen(call[p].seen.draft)
    IN  /\ At(p, "submitting")
        /\ \/ /\ Valid(d) /\ Confirmed(d)
              /\ requests' = requests \cup {d} /\ Load(p, "clearing")
           \/ ~(Valid(d) /\ Confirmed(d)) /\ End(p) /\ UNCHANGED requests
        /\ UNCHANGED row

(* Any call begins with a read (require_workspace), every service method   *)
(* that writes ends with one, and a GET is nothing else.                   *)
Read(p) ==
    /\ At(p, "idle") \/ At(p, "leaving")
    /\ row.cursor.consumed
    /\ Now(p, Loaded(Fresh(Blank), "leaving"))
    /\ UNCHANGED <<row, requests>>

Return(p) ==
    /\ At(p, "leaving")
    /\ End(p)
    /\ UNCHANGED <<row, requests>>

Crash(p) ==
    /\ call[p].pc # "idle"
    /\ End(p)
    /\ UNCHANGED <<row, requests>>

Next ==
    \E p \in Calls :
        \/ StartTurn(p) \/ Digress(p)
        \/ \E days \in Terms : AnswerWithNumber(p, days)
        \/ \E days \in Terms, text \in Texts, says \in {"yes", "no", "nothing"} :
              AnswerWithReply(p, days, text, says)
        \/ JudgeDraft(p) \/ BreakOff(p)
        \/ LoadForCursor(p) \/ ActivateCursor(p) \/ ClearCursor(p)
        \/ \E days \in Terms, text \in Texts, consents \in BOOLEAN :
              PreviewDraft(p, days, text, consents)
        \/ LoadForSave(p) \/ SaveDraft(p)
        \/ StartSubmit(p) \/ SubmitRequest(p)
        \/ Read(p) \/ Normalise(p) \/ Return(p) \/ Crash(p)

Spec == Init /\ [][Next]_vars

-----------------------------------------------------------------------------
(* A confirmation covers the fields it was given for, in the draft and in  *)
(* every request made of one, whoever else edits: "the old confirmation    *)
(* only covers the old fields" (_merge_reply).                             *)
ConsentCoversFields ==
    \A d \in ({row.draft} \ {NoDraft}) \cup requests :
        Confirmed(d) => d.consent = <<d.days, d.text>>

(* What is submitted is complete, valid and confirmed as it is submitted,  *)
(* however old the read it was made from.                                  *)
SubmittedWithConsent ==
    \A d \in requests : Valid(d) /\ d.consent = <<d.days, d.text>>

(* A draft is replaced by its successor, and taken back by nothing but a  *)
(* read that normalises the row: no turn, form or answer to a question     *)
(* writes over a revision newer than the one it compared with.             *)
OnlyReadsTakeBack ==
    [][ row'.draft # row.draft =>
            \/ row'.revision = row.revision + 1
            \/ \E p \in Calls : Normalise(p) ]_vars

(* "the monotone revision of the conversation's draft" (db/models.py:170)  *)
RevisionOnlyGrows == [][row'.revision >= row.revision]_vars
=============================================================================
