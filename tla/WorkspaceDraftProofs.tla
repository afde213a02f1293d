------------------------- MODULE WorkspaceDraftProofs -------------------------
(***************************************************************************)
(* Safety of the draft of a Workspace, for any number of concurrent calls, *)
(* any entitlement and any number of revisions.                            *)
(***************************************************************************)
EXTENDS WorkspaceDraft, TLAPS

(* Every copy of a draft, in the row, in a request or in the hands of a    *)
(* call, was confirmed as it is or not at all.                             *)
Honest(d) == d # NoDraft /\ Confirmed(d) => d.consent = <<d.days, d.text>>
HonestCall(p) == call[p] # Idle => Honest(call[p].draft) /\ Honest(call[p].seen.draft)

DraftInv ==
    /\ TypeOK
    /\ Honest(row.draft)
    /\ \A p \in Calls : HonestCall(p)
    /\ SubmittedWithConsent

-----------------------------------------------------------------------------
(* The blank draft is an honest one.                                       *)
LEMMA BlankType == Blank \in Drafts /\ Honest(Blank)
BY DraftAssumption DEF Blank, Drafts, Honest, Confirmed, Terms, Texts, Consents, NoConsent, Missing

(* So is what a handler has read of an honest draft.                       *)
LEMMA SeenType ==
    ASSUME NEW d \in Drafts \cup {NoDraft}, Honest(d)
    PROVE  Seen(d) \in Drafts /\ Honest(Seen(d))
BY BlankType DEF Seen

(* What a call knows of the row when it has read it.                       *)
LEMMA LoadedType ==
    ASSUME TypeOK, Honest(row.draft), NEW c \in Busy, Honest(c.draft),
           NEW pc \in {"composing", "counted", "reloading", "rereading", "asking",
                       "activating", "dropping", "clearing", "drafted", "saving",
                       "submitting", "leaving"}
    PROVE  /\ Loaded(c, pc) \in Busy /\ Loaded(c, pc).pc = pc
           /\ Loaded(c, pc).draft = c.draft /\ Loaded(c, pc).turn = c.turn
           /\ Honest(Loaded(c, pc).seen.draft)
<1>1. [row EXCEPT !.cursor = NoCursor] \in Rows /\ Kept(row, pc) \in Rows
  BY DEF TypeOK, Rows, Kept, Cursors, NoCursor, Fields, Unread
<1>2. [row EXCEPT !.cursor = NoCursor].draft = row.draft
      /\ Kept(row, pc).draft \in {row.draft, NoDraft}
  BY DEF TypeOK, Rows, Kept, Unread
<1>3. row.cursor.consumed \in BOOLEAN
  BY DEF TypeOK, Rows, Cursors
<1>4. Loaded(c, pc) \in Busy /\ Loaded(c, pc).pc = pc
      /\ Loaded(c, pc).draft = c.draft /\ Loaded(c, pc).turn = c.turn
      /\ Loaded(c, pc).seen \in {[row EXCEPT !.cursor = NoCursor], Kept(row, pc)}
  BY <1>1, <1>3 DEF Loaded, Busy
<1>. QED
  BY <1>2, <1>4 DEF Honest

(* A call that has just read the row is well typed and honest.             *)
LEMMA FreshType ==
    ASSUME NEW d \in Drafts, Honest(d)
    PROVE  /\ Fresh(d) \in Busy /\ Fresh(d).draft = d
           /\ Honest(Fresh(d).draft) /\ Honest(Fresh(d).seen.draft)
BY DEF Fresh, Busy, Unread, NoTurn, NoCursor, Cursors, Fields, Rows, Honest

(* A call that becomes an honest one leaves the others as they were.       *)
LEMMA NowType ==
    ASSUME DraftInv, NEW p \in Calls, NEW c \in Busy \cup {Idle}, Now(p, c),
           c # Idle => Honest(c.draft) /\ Honest(c.seen.draft)
    PROVE  call' \in [Calls -> Busy \cup {Idle}] /\ \A q \in Calls : HonestCall(q)'
BY DEF DraftInv, TypeOK, Now, HonestCall

(* A call that is at work.                                                 *)
LEMMA WorkingCall ==
    ASSUME DraftInv, NEW p \in Calls, NEW pc, pc # "idle", call[p].pc = pc
    PROVE  /\ call[p] \in Busy /\ call[p].seen \in Rows
           /\ Honest(call[p].draft) /\ Honest(call[p].seen.draft)
<1>1. call[p] # Idle
  BY DEF Idle
<1>. QED
  BY <1>1 DEF DraftInv, TypeOK, HonestCall, Busy

(* Reading the row keeps calls typed and honest.                           *)
LEMMA LoadStep ==
    ASSUME DraftInv, NEW p \in Calls, call[p].pc # "idle",
           NEW pc \in {"activating", "clearing", "saving", "counted"}, Load(p, pc)
    PROVE  call' \in [Calls -> Busy \cup {Idle}] /\ \A q \in Calls : HonestCall(q)'
<1>1. call[p] \in Busy /\ Honest(call[p].draft)
  BY WorkingCall
<1>2. Loaded(call[p], pc) \in Busy /\ Honest(Loaded(call[p], pc).draft)
      /\ Honest(Loaded(call[p], pc).seen.draft)
  BY <1>1, LoadedType DEF DraftInv
<1>. QED
  BY <1>2, NowType DEF Load

(* So does starting an operation.                                          *)
LEMMA StartStep ==
    ASSUME DraftInv, NEW p \in Calls, NEW d \in Drafts, Honest(d),
           NEW pc \in {"composing", "submitting", "drafted", "leaving", "dropping"},
           Now(p, Loaded(Fresh(d), pc))
    PROVE  call' \in [Calls -> Busy \cup {Idle}] /\ \A q \in Calls : HonestCall(q)'
<1>1. Fresh(d) \in Busy /\ Honest(Fresh(d).draft)
  BY FreshType
<1>2. Loaded(Fresh(d), pc) \in Busy /\ Honest(Loaded(Fresh(d), pc).draft)
      /\ Honest(Loaded(Fresh(d), pc).seen.draft)
  BY <1>1, LoadedType DEF DraftInv
<1>. QED
  BY <1>2, NowType

(* So does ending one.                                                     *)
LEMMA LeaveStep ==
    ASSUME DraftInv, NEW p \in Calls, Leave(p) \/ End(p)
    PROVE  call' \in [Calls -> Busy \cup {Idle}] /\ \A q \in Calls : HonestCall(q)'
<1>1. CASE Leave(p)
  BY <1>1, BlankType, FreshType, NowType DEF Leave
<1>2. CASE End(p)
  BY <1>2, NowType DEF End
<1>. QED
  BY <1>1, <1>2

(* So does going on to read the row again.                                 *)
LEMMA WriteStep ==
    ASSUME DraftInv, NEW p \in Calls, NEW d \in Drafts, Honest(d),
           NEW pc \in {"reloading", "rereading"}, Now(p, [Fresh(d) EXCEPT !.pc = pc])
    PROVE  call' \in [Calls -> Busy \cup {Idle}] /\ \A q \in Calls : HonestCall(q)'
<1> DEFINE c == [Fresh(d) EXCEPT !.pc = pc]
<1>1. c \in Busy /\ Honest(c.draft) /\ Honest(c.seen.draft)
  BY FreshType DEF Busy
<1>. QED
  BY <1>1, NowType

(* So does asking a question.                                              *)
LEMMA AskStep ==
    ASSUME DraftInv, NEW p \in Calls, NEW d, NEW n \in Nat, Ask(p, d, n)
    PROVE  call' \in [Calls -> Busy \cup {Idle}] /\ \A q \in Calls : HonestCall(q)'
<1> DEFINE c == [Fresh(Blank) EXCEPT !.pc = "asking", !.turn = <<Asking(NextQuestion(d)), n>>]
<1>0. NextQuestion(d) \in Fields
  BY DEF NextQuestion, Fields
<1>1. PICK turn \in Cursors \X Nat : turn = <<Asking(NextQuestion(d)), n>>
  <2>1. Asking(NextQuestion(d)) \in Cursors
    BY <1>0 DEF Asking, Cursors
  <2>. QED
    BY <2>1
<1>2. Fresh(Blank) \in Busy /\ Honest(Fresh(Blank).draft) /\ Honest(Fresh(Blank).seen.draft)
  BY BlankType, FreshType
<1>3. c = [Fresh(Blank) EXCEPT !.pc = "asking", !.turn = turn]
  BY <1>1
<1>4. c \in Busy /\ c.draft = Fresh(Blank).draft /\ c.seen = Fresh(Blank).seen
  <2> HIDE DEF c
  <2>. QED
    BY <1>2, <1>3 DEF Busy
<1>. QED
  BY <1>2, <1>4, NowType DEF Ask

(* The two writes of a draft.                                              *)
LEMMA CasType ==
    ASSUME DraftInv, NEW n \in Nat, NEW d \in Drafts, Honest(d), NEW field \in Fields,
           UpdateDraftCas(n, d) \/ ConsumeCursorCas(n, field, d)
    PROVE  row' \in Rows /\ Honest(row'.draft)
<1>1. NoCursor \in Cursors /\ [field |-> field, consumed |-> TRUE] \in Cursors
  BY DEF Cursors, NoCursor, Fields
<1>2. PICK cursor \in Cursors : row' = [draft |-> d, revision |-> n + 1, cursor |-> cursor]
  BY <1>1 DEF UpdateDraftCas, ConsumeCursorCas
<1>. QED
  BY <1>2 DEF Rows

(* A reply merged into an honest draft gives an honest draft.              *)
LEMMA MergeType ==
    ASSUME NEW d \in Drafts, Honest(d), NEW days \in Terms, NEW text \in Texts,
           NEW says \in {"yes", "no", "nothing"}
    PROVE  MergeReply(d, days, text, says) \in Drafts /\ Honest(MergeReply(d, days, text, says))
<1> DEFINE new == Merged(d, days, text)
           merged == MergeReply(d, days, text, says)
<1>1. new \in Drafts /\ new.consent = d.consent
  BY DEF Merged, Drafts
<1>2. merged \in Drafts /\ merged.days = new.days /\ merged.text = new.text
  BY <1>1 DEF MergeReply, Drafts, Consents
<1>3. \/ merged.consent = <<new.days, new.text>>
      \/ merged.consent = NoConsent
      \/ merged = d
  BY <1>1 DEF MergeReply, Drafts
<1>. HIDE DEF new, merged
<1>4. Honest(merged)
  BY <1>2, <1>3 DEF Honest, Confirmed
<1>. QED
  BY <1>2, <1>4 DEF merged

-----------------------------------------------------------------------------
(* What every action but the four writes does to the calls.                *)
LEMMA CallsStep ==
    ASSUME DraftInv, NEW p \in Calls,
           \/ StartTurn(p) \/ Digress(p) \/ JudgeDraft(p) \/ BreakOff(p) \/ LoadForCursor(p)
           \/ LoadForSave(p) \/ StartSubmit(p) \/ Read(p) \/ Return(p) \/ Crash(p)
           \/ \E days \in Terms, text \in Texts, consents \in BOOLEAN :
                 PreviewDraft(p, days, text, consents)
    PROVE  /\ call' \in [Calls -> Busy \cup {Idle}] /\ \A q \in Calls : HonestCall(q)'
           /\ UNCHANGED <<row, requests>>
<1>1. CASE StartTurn(p)
  BY <1>1, BlankType, StartStep DEF StartTurn
<1>2. CASE Digress(p)
  BY <1>2, LoadStep, LeaveStep DEF Digress, At
<1>3. CASE JudgeDraft(p)
  <2> DEFINE d == IF At(p, "reloading") THEN call[p].draft ELSE Seen(row.draft)
             asks == <<Asking(NextQuestion(d)), row.revision>>
             askc == [Loaded(Fresh(Blank), "asking") EXCEPT !.turn = asks]
  <2>1. /\ UNCHANGED <<row, requests>>
        /\ \/ Now(p, Loaded(Fresh(Blank), "dropping"))
           \/ Now(p, Loaded(Fresh(Blank), "leaving"))
           \/ Now(p, askc)
    BY <1>3 DEF JudgeDraft
  <2>2. asks \in Cursors \X Nat
    <3>1. NextQuestion(d) \in Fields
      BY DEF NextQuestion, Fields
    <3>2. Asking(NextQuestion(d)) \in Cursors
      BY <3>1 DEF Asking, Cursors
    <3>. QED
      BY <3>2 DEF DraftInv, TypeOK, Rows
  <2>3. askc \in Busy /\ Honest(askc.draft) /\ Honest(askc.seen.draft)
    <3>1. Fresh(Blank) \in Busy /\ Honest(Fresh(Blank).draft)
      BY BlankType, FreshType
    <3>2. /\ Loaded(Fresh(Blank), "asking") \in Busy
          /\ Honest(Loaded(Fresh(Blank), "asking").draft)
          /\ Honest(Loaded(Fresh(Blank), "asking").seen.draft)
      BY <3>1, LoadedType DEF DraftInv
    <3>. HIDE DEF asks
    <3>. QED
      BY <2>2, <3>2 DEF Busy
  <2>. HIDE DEF d, asks, askc
  <2>. QED
    BY <2>1, <2>3, BlankType, StartStep, NowType
<1>4. CASE BreakOff(p)
  BY <1>4, LeaveStep DEF BreakOff
<1>5. CASE LoadForCursor(p)
  BY <1>5, LoadStep DEF LoadForCursor, At
<1>6. CASE LoadForSave(p)
  BY <1>6, LoadStep DEF LoadForSave, At
<1>7. CASE StartSubmit(p)
  BY <1>7, BlankType, StartStep DEF StartSubmit
<1>8. CASE Read(p)
  BY <1>8, BlankType, StartStep DEF Read
<1>9. CASE Return(p)
  BY <1>9, LeaveStep DEF Return
<1>10. CASE Crash(p)
  BY <1>10, LeaveStep DEF Crash
<1>11. ASSUME NEW days \in Terms, NEW text \in Texts, NEW consents \in BOOLEAN,
              PreviewDraft(p, days, text, consents)
       PROVE  /\ call' \in [Calls -> Busy \cup {Idle}] /\ \A q \in Calls : HonestCall(q)'
              /\ UNCHANGED <<row, requests>>
  <2> DEFINE posted == [days |-> days, text |-> text, consent |-> <<days, text>>]
  <2>1. PICK d \in {posted, [posted EXCEPT !.consent = NoConsent]} :
              Now(p, Loaded(Fresh(d), "drafted"))
    BY <1>11 DEF PreviewDraft
  <2>2. d \in Drafts /\ Honest(d)
    BY <2>1 DEF Drafts, Consents, Honest, Confirmed
  <2>3. UNCHANGED <<row, requests>>
    BY <1>11 DEF PreviewDraft
  <2>. QED
    BY <2>1, <2>2, <2>3, StartStep
<1>. QED
  BY <1>1, <1>2, <1>3, <1>4, <1>5, <1>6, <1>7, <1>8, <1>9, <1>10, <1>11

-----------------------------------------------------------------------------
(* The actions that write the row or make a request.                       *)
LEMMA RowUnchanged ==
    ASSUME DraftInv, row' = row
    PROVE  row' \in Rows /\ Honest(row'.draft)
BY DEF DraftInv, TypeOK

(* Answering the question with a number keeps the invariant.               *)
LEMMA NumberStep ==
    ASSUME DraftInv, NEW p \in Calls, NEW days \in Terms, AnswerWithNumber(p, days)
    PROVE  DraftInv'
<1> DEFINE seen == call[p].seen
           proposed == [Seen(seen.draft) EXCEPT !.days = days, !.consent = NoConsent]
<1>1. seen \in Rows /\ seen.revision \in Nat /\ seen.draft \in Drafts \cup {NoDraft}
      /\ Honest(seen.draft)
  BY WorkingCall DEF AnswerWithNumber, At, Rows
<1>2. proposed \in Drafts /\ Honest(proposed)
  <2>1. Seen(seen.draft) \in Drafts
    BY <1>1, SeenType
  <2>. QED
    BY <2>1 DEF Drafts, Consents, Honest, Confirmed
<1>3. requests' = requests
  BY DEF AnswerWithNumber
<1>. HIDE DEF seen, proposed
<1>4. CASE Leave(p) /\ row' = row
  BY <1>3, <1>4, LeaveStep, RowUnchanged DEF DraftInv, TypeOK, SubmittedWithConsent
<1>5. CASE Ask(p, Seen(seen.draft), seen.revision) /\ row' = row
  BY <1>1, <1>3, <1>5, AskStep, RowUnchanged DEF DraftInv, TypeOK, SubmittedWithConsent
<1>6. CASE /\ ConsumeCursorCas(seen.revision, "duration_days", proposed)
           /\ Now(p, [Fresh(Blank) EXCEPT !.pc = "rereading"])
  <2>1. row' \in Rows /\ Honest(row'.draft)
    BY <1>1, <1>2, <1>6, CasType DEF Fields
  <2>2. call' \in [Calls -> Busy \cup {Idle}] /\ \A q \in Calls : HonestCall(q)'
    BY <1>6, BlankType, WriteStep
  <2>. QED
    BY <1>3, <2>1, <2>2 DEF DraftInv, TypeOK, SubmittedWithConsent
<1>. QED
  BY <1>4, <1>5, <1>6 DEF AnswerWithNumber, seen, proposed

(* Answering it with a model's reply does.                                 *)
LEMMA ReplyStep ==
    ASSUME DraftInv, NEW p \in Calls, NEW days \in Terms, NEW text \in Texts,
           NEW says \in {"yes", "no", "nothing"}, AnswerWithReply(p, days, text, says)
    PROVE  DraftInv'
<1> DEFINE seen == call[p].seen
           draft == MergeReply(Seen(seen.draft), days, text, says)
<1>1. seen \in Rows /\ seen.revision \in Nat /\ seen.draft \in Drafts \cup {NoDraft}
      /\ Honest(seen.draft)
  BY WorkingCall DEF AnswerWithReply, At, Rows
<1>2. draft \in Drafts /\ Honest(draft)
  <2>1. Seen(seen.draft) \in Drafts /\ Honest(Seen(seen.draft))
    BY <1>1, SeenType
  <2>. QED
    BY <2>1, MergeType
<1>3. requests' = requests
  BY DEF AnswerWithReply
<1>4. /\ \/ Leave(p)
         \/ Now(p, [Fresh(draft) EXCEPT !.pc = "reloading"])
      /\ \/ row' = row
         \/ UpdateDraftCas(seen.revision, draft)
         \/ ConsumeCursorCas(seen.revision, "justification", draft)
  BY DEF AnswerWithReply
<1>. HIDE DEF seen, draft
<1>5. call' \in [Calls -> Busy \cup {Idle}] /\ \A q \in Calls : HonestCall(q)'
  BY <1>2, <1>4, LeaveStep, WriteStep
<1>6. row' \in Rows /\ Honest(row'.draft)
  <2>1. "justification" \in Fields
    BY DEF Fields
  <2>. QED
    BY <1>1, <1>2, <1>4, <2>1, CasType, RowUnchanged
<1>. QED
  BY <1>3, <1>5, <1>6 DEF DraftInv, TypeOK, SubmittedWithConsent

(* Saving the form does.                                                   *)
LEMMA SaveStep ==
    ASSUME DraftInv, NEW p \in Calls, SaveDraft(p)
    PROVE  DraftInv'
<1>1. /\ call[p].seen.revision \in Nat
      /\ call[p].draft \in Drafts /\ Honest(call[p].draft)
  BY WorkingCall DEF SaveDraft, At, Rows, Busy
<1>2. requests' = requests /\ Leave(p)
      /\ (row' = row \/ UpdateDraftCas(call[p].seen.revision, call[p].draft))
  BY DEF SaveDraft
<1>3. row' \in Rows /\ Honest(row'.draft)
  <2>1. "justification" \in Fields
    BY DEF Fields
  <2>. QED
    BY <1>1, <1>2, <2>1, CasType, RowUnchanged
<1>. QED
  BY <1>2, <1>3, LeaveStep DEF DraftInv, TypeOK, SubmittedWithConsent

(* A read that normalises puts back a draft that its call has seen, or not.*)
LEMMA NormaliseStep ==
    ASSUME DraftInv, NEW p \in Calls, Normalise(p)
    PROVE  DraftInv'
<1>1. call[p] \in Busy /\ call[p].seen \in Rows
      /\ Honest(call[p].draft) /\ Honest(call[p].seen.draft)
  BY WorkingCall DEF Normalise
<1>2. row \in Rows /\ Honest(row.draft)
  BY DEF DraftInv, TypeOK
<1>3. row' \in Rows /\ Honest(row'.draft)
  BY <1>1, <1>2 DEF Normalise, Rows
<1> DEFINE kept == Kept(call[p].seen, call[p].pc)
           c == [call[p] EXCEPT !.dirty = FALSE, !.seen = kept]
<1>4. kept \in Rows /\ Honest(kept.draft)
  <2>1. kept \in Rows /\ kept.draft \in {call[p].seen.draft, NoDraft}
    BY <1>1 DEF Kept, Unread, Rows, Cursors, NoCursor, Fields
  <2>. QED
    BY <1>1, <2>1 DEF Honest
<1>5. Now(p, c)
  BY <1>1 DEF Normalise, Busy
<1>. HIDE DEF kept
<1>6. c \in Busy /\ Honest(c.draft) /\ Honest(c.seen.draft)
  BY <1>1, <1>4 DEF Busy
<1>. HIDE DEF c
<1>7. call' \in [Calls -> Busy \cup {Idle}] /\ \A q \in Calls : HonestCall(q)'
  BY <1>5, <1>6, NowType
<1>. QED
  BY <1>3, <1>7 DEF Normalise, DraftInv, TypeOK, SubmittedWithConsent

(* So do a read that activates the Cursor and one that clears it.          *)
LEMMA CursorStep ==
    ASSUME DraftInv, NEW p \in Calls, ActivateCursor(p) \/ ClearCursor(p)
    PROVE  DraftInv'
<1>1. call[p] \in Busy
  BY WorkingCall DEF ActivateCursor, ClearCursor, At
<1>2. PICK cursor \in Cursors : row' = row \/ row' = [row EXCEPT !.cursor = cursor]
  <2>1. call[p].turn[1] \in Cursors /\ NoCursor \in Cursors
    BY <1>1 DEF Busy, Cursors, NoCursor, Fields
  <2>. QED
    BY <2>1 DEF ActivateCursor, ClearCursor
<1>3. row' \in Rows /\ row'.draft = row.draft
  BY <1>2 DEF DraftInv, TypeOK, Rows
<1>4. Leave(p) /\ requests' = requests
  BY DEF ActivateCursor, ClearCursor
<1>. QED
  BY <1>3, <1>4, LeaveStep DEF DraftInv, TypeOK, SubmittedWithConsent

(* What a call submits it has read, confirmed as it was.                   *)
LEMMA SubmitStep ==
    ASSUME DraftInv, NEW p \in Calls, SubmitRequest(p)
    PROVE  DraftInv'
<1> DEFINE d == Seen(call[p].seen.draft)
<1>1. call[p].seen.draft \in Drafts \cup {NoDraft} /\ Honest(call[p].seen.draft)
  BY WorkingCall DEF SubmitRequest, At, Rows
<1>2. d \in Drafts /\ Honest(d)
  BY <1>1, SeenType
<1>3. row' = row /\ (Load(p, "clearing") \/ End(p))
      /\ (requests' = requests
          \/ (requests' = requests \cup {d} /\ Valid(d) /\ Confirmed(d)))
  BY DEF SubmitRequest
<1>. HIDE DEF d
<1>4. call' \in [Calls -> Busy \cup {Idle}] /\ \A q \in Calls : HonestCall(q)'
  BY <1>3, LoadStep, LeaveStep DEF SubmitRequest, At
<1>5. CASE requests' = requests
  BY <1>3, <1>4, <1>5 DEF DraftInv, TypeOK, SubmittedWithConsent
<1>6. CASE requests' = requests \cup {d} /\ Valid(d) /\ Confirmed(d) /\ d # NoDraft
  BY <1>2, <1>3, <1>4, <1>6 DEF DraftInv, TypeOK, SubmittedWithConsent, Honest
<1>. QED
  BY <1>3, <1>5, <1>6, <1>2, NoDraftAssumption

-----------------------------------------------------------------------------
(* Every step keeps the invariant: each copy of a draft in the row, in a   *)
(* request or in the hands of a call was confirmed as it is or not at all. *)
THEOREM DraftSafety == Spec => []DraftInv
<1>1. Init => DraftInv
  BY DraftAssumption DEF Init, DraftInv, TypeOK, Rows, NoCursor, Cursors, Fields, Idle,
     Honest, HonestCall, SubmittedWithConsent
<1>2. DraftInv /\ [Next]_vars => DraftInv'
  <2> SUFFICES ASSUME DraftInv, [Next]_vars PROVE DraftInv'
    OBVIOUS
  <2>1. CASE UNCHANGED vars
    BY <2>1 DEF vars, DraftInv, TypeOK, HonestCall, SubmittedWithConsent
  <2>2. ASSUME NEW p \in Calls,
               /\ call' \in [Calls -> Busy \cup {Idle}] /\ \A q \in Calls : HonestCall(q)'
               /\ UNCHANGED <<row, requests>>
        PROVE  DraftInv'
    BY <2>2 DEF DraftInv, TypeOK, SubmittedWithConsent
  <2>3. ASSUME Next PROVE DraftInv'
    BY <2>2, <2>3, CallsStep, NumberStep, ReplyStep, SaveStep, NormaliseStep, CursorStep,
       SubmitStep DEF Next
  <2>. QED
    BY <2>1, <2>3
<1>. QED
  BY <1>1, <1>2, PTL DEF Spec

(* The rows, the requests and the calls keep their types.                  *)
THEOREM TypeCorrect == Spec => []TypeOK
BY DraftSafety, PTL DEF DraftInv

(* A confirmation covers the very fields of the draft it stands in, and of *)
(* the request made of it, whatever the interleaving of turns, forms,      *)
(* submissions and normalising reads (_merge_reply, preview_draft).        *)
THEOREM ConsentCovers == Spec => []ConsentCoversFields
<1>1. DraftInv => ConsentCoversFields
  BY DEF DraftInv, SubmittedWithConsent, ConsentCoversFields, Honest
<1>. QED
  BY <1>1, DraftSafety, PTL

(* What submit_access_request froze was complete, valid and confirmed as   *)
(* it is, however stale the read it was made from.                         *)
THEOREM Submitted == Spec => []SubmittedWithConsent
BY DraftSafety, PTL DEF DraftInv

(* No turn, form or answer writes over a revision newer than the one it    *)
(* compared with: only a read that normalises takes a draft back.          *)
THEOREM OnlyReadsDo == Spec => OnlyReadsTakeBack
<1>1. ASSUME DraftInv, [Next]_vars, row'.draft # row.draft
      PROVE  row'.revision = row.revision + 1 \/ \E p \in Calls : Normalise(p)
  <2>1. CASE UNCHANGED vars
    BY <1>1, <2>1 DEF vars
  <2>2. ASSUME NEW p \in Calls, NEW n, NEW d, NEW field,
               UpdateDraftCas(n, d) \/ ConsumeCursorCas(n, field, d)
        PROVE  row'.revision = row.revision + 1
    BY <2>2 DEF UpdateDraftCas, ConsumeCursorCas
  <2>3. ASSUME NEW p \in Calls, ActivateCursor(p) \/ ClearCursor(p)
        PROVE  row'.draft = row.draft
    BY <1>1, <2>3 DEF ActivateCursor, ClearCursor, DraftInv, TypeOK, Rows
  <2>4. ASSUME NEW p \in Calls, NEW days, AnswerWithNumber(p, days)
        PROVE  row'.revision = row.revision + 1
    BY <1>1, <2>2, <2>4 DEF AnswerWithNumber
  <2>5. ASSUME NEW p \in Calls, NEW days, NEW text, NEW says,
               AnswerWithReply(p, days, text, says)
        PROVE  row'.revision = row.revision + 1
    BY <1>1, <2>2, <2>5 DEF AnswerWithReply
  <2>6. ASSUME NEW p \in Calls, SaveDraft(p) \/ SubmitRequest(p)
        PROVE  row'.revision = row.revision + 1
    <3>1. UpdateDraftCas(call[p].seen.revision, call[p].draft)
      BY <1>1, <2>6 DEF SaveDraft, SubmitRequest
    <3>. QED
      BY <2>2, <3>1
  <2>7. CASE Next
    BY <1>1, <2>3, <2>4, <2>5, <2>6, <2>7, CallsStep DEF Next
  <2>. QED
    BY <1>1, <2>1, <2>7
<1>. QED
  BY <1>1, DraftSafety, PTL DEF Spec, OnlyReadsTakeBack
===============================================================================
