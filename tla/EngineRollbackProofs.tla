------------------------- MODULE EngineRollbackProofs -------------------------
(***************************************************************************)
(* Safety of a Workspace that may be moved to the legacy engine at any     *)
(* time: the invariants of its turns survive the bridge, what is retired   *)
(* stays as it is, and a conversation at rest can always be reconciled.    *)
(***************************************************************************)
EXTENDS EngineRollback, TurnHeadsProofs

(* A retained interrupt was accepted, for a question that was recorded.    *)
TasksOK == \A h \in DOMAIN task :
    h \in DOMAIN saved /\ task[h] \in DOMAIN pending /\ Settled(h, 0)

(* An open question is retained, and an answered one superseded.           *)
AnswersOK ==
    /\ \A n \in DOMAIN pending : Live(n) => pending[n].head \in DOMAIN task
    /\ session => \A n \in DOMAIN pending : pending[n].status = "resolved" =>
          pending[n].resumeSeq \in DOMAIN exec /\ Superseded(n)

(* No turn has accepted yet what a call is still working on.               *)
Unaccepted == \A p \in Workers, s \in DOMAIN exec :
    ~At(p, "idle") => exec[s].head # worker[p].fence

BindingOK ==
    /\ flow \in {1, 2}
    /\ stragglers \subseteq {p \in Workers : At(p, "idle")}

(* The Cursor is empty or one question.  Before the move it is that of the *)
(* open question, or is about the draft as it is while none is open.       *)
Confirms(c) == c.kind = "confirmation" /\ \E n \in Open : c.revision = pending[n].revision
Collects(c) == c.kind = "collection" /\ Open = {} /\ c.revision = draft.revision
CursorOK ==
    /\ cursor = NoCursor \/ \E c \in Cursors : c.revision <= draft.revision /\ cursor = {c}
    /\ flow = 2 => \A c \in cursor : Confirms(c) \/ Collects(c)

(* The questions of two pending inputs stand on different heads.           *)
Apart == \A m, n \in DOMAIN pending : pending[m].head = pending[n].head => m = n

RollbackInv ==
    /\ TurnInv /\ HeadInv /\ DraftInv
    /\ TasksOK /\ AnswersOK /\ Unaccepted
    /\ BindingOK /\ CursorOK
    /\ Apart /\ RetiredIsUnanswered

-----------------------------------------------------------------------------
(* But for the bridge, every step is one of TurnExecution: a legacy turn   *)
(* writes the draft as the form does.                                      *)
LEMMA BridgeOrTurn ==
    ASSUME [EngineNext]_engineVars
    PROVE  [Next]_vars \/ Bridge
<1>1. ASSUME NEW p \in Workers, Admission(p) PROVE Next
  BY <1>1 DEF Admission, Next
<1>2. ASSUME NEW p \in Workers, Turn(p) PROVE Next
  BY <1>2 DEF Turn, Next
<1>3. CASE Mishap
  BY <1>3 DEF Mishap, Next
<1>4. ASSUME NEW confirmed \in BOOLEAN, Form(confirmed) PROVE Next
  BY <1>4 DEF Form, Next
<1>5. ASSUME NEW confirmed \in BOOLEAN, LegacyWrite(confirmed) PROVE Next
  BY <1>5 DEF LegacyWrite, FormEdit, Next
<1>. QED
  BY <1>1, <1>2, <1>3, <1>4, <1>5 DEF EngineNext, Refused, Submission, LegacyCursor, engineVars

(* What the bridge does to the rows: the open question, which nobody       *)
(* answers, is given up as it is, and nothing else changes.                *)
LEMMA BridgeRetires ==
    ASSUME TurnInv, Bridge
    PROVE  /\ \A s \in DOMAIN exec : ~Running(s)
           /\ UNCHANGED <<session, fence, exec, effects, saved, lock, worker, task>>
           /\ pending' \in Seq(Pending) /\ DOMAIN pending' = DOMAIN pending
           /\ \A n \in DOMAIN pending :
                 /\ ~Live(n)'
                 /\ pending'[n].head = pending[n].head
                 /\ pending'[n].revision = pending[n].revision
                 /\ ~Live(n) => pending'[n] = pending[n]
                 /\ Live(n) => Retired(n)' /\ ~Done(Confirm(n))
<1> DEFINE Result ==
        /\ pending' \in Seq(Pending) /\ DOMAIN pending' = DOMAIN pending
        /\ \A n \in DOMAIN pending :
              /\ ~Live(n)'
              /\ pending'[n].head = pending[n].head
              /\ pending'[n].revision = pending[n].revision
              /\ ~Live(n) => pending'[n] = pending[n]
              /\ Live(n) => Retired(n)'
<1>1. pending \in Seq(Pending) /\ \A n \in DOMAIN pending : pending[n] \in Pending
  BY PendingType DEF TurnInv, TypeOK
<1>2. \A s \in DOMAIN exec : ~Running(s)
  BY DEF Bridge, Blocked
<1>3. ASSUME OpenQuestions = {}, UNCHANGED pending PROVE Result
  <2>1. \A n \in DOMAIN pending : ~Live(n) /\ ~Live(n)'
    BY <1>3 DEF OpenQuestions, Live
  <2>2. pending' = pending
    BY <1>3
  <2>. QED
    BY <1>1, <2>1, <2>2
<1>4. ASSUME NEW n \in OpenQuestions, Retire(n) PROVE Result
  <2>1. PICK st \in {"abandoned_to_legacy", "abandoned_conflict"} :
           pending' = [pending EXCEPT ![n].status = st]
    BY <1>4 DEF Retire
  <2>2. n \in DOMAIN pending /\ \A m \in DOMAIN pending : Live(m) => m = n
    BY <1>4 DEF OpenQuestions, TurnInv, RowsOK
  <2>3. PICK row : row = [pending[n] EXCEPT !.status = st]
    OBVIOUS
  <2>4. /\ row \in Pending /\ row.status = st /\ row.head = pending[n].head
        /\ row.revision = pending[n].revision
    BY <1>1, <2>2, <2>3 DEF Pending, PendingStatus
  <2>5. pending' = [pending EXCEPT ![n] = row]
    BY <1>1, <2>1, <2>3
  <2>6. pending' \in Seq(Pending) /\ DOMAIN pending' = DOMAIN pending
    BY <1>1, <2>2, <2>4, <2>5
  <2>7. pending'[n] = row /\ \A m \in DOMAIN pending \ {n} : pending'[m] = pending[m]
    BY <1>1, <2>2, <2>5
  <2>8. /\ ~Live(n)' /\ Retired(n)' /\ pending'[n].head = pending[n].head
        /\ pending'[n].revision = pending[n].revision
    BY <2>4, <2>7 DEF Live, Retired
  <2>9. \A m \in DOMAIN pending \ {n} : ~Live(m) /\ ~Live(m)' /\ pending'[m] = pending[m]
    BY <2>2, <2>7 DEF Live
  <2>. QED
    BY <2>2, <2>6, <2>8, <2>9, <1>4 DEF OpenQuestions
<1>5. ASSUME NEW n \in DOMAIN pending, Live(n) PROVE ~Done(Confirm(n))
  <2>1. pending[n].resumeSeq = 0
    BY <1>5 DEF Bridge, RowsAccepted, OpenQuestions, NoInput
  <2>2. pending[n].status = "resuming" => pending[n].resumeSeq \in DOMAIN exec
    BY DEF TurnInv, RowsOK
  <2>3. 0 \notin DOMAIN exec
    BY ExecType DEF TurnInv, TypeOK
  <2>. QED
    BY <1>5, <2>1, <2>2, <2>3 DEF TurnInv, LedgerOK
<1>6. Result
  BY <1>3, <1>4 DEF Bridge, Move
<1>7. UNCHANGED <<session, fence, exec, effects, saved, lock, worker, task>>
  BY DEF Bridge, Move
<1>. QED
  BY <1>2, <1>5, <1>6, <1>7

(* The bridge keeps the invariants of the turns.                           *)
LEMMA BridgeTurn ==
    ASSUME TurnInv, Bridge
    PROVE  TurnInv'
<1>1. /\ \A s \in DOMAIN exec : ~Running(s)
      /\ UNCHANGED <<session, fence, exec, effects, saved, lock, worker>>
      /\ pending' \in Seq(Pending) /\ DOMAIN pending' = DOMAIN pending
      /\ \A n \in DOMAIN pending : ~Live(n)' /\ pending'[n].revision = pending[n].revision
  BY BridgeRetires
<1>2. \A s \in DOMAIN exec' : ~Running(s)'
  BY <1>1 DEF Running
<1>3. TypeOK'
  BY <1>1 DEF TurnInv, TypeOK, effects
<1>4. RowsOK'
  BY <1>1, <1>2 DEF TurnInv, RowsOK, Live, Running
<1>5. LedgerOK'
  BY <1>1 DEF TurnInv, LedgerOK, effects
<1>6. ASSUME NEW p \in Workers PROVE WorkerOK(p)'
  BY <1>1, <1>2 DEF TurnInv, WorkerOK, Current, At, effects
<1>. QED
  BY <1>3, <1>4, <1>5, <1>6 DEF TurnInv

(* ... and of their checkpoints.                                           *)
LEMMA BridgeHeads ==
    ASSUME TurnInv, HeadInv, Bridge
    PROVE  HeadInv'
<1>1. /\ UNCHANGED <<exec, saved, worker>> /\ DOMAIN pending' = DOMAIN pending
      /\ \A n \in DOMAIN pending : pending'[n].head = pending[n].head
  BY BridgeRetires
<1>2. \A h, s : Settled(h, s)' <=> Settled(h, s)
  BY <1>1 DEF Settled, Running
<1>3. \A s \in DOMAIN exec' : HeadOK(s)'
  BY <1>1, <1>2 DEF HeadInv, HeadOK, Running
<1>4. \A n \in DOMAIN pending' : QuestionOK(n)'
  BY <1>1, <1>2 DEF HeadInv, QuestionOK
<1>5. \A p \in Workers : CallOK(p)'
  BY <1>1 DEF HeadInv, CallOK, At
<1>. QED
  BY <1>3, <1>4, <1>5 DEF HeadInv

(* ... and of what they ask about.                                         *)
LEMMA BridgeDraft ==
    ASSUME TurnInv, DraftInv, Bridge
    PROVE  DraftInv'
<1>1. /\ UNCHANGED <<effects, worker>> /\ DOMAIN pending' = DOMAIN pending
      /\ \A n \in DOMAIN pending : pending'[n].revision = pending[n].revision
  BY BridgeRetires
<1>. QED
  BY <1>1 DEF DraftInv, AskedOK, Undecided, effects

-----------------------------------------------------------------------------
(* The turns.  A step of another call moves nobody; who is admitted was    *)
(* idle, and who is busy keeps its fence until it leaves.                  *)
LEMMA KeepsFence ==
    ASSUME TurnInv, NEW p \in Workers,
           GraphStep(p) \/ Reject(p) \/ Crash(p) \/ DisconnectEarly(p) \/ LoseLock(p)
    PROVE  /\ \A q \in Workers : At(q, "idle") => At(q, "idle")'
           /\ \A q \in Workers : ~At(q, "idle")' =>
                 ~At(q, "idle") /\ worker'[q].fence = worker[q].fence
<1> DEFINE Keeps == /\ \A q \in Workers : At(q, "idle") => At(q, "idle")'
                    /\ \A q \in Workers : ~At(q, "idle")' =>
                          ~At(q, "idle") /\ worker'[q].fence = worker[q].fence
<1>1. ASSUME worker' = [worker EXCEPT ![p] = Idle] \/ UNCHANGED worker PROVE Keeps
  BY <1>1 DEF At, Idle, TurnInv, TypeOK
<1>2. ASSUME GoesOn(p) PROVE Keeps
  BY <1>2 DEF GoesOn, At, WithGraph, GraphPC
<1>3. ASSUME StartGraph(p) PROVE Keeps
  <2>1. worker[p] \in Busy /\ ~At(p, "idle")
    BY <1>3, CallFacts DEF StartGraph, At
  <2>2. /\ worker'[p].pc = "hydrating" /\ worker'[p].fence = worker[p].fence
        /\ \A q \in Workers \ {p} : worker'[q] = worker[q]
    BY <1>3, <2>1 DEF StartGraph, Busy, TurnInv, TypeOK
  <2>. QED
    BY <2>1, <2>2 DEF At
<1>4. ASSUME Finalize(p) \/ QuotaExhausted(p) PROVE Keeps
  BY <1>1, <1>4
     DEF Finalize, FinalizeGraphTurn, FinalizeResumeOutcome, FinalizeInterrupt, Close, QuotaExhausted
<1>. QED
  BY <1>1, <1>2, <1>3, <1>4, GraphGoesOn
     DEF GraphStep, Reject, Crash, DisconnectEarly, LoseLock, GiveUp

(* A call that is admitted gets a new fence, and was idle.                 *)
LEMMA AdmitsIdle ==
    ASSUME TurnInv, NEW p \in Workers, NEW s, NEW n, Admit(p, s, fence + 1, n), At(p, "idle")
    PROVE  /\ \A q \in Workers \ {p} : worker'[q] = worker[q]
           /\ worker'[p].fence = fence + 1 /\ worker'[p].fence \notin DOMAIN saved
           /\ worker'[p].fence # NoHead
BY DEF Admit, TurnInv, TypeOK, NoHead

(* Only a finalizer gives a turn a new head, and it does not touch         *)
(* another; but for it and for BeginResume, the questions stay.            *)
LEMMA KeepsRows ==
    ASSUME TurnInv, NEW p \in Workers, GraphStep(p), ~Finalize(p)
    PROVE  /\ UNCHANGED pending /\ DOMAIN exec' = DOMAIN exec
           /\ \A s \in DOMAIN exec : exec'[s].head = exec[s].head
           /\ worker[p].pc \notin {"stopped", "parked"}
<1> DEFINE Keeps == /\ UNCHANGED pending /\ DOMAIN exec' = DOMAIN exec
                    /\ \A s \in DOMAIN exec : exec'[s].head = exec[s].head
<1>1. ASSUME QuotaExhausted(p) PROVE Keeps
  <2>1. worker[p].seq \in DOMAIN exec /\ exec[worker[p].seq] \in Exec
    BY <1>1, CallFacts DEF QuotaExhausted, ModelPC, At
  <2>. QED
    BY <1>1, <2>1 DEF QuotaExhausted, Exec, TurnInv, TypeOK
<1>2. ASSUME UNCHANGED rows PROVE Keeps
  BY <1>2 DEF rows
<1>3. Keeps
  BY <1>1, <1>2
     DEF GraphStep, StartGraph, HydrateInput, HydrateResume, CallModel, SkipModel, PersistDraft,
         ApplyConfirmation, StopGraph
<1>4. worker[p].pc \notin {"stopped", "parked"}
  BY DEF GraphStep, StartGraph, HydrateInput, HydrateResume, CallModel, SkipModel, QuotaExhausted,
         PersistDraft, ApplyConfirmation, StopGraph, At, ModelPC
<1>. QED
  BY <1>3, <1>4

(* What befalls a call or an execution touches neither heads nor questions.*)
LEMMA MishapKeepsRows ==
    ASSUME TurnInv,
           \/ \E p \in Workers : DisconnectEarly(p) \/ Reject(p) \/ Crash(p) \/ LoseLock(p)
           \/ \E s \in DOMAIN exec : LeaseExpires(s)
           \/ \E confirmed \in BOOLEAN : FormEdit(confirmed)
           \/ Logout \/ UNCHANGED vars
    PROVE  /\ UNCHANGED pending /\ DOMAIN exec' = DOMAIN exec
           /\ \A s \in DOMAIN exec : exec'[s].head = exec[s].head
           /\ \A q \in Workers : At(q, "idle") => At(q, "idle")'
           /\ \A q \in Workers : ~At(q, "idle")' =>
                 ~At(q, "idle") /\ worker'[q].fence = worker[q].fence
<1> DEFINE Alike == /\ DOMAIN exec' = DOMAIN exec
                    /\ \A s \in DOMAIN exec : exec'[s].head = exec[s].head
           Keeps == /\ \A q \in Workers : At(q, "idle") => At(q, "idle")'
                    /\ \A q \in Workers : ~At(q, "idle")' =>
                          ~At(q, "idle") /\ worker'[q].fence = worker[q].fence
<1>1. \A s \in DOMAIN exec : exec[s] \in Exec
  BY ExecType DEF TurnInv
<1>2. ASSUME NEW p \in Workers, DisconnectEarly(p) PROVE Alike
  BY <1>1, <1>2 DEF DisconnectEarly, Exec, TurnInv, TypeOK
<1>3. ASSUME NEW s \in DOMAIN exec, LeaseExpires(s) PROVE Alike
  BY <1>1, <1>3 DEF LeaseExpires, Exec, TurnInv, TypeOK
<1>4. ASSUME UNCHANGED exec PROVE Alike
  BY <1>4
<1>5. Alike
  BY <1>2, <1>3, <1>4 DEF Reject, Crash, LoseLock, FormEdit, Logout, vars, rows
<1>6. ASSUME UNCHANGED worker PROVE Keeps
  BY <1>6 DEF At
<1>7. Keeps
  BY <1>6, KeepsFence DEF LeaseExpires, FormEdit, Logout, vars
<1>8. UNCHANGED pending
  BY DEF DisconnectEarly, Reject, Crash, GiveUp, LoseLock, LeaseExpires, FormEdit, Logout, vars, rows
<1>. QED
  BY <1>5, <1>7, <1>8

(* The question a finalizer is about: the one that was answered, or the    *)
(* next one.                                                               *)
Concern(p) == IF worker[p].resumed = NoInput THEN Len(pending) + 1 ELSE worker[p].resumed

(* The turn s ends with the head f.                                        *)
EndsWith(s, f) ==
    /\ DOMAIN exec' = DOMAIN exec /\ exec'[s].head = f /\ exec'[s].status # "running"
    /\ \A t \in DOMAIN exec \ {s} : exec'[t] = exec[t]

(* What becomes of question k: there is none, it is closed, or it is asked.*)
Settles(p, k) == worker[p].outcome # "interrupt" /\ UNCHANGED pending /\ k \notin DOMAIN pending
Closes(p, k) ==
    /\ worker[p].resumed = k /\ k # NoInput /\ k \in DOMAIN pending
    /\ Live(k) /\ pending[k].resumeSeq = worker[p].seq
    /\ DOMAIN pending' = DOMAIN pending
    /\ pending'[k] = [pending[k] EXCEPT !.status = "resolved"]
    /\ session => worker[p].outcome # "interrupt"
Poses(p, k) ==
    /\ worker[p].outcome = "interrupt"
    /\ worker[p].resumed = NoInput => Len(pending)' = k
    /\ worker[p].resumed # NoInput => worker[p].resumed = k
    /\ DOMAIN pending' = DOMAIN pending \cup {k}
    /\ pending'[k] = [status |-> "active", revision |-> worker[p].base,
                      head |-> worker[p].fence, resumeSeq |-> NoInput]
    /\ k \in DOMAIN pending => pending[k].status = "resuming"

(* A finalizer ends its turn with the head of its fence, and settles, asks *)
(* or asks again its question; no other one is open.                       *)
LEMMA Finalizes ==
    ASSUME TurnInv, HeadInv, NEW p \in Workers, Finalize(p),
           NEW s, s = worker[p].seq, NEW f, f = worker[p].fence, NEW k, k = Concern(p)
    PROVE  /\ worker[p].pc \in {"stopped", "parked"}
           /\ s \in DOMAIN exec /\ s # 0 /\ Running(s)
           /\ f \in DOMAIN saved /\ f # NoHead
           /\ EndsWith(s, f)
           /\ UNCHANGED <<session, draft, ledger, saved>>
           /\ worker' = [worker EXCEPT ![p] = Idle]
           /\ \A m \in DOMAIN pending \ {k} :
                 m \in DOMAIN pending' /\ pending'[m] = pending[m] /\ ~Live(m)
           /\ Settles(p, k) \/ Closes(p, k) \/ Poses(p, k)
<1>1. PICK n : n = worker[p].resumed
  OBVIOUS
<1> DEFINE asked == [status |-> "active", revision |-> worker[p].base,
                     head |-> f, resumeSeq |-> NoInput]
<1>2. PICK st \in ExecStatus \ {"running"} :
         FinalizeGraphTurn(p, st) \/ FinalizeResumeOutcome(p, st) \/ FinalizeInterrupt(p, st)
  BY DEF Finalize
<1>3. MayFinalize(p) /\ ~At(p, "idle") /\ ~At(p, "admitted")
  BY <1>2 DEF FinalizeGraphTurn, FinalizeResumeOutcome, FinalizeInterrupt, MayFinalize, At
<1>4. /\ s \in DOMAIN exec /\ s # 0 /\ exec[s] \in Exec /\ Running(s)
      /\ f \in DOMAIN saved /\ f # NoHead
  BY <1>3, CallFacts DEF MayFinalize, Fenced, Running, HeadInv, CallOK, NoHead
<1>5. PICK st2 \in ExecStatus \ {"running"} : Close(p, st2)
  BY <1>2 DEF FinalizeGraphTurn, FinalizeResumeOutcome, FinalizeInterrupt, ExecStatus
<1>6. EndsWith(s, f)
  BY <1>4, <1>5 DEF EndsWith, Close, Exec, TurnInv, TypeOK
<1>7. /\ UNCHANGED <<session, draft, ledger, saved>> /\ worker' = [worker EXCEPT ![p] = Idle]
      /\ worker[p].pc \in {"stopped", "parked"}
  BY <1>3, <1>5 DEF Close, effects, MayFinalize, At
<1>8. /\ \A m \in DOMAIN pending : Live(m) => n = m
      /\ n # NoInput => n \in DOMAIN pending /\ Live(n)
  BY <1>1, <1>3, FencedCurrent DEF MayFinalize, TurnInv, WorkerOK
<1>9. pending \in Seq(Pending) /\ \A m \in DOMAIN pending : pending[m] \in Pending /\ m # NoInput
  BY PendingType DEF TurnInv, TypeOK, NoInput
<1>10. n # NoInput => k = n /\ pending[n].status = "resuming" /\ pending[n].resumeSeq = s
  BY <1>1, <1>4, <1>8 DEF Concern, TurnInv, RowsOK
<1>11. n = NoInput => k = Len(pending) + 1 /\ k \notin DOMAIN pending /\ \A m \in DOMAIN pending : ~Live(m)
  BY <1>1, <1>8, <1>9 DEF Concern
<1>12. \A m \in DOMAIN pending \ {k} : ~Live(m)
  BY <1>8, <1>10, <1>11
<1> DEFINE Rest == \A m \in DOMAIN pending \ {k} :
                     m \in DOMAIN pending' /\ pending'[m] = pending[m] /\ ~Live(m)
<1>13. ASSUME n = NoInput, worker[p].outcome # "interrupt", pending' = pending
       PROVE  Rest /\ Settles(p, k)
  BY <1>11, <1>12, <1>13 DEF Settles
<1>14. ASSUME n # NoInput, session => worker[p].outcome # "interrupt",
              pending' = [pending EXCEPT ![n].status = "resolved"]
       PROVE  Rest /\ Closes(p, k)
  BY <1>1, <1>8, <1>9, <1>10, <1>12, <1>14 DEF Closes
<1>15. ASSUME n = NoInput, worker[p].outcome = "interrupt", pending' = Append(pending, asked)
       PROVE  Rest /\ Poses(p, k)
  BY <1>1, <1>9, <1>11, <1>12, <1>15 DEF Poses
<1>16. ASSUME n # NoInput, worker[p].outcome = "interrupt", pending' = [pending EXCEPT ![n] = asked]
       PROVE  Rest /\ Poses(p, k)
  BY <1>1, <1>8, <1>9, <1>10, <1>12, <1>16 DEF Poses
<1>17. Rest /\ (Settles(p, k) \/ Closes(p, k) \/ Poses(p, k))
  <2>1. CASE FinalizeGraphTurn(p, st)
    BY <1>1, <1>13, <2>1 DEF FinalizeGraphTurn
  <2>2. CASE FinalizeResumeOutcome(p, st)
    BY <1>1, <1>14, <2>2 DEF FinalizeResumeOutcome
  <2>3. CASE FinalizeInterrupt(p, st)
    BY <1>1, <1>14, <1>15, <1>16, <2>3 DEF FinalizeInterrupt
  <2>. QED
    BY <1>2, <2>1, <2>2, <2>3
<1>. QED
  BY <1>4, <1>6, <1>7, <1>17

(* A question that is asked, or closed where the graph interrupted, is     *)
(* retained with the head of its turn.                                     *)
LEMMA Retains ==
    ASSUME TurnInv, HeadInv, Unaccepted, NEW p \in Workers, Finalize(p), TaskFollows(p),
           NEW f, f = worker[p].fence, NEW k, k = Concern(p)
    PROVE  IF worker[p].outcome = "interrupt"
           THEN DOMAIN task' = DOMAIN task \cup {f} /\ task'[f] = k /\ k \in DOMAIN pending'
                /\ \A h \in DOMAIN task \ {f} : task'[h] = task[h]
           ELSE UNCHANGED task
<1>1. PICK s : s = worker[p].seq
  OBVIOUS
<1>2. /\ worker[p].pc \in {"stopped", "parked"} /\ s \in DOMAIN exec /\ exec'[s].head = f
      /\ worker[p].outcome = "interrupt" =>
            /\ k \in DOMAIN pending'
            /\ worker[p].resumed = NoInput => Len(pending)' = k
            /\ worker[p].resumed # NoInput => worker[p].resumed = k
  <2>1. /\ worker[p].pc \in {"stopped", "parked"} /\ s \in DOMAIN exec /\ EndsWith(s, f)
        /\ Settles(p, k) \/ Closes(p, k) \/ Poses(p, k)
    BY <1>1, Finalizes
  <2>. QED
    BY <2>1 DEF EndsWith, Settles, Closes, Poses
<1>3. exec[s].head # f
  BY <1>2 DEF Unaccepted, At
<1>4. Interrupts(p) <=> worker[p].outcome = "interrupt"
  BY <1>1, <1>2, <1>3 DEF Interrupts
<1>. QED
  BY <1>2, <1>4 DEF TaskFollows, Retain

(* The steps that leave heads, questions and retained interrupts alone.    *)
Quiet ==
    /\ UNCHANGED <<pending, task>> /\ DOMAIN exec' = DOMAIN exec
    /\ \A s \in DOMAIN exec : exec'[s].head = exec[s].head
    /\ \A q \in Workers : At(q, "idle") => At(q, "idle")'
    /\ \A q \in Workers : ~At(q, "idle")' => ~At(q, "idle") /\ worker'[q].fence = worker[q].fence

(* Every step is quiet, an admission, a finalizer, or the bridge.          *)
LEMMA EngineCases ==
    ASSUME TurnInv, [EngineNext]_engineVars
    PROVE  \/ Quiet
           \/ \E p \in Workers : Admission(p) \/ (Turn(p) /\ Finalize(p))
           \/ Bridge
<1>1. ASSUME NEW p \in Workers, Turn(p), ~Finalize(p) PROVE Quiet
  BY <1>1, KeepsRows, KeepsFence DEF Turn, TaskFollows, Quiet
<1>2. CASE Mishap
  BY <1>2, MishapKeepsRows DEF Mishap, Quiet, rollback
<1>3. ASSUME NEW confirmed \in BOOLEAN, Form(confirmed) PROVE Quiet
  BY <1>3, MishapKeepsRows DEF Form, Quiet
<1>4. ASSUME NEW confirmed \in BOOLEAN, LegacyWrite(confirmed) PROVE Quiet
  <2>1. FormEdit(confirmed) /\ UNCHANGED task
    BY <1>4 DEF LegacyWrite, FormEdit
  <2>. QED
    BY <2>1, MishapKeepsRows DEF Quiet
<1>5. ASSUME NEW p \in Workers, Refused(p) PROVE Quiet
  BY <1>5, MishapKeepsRows DEF Refused, Quiet
<1>6. ASSUME UNCHANGED <<vars, task>> PROVE Quiet
  BY <1>6, MishapKeepsRows DEF Quiet
<1>. QED
  BY <1>1, <1>2, <1>3, <1>4, <1>5, <1>6
     DEF EngineNext, Submission, LegacyCursor, engineVars, rollback

-----------------------------------------------------------------------------
(* What is retained was accepted, and accepted it stays.                   *)
LEMMA TasksNext ==
    ASSUME RollbackInv, [EngineNext]_engineVars, DOMAIN saved \subseteq DOMAIN saved',
           DOMAIN pending \subseteq DOMAIN pending'
    PROVE  TasksOK'
<1>1. ASSUME UNCHANGED task PROVE TasksOK'
  <2>1. \A h, s : Settled(h, s) => Settled(h, s)'
    <3>1. CASE [Next]_vars
      BY <3>1, SettledStays DEF RollbackInv
    <3>2. CASE Bridge
      BY <3>2, BridgeRetires DEF RollbackInv, Settled, Running
    <3>. QED
      BY <3>1, <3>2, BridgeOrTurn
  <2>. QED
    BY <1>1, <2>1 DEF RollbackInv, TasksOK
<1>2. ASSUME NEW p \in Workers, Turn(p), Finalize(p) PROVE TasksOK'
  <2>1. PICK s, f, k : s = worker[p].seq /\ f = worker[p].fence /\ k = Concern(p)
    OBVIOUS
  <2>2. /\ s \in DOMAIN exec /\ s # 0 /\ EndsWith(s, f) /\ f \in DOMAIN saved
    BY <1>2, <2>1, Finalizes DEF RollbackInv
  <2>3. Settled(f, 0)'
    BY <2>2 DEF EndsWith, Settled, Running
  <2>4. \A h : Settled(h, 0) => Settled(h, 0)'
    BY <1>2, SettledStays DEF RollbackInv, Turn, Next
  <2>5. IF worker[p].outcome = "interrupt"
        THEN DOMAIN task' = DOMAIN task \cup {f} /\ task'[f] = k /\ k \in DOMAIN pending'
             /\ \A h \in DOMAIN task \ {f} : task'[h] = task[h]
        ELSE UNCHANGED task
    BY <1>2, <2>1, Retains DEF RollbackInv, Turn
  <2>. QED
    BY <1>1, <2>2, <2>3, <2>4, <2>5 DEF RollbackInv, TasksOK
<1>. QED
  BY <1>1, <1>2, EngineCases DEF RollbackInv, Quiet, Admission, Bridge, Move

(* The questions that a quiet step or an admission leaves are open or      *)
(* answered as before.                                                     *)
LEMMA AnswersKept ==
    ASSUME TurnInv, AnswersOK, [Next]_vars, UNCHANGED task, session' => session,
           \A n \in DOMAIN pending' :
              /\ Live(n)' => n \in DOMAIN pending /\ Live(n) /\ pending'[n].head = pending[n].head
              /\ pending'[n].status = "resolved" => n \in DOMAIN pending /\ pending'[n] = pending[n]
    PROVE  AnswersOK'
<1>1. \A n \in DOMAIN pending' : Live(n)' => pending'[n].head \in DOMAIN task'
  BY DEF AnswersOK
<1>2. ASSUME session', NEW n \in DOMAIN pending', pending'[n].status = "resolved"
      PROVE  pending'[n].resumeSeq \in DOMAIN exec' /\ Superseded(n)'
  <2>1. n \in DOMAIN pending /\ pending'[n] = pending[n] /\ pending[n].status = "resolved"
    BY <1>2
  <2>2. pending[n].resumeSeq \in DOMAIN exec /\ Superseded(n)
    BY <1>2, <2>1 DEF AnswersOK
  <2>3. ~Running(pending[n].resumeSeq)
    BY <2>2 DEF Superseded, Running
  <2>4. /\ pending[n].resumeSeq \in DOMAIN exec'
        /\ exec'[pending[n].resumeSeq] = exec[pending[n].resumeSeq]
    BY <2>2, <2>3, EndedStays
  <2>. QED
    BY <2>1, <2>2, <2>4 DEF Superseded
<1>. QED
  BY <1>1, <1>2 DEF AnswersOK

(* An accepted head is not the fence of a call that is still at work.      *)
LEMMA SettledElsewhere ==
    ASSUME Unaccepted, NEW p \in Workers, ~At(p, "idle"), NEW h, NEW s, Settled(h, s)
    PROVE  h # worker[p].fence
BY DEF Unaccepted, Settled

(* A finalizer retains the question it asks, and supersedes the one it     *)
(* answers.                                                                *)
LEMMA FinalizeAnswers ==
    ASSUME RollbackInv, [Next]_vars, NEW p \in Workers, Turn(p), Finalize(p)
    PROVE  AnswersOK'
<1>1. PICK s, f, k : s = worker[p].seq /\ f = worker[p].fence /\ k = Concern(p)
  OBVIOUS
<1>2. /\ s \in DOMAIN exec /\ EndsWith(s, f) /\ f # NoHead /\ UNCHANGED session
      /\ worker[p].pc \in {"stopped", "parked"}
      /\ \A m \in DOMAIN pending \ {k} : m \in DOMAIN pending' /\ pending'[m] = pending[m] /\ ~Live(m)
      /\ Settles(p, k) \/ Closes(p, k) \/ Poses(p, k)
  BY <1>1, Finalizes DEF RollbackInv
<1>3. IF worker[p].outcome = "interrupt"
      THEN DOMAIN task' = DOMAIN task \cup {f} /\ task'[f] = k /\ k \in DOMAIN pending'
           /\ \A h \in DOMAIN task \ {f} : task'[h] = task[h]
      ELSE UNCHANGED task
  BY <1>1, Retains DEF RollbackInv, Turn
<1>4. /\ \A m \in DOMAIN pending' : m = k \/ (m \in DOMAIN pending /\ m # k)
      /\ \A m \in DOMAIN pending' \ {k} : pending'[m] = pending[m] /\ ~Live(m) /\ ~Live(m)'
  BY <1>2 DEF Settles, Closes, Poses, Live
<1>5. ASSUME NEW m \in DOMAIN pending', Live(m)' PROVE pending'[m].head \in DOMAIN task'
  <2>1. m = k
    BY <1>4, <1>5
  <2>2. CASE Settles(p, k)
    BY <1>5, <2>1, <2>2 DEF Settles
  <2>3. CASE Closes(p, k)
    <3>1. pending[k] \in Pending
      BY <2>3, PendingType DEF Closes, RollbackInv, TurnInv
    <3>. QED
      BY <1>5, <2>1, <2>3, <3>1 DEF Closes, Live, Pending
  <2>4. CASE Poses(p, k)
    BY <1>1, <1>3, <2>1, <2>4 DEF Poses
  <2>. QED
    BY <1>2, <2>2, <2>3, <2>4
<1>6. ~At(p, "idle") /\ \A h \in DOMAIN task : h # f
  BY <1>1, <1>2, SettledElsewhere DEF RollbackInv, TasksOK, At
<1>7. ASSUME session', NEW m \in DOMAIN pending', pending'[m].status = "resolved", m # k
      PROVE  pending'[m].resumeSeq \in DOMAIN exec' /\ Superseded(m)'
  <2>1. m \in DOMAIN pending /\ pending'[m] = pending[m]
    BY <1>4, <1>7
  <2>2. pending[m].resumeSeq \in DOMAIN exec /\ Superseded(m)
    BY <1>2, <1>7, <2>1 DEF RollbackInv, AnswersOK
  <2>3. PICK a : a = pending[m].resumeSeq
    OBVIOUS
  <2>4. ~Running(a) /\ a \in DOMAIN exec' /\ exec'[a] = exec[a] /\ exec[a].head # f
    <3>1. ~Running(a) /\ a \in DOMAIN exec
      BY <2>2, <2>3 DEF Superseded, Running
    <3>. QED
      BY <1>1, <1>6, <3>1, EndedStays DEF RollbackInv, Unaccepted
  <2>. QED
    BY <1>3, <2>1, <2>2, <2>3, <2>4 DEF Superseded
<1>8. ASSUME session', pending'[k].status = "resolved", k \in DOMAIN pending'
      PROVE  pending'[k].resumeSeq \in DOMAIN exec' /\ Superseded(k)'
  <2>1. Closes(p, k)
    BY <1>2, <1>8 DEF Settles, Poses
  <2>2. pending[k] \in Pending /\ k \in DOMAIN pending
    BY <2>1, PendingType DEF Closes, RollbackInv, TurnInv
  <2>3. pending'[k].resumeSeq = s /\ pending'[k].head = pending[k].head /\ UNCHANGED task
    BY <1>1, <1>2, <1>3, <1>8, <2>1, <2>2 DEF Closes, Pending
  <2>4. pending[k].head # f
    BY <1>1, <1>6, <2>2, SettledElsewhere DEF RollbackInv, HeadInv, QuestionOK
  <2>. QED
    BY <1>2, <1>6, <1>8, <2>3, <2>4 DEF EndsWith, Superseded
<1>. QED
  BY <1>5, <1>7, <1>8 DEF AnswersOK

(* No step forgets a checkpoint or a question, or revives a session, and   *)
(* only an open question changes.                                          *)
LEMMA RowsStay ==
    ASSUME TurnInv, HeadInv, [EngineNext]_engineVars
    PROVE  /\ DOMAIN saved \subseteq DOMAIN saved' /\ DOMAIN pending \subseteq DOMAIN pending'
           /\ session' => session
           /\ \A n \in DOMAIN pending : ~Live(n) => pending'[n] = pending[n]
<1> DEFINE Stays == /\ DOMAIN pending \subseteq DOMAIN pending'
                    /\ \A n \in DOMAIN pending : ~Live(n) => pending'[n] = pending[n]
<1>1. DOMAIN saved \subseteq DOMAIN saved'
  <2>1. ASSUME NEW p \in Workers, GraphStep(p) PROVE DOMAIN saved \subseteq DOMAIN saved'
    BY <2>1 DEF GraphStep, StartGraph, HydrateInput, HydrateResume, CallModel, SkipModel,
         QuotaExhausted, PersistDraft, ApplyConfirmation, StopGraph, Finalize, FinalizeGraphTurn,
         FinalizeResumeOutcome, FinalizeInterrupt, Close
  <2>2. [Next]_vars => DOMAIN saved \subseteq DOMAIN saved'
    BY <2>1 DEF Next, BeginInput, BeginResume, Takeover, Reject, Crash, DisconnectEarly, LoseLock,
         LeaseExpires, FormEdit, Logout, GiveUp, vars
  <2>. QED
    BY <2>2, BridgeOrTurn DEF Bridge, Move
<1>2. session' => session
  <2>1. ASSUME NEW p \in Workers, GraphStep(p) PROVE UNCHANGED session
    BY <2>1 DEF GraphStep, StartGraph, HydrateInput, HydrateResume, CallModel, SkipModel,
         QuotaExhausted, PersistDraft, ApplyConfirmation, StopGraph, Finalize, FinalizeGraphTurn,
         FinalizeResumeOutcome, FinalizeInterrupt, Close
  <2>2. [Next]_vars => (session' => session)
    BY <2>1 DEF Next, BeginInput, BeginResume, Takeover, Reject, Crash, DisconnectEarly, LoseLock,
         LeaseExpires, FormEdit, Logout, GiveUp, vars
  <2>. QED
    BY <2>2, BridgeOrTurn DEF Bridge, Move
<1>3. ASSUME NEW p \in Workers, Admission(p) PROVE Stays
  BY <1>3 DEF Admission, BeginInput, BeginResume, Takeover, Live, TurnInv, TypeOK
<1>4. ASSUME NEW p \in Workers, Finalize(p) PROVE Stays
  <2>1. PICK k : k = Concern(p)
    OBVIOUS
  <2>2. /\ \A m \in DOMAIN pending \ {k} : m \in DOMAIN pending' /\ pending'[m] = pending[m]
        /\ Settles(p, k) \/ Closes(p, k) \/ Poses(p, k)
    BY <1>4, <2>1, Finalizes
  <2>. QED
    BY <2>2 DEF Settles, Closes, Poses, Live
<1>5. Stays
  BY <1>3, <1>4, EngineCases, BridgeRetires DEF Quiet
<1>. QED
  BY <1>1, <1>2, <1>5

(* Open questions stay retained, and answered ones superseded.             *)
LEMMA AnswersNext ==
    ASSUME RollbackInv, [EngineNext]_engineVars
    PROVE  AnswersOK'
<1>0. TurnInv /\ HeadInv /\ AnswersOK
  BY DEF RollbackInv
<1>1. CASE Bridge
  <2>1. /\ UNCHANGED <<session, exec, task>> /\ DOMAIN pending' = DOMAIN pending
        /\ \A n \in DOMAIN pending : /\ ~Live(n)' /\ (~Live(n) => pending'[n] = pending[n])
                                     /\ (Live(n) => Retired(n)')
    BY <1>0, <1>1, BridgeRetires
  <2>2. \A n \in DOMAIN pending : pending'[n].status = "resolved" => pending'[n] = pending[n]
    BY <2>1 DEF Retired
  <2>. QED
    BY <1>0, <2>1, <2>2 DEF AnswersOK, Superseded
<1>2. ASSUME NEW p \in Workers, Turn(p), Finalize(p) PROVE AnswersOK'
  BY <1>2, FinalizeAnswers DEF Turn, Next
<1>3. CASE Quiet /\ [Next]_vars
  BY <1>0, <1>3, AnswersKept, RowsStay DEF Quiet, Live
<1>4. ASSUME NEW p \in Workers, Admission(p) PROVE AnswersOK'
  <2>1. [Next]_vars /\ UNCHANGED task /\ (session' => session)
    BY <1>0, <1>4, RowsStay DEF Admission, Next
  <2>2. CASE UNCHANGED pending
    BY <1>0, <2>1, <2>2, AnswersKept DEF Live
  <2>3. CASE \E n \in DOMAIN pending, text \in Texts : BeginResume(p, n, text)
    <3>1. PICK n \in DOMAIN pending : \E text \in Texts : BeginResume(p, n, text)
      BY <2>3
    <3>2. /\ pending \in Seq(Pending) /\ pending[n] \in Pending /\ pending[n].status = "active"
          /\ pending' = [pending EXCEPT ![n].status = "resuming", ![n].resumeSeq = Len(exec) + 1]
      BY <1>0, <3>1, PendingType DEF BeginResume, TurnInv, TypeOK
    <3>3. /\ DOMAIN pending' = DOMAIN pending /\ pending'[n].status = "resuming"
          /\ pending'[n].head = pending[n].head
          /\ \A m \in DOMAIN pending \ {n} : pending'[m] = pending[m]
      BY <3>2 DEF Pending
    <3>. QED
      BY <1>0, <2>1, <3>2, <3>3, AnswersKept DEF Live
  <2>. QED
    BY <1>4, <2>2, <2>3 DEF Admission, BeginInput, Takeover
<1>. QED
  BY <1>0, <1>1, <1>2, <1>3, <1>4, EngineCases, BridgeOrTurn

(* The call that is admitted starts from a head that was accepted, under a *)
(* fence that was not.                                                     *)
LEMMA AdmissionUnaccepted ==
    ASSUME RollbackInv, NEW p \in Workers, Admission(p)
    PROVE  Unaccepted'
<1>0. TurnInv /\ HeadInv /\ Unaccepted
  BY DEF RollbackInv
<1> DEFINE Known(h) == \/ h = NoHead
                       \/ h \in DOMAIN saved /\ \E t \in DOMAIN exec : exec[t].head = h
<1>1. \A s \in DOMAIN exec : Known(exec[s].head)
  BY <1>0 DEF HeadInv, HeadOK
<1>2. exec \in Seq(Exec) /\ \A t \in DOMAIN exec : exec[t] \in Exec
  BY <1>0, ExecType DEF TurnInv, TypeOK
<1>3. ASSUME BeginInput(p) PROVE \A s \in DOMAIN exec' : Known(exec'[s].head)
  BY <1>1, <1>2, <1>3 DEF BeginInput
<1>4. ASSUME NEW n \in DOMAIN pending, NEW text \in Texts, BeginResume(p, n, text)
      PROVE  \A s \in DOMAIN exec' : Known(exec'[s].head)
  <2>1. Known(pending[n].head)
    BY <1>0 DEF HeadInv, QuestionOK, Settled
  <2>. QED
    BY <1>1, <1>2, <1>4, <2>1 DEF BeginResume
<1>5. ASSUME NEW r \in DOMAIN exec, Takeover(p, r)
      PROVE  \A s \in DOMAIN exec' : Known(exec'[s].head)
  <2>1. Known(Recovered(r))
    BY <1>0, <1>5, RecoveredSettled DEF Takeover, Settled
  <2>2. /\ DOMAIN exec' = DOMAIN exec /\ exec'[r].head = Recovered(r)
        /\ \A t \in DOMAIN exec \ {r} : exec'[t] = exec[t]
    BY <1>2, <1>5 DEF Takeover, Exec
  <2>. QED
    BY <1>1, <2>1, <2>2
<1>6. \A s \in DOMAIN exec' : Known(exec'[s].head)
  BY <1>3, <1>4, <1>5 DEF Admission
<1>7. /\ \A q \in Workers \ {p} : worker'[q] = worker[q]
      /\ worker'[p].fence \notin DOMAIN saved /\ worker'[p].fence # NoHead
  BY <1>0, AdmitsIdle DEF Admission, BeginInput, BeginResume, Takeover
<1>8. ASSUME NEW q \in Workers \ {p}, ~At(q, "idle")', NEW s \in DOMAIN exec'
      PROVE  exec'[s].head # worker'[q].fence
  <2>1. worker'[q] = worker[q] /\ ~At(q, "idle") /\ worker[q].fence # NoHead
    BY <1>0, <1>7, <1>8, CallFacts DEF At, NoHead
  <2>. QED
    BY <1>0, <1>6, <2>1 DEF Unaccepted
<1>. QED
  BY <1>6, <1>7, <1>8 DEF Unaccepted

(* No call ever works on what has been accepted.                           *)
LEMMA UnacceptedNext ==
    ASSUME RollbackInv, [EngineNext]_engineVars
    PROVE  Unaccepted'
<1>0. TurnInv /\ HeadInv /\ Unaccepted
  BY DEF RollbackInv
<1>1. CASE Quiet
  BY <1>0, <1>1 DEF Quiet, Unaccepted
<1>2. CASE Bridge
  BY <1>0, <1>2, BridgeRetires DEF Unaccepted, At
<1>3. ASSUME NEW p \in Workers, Finalize(p) PROVE Unaccepted'
  <2>1. PICK s, f, k : s = worker[p].seq /\ f = worker[p].fence /\ k = Concern(p)
    OBVIOUS
  <2>2. /\ s \in DOMAIN exec /\ EndsWith(s, f) /\ worker' = [worker EXCEPT ![p] = Idle]
        /\ worker[p].pc \in {"stopped", "parked"}
    BY <1>0, <1>3, <2>1, Finalizes
  <2>3. \A q \in Workers : ~At(q, "idle")' => q # p /\ ~At(q, "idle") /\ worker'[q] = worker[q]
    BY <1>0, <2>2 DEF At, Idle, TurnInv, TypeOK
  <2>4. \A q \in Workers : ~At(q, "idle") /\ q # p => worker[q].fence # f
    BY <1>0, <2>1, <2>2 DEF HeadInv, CallOK, At
  <2>. QED
    BY <1>0, <2>2, <2>3, <2>4 DEF Unaccepted, EndsWith
<1>. QED
  BY <1>0, <1>1, <1>2, <1>3, AdmissionUnaccepted, EngineCases

-----------------------------------------------------------------------------
(* Only a call that is idle is dispatched.                                 *)
LEMMA BindingNext ==
    ASSUME RollbackInv, [EngineNext]_engineVars
    PROVE  BindingOK'
<1>0. TurnInv /\ BindingOK
  BY DEF RollbackInv
<1>1. ASSUME NEW p \in Workers, Admission(p) PROVE BindingOK'
  <2>1. \A q \in Workers \ {p} : worker'[q] = worker[q]
    BY <1>0, <1>1, AdmitsIdle DEF Admission, BeginInput, BeginResume, Takeover
  <2>. QED
    BY <1>0, <1>1, <2>1 DEF Admission, BindingOK, At
<1>2. ASSUME \A q \in Workers : At(q, "idle") => At(q, "idle")', UNCHANGED flow,
             stragglers' \subseteq stragglers
      PROVE  BindingOK'
  BY <1>0, <1>2 DEF BindingOK
<1>3. ASSUME NEW p \in Workers, Turn(p) PROVE BindingOK'
  BY <1>0, <1>2, <1>3, KeepsFence DEF Turn, binding
<1>4. CASE Mishap
  BY <1>0, <1>2, <1>4, MishapKeepsRows DEF Mishap, rollback, binding
<1>5. ASSUME UNCHANGED <<worker, binding>> PROVE BindingOK'
  BY <1>2, <1>5 DEF binding, At
<1>6. ASSUME NEW p \in Workers, Refused(p) PROVE BindingOK'
  BY <1>2, <1>6 DEF Refused, vars, At
<1>7. CASE Bridge
  BY <1>0, <1>7 DEF Bridge, Move, BindingOK, At
<1>. QED
  BY <1>1, <1>3, <1>4, <1>5, <1>6, <1>7
     DEF EngineNext, Form, FormEdit, LegacyWrite, Submission, LegacyCursor, engineVars, vars,
         rollback

(* An untouched Cursor is right while the draft and the questions stay.    *)
LEMMA CursorKept ==
    ASSUME CursorOK, TypeOK, TypeOK', UNCHANGED <<cursor, flow>>, draft.revision <= draft'.revision,
           flow = 2 => /\ Open' = Open
                       /\ \A n \in Open : pending'[n].revision = pending[n].revision
                       /\ Open = {} => UNCHANGED draft
    PROVE  CursorOK'
<1>1. draft.revision \in Nat /\ draft'.revision \in Nat
  BY DEF TypeOK
<1>2. cursor' = NoCursor \/ \E c \in Cursors : c.revision <= draft'.revision /\ cursor' = {c}
  BY <1>1 DEF CursorOK, Cursors
<1>3. ASSUME flow' = 2, NEW c \in cursor' PROVE Confirms(c)' \/ Collects(c)'
  <2>1. Confirms(c) \/ Collects(c)
    BY <1>3 DEF CursorOK
  <2>2. CASE Confirms(c)
    BY <1>3, <2>2 DEF Confirms
  <2>3. CASE Collects(c)
    BY <1>3, <2>3 DEF Collects
  <2>. QED
    BY <2>1, <2>2, <2>3
<1>. QED
  BY <1>2, <1>3 DEF CursorOK

(* An empty one always is.                                                 *)
LEMMA CursorCleared == cursor' = NoCursor => CursorOK'
BY DEF CursorOK, NoCursor

(* So is one about the draft as it is while no question is open.           *)
LEMMA CollectsDraft ==
    ASSUME draft'.revision \in Nat, Open' = {}, cursor' = Question("collection", draft'.revision)
    PROVE  CursorOK'
<1>1. PICK c : c = [kind |-> "collection", revision |-> draft'.revision]
  OBVIOUS
<1>2. cursor' = {c} /\ c \in Cursors /\ c.revision <= draft'.revision
  BY <1>1 DEF Question, Cursors
<1>3. Collects(c)'
  BY <1>1 DEF Collects
<1>. QED
  BY <1>2, <1>3 DEF CursorOK

(* Finalizers leave the Cursor of the question that is then open, or one   *)
(* about the draft when none is.                                           *)
LEMMA FinalizeCursor ==
    ASSUME RollbackInv, TurnInv', NEW p \in Workers, Turn(p), Finalize(p)
    PROVE  CursorOK'
<1>0. TurnInv /\ HeadInv /\ CursorOK /\ draft.revision \in Nat
  BY DEF RollbackInv, TurnInv, TypeOK
<1>1. PICK k : k = Concern(p)
  OBVIOUS
<1>2. /\ worker[p].pc \in {"stopped", "parked"} /\ UNCHANGED <<session, draft>>
      /\ \A m \in DOMAIN pending \ {k} :
            m \in DOMAIN pending' /\ pending'[m] = pending[m] /\ ~Live(m)
      /\ Settles(p, k) \/ Closes(p, k) \/ Poses(p, k)
  BY <1>0, <1>1, Finalizes
<1>3. UNCHANGED flow /\ (InterruptCursor(p) \/ OutcomeCursor(p))
  BY <1>2 DEF Turn, binding, CursorFollows, PersistCursor, ResumeCursor, At
<1>4. CASE Poses(p, k)
  <2>1. cursor' = NoCursor \/ cursor' = Question("confirmation", worker[p].base)
    BY <1>3, <1>4 DEF Poses, InterruptCursor, OutcomeCursor
  <2>2. worker[p].base \in Nat /\ worker[p].base <= draft'.revision
    BY <1>0, <1>2, CallFacts DEF At
  <2>3. k \in Open' /\ pending'[k].revision = worker[p].base
    BY <1>4 DEF Poses, Open, Live
  <2>4. CASE cursor' = Question("confirmation", worker[p].base)
    <3>1. PICK c : c = [kind |-> "confirmation", revision |-> worker[p].base]
      OBVIOUS
    <3>2. cursor' = {c} /\ c \in Cursors /\ c.revision <= draft'.revision
      BY <2>2, <2>4, <3>1 DEF Question, Cursors
    <3>3. Confirms(c)'
      BY <2>3, <3>1 DEF Confirms
    <3>. QED
      BY <3>2, <3>3 DEF CursorOK
  <2>. QED
    BY <2>1, <2>4, CursorCleared
<1>5. CASE Closes(p, k)
  <2>1. pending[k] \in Pending /\ k # NoInput /\ worker[p].resumed = k
    BY <1>0, <1>5, PendingType DEF Closes, TurnInv
  <2>2. Open' = {}
    <3>1. pending'[k].status = "resolved"
      BY <1>5, <2>1 DEF Closes, Pending
    <3>. QED
      BY <1>2, <1>5, <3>1 DEF Closes, Open, Live
  <2>3. cursor' = NoCursor \/ cursor' = Question("collection", draft.revision)
    BY <1>2, <1>3, <1>5, <2>1 DEF Closes, InterruptCursor, OutcomeCursor
  <2>4. CASE cursor' = Question("collection", draft.revision)
    BY <1>0, <1>2, <2>2, <2>4, CollectsDraft
  <2>. QED
    BY <2>3, <2>4, CursorCleared
<1>6. CASE Settles(p, k)
  <2>1. /\ UNCHANGED pending /\ worker[p].outcome # "interrupt" /\ k \notin DOMAIN pending
        /\ TypeOK /\ TypeOK'
    BY <1>0, <1>6 DEF Settles, TurnInv
  <2>2. Open = {} /\ Open' = {}
    BY <1>2, <2>1 DEF Open, Live
  <2>3. \/ cursor' = cursor \/ cursor' = NoCursor
        \/ cursor' = Question("collection", draft.revision)
    BY <1>3, <2>1 DEF InterruptCursor, OutcomeCursor
  <2>4. CASE cursor' = Question("collection", draft.revision)
    BY <1>0, <1>2, <2>2, <2>4, CollectsDraft
  <2>5. CASE cursor' = cursor
    BY <1>0, <1>2, <1>3, <2>1, <2>2, <2>5, CursorKept
  <2>. QED
    BY <2>3, <2>4, <2>5, CursorCleared
<1>. QED
  BY <1>2, <1>4, <1>5, <1>6

(* Before it finalizes, a graph that leaves the Cursor alone changes the   *)
(* draft only for an answer, whose question is open.                       *)
LEMMA GraphCursor ==
    ASSUME RollbackInv, TurnInv', NEW p \in Workers, Turn(p), ~Finalize(p)
    PROVE  CursorOK'
<1>0. TurnInv /\ TypeOK /\ TypeOK' /\ CursorOK /\ draft.revision \in Nat
  BY DEF RollbackInv, TurnInv, TypeOK
<1>1. /\ GraphStep(p) /\ CursorFollows(p) /\ UNCHANGED flow /\ UNCHANGED pending
      /\ worker[p].pc \notin {"stopped", "parked"}
  BY <1>0, KeepsRows DEF Turn, binding
<1>2. Open' = Open
  BY <1>1 DEF Open, Live
<1>3. ASSUME UNCHANGED <<draft, cursor>> PROVE CursorOK'
  BY <1>0, <1>1, <1>2, <1>3, CursorKept
<1>4. CASE At(p, "persisting")
  <2>1. cursor' = IF draft' = draft THEN cursor ELSE NoCursor
    BY <1>1, <1>4 DEF CursorFollows, PersistCursor, ResumeCursor, At
  <2>. QED
    BY <1>3, <2>1, CursorCleared
<1>5. CASE ApplyConfirmation(p)
  <2>1. UNCHANGED cursor
    BY <1>1, <1>5 DEF ApplyConfirmation, At, CursorFollows, PersistCursor, ResumeCursor
  <2>2. CASE UNCHANGED draft
    BY <1>3, <2>1, <2>2
  <2>3. CASE /\ Fenced(p) /\ At(p, "confirming")
             /\ draft' = [revision |-> IF draft.confirmed THEN draft.revision
                                       ELSE draft.revision + 1,
                          confirmed |-> TRUE]
    <3>1. draft.revision <= draft'.revision
      BY <1>0, <2>3
    <3>2. ~At(p, "idle") /\ Current(p)
      BY <2>3, FencedCurrent DEF At
    <3>3. worker[p].resumed \in Open
      BY <1>0, <2>3, <3>2 DEF TurnInv, WorkerOK, Open
    <3>. QED
      BY <1>0, <1>1, <1>2, <2>1, <3>1, <3>3, CursorKept
  <2>. QED
    BY <1>5, <2>2, <2>3 DEF ApplyConfirmation
<1>6. CASE ~At(p, "persisting") /\ ~ApplyConfirmation(p)
  <2>1. UNCHANGED draft
    BY <1>1, <1>6
       DEF GraphStep, StartGraph, HydrateInput, HydrateResume, CallModel, SkipModel, QuotaExhausted,
           PersistDraft, StopGraph, Finalize, effects
  <2>2. UNCHANGED cursor
    BY <1>1, <1>6 DEF CursorFollows, PersistCursor, ResumeCursor
  <2>. QED
    BY <1>3, <2>1, <2>2
<1>. QED
  BY <1>4, <1>5, <1>6

(* The Cursor is one question, and before the move the right one.          *)
LEMMA CursorNext ==
    ASSUME RollbackInv, TurnInv', [EngineNext]_engineVars
    PROVE  CursorOK'
<1>0. TurnInv /\ TypeOK /\ TypeOK' /\ BindingOK /\ CursorOK /\ draft.revision \in Nat
  BY DEF RollbackInv, TurnInv, TypeOK
<1>1. ASSUME NEW p \in Workers, Admission(p) PROVE CursorOK'
  <2>1. UNCHANGED <<draft, cursor, flow>>
    BY <1>1 DEF Admission, BeginInput, BeginResume, Takeover, effects
  <2>2. Open' = Open /\ \A n \in Open : pending'[n].revision = pending[n].revision
    <3>1. CASE UNCHANGED pending
      BY <3>1 DEF Open, Live
    <3>2. ASSUME NEW n \in DOMAIN pending, NEW text \in Texts, BeginResume(p, n, text)
          PROVE  Open' = Open /\ \A m \in Open : pending'[m].revision = pending[m].revision
      <4>1. /\ pending \in Seq(Pending) /\ pending[n] \in Pending /\ pending[n].status = "active"
            /\ pending' = [pending EXCEPT ![n].status = "resuming", ![n].resumeSeq = Len(exec) + 1]
        BY <1>0, <3>2, PendingType DEF BeginResume, TypeOK
      <4>2. /\ DOMAIN pending' = DOMAIN pending /\ pending'[n].status = "resuming"
            /\ pending'[n].revision = pending[n].revision
            /\ \A m \in DOMAIN pending \ {n} : pending'[m] = pending[m]
        BY <4>1 DEF Pending
      <4>. QED
        BY <4>1, <4>2 DEF Open, Live
    <3>. QED
      BY <1>1, <3>1, <3>2 DEF Admission, BeginInput, Takeover
  <2>. QED
    BY <1>0, <2>1, <2>2, CursorKept
<1>2. ASSUME NEW p \in Workers, Turn(p) PROVE CursorOK'
  BY <1>2, FinalizeCursor, GraphCursor
<1>3. ASSUME UNCHANGED <<pending, draft, cursor, flow>> PROVE CursorOK'
  <2>1. Open' = Open
    BY <1>3 DEF Open, Live
  <2>. QED
    BY <1>0, <1>3, <2>1, CursorKept
<1>4. CASE Mishap
  BY <1>3, <1>4 DEF Mishap, Reject, Crash, DisconnectEarly, LoseLock, LeaseExpires, Logout, GiveUp,
       rows, effects, rollback, binding
<1>5. CASE Bridge
  <2>1. flow' = 1 /\ UNCHANGED draft
    BY <1>5 DEF Bridge, Move, effects
  <2>2. CASE UNCHANGED cursor
    BY <1>0, <2>1, <2>2 DEF CursorOK
  <2>3. ASSUME NEW n \in OpenQuestions, Clean(n), cursor' = Question("confirmation", pending[n].revision)
        PROVE  CursorOK'
    <3>1. PICK c : c = [kind |-> "confirmation", revision |-> pending[n].revision]
      OBVIOUS
    <3>2. cursor' = {c} /\ c \in Cursors /\ c.revision <= draft'.revision
      BY <1>0, <2>1, <2>3, <3>1 DEF Question, Cursors, Clean
    <3>. QED
      BY <2>1, <3>2 DEF CursorOK
  <2>. QED
    BY <1>5, <2>2, <2>3, CursorCleared DEF Bridge, Move, Retire
<1>6. CASE LegacyCursor
  <2>1. flow' = 1 /\ UNCHANGED draft
    BY <1>6 DEF LegacyCursor, binding, vars, effects
  <2>2. ASSUME NEW kind \in {"confirmation", "collection"}, cursor' = Question(kind, draft.revision)
        PROVE  CursorOK'
    <3>1. PICK c : c = [kind |-> kind, revision |-> draft.revision]
      OBVIOUS
    <3>2. cursor' = {c} /\ c \in Cursors /\ c.revision <= draft'.revision
      BY <1>0, <2>1, <2>2, <3>1 DEF Question, Cursors
    <3>. QED
      BY <2>1, <3>2 DEF CursorOK
  <2>. QED
    BY <1>6, <2>2, CursorCleared DEF LegacyCursor
<1>7. CASE \/ \E confirmed \in BOOLEAN : Form(confirmed) \/ LegacyWrite(confirmed)
           \/ Submission
  BY <1>7, CursorCleared DEF Form, LegacyWrite, Submission
<1>. QED
  BY <1>1, <1>2, <1>3, <1>4, <1>5, <1>6, <1>7
     DEF EngineNext, Refused, engineVars, vars, rows, effects, rollback, binding

(* Nothing but the bridge retires a question.                              *)
LEMMA OnlyBridgeRetires ==
    ASSUME TurnInv, HeadInv, [EngineNext]_engineVars, ~Bridge,
           NEW n \in DOMAIN pending', Retired(n)'
    PROVE  n \in DOMAIN pending /\ Retired(n)
<1>1. CASE UNCHANGED pending
  BY <1>1 DEF Retired
<1>2. ASSUME NEW p \in Workers, NEW m \in DOMAIN pending, NEW text \in Texts, BeginResume(p, m, text)
      PROVE  n \in DOMAIN pending /\ Retired(n)
  <2>1. /\ pending \in Seq(Pending) /\ pending[m] \in Pending
        /\ pending' = [pending EXCEPT ![m].status = "resuming", ![m].resumeSeq = Len(exec) + 1]
    BY <1>2, PendingType DEF BeginResume, TurnInv, TypeOK
  <2>2. /\ DOMAIN pending' = DOMAIN pending /\ pending'[m].status = "resuming"
        /\ \A k \in DOMAIN pending \ {m} : pending'[k] = pending[k]
    BY <2>1 DEF Pending
  <2>. QED
    BY <2>2 DEF Retired
<1>3. ASSUME NEW p \in Workers, Finalize(p) PROVE n \in DOMAIN pending /\ Retired(n)
  <2>1. PICK k : k = Concern(p)
    OBVIOUS
  <2>2. /\ \A m \in DOMAIN pending \ {k} : pending'[m] = pending[m]
        /\ Settles(p, k) \/ Closes(p, k) \/ Poses(p, k)
    BY <1>3, <2>1, Finalizes
  <2>3. CASE Closes(p, k)
    <3>1. pending[k] \in Pending
      BY <2>3, PendingType DEF Closes, TurnInv
    <3>2. pending'[k].status = "resolved"
      BY <2>3, <3>1 DEF Closes, Pending
    <3>. QED
      BY <2>2, <2>3, <3>2 DEF Closes, Retired
  <2>4. CASE Poses(p, k)
    BY <2>2, <2>4 DEF Poses, Retired
  <2>5. CASE Settles(p, k)
    BY <1>1, <2>5 DEF Settles
  <2>. QED
    BY <2>2, <2>3, <2>4, <2>5
<1>. QED
  BY <1>1, <1>2, <1>3, EngineCases DEF Quiet, Admission, BeginInput, Takeover

(* A question is asked on a head that no other one stands on.              *)
LEMMA ApartNext ==
    ASSUME RollbackInv, [EngineNext]_engineVars
    PROVE  Apart'
<1>0. TurnInv /\ HeadInv /\ Unaccepted /\ Apart
  BY DEF RollbackInv
<1>1. ASSUME DOMAIN pending' = DOMAIN pending,
             \A n \in DOMAIN pending : pending'[n].head = pending[n].head
      PROVE  Apart'
  BY <1>0, <1>1 DEF Apart
<1>2. CASE Bridge
  BY <1>0, <1>1, <1>2, BridgeRetires
<1>3. CASE UNCHANGED pending
  BY <1>1, <1>3
<1>4. ASSUME NEW p \in Workers, NEW n \in DOMAIN pending, NEW text \in Texts, BeginResume(p, n, text)
      PROVE  Apart'
  <2>1. /\ pending \in Seq(Pending) /\ pending[n] \in Pending
        /\ pending' = [pending EXCEPT ![n].status = "resuming", ![n].resumeSeq = Len(exec) + 1]
    BY <1>0, <1>4, PendingType DEF BeginResume, TurnInv, TypeOK
  <2>2. /\ DOMAIN pending' = DOMAIN pending /\ pending'[n].head = pending[n].head
        /\ \A m \in DOMAIN pending \ {n} : pending'[m] = pending[m]
    BY <2>1 DEF Pending
  <2>. QED
    BY <1>1, <2>2
<1>5. ASSUME NEW p \in Workers, Finalize(p) PROVE Apart'
  <2>1. PICK f, k : f = worker[p].fence /\ k = Concern(p)
    OBVIOUS
  <2>2. /\ worker[p].pc \in {"stopped", "parked"}
        /\ \A m \in DOMAIN pending \ {k} : m \in DOMAIN pending' /\ pending'[m] = pending[m]
        /\ Settles(p, k) \/ Closes(p, k) \/ Poses(p, k)
    BY <1>0, <1>5, <2>1, Finalizes
  <2>3. CASE Settles(p, k)
    BY <1>3, <2>3 DEF Settles
  <2>4. CASE Closes(p, k)
    <3>1. pending[k] \in Pending
      BY <1>0, <2>4, PendingType DEF Closes, TurnInv
    <3>2. DOMAIN pending' = DOMAIN pending /\ pending'[k].head = pending[k].head
      BY <2>4, <3>1 DEF Closes, Pending
    <3>. QED
      BY <1>1, <2>2, <3>2
  <2>5. CASE Poses(p, k)
    <3>1. DOMAIN pending' = DOMAIN pending \cup {k} /\ pending'[k].head = f
      BY <2>1, <2>5 DEF Poses
    <3>2. ~At(p, "idle")
      BY <2>2 DEF At
    <3>3. \A m \in DOMAIN pending : pending[m].head # f
      BY <1>0, <2>1, <3>2, SettledElsewhere DEF HeadInv, QuestionOK
    <3>. QED
      BY <1>0, <2>2, <3>1, <3>3 DEF Apart
  <2>. QED
    BY <2>2, <2>3, <2>4, <2>5
<1>. QED
  BY <1>0, <1>2, <1>3, <1>4, <1>5, EngineCases DEF Quiet, Admission, BeginInput, Takeover

(* A call that is admitted does not stand where a retired question was     *)
(* asked.                                                                  *)
LEMMA AdmittedElsewhere ==
    ASSUME RollbackInv, NEW p \in Workers, Admission(p), NEW s \in DOMAIN exec', Running(s)',
           NEW n \in DOMAIN pending, Retired(n)
    PROVE  exec'[s].head # pending[n].head
<1>0. TurnInv /\ HeadInv /\ Apart /\ RetiredIsUnanswered
  BY DEF RollbackInv
<1>1. exec \in Seq(Exec) /\ \A t \in DOMAIN exec : exec[t] \in Exec
  BY <1>0, ExecType DEF TurnInv, TypeOK
<1>2. pending[n].head # NoHead /\ pending[n].head \in Tombstoned
  BY <1>0 DEF HeadInv, QuestionOK, TurnInv, TypeOK, NoHead, Tombstoned
<1>3. CASE BeginInput(p)
  <2>1. (s \in DOMAIN exec /\ exec'[s] = exec[s]) \/ exec'[s].head = NoHead
    BY <1>1, <1>3 DEF BeginInput
  <2>. QED
    BY <1>0, <1>2, <2>1 DEF RetiredIsUnanswered, Running
<1>4. ASSUME NEW m \in DOMAIN pending, NEW text \in Texts, BeginResume(p, m, text)
      PROVE  exec'[s].head # pending[n].head
  <2>1. (s \in DOMAIN exec /\ exec'[s] = exec[s]) \/ exec'[s].head = pending[m].head
    BY <1>1, <1>4 DEF BeginResume
  <2>2. m # n
    BY <1>4 DEF BeginResume, Retired
  <2>. QED
    BY <1>0, <2>1, <2>2 DEF RetiredIsUnanswered, Running, Apart
<1>5. ASSUME NEW r \in DOMAIN exec, Takeover(p, r) PROVE exec'[s].head # pending[n].head
  <2>1. /\ s \in DOMAIN exec /\ exec'[r].head = Recovered(r)
        /\ s # r => exec'[s] = exec[s]
    BY <1>1, <1>5 DEF Takeover, Exec
  <2>2. CASE s # r \/ exec[r].head # NoHead
    BY <1>0, <1>5, <2>1, <2>2 DEF RetiredIsUnanswered, Running, Takeover, Recovered
  <2>3. CASE s = r /\ exec[r].head = NoHead
    <3>1. exec'[s].head = RecoveryHead(r)
      BY <2>1, <2>3 DEF Recovered
    <3>2. Heads # {} => exec[Latest(Heads)].head \notin Tombstoned
      BY <1>0, LatestPlaces DEF Heads, TurnInv
    <3>3. Fallback # {} => pending[Latest(Fallback)].head # pending[n].head
      BY <1>0, LatestPlaces DEF Fallback, TurnInv, Apart
    <3>. QED
      BY <1>2, <2>3, <3>1, <3>2, <3>3 DEF RecoveryHead
  <2>. QED
    BY <2>2, <2>3
<1>. QED
  BY <1>3, <1>4, <1>5 DEF Admission

(* A retired question has not been confirmed, and is not any more; nor is  *)
(* the conversation continued where it was asked.                          *)
LEMMA RetiredNext ==
    ASSUME RollbackInv, [EngineNext]_engineVars
    PROVE  RetiredIsUnanswered'
<1>0. TurnInv /\ HeadInv /\ RetiredIsUnanswered
  BY DEF RollbackInv
<1>. SUFFICES ASSUME NEW n \in DOMAIN pending', Retired(n)'
              PROVE  /\ ~Done(Confirm(n))'
                     /\ \A s \in DOMAIN exec' : Running(s)' => exec'[s].head # pending'[n].head
  BY DEF RetiredIsUnanswered
<1>1. CASE Bridge
  <2>1. /\ n \in DOMAIN pending /\ UNCHANGED <<exec, ledger>>
        /\ \A s \in DOMAIN exec : ~Running(s)
        /\ ~Live(n) => pending'[n] = pending[n]
        /\ Live(n) => ~Done(Confirm(n))
    BY <1>0, <1>1, BridgeRetires DEF effects
  <2>2. ~Live(n) => Retired(n)
    BY <2>1 DEF Retired
  <2>. QED
    BY <1>0, <2>1, <2>2 DEF RetiredIsUnanswered, Done, Running
<1>2. CASE ~Bridge
  <2>1. n \in DOMAIN pending /\ Retired(n) /\ ~Done(Confirm(n)) /\ [Next]_vars
    BY <1>0, <1>2, OnlyBridgeRetires, BridgeOrTurn DEF RetiredIsUnanswered
  <2>2. ~Done(Confirm(n))'
    BY <1>0, <2>1, ConfirmsTheAsked DEF Retired
  <2>3. pending'[n] = pending[n]
    BY <1>0, <2>1, RowsStay DEF Retired, Live
  <2>4. ASSUME NEW s \in DOMAIN exec', Running(s)' PROVE exec'[s].head # pending[n].head
    <3>1. CASE Quiet
      <4>1. s \in DOMAIN exec /\ exec'[s].head = exec[s].head
        BY <3>1 DEF Quiet
      <4>2. Running(s)
        BY <1>0, <2>1, <2>4, <4>1, EndedStays DEF Running
      <4>. QED
        BY <1>0, <2>1, <4>1, <4>2 DEF RetiredIsUnanswered
    <3>2. ASSUME NEW p \in Workers, Admission(p) PROVE exec'[s].head # pending[n].head
      BY <2>1, <2>4, <3>2, AdmittedElsewhere
    <3>3. ASSUME NEW p \in Workers, Finalize(p) PROVE exec'[s].head # pending[n].head
      <4>1. PICK t, f, k : t = worker[p].seq /\ f = worker[p].fence /\ k = Concern(p)
        OBVIOUS
      <4>2. EndsWith(t, f)
        BY <1>0, <3>3, <4>1, Finalizes
      <4>3. s \in DOMAIN exec /\ exec'[s] = exec[s]
        BY <2>4, <4>2 DEF EndsWith, Running
      <4>. QED
        BY <1>0, <2>1, <2>4, <4>3 DEF RetiredIsUnanswered, Running
    <3>. QED
      BY <1>0, <1>2, <3>1, <3>2, <3>3, EngineCases
  <2>. QED
    BY <2>2, <2>3, <2>4
<1>. QED
  BY <1>1, <1>2

-----------------------------------------------------------------------------
(* The invariant holds at first.                                           *)
LEMMA RollbackInit == EngineInit => RollbackInv
<1>. SUFFICES ASSUME EngineInit PROVE RollbackInv
  OBVIOUS
<1>1. TurnInv /\ HeadInv /\ DraftInv
  BY InitInv, HeadsInit, DraftInit DEF EngineInit
<1>2. TasksOK /\ AnswersOK /\ Unaccepted /\ Apart /\ RetiredIsUnanswered
  BY DEF EngineInit, Init, TasksOK, AnswersOK, Unaccepted, Apart, RetiredIsUnanswered
<1>3. BindingOK /\ CursorOK
  BY DEF EngineInit, BindingOK, CursorOK, NoCursor
<1>. QED
  BY <1>1, <1>2, <1>3 DEF RollbackInv

(* Every step keeps it, the bridge included.                               *)
LEMMA RollbackNext == RollbackInv /\ [EngineNext]_engineVars => RollbackInv'
<1>. SUFFICES ASSUME RollbackInv, [EngineNext]_engineVars PROVE RollbackInv'
  OBVIOUS
<1>1. TurnInv' /\ HeadInv' /\ DraftInv'
  BY BridgeOrTurn, BridgeTurn, BridgeHeads, BridgeDraft, NextInv, HeadsNext, DraftNext
     DEF RollbackInv
<1>2. TasksOK' /\ AnswersOK' /\ Unaccepted'
  BY RowsStay, TasksNext, AnswersNext, UnacceptedNext DEF RollbackInv
<1>3. BindingOK' /\ CursorOK' /\ Apart' /\ RetiredIsUnanswered'
  BY <1>1, BindingNext, CursorNext, ApartNext, RetiredNext
<1>. QED
  BY <1>1, <1>2, <1>3 DEF RollbackInv

(* The invariant holds, whenever the Workspace is moved and by whichever   *)
(* engine a call is served.                                                *)
LEMMA RollbackHolds == EngineSpec => []RollbackInv
BY RollbackInit, RollbackNext, PTL DEF EngineSpec

(* The rows, the retained interrupts, the Cursor and the dispatched calls  *)
(* keep their types: there is at most one question in the Cursor, and it is*)
(* about a revision that there was.                                        *)
THEOREM EngineTypeCorrect == EngineSpec => []EngineTypeOK
<1>1. ASSUME RollbackInv PROVE EngineTypeOK
  <2>1. /\ cursor \subseteq Cursors /\ \A c \in cursor : c.revision <= draft.revision
        /\ \A x, y \in cursor : x = y
    BY <1>1 DEF RollbackInv, CursorOK, NoCursor
  <2>2. Cardinality(cursor) <= 1
    BY <2>1, AtMostOne
  <2>. QED
    BY <1>1, <2>1, <2>2 DEF RollbackInv, TurnInv, TasksOK, BindingOK, EngineTypeOK
<1>2. RollbackInv => EngineTypeOK
  BY <1>1
<1>. QED
  BY <1>2, RollbackHolds, PTL

(* A question that the bridge retired (abandoned_to_legacy or              *)
(* abandoned_conflict) has not been confirmed by a LangGraph turn, and no  *)
(* replay of its answer ever confirms the draft (execute of rollback.py,   *)
(* resume_sequence_status_consistent of db/models.py).  Nor does a turn    *)
(* ever continue where it was asked: begin_resume takes another question,  *)
(* which stands on another head, and takeover leaves the tombstoned heads  *)
(* out.                                                                    *)
THEOREM RetiredIsUnansweredHolds == EngineSpec => []RetiredIsUnanswered
BY RollbackHolds, PTL DEF RollbackInv

(* With the session alive and no turn running, no retained interrupt       *)
(* blocks the bridge: each belongs to the open question, to a retired one, *)
(* or was superseded by the turn that answered it (_reconcile of           *)
(* rollback.py).                                                           *)
THEOREM DrainedCanMoveHolds == EngineSpec => []DrainedCanMove
<1>1. ASSUME RollbackInv, session, \A s \in DOMAIN exec : ~Running(s) PROVE ~Blocked
  <2>1. \A head \in AcceptedHeads \cap DOMAIN task : Accounted(head)
    BY <1>1 DEF RollbackInv, TasksOK, AnswersOK, Accounted
  <2>2. \A n \in DOMAIN pending : Live(n) => pending[n].head \in DOMAIN task
    BY <1>1 DEF RollbackInv, AnswersOK
  <2>. QED
    BY <1>1, <2>1, <2>2 DEF Blocked
<1>2. RollbackInv => DrainedCanMove
  BY <1>1 DEF DrainedCanMove
<1>. QED
  BY <1>2, RollbackHolds, PTL

(* No call that was dispatched before the move touches a retired question. *)
THEOREM RetiredStaysRetiredHolds == EngineSpec => RetiredStaysRetired
<1> DEFINE Stays == \A n \in DOMAIN pending : Retired(n) => pending'[n] = pending[n]
<1>1. ASSUME RollbackInv, [EngineNext]_engineVars PROVE Stays
  BY <1>1, RowsStay DEF RollbackInv, Retired, Live
<1>2. RollbackInv /\ [EngineNext]_engineVars => [Stays]_engineVars
  BY <1>1
<1>. QED
  BY <1>2, RollbackHolds, PTL DEF EngineSpec, RetiredStaysRetired

(* Whatever the Cursor holds when the Workspace moves, it is about the     *)
(* draft as it is, also where the question is one for collection that is   *)
(* carried over; and it asks for the confirmation if and only if the       *)
(* bridge has just retired a question in favour of the legacy engine       *)
(* (_clean_mapping and execute of rollback.py).                            *)
THEOREM MovedQuestionFitsHolds == EngineSpec => MovedQuestionFits
<1> DEFINE Fits == flow = 2 /\ flow' = 1 =>
                     /\ \A c \in cursor' : c.revision = draft'.revision
                     /\ Asks("confirmation")' <=> \E n \in DOMAIN pending : HandedOver(n)
<1>1. ASSUME RollbackInv, [EngineNext]_engineVars PROVE Fits
  <2>. SUFFICES ASSUME flow = 2, flow' = 1
                PROVE  /\ \A c \in cursor' : c.revision = draft'.revision
                       /\ Asks("confirmation")' <=> \E n \in DOMAIN pending : HandedOver(n)
    OBVIOUS
  <2>1. Bridge
    BY <1>1 DEF EngineNext, Admission, Turn, Refused, Mishap, Form, LegacyWrite, Submission,
         LegacyCursor, engineVars, rollback, binding
  <2>2. UNCHANGED draft
    BY <2>1 DEF Bridge, Move, effects
  <2>3. \A c \in cursor : Confirms(c) \/ Collects(c)
    BY <1>1 DEF RollbackInv, CursorOK
  <2>4. OpenQuestions = Open
    BY DEF OpenQuestions, Open
  <2>5. ASSUME OpenQuestions = {}, UNCHANGED <<pending, cursor>>
        PROVE  /\ \A c \in cursor' : c.revision = draft'.revision
               /\ Asks("confirmation")' <=> \E n \in DOMAIN pending : HandedOver(n)
    <3>1. \A c \in cursor : c.kind = "collection" /\ c.revision = draft.revision
      BY <2>3, <2>4, <2>5 DEF Confirms, Collects
    <3>2. \A n \in DOMAIN pending : ~HandedOver(n)
      BY <2>5 DEF HandedOver, Retired
    <3>. QED
      BY <2>2, <2>5, <3>1, <3>2 DEF Asks
  <2>6. ASSUME NEW n \in OpenQuestions, Retire(n)
        PROVE  /\ \A c \in cursor' : c.revision = draft'.revision
               /\ Asks("confirmation")' <=> \E m \in DOMAIN pending : HandedOver(m)
    <3>1. /\ pending \in Seq(Pending) /\ pending[n] \in Pending /\ n \in DOMAIN pending /\ Live(n)
          /\ \A m \in Open : m = n
      BY <1>1, <2>4, <2>6, PendingType DEF OpenQuestions, Open, RollbackInv, TurnInv, TypeOK, RowsOK
    <3>2. \A c \in cursor : c.kind = "confirmation" /\ c.revision = pending[n].revision
      BY <2>3, <3>1 DEF Confirms, Collects, Open
    <3>3. CASE Clean(n)
      <4>1. pending' = [pending EXCEPT ![n].status = "abandoned_to_legacy"]
        BY <2>6, <3>3 DEF Retire
      <4>2. HandedOver(n)
        BY <3>1, <4>1 DEF HandedOver, Retired, Live, Pending
      <4>3. CASE Asks("confirmation") /\ UNCHANGED cursor
        BY <2>2, <3>1, <3>2, <3>3, <4>2, <4>3 DEF Asks, Clean
      <4>4. CASE cursor' = Question("confirmation", pending[n].revision)
        <5>1. PICK c : c = [kind |-> "confirmation", revision |-> pending[n].revision]
          OBVIOUS
        <5>2. cursor' = {c} /\ c.kind = "confirmation" /\ c.revision = draft'.revision
          BY <2>2, <3>3, <4>4, <5>1 DEF Question, Clean
        <5>. QED
          BY <3>1, <4>2, <5>2 DEF Asks
      <4>. QED
        BY <2>6, <3>3, <4>3, <4>4 DEF Retire
    <3>4. CASE ~Clean(n)
      <4>1. /\ pending' = [pending EXCEPT ![n].status = "abandoned_conflict"]
            /\ cursor' = {}
        BY <2>6, <3>4 DEF Retire, NoCursor
      <4>2. \A m \in DOMAIN pending : ~HandedOver(m)
        <5>1. /\ pending'[n].status = "abandoned_conflict"
              /\ \A m \in DOMAIN pending \ {n} : pending'[m] = pending[m]
          BY <3>1, <4>1 DEF Pending
        <5>. QED
          BY <5>1 DEF HandedOver, Retired
      <4>. QED
        BY <4>1, <4>2 DEF Asks
    <3>. QED
      BY <3>3, <3>4
  <2>. QED
    BY <2>1, <2>5, <2>6 DEF Bridge, Move
<1>2. RollbackInv /\ [EngineNext]_engineVars => [Fits]_engineVars
  BY <1>1
<1>. QED
  BY <1>2, RollbackHolds, PTL DEF EngineSpec, MovedQuestionFits

-----------------------------------------------------------------------------
(* What the turns promise, with the bridge and the legacy engine beside    *)
(* them.                                                                   *)

(* At most one turn runs and one question is open, and while one is open   *)
(* only its answer runs (begin_input, begin_resume and takeover, against   *)
(* the bridge's retiring of a question).                                   *)
THEOREM OneConversationThroughMove == EngineSpec => []OneConversation
<1>1. RollbackInv => OneConversation
  BY RowsOfOneConversation DEF RollbackInv
<1>. QED
  BY <1>1, RollbackHolds, PTL

(* An accepted checkpoint was saved on the accepted one of another turn or *)
(* on none: the bridge closes turns without making heads (promote).        *)
THEOREM AcceptedLineageThroughMove == EngineSpec => []AcceptedLineage
<1>1. RollbackInv => AcceptedLineage
  BY LineageFollows DEF RollbackInv
<1>. QED
  BY <1>1, RollbackHolds, PTL

(* An open question stands on a saved head and is about a draft nobody has *)
(* confirmed as it was asked about, however the legacy engine wrote it in  *)
(* between (begin_resume).                                                 *)
THEOREM OpenQuestionThroughMove == EngineSpec => []OpenQuestionIsAnswerable
<1>1. RollbackInv => OpenQuestionIsAnswerable
  BY AnswerableFollows DEF RollbackInv
<1>. QED
  BY <1>1, RollbackHolds, PTL

(* A LangGraph turn confirms for an answer that runs in a live session,    *)
(* and only the revision that was asked about, also when its call resolved *)
(* the engine before the move (confirm_draft of step_operations.py).       *)
THEOREM ConfirmedThroughMove == EngineSpec => ConfirmedWhatWasAsked
<1> DEFINE Allowed ==
        \A n \in DOMAIN pending : ~Done(Confirm(n)) /\ Done(Confirm(n))' =>
           /\ session
           /\ pending[n].status = "resuming" /\ Running(pending[n].resumeSeq)
           /\ draft.revision = pending[n].revision
<1>1. ASSUME TurnInv, [Next]_vars PROVE Allowed
  BY <1>1, ConfirmsTheAsked
<1>2. ASSUME Bridge PROVE Allowed
  BY <1>2 DEF Bridge, Move, effects, Done
<1>3. ASSUME RollbackInv, [EngineNext]_engineVars PROVE Allowed
  BY <1>1, <1>2, <1>3, BridgeOrTurn DEF RollbackInv
<1>4. RollbackInv /\ [EngineNext]_engineVars => [Allowed]_vars
  BY <1>3
<1>. QED
  BY <1>4, RollbackHolds, PTL DEF EngineSpec, ConfirmedWhatWasAsked

(* A turn that has ended stays as it ended, whatever a late attempt, a     *)
(* disconnect or the bridge does (the finalizers of turn_execution.py).    *)
THEOREM TurnEndsOnceThroughMove == EngineSpec => TurnEndsOnce
<1> DEFINE Ended == \A s \in DOMAIN exec : ~Running(s) => exec'[s] = exec[s]
<1>1. ASSUME RollbackInv, [EngineNext]_engineVars PROVE Ended
  BY <1>1, EndedStays, BridgeOrTurn DEF RollbackInv, Bridge, Move
<1>2. RollbackInv /\ [EngineNext]_engineVars => [Ended]_vars
  BY <1>1
<1>. QED
  BY <1>2, RollbackHolds, PTL DEF EngineSpec, TurnEndsOnce

(* The bridge withdraws the question from the requester, or is not seen.   *)
LEMMA BridgeSeen ==
    ASSUME TurnInv, TurnInv', Bridge
    PROVE  [Promise!Next]_(Promise!conversation)
<1>1. /\ \A s \in DOMAIN exec : ~Running(s)
      /\ UNCHANGED <<exec, effects>> /\ DOMAIN pending' = DOMAIN pending
      /\ \A n \in DOMAIN pending : ~Live(n)'
  BY BridgeRetires
<1>2. Phase' = "free" /\ Subject' = {} /\ ~Confirmed'
  BY <1>1, SeesPhaseAfter DEF View, Running
<1>3. CASE \A n \in DOMAIN pending : ~Live(n)
  <2>1. Phase = "free" /\ Subject = {} /\ ~Confirmed
    BY <1>1, <1>3, SeesPhase DEF View
  <2>. QED
    BY <1>1, <1>2, <2>1, SeenEdit DEF Seen, effects, Confirmed
<1>4. CASE \E n \in DOMAIN pending : Live(n)
  <2>1. Phase # "free"
    BY <1>4, SeesPhase DEF View
  <2>. QED
    BY <1>1, <1>2, <2>1, Booleans DEF effects, Promise!Next, Promise!Settle, Promise!NoSubject, Confirmed
<1>. QED
  BY <1>3, <1>4

(* The requester sees the conversation that was promised: every step,      *)
(* whichever engine makes it, is one of Conversation or a stutter, and to  *)
(* move the Workspace is to withdraw the question (execute of rollback.py).*)
THEOREM ConversationThroughMove == EngineSpec => ImplementsConversation
<1>1. EngineInit => Promise!Init
  BY ConversationBegins DEF EngineInit
<1>2. RollbackInv /\ RollbackInv' /\ [EngineNext]_engineVars => [Promise!Next]_(Promise!conversation)
  BY BridgeOrTurn, BridgeSeen, ConversationGoesOn DEF RollbackInv
<1>. QED
  BY <1>1, <1>2, RollbackHolds, PTL DEF EngineSpec, ImplementsConversation, Promise!Spec
===============================================================================
