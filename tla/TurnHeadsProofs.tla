---------------------------- MODULE TurnHeadsProofs ----------------------------
(***************************************************************************)
(* The checkpoints of a conversation, for any number of calls, inputs and  *)
(* failures: accepted heads descend from accepted heads, and an open       *)
(* question can be answered.                                               *)
(***************************************************************************)
EXTENDS TurnExecutionProofs

(* A turn that ended, other than s, left this head behind.                 *)
Settled(h, s) == \E t \in DOMAIN exec \ {s} : ~Running(t) /\ exec[t].head = h

(* A running turn stands on a head that another turn left; an ended one    *)
(* has a head that was saved on top of one.                                *)
HeadOK(s) ==
    LET h == exec[s].head
    IN  h # NoHead =>
           /\ h \in DOMAIN saved
           /\ Running(s) => Settled(h, s)
           /\ ~Running(s) => saved[h] = NoHead \/ Settled(saved[h], s)

QuestionOK(n) == pending[n].head \in DOMAIN saved /\ Settled(pending[n].head, 0)

(* The checkpoint of a call bears its fence, which no other call has.      *)
CallOK(p) ==
    ~At(p, "idle") =>
        /\ At(p, "admitted") => worker[p].fence \notin DOMAIN saved
        /\ ~At(p, "admitted") =>
              worker[p].fence \in DOMAIN saved /\ saved[worker[p].fence] = worker[p].head
        /\ \A q \in Workers : ~At(q, "idle") /\ worker[q].fence = worker[p].fence => q = p

HeadInv ==
    /\ \A s \in DOMAIN exec : HeadOK(s)
    /\ \A n \in DOMAIN pending : QuestionOK(n)
    /\ \A p \in Workers : CallOK(p)

(* A draft of this revision has not been confirmed.                        *)
Undecided(r) == r <= draft.revision /\ (r = draft.revision => ~draft.confirmed)

(* What a call is about to ask for is a draft that nobody has confirmed.   *)
AskedOK(p) ==
    worker[p].pc \in {"stopping", "stopped", "parked"} /\ worker[p].outcome = "interrupt" =>
       Undecided(worker[p].base)

DraftInv ==
    /\ \A op \in DOMAIN ledger : op[1] = "persist" => Undecided(ledger[op])
    /\ \A p \in Workers : AskedOK(p)
    /\ \A n \in DOMAIN pending : Undecided(pending[n].revision)

-----------------------------------------------------------------------------
(* The graph goes on, under the same fence and from the same head.         *)
WithGraph == GraphPC \cup {"stopped", "parked"}
GoesOn(p) ==
    /\ worker[p].pc \in WithGraph /\ worker'[p].pc \in WithGraph
    /\ worker'[p].fence = worker[p].fence /\ worker'[p].head = worker[p].head
    /\ \A q \in Workers \ {p} : worker'[q] = worker[q]

(* Moving to another place in the graph keeps fence and head.              *)
LEMMA SetGoesOn ==
    ASSUME TurnInv, NEW p \in Workers, worker[p].pc \in WithGraph, NEW pc \in WithGraph, NEW o, NEW b,
           \/ worker' = [worker EXCEPT ![p].pc = pc]
           \/ worker' = [worker EXCEPT ![p].pc = pc, ![p].base = b]
           \/ worker' = [worker EXCEPT ![p].pc = pc, ![p].outcome = o, ![p].base = b]
    PROVE  GoesOn(p)
<1>1. worker[p] \in Busy
  BY CallFacts DEF At, WithGraph, GraphPC
<1>. QED
  BY <1>1 DEF GoesOn, Busy, TurnInv, TypeOK

(* Every step of the graph does.                                           *)
LEMMA GraphGoesOn ==
    ASSUME TurnInv, NEW p \in Workers,
           \/ HydrateInput(p) \/ HydrateResume(p) \/ CallModel(p) \/ SkipModel(p)
           \/ PersistDraft(p) \/ ApplyConfirmation(p) \/ StopGraph(p)
    PROVE  GoesOn(p)
<1>1. worker[p].pc \in WithGraph
  BY DEF HydrateInput, HydrateResume, CallModel, SkipModel, PersistDraft, ApplyConfirmation,
         StopGraph, At, ModelPC, WithGraph, GraphPC
<1>2. ASSUME NEW pc \in WithGraph,
             \/ worker' = [worker EXCEPT ![p].pc = pc]
             \/ worker' = [worker EXCEPT ![p].pc = pc, ![p].base = draft.revision]
      PROVE  GoesOn(p)
  BY <1>1, <1>2, SetGoesOn
<1>3. ASSUME NEW o, NEW b,
             worker' = [worker EXCEPT ![p].pc = "stopping", ![p].outcome = o, ![p].base = b]
      PROVE  GoesOn(p)
  BY <1>1, <1>3, SetGoesOn DEF WithGraph, GraphPC
<1>4. ASSUME NEW o, Stop(p, o) PROVE GoesOn(p)
  BY <1>3, <1>4 DEF Stop
<1>5. ASSUME NEW r, Committed(p, r) PROVE GoesOn(p)
  BY <1>3, <1>5 DEF Committed
<1>6. CASE HydrateInput(p) \/ HydrateResume(p)
  BY <1>2, <1>4, <1>6 DEF HydrateInput, HydrateResume, Goto, WithGraph, GraphPC
<1>7. CASE CallModel(p)
  BY <1>2, <1>4, <1>7 DEF CallModel, WithGraph, GraphPC
<1>8. CASE SkipModel(p)
  BY <1>2, <1>4, <1>8 DEF SkipModel, WithGraph, GraphPC
<1>9. CASE PersistDraft(p)
  BY <1>4, <1>5, <1>9 DEF PersistDraft
<1>10. CASE ApplyConfirmation(p)
  BY <1>4, <1>10 DEF ApplyConfirmation
<1>11. CASE StopGraph(p)
  BY <1>2, <1>11 DEF StopGraph, WithGraph
<1>. QED
  BY <1>6, <1>7, <1>8, <1>9, <1>10, <1>11

(* No head, no question and no checkpoint changes.                         *)
LEMMA HeadsKept ==
    ASSUME TurnInv, HeadInv, UNCHANGED <<pending, saved>>, DOMAIN exec' = DOMAIN exec,
           \A s \in DOMAIN exec : exec'[s].status = exec[s].status /\ exec'[s].head = exec[s].head,
           \A q \in Workers : worker'[q] = worker[q] \/ worker'[q] = Idle \/ GoesOn(q)
    PROVE  HeadInv'
<1>1. \A h, s : Settled(h, s)' <=> Settled(h, s)
  BY DEF Settled, Running
<1>2. \A s \in DOMAIN exec' : HeadOK(s)'
  BY <1>1 DEF HeadInv, HeadOK, Running
<1>3. \A n \in DOMAIN pending' : QuestionOK(n)'
  BY <1>1 DEF HeadInv, QuestionOK
<1>4. \A q \in Workers : ~At(q, "idle")' =>
         /\ ~At(q, "idle") /\ (At(q, "admitted")' <=> At(q, "admitted"))
         /\ worker'[q].fence = worker[q].fence /\ worker'[q].head = worker[q].head
  BY DEF At, Idle, GoesOn, WithGraph, GraphPC
<1>5. \A q \in Workers : CallOK(q)'
  BY <1>4 DEF HeadInv, CallOK
<1>. QED
  BY <1>2, <1>3, <1>5 DEF HeadInv

(* What touches no head keeps the heads right.                             *)
LEMMA SoftHeads ==
    ASSUME TurnInv, HeadInv,
           \/ \E p \in Workers : DisconnectEarly(p) \/ Reject(p) \/ Crash(p) \/ LoseLock(p)
           \/ \E s \in DOMAIN exec : LeaseExpires(s)
           \/ \E confirmed \in BOOLEAN : FormEdit(confirmed)
           \/ Logout \/ UNCHANGED vars
    PROVE  HeadInv'
<1> DEFINE Alike == /\ DOMAIN exec' = DOMAIN exec
                    /\ \A s \in DOMAIN exec : /\ exec'[s].status = exec[s].status
                                             /\ exec'[s].head = exec[s].head
<1>1. Alike
  <2>1. \A s \in DOMAIN exec : exec[s] \in Exec
    BY ExecType DEF TurnInv
  <2>2. ASSUME NEW p \in Workers, DisconnectEarly(p) PROVE Alike
    BY <2>1, <2>2 DEF DisconnectEarly, Exec, TurnInv, TypeOK
  <2>3. ASSUME NEW s \in DOMAIN exec, LeaseExpires(s) PROVE Alike
    BY <2>1, <2>3 DEF LeaseExpires, Exec, TurnInv, TypeOK
  <2>4. ASSUME UNCHANGED exec PROVE Alike
    BY <2>4
  <2>. QED
    BY <2>2, <2>3, <2>4 DEF Reject, Crash, LoseLock, FormEdit, Logout, vars, rows
<1>2. UNCHANGED <<pending, saved>>
  BY DEF DisconnectEarly, Reject, Crash, GiveUp, LoseLock, LeaseExpires, FormEdit, Logout, vars, rows
<1>3. \A q \in Workers : worker'[q] = worker[q] \/ worker'[q] = Idle
  BY DEF DisconnectEarly, Reject, Crash, GiveUp, LoseLock, LeaseExpires, FormEdit, Logout, vars,
         TurnInv, TypeOK
<1>. QED
  BY <1>1, <1>2, <1>3, HeadsKept

(* A head that an ended turn left stays one.                               *)
LEMMA SettledStays ==
    ASSUME TurnInv, [Next]_vars
    PROVE  \A h, s : Settled(h, s) => Settled(h, s)'
<1>1. \A t \in DOMAIN exec : ~Running(t) => t \in DOMAIN exec' /\ exec'[t] = exec[t] /\ ~Running(t)'
  BY EndedStays DEF Running
<1>. QED
  BY <1>1 DEF Settled

(* StartGraph keeps the heads right.                                       *)
LEMMA StartGraphHeads ==
    ASSUME TurnInv, HeadInv, NEW p \in Workers, StartGraph(p)
    PROVE  HeadInv'
<1> DEFINE f == worker[p].fence
<1>1. /\ worker[p] \in Busy /\ ~At(p, "idle") /\ f = fence /\ f \notin DOMAIN saved
      /\ UNCHANGED <<exec, pending>>
  BY CallFacts DEF StartGraph, At, Fenced, HeadInv, CallOK, rows
<1>2. /\ DOMAIN saved' = DOMAIN saved \cup {f} /\ saved'[f] = exec[worker[p].seq].head
      /\ \A id \in DOMAIN saved : saved'[id] = saved[id]
  BY <1>1 DEF StartGraph
<1>3. /\ worker'[p].pc = "hydrating" /\ worker'[p].head = exec[worker[p].seq].head
      /\ worker'[p].fence = f
      /\ \A q \in Workers \ {p} : worker'[q] = worker[q]
  BY <1>1 DEF StartGraph, Busy, TurnInv, TypeOK
<1>4. \A h, s : Settled(h, s)' <=> Settled(h, s)
  BY <1>1 DEF Settled, Running
<1>5. \A s \in DOMAIN exec' : HeadOK(s)'
  BY <1>1, <1>2, <1>4 DEF HeadInv, HeadOK, Running
<1>6. \A n \in DOMAIN pending' : QuestionOK(n)'
  BY <1>1, <1>2, <1>4 DEF HeadInv, QuestionOK
<1>7. \A q \in Workers : ~At(q, "idle")' => ~At(q, "idle") /\ worker'[q].fence = worker[q].fence
  BY <1>1, <1>3 DEF At
<1>8. CallOK(p)'
  BY <1>1, <1>2, <1>3, <1>7 DEF HeadInv, CallOK, At
<1>9. ASSUME NEW q \in Workers, q # p PROVE CallOK(q)'
  BY <1>1, <1>2, <1>3, <1>7, <1>9 DEF HeadInv, CallOK, At
<1>. QED
  BY <1>5, <1>6, <1>8, <1>9 DEF HeadInv

(* A call that is admitted has a fence of its own.                         *)
LEMMA AdmitHeads ==
    ASSUME TurnInv, HeadInv, NEW p \in Workers, NEW s, NEW n, Admit(p, s, fence + 1, n),
           UNCHANGED saved
    PROVE  \A q \in Workers : CallOK(q)'
<1>1. /\ worker'[p].pc = "admitted" /\ worker'[p].fence = fence + 1
      /\ \A q \in Workers \ {p} : worker'[q] = worker[q]
  BY DEF Admit, TurnInv, TypeOK
<1>2. fence + 1 \notin DOMAIN saved /\ fence \in Nat
  BY DEF TurnInv, TypeOK
<1>3. \A q \in Workers : ~At(q, "idle") => worker[q].fence \in 1..fence
  BY CallFacts
<1>4. \A q \in Workers : ~At(q, "idle") => worker[q].fence # fence + 1
  BY <1>2, <1>3
<1>5. CallOK(p)'
  BY <1>1, <1>2, <1>4 DEF CallOK, At
<1>6. ASSUME NEW q \in Workers, q # p PROVE CallOK(q)'
  BY <1>1, <1>4, <1>6 DEF HeadInv, CallOK, At
<1>. QED
  BY <1>5, <1>6

(* BeginInput keeps the heads right.                                       *)
LEMMA BeginInputHeads ==
    ASSUME TurnInv, HeadInv, [Next]_vars, NEW p \in Workers, BeginInput(p)
    PROVE  HeadInv'
<1> DEFINE s == Len(exec) + 1
<1>1. /\ DOMAIN exec' = DOMAIN exec \cup {s} /\ exec'[s].head = NoHead
      /\ \A t \in DOMAIN exec : exec'[t] = exec[t]
  BY DEF BeginInput, TurnInv, TypeOK
<1>2. UNCHANGED <<pending, saved>>
  BY DEF BeginInput
<1>3. \A t \in DOMAIN exec' : HeadOK(t)'
  BY <1>1, <1>2, SettledStays DEF HeadInv, HeadOK, Running
<1>4. \A n \in DOMAIN pending' : QuestionOK(n)'
  BY <1>2, SettledStays DEF HeadInv, QuestionOK
<1>5. \A q \in Workers : CallOK(q)'
  BY <1>2, AdmitHeads DEF BeginInput
<1>. QED
  BY <1>3, <1>4, <1>5 DEF HeadInv

(* BeginResume keeps the heads right.                                      *)
LEMMA BeginResumeHeads ==
    ASSUME TurnInv, HeadInv, [Next]_vars, NEW p \in Workers, NEW n \in DOMAIN pending,
           NEW text \in Texts, BeginResume(p, n, text)
    PROVE  HeadInv'
<1>0. PICK s, h : s = Len(exec) + 1 /\ h = pending[n].head
  OBVIOUS
<1>1. /\ DOMAIN exec' = DOMAIN exec \cup {s} /\ s \notin DOMAIN exec
      /\ exec'[s].head = h /\ exec'[s].status = "running"
      /\ \A t \in DOMAIN exec : exec'[t] = exec[t]
  BY <1>0 DEF BeginResume, TurnInv, TypeOK
<1>2. /\ UNCHANGED saved /\ DOMAIN pending' = DOMAIN pending
      /\ \A m \in DOMAIN pending : pending'[m].head = pending[m].head
  BY PendingType DEF BeginResume, Pending, TurnInv, TypeOK
<1>3. HeadOK(s)'
  <2>1. h \in DOMAIN saved /\ Settled(h, 0)
    BY <1>0 DEF HeadInv, QuestionOK
  <2>2. PICK t \in DOMAIN exec : ~Running(t) /\ exec[t].head = h
    BY <2>1 DEF Settled
  <2>3. t \in DOMAIN exec' \ {s} /\ exec'[t].status # "running" /\ exec'[t].head = h
    BY <1>1, <2>2 DEF Running
  <2>. QED
    BY <1>1, <1>2, <2>1, <2>3 DEF HeadOK, Settled, Running
<1>4. ASSUME NEW t \in DOMAIN exec PROVE HeadOK(t)'
  BY <1>1, <1>2, SettledStays DEF HeadInv, HeadOK, Running
<1>5. \A m \in DOMAIN pending' : QuestionOK(m)'
  BY <1>2, SettledStays DEF HeadInv, QuestionOK
<1>6. \A q \in Workers : CallOK(q)'
  BY <1>2, AdmitHeads DEF BeginResume
<1>. QED
  BY <1>1, <1>3, <1>4, <1>5, <1>6 DEF HeadInv

(* Recovery continues from a head that an ended turn left, its own, that of *)
(* another turn, or that of the latest question.                           *)
LEMMA RecoveryHeadSettled ==
    ASSUME TurnInv, HeadInv, NEW s \in DOMAIN exec, Running(s), RecoveryHead(s) # NoHead
    PROVE  RecoveryHead(s) \in DOMAIN saved /\ Settled(RecoveryHead(s), s)
<1>1. CASE exec[s].head \notin {NoHead} \cup Tombstoned
  BY <1>1 DEF RecoveryHead, HeadInv, HeadOK
<1>2. CASE exec[s].head \in {NoHead} \cup Tombstoned /\ Heads # {}
  <2>1. PICK t \in Heads : RecoveryHead(s) = exec[t].head
    BY <1>2, LatestPlaces DEF RecoveryHead, TurnInv
  <2>2. t \in DOMAIN exec \ {s} /\ ~Running(t) /\ exec[t].head # NoHead
    BY <1>2, <2>1 DEF Heads, TurnInv, RowsOK
  <2>. QED
    BY <2>1, <2>2 DEF HeadInv, HeadOK, Settled
<1>3. CASE exec[s].head \in {NoHead} \cup Tombstoned /\ Heads = {}
  <2>1. PICK n \in DOMAIN pending : RecoveryHead(s) = pending[n].head
    BY <1>3, LatestPlaces DEF RecoveryHead, Fallback, TurnInv
  <2>. QED
    BY <2>1 DEF HeadInv, QuestionOK, Settled
<1>. QED
  BY <1>1, <1>2, <1>3

(* So does the row of an execution that is taken over.                     *)
LEMMA RecoveredSettled ==
    ASSUME TurnInv, HeadInv, NEW s \in DOMAIN exec, Running(s), Recovered(s) # NoHead
    PROVE  Recovered(s) \in DOMAIN saved /\ Settled(Recovered(s), s)
BY RecoveryHeadSettled DEF Recovered, HeadInv, HeadOK

(* Takeover keeps the heads right.                                         *)
LEMMA TakeoverHeads ==
    ASSUME TurnInv, HeadInv, [Next]_vars, NEW p \in Workers, NEW s \in DOMAIN exec, Takeover(p, s)
    PROVE  HeadInv'
<1>1. /\ DOMAIN exec' = DOMAIN exec
      /\ \A t \in DOMAIN exec \ {s} : exec'[t] = exec[t]
      /\ exec'[s].status = exec[s].status /\ exec'[s].head = Recovered(s) /\ Running(s)
  BY ExecType DEF Takeover, TurnInv, TypeOK, Exec
<1>2. UNCHANGED <<pending, saved>>
  BY DEF Takeover
<1>3. HeadOK(s)'
  BY <1>1, <1>2, RecoveredSettled, SettledStays DEF HeadOK, Running
<1>4. ASSUME NEW t \in DOMAIN exec \ {s} PROVE HeadOK(t)'
  BY <1>1, <1>2, SettledStays DEF HeadInv, HeadOK, Running
<1>5. \A n \in DOMAIN pending' : QuestionOK(n)'
  BY <1>2, SettledStays DEF HeadInv, QuestionOK
<1>6. \A q \in Workers : CallOK(q)'
  BY <1>2, AdmitHeads DEF Takeover
<1>. QED
  BY <1>1, <1>3, <1>4, <1>5, <1>6 DEF HeadInv

(* A turn that ends leaves a head saved on top of the one it stood on, or  *)
(* that one.                                                               *)
LEMMA ClosedHeads ==
    ASSUME TurnInv, HeadInv, [Next]_vars, NEW s \in DOMAIN exec, Running(s), ~Running(s)',
           DOMAIN exec' = DOMAIN exec, \A t \in DOMAIN exec \ {s} : exec'[t] = exec[t],
           UNCHANGED saved,
           \/ exec'[s].head = exec[s].head
           \/ exec'[s].head \in DOMAIN saved /\ saved[exec'[s].head] = exec[s].head
    PROVE  \A t \in DOMAIN exec' : HeadOK(t)'
<1>1. HeadOK(s)'
  <2>1. CASE exec'[s].head = exec[s].head /\ exec[s].head # NoHead
    <3>1. exec[s].head \in DOMAIN saved /\ Settled(exec[s].head, s)
      BY <2>1 DEF HeadInv, HeadOK
    <3>2. PICK t \in DOMAIN exec \ {s} : ~Running(t) /\ exec[t].head = exec[s].head
      BY <3>1 DEF Settled
    <3>3. saved[exec[s].head] = NoHead \/ Settled(saved[exec[s].head], t)
      BY <2>1, <3>2 DEF HeadInv, HeadOK
    <3>4. saved[exec[s].head] = NoHead \/ Settled(saved[exec[s].head], s)
      BY <3>3 DEF Settled
    <3>. QED
      BY <2>1, <3>1, <3>4, SettledStays DEF HeadOK
  <2>2. CASE exec'[s].head \in DOMAIN saved /\ saved[exec'[s].head] = exec[s].head
    <3>1. exec[s].head = NoHead \/ Settled(exec[s].head, s)
      BY DEF HeadInv, HeadOK
    <3>. QED
      BY <2>2, <3>1, SettledStays DEF HeadOK
  <2>3. CASE exec'[s].head = exec[s].head /\ exec[s].head = NoHead
    BY <2>3 DEF HeadOK
  <2>. QED
    BY <2>1, <2>2, <2>3
<1>2. ASSUME NEW t \in DOMAIN exec \ {s} PROVE HeadOK(t)'
  BY SettledStays DEF HeadInv, HeadOK, Running
<1>. QED
  BY <1>1, <1>2

(* A call that leaves takes nothing along.                                 *)
LEMMA IdleHeads ==
    ASSUME TurnInv, HeadInv, NEW p \in Workers, worker' = [worker EXCEPT ![p] = Idle],
           UNCHANGED saved
    PROVE  \A q \in Workers : CallOK(q)'
<1>1. \A q \in Workers : ~At(q, "idle")' => ~At(q, "idle") /\ worker'[q] = worker[q]
  BY DEF At, Idle, TurnInv, TypeOK
<1>. QED
  BY <1>1 DEF HeadInv, CallOK, At

(* QuotaExhausted keeps the heads right.                                   *)
LEMMA QuotaExhaustedHeads ==
    ASSUME TurnInv, HeadInv, [Next]_vars, NEW p \in Workers, QuotaExhausted(p)
    PROVE  HeadInv'
<1> DEFINE s == worker[p].seq
<1>1. s \in DOMAIN exec /\ exec[s] \in Exec /\ Running(s)
  BY CallFacts DEF QuotaExhausted, ModelPC, At, Fenced, Running
<1>2. /\ DOMAIN exec' = DOMAIN exec /\ exec'[s].status = "recoverable_error"
      /\ exec'[s].head = exec[s].head
      /\ \A t \in DOMAIN exec \ {s} : exec'[t] = exec[t]
  BY <1>1 DEF QuotaExhausted, Exec, TurnInv, TypeOK
<1>3. UNCHANGED <<pending, saved>> /\ worker' = [worker EXCEPT ![p] = Idle]
  BY DEF QuotaExhausted
<1>4. \A t \in DOMAIN exec' : HeadOK(t)'
  <2>1. exec'[s].status # "running"
    BY <1>2
  <2>2. PICK t : t = s
    OBVIOUS
  <2>3. Running(t) /\ ~Running(t)' /\ t \in DOMAIN exec
    BY <1>1, <2>1, <2>2 DEF Running
  <2>. QED
    BY <1>2, <1>3, <2>2, <2>3, ClosedHeads
<1>5. \A n \in DOMAIN pending' : QuestionOK(n)'
  BY <1>3, SettledStays DEF HeadInv, QuestionOK
<1>6. \A q \in Workers : CallOK(q)'
  BY <1>3, IdleHeads
<1>. QED
  BY <1>4, <1>5, <1>6 DEF HeadInv

(* Finalize keeps the heads right.                                         *)
LEMMA FinalizeHeads ==
    ASSUME TurnInv, HeadInv, [Next]_vars, NEW p \in Workers, Finalize(p)
    PROVE  HeadInv'
<1>1. PICK s, f, n : s = worker[p].seq /\ f = worker[p].fence /\ n = worker[p].resumed
  OBVIOUS
<1> DEFINE asked == [status |-> "active", revision |-> worker[p].base,
                     head |-> f, resumeSeq |-> NoInput]
<1>2. PICK st \in ExecStatus \ {"running"} :
         FinalizeGraphTurn(p, st) \/ FinalizeResumeOutcome(p, st) \/ FinalizeInterrupt(p, st)
  BY DEF Finalize
<1>3. MayFinalize(p) /\ ~At(p, "idle") /\ ~At(p, "admitted")
  BY <1>2 DEF FinalizeGraphTurn, FinalizeResumeOutcome, FinalizeInterrupt, MayFinalize, At
<1>4. /\ s \in DOMAIN exec /\ s # 0 /\ exec[s] \in Exec /\ Running(s)
      /\ f \in DOMAIN saved /\ saved[f] = exec[s].head
  BY <1>1, <1>3, CallFacts DEF MayFinalize, Fenced, Running, HeadInv, CallOK
<1>5. PICK st2 \in ExecStatus \ {"running"} : Close(p, st2)
  BY <1>2 DEF FinalizeGraphTurn, FinalizeResumeOutcome, FinalizeInterrupt, ExecStatus
<1>6. /\ DOMAIN exec' = DOMAIN exec /\ exec'[s].status = st2 /\ exec'[s].head = f
      /\ \A t \in DOMAIN exec \ {s} : exec'[t] = exec[t]
  BY <1>1, <1>4, <1>5 DEF Close, Exec, TurnInv, TypeOK
<1>7. UNCHANGED saved /\ worker' = [worker EXCEPT ![p] = Idle]
  BY <1>5 DEF Close
<1>8. ~Running(s)'
  BY <1>6 DEF Running
<1>9. \A t \in DOMAIN exec' : HeadOK(t)'
  BY <1>4, <1>6, <1>7, <1>8, ClosedHeads
<1>10. Settled(f, 0)'
  BY <1>4, <1>6, <1>8 DEF Settled
<1> DEFINE Kept ==
        \A m \in DOMAIN pending' :
           pending'[m].head = f \/ (m \in DOMAIN pending /\ pending'[m].head = pending[m].head)
<1>11. Kept
  <2>1. \/ pending' = pending
        \/ pending' = Append(pending, asked)
        \/ pending' = [pending EXCEPT ![n] = asked]
        \/ pending' = [pending EXCEPT ![n].status = "resolved"]
    BY <1>1, <1>2 DEF FinalizeGraphTurn, FinalizeResumeOutcome, FinalizeInterrupt
  <2>2. \A m \in DOMAIN pending : pending[m] \in Pending
    BY PendingType DEF TurnInv
  <2>3. pending \in Seq(Pending)
    BY DEF TurnInv, TypeOK
  <2>4. ASSUME pending' = Append(pending, asked) PROVE Kept
    BY <2>3, <2>4
  <2>5. ASSUME pending' = [pending EXCEPT ![n] = asked] PROVE Kept
    BY <2>3, <2>5
  <2>6. ASSUME pending' = [pending EXCEPT ![n].status = "resolved"] PROVE Kept
    BY <2>2, <2>3, <2>6 DEF Pending
  <2>. QED
    BY <2>1, <2>4, <2>5, <2>6
<1>12. \A m \in DOMAIN pending' : QuestionOK(m)'
  BY <1>4, <1>7, <1>10, <1>11, SettledStays DEF HeadInv, QuestionOK
<1>13. \A q \in Workers : CallOK(q)'
  BY <1>7, IdleHeads
<1>. QED
  BY <1>9, <1>12, <1>13 DEF HeadInv

(* The steps of the graph keep the heads right.                            *)
LEMMA GraphHeads ==
    ASSUME TurnInv, HeadInv, NEW p \in Workers,
           \/ HydrateInput(p) \/ HydrateResume(p) \/ CallModel(p) \/ SkipModel(p)
           \/ PersistDraft(p) \/ ApplyConfirmation(p) \/ StopGraph(p)
    PROVE  HeadInv'
<1>1. UNCHANGED <<exec, pending, saved>>
  BY DEF HydrateInput, HydrateResume, CallModel, SkipModel, PersistDraft, ApplyConfirmation,
         StopGraph, rows
<1>2. \A q \in Workers : worker'[q] = worker[q] \/ GoesOn(q)
  BY GraphGoesOn DEF GoesOn
<1>. QED
  BY <1>1, <1>2, HeadsKept

(* Every step keeps the heads right.                                       *)
LEMMA HeadsNext == TurnInv /\ HeadInv /\ [Next]_vars => HeadInv'
<1>. SUFFICES ASSUME TurnInv, HeadInv, [Next]_vars PROVE HeadInv'
  OBVIOUS
<1>1. ASSUME NEW p \in Workers, GraphStep(p) PROVE HeadInv'
  BY <1>1, StartGraphHeads, GraphHeads, QuotaExhaustedHeads, FinalizeHeads DEF GraphStep
<1>. QED
  BY <1>1, BeginInputHeads, BeginResumeHeads, TakeoverHeads, SoftHeads DEF Next

(* There are none at first.                                                *)
LEMMA HeadsInit == Init => HeadInv
BY DEF Init, HeadInv, CallOK, At, Idle

(* The heads are right.                                                    *)
LEMMA HeadsHold == Spec => []HeadInv
BY HeadsInit, HeadsNext, Invariance, PTL DEF Spec

(* The invariant says so of every accepted head.                           *)
LEMMA LineageFollows == TurnInv /\ HeadInv => AcceptedLineage
<1>1. ASSUME TurnInv, HeadInv, NEW s \in DOMAIN exec, exec[s].head # NoHead
      PROVE  /\ exec[s].head \in DOMAIN saved
             /\ saved[exec[s].head] = NoHead \/ Settled(saved[exec[s].head], s)
  <2>1. CASE ~Running(s)
    BY <1>1, <2>1 DEF HeadInv, HeadOK
  <2>2. CASE Running(s)
    <3>1. exec[s].head \in DOMAIN saved /\ Settled(exec[s].head, s)
      BY <1>1, <2>2 DEF HeadInv, HeadOK
    <3>2. PICK t \in DOMAIN exec \ {s} : ~Running(t) /\ exec[t].head = exec[s].head
      BY <3>1 DEF Settled
    <3>3. saved[exec[s].head] = NoHead \/ Settled(saved[exec[s].head], t)
      BY <1>1, <3>2 DEF HeadInv, HeadOK
    <3>. QED
      BY <2>2, <3>1, <3>3 DEF Settled
  <2>. QED
    BY <2>1, <2>2
<1>. QED
  BY <1>1 DEF AcceptedLineage, Settled

(* A head that a turn has accepted was saved on top of the accepted head   *)
(* of another turn, or of none (the CAS of promote_head in checkpoint.py   *)
(* and the recovery head of takeover): no checkpoint of an attempt that was*)
(* superseded enters the conversation.                                     *)
THEOREM AcceptedLineageHolds == Spec => []AcceptedLineage
BY LineageFollows, HeadsHold, Invariance, PTL

-----------------------------------------------------------------------------
(* What has been asked about has not been confirmed.                       *)
LEMMA StaysUndecided ==
    ASSUME TurnInv, NEW r \in Nat, Undecided(r),
           draft' = draft \/ draft'.revision = draft.revision + 1
    PROVE  Undecided(r)'
BY DEF Undecided, TurnInv, TypeOK

(* A step leaves the draft alone or makes one new revision of it.          *)
LEMMA DraftMoves ==
    ASSUME TurnInv, [Next]_vars
    PROVE  draft' = draft \/ draft'.revision = draft.revision + 1
<1>1. ASSUME NEW p \in Workers, ApplyConfirmation(p)
      PROVE  draft' = draft \/ draft'.revision = draft.revision + 1
  <2>1. \/ draft' = draft
        \/ draft' = [revision |-> IF draft.confirmed THEN draft.revision ELSE draft.revision + 1,
                     confirmed |-> TRUE]
    BY <1>1 DEF ApplyConfirmation
  <2>2. draft \in [revision : Nat, confirmed : BOOLEAN]
    BY DEF TurnInv, TypeOK
  <2>3. draft = [revision |-> draft.revision, confirmed |-> draft.confirmed]
    BY <2>2
  <2>4. CASE draft.confirmed
    BY <2>1, <2>2, <2>3, <2>4
  <2>5. CASE ~draft.confirmed
    BY <2>1, <2>5
  <2>. QED
    BY <2>4, <2>5
<1>2. ASSUME NEW p \in Workers, PersistDraft(p)
      PROVE  draft' = draft \/ draft'.revision = draft.revision + 1
  BY <1>2 DEF PersistDraft
<1>3. ASSUME NEW p \in Workers, GraphStep(p)
      PROVE  draft' = draft \/ draft'.revision = draft.revision + 1
  BY <1>1, <1>2, <1>3
     DEF GraphStep, StartGraph, HydrateInput, HydrateResume, CallModel, SkipModel, QuotaExhausted,
         StopGraph, Finalize, FinalizeGraphTurn, FinalizeResumeOutcome, FinalizeInterrupt, Close,
         effects
<1>4. ASSUME NEW confirmed \in BOOLEAN, FormEdit(confirmed)
      PROVE  draft'.revision = draft.revision + 1
  BY <1>4 DEF FormEdit
<1>. QED
  BY <1>3, <1>4
     DEF Next, BeginInput, BeginResume, Takeover, Reject, Crash, DisconnectEarly, LoseLock,
         LeaseExpires, Logout, GiveUp, vars, effects

(* A draft write leaves a draft that nobody has confirmed, and says so.    *)
LEMMA PersistUndecided ==
    ASSUME TurnInv, DraftInv, NEW p \in Workers, PersistDraft(p)
    PROVE  /\ \A op \in DOMAIN ledger' : op[1] = "persist" => Undecided(ledger[op])'
           /\ \A q \in Workers : AskedOK(q)'
<1> DEFINE op == Persist(worker[p].seq)
<1>1. \/ /\ Done(op) /\ Committed(p, ledger[op]) /\ UNCHANGED <<draft, ledger>>
      \/ /\ Record(op, draft'.revision) /\ Committed(p, draft'.revision) /\ ~draft'.confirmed
         /\ draft' = draft \/ draft'.revision = draft.revision + 1
      \/ Stop(p, "error") /\ UNCHANGED <<draft, ledger>>
  BY DEF PersistDraft
<1>2. draft' = draft \/ draft'.revision = draft.revision + 1
  BY <1>1
<1>3. \A o \in DOMAIN ledger : ledger[o] \in Nat
  BY DEF TurnInv, TypeOK
<1>4. ASSUME NEW q \in Workers, q # p, worker'[q] = worker[q] PROVE AskedOK(q)'
  <2>1. worker[q].pc \in {"stopping", "stopped", "parked"} => worker[q].base \in Nat
    BY CallFacts DEF At
  <2>. QED
    BY <1>2, <1>4, <2>1, StaysUndecided DEF DraftInv, AskedOK
<1>5. CASE Done(op) /\ Committed(p, ledger[op]) /\ UNCHANGED <<draft, ledger>>
  <2>1. op \in DOMAIN ledger /\ op[1] = "persist"
    BY <1>5 DEF Done, Persist
  <2>2. Undecided(ledger[op])
    BY <2>1 DEF DraftInv
  <2>3. worker'[p].base = ledger[op] /\ \A q \in Workers \ {p} : worker'[q] = worker[q]
    BY <1>5, CallFacts DEF Committed, PersistDraft, At, Busy, TurnInv, TypeOK
  <2>4. AskedOK(p)'
    BY <1>5, <2>2, <2>3 DEF AskedOK, Undecided
  <2>. QED
    BY <1>4, <1>5, <2>3, <2>4 DEF DraftInv, Undecided
<1>6. CASE /\ Record(op, draft'.revision) /\ Committed(p, draft'.revision) /\ ~draft'.confirmed
           /\ draft' = draft \/ draft'.revision = draft.revision + 1
  <2>1. draft.revision \in Nat /\ draft'.revision \in Nat
    BY <1>6 DEF TurnInv, TypeOK
  <2>2. worker'[p].base = draft'.revision /\ \A q \in Workers \ {p} : worker'[q] = worker[q]
    BY <1>6, CallFacts DEF Committed, PersistDraft, At, Busy, TurnInv, TypeOK
  <2>3. AskedOK(p)'
    BY <1>6, <2>1, <2>2 DEF AskedOK, Undecided
  <2>4. /\ DOMAIN ledger' = DOMAIN ledger \cup {op}
        /\ \A o \in DOMAIN ledger' : ledger'[o] = IF o = op THEN draft'.revision ELSE ledger[o]
    BY <1>6 DEF Record
  <2>5. ASSUME NEW o \in DOMAIN ledger', o[1] = "persist" PROVE Undecided(ledger[o])'
    <3>1. CASE ledger'[o] = draft'.revision
      BY <1>6, <2>1, <3>1 DEF Undecided
    <3>2. CASE o \in DOMAIN ledger /\ ledger'[o] = ledger[o]
      <4>1. Undecided(ledger[o]) /\ ledger[o] \in Nat
        BY <1>3, <2>5, <3>2 DEF DraftInv
      <4>2. PICK r \in Nat : r = ledger[o] /\ Undecided(r)
        BY <4>1
      <4>3. Undecided(r)'
        BY <1>2, <4>2, StaysUndecided
      <4>. QED
        BY <3>2, <4>2, <4>3 DEF Undecided
    <3>. QED
      BY <2>4, <3>1, <3>2
  <2>. QED
    BY <1>4, <2>2, <2>3, <2>5
<1>7. CASE Stop(p, "error") /\ UNCHANGED <<draft, ledger>>
  <2>1. worker'[p].outcome = "error" /\ \A q \in Workers \ {p} : worker'[q] = worker[q]
    BY <1>7, CallFacts DEF Stop, PersistDraft, At, Busy, TurnInv, TypeOK
  <2>2. AskedOK(p)'
    BY <2>1 DEF AskedOK
  <2>. QED
    BY <1>4, <1>7, <2>1, <2>2 DEF DraftInv, Undecided
<1>. QED
  BY <1>1, <1>5, <1>6, <1>7

(* A call that is about to ask, or has given up on that.                   *)
Asking(p) == worker[p].pc \in {"stopping", "stopped", "parked"} /\ worker[p].outcome = "interrupt"
AsksAsBefore(p) == Asking(p)' => Asking(p) /\ worker'[p].base = worker[p].base

(* A revision that was not confirmed stays so: an edit makes a new one.     *)
LEMMA StillUndecided ==
    ASSUME TurnInv, [Next]_vars, NEW r, r \in Nat, Undecided(r)
    PROVE  Undecided(r)'
BY StaysUndecided, DraftMoves

(* Steps that record no draft write and ask nothing new keep the           *)
(* invariant.                                                              *)
LEMMA DraftKept ==
    ASSUME TurnInv, DraftInv, [Next]_vars,
           \A op \in DOMAIN ledger' : op[1] = "persist" =>
              op \in DOMAIN ledger /\ ledger'[op] = ledger[op],
           \A q \in Workers : AsksAsBefore(q),
           \A n \in DOMAIN pending' :
              \/ n \in DOMAIN pending /\ pending'[n].revision = pending[n].revision
              \/ \E q \in Workers : Asking(q) /\ pending'[n].revision = worker[q].base
    PROVE  DraftInv'
<1>1. \A q \in Workers : Asking(q) => worker[q].base \in Nat /\ Undecided(worker[q].base)
  BY CallFacts DEF Asking, DraftInv, AskedOK, At
<1>2. ASSUME NEW op \in DOMAIN ledger', op[1] = "persist" PROVE Undecided(ledger[op])'
  <2>1. PICK r \in Nat : r = ledger[op] /\ Undecided(r) /\ ledger'[op] = r
    BY <1>2 DEF DraftInv, TurnInv, TypeOK
  <2>2. Undecided(r)'
    BY <2>1, StillUndecided
  <2>. QED
    BY <2>1, <2>2 DEF Undecided
<1>3. ASSUME NEW q \in Workers, Asking(q)' PROVE Undecided(worker[q].base)'
  <2>1. PICK r \in Nat : r = worker[q].base /\ Undecided(r) /\ worker'[q].base = r
    BY <1>1, <1>3 DEF AsksAsBefore
  <2>2. Undecided(r)'
    BY <2>1, StillUndecided
  <2>. QED
    BY <2>1, <2>2 DEF Undecided
<1>4. ASSUME NEW n \in DOMAIN pending' PROVE Undecided(pending[n].revision)'
  <2>1. \A m \in DOMAIN pending : pending[m].revision \in Nat /\ Undecided(pending[m].revision)
    BY PendingType DEF TurnInv, Pending, DraftInv
  <2>2. PICK r \in Nat : Undecided(r) /\ pending'[n].revision = r
    BY <1>1, <2>1
  <2>3. Undecided(r)'
    BY <2>2, StillUndecided
  <2>. QED
    BY <2>2, <2>3 DEF Undecided
<1>. QED
  BY <1>2, <1>3, <1>4 DEF DraftInv, AskedOK, Asking

(* A step of one call moves no other.                                      *)
LEMMA OneMoves ==
    ASSUME TurnInv, NEW p \in Workers, NEW w,
           worker' = [worker EXCEPT ![p] = w]
    PROVE  worker'[p] = w /\ \A q \in Workers \ {p} : worker'[q] = worker[q]
BY DEF TurnInv, TypeOK

(* Who is moved elsewhere, or stops for another reason, does not ask.      *)
LEMMA GoesElsewhere ==
    ASSUME TurnInv, NEW p \in Workers, NEW pc \in {"hydrating", "routing", "parsing", "retrying",
                                                   "persisting", "confirming"}, NEW b, NEW h,
           ~At(p, "idle"),
           \/ worker' = [worker EXCEPT ![p].pc = pc]
           \/ worker' = [worker EXCEPT ![p].pc = pc, ![p].base = b]
           \/ worker' = [worker EXCEPT ![p].pc = pc, ![p].head = h]
    PROVE  \A q \in Workers : AsksAsBefore(q)
<1>1. worker[p] \in Busy
  BY CallFacts
<1>2. worker'[p].pc = pc /\ \A q \in Workers \ {p} : worker'[q] = worker[q]
  BY <1>1 DEF Busy, TurnInv, TypeOK
<1>. QED
  BY <1>2 DEF AsksAsBefore, Asking

(* A call that stops without a question does not come to ask.              *)
LEMMA StopsUnasked ==
    ASSUME TurnInv, NEW p \in Workers, NEW o \in {"end", "error"}, Stop(p, o), ~At(p, "idle")
    PROVE  \A q \in Workers : AsksAsBefore(q)
<1>1. worker[p] \in Busy
  BY CallFacts
<1>2. worker'[p].outcome = o /\ \A q \in Workers \ {p} : worker'[q] = worker[q]
  BY <1>1 DEF Stop, Busy, TurnInv, TypeOK
<1>. QED
  BY <1>2 DEF AsksAsBefore, Asking

(* Nor does one that leaves or is admitted.                                *)
LEMMA LeavesUnasked ==
    ASSUME TurnInv, NEW p \in Workers,
           worker' = [worker EXCEPT ![p] = Idle] \/ \E s, f, n : Admit(p, s, f, n)
    PROVE  \A q \in Workers : AsksAsBefore(q)
<1>1. /\ worker'[p].pc \in {"idle", "admitted"}
      /\ \A q \in Workers \ {p} : worker'[q] = worker[q]
  BY DEF Admit, Idle, TurnInv, TypeOK
<1>. QED
  BY <1>1 DEF AsksAsBefore, Asking

(* The graph asks about nothing but a draft it wrote.                      *)
LEMMA GraphAsks ==
    ASSUME TurnInv, NEW p \in Workers,
           \/ StartGraph(p) \/ HydrateInput(p) \/ HydrateResume(p) \/ CallModel(p) \/ SkipModel(p)
           \/ ApplyConfirmation(p) \/ StopGraph(p)
    PROVE  \A q \in Workers : AsksAsBefore(q)
<1>1. CASE StartGraph(p)
  BY <1>1, GoesElsewhere DEF StartGraph, At
<1>2. CASE HydrateInput(p)
  BY <1>2, GoesElsewhere DEF HydrateInput, Goto, At
<1>3. CASE HydrateResume(p)
  <2>1. ~At(p, "idle")
        /\ (Stop(p, "error") \/ Goto(p, "confirming") \/ Goto(p, "routing"))
    BY <1>3 DEF HydrateResume, At
  <2>. QED
    BY <2>1, GoesElsewhere, StopsUnasked DEF Goto
<1>4. CASE CallModel(p)
  <2>1. ~At(p, "idle")
    BY <1>4 DEF CallModel, ModelPC, At
  <2>2. \/ Stop(p, "end") \/ Stop(p, "error")
        \/ worker' = [worker EXCEPT ![p].pc = "parsing"]
        \/ worker' = [worker EXCEPT ![p].pc = "retrying"]
        \/ worker' = [worker EXCEPT ![p].pc = "persisting"]
    BY <1>4 DEF CallModel
  <2>. QED
    BY <2>1, <2>2, GoesElsewhere, StopsUnasked
<1>5. CASE SkipModel(p)
  <2>1. ~At(p, "idle")
    BY <1>5 DEF SkipModel, At
  <2>2. \/ Stop(p, "end")
        \/ worker' = [worker EXCEPT ![p].pc = "parsing"]
        \/ worker' = [worker EXCEPT ![p].pc = "persisting"]
    BY <1>5 DEF SkipModel
  <2>. QED
    BY <2>1, <2>2, GoesElsewhere, StopsUnasked
<1>6. CASE ApplyConfirmation(p)
  BY <1>6, StopsUnasked DEF ApplyConfirmation, At
<1>7. CASE StopGraph(p)
  <2>1. At(p, "stopping") /\ worker[p] \in Busy
    BY <1>7, CallFacts DEF StopGraph, At
  <2>2. /\ worker'[p].outcome = worker[p].outcome /\ worker'[p].base = worker[p].base
        /\ \A q \in Workers \ {p} : worker'[q] = worker[q]
    BY <1>7, <2>1 DEF StopGraph, Busy, TurnInv, TypeOK
  <2>. QED
    BY <2>1, <2>2 DEF AsksAsBefore, Asking, At
<1>. QED
  BY <1>1, <1>2, <1>3, <1>4, <1>5, <1>6, <1>7

(* Neither a recorded draft write nor the question of a row changes.       *)
Unwritten ==
    \A op \in DOMAIN ledger' : op[1] = "persist" => op \in DOMAIN ledger /\ ledger'[op] = ledger[op]
SameQuestions ==
    /\ DOMAIN pending' = DOMAIN pending
    /\ \A n \in DOMAIN pending : pending'[n].revision = pending[n].revision

(* No draft write recorded, no question changed: the invariant stays.      *)
LEMMA UnwrittenDraft ==
    ASSUME TurnInv, DraftInv, [Next]_vars, Unwritten, SameQuestions,
           \A q \in Workers : AsksAsBefore(q)
    PROVE  DraftInv'
<1>1. \A n \in DOMAIN pending' : n \in DOMAIN pending /\ pending'[n].revision = pending[n].revision
  BY DEF SameQuestions
<1>. QED
  BY <1>1, DraftKept DEF Unwritten

(* A charge or a confirmation is no draft write.                           *)
LEMMA OtherRecord ==
    ASSUME NEW op, NEW r, op[1] # "persist", Record(op, r)
    PROVE  Unwritten
BY DEF Record, Unwritten

(* The steps of the graph that write no draft keep the invariant.          *)
LEMMA GraphDraft ==
    ASSUME TurnInv, DraftInv, [Next]_vars, NEW p \in Workers,
           \/ StartGraph(p) \/ HydrateInput(p) \/ HydrateResume(p) \/ CallModel(p) \/ SkipModel(p)
           \/ ApplyConfirmation(p) \/ StopGraph(p)
    PROVE  DraftInv'
<1>1. \A q \in Workers : AsksAsBefore(q)
  BY GraphAsks
<1>2. SameQuestions
  BY DEF SameQuestions, StartGraph, HydrateInput, HydrateResume, CallModel, SkipModel,
         ApplyConfirmation, StopGraph, rows
<1>3. Unwritten
  <2>1. CASE CallModel(p)
    <3>1. Call(p)[1] # "persist"
      BY DEF Call, Quota
    <3>2. UNCHANGED ledger \/ Record(Call(p), 0)
      BY <2>1 DEF CallModel, Reserve
    <3>. QED
      BY <3>1, <3>2, OtherRecord DEF Unwritten
  <2>2. CASE ApplyConfirmation(p)
    <3>1. Confirm(worker[p].resumed)[1] # "persist"
      BY DEF Confirm
    <3>2. UNCHANGED ledger \/ Record(Confirm(worker[p].resumed), draft'.revision)
      BY <2>2 DEF ApplyConfirmation
    <3>. QED
      BY <3>1, <3>2, OtherRecord DEF Unwritten
  <2>3. ASSUME UNCHANGED ledger PROVE Unwritten
    BY <2>3 DEF Unwritten
  <2>. QED
    BY <2>1, <2>2, <2>3 DEF StartGraph, HydrateInput, HydrateResume, SkipModel, StopGraph, effects
<1>. QED
  BY <1>1, <1>2, <1>3, UnwrittenDraft

(* A draft write keeps it.                                                 *)
LEMMA PersistKeepsDraft ==
    ASSUME TurnInv, DraftInv, [Next]_vars, NEW p \in Workers, PersistDraft(p)
    PROVE  DraftInv'
<1>1. UNCHANGED pending
  BY DEF PersistDraft, rows
<1>2. ASSUME NEW n \in DOMAIN pending' PROVE Undecided(pending[n].revision)'
  <2>1. PICK r \in Nat : Undecided(r) /\ pending'[n].revision = r
    BY <1>1, PendingType DEF TurnInv, Pending, DraftInv
  <2>2. Undecided(r)'
    BY <2>1, StillUndecided
  <2>. QED
    BY <2>1, <2>2 DEF Undecided
<1>. QED
  BY <1>2, PersistUndecided DEF DraftInv

(* A finalizer asks about what its call has written.                       *)
LEMMA FinalizeDraft ==
    ASSUME TurnInv, DraftInv, [Next]_vars, NEW p \in Workers, Finalize(p)
    PROVE  DraftInv'
<1> DEFINE asked == [status |-> "active", revision |-> worker[p].base,
                     head |-> worker[p].fence, resumeSeq |-> NoInput]
<1>1. PICK n : n = worker[p].resumed
  OBVIOUS
<1>2. PICK st \in ExecStatus \ {"running"} :
         FinalizeGraphTurn(p, st) \/ FinalizeResumeOutcome(p, st) \/ FinalizeInterrupt(p, st)
  BY DEF Finalize
<1>3. PICK st2 : Close(p, st2)
  BY <1>2 DEF FinalizeGraphTurn, FinalizeResumeOutcome, FinalizeInterrupt
<1>4. \A q \in Workers : AsksAsBefore(q)
  BY <1>3, LeavesUnasked DEF Close
<1>5. Unwritten
  BY <1>3 DEF Close, Unwritten, effects
<1>6. pending \in Seq(Pending) /\ \A m \in DOMAIN pending : pending[m] \in Pending
  BY PendingType DEF TurnInv, TypeOK
<1>7. ASSUME UNCHANGED pending PROVE SameQuestions
  BY <1>7 DEF SameQuestions
<1>8. ASSUME pending' = [pending EXCEPT ![n].status = "resolved"] PROVE SameQuestions
  BY <1>6, <1>8 DEF SameQuestions, Pending
<1>9. \/ UNCHANGED pending
      \/ pending' = [pending EXCEPT ![n].status = "resolved"]
      \/ /\ FinalizeInterrupt(p, st)
         /\ \/ pending' = Append(pending, asked)
            \/ pending' = [pending EXCEPT ![n] = asked]
  BY <1>1, <1>2 DEF FinalizeGraphTurn, FinalizeResumeOutcome, FinalizeInterrupt
<1>10. CASE SameQuestions
  BY <1>4, <1>5, <1>10, UnwrittenDraft
<1>11. CASE /\ FinalizeInterrupt(p, st)
            /\ \/ pending' = Append(pending, asked)
               \/ pending' = [pending EXCEPT ![n] = asked]
  <2>1. Asking(p)
    BY <1>11 DEF FinalizeInterrupt, MayFinalize, Asking, At
  <2> DEFINE OK(m) == \/ m \in DOMAIN pending /\ pending'[m].revision = pending[m].revision
                      \/ pending'[m].revision = worker[p].base
  <2>2. ASSUME NEW m \in DOMAIN pending' PROVE OK(m)
    <3>1. CASE pending' = Append(pending, asked)
      BY <1>6, <2>2, <3>1
    <3>2. CASE pending' = [pending EXCEPT ![n] = asked]
      BY <1>6, <2>2, <3>2
    <3>. QED
      BY <1>11, <3>1, <3>2
  <2>. QED
    BY <1>4, <1>5, <2>1, <2>2, DraftKept DEF Unwritten
<1>. QED
  BY <1>7, <1>8, <1>9, <1>10, <1>11

(* The other steps keep it.                                                *)
LEMMA QuietDraft ==
    ASSUME TurnInv, DraftInv, [Next]_vars,
           \/ \E p \in Workers : \/ BeginInput(p) \/ QuotaExhausted(p) \/ DisconnectEarly(p)
                                 \/ Reject(p) \/ Crash(p) \/ LoseLock(p)
           \/ \E p \in Workers, s \in DOMAIN exec : Takeover(p, s)
           \/ \E p \in Workers, n \in DOMAIN pending, text \in Texts : BeginResume(p, n, text)
           \/ \E s \in DOMAIN exec : LeaseExpires(s)
           \/ \E confirmed \in BOOLEAN : FormEdit(confirmed)
           \/ Logout \/ UNCHANGED vars
    PROVE  DraftInv'
<1>1. Unwritten
  <2>1. UNCHANGED ledger
    BY DEF BeginInput, QuotaExhausted, DisconnectEarly, Reject, Crash, LoseLock, Takeover,
           BeginResume, LeaseExpires, FormEdit, Logout, GiveUp, effects, vars
  <2>. QED
    BY <2>1 DEF Unwritten
<1>2. SameQuestions
  <2>1. ASSUME NEW p \in Workers, NEW n \in DOMAIN pending, NEW text \in Texts,
               BeginResume(p, n, text)
        PROVE  SameQuestions
    <3>1. pending \in Seq(Pending) /\ \A m \in DOMAIN pending : pending[m] \in Pending
      BY PendingType DEF TurnInv, TypeOK
    <3>. QED
      BY <2>1, <3>1 DEF BeginResume, SameQuestions, Pending
  <2>2. ASSUME UNCHANGED pending PROVE SameQuestions
    BY <2>2 DEF SameQuestions
  <2>. QED
    BY <2>1, <2>2
       DEF BeginInput, QuotaExhausted, DisconnectEarly, Reject, Crash, LoseLock, Takeover,
           LeaseExpires, FormEdit, Logout, GiveUp, rows, vars
<1>3. \A q \in Workers : AsksAsBefore(q)
  <2>1. ASSUME UNCHANGED worker PROVE \A q \in Workers : AsksAsBefore(q)
    BY <2>1 DEF AsksAsBefore, Asking
  <2>. QED
    BY <2>1, LeavesUnasked
       DEF BeginInput, QuotaExhausted, DisconnectEarly, Reject, Crash, LoseLock, Takeover,
           BeginResume, LeaseExpires, FormEdit, Logout, GiveUp, vars
<1>. QED
  BY <1>1, <1>2, <1>3, UnwrittenDraft

(* Every step keeps it.                                                    *)
LEMMA DraftNext == TurnInv /\ DraftInv /\ [Next]_vars => DraftInv'
<1>. SUFFICES ASSUME TurnInv, DraftInv, [Next]_vars PROVE DraftInv'
  OBVIOUS
<1>1. ASSUME NEW p \in Workers, GraphStep(p) PROVE DraftInv'
  BY <1>1, GraphDraft, PersistKeepsDraft, FinalizeDraft, QuietDraft DEF GraphStep
<1>. QED
  BY <1>1, QuietDraft DEF Next

(* Nothing has been asked at first.                                        *)
LEMMA DraftInit == Init => DraftInv
BY DEF Init, DraftInv, AskedOK, Idle

(* The invariant holds.                                                    *)
LEMMA DraftHolds == Spec => []DraftInv
BY DraftInit, DraftNext, Invariance, PTL DEF Spec

(* The invariants say so of the open question.                             *)
LEMMA AnswerableFollows == TurnInv /\ HeadInv /\ DraftInv => OpenQuestionIsAnswerable
<1>1. ASSUME TurnInv, HeadInv, DraftInv, NEW n \in DOMAIN pending, pending[n].status = "active"
      PROVE  /\ \E s \in DOMAIN exec : ~Running(s) /\ exec[s].head = pending[n].head
             /\ pending[n].head \in DOMAIN saved
             /\ ~Done(Confirm(n))
             /\ draft.revision = pending[n].revision => ~draft.confirmed
  <2>1. pending[n].head \in DOMAIN saved /\ Settled(pending[n].head, 0)
    BY <1>1 DEF HeadInv, QuestionOK
  <2>2. ~Done(Confirm(n))
    BY <1>1 DEF TurnInv, LedgerOK, Live
  <2>3. draft.revision = pending[n].revision => ~draft.confirmed
    BY <1>1 DEF DraftInv, Undecided
  <2>. QED
    BY <2>1, <2>2, <2>3 DEF Settled
<1>. QED
  BY <1>1 DEF OpenQuestionIsAnswerable

(* The question that is open can be answered: the head it was asked from is*)
(* in the saver and is that of a turn that ended, it has not been confirmed*)
(* (rehydrate_resume_snapshot would otherwise replay the confirmation), and*)
(* the draft it is about, if nobody has edited it since, is unconfirmed.   *)
THEOREM OpenQuestionIsAnswerableHolds == Spec => []OpenQuestionIsAnswerable
BY AnswerableFollows, DraftHolds, HeadsHold, Invariance, PTL
===============================================================================
