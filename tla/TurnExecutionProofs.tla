-------------------------- MODULE TurnExecutionProofs --------------------------
(***************************************************************************)
(* Safety of the turns of a Workspace, for any number of calls, inputs,    *)
(* failures, form edits and model calls: one conversation at a time, turns *)
(* that end once, confirmations only of what was asked.                    *)
(***************************************************************************)
EXTENDS TurnExecution, FiniteSetTheorems, WellFoundedInduction, TLAPS

(* The call that holds the current fence of a running execution: the only  *)
(* one that may still write for it.                                        *)
Current(p) ==
    /\ ~At(p, "idle")
    /\ Running(worker[p].seq) /\ exec[worker[p].seq].fence = worker[p].fence

RowsOK ==
    /\ \A s, t \in DOMAIN exec : Running(s) /\ Running(t) => s = t
    /\ \A m, n \in DOMAIN pending : Live(m) /\ Live(n) => m = n
    /\ \A n \in DOMAIN pending, s \in DOMAIN exec :
          Live(n) /\ Running(s) => pending[n].status = "resuming" /\ pending[n].resumeSeq = s
    /\ \A n \in DOMAIN pending :
          pending[n].status = "resuming" => pending[n].resumeSeq \in DOMAIN exec
    /\ \A s \in DOMAIN exec : ~Running(s) => exec[s].terminals # 0
    /\ \A s \in DOMAIN exec : Running(s) /\ exec[s].text = "confirm" =>
          \E n \in DOMAIN pending : Live(n)

(* A question is confirmed at most once, by an answer that says so, and it *)
(* is never open again after that.                                         *)
LedgerOK ==
    /\ \A op \in DOMAIN ledger : op[1] = "confirm" => op[2] \in DOMAIN pending
    /\ \A n \in DOMAIN pending : Done(Confirm(n)) /\ Live(n) =>
          /\ pending[n].status = "resuming"
          /\ exec[pending[n].resumeSeq].text = "confirm"
    /\ \A op \in DOMAIN ledger : ledger[op] <= draft.revision

WorkerOK(p) ==
    ~At(p, "idle") =>
        /\ worker[p].seq \in DOMAIN exec
        /\ worker[p].fence \in 1..fence
        /\ worker[p].base <= draft.revision
        /\ Current(p) =>
              /\ \A n \in DOMAIN pending : Live(n) => worker[p].resumed = n
              /\ worker[p].resumed # NoInput =>
                    worker[p].resumed \in DOMAIN pending /\ Live(worker[p].resumed)
              /\ worker[p].pc \in ModelPC \cup {"persisting"} \/ worker[p].outcome = "interrupt" =>
                    exec[worker[p].seq].text = "other"
              /\ At(p, "confirming") =>
                    /\ exec[worker[p].seq].text = "confirm"
                    /\ worker[p].resumed # NoInput
                    /\ ~Done(Confirm(worker[p].resumed)) =>
                          worker[p].base = pending[worker[p].resumed].revision

TurnInv == TypeOK /\ RowsOK /\ LedgerOK /\ \A p \in Workers : WorkerOK(p)

-----------------------------------------------------------------------------
(* A call that is not idle has a record of a busy call.                    *)
LEMMA BusyCall ==
    ASSUME TypeOK, NEW p \in Workers, ~At(p, "idle")
    PROVE  worker[p] \in Busy
BY DEF TypeOK, At, Idle

(* Admit keeps the types.                                                  *)
LEMMA AdmitType ==
    ASSUME TypeOK, NEW p \in Workers, NEW s \in Nat, NEW f \in Nat, NEW n \in Nat,
           Admit(p, s, f, n)
    PROVE  worker' \in [Workers -> Busy \cup {Idle}]
<1>1. [pc |-> "admitted", seq |-> s, fence |-> f, resumed |-> n,
       head |-> NoHead, base |-> 0, outcome |-> "error"] \in Busy
  BY DEF Busy, NoHead, Outcomes
<1>. QED
  BY <1>1 DEF TypeOK, Admit

(* Stop keeps the types.                                                   *)
LEMMA StopType ==
    ASSUME TypeOK, NEW p \in Workers, ~At(p, "idle"), NEW o \in Outcomes, Stop(p, o)
    PROVE  worker' \in [Workers -> Busy \cup {Idle}]
<1>1. [worker[p] EXCEPT !.pc = "stopping", !.outcome = o, !.base = 0] \in Busy
  BY BusyCall DEF Busy, GraphPC
<1>. QED
  BY <1>1 DEF TypeOK, Stop

(* Committed keeps the types.                                              *)
LEMMA CommittedType ==
    ASSUME TypeOK, NEW p \in Workers, ~At(p, "idle"), NEW r \in Nat, Committed(p, r)
    PROVE  worker' \in [Workers -> Busy \cup {Idle}]
<1>1. PICK o \in {"end", "interrupt"} :
        worker' = [worker EXCEPT ![p].pc = "stopping", ![p].outcome = o, ![p].base = r]
  BY DEF Committed
<1>2. [worker[p] EXCEPT !.pc = "stopping", !.outcome = o, !.base = r] \in Busy
  BY BusyCall DEF Busy, GraphPC, Outcomes
<1>. QED
  BY <1>1, <1>2 DEF TypeOK

(* Pc keeps the types.                                                     *)
LEMMA PcType ==
    ASSUME TypeOK, NEW p \in Workers, ~At(p, "idle"),
           NEW pc \in GraphPC \cup {"stopped", "parked"},
           worker' = [worker EXCEPT ![p].pc = pc] \/ Goto(p, pc)
    PROVE  worker' \in [Workers -> Busy \cup {Idle}]
<1>1. /\ [worker[p] EXCEPT !.pc = pc] \in Busy
      /\ [worker[p] EXCEPT !.pc = pc, !.base = draft.revision] \in Busy
  BY BusyCall DEF Busy, TypeOK
<1>. QED
  BY <1>1 DEF TypeOK, Goto

(* Record keeps the types.                                                 *)
LEMMA RecordType ==
    ASSUME TypeOK, NEW op \in {"quota", "persist", "confirm"} \X Nat \X (1..3),
           NEW r \in Nat, Record(op, r)
    PROVE  /\ DOMAIN ledger' \subseteq {"quota", "persist", "confirm"} \X Nat \X (1..3)
           /\ \A o \in DOMAIN ledger' : ledger'[o] \in Nat
BY DEF TypeOK, Record

(* Closing an execution keeps the types of rows and calls.                 *)
LEMMA CloseType ==
    ASSUME TypeOK, NEW p \in Workers, ~At(p, "idle"), worker[p].seq \in DOMAIN exec,
           NEW status \in ExecStatus, Close(p, status)
    PROVE  exec' \in Seq(Exec) /\ worker' \in [Workers -> Busy \cup {Idle}]
<1>1. [exec[worker[p].seq] EXCEPT !.status = status, !.live = FALSE,
         !.head = worker[p].fence, !.terminals = @ + 1] \in Exec
  <2>1. worker[p].fence \in Nat
    BY BusyCall DEF Busy
  <2>2. exec[worker[p].seq] \in Exec
    BY DEF TypeOK
  <2>3. exec[worker[p].seq].terminals + 1 \in Nat
    BY <2>2 DEF Exec
  <2>. QED
    BY <2>1, <2>2, <2>3 DEF Exec
<1>2. exec' \in Seq(Exec)
  BY <1>1 DEF TypeOK, Close
<1>3. worker' \in [Workers -> Busy \cup {Idle}]
  BY DEF TypeOK, Close
<1>. QED
  BY <1>2, <1>3

(* GiveUp keeps the types.                                                 *)
LEMMA GiveUpType ==
    ASSUME TypeOK, NEW p \in Workers, GiveUp(p)
    PROVE  worker' \in [Workers -> Busy \cup {Idle}] /\ lock' \in Workers \cup {NoWorker}
BY DEF TypeOK, GiveUp, Release

(* An execution is one, and its number a number.                           *)
LEMMA ExecType ==
    ASSUME TypeOK, NEW s \in DOMAIN exec
    PROVE  exec[s] \in Exec /\ s \in Nat
BY DEF TypeOK

(* A question is one, and its number is not NoInput.                       *)
LEMMA PendingType ==
    ASSUME TypeOK, NEW n \in DOMAIN pending
    PROVE  pending[n] \in Pending /\ n \in Nat /\ n # 0
BY DEF TypeOK

(* A non-empty set of numbers that has a bound has a largest element: its  *)
(* smallest bound.                                                         *)
LEMMA LastOf ==
    ASSUME NEW N \in Nat, NEW S \in SUBSET (1..N), S # {}
    PROVE  \E t \in S : \A u \in S : u <= t
<1> DEFINE below == {bs \in Nat \X Nat : bs[1] < bs[2]}
           bounds == {b \in Nat : \A u \in S : u <= b}
<1>1. PICK b \in bounds : \A c \in bounds : <<c, b>> \notin below
  <2>1. IsWellFoundedOn(below, Nat)
    BY NatLessThanWellFounded DEF OpToRel
  <2>2. bounds \subseteq Nat /\ N \in bounds
    OBVIOUS
  <2> HIDE DEF bounds, below
  <2>. QED
    BY <2>1, <2>2, WFMin
<1>2. b \in S
  <2>1. CASE b \notin S
    <3>1. PICK u \in S : u \in 1..N /\ u <= b
      OBVIOUS
    <3>2. b \in Nat /\ b - 1 \in Nat /\ <<b - 1, b>> \in below
      BY <3>1
    <3>3. \A x \in S : x <= b - 1
      <4>1. \A x \in S : x \in Nat /\ x <= b /\ x # b
        BY <2>1
      <4>. QED
        BY <3>2, <4>1
    <3>. QED
      BY <1>1, <3>2, <3>3
  <2>. QED
    BY <2>1
<1>. QED
  BY <1>1, <1>2

(* There is a latest turn with a head, and a latest question, if any.      *)
LEMMA LatestPlaces ==
    ASSUME TypeOK
    PROVE  /\ Heads # {} => Latest(Heads) \in Heads
           /\ Fallback # {} => Latest(Fallback) \in Fallback
<1>1. ASSUME NEW N \in Nat, NEW S \in SUBSET (1..N), S # {}
      PROVE  Latest(S) \in S
  BY <1>1, LastOf DEF Latest
<1>2. Len(exec) \in Nat /\ Heads \in SUBSET (1..Len(exec))
  BY DEF TypeOK, Heads
<1>3. Len(pending) \in Nat /\ Fallback \in SUBSET (1..Len(pending))
  BY DEF TypeOK, Fallback
<1>. QED
  BY <1>1, <1>2, <1>3

(* Recovery finds a head.                                                  *)
LEMMA RecoveryHeadType ==
    ASSUME TypeOK, NEW s \in DOMAIN exec
    PROVE  RecoveryHead(s) \in Nat /\ Recovered(s) \in Nat
<1>1. Heads # {} => exec[Latest(Heads)].head \in Nat
  BY LatestPlaces, ExecType DEF Heads, Exec
<1>2. Fallback # {} => pending[Latest(Fallback)].head \in Nat
  BY LatestPlaces, PendingType DEF Fallback, Pending
<1>. QED
  BY <1>1, <1>2, ExecType DEF RecoveryHead, Recovered, NoHead, Exec

(* What is known of a call that is not idle.                               *)
LEMMA CallFacts ==
    ASSUME TurnInv, NEW p \in Workers, ~At(p, "idle")
    PROVE  /\ worker[p] \in Busy
           /\ worker[p].seq \in DOMAIN exec /\ exec[worker[p].seq] \in Exec
           /\ worker[p].seq \in Nat /\ worker[p].seq # 0
           /\ worker[p].fence \in 1..fence
           /\ worker[p].base \in Nat /\ worker[p].base <= draft.revision
<1>1. worker[p] \in Busy
  BY BusyCall DEF TurnInv
<1>2. worker[p].seq \in DOMAIN exec /\ worker[p].fence \in 1..fence
      /\ worker[p].base <= draft.revision
  BY DEF TurnInv, WorkerOK
<1>. QED
  BY <1>1, <1>2, ExecType DEF TurnInv, TypeOK, Busy

(* The types, step by step.                                                *)
LEMMA BeginInputType ==
    ASSUME TurnInv, NEW p \in Workers, BeginInput(p)
    PROVE  TypeOK'
<1>1. worker' \in [Workers -> Busy \cup {Idle}]
  BY AdmitType DEF BeginInput, TurnInv, TypeOK, NoInput
<1>2. [status |-> "running", fence |-> fence + 1, live |-> TRUE,
       head |-> NoHead, text |-> "other", terminals |-> 0] \in Exec
  BY DEF TurnInv, TypeOK, Exec, ExecStatus, Texts, NoHead
<1>3. exec' \in Seq(Exec)
  BY <1>2 DEF BeginInput, TurnInv, TypeOK
<1>. QED
  BY <1>1, <1>3 DEF BeginInput, TurnInv, TypeOK, effects

(* BeginResume keeps the types.                                            *)
LEMMA BeginResumeType ==
    ASSUME TurnInv, NEW p \in Workers, NEW n \in DOMAIN pending, NEW text \in Texts,
           BeginResume(p, n, text)
    PROVE  TypeOK'
<1>1. pending[n] \in Pending /\ n \in Nat /\ Len(exec) + 1 \in Nat /\ fence + 1 \in Nat
  BY PendingType DEF TurnInv, TypeOK
<1>2. worker' \in [Workers -> Busy \cup {Idle}]
  <2>1. Admit(p, Len(exec) + 1, fence + 1, n)
    BY DEF BeginResume
  <2>. QED
    BY <1>1, <2>1, AdmitType DEF TurnInv
<1>3. [status |-> "running", fence |-> fence + 1, live |-> TRUE,
       head |-> pending[n].head, text |-> text, terminals |-> 0] \in Exec
  BY <1>1 DEF TurnInv, TypeOK, Exec, ExecStatus, Pending
<1>4. exec' \in Seq(Exec)
  BY <1>3 DEF BeginResume, TurnInv, TypeOK
<1>5. [pending[n] EXCEPT !.status = "resuming", !.resumeSeq = Len(exec) + 1] \in Pending
  BY <1>1 DEF Pending, PendingStatus
<1>6. pending' \in Seq(Pending)
  <2>1. pending' = [pending EXCEPT ![n] =
           [pending[n] EXCEPT !.status = "resuming", !.resumeSeq = Len(exec) + 1]]
    BY DEF BeginResume, TurnInv, TypeOK
  <2>. QED
    BY <1>5, <2>1 DEF TurnInv, TypeOK
<1>. QED
  BY <1>2, <1>4, <1>6 DEF BeginResume, TurnInv, TypeOK, effects

(* The question an execution answers, or none.                             *)
LEMMA ResumedByType ==
    ASSUME TurnInv, NEW s \in DOMAIN exec
    PROVE  ResumedBy(s) \in DOMAIN pending \cup {NoInput} /\ ResumedBy(s) \in Nat
BY DEF ResumedBy, TurnInv, TypeOK, NoInput

(* Takeover keeps the types.                                               *)
LEMMA TakeoverType ==
    ASSUME TurnInv, NEW p \in Workers, NEW s \in DOMAIN exec, Takeover(p, s)
    PROVE  TypeOK'
<1>1. exec[s] \in Exec /\ s \in Nat /\ Recovered(s) \in Nat /\ fence + 1 \in Nat
  BY ExecType, RecoveryHeadType DEF TurnInv, TypeOK
<1>2. worker' \in [Workers -> Busy \cup {Idle}]
  <2>1. Admit(p, s, fence + 1, ResumedBy(s))
    BY DEF Takeover
  <2>. QED
    BY <1>1, <2>1, AdmitType, ResumedByType DEF TurnInv
<1>3. [exec[s] EXCEPT !.fence = fence + 1, !.live = TRUE, !.head = Recovered(s)] \in Exec
  BY <1>1 DEF Exec
<1>4. exec' \in Seq(Exec)
  <2>1. exec' = [exec EXCEPT ![s] =
           [exec[s] EXCEPT !.fence = fence + 1, !.live = TRUE, !.head = Recovered(s)]]
    BY DEF Takeover, TurnInv, TypeOK
  <2>. QED
    BY <1>3, <2>1 DEF TurnInv, TypeOK
<1>. QED
  BY <1>2, <1>4 DEF Takeover, TurnInv, TypeOK, effects

(* StartGraph keeps the types.                                             *)
LEMMA StartGraphType ==
    ASSUME TurnInv, NEW p \in Workers, StartGraph(p)
    PROVE  TypeOK'
<1>1. worker[p] \in Busy /\ exec[worker[p].seq] \in Exec /\ fence \in 1..fence
  BY CallFacts DEF StartGraph, At, Fenced, TurnInv, TypeOK
<1>2. [worker[p] EXCEPT !.pc = "hydrating", !.head = exec[worker[p].seq].head] \in Busy
  BY <1>1 DEF Busy, GraphPC, Exec
<1>3. worker' \in [Workers -> Busy \cup {Idle}]
  BY <1>2 DEF StartGraph, TurnInv, TypeOK
<1>4. \A id \in DOMAIN saved' : id \in 1..fence /\ saved'[id] \in Nat
  BY <1>1 DEF StartGraph, TurnInv, TypeOK, Exec
<1>. QED
  BY <1>3, <1>4 DEF StartGraph, TurnInv, TypeOK, rows, effects

(* HydrateInput keeps the types.                                           *)
LEMMA HydrateInputType ==
    ASSUME TurnInv, NEW p \in Workers, HydrateInput(p)
    PROVE  TypeOK'
<1>1. worker' \in [Workers -> Busy \cup {Idle}]
  BY PcType DEF HydrateInput, TurnInv, At, GraphPC
<1>. QED
  BY <1>1 DEF HydrateInput, TurnInv, TypeOK, rows, effects

(* HydrateResume keeps the types.                                          *)
LEMMA HydrateResumeType ==
    ASSUME TurnInv, NEW p \in Workers, HydrateResume(p)
    PROVE  TypeOK'
<1>1. ~At(p, "idle")
      /\ (Stop(p, "error") \/ Goto(p, "confirming") \/ Goto(p, "routing"))
  BY DEF HydrateResume, At
<1>2. worker' \in [Workers -> Busy \cup {Idle}]
  BY <1>1, PcType, StopType DEF TurnInv, GraphPC, Outcomes
<1>. QED
  BY <1>2 DEF HydrateResume, TurnInv, TypeOK, rows, effects

(* CallModel keeps the types.                                              *)
LEMMA CallModelType ==
    ASSUME TurnInv, NEW p \in Workers, CallModel(p)
    PROVE  TypeOK'
<1>1. ~At(p, "idle") /\ worker[p].seq \in Nat
  BY CallFacts DEF CallModel, ModelPC, At
<1>2. \/ Stop(p, "end") \/ Stop(p, "error")
      \/ worker' = [worker EXCEPT ![p].pc = "parsing"]
      \/ worker' = [worker EXCEPT ![p].pc = "retrying"]
      \/ worker' = [worker EXCEPT ![p].pc = "persisting"]
  BY DEF CallModel
<1>3. worker' \in [Workers -> Busy \cup {Idle}]
  BY <1>1, <1>2, PcType, StopType DEF TurnInv, GraphPC, Outcomes
<1>4. \/ UNCHANGED <<quota, ledger>>
      \/ quota < QuotaLimit /\ quota' = quota + 1 /\ Record(Call(p), 0)
  BY DEF CallModel, Reserve
<1>5. CallNumber(worker[p].pc) \in 1..3
  BY DEF CallModel, ModelPC, CallNumber
<1>6. /\ DOMAIN ledger' \subseteq {"quota", "persist", "confirm"} \X Nat \X (1..3)
      /\ \A op \in DOMAIN ledger' : ledger'[op] \in Nat
  BY <1>1, <1>4, <1>5, RecordType DEF TurnInv, TypeOK, Call, Quota
<1>7. quota' \in 0..QuotaLimit
  BY <1>4, TurnExecutionAssumption DEF TurnInv, TypeOK
<1>. QED
  BY <1>3, <1>6, <1>7 DEF CallModel, TurnInv, TypeOK, rows

(* SkipModel keeps the types.                                              *)
LEMMA SkipModelType ==
    ASSUME TurnInv, NEW p \in Workers, SkipModel(p)
    PROVE  TypeOK'
<1>1. ~At(p, "idle")
  BY DEF SkipModel, At
<1>2. \/ Stop(p, "end")
      \/ worker' = [worker EXCEPT ![p].pc = "parsing"]
      \/ worker' = [worker EXCEPT ![p].pc = "persisting"]
  BY DEF SkipModel
<1>3. worker' \in [Workers -> Busy \cup {Idle}]
  BY <1>1, <1>2, PcType, StopType DEF TurnInv, GraphPC, Outcomes
<1>. QED
  BY <1>3 DEF SkipModel, TurnInv, TypeOK, rows, effects

(* QuotaExhausted keeps the types.                                         *)
LEMMA QuotaExhaustedType ==
    ASSUME TurnInv, NEW p \in Workers, QuotaExhausted(p)
    PROVE  TypeOK'
<1> DEFINE s == worker[p].seq
<1>1. s \in DOMAIN exec /\ exec[s] \in Exec
  BY CallFacts DEF QuotaExhausted, ModelPC, At
<1>2. exec[s].terminals + 1 \in Nat
  BY <1>1 DEF Exec
<1>3. [exec[s] EXCEPT !.status = "recoverable_error", !.live = FALSE,
                      !.terminals = exec[s].terminals + 1] \in Exec
  BY <1>1, <1>2 DEF Exec, ExecStatus
<1>4. exec' = [exec EXCEPT ![s] =
         [exec[s] EXCEPT !.status = "recoverable_error", !.live = FALSE,
                         !.terminals = exec[s].terminals + 1]]
  BY DEF QuotaExhausted, TurnInv, TypeOK
<1>5. exec' \in Seq(Exec)
  BY <1>1, <1>3, <1>4 DEF TurnInv, TypeOK
<1>. QED
  BY <1>5 DEF QuotaExhausted, TurnInv, TypeOK, effects

(* PersistDraft keeps the types.                                           *)
LEMMA PersistDraftType ==
    ASSUME TurnInv, NEW p \in Workers, PersistDraft(p)
    PROVE  TypeOK'
<1> DEFINE op == Persist(worker[p].seq)
<1>1. ~At(p, "idle") /\ worker[p].seq \in Nat
  BY CallFacts DEF PersistDraft, At
<1>2. draft' \in [revision : Nat, confirmed : BOOLEAN]
  <2>1. draft' = draft \/ draft' = [revision |-> draft.revision + 1, confirmed |-> FALSE]
    BY DEF PersistDraft
  <2>2. draft.revision + 1 \in Nat /\ draft \in [revision : Nat, confirmed : BOOLEAN]
    BY DEF TurnInv, TypeOK
  <2>3. [revision |-> draft.revision + 1, confirmed |-> FALSE]
           \in [revision : Nat, confirmed : BOOLEAN]
    BY <2>2
  <2>. QED
    BY <2>1, <2>2, <2>3
<1>3. UNCHANGED ledger \/ Record(<<"persist", worker[p].seq, 1>>, draft'.revision)
  BY DEF PersistDraft, Persist
<1>4. /\ DOMAIN ledger' \subseteq {"quota", "persist", "confirm"} \X Nat \X (1..3)
      /\ \A o \in DOMAIN ledger' : ledger'[o] \in Nat
  <2>1. draft'.revision \in Nat
    BY <1>2
  <2>2. /\ DOMAIN ledger \subseteq {"quota", "persist", "confirm"} \X Nat \X (1..3)
        /\ \A o \in DOMAIN ledger : ledger[o] \in Nat
    BY DEF TurnInv, TypeOK
  <2>3. CASE Record(<<"persist", worker[p].seq, 1>>, draft'.revision)
    <3>1. <<"persist", worker[p].seq, 1>> \in {"quota", "persist", "confirm"} \X Nat \X (1..3)
      BY <1>1
    <3>. QED
      BY <2>1, <2>3, <3>1, RecordType DEF TurnInv
  <2>. QED
    BY <1>3, <2>2, <2>3
<1>5. \/ Done(op) /\ Committed(p, ledger[op])
      \/ Committed(p, draft'.revision)
      \/ Stop(p, "error")
  BY DEF PersistDraft
<1>6. worker' \in [Workers -> Busy \cup {Idle}]
  <2>1. draft'.revision \in Nat /\ (Done(op) => ledger[op] \in Nat)
    BY <1>2 DEF TurnInv, TypeOK, Done
  <2>. QED
    BY <1>1, <1>5, <2>1, CommittedType, StopType DEF TurnInv, Outcomes
<1>. QED
  BY <1>2, <1>4, <1>6 DEF PersistDraft, TurnInv, TypeOK, rows

(* ApplyConfirmation keeps the types.                                      *)
LEMMA ApplyConfirmationType ==
    ASSUME TurnInv, NEW p \in Workers, ApplyConfirmation(p)
    PROVE  TypeOK'
<1>1. ~At(p, "idle") /\ worker[p].resumed \in Nat
  BY CallFacts DEF ApplyConfirmation, At, Busy
<1>2. draft' \in [revision : Nat, confirmed : BOOLEAN]
  <2>1. \/ draft' = draft
        \/ draft' = [revision |-> draft.revision, confirmed |-> TRUE]
        \/ draft' = [revision |-> draft.revision + 1, confirmed |-> TRUE]
    BY DEF ApplyConfirmation
  <2>2. /\ draft.revision \in Nat /\ draft.revision + 1 \in Nat
        /\ draft \in [revision : Nat, confirmed : BOOLEAN]
    BY DEF TurnInv, TypeOK
  <2>3. /\ [revision |-> draft.revision, confirmed |-> TRUE]
              \in [revision : Nat, confirmed : BOOLEAN]
        /\ [revision |-> draft.revision + 1, confirmed |-> TRUE]
              \in [revision : Nat, confirmed : BOOLEAN]
    BY <2>2
  <2>. QED
    BY <2>1, <2>2, <2>3
<1>3. UNCHANGED ledger \/ Record(<<"confirm", worker[p].resumed, 1>>, draft'.revision)
  BY DEF ApplyConfirmation, Confirm
<1>4. /\ DOMAIN ledger' \subseteq {"quota", "persist", "confirm"} \X Nat \X (1..3)
      /\ \A o \in DOMAIN ledger' : ledger'[o] \in Nat
  <2>1. draft'.revision \in Nat
    BY <1>2
  <2>2. /\ DOMAIN ledger \subseteq {"quota", "persist", "confirm"} \X Nat \X (1..3)
        /\ \A o \in DOMAIN ledger : ledger[o] \in Nat
    BY DEF TurnInv, TypeOK
  <2>3. CASE Record(<<"confirm", worker[p].resumed, 1>>, draft'.revision)
    <3>1. <<"confirm", worker[p].resumed, 1>> \in {"quota", "persist", "confirm"} \X Nat \X (1..3)
      BY <1>1
    <3>. QED
      BY <2>1, <2>3, <3>1, RecordType DEF TurnInv
  <2>. QED
    BY <1>3, <2>2, <2>3
<1>5. worker' \in [Workers -> Busy \cup {Idle}]
  <2>1. Stop(p, "end") \/ Stop(p, "error")
    BY DEF ApplyConfirmation
  <2>. QED
    BY <1>1, <2>1, StopType DEF TurnInv, Outcomes
<1>. QED
  BY <1>2, <1>4, <1>5 DEF ApplyConfirmation, TurnInv, TypeOK, rows

(* StopGraph keeps the types.                                              *)
LEMMA StopGraphType ==
    ASSUME TurnInv, NEW p \in Workers, StopGraph(p)
    PROVE  TypeOK'
<1>1. worker' \in [Workers -> Busy \cup {Idle}]
  BY PcType DEF StopGraph, At, TurnInv
<1>. QED
  BY <1>1 DEF StopGraph, TurnInv, TypeOK, rows, effects

(* Release keeps the types.                                                *)
LEMMA ReleaseType ==
    ASSUME TurnInv, NEW p \in Workers, GiveUp(p),
           exec' \in Seq(Exec)
    PROVE  TypeOK'
BY GiveUpType DEF GiveUp, TurnInv, TypeOK, effects

(* DisconnectEarly keeps the types.                                        *)
LEMMA DisconnectEarlyType ==
    ASSUME TurnInv, NEW p \in Workers, DisconnectEarly(p)
    PROVE  TypeOK'
<1> DEFINE s == worker[p].seq
           t == IF exec[s].terminals = 0 THEN 1 ELSE exec[s].terminals
<1>1. s \in DOMAIN exec /\ exec[s] \in Exec
  BY CallFacts DEF DisconnectEarly, At
<1>2. t \in Nat
  BY <1>1 DEF Exec
<1>3. [exec[s] EXCEPT !.terminals = t] \in Exec
  BY <1>1, <1>2 DEF Exec
<1>4. exec' = [exec EXCEPT ![s] = [exec[s] EXCEPT !.terminals = t]]
  BY DEF DisconnectEarly, TurnInv, TypeOK
<1>5. exec' \in Seq(Exec)
  BY <1>1, <1>3, <1>4 DEF TurnInv, TypeOK
<1>. QED
  BY <1>5, ReleaseType DEF DisconnectEarly

(* LeaseExpires keeps the types.                                           *)
LEMMA LeaseExpiresType ==
    ASSUME TurnInv, NEW s \in DOMAIN exec, LeaseExpires(s)
    PROVE  TypeOK'
<1>1. [exec[s] EXCEPT !.live = FALSE] \in Exec
  BY ExecType DEF TurnInv, Exec
<1>2. exec' = [exec EXCEPT ![s] = [exec[s] EXCEPT !.live = FALSE]]
  BY DEF LeaseExpires, TurnInv, TypeOK
<1>3. exec' \in Seq(Exec)
  BY <1>1, <1>2 DEF TurnInv, TypeOK
<1>. QED
  BY <1>3 DEF LeaseExpires, TurnInv, TypeOK, effects

(* Finalize keeps the types.                                               *)
LEMMA FinalizeType ==
    ASSUME TurnInv, NEW p \in Workers, Finalize(p)
    PROVE  TypeOK'
<1>1. PICK st \in ExecStatus : FinalizeGraphTurn(p, st) \/ FinalizeResumeOutcome(p, st)
                                \/ FinalizeInterrupt(p, st)
  BY DEF Finalize
<1>2. ~At(p, "idle")
  BY <1>1 DEF FinalizeGraphTurn, FinalizeResumeOutcome, FinalizeInterrupt, MayFinalize, At
<1>3. PICK s2 \in ExecStatus : Close(p, s2)
  BY <1>1 DEF FinalizeGraphTurn, FinalizeResumeOutcome, FinalizeInterrupt, ExecStatus
<1>4. exec' \in Seq(Exec) /\ worker' \in [Workers -> Busy \cup {Idle}]
  BY <1>2, <1>3, CallFacts, CloseType DEF TurnInv
<1> DEFINE n == worker[p].resumed
           asked == [status |-> "active", revision |-> worker[p].base,
                     head |-> worker[p].fence, resumeSeq |-> NoInput]
<1>5. asked \in Pending
  <2>1. worker[p].base \in Nat /\ worker[p].fence \in Nat
    BY <1>2, CallFacts DEF Busy
  <2>. QED
    BY <2>1 DEF Pending, PendingStatus, NoInput
<1>6. \/ pending' = pending
      \/ pending' = Append(pending, asked)
      \/ pending' = [pending EXCEPT ![n] = asked]
      \/ /\ n \in DOMAIN pending
         /\ pending' = [pending EXCEPT ![n] = [pending[n] EXCEPT !.status = "resolved"]]
  BY <1>1 DEF FinalizeGraphTurn, FinalizeResumeOutcome, FinalizeInterrupt, TurnInv, TypeOK
<1>7. pending' \in Seq(Pending)
  <2>1. ASSUME n \in DOMAIN pending
        PROVE  [pending[n] EXCEPT !.status = "resolved"] \in Pending
    BY <2>1, PendingType DEF TurnInv, Pending, PendingStatus
  <2> HIDE DEF asked, n
  <2>2. pending \in Seq(Pending)
    BY DEF TurnInv, TypeOK
  <2>. QED
    BY <1>5, <1>6, <2>1, <2>2
<1>. QED
  BY <1>3, <1>4, <1>7 DEF Close, TurnInv, TypeOK, effects

(* Types for every step: what is left changes nothing or one flag.         *)
LEMMA NextType == TurnInv /\ [Next]_vars => TypeOK'
<1>. SUFFICES ASSUME TurnInv, [Next]_vars PROVE TypeOK'
  OBVIOUS
<1>1. ASSUME NEW p \in Workers, Reject(p) \/ Crash(p) PROVE TypeOK'
  <2>1. exec' \in Seq(Exec)
    BY <1>1 DEF Reject, Crash, TurnInv, TypeOK
  <2>. QED
    BY <1>1, <2>1, ReleaseType DEF Reject, Crash
<1>2. ASSUME NEW p \in Workers, LoseLock(p) PROVE TypeOK'
  BY <1>2 DEF LoseLock, TurnInv, TypeOK, rows, effects
<1>3. ASSUME NEW confirmed \in BOOLEAN, FormEdit(confirmed) PROVE TypeOK'
  <2>1. [revision |-> draft.revision + 1, confirmed |-> confirmed]
           \in [revision : Nat, confirmed : BOOLEAN]
    BY DEF TurnInv, TypeOK
  <2>. QED
    BY <1>3, <2>1 DEF FormEdit, TurnInv, TypeOK, rows
<1>4. CASE Logout
  BY <1>4 DEF Logout, TurnInv, TypeOK, rows, effects
<1>5. CASE UNCHANGED vars
  BY <1>5 DEF vars, TurnInv, TypeOK, rows, effects
<1>6. ASSUME NEW p \in Workers, GraphStep(p) PROVE TypeOK'
  BY <1>6, StartGraphType, HydrateInputType, HydrateResumeType, CallModelType, SkipModelType,
     QuotaExhaustedType, PersistDraftType, ApplyConfirmationType, StopGraphType, FinalizeType
     DEF GraphStep
<1>. QED
  BY <1>1, <1>2, <1>3, <1>4, <1>5, <1>6, BeginInputType, BeginResumeType, TakeoverType,
     DisconnectEarlyType, LeaseExpiresType DEF Next

-----------------------------------------------------------------------------
(* Steps that leave the rows alone.                                        *)
Grows == draft.revision <= draft'.revision
SameConfirmations == \A n \in Nat : Done(Confirm(n))' = Done(Confirm(n))

(* Unchanged rows stay right.                                              *)
LEMMA RowsKept == TurnInv /\ UNCHANGED rows => RowsOK'
BY DEF TurnInv, RowsOK, Running, Live, rows

(* A recorded charge or draft write keeps the ledger right.                *)
LEMMA LedgerKept ==
    ASSUME TurnInv, TypeOK', UNCHANGED rows, Grows,
           \/ UNCHANGED ledger
           \/ \E op \in {"quota", "persist"} \X Nat \X (1..3), r \in 0..draft'.revision :
                 Record(op, r)
    PROVE  LedgerOK' /\ SameConfirmations
<1>1. /\ draft.revision \in Nat /\ draft'.revision \in Nat
      /\ \A op \in DOMAIN ledger : ledger[op] \in Nat /\ ledger[op] <= draft.revision
      /\ \A n \in DOMAIN pending : n \in Nat
  BY PendingType DEF TurnInv, TypeOK, LedgerOK
<1>2. CASE UNCHANGED ledger
  <2>1. SameConfirmations
    BY <1>2 DEF SameConfirmations, Done
  <2>2. \A op \in DOMAIN ledger : ledger[op] <= draft'.revision
    BY <1>1 DEF Grows
  <2>. QED
    BY <1>1, <1>2, <2>1, <2>2 DEF SameConfirmations, TurnInv, LedgerOK, Live, rows
<1>3. CASE ~UNCHANGED ledger
  <2>1. PICK op \in {"quota", "persist"} \X Nat \X (1..3), r \in 0..draft'.revision :
           Record(op, r)
    BY <1>3
  <2>2. op[1] # "confirm" /\ r <= draft'.revision
    BY <1>1
  <2>3. /\ DOMAIN ledger' = DOMAIN ledger \cup {op}
        /\ \A o \in DOMAIN ledger' : ledger'[o] = IF o = op THEN r ELSE ledger[o]
    BY <2>1 DEF Record
  <2>4. SameConfirmations
    <3>1. \A n : Confirm(n)[1] = "confirm"
      BY DEF Confirm
    <3>. QED
      BY <2>2, <2>3, <3>1 DEF Done, SameConfirmations
  <2>5. \A o \in DOMAIN ledger' : ledger'[o] <= draft'.revision
    BY <1>1, <2>2, <2>3 DEF Grows
  <2>6. \A o \in DOMAIN ledger' : o[1] = "confirm" => o \in DOMAIN ledger
    BY <2>2, <2>3
  <2>. QED
    BY <1>1, <2>4, <2>5, <2>6 DEF SameConfirmations, TurnInv, LedgerOK, Live, rows
<1>. QED
  BY <1>2, <1>3

(* The call goes on, for the same execution and question.                  *)
SameTurn(p) ==
    /\ ~At(p, "idle") /\ ~At(p, "idle")'
    /\ worker'[p].seq = worker[p].seq /\ worker'[p].fence = worker[p].fence
    /\ worker'[p].resumed = worker[p].resumed
    /\ worker'[p].base <= draft'.revision

(* A call that goes on keeps what it relies on.                            *)
LEMMA CallKept ==
    ASSUME TurnInv, NEW p \in Workers, UNCHANGED rows, SameTurn(p),
           Current(p) =>
              /\ worker'[p].pc \in ModelPC \cup {"persisting"} \/ worker'[p].outcome = "interrupt" =>
                    exec[worker[p].seq].text = "other"
              /\ worker'[p].pc = "confirming" =>
                    /\ exec[worker[p].seq].text = "confirm"
                    /\ worker[p].resumed # NoInput
                    /\ ~Done(Confirm(worker[p].resumed))' =>
                          worker'[p].base = pending[worker[p].resumed].revision
    PROVE  WorkerOK(p)'
<1>1. Current(p)' <=> Current(p)
  BY DEF SameTurn, Current, Running, rows
<1>2. WorkerOK(p)
  BY DEF TurnInv
<1>. QED
  BY <1>1, <1>2 DEF SameTurn, WorkerOK, At, Live, rows

(* The other calls keep what they rely on.                                 *)
LEMMA OthersKept ==
    ASSUME TurnInv, TypeOK', NEW p, UNCHANGED rows, Grows,
           \A n \in Nat : Done(Confirm(n)) => Done(Confirm(n))',
           \A q \in Workers \ {p} : worker'[q] = worker[q]
    PROVE  \A q \in Workers \ {p} : WorkerOK(q)'
<1>. SUFFICES ASSUME NEW q \in Workers, q # p PROVE WorkerOK(q)'
  OBVIOUS
<1>1. CASE At(q, "idle")
  BY <1>1 DEF WorkerOK, At
<1>2. CASE ~At(q, "idle")
  <2>1. worker[q].resumed \in Nat /\ worker[q].base <= draft.revision /\ WorkerOK(q)
    BY <1>2, CallFacts DEF Busy, TurnInv
  <2>2. worker[q].base <= draft'.revision
    BY <1>2, <2>1, CallFacts DEF Grows, TurnInv, TypeOK
  <2>3. worker'[q] = worker[q] /\ (Current(q)' <=> Current(q))
    BY DEF Current, Running, At, rows
  <2>. QED
    BY <1>2, <2>1, <2>2, <2>3 DEF WorkerOK, At, Live, rows
<1>. QED
  BY <1>1, <1>2

(* Together: a step of one call that leaves the rows alone.                *)
LEMMA TurnKept ==
    ASSUME TurnInv, TypeOK', NEW p, UNCHANGED rows, Grows,
           \/ UNCHANGED ledger
           \/ \E op \in {"quota", "persist"} \X Nat \X (1..3), r \in 0..draft'.revision :
                 Record(op, r),
           \A q \in Workers \ {p} : worker'[q] = worker[q],
           p \in Workers => WorkerOK(p)'
    PROVE  TurnInv'
<1>1. LedgerOK' /\ SameConfirmations
  BY LedgerKept
<1>2. \A q \in Workers \ {p} : WorkerOK(q)'
  BY <1>1, OthersKept DEF SameConfirmations
<1>. QED
  BY <1>1, <1>2, RowsKept DEF TurnInv

(* StartGraph keeps the invariant.                                         *)
LEMMA StartGraphStep ==
    ASSUME TurnInv, TypeOK', NEW p \in Workers, StartGraph(p)
    PROVE  TurnInv'
<1>1. UNCHANGED rows /\ UNCHANGED effects /\ ~At(p, "idle") /\ worker[p] \in Busy
  BY CallFacts DEF StartGraph, At
<1>2. /\ worker'[p] = [worker[p] EXCEPT !.pc = "hydrating", !.head = exec[worker[p].seq].head]
      /\ \A q \in Workers \ {p} : worker'[q] = worker[q]
  BY DEF StartGraph, TurnInv, TypeOK
<1>3. Grows /\ UNCHANGED ledger
  BY <1>1 DEF Grows, effects, TurnInv, TypeOK
<1>4. SameTurn(p) /\ worker'[p].pc = "hydrating" /\ worker'[p].outcome = worker[p].outcome
  BY <1>1, <1>2, CallFacts DEF SameTurn, At, Busy, effects
<1>5. Current(p) => (worker[p].outcome = "interrupt" => exec[worker[p].seq].text = "other")
  BY <1>1 DEF TurnInv, WorkerOK
<1>6. WorkerOK(p)'
  BY <1>1, <1>4, <1>5, CallKept DEF ModelPC
<1>. QED
  BY <1>1, <1>2, <1>3, <1>6, TurnKept

(* An answer that has no question behind it is not a confirmation.         *)
LEMMA NoQuestion ==
    ASSUME TurnInv, NEW p \in Workers, ~At(p, "idle"), Current(p), worker[p].resumed = NoInput
    PROVE  exec[worker[p].seq].text = "other"
<1>1. worker[p].seq \in DOMAIN exec /\ exec[worker[p].seq].text \in Texts
  BY CallFacts DEF Exec
<1>2. ASSUME NEW n \in DOMAIN pending, Live(n) PROVE FALSE
  BY <1>2, PendingType DEF TurnInv, WorkerOK, NoInput
<1>. QED
  BY <1>1, <1>2 DEF TurnInv, RowsOK, Current, Texts

(* HydrateInput keeps the invariant.                                       *)
LEMMA HydrateInputStep ==
    ASSUME TurnInv, TypeOK', NEW p \in Workers, HydrateInput(p)
    PROVE  TurnInv'
<1>1. UNCHANGED rows /\ UNCHANGED effects /\ ~At(p, "idle") /\ worker[p] \in Busy
  BY CallFacts DEF HydrateInput, At
<1>2. /\ worker'[p] = [worker[p] EXCEPT !.pc = "routing", !.base = draft.revision]
      /\ \A q \in Workers \ {p} : worker'[q] = worker[q]
  BY DEF HydrateInput, Goto, TurnInv, TypeOK
<1>3. Grows /\ UNCHANGED ledger
  BY <1>1 DEF Grows, effects, TurnInv, TypeOK
<1>4. SameTurn(p) /\ worker'[p].pc = "routing"
  BY <1>1, <1>2, <1>3 DEF SameTurn, At, Busy, Grows
<1>5. Current(p) => exec[worker[p].seq].text = "other"
  BY <1>1, NoQuestion DEF HydrateInput
<1>6. WorkerOK(p)'
  BY <1>1, <1>4, <1>5, CallKept
<1>. QED
  BY <1>1, <1>2, <1>3, <1>6, TurnKept

(* HydrateResume keeps the invariant.                                      *)
LEMMA HydrateResumeStep ==
    ASSUME TurnInv, TypeOK', NEW p \in Workers, HydrateResume(p)
    PROVE  TurnInv'
<1> DEFINE n == worker[p].resumed
           text == exec[worker[p].seq].text
<1>1. UNCHANGED rows /\ UNCHANGED effects /\ ~At(p, "idle") /\ worker[p] \in Busy
  BY CallFacts DEF HydrateResume, At
<1>2. /\ \/ worker'[p] = [worker[p] EXCEPT !.pc = "stopping", !.outcome = "error", !.base = 0]
         \/ /\ text = "confirm" /\ StillAsked(p, n, text)
            /\ worker'[p] = [worker[p] EXCEPT !.pc = "confirming", !.base = draft.revision]
         \/ /\ text = "other"
            /\ worker'[p] = [worker[p] EXCEPT !.pc = "routing", !.base = draft.revision]
      /\ \A q \in Workers \ {p} : worker'[q] = worker[q]
  BY DEF HydrateResume, Goto, Stop, TurnInv, TypeOK
<1>3. Grows /\ UNCHANGED ledger /\ draft' = draft
  BY <1>1 DEF Grows, effects, TurnInv, TypeOK
<1>4. SameTurn(p)
  <2>1. draft.revision \in Nat /\ worker'[p].base \in {0, draft.revision}
    BY <1>1, <1>2 DEF Busy, TurnInv, TypeOK
  <2>2. worker'[p].base <= draft'.revision
    BY <1>3, <2>1
  <2>. QED
    BY <1>1, <1>2, <2>2 DEF SameTurn, At, Busy
<1>5. Current(p) => (worker[p].outcome = "interrupt" => text = "other")
  BY <1>1 DEF TurnInv, WorkerOK
<1>6. n # NoInput
  BY DEF HydrateResume
<1>7. WorkerOK(p)'
  <2>1. CASE worker'[p] = [worker[p] EXCEPT !.pc = "stopping", !.outcome = "error", !.base = 0]
    <3>1. worker'[p].pc = "stopping" /\ worker'[p].outcome = "error"
      BY <1>1, <2>1 DEF Busy
    <3>. QED
      BY <1>1, <1>4, <3>1, CallKept DEF ModelPC
  <2>2. CASE /\ text = "confirm" /\ StillAsked(p, n, text)
             /\ worker'[p] = [worker[p] EXCEPT !.pc = "confirming", !.base = draft.revision]
    <3>1. /\ worker'[p].pc = "confirming" /\ worker'[p].outcome = worker[p].outcome
          /\ worker'[p].base = draft.revision
      BY <1>1, <2>2 DEF Busy
    <3>2. ~Done(Confirm(n))' => draft.revision = pending[n].revision
      BY <1>3, <2>2 DEF StillAsked, Done
    <3>. QED
      BY <1>1, <1>4, <1>5, <1>6, <2>2, <3>1, <3>2, CallKept DEF ModelPC
  <2>3. CASE /\ text = "other"
             /\ worker'[p] = [worker[p] EXCEPT !.pc = "routing", !.base = draft.revision]
    <3>1. worker'[p].pc = "routing"
      BY <1>1, <2>3 DEF Busy
    <3>. QED
      BY <1>1, <1>4, <2>3, <3>1, CallKept
  <2>. QED
    BY <1>2, <2>1, <2>2, <2>3
<1>. QED
  BY <1>1, <1>2, <1>3, <1>7, TurnKept

(* A call whose graph reads or changes a request, not a confirmation.      *)
LEMMA RequestKept ==
    ASSUME TurnInv, TypeOK', NEW p \in Workers, UNCHANGED rows, Grows,
           worker[p].pc \in ModelPC \cup {"persisting"}, worker[p] \in Busy, SameTurn(p),
           worker'[p].pc \in ModelPC \cup {"persisting", "stopping"}
    PROVE  WorkerOK(p)'
<1>1. Current(p) => exec[worker[p].seq].text = "other"
  BY DEF TurnInv, WorkerOK, At, ModelPC
<1>. QED
  BY <1>1, CallKept DEF ModelPC

(* CallModel keeps the invariant.                                          *)
LEMMA CallModelStep ==
    ASSUME TurnInv, TypeOK', NEW p \in Workers, CallModel(p)
    PROVE  TurnInv'
<1>1. /\ UNCHANGED rows /\ UNCHANGED draft /\ ~At(p, "idle") /\ worker[p] \in Busy
      /\ worker[p].base \in Nat /\ worker[p].base <= draft.revision /\ draft.revision \in Nat
  BY CallFacts DEF CallModel, ModelPC, At, TurnInv, TypeOK
<1>2. /\ \/ \E o \in {"end", "error"} :
               worker'[p] = [worker[p] EXCEPT !.pc = "stopping", !.outcome = o, !.base = 0]
         \/ \E pc \in {"parsing", "retrying", "persisting"} :
               worker'[p] = [worker[p] EXCEPT !.pc = pc]
      /\ \A q \in Workers \ {p} : worker'[q] = worker[q]
  BY DEF CallModel, Stop, TurnInv, TypeOK
<1>3. Grows
  BY <1>1 DEF Grows
<1>4. SameTurn(p) /\ worker'[p].pc \in {"stopping", "parsing", "retrying", "persisting"}
  <2>0. worker'[p].base = 0 \/ worker'[p].base = worker[p].base
    BY <1>1, <1>2 DEF Busy
  <2>1. worker'[p].base <= draft'.revision
    BY <1>1, <2>0
  <2>. QED
    BY <1>1, <1>2, <2>1 DEF SameTurn, At, Busy
<1>5. WorkerOK(p)'
  <2>1. worker[p].pc \in ModelPC
    BY DEF CallModel
  <2>. QED
    BY <1>1, <1>3, <1>4, <2>1, RequestKept DEF ModelPC
<1>6. \/ UNCHANGED ledger
      \/ \E op \in {"quota", "persist"} \X Nat \X (1..3), r \in 0..draft'.revision : Record(op, r)
  <2>1. UNCHANGED ledger \/ Record(Call(p), 0)
    BY DEF CallModel, Reserve
  <2>2. CallNumber(worker[p].pc) \in 1..3 /\ worker[p].seq \in Nat
    BY <1>1, CallFacts DEF CallModel, ModelPC, CallNumber
  <2>3. Call(p) \in {"quota", "persist"} \X Nat \X (1..3)
    BY <2>2 DEF Call, Quota
  <2>4. 0 \in 0..draft'.revision
    BY <1>1
  <2>. QED
    BY <2>1, <2>3, <2>4
<1>. QED
  BY <1>1, <1>2, <1>3, <1>5, <1>6, TurnKept

(* SkipModel keeps the invariant.                                          *)
LEMMA SkipModelStep ==
    ASSUME TurnInv, TypeOK', NEW p \in Workers, SkipModel(p)
    PROVE  TurnInv'
<1>1. /\ UNCHANGED rows /\ UNCHANGED effects /\ ~At(p, "idle") /\ worker[p] \in Busy
      /\ worker[p].base \in Nat /\ worker[p].base <= draft.revision /\ draft.revision \in Nat
  BY CallFacts DEF SkipModel, At, TurnInv, TypeOK
<1>2. /\ \/ worker'[p] = [worker[p] EXCEPT !.pc = "stopping", !.outcome = "end", !.base = 0]
         \/ \E pc \in {"parsing", "persisting"} : worker'[p] = [worker[p] EXCEPT !.pc = pc]
      /\ \A q \in Workers \ {p} : worker'[q] = worker[q]
  BY DEF SkipModel, Stop, TurnInv, TypeOK
<1>3. Grows /\ UNCHANGED ledger /\ UNCHANGED draft
  BY <1>1 DEF Grows, effects
<1>4. SameTurn(p) /\ worker'[p].pc \in {"stopping", "parsing", "persisting"}
  <2>0. worker'[p].base = 0 \/ worker'[p].base = worker[p].base
    BY <1>1, <1>2 DEF Busy
  <2>1. worker'[p].base <= draft'.revision
    BY <1>1, <1>3, <2>0
  <2>. QED
    BY <1>1, <1>2, <2>1 DEF SameTurn, At, Busy
<1>5. WorkerOK(p)'
  <2>1. worker[p].pc \in ModelPC
    BY DEF SkipModel, ModelPC
  <2>. QED
    BY <1>1, <1>3, <1>4, <2>1, RequestKept DEF ModelPC
<1>. QED
  BY <1>1, <1>2, <1>3, <1>5, TurnKept

(* PersistDraft keeps the invariant.                                       *)
LEMMA PersistDraftStep ==
    ASSUME TurnInv, TypeOK', NEW p \in Workers, PersistDraft(p)
    PROVE  TurnInv'
<1> DEFINE op == Persist(worker[p].seq)
<1>1. /\ UNCHANGED rows /\ ~At(p, "idle") /\ worker[p] \in Busy /\ worker[p].seq \in Nat
      /\ draft.revision \in Nat /\ draft'.revision \in Nat
  BY CallFacts DEF PersistDraft, At, TurnInv, TypeOK
<1>2. draft'.revision \in {draft.revision, draft.revision + 1}
  BY DEF PersistDraft
<1>3. Grows
  BY <1>1, <1>2 DEF Grows
<1>4. UNCHANGED ledger \/ Record(op, draft'.revision)
  BY DEF PersistDraft
<1>5. PICK o, r :
         /\ worker' = [worker EXCEPT ![p].pc = "stopping", ![p].outcome = o, ![p].base = r]
         /\ r \in {0, draft'.revision} \/ (Done(op) /\ r = ledger[op])
  BY DEF PersistDraft, Committed, Stop
<1>6. r <= draft'.revision
  <2>1. Done(op) => ledger[op] \in Nat /\ ledger[op] <= draft.revision
    BY DEF TurnInv, TypeOK, LedgerOK, Done
  <2>. QED
    BY <1>1, <1>3, <1>5, <2>1 DEF Grows
<1>10. /\ worker'[p] = [worker[p] EXCEPT !.pc = "stopping", !.outcome = o, !.base = r]
       /\ \A q \in Workers \ {p} : worker'[q] = worker[q]
  BY <1>5 DEF TurnInv, TypeOK
<1>7. SameTurn(p) /\ worker'[p].pc = "stopping"
  BY <1>1, <1>6, <1>10 DEF SameTurn, At, Busy
<1>8. WorkerOK(p)'
  BY <1>1, <1>3, <1>7, RequestKept DEF PersistDraft, At
<1>9. \/ UNCHANGED ledger
      \/ \E x \in {"quota", "persist"} \X Nat \X (1..3), y \in 0..draft'.revision : Record(x, y)
  <2>1. op \in {"quota", "persist"} \X Nat \X (1..3) /\ draft'.revision \in 0..draft'.revision
    BY <1>1 DEF Persist
  <2>. QED
    BY <1>4, <2>1
<1>. QED
  BY <1>1, <1>3, <1>8, <1>9, <1>10, TurnKept

(* A fenced write is one of the current call.                              *)
LEMMA FencedCurrent ==
    ASSUME NEW p \in Workers, ~At(p, "idle"), Fenced(p)
    PROVE  Current(p)
BY DEF Fenced, Current, Running

(* The question that is being confirmed is the one its answer was given to.*)
LEMMA ConfirmsItsQuestion ==
    ASSUME TurnInv, NEW p \in Workers, At(p, "confirming"), Fenced(p)
    PROVE  LET n == worker[p].resumed
           IN  /\ n \in DOMAIN pending /\ n \in Nat /\ Live(n)
               /\ pending[n].status = "resuming" /\ pending[n].resumeSeq = worker[p].seq
               /\ Running(worker[p].seq) /\ exec[worker[p].seq].text = "confirm"
               /\ ~Done(Confirm(n)) => worker[p].base = pending[n].revision
<1>1. ~At(p, "idle") /\ Current(p)
  BY FencedCurrent DEF At
<1>2. WorkerOK(p) /\ worker[p].seq \in DOMAIN exec /\ Running(worker[p].seq)
  BY <1>1, CallFacts DEF TurnInv, Current
<1>3. /\ worker[p].resumed \in DOMAIN pending /\ Live(worker[p].resumed)
      /\ exec[worker[p].seq].text = "confirm"
      /\ ~Done(Confirm(worker[p].resumed)) =>
            worker[p].base = pending[worker[p].resumed].revision
  BY <1>1, <1>2 DEF WorkerOK
<1>. QED
  BY <1>2, <1>3, PendingType DEF TurnInv, RowsOK

(* ApplyConfirmation keeps the invariant.                                  *)
LEMMA ApplyConfirmationStep ==
    ASSUME TurnInv, TypeOK', NEW p \in Workers, ApplyConfirmation(p)
    PROVE  TurnInv'
<1> DEFINE n == worker[p].resumed
<1>1. /\ UNCHANGED rows /\ ~At(p, "idle") /\ worker[p] \in Busy
      /\ draft.revision \in Nat /\ draft'.revision \in Nat
  BY CallFacts DEF ApplyConfirmation, At, TurnInv, TypeOK
<1>2. Grows
  <2>1. draft'.revision = draft.revision \/ draft'.revision = draft.revision + 1
    BY DEF ApplyConfirmation
  <2>. QED
    BY <1>1, <2>1 DEF Grows
<1>3. PICK o \in {"end", "error"} :
         worker' = [worker EXCEPT ![p].pc = "stopping", ![p].outcome = o, ![p].base = 0]
  BY DEF ApplyConfirmation, Stop
<1>4. /\ worker'[p] = [worker[p] EXCEPT !.pc = "stopping", !.outcome = o, !.base = 0]
      /\ \A q \in Workers \ {p} : worker'[q] = worker[q]
  BY <1>3 DEF TurnInv, TypeOK
<1>5. /\ SameTurn(p) /\ worker'[p].pc = "stopping" /\ worker'[p].outcome # "interrupt"
  BY <1>1, <1>4 DEF SameTurn, At, Busy
<1>6. WorkerOK(p)'
  BY <1>1, <1>5, CallKept DEF ModelPC
<1>7. CASE UNCHANGED ledger
  BY <1>1, <1>2, <1>4, <1>6, <1>7, TurnKept
<1>8. CASE ~UNCHANGED ledger
  <2>1. Fenced(p) /\ Record(Confirm(n), draft'.revision)
    BY <1>8 DEF ApplyConfirmation
  <2>2. /\ n \in DOMAIN pending /\ n \in Nat /\ pending[n].status = "resuming"
        /\ exec[pending[n].resumeSeq].text = "confirm"
    BY <2>1, ConfirmsItsQuestion DEF ApplyConfirmation
  <2>3. /\ DOMAIN ledger' = DOMAIN ledger \cup {Confirm(n)}
        /\ \A x \in DOMAIN ledger' :
              ledger'[x] = IF x = Confirm(n) THEN draft'.revision ELSE ledger[x]
    BY <2>1 DEF Record
  <2>4. \A x \in DOMAIN ledger' : ledger'[x] <= draft'.revision
    <3>1. \A x \in DOMAIN ledger : ledger[x] \in Nat /\ ledger[x] <= draft.revision
      BY DEF TurnInv, TypeOK, LedgerOK
    <3>. QED
      BY <1>1, <1>2, <2>3, <3>1 DEF Grows
  <2>5. \A m : Done(Confirm(m))' <=> Done(Confirm(m)) \/ m = n
    BY <2>3 DEF Done, Confirm
  <2>6. \A x \in DOMAIN ledger' : x[1] = "confirm" => x[2] \in DOMAIN pending
    BY <2>2, <2>3 DEF Confirm, TurnInv, LedgerOK
  <2>7. LedgerOK'
    BY <1>1, <2>2, <2>4, <2>5, <2>6 DEF LedgerOK, TurnInv, Live, rows
  <2>8. \A q \in Workers \ {p} : WorkerOK(q)'
    BY <1>1, <1>2, <1>4, <2>5, OthersKept
  <2>. QED
    BY <1>1, <1>6, <2>7, <2>8, RowsKept DEF TurnInv
<1>. QED
  BY <1>7, <1>8

(* StopGraph keeps the invariant.                                          *)
LEMMA StopGraphStep ==
    ASSUME TurnInv, TypeOK', NEW p \in Workers, StopGraph(p)
    PROVE  TurnInv'
<1>1. /\ UNCHANGED rows /\ UNCHANGED effects /\ ~At(p, "idle") /\ worker[p] \in Busy
      /\ worker[p].base <= draft.revision /\ draft.revision \in Nat
  BY CallFacts DEF StopGraph, At, TurnInv, TypeOK
<1>2. PICK pc \in {"stopped", "parked"} : worker' = [worker EXCEPT ![p].pc = pc]
  BY DEF StopGraph
<1>3. /\ worker'[p] = [worker[p] EXCEPT !.pc = pc]
      /\ \A q \in Workers \ {p} : worker'[q] = worker[q]
  BY <1>2 DEF TurnInv, TypeOK
<1>4. Grows /\ UNCHANGED ledger /\ UNCHANGED draft
  BY <1>1 DEF Grows, effects
<1>5. SameTurn(p) /\ worker'[p].pc = pc /\ worker'[p].outcome = worker[p].outcome
  BY <1>1, <1>3, <1>4 DEF SameTurn, At, Busy
<1>6. Current(p) => (worker[p].outcome = "interrupt" => exec[worker[p].seq].text = "other")
  BY <1>1 DEF TurnInv, WorkerOK
<1>7. WorkerOK(p)'
  BY <1>1, <1>5, <1>6, CallKept DEF ModelPC
<1>. QED
  BY <1>1, <1>3, <1>4, <1>7, TurnKept

(* The steps of the surroundings that leave the rows alone.                *)
LEMMA QuietStep ==
    ASSUME TurnInv, TypeOK', NEW p, UNCHANGED rows, UNCHANGED ledger, Grows,
           UNCHANGED worker \/ (p \in Workers /\ worker' = [worker EXCEPT ![p] = Idle])
    PROVE  TurnInv'
<1>1. CASE UNCHANGED worker
  <2>1. \A q \in Workers \ {NoWorker} : worker'[q] = worker[q]
    BY <1>1
  <2>. QED
    BY <2>1, TurnKept, TurnExecutionAssumption
<1>2. CASE p \in Workers /\ worker' = [worker EXCEPT ![p] = Idle]
  <2>1. worker'[p] = Idle /\ \A q \in Workers \ {p} : worker'[q] = worker[q]
    BY <1>2 DEF TurnInv, TypeOK
  <2>2. WorkerOK(p)'
    BY <2>1 DEF WorkerOK, At, Idle
  <2>. QED
    BY <2>1, <2>2, TurnKept
<1>. QED
  BY <1>1, <1>2

-----------------------------------------------------------------------------
(* Steps that change the rows.                                             *)
LEMMA Bystander ==
    ASSUME TurnInv, NEW q \in Workers, worker'[q] = worker[q],
           DOMAIN exec \subseteq DOMAIN exec', fence' \in Nat, fence <= fence', UNCHANGED draft,
           ~At(q, "idle") /\ Current(q)' => Current(q) /\ WorkerOK(q)'
    PROVE  WorkerOK(q)'
<1>1. CASE At(q, "idle")
  BY <1>1 DEF WorkerOK, At
<1>2. CASE ~At(q, "idle")
  <2>1. /\ worker[q].seq \in DOMAIN exec' /\ worker[q].fence \in 1..fence'
        /\ worker[q].base <= draft'.revision
    BY <1>2, CallFacts DEF TurnInv, TypeOK
  <2>. QED
    BY <1>2, <2>1 DEF WorkerOK, At
<1>. QED
  BY <1>1, <1>2

(* A disconnect or an expiry: no status, fence or text changes.            *)
LEMMA SoftStep ==
    ASSUME TurnInv, TypeOK', UNCHANGED <<fence, pending, draft, ledger>>,
           DOMAIN exec' = DOMAIN exec,
           \A s \in DOMAIN exec : /\ exec'[s].status = exec[s].status
                                  /\ exec'[s].fence = exec[s].fence
                                  /\ exec'[s].text = exec[s].text
                                  /\ exec[s].terminals # 0 => exec'[s].terminals # 0,
           \A q \in Workers : worker'[q] = worker[q] \/ worker'[q] = Idle
    PROVE  TurnInv'
<1>1. \A s \in DOMAIN exec : Running(s)' <=> Running(s)
  BY DEF Running
<1>2. RowsOK'
  BY <1>1 DEF TurnInv, RowsOK, Live
<1>3. LedgerOK'
  <2>1. \A n \in DOMAIN pending :
           pending[n].status = "resuming" => pending[n].resumeSeq \in DOMAIN exec
    BY DEF TurnInv, RowsOK
  <2>. QED
    BY <2>1 DEF TurnInv, LedgerOK, Live, Done
<1>4. ASSUME NEW q \in Workers PROVE WorkerOK(q)'
  <2>1. CASE worker'[q] = Idle
    BY <2>1 DEF WorkerOK, At, Idle
  <2>2. CASE worker'[q] = worker[q] /\ ~At(q, "idle")
    <3>1. worker[q].seq \in DOMAIN exec
      BY <2>2, CallFacts
    <3>2. Current(q)' <=> Current(q)
      BY <1>1, <2>2, <3>1 DEF Current, At
    <3>. QED
      BY <2>2, <3>1, <3>2 DEF TurnInv, WorkerOK, At, Live, Done
  <2>3. CASE worker'[q] = worker[q] /\ At(q, "idle")
    BY <2>3 DEF WorkerOK, At
  <2>. QED
    BY <2>1, <2>2, <2>3
<1>. QED
  BY <1>2, <1>3, <1>4 DEF TurnInv

(* DisconnectEarly keeps the invariant.                                    *)
LEMMA DisconnectEarlyStep ==
    ASSUME TurnInv, TypeOK', NEW p \in Workers, DisconnectEarly(p)
    PROVE  TurnInv'
<1> DEFINE s == worker[p].seq
<1>1. s \in DOMAIN exec /\ exec[s] \in Exec
  BY CallFacts DEF DisconnectEarly, At
<1>2. exec' = [exec EXCEPT ![s].terminals =
                  IF exec[s].terminals = 0 THEN 1 ELSE exec[s].terminals]
  BY DEF DisconnectEarly
<1>3. /\ DOMAIN exec' = DOMAIN exec
      /\ \A t \in DOMAIN exec : /\ exec'[t].status = exec[t].status
                                /\ exec'[t].fence = exec[t].fence
                                /\ exec'[t].text = exec[t].text
                                /\ exec[t].terminals # 0 => exec'[t].terminals # 0
  BY <1>1, <1>2 DEF Exec, TurnInv, TypeOK
<1>4. \A q \in Workers : worker'[q] = worker[q] \/ worker'[q] = Idle
  BY DEF DisconnectEarly, GiveUp, TurnInv, TypeOK
<1>. QED
  BY <1>3, <1>4, SoftStep DEF DisconnectEarly, GiveUp, effects

(* LeaseExpires keeps the invariant.                                       *)
LEMMA LeaseExpiresStep ==
    ASSUME TurnInv, TypeOK', NEW s \in DOMAIN exec, LeaseExpires(s)
    PROVE  TurnInv'
<1>1. exec[s] \in Exec
  BY ExecType DEF TurnInv
<1>2. /\ DOMAIN exec' = DOMAIN exec
      /\ \A t \in DOMAIN exec : /\ exec'[t].status = exec[t].status
                                /\ exec'[t].fence = exec[t].fence
                                /\ exec'[t].text = exec[t].text
                                /\ exec'[t].terminals = exec[t].terminals
  BY <1>1 DEF LeaseExpires, Exec, TurnInv, TypeOK
<1>. QED
  BY <1>2, SoftStep DEF LeaseExpires, effects

(* Takeover keeps the invariant.                                           *)
LEMMA TakeoverStep ==
    ASSUME TurnInv, TypeOK', NEW p \in Workers, NEW s \in DOMAIN exec, Takeover(p, s)
    PROVE  TurnInv'
<1>1. /\ exec[s] \in Exec /\ s \in Nat /\ fence \in Nat /\ fence' = fence + 1
      /\ Running(s) /\ UNCHANGED <<pending, draft, ledger>>
  BY ExecType DEF Takeover, TurnInv, TypeOK, effects
<1>2. /\ DOMAIN exec' = DOMAIN exec
      /\ \A t \in DOMAIN exec : /\ exec'[t].status = exec[t].status
                                /\ exec'[t].text = exec[t].text
                                /\ exec'[t].terminals = exec[t].terminals
                                /\ exec'[t].fence = IF t = s THEN fence + 1 ELSE exec[t].fence
  BY <1>1 DEF Takeover, Exec, TurnInv, TypeOK
<1>3. /\ worker'[p] = [pc |-> "admitted", seq |-> s, fence |-> fence + 1,
                       resumed |-> ResumedBy(s), head |-> NoHead, base |-> 0,
                       outcome |-> "error"]
      /\ \A q \in Workers \ {p} : worker'[q] = worker[q]
  BY DEF Takeover, Admit, TurnInv, TypeOK
<1>4. \A t \in DOMAIN exec : Running(t)' <=> Running(t)
  BY <1>2 DEF Running
<1>5. RowsOK'
  BY <1>1, <1>2, <1>4 DEF TurnInv, RowsOK, Live
<1>6. LedgerOK'
  <2>1. \A n \in DOMAIN pending :
           pending[n].status = "resuming" => pending[n].resumeSeq \in DOMAIN exec
    BY DEF TurnInv, RowsOK
  <2>. QED
    BY <1>1, <1>2, <2>1 DEF TurnInv, LedgerOK, Live, Done
<1>7. /\ \A n \in DOMAIN pending : Live(n) => ResumedBy(s) = n
      /\ ResumedBy(s) # NoInput => ResumedBy(s) \in DOMAIN pending /\ Live(ResumedBy(s))
  BY <1>1 DEF ResumedBy, TurnInv, RowsOK
<1>8. WorkerOK(p)'
  BY <1>1, <1>2, <1>3, <1>7 DEF WorkerOK, At, ModelPC, Live, TurnInv, TypeOK
<1>9. ASSUME NEW q \in Workers, q # p PROVE WorkerOK(q)'
  <2>1. ASSUME ~At(q, "idle"), Current(q)' PROVE Current(q) /\ WorkerOK(q)'
    <3>1. worker'[q] = worker[q] /\ worker[q].seq \in DOMAIN exec /\ worker[q].fence \in 1..fence
      BY <1>3, <1>9, <2>1, CallFacts
    <3>2. worker[q].seq # s
      BY <1>1, <1>2, <2>1, <3>1 DEF Current
    <3>3. Current(q)
      BY <1>2, <1>4, <2>1, <3>1, <3>2 DEF Current, At
    <3>. QED
      BY <1>1, <1>2, <2>1, <3>1, <3>2, <3>3 DEF TurnInv, WorkerOK, At, Live, Done
  <2>. QED
    BY <1>1, <1>2, <1>3, <1>9, <2>1, Bystander
<1>. QED
  BY <1>5, <1>6, <1>8, <1>9 DEF TurnInv

(* BeginInput keeps the invariant.                                         *)
LEMMA BeginInputStep ==
    ASSUME TurnInv, TypeOK', NEW p \in Workers, BeginInput(p)
    PROVE  TurnInv'
<1> DEFINE s == Len(exec) + 1
<1>1. /\ fence \in Nat /\ fence' = fence + 1 /\ UNCHANGED <<pending, draft, ledger>>
      /\ \A t \in DOMAIN exec : ~Running(t)
      /\ \A n \in DOMAIN pending : ~Live(n)
  BY DEF BeginInput, TurnInv, TypeOK, effects
<1>2. /\ DOMAIN exec' = DOMAIN exec \cup {s} /\ s \notin DOMAIN exec /\ s \in Nat
      /\ \A t \in DOMAIN exec : exec'[t] = exec[t]
      /\ exec'[s].text = "other" /\ exec'[s].status = "running"
  BY DEF BeginInput, TurnInv, TypeOK
<1>3. /\ worker'[p] = [pc |-> "admitted", seq |-> s, fence |-> fence + 1,
                       resumed |-> NoInput, head |-> NoHead, base |-> 0, outcome |-> "error"]
      /\ \A q \in Workers \ {p} : worker'[q] = worker[q]
  BY DEF BeginInput, Admit, TurnInv, TypeOK
<1>4. \A t \in DOMAIN exec' : Running(t)' => t = s
  BY <1>1, <1>2 DEF Running
<1>5. \A n \in DOMAIN pending : ~Live(n)'
  BY <1>1 DEF Live
<1>6. RowsOK'
  <2>1. \A t \in DOMAIN exec' : ~Running(t)' => t \in DOMAIN exec /\ ~Running(t)
    BY <1>1, <1>2 DEF Running
  <2>2. \A n \in DOMAIN pending : pending[n].status # "resuming"
    BY <1>1 DEF Live
  <2>. QED
    BY <1>1, <1>2, <1>4, <1>5, <2>1, <2>2 DEF TurnInv, RowsOK
<1>7. LedgerOK'
  BY <1>1, <1>5 DEF TurnInv, LedgerOK
<1>8. WorkerOK(p)'
  BY <1>1, <1>2, <1>3, <1>5 DEF WorkerOK, At, ModelPC, TurnInv, TypeOK, NoInput
<1>9. ASSUME NEW q \in Workers, q # p PROVE WorkerOK(q)'
  <2>1. ~At(q, "idle") => ~Current(q)'
    <3>1. ~At(q, "idle") => worker[q].seq \in DOMAIN exec /\ worker'[q] = worker[q]
      BY <1>3, <1>9, CallFacts
    <3>. QED
      BY <1>2, <1>4, <3>1 DEF Current
  <2>. QED
    BY <1>1, <1>2, <1>3, <1>9, <2>1, Bystander
<1>. QED
  BY <1>6, <1>7, <1>8, <1>9 DEF TurnInv

(* BeginResume keeps the invariant.                                        *)
LEMMA BeginResumeStep ==
    ASSUME TurnInv, TypeOK', NEW p \in Workers, NEW n \in DOMAIN pending, NEW text \in Texts,
           BeginResume(p, n, text)
    PROVE  TurnInv'
<1> DEFINE s == Len(exec) + 1
<1>1. /\ fence \in Nat /\ fence' = fence + 1 /\ UNCHANGED <<draft, ledger>>
      /\ \A t \in DOMAIN exec : ~Running(t)
      /\ n \in Nat /\ n # NoInput /\ pending[n] \in Pending /\ pending[n].status = "active"
  BY PendingType DEF BeginResume, TurnInv, TypeOK, effects, NoInput
<1>2. /\ DOMAIN exec' = DOMAIN exec \cup {s} /\ s \notin DOMAIN exec /\ s \in Nat
      /\ \A t \in DOMAIN exec : exec'[t] = exec[t]
      /\ exec'[s].text = text /\ exec'[s].status = "running"
  BY DEF BeginResume, TurnInv, TypeOK
<1>3. /\ worker'[p] = [pc |-> "admitted", seq |-> s, fence |-> fence + 1,
                       resumed |-> n, head |-> NoHead, base |-> 0, outcome |-> "error"]
      /\ \A q \in Workers \ {p} : worker'[q] = worker[q]
  BY DEF BeginResume, Admit, TurnInv, TypeOK
<1>4. /\ DOMAIN pending' = DOMAIN pending
      /\ pending'[n].status = "resuming" /\ pending'[n].resumeSeq = s
      /\ \A m \in DOMAIN pending \ {n} : pending'[m] = pending[m]
  BY <1>1 DEF BeginResume, TurnInv, TypeOK, Pending
<1>5. \A t \in DOMAIN exec' : Running(t)' => t = s
  BY <1>1, <1>2 DEF Running
<1>6. \A m \in DOMAIN pending' : Live(m)' => m = n
  <2>1. Live(n)
    BY <1>1 DEF Live
  <2>. QED
    BY <1>4, <2>1 DEF Live, TurnInv, RowsOK
<1>7. RowsOK'
  <2>1. \A t \in DOMAIN exec' : ~Running(t)' => t \in DOMAIN exec /\ ~Running(t)
    BY <1>2 DEF Running
  <2>2. Live(n)'
    BY <1>4 DEF Live
  <2>. QED
    BY <1>2, <1>4, <1>5, <1>6, <2>1, <2>2 DEF TurnInv, RowsOK
<1>8. ~Done(Confirm(n))
  BY <1>1 DEF TurnInv, LedgerOK, Live
<1>9. LedgerOK'
  <2>1. \A m : Done(Confirm(m))' <=> Done(Confirm(m))
    BY <1>1 DEF Done
  <2>. QED
    BY <1>1, <1>4, <1>6, <1>8, <2>1 DEF TurnInv, LedgerOK
<1>10. WorkerOK(p)'
  <2>1. Live(n)'
    BY <1>4 DEF Live
  <2>. QED
    BY <1>1, <1>2, <1>3, <1>4, <1>6, <2>1 DEF WorkerOK, At, ModelPC, TurnInv, TypeOK
<1>11. ASSUME NEW q \in Workers, q # p PROVE WorkerOK(q)'
  <2>1. ~At(q, "idle") => ~Current(q)'
    <3>1. ~At(q, "idle") => worker[q].seq \in DOMAIN exec /\ worker'[q] = worker[q]
      BY <1>3, <1>11, CallFacts
    <3>. QED
      BY <1>2, <1>5, <3>1 DEF Current
  <2>. QED
    BY <1>1, <1>2, <1>3, <1>11, <2>1, Bystander
<1>. QED
  BY <1>7, <1>9, <1>10, <1>11 DEF TurnInv

(* A turn ends: nothing runs after it, and what is left open is one        *)
(* question that no answer has confirmed.                                  *)
LEMMA ClosedStep ==
    ASSUME TurnInv, TypeOK', NEW p \in Workers, ~At(p, "idle"), Current(p),
           UNCHANGED <<fence, draft, ledger>>, worker' = [worker EXCEPT ![p] = Idle],
           DOMAIN exec' = DOMAIN exec,
           exec'[worker[p].seq].status # "running", exec'[worker[p].seq].terminals # 0,
           exec'[worker[p].seq].text = exec[worker[p].seq].text,
           \A t \in DOMAIN exec \ {worker[p].seq} : exec'[t] = exec[t],
           DOMAIN pending \subseteq DOMAIN pending',
           \A m, n \in DOMAIN pending' : Live(m)' /\ Live(n)' => m = n,
           \A n \in DOMAIN pending' :
              \/ n \in DOMAIN pending /\ pending'[n] = pending[n]
              \/ pending'[n].status = "resolved"
              \/ pending'[n].status = "active" /\ ~Done(Confirm(n))
    PROVE  TurnInv'
<1>1. \A t \in DOMAIN exec' : ~Running(t)'
  <2>1. Running(worker[p].seq) /\ worker[p].seq \in DOMAIN exec
    BY CallFacts DEF Current
  <2>. QED
    BY <2>1 DEF Running, TurnInv, RowsOK
<1>2. \A t \in DOMAIN exec' : exec'[t].terminals # 0
  BY <1>1 DEF TurnInv, RowsOK, Running
<1>3. \A n \in DOMAIN pending' : pending'[n].status = "resuming" =>
         n \in DOMAIN pending /\ pending'[n] = pending[n] /\ pending[n].resumeSeq \in DOMAIN exec
  BY DEF TurnInv, RowsOK
<1>4. RowsOK'
  BY <1>1, <1>2, <1>3 DEF RowsOK
<1>5. LedgerOK'
  <2>1. \A n : Done(Confirm(n))' <=> Done(Confirm(n))
    BY DEF Done
  <2>2. \A t \in DOMAIN exec : exec'[t].text = exec[t].text
    OBVIOUS
  <2>3. ASSUME NEW n \in DOMAIN pending', Done(Confirm(n)), Live(n)'
        PROVE  pending'[n].status = "resuming" /\ exec'[pending'[n].resumeSeq].text = "confirm"
    <3>1. n \in DOMAIN pending /\ pending'[n] = pending[n]
      BY <2>3 DEF Live
    <3>. QED
      BY <1>3, <2>2, <2>3, <3>1 DEF TurnInv, LedgerOK, Live
  <2>. QED
    BY <2>1, <2>3 DEF TurnInv, LedgerOK
<1>6. ASSUME NEW q \in Workers PROVE WorkerOK(q)'
  <2>1. CASE q = p
    BY <2>1 DEF WorkerOK, At, Idle, TurnInv, TypeOK
  <2>2. CASE q # p
    <3>1. worker'[q] = worker[q]
      BY <2>2 DEF TurnInv, TypeOK
    <3>2. ~At(q, "idle") => ~Current(q)'
      BY <1>1, <3>1, CallFacts DEF Current
    <3>3. fence' \in Nat /\ fence <= fence'
      BY DEF TurnInv, TypeOK
    <3>. QED
      BY <3>1, <3>2, <3>3, Bystander
  <2>. QED
    BY <2>1, <2>2
<1>. QED
  BY <1>4, <1>5, <1>6 DEF TurnInv

(* QuotaExhausted keeps the invariant.                                     *)
LEMMA QuotaExhaustedStep ==
    ASSUME TurnInv, TypeOK', NEW p \in Workers, QuotaExhausted(p)
    PROVE  TurnInv'
<1> DEFINE s == worker[p].seq
<1>1. ~At(p, "idle") /\ Current(p)
  BY FencedCurrent DEF QuotaExhausted, ModelPC, At
<1>2. s \in DOMAIN exec /\ exec[s] \in Exec
  BY <1>1, CallFacts
<1>3. /\ DOMAIN exec' = DOMAIN exec
      /\ exec'[s].status # "running" /\ exec'[s].terminals # 0
      /\ exec'[s].text = exec[s].text
      /\ \A t \in DOMAIN exec \ {s} : exec'[t] = exec[t]
  <2>1. exec[s].terminals \in Nat
    BY <1>2 DEF Exec
  <2>2. /\ DOMAIN exec' = DOMAIN exec
        /\ exec'[s] = [exec[s] EXCEPT !.status = "recoverable_error", !.live = FALSE,
                                      !.terminals = exec[s].terminals + 1]
        /\ \A t \in DOMAIN exec \ {s} : exec'[t] = exec[t]
    BY <1>2 DEF QuotaExhausted, TurnInv, TypeOK
  <2>. QED
    BY <1>2, <2>1, <2>2 DEF Exec
<1>4. \A m, n \in DOMAIN pending' : Live(m)' /\ Live(n)' => m = n
  BY DEF QuotaExhausted, TurnInv, RowsOK, Live
<1>5. UNCHANGED <<fence, draft, ledger, pending>> /\ worker' = [worker EXCEPT ![p] = Idle]
  BY DEF QuotaExhausted, effects
<1>. QED
  BY <1>1, <1>3, <1>4, <1>5, ClosedStep

(* What a finalizer may do to the question it answers.                     *)
LEMMA FinalizeStep ==
    ASSUME TurnInv, TypeOK', NEW p \in Workers, Finalize(p)
    PROVE  TurnInv'
<1> DEFINE s == worker[p].seq
           n == worker[p].resumed
           asked == [status |-> "active", revision |-> worker[p].base,
                     head |-> worker[p].fence, resumeSeq |-> NoInput]
<1>1. PICK st \in ExecStatus \ {"running"} :
         FinalizeGraphTurn(p, st) \/ FinalizeResumeOutcome(p, st) \/ FinalizeInterrupt(p, st)
  BY DEF Finalize
<1>2. MayFinalize(p) /\ ~At(p, "idle")
  BY <1>1 DEF FinalizeGraphTurn, FinalizeResumeOutcome, FinalizeInterrupt, MayFinalize, At
<1>3. Current(p) /\ s \in DOMAIN exec /\ exec[s] \in Exec /\ Running(s) /\ WorkerOK(p)
  BY <1>2, FencedCurrent, CallFacts DEF MayFinalize, Current, TurnInv
<1>4. PICK st2 \in ExecStatus \ {"running"} : Close(p, st2)
  BY <1>1 DEF FinalizeGraphTurn, FinalizeResumeOutcome, FinalizeInterrupt, ExecStatus
<1>5. /\ DOMAIN exec' = DOMAIN exec
      /\ exec'[s].status # "running" /\ exec'[s].terminals # 0
      /\ exec'[s].text = exec[s].text
      /\ \A t \in DOMAIN exec \ {s} : exec'[t] = exec[t]
  <2>1. exec[s].terminals \in Nat
    BY <1>3 DEF Exec
  <2>2. /\ DOMAIN exec' = DOMAIN exec
        /\ exec'[s] = [exec[s] EXCEPT !.status = st2, !.live = FALSE,
                          !.head = worker[p].fence, !.terminals = exec[s].terminals + 1]
        /\ \A t \in DOMAIN exec \ {s} : exec'[t] = exec[t]
    BY <1>3, <1>4 DEF Close, TurnInv, TypeOK
  <2>. QED
    BY <1>3, <2>1, <2>2 DEF Exec
<1>6. UNCHANGED <<fence, draft, ledger>> /\ worker' = [worker EXCEPT ![p] = Idle]
  BY <1>4 DEF Close, effects
<1>7. \A m, k \in DOMAIN pending : Live(m) /\ Live(k) => m = k
  BY DEF TurnInv, RowsOK
<1>8. /\ DOMAIN pending \subseteq DOMAIN pending'
      /\ \A m, k \in DOMAIN pending' : Live(m)' /\ Live(k)' => m = k
      /\ \A m \in DOMAIN pending' :
            \/ m \in DOMAIN pending /\ pending'[m] = pending[m]
            \/ pending'[m].status = "resolved"
            \/ pending'[m].status = "active" /\ ~Done(Confirm(m))
  <2>1. CASE pending' = pending
    BY <1>7, <2>1 DEF Live
  <2>2. CASE n \in DOMAIN pending /\ pending' = [pending EXCEPT ![n].status = "resolved"]
    <3>1. /\ DOMAIN pending' = DOMAIN pending /\ pending'[n].status = "resolved"
          /\ \A m \in DOMAIN pending \ {n} : pending'[m] = pending[m]
      BY <2>2, PendingType DEF TurnInv, TypeOK, Pending
    <3>. QED
      BY <1>7, <3>1 DEF Live
  <2>3. CASE /\ n = NoInput /\ pending' = Append(pending, asked)
    <3>1. \A m \in DOMAIN pending : ~Live(m)
      BY <1>2, <1>3, <2>3, PendingType DEF WorkerOK, TurnInv, NoInput
    <3>2. /\ DOMAIN pending' = DOMAIN pending \cup {Len(pending) + 1}
          /\ Len(pending) + 1 \notin DOMAIN pending
          /\ pending'[Len(pending) + 1] = asked
          /\ \A m \in DOMAIN pending : pending'[m] = pending[m]
      BY <2>3 DEF TurnInv, TypeOK
    <3>3. ~Done(Confirm(Len(pending) + 1))
      BY <3>2 DEF TurnInv, LedgerOK, Done, Confirm
    <3>. QED
      BY <3>1, <3>2, <3>3 DEF Live
  <2>4. CASE /\ n # NoInput /\ worker[p].outcome = "interrupt" /\ Live(n)
             /\ pending' = [pending EXCEPT ![n] = asked]
    <3>1. n \in DOMAIN pending /\ exec[s].text = "other"
      BY <1>2, <1>3, <2>4 DEF WorkerOK
    <3>2. /\ DOMAIN pending' = DOMAIN pending /\ pending'[n] = asked
          /\ \A m \in DOMAIN pending \ {n} : pending'[m] = pending[m]
      BY <2>4, <3>1 DEF TurnInv, TypeOK
    <3>3. pending[n].resumeSeq = s
      BY <1>3, <2>4, <3>1 DEF TurnInv, RowsOK
    <3>4. ~Done(Confirm(n))
      BY <2>4, <3>1, <3>3 DEF TurnInv, LedgerOK
    <3>. QED
      BY <1>7, <2>4, <3>1, <3>2, <3>4 DEF Live
  <2>. QED
    BY <1>1, <1>2, <1>3, <2>1, <2>2, <2>3, <2>4
       DEF FinalizeGraphTurn, FinalizeResumeOutcome, FinalizeInterrupt, WorkerOK
<1>. QED
  BY <1>2, <1>3, <1>5, <1>6, <1>8, ClosedStep

-----------------------------------------------------------------------------
(* The invariant holds at first.                                           *)
LEMMA InitInv == Init => TurnInv
<1>. SUFFICES ASSUME Init PROVE TurnInv
  OBVIOUS
<1>1. \A op : ~Done(op)
  BY DEF Init, Done
<1>2. TypeOK
  BY TurnExecutionAssumption DEF Init, TypeOK
<1>3. RowsOK /\ LedgerOK
  BY <1>1 DEF Init, RowsOK, LedgerOK
<1>4. \A p \in Workers : WorkerOK(p)
  BY DEF Init, WorkerOK, At, Idle
<1>. QED
  BY <1>2, <1>3, <1>4 DEF TurnInv

(* Every step keeps the invariant.                                         *)
LEMMA NextInv == TurnInv /\ [Next]_vars => TurnInv'
<1>. SUFFICES ASSUME TurnInv, [Next]_vars PROVE TurnInv'
  OBVIOUS
<1>1. TypeOK'
  BY NextType
<1>2. draft.revision \in Nat
  BY DEF TurnInv, TypeOK
<1>3. ASSUME NEW p \in Workers, Reject(p) \/ Crash(p) PROVE TurnInv'
  BY <1>1, <1>2, <1>3, QuietStep DEF Reject, Crash, GiveUp, rows, effects, Grows
<1>4. ASSUME NEW p \in Workers, LoseLock(p) PROVE TurnInv'
  BY <1>1, <1>2, <1>4, QuietStep DEF LoseLock, rows, effects, Grows
<1>5. ASSUME NEW confirmed \in BOOLEAN, FormEdit(confirmed) PROVE TurnInv'
  <2>1. draft'.revision = draft.revision + 1
    BY <1>5 DEF FormEdit
  <2>. QED
    BY <1>1, <1>2, <1>5, <2>1, QuietStep DEF FormEdit, Grows
<1>6. CASE Logout \/ UNCHANGED vars
  BY <1>1, <1>2, <1>6, QuietStep DEF Logout, vars, rows, effects, Grows
<1>7. ASSUME NEW p \in Workers, GraphStep(p) PROVE TurnInv'
  BY <1>1, <1>7, StartGraphStep, HydrateInputStep, HydrateResumeStep, CallModelStep,
     SkipModelStep, QuotaExhaustedStep, PersistDraftStep, ApplyConfirmationStep,
     StopGraphStep, FinalizeStep DEF GraphStep
<1>. QED
  BY <1>1, <1>3, <1>4, <1>5, <1>6, <1>7, BeginInputStep, BeginResumeStep, TakeoverStep,
     DisconnectEarlyStep, LeaseExpiresStep DEF Next

(* The invariant holds.                                                    *)
LEMMA Invariance == Spec => []TurnInv
BY InitInv, NextInv, PTL DEF Spec

-----------------------------------------------------------------------------
(* What the type says of every variable, at every step: the rows, the      *)
(* ledger, the checkpoints and the calls keep the shape that the services  *)
(* read back, whatever crashes in between.                                 *)
THEOREM TypeCorrect == Spec => []TypeOK
BY Invariance, PTL DEF TurnInv

(* A set whose elements are all equal has at most one.                     *)
LEMMA AtMostOne ==
    ASSUME NEW S, \A x, y \in S : x = y
    PROVE  Cardinality(S) <= 1
<1>1. CASE S = {}
  BY <1>1, FS_EmptySet
<1>2. CASE S # {}
  <2>1. PICK x \in S : S = {x}
    BY <1>2
  <2>. QED
    BY <2>1, FS_Singleton
<1>. QED
  BY <1>1, <1>2

(* The invariant says that there is one conversation.                      *)
LEMMA RowsOfOneConversation == TurnInv => OneConversation
<1>. SUFFICES ASSUME TurnInv PROVE OneConversation
  OBVIOUS
<1>1. Cardinality({s \in DOMAIN exec : Running(s)}) <= 1
  BY AtMostOne DEF TurnInv, RowsOK
<1>2. Cardinality({n \in DOMAIN pending : Live(n)}) <= 1
  BY AtMostOne DEF TurnInv, RowsOK
<1>. QED
  BY <1>1, <1>2 DEF OneConversation, TurnInv, RowsOK

(* One execution runs and one question is open at most, and nothing but    *)
(* the answer runs while it is (begin_input, begin_resume, takeover and    *)
(* the finalizers of turn_execution.py).                                   *)
THEOREM OneConversationHolds == Spec => []OneConversation
BY RowsOfOneConversation, Invariance, PTL

(* No step touches an execution that has ended.                            *)
LEMMA EndedStays ==
    ASSUME TurnInv, [Next]_vars
    PROVE  \A s \in DOMAIN exec : ~Running(s) => s \in DOMAIN exec' /\ exec'[s] = exec[s]
<1> DEFINE Ended ==
        \A s \in DOMAIN exec : ~Running(s) => s \in DOMAIN exec' /\ exec'[s] = exec[s]
<1>2. exec \in Seq(Exec)
  BY DEF TurnInv, TypeOK
<1>3. ASSUME NEW p \in Workers, BeginInput(p) PROVE Ended
  BY <1>2, <1>3 DEF BeginInput
<1>4. ASSUME NEW p \in Workers, NEW n \in DOMAIN pending, NEW text \in Texts,
             BeginResume(p, n, text)
      PROVE  Ended
  BY <1>2, <1>4 DEF BeginResume
<1>5. ASSUME NEW p \in Workers, NEW s \in DOMAIN exec, Takeover(p, s) PROVE Ended
  BY <1>2, <1>5 DEF Takeover, Running
<1>6. ASSUME NEW s \in DOMAIN exec, LeaseExpires(s) PROVE Ended
  BY <1>2, <1>6 DEF LeaseExpires, Running
<1>7. ASSUME NEW p \in Workers, DisconnectEarly(p) PROVE Ended
  <2>1. \A s \in DOMAIN exec : ~Running(s) => exec[s].terminals # 0
    BY DEF TurnInv, RowsOK
  <2>2. worker[p].seq \in DOMAIN exec /\ exec[worker[p].seq] \in Exec
    BY <1>7, CallFacts DEF DisconnectEarly, At
  <2>. QED
    BY <1>2, <1>7, <2>1, <2>2 DEF DisconnectEarly, Exec
<1>8. ASSUME NEW p \in Workers, QuotaExhausted(p) PROVE Ended
  BY <1>2, <1>8 DEF QuotaExhausted, Fenced, Running
<1>9. ASSUME NEW p \in Workers, NEW st, MayFinalize(p), Close(p, st) PROVE Ended
  BY <1>2, <1>9 DEF MayFinalize, Close, Fenced, Running
<1>10. ASSUME NEW p \in Workers, Finalize(p) PROVE Ended
  BY <1>9, <1>10
     DEF Finalize, FinalizeGraphTurn, FinalizeResumeOutcome, FinalizeInterrupt
<1>11. ASSUME UNCHANGED exec PROVE Ended
  BY <1>11
<1>12. ASSUME NEW p \in Workers, GraphStep(p) PROVE Ended
  BY <1>8, <1>10, <1>11, <1>12
     DEF GraphStep, StartGraph, HydrateInput, HydrateResume, CallModel, SkipModel,
         PersistDraft, ApplyConfirmation, StopGraph, rows
<1>. QED
  BY <1>3, <1>4, <1>5, <1>6, <1>7, <1>11, <1>12
     DEF Next, Reject, Crash, LoseLock, FormEdit, Logout, vars, rows

(* A turn that ended stays as it ended: a late attempt, a disconnect, an   *)
(* expiry or a recovery finds it closed (_lock_execution).                 *)
THEOREM TurnEndsOnceHolds == Spec => TurnEndsOnce
<1> DEFINE Ended == \A s \in DOMAIN exec : ~Running(s) => exec'[s] = exec[s]
<1>1. ASSUME TurnInv, [Next]_vars PROVE Ended
  BY <1>1, EndedStays
<1>2. TurnInv /\ [Next]_vars => [Ended]_vars
  BY <1>1
<1>. QED
  BY <1>2, Invariance, PTL DEF Spec, TurnEndsOnce

(* Only confirm_draft confirms.                                            *)
LEMMA ConfirmingSteps ==
    ASSUME TurnInv, [Next]_vars, ~SameConfirmations
    PROVE  \E p \in Workers : ApplyConfirmation(p) /\ ~UNCHANGED ledger
<1>1. ~UNCHANGED ledger
  BY DEF SameConfirmations, Done
<1>2. \A n : Confirm(n)[1] = "confirm"
  BY DEF Confirm
<1>3. ASSUME NEW op, op[1] # "confirm", NEW r, Record(op, r) PROVE FALSE
  BY <1>2, <1>3 DEF Record, Done, SameConfirmations
<1>4. ASSUME NEW p \in Workers, CallModel(p) PROVE FALSE
  <2>1. Record(Call(p), 0)
    BY <1>1, <1>4 DEF CallModel, Reserve
  <2>. QED
    BY <1>3, <2>1 DEF Call, Quota
<1>5. ASSUME NEW p \in Workers, PersistDraft(p) PROVE FALSE
  <2>1. \E r : Record(Persist(worker[p].seq), r)
    BY <1>1, <1>5 DEF PersistDraft
  <2>. QED
    BY <1>3, <2>1 DEF Persist
<1>6. ASSUME NEW p \in Workers, GraphStep(p) PROVE ApplyConfirmation(p)
  BY <1>1, <1>4, <1>5, <1>6
     DEF GraphStep, StartGraph, HydrateInput, HydrateResume, SkipModel, QuotaExhausted, StopGraph,
         Finalize, FinalizeGraphTurn, FinalizeResumeOutcome, FinalizeInterrupt, Close, effects
<1>. QED
  BY <1>1, <1>6
     DEF Next, BeginInput, BeginResume, Takeover, Reject, Crash, DisconnectEarly, LoseLock,
         LeaseExpires, FormEdit, Logout, GiveUp, vars, effects

(* ... and it confirms the question that its call answers.                 *)
LEMMA ConfirmsTheAsked ==
    ASSUME TurnInv, [Next]_vars, NEW n \in DOMAIN pending, ~Done(Confirm(n)), Done(Confirm(n))'
    PROVE  /\ session
           /\ pending[n].status = "resuming" /\ Running(pending[n].resumeSeq)
           /\ draft.revision = pending[n].revision
<1>1. n \in Nat
  BY PendingType DEF TurnInv
<1>2. PICK p \in Workers : ApplyConfirmation(p) /\ ~UNCHANGED ledger
  BY <1>1, ConfirmingSteps DEF SameConfirmations
<1> DEFINE m == worker[p].resumed
<1>3. /\ At(p, "confirming") /\ Fenced(p) /\ session /\ draft.revision = worker[p].base
      /\ ~Done(Confirm(m)) /\ Record(Confirm(m), draft'.revision)
  BY <1>2 DEF ApplyConfirmation
<1>4. n = m
  BY <1>3 DEF Record, Done, Confirm
<1>. QED
  BY <1>3, <1>4, ConfirmsItsQuestion

(* A confirmation is of the revision that the question was about, by the   *)
(* running answer to it, in a live session (confirm_draft of               *)
(* step_operations.py).                                                    *)
THEOREM ConfirmedWhatWasAskedHolds == Spec => ConfirmedWhatWasAsked
<1> DEFINE Asked ==
        \A n \in DOMAIN pending : ~Done(Confirm(n)) /\ Done(Confirm(n))' =>
           /\ session
           /\ pending[n].status = "resuming" /\ Running(pending[n].resumeSeq)
           /\ draft.revision = pending[n].revision
<1>1. ASSUME TurnInv, [Next]_vars PROVE Asked
  BY <1>1, ConfirmsTheAsked
<1>2. TurnInv /\ [Next]_vars => [Asked]_vars
  BY <1>1
<1>. QED
  BY <1>2, Invariance, PTL DEF Spec, ConfirmedWhatWasAsked

(* Every model call is charged once, whatever is replayed, and never beyond*)
(* the limit (reserve_model_attempt of step_operations.py).                *)
LEMMA ChargedOnce ==
    ASSUME TurnInv, [Next]_vars
    PROVE  \/ /\ quota' = quota
              /\ \A op : op[1] = "quota" => (op \in DOMAIN ledger' <=> op \in DOMAIN ledger)
           \/ \E op : /\ quota' = quota + 1 /\ op[1] = "quota" /\ op \notin DOMAIN ledger
                      /\ DOMAIN ledger' = DOMAIN ledger \cup {op}
<1> DEFINE Same == /\ quota' = quota
                   /\ \A op : op[1] = "quota" => (op \in DOMAIN ledger' <=> op \in DOMAIN ledger)
           Charged == \E op : /\ quota' = quota + 1 /\ op[1] = "quota" /\ op \notin DOMAIN ledger
                              /\ DOMAIN ledger' = DOMAIN ledger \cup {op}
<1>1. ASSUME UNCHANGED <<quota, ledger>> PROVE Same
  BY <1>1
<1>2. ASSUME NEW op, op[1] # "quota", NEW r, Record(op, r), UNCHANGED quota PROVE Same
  BY <1>2 DEF Record
<1>3. ASSUME NEW p \in Workers, CallModel(p) PROVE Same \/ Charged
  <2>1. \/ UNCHANGED <<quota, ledger>>
        \/ ~Done(Call(p)) /\ quota' = quota + 1 /\ Record(Call(p), 0)
    BY <1>3 DEF CallModel, Reserve
  <2>2. Call(p)[1] = "quota"
    BY DEF Call, Quota
  <2>. QED
    BY <1>1, <2>1, <2>2 DEF Record, Done
<1>4. ASSUME NEW p \in Workers, PersistDraft(p) PROVE Same
  <2>1. UNCHANGED quota /\ (UNCHANGED ledger \/ \E r : Record(Persist(worker[p].seq), r))
    BY <1>4 DEF PersistDraft
  <2>2. Persist(worker[p].seq)[1] # "quota"
    BY DEF Persist
  <2>. QED
    BY <1>1, <1>2, <2>1, <2>2
<1>5. ASSUME NEW p \in Workers, ApplyConfirmation(p) PROVE Same
  <2>1. UNCHANGED quota /\ (UNCHANGED ledger \/ \E r : Record(Confirm(worker[p].resumed), r))
    BY <1>5 DEF ApplyConfirmation
  <2>2. Confirm(worker[p].resumed)[1] # "quota"
    BY DEF Confirm
  <2>. QED
    BY <1>1, <1>2, <2>1, <2>2
<1>6. ASSUME NEW p \in Workers, GraphStep(p) PROVE Same \/ Charged
  BY <1>1, <1>3, <1>4, <1>5, <1>6
     DEF GraphStep, StartGraph, HydrateInput, HydrateResume, SkipModel, QuotaExhausted, StopGraph,
         Finalize, FinalizeGraphTurn, FinalizeResumeOutcome, FinalizeInterrupt, Close, effects
<1>. QED
  BY <1>1, <1>6
     DEF Next, BeginInput, BeginResume, Takeover, Reject, Crash, DisconnectEarly, LoseLock,
         LeaseExpires, FormEdit, Logout, GiveUp, vars, effects

(* The quota row counts the charges in the ledger                          *)
(* (reserve_model_attempt).                                                *)
THEOREM QuotaIsAccountedHolds == Spec => []QuotaIsAccounted
<1> DEFINE charges == {op \in DOMAIN ledger : op[1] = "quota"}
           Accounted == IsFiniteSet(charges) /\ quota = Cardinality(charges)
<1>1. Init => Accounted
  <2>1. ASSUME Init PROVE charges = {} /\ quota = 0
    BY <2>1 DEF Init
  <2>. QED
    BY <2>1, FS_EmptySet
<1>2. ASSUME Accounted, TurnInv, [Next]_vars PROVE Accounted'
  <2>1. CASE quota' = quota /\ charges' = charges
    BY <1>2, <2>1
  <2>2. CASE \E op : /\ quota' = quota + 1 /\ op \notin charges
                     /\ charges' = charges \cup {op}
    <3>1. PICK op : quota' = quota + 1 /\ op \notin charges /\ charges' = charges \cup {op}
      BY <2>2
    <3> HIDE DEF charges
    <3>. QED
      BY <1>2, <3>1, FS_AddElement
  <2>. QED
    BY <1>2, <2>1, <2>2, ChargedOnce
<1>3. Accounted => QuotaIsAccounted
  BY DEF QuotaIsAccounted
<1>4. Accounted /\ TurnInv /\ [Next]_vars => Accounted'
  BY <1>2
<1> HIDE DEF Accounted
<1>. QED
  BY <1>1, <1>3, <1>4, Invariance, PTL DEF Spec

-----------------------------------------------------------------------------
(* What the requester sees, step by step.                                  *)
Seen == <<Phase, Subject, Confirmed>>

(* The same turns running, the same questions: nothing new to see.         *)
LEMMA SeesNothing ==
    ASSUME TurnInv, DOMAIN exec' = DOMAIN exec, \A s \in DOMAIN exec : Running(s)' <=> Running(s),
           UNCHANGED pending, SameConfirmations
    PROVE  UNCHANGED Seen
<1>1. Open' = Open /\ \A n \in Open : n \in Nat
  BY PendingType DEF Open, Live, TurnInv
<1>2. Confirmed' <=> Confirmed
  BY <1>1 DEF Confirmed, SameConfirmations
<1>3. Subject' = Subject
  BY <1>1 DEF Subject
<1>4. Phase' = Phase
  BY <1>1 DEF Phase
<1>. QED
  BY <1>2, <1>3, <1>4 DEF Seen, Confirmed

(* What each state of the rows looks like from outside.                    *)
View ==
    /\ (\A n \in DOMAIN pending : ~Live(n)) /\ (\A s \in DOMAIN exec : ~Running(s))
          => Phase = "free" /\ Subject = {} /\ ~Confirmed
    /\ (\A n \in DOMAIN pending : ~Live(n)) /\ (\E s \in DOMAIN exec : Running(s))
          => Phase = "working" /\ Subject = {} /\ ~Confirmed
    /\ \A n \in DOMAIN pending : Live(n) =>
          /\ Phase = IF pending[n].status = "active" THEN "asked" ELSE "answering"
          /\ Subject = {pending[n].revision} /\ (Confirmed <=> Done(Confirm(n)))

(* The phase is what the rows say.                                         *)
LEMMA SeesPhase == TurnInv => View
<1>. SUFFICES ASSUME TurnInv PROVE View
  OBVIOUS
<1>1. ASSUME \A n \in DOMAIN pending : ~Live(n)
      PROVE  Open = {} /\ Subject = {} /\ ~Confirmed
  BY <1>1 DEF Open, Subject, Confirmed
<1>2. ASSUME NEW n \in DOMAIN pending, Live(n)
      PROVE  /\ Phase = IF pending[n].status = "active" THEN "asked" ELSE "answering"
             /\ Subject = {pending[n].revision} /\ (Confirmed <=> Done(Confirm(n)))
  <2>1. Open = {n}
    BY <1>2 DEF Open, TurnInv, RowsOK
  <2>2. Phase = IF pending[n].status = "active" THEN "asked" ELSE "answering"
    BY <2>1 DEF Phase
  <2>3. Subject = {pending[n].revision}
    BY <2>1 DEF Subject
  <2>4. Confirmed <=> Done(Confirm(n))
    BY <2>1 DEF Confirmed
  <2>. QED
    BY <2>2, <2>3, <2>4
<1>. QED
  BY <1>1, <1>2 DEF Phase, View

(* ... and so it is after a step.                                          *)
LEMMA SeesPhaseAfter == TurnInv' => View'
BY SeesPhase, PTL

(* Confirmed is a truth value.                                             *)
LEMMA Booleans == Confirmed \in BOOLEAN
BY DEF Confirmed

(* The steps that end in nothing new to see, an edit at most.              *)
LEMMA SeenEdit ==
    ASSUME UNCHANGED Seen, draft'.revision \in {draft.revision, draft.revision + 1}
    PROVE  [Promise!Next]_(Promise!conversation)
BY DEF Seen, Promise!Next, Promise!Edit, Promise!conversation

(* A turn that ends with no question open is Settle.                       *)
LEMMA SeenSettle ==
    ASSUME TurnInv, TurnInv', \E s \in DOMAIN exec : Running(s), UNCHANGED draft,
           \A n \in DOMAIN pending' : ~Live(n)', \A s \in DOMAIN exec' : ~Running(s)'
    PROVE  Promise!Settle
<1>1. Phase' = "free" /\ Subject' = {} /\ ~Confirmed'
  BY SeesPhaseAfter DEF View
<1>2. Phase # "free"
  BY SeesPhase DEF View
<1>. QED
  BY <1>1, <1>2, Booleans DEF Promise!Settle, Promise!NoSubject, Confirmed

(* A turn that ends with a question is Ask.                                *)
LEMMA SeenAsk ==
    ASSUME TurnInv, TurnInv', UNCHANGED draft, UNCHANGED ledger,
           Phase \in {"working", "answering"}, NEW r \in 0..draft.revision,
           \E k \in DOMAIN pending' : pending'[k].status = "active" /\ pending'[k].revision = r,
           Confirmed => \E k \in DOMAIN pending' : pending'[k].status = "active" /\ Done(Confirm(k))
    PROVE  Promise!Ask
<1>1. PICK k \in DOMAIN pending' : pending'[k].status = "active" /\ pending'[k].revision = r
  OBVIOUS
<1>2. \A m \in DOMAIN pending' : pending'[m].status = "active" => Live(m)' /\ ~Done(Confirm(m))
  BY DEF TurnInv, LedgerOK, Live, Done
<1>3. Phase' = "asked" /\ Subject' = {r} /\ ~Confirmed'
  BY <1>1, <1>2, SeesPhaseAfter DEF View, Done
<1>4. ~Confirmed
  BY <1>2
<1>. QED
  BY <1>3, <1>4, Booleans DEF Promise!Ask, Confirmed

(* Finalize is a step of the conversation.                                 *)
LEMMA FinalizeSeen ==
    ASSUME TurnInv, TurnInv', NEW p \in Workers, Finalize(p)
    PROVE  Promise!Next
<1> DEFINE s == worker[p].seq
           n == worker[p].resumed
           asked == [status |-> "active", revision |-> worker[p].base,
                     head |-> worker[p].fence, resumeSeq |-> NoInput]
<1>1. PICK st \in ExecStatus \ {"running"} :
         FinalizeGraphTurn(p, st) \/ FinalizeResumeOutcome(p, st) \/ FinalizeInterrupt(p, st)
  BY DEF Finalize
<1>2. MayFinalize(p) /\ ~At(p, "idle")
  BY <1>1 DEF FinalizeGraphTurn, FinalizeResumeOutcome, FinalizeInterrupt, MayFinalize, At
<1>3. /\ Current(p) /\ s \in DOMAIN exec /\ Running(s) /\ WorkerOK(p)
      /\ worker[p].base \in 0..draft.revision
  BY <1>2, FencedCurrent, CallFacts DEF MayFinalize, Current, TurnInv, TypeOK
<1>4. PICK st2 \in ExecStatus \ {"running"} : Close(p, st2)
  BY <1>1 DEF FinalizeGraphTurn, FinalizeResumeOutcome, FinalizeInterrupt, ExecStatus
<1>5. \A t \in DOMAIN exec' : ~Running(t)'
  <2>1. /\ DOMAIN exec' = DOMAIN exec /\ exec'[s].status = st2
        /\ \A t \in DOMAIN exec \ {s} : exec'[t] = exec[t]
    BY <1>3, <1>4, ExecType DEF Close, Exec, TurnInv, TypeOK
  <2>. QED
    BY <1>3, <2>1 DEF Running, TurnInv, RowsOK
<1>6. UNCHANGED <<draft, ledger>>
  BY <1>4 DEF Close, effects
<1>7. CASE n = NoInput /\ pending' = pending
  <2>1. \A m \in DOMAIN pending' : ~Live(m)'
    BY <1>2, <1>3, <1>7, PendingType DEF WorkerOK, TurnInv, NoInput, Live
  <2>. QED
    BY <1>3, <1>5, <1>6, <2>1, SeenSettle DEF Promise!Next
<1>8. CASE n # NoInput /\ pending' = [pending EXCEPT ![n].status = "resolved"]
  <2>1. /\ n \in DOMAIN pending /\ Live(n)
        /\ \A m \in DOMAIN pending \ {n} : ~Live(m)
    BY <1>2, <1>3, <1>8 DEF WorkerOK
  <2>2. /\ DOMAIN pending' = DOMAIN pending /\ pending'[n].status = "resolved"
        /\ \A m \in DOMAIN pending \ {n} : pending'[m] = pending[m]
    BY <1>8, <2>1, PendingType DEF TurnInv, TypeOK, Pending
  <2>3. \A m \in DOMAIN pending' : ~Live(m)'
    BY <2>1, <2>2 DEF Live
  <2>. QED
    BY <1>3, <1>5, <1>6, <2>3, SeenSettle DEF Promise!Next
<1>9. CASE n = NoInput /\ pending' = Append(pending, asked)
  <2>1. \A m \in DOMAIN pending : ~Live(m)
    BY <1>2, <1>3, <1>9, PendingType DEF WorkerOK, TurnInv, NoInput
  <2>2. Phase = "working" /\ ~Confirmed
    BY <1>3, <2>1, SeesPhase DEF View
  <2>3. Len(pending) + 1 \in DOMAIN pending' /\ pending'[Len(pending) + 1] = asked
    BY <1>9 DEF TurnInv, TypeOK
  <2>. QED
    BY <1>3, <1>6, <2>2, <2>3, SeenAsk DEF Promise!Next
<1>10. CASE n # NoInput /\ pending' = [pending EXCEPT ![n] = asked]
  <2>1. n \in DOMAIN pending /\ Live(n) /\ pending[n].status = "resuming"
    BY <1>2, <1>3, <1>10 DEF WorkerOK, TurnInv, RowsOK
  <2>2. Phase = "answering" /\ (Confirmed <=> Done(Confirm(n)))
    BY <2>1, SeesPhase DEF View
  <2>3. n \in DOMAIN pending' /\ pending'[n] = asked
    BY <1>10, <2>1
  <2>. QED
    BY <1>3, <1>6, <2>2, <2>3, SeenAsk DEF Promise!Next
<1>. QED
  BY <1>1, <1>7, <1>8, <1>9, <1>10
     DEF FinalizeGraphTurn, FinalizeResumeOutcome, FinalizeInterrupt

(* BeginInput is a step of the conversation.                               *)
LEMMA BeginInputSeen ==
    ASSUME TurnInv, TurnInv', NEW p \in Workers, BeginInput(p)
    PROVE  Promise!Next
<1>1. Phase = "free" /\ Subject = {} /\ ~Confirmed
  BY SeesPhase DEF View, BeginInput
<1>2. \A n \in DOMAIN pending' : ~Live(n)'
  BY DEF BeginInput, Live
<1>3. \E s \in DOMAIN exec' : Running(s)'
  <2>1. Len(exec) + 1 \in DOMAIN exec' /\ exec'[Len(exec) + 1].status = "running"
    BY DEF BeginInput, TurnInv, TypeOK
  <2>. QED
    BY <2>1 DEF Running
<1>4. Phase' = "working" /\ Subject' = {} /\ ~Confirmed'
  BY <1>2, <1>3, SeesPhaseAfter DEF View
<1>. QED
  BY <1>1, <1>4 DEF BeginInput, effects, Promise!Next, Promise!Input, Confirmed

(* BeginResume is a step of the conversation.                              *)
LEMMA BeginResumeSeen ==
    ASSUME TurnInv, TurnInv', NEW p \in Workers, NEW n \in DOMAIN pending, NEW text \in Texts,
           BeginResume(p, n, text)
    PROVE  Promise!Next
<1>1. pending[n] \in Pending /\ pending[n].status = "active" /\ Live(n) /\ UNCHANGED <<draft, ledger>>
  BY PendingType DEF BeginResume, TurnInv, Live, effects
<1>2. /\ n \in DOMAIN pending' /\ pending'[n].status = "resuming"
      /\ pending'[n].revision = pending[n].revision
  BY <1>1 DEF BeginResume, TurnInv, TypeOK, Pending
<1>3. Phase = "asked" /\ Subject = {pending[n].revision} /\ (Confirmed <=> Done(Confirm(n)))
  BY <1>1, SeesPhase DEF View
<1>4. Live(n)'
  BY <1>2 DEF Live
<1>5. /\ Phase' = "answering" /\ Subject' = {pending[n].revision}
      /\ (Confirmed' <=> Done(Confirm(n))')
  BY <1>2, <1>4, SeesPhaseAfter DEF View
<1>6. Done(Confirm(n))' <=> Done(Confirm(n))
  BY <1>1 DEF Done
<1>. QED
  BY <1>1, <1>3, <1>5, <1>6 DEF Promise!Next, Promise!Answer, Confirmed

(* ApplyConfirmation is a step of the conversation.                        *)
LEMMA ApplyConfirmationSeen ==
    ASSUME TurnInv, TurnInv', NEW p \in Workers, ApplyConfirmation(p), ~UNCHANGED ledger
    PROVE  Promise!Next
<1>0. PICK n : n = worker[p].resumed
  OBVIOUS
<1>1. /\ Fenced(p) /\ ~Done(Confirm(n)) /\ draft.revision = worker[p].base
      /\ Record(Confirm(n), draft'.revision) /\ UNCHANGED rows
      /\ draft'.revision \in {draft.revision, draft.revision + 1}
  BY <1>0 DEF ApplyConfirmation
<1>2. /\ n \in DOMAIN pending /\ Live(n) /\ pending[n].status = "resuming"
      /\ draft.revision = pending[n].revision
  BY <1>0, <1>1, ConfirmsItsQuestion DEF ApplyConfirmation
<1>3. Phase = "answering" /\ Subject = {draft.revision} /\ ~Confirmed
  BY <1>1, <1>2, SeesPhase DEF View
<1>4. UNCHANGED pending /\ Done(Confirm(n))'
  BY <1>1 DEF rows, Record, Done
<1>5. Phase' = "answering" /\ Subject' = {draft.revision} /\ Confirmed'
  BY <1>2, <1>4, SeesPhaseAfter DEF View, Live
<1>. QED
  BY <1>1, <1>3, <1>5 DEF Promise!Next, Promise!Confirm, Confirmed

(* Every other step leaves who runs and what is open as it was, and adds   *)
(* one to the revision of the draft at most.                               *)
LEMMA OtherSteps ==
    ASSUME TurnInv, [Next]_vars, SameConfirmations,
           \A p \in Workers : ~BeginInput(p) /\ ~Finalize(p) /\ ~QuotaExhausted(p),
           \A p \in Workers, n \in DOMAIN pending, text \in Texts : ~BeginResume(p, n, text)
    PROVE  /\ DOMAIN exec' = DOMAIN exec /\ UNCHANGED pending
           /\ \A s \in DOMAIN exec : Running(s)' <=> Running(s)
           /\ draft'.revision \in {draft.revision, draft.revision + 1}
<1> DEFINE Alike == /\ DOMAIN exec' = DOMAIN exec /\ UNCHANGED pending
                    /\ \A s \in DOMAIN exec : Running(s)' <=> Running(s)
                    /\ draft'.revision \in {draft.revision, draft.revision + 1}
<1>1. ASSUME UNCHANGED rows, draft'.revision \in {draft.revision, draft.revision + 1} PROVE Alike
  BY <1>1 DEF rows, Running
<1>2. ASSUME NEW p \in Workers, NEW s \in DOMAIN exec, Takeover(p, s) PROVE Alike
  BY <1>2 DEF Takeover, Running, TurnInv, TypeOK, effects
<1>3. ASSUME NEW s \in DOMAIN exec, LeaseExpires(s) PROVE Alike
  BY <1>3 DEF LeaseExpires, Running, TurnInv, TypeOK, effects
<1>4. ASSUME NEW p \in Workers, DisconnectEarly(p) PROVE Alike
  BY <1>4 DEF DisconnectEarly, GiveUp, Running, TurnInv, TypeOK, effects
<1>5. ASSUME NEW p \in Workers, GraphStep(p) PROVE Alike
  <2>1. UNCHANGED rows
    BY <1>5 DEF GraphStep, StartGraph, HydrateInput, HydrateResume, CallModel, SkipModel,
                PersistDraft, ApplyConfirmation, StopGraph
  <2>2. draft'.revision \in {draft.revision, draft.revision + 1}
    BY <1>5 DEF GraphStep, StartGraph, HydrateInput, HydrateResume, CallModel, SkipModel,
                PersistDraft, ApplyConfirmation, StopGraph, effects
  <2>. QED
    BY <1>1, <2>1, <2>2
<1>. QED
  BY <1>1, <1>2, <1>3, <1>4, <1>5
     DEF Next, Reject, Crash, GiveUp, LoseLock, FormEdit, Logout, vars, rows, effects

(* A turn refused for its quota: a new input is done with, a question      *)
(* stays as it is.                                                         *)
LEMMA QuotaExhaustedSeen ==
    ASSUME TurnInv, TurnInv', NEW p \in Workers, QuotaExhausted(p)
    PROVE  [Promise!Next]_(Promise!conversation)
<1> DEFINE s == worker[p].seq
<1>1. s \in DOMAIN exec /\ exec[s] \in Exec /\ Running(s)
  BY CallFacts DEF QuotaExhausted, ModelPC, At, Fenced, Running
<1>2. /\ DOMAIN exec' = DOMAIN exec /\ exec'[s].status = "recoverable_error"
      /\ \A t \in DOMAIN exec \ {s} : exec'[t] = exec[t]
  BY <1>1 DEF QuotaExhausted, Exec, TurnInv, TypeOK
<1>3. UNCHANGED <<pending, draft, ledger>>
  BY DEF QuotaExhausted, effects
<1>4. CASE \A n \in DOMAIN pending : ~Live(n)
  <2>1. \A t \in DOMAIN exec' : ~Running(t)'
    BY <1>1, <1>2 DEF Running, TurnInv, RowsOK
  <2>2. \A n \in DOMAIN pending' : ~Live(n)'
    BY <1>3, <1>4 DEF Live
  <2>. QED
    BY <1>1, <1>3, <2>1, <2>2, SeenSettle DEF Promise!Next
<1>5. CASE \E n \in DOMAIN pending : Live(n)
  <2>1. Open # {} /\ Open' = Open
    BY <1>3, <1>5 DEF Open, Live
  <2>2. Phase' = Phase /\ Subject' = Subject /\ Confirmed' = Confirmed
    BY <1>3, <2>1 DEF Phase, Subject, Confirmed, Done
  <2>. QED
    BY <1>3, <2>2, SeenEdit DEF Seen
<1>. QED
  BY <1>4, <1>5

(* The conversation begins as promised.                                    *)
LEMMA ConversationBegins == Init => Promise!Init
<1>. SUFFICES ASSUME Init PROVE Promise!Init
  OBVIOUS
<1>1. TurnInv
  BY InitInv
<1>2. Phase = "free" /\ Subject = {} /\ ~Confirmed
  BY <1>1, SeesPhase DEF View, Init
<1>. QED
  BY <1>2, Booleans DEF Init, Promise!Init, Promise!NoSubject, Confirmed

(* Every step is one that Conversation promises, or none to the requester. *)
LEMMA ConversationGoesOn ==
    ASSUME TurnInv, TurnInv', [Next]_vars
    PROVE  [Promise!Next]_(Promise!conversation)
<1>1. ASSUME NEW p \in Workers, BeginInput(p) \/ Finalize(p) \/ QuotaExhausted(p)
      PROVE  [Promise!Next]_(Promise!conversation)
  BY <1>1, BeginInputSeen, FinalizeSeen, QuotaExhaustedSeen
<1>2. ASSUME NEW p \in Workers, NEW n \in DOMAIN pending, NEW text \in Texts,
             BeginResume(p, n, text)
      PROVE  [Promise!Next]_(Promise!conversation)
  BY <1>2, BeginResumeSeen
<1>3. CASE ~SameConfirmations
  BY <1>3, ConfirmingSteps, ApplyConfirmationSeen
<1>4. CASE /\ SameConfirmations
           /\ \A p \in Workers : ~BeginInput(p) /\ ~Finalize(p) /\ ~QuotaExhausted(p)
           /\ \A p \in Workers, n \in DOMAIN pending, text \in Texts :
                 ~BeginResume(p, n, text)
  BY <1>4, OtherSteps, SeesNothing, SeenEdit
<1>. QED
  BY <1>1, <1>2, <1>3, <1>4

(* The services implement the conversation that Conversation promises:     *)
(* whatever crashes, is taken over, replayed or answered late.             *)
THEOREM ImplementsConversationHolds == Spec => ImplementsConversation
<1>1. TurnInv /\ TurnInv' /\ [Next]_vars => [Promise!Next]_(Promise!conversation)
  BY ConversationGoesOn
<1>. QED
  BY <1>1, ConversationBegins, Invariance, PTL DEF Spec, ImplementsConversation, Promise!Spec
===============================================================================
