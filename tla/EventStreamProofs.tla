--------------------------- MODULE EventStreamProofs ---------------------------
(***************************************************************************)
(* Safety of the legacy turns' event log and of the stream that shows it,  *)
(* for any number of turns, events, disconnects and broken connections.    *)
(***************************************************************************)
EXTENDS EventStream, FiniteSetTheorems, WellFoundedInduction, TLAPS

(* Ids are taken once, and there is a largest one.                         *)
IdsOK ==
    /\ open \cap Logged = {}
    /\ LastId \in Nat /\ \A e \in Inserted : e.id \in 1..LastId
    /\ \A e, f \in open : e.turn = f.turn => e = f

(* An event that has not committed yet tells where its turn is.            *)
Placed(e) ==
    /\ e.type = "started" => At(e.turn, "starting")
    /\ e.type \in Terminals =>
          At(e.turn, "closing") \/ (At(e.turn, "apologising") /\ e.turn \notin streamed)

OneEach ==
    \A e, f \in Inserted :
        e.turn = f.turn /\ e.type \in Terminals /\ f.type \in Terminals => e = f

(* A turn has no terminal before it closes, the next question only after   *)
(* its answer, and a turn that starts over SSE is alone.                   *)
Early == {"idle", "starting", "ready", "working", "prepared", "failed", "answered"}
TurnOK(t) ==
    /\ At(t, "idle") => t \notin streamed /\ t # asked
    /\ pc[t] \in Early => \A e \in Inserted : e.turn = t => e.type = "started"
    /\ At(t, "finalizing") => Of(t, {"completed"}) # {}
    /\ At(t, "starting") /\ t \in streamed =>
          row = t /\ \A u \in streamed : ~InProgress(u)

OneStream == \A t, u \in streamed : InProgress(t) /\ InProgress(u) => t = u

LogInv ==
    /\ TurnsTypeOK /\ IdsOK /\ OneEach /\ OneStream /\ CursorAfterAnswer
    /\ \A e \in open : Placed(e)
    /\ \A t \in Turns : TurnOK(t)

(* The generator stands where the page does.  What it has listed committed *)
(* before anything beyond its cursor that it has not.                      *)
ListedFirst ==
    \A m, n \in DOMAIN log :
        log[m] \in batch /\ log[n].id > cursor /\ log[n] \notin batch => m < n

PageInv ==
    /\ StreamTypeOK /\ seen \in Seq(Nat)
    /\ ShownInOrder /\ ListedFirst /\ OnlyOvertakenAreMissed
    /\ stream # "closed" => cursor = LastSeen
    /\ stream = "closed" => batch = {} /\ cursor = 0
    /\ late <= 1
    /\ session \/ stream = "checked" => late = 0

Inv == LogInv /\ PageInv

-----------------------------------------------------------------------------
(* A non-empty set of numbers that has a bound has a largest element: its  *)
(* smallest bound.                                                         *)
LEMMA LastOf ==
    ASSUME NEW N \in Nat, NEW S \in SUBSET (1..N), S # {}
    PROVE  \E t \in S : \A u \in S : u <= t
<1> DEFINE below == {bs \in Nat \X Nat : bs[1] < bs[2]}
           bounds == {b \in Nat : \A u \in S : u <= b}
<1>1. PICK b \in bounds : \A c \in bounds : <<c, b>> \notin below
  <2>1. IsWellFoundedOn(below, Nat)
    BY NatLessThanWellFounded DEF OpToRel
  <2>2. bounds \subseteq Nat /\ N \in bounds
    OBVIOUS
  <2> HIDE DEF bounds, below
  <2>. QED
    BY <2>1, <2>2, WFMin
<1>2. b \in S
  <2>1. CASE b \notin S
    <3>1. PICK u \in S : u \in 1..N /\ u <= b
      OBVIOUS
    <3>2. b \in Nat /\ b - 1 \in Nat /\ <<b - 1, b>> \in below
      BY <3>1
    <3>3. \A x \in S : x <= b - 1
      <4>1. \A x \in S : x \in Nat /\ x <= b /\ x # b
        BY <2>1
      <4>. QED
        BY <3>2, <4>1
    <3>. QED
      BY <1>1, <3>2, <3>3
  <2>. QED
    BY <2>1
<1>. QED
  BY <1>1, <1>2

(* Ids that are all in 1..N have a largest one; 0 stands for none.         *)
LEMMA LargestId ==
    ASSUME NEW S, NEW N \in Nat, \A e \in S : e.id \in 1..N
    PROVE  \E n \in {0} \cup {e.id : e \in S} : \A e \in S : e.id <= n
<1> DEFINE ids == {e.id : e \in S}
<1>1. CASE S = {}
  BY <1>1
<1>2. CASE S # {}
  <2>1. ids \in SUBSET (1..N) /\ ids # {}
    BY <1>2
  <2>2. PICK n \in ids : \A k \in ids : k <= n
    <3> HIDE DEF ids
    <3>. QED
      BY <2>1, LastOf
  <2>. QED
    BY <2>2
<1>. QED
  BY <1>1, <1>2

(* That largest id is a bound as good as N.                                *)
LEMMA AboveAll ==
    ASSUME NEW S, NEW N \in Nat, \A e \in S : e.id \in 1..N,
           NEW last \in {0} \cup {e.id : e \in S}, \A e \in S : e.id <= last
    PROVE  last \in Nat /\ \A e \in S : e.id \in 1..last
<1>1. last = 0 \/ \E e \in S : last = e.id
  OBVIOUS
<1>2. last \in Nat
  BY <1>1
<1>3. ASSUME NEW e \in S PROVE e.id \in 1..last
  <2>1. e.id \in 1..N /\ e.id <= last
    BY <1>3
  <2>. QED
    BY <2>1, <1>2
<1>. QED
  BY <1>2, <1>3

(* The ids stay below a bound, so they have a largest one.                 *)
LEMMA IdsBounded ==
    ASSUME NEW N \in Nat, \A e \in Inserted' : e.id \in 1..N
    PROVE  LastId' \in Nat /\ \A e \in Inserted' : e.id \in 1..LastId'
<1>1. PICK S, last : S = Inserted' /\ last = LastId'
  OBVIOUS
<1>2. last = CHOOSE n \in {0} \cup {e.id : e \in S} : \A e \in S : e.id <= n
  BY <1>1 DEF LastId
<1>3. last \in {0} \cup {e.id : e \in S} /\ \A e \in S : e.id <= last
  BY <1>1, <1>2, LargestId
<1>. QED
  BY <1>1, <1>3, AboveAll

(* Who has written, but not committed, is in one of three places.          *)
LEMMA Silent ==
    ASSUME LogInv, NEW t \in Turns, ~At(t, "starting"), ~At(t, "closing"),
           ~At(t, "apologising")
    PROVE  ~Writes(t)
<1>1. \A e \in open : e.type = "started" \/ e.type \in Terminals
  BY DEF LogInv, TurnsTypeOK, Event
<1>. QED
  BY <1>1 DEF LogInv, Placed, Writes

(* What is inserted or written is an event.                                *)
LEMMA EventTypes ==
    ASSUME LogInv
    PROVE  \A e \in Inserted : e \in Event
BY DEF LogInv, TurnsTypeOK, Inserted, Logged

(* A new event gets a new id.                                              *)
LEMMA InsertIds ==
    ASSUME LogInv, NEW t \in Turns, NEW type \in Terminals \cup {"started"}, Insert(t, type),
           ~Writes(t)
    PROVE  \E e \in Event :
              /\ e.turn = t /\ e.type = type /\ e \notin Inserted
              /\ open' = open \cup {e} /\ UNCHANGED log /\ Logged' = Logged
              /\ Inserted' = Inserted \cup {e}
              /\ IdsOK' /\ \A f, g \in Inserted' : f.id = g.id => f = g
<1>1. PICK e : e = [id |-> LastId + 1, turn |-> t, type |-> type]
  OBVIOUS
<1>2. LastId \in Nat /\ \A f \in Inserted : f.id \in 1..LastId
  BY DEF LogInv, IdsOK
<1>3. e \in Event /\ e.id = LastId + 1 /\ e.turn = t /\ e.type = type
  BY <1>1, <1>2 DEF Event
<1>4. \A f \in Inserted : f.id # e.id
  BY <1>2, <1>3
<1>5. open' = open \cup {e} /\ UNCHANGED log /\ Logged' = Logged
  BY <1>1 DEF Insert, Logged
<1>6. Inserted' = Inserted \cup {e} /\ e \notin Inserted
  BY <1>4, <1>5 DEF Inserted
<1>7. \A f, g \in Inserted' : f.id = g.id => f = g
  BY <1>4, <1>6 DEF LogInv, TurnsTypeOK
<1>8. LastId + 1 \in Nat /\ \A f \in Inserted' : f.id \in 1..(LastId + 1)
  BY <1>2, <1>3, <1>6
<1>9. LastId' \in Nat /\ \A f \in Inserted' : f.id \in 1..LastId'
  BY <1>8, IdsBounded
<1>10. open' \cap Logged' = {}
  BY <1>5, <1>6 DEF LogInv, IdsOK, Inserted
<1>11. \A f, g \in open' : f.turn = g.turn => f = g
  BY <1>3, <1>5 DEF LogInv, IdsOK, Writes
<1>12. IdsOK'
  BY <1>9, <1>10, <1>11 DEF IdsOK
<1>. QED
  BY <1>3, <1>5, <1>6, <1>7, <1>12

-----------------------------------------------------------------------------
(* A turn moves on without an event.                                       *)
MovesOn(t) ==
    /\ \A u \in Turns \ {t} : pc'[u] = pc[u]
    /\ \/ pc'[t] = pc[t]
       \/ /\ ~Writes(t) /\ pc'[t] \notin {"idle", "starting", "finalizing"}
          /\ pc'[t] \in Early => pc[t] \in Early
AsksRightly(t) ==
    \/ asked' \in {asked, NoTurn}
    \/ asked' = t /\ ~At(t, "idle")' /\ (t \in streamed => Of(t, {"completed"}) # {})

(* A turn that moves on without an event keeps the log's invariant.        *)
LEMMA QuietLog ==
    ASSUME LogInv, NEW t \in Turns, TurnsTypeOK', UNCHANGED <<log, open, row, streamed>>,
           lapsed \subseteq lapsed', MovesOn(t), AsksRightly(t)
    PROVE  LogInv'
<1>1. Logged' = Logged /\ Inserted' = Inserted /\ LastId' = LastId
  BY DEF Logged, Inserted, LastId
<1>2. IdsOK' /\ OneEach'
  BY <1>1 DEF LogInv, IdsOK, OneEach
<1>3. \A u : InProgress(u)' => InProgress(u)
  BY <1>1 DEF InProgress, Started, Terminated, Of
<1>4. OneStream'
  BY <1>3 DEF LogInv, OneStream
<1>5. \A u, types : Of(u, types)' = Of(u, types)
  BY <1>1 DEF Of
<1>6. CursorAfterAnswer'
  BY <1>5 DEF LogInv, CursorAfterAnswer, AsksRightly, TurnsTypeOK, NoTurn, Turns
<1>7. \A e \in open : e \in Event /\ e.turn \in Turns
  BY DEF LogInv, TurnsTypeOK, Event
<1>8. ASSUME NEW e \in open PROVE Placed(e)'
  <2>1. Placed(e) /\ e.turn \in Turns
    BY <1>7 DEF LogInv
  <2>2. pc'[e.turn] = pc[e.turn]
    BY <2>1 DEF MovesOn, Writes
  <2>. QED
    BY <2>1, <2>2 DEF Placed, At
<1>9. ASSUME NEW u \in Turns PROVE TurnOK(u)'
  <2>1. TurnOK(u)
    BY DEF LogInv
  <2>2. At(u, "idle")' => u \notin streamed' /\ u # asked'
    BY <2>1, TurnCountAssumption DEF TurnOK, MovesOn, AsksRightly, At, NoTurn, Turns
  <2>3. pc'[u] \in Early => \A e \in Inserted' : e.turn = u => e.type = "started"
    BY <1>1, <2>1 DEF TurnOK, MovesOn
  <2>4. At(u, "finalizing")' => Of(u, {"completed"})' # {}
    BY <1>5, <2>1 DEF TurnOK, MovesOn, At
  <2>5. At(u, "starting")' /\ u \in streamed' =>
           row' = u /\ \A v \in streamed' : ~InProgress(v)'
    BY <1>3, <2>1 DEF TurnOK, MovesOn, At
  <2>. QED
    BY <2>2, <2>3, <2>4, <2>5 DEF TurnOK
<1>. QED
  BY <1>2, <1>4, <1>6, <1>8, <1>9 DEF LogInv

(* A terminal is inserted for a turn that has none.                        *)
LEMMA TerminalLog ==
    ASSUME LogInv, NEW t \in Turns, NEW type \in Terminals, Insert(t, type), ~Writes(t),
           TurnsTypeOK', UNCHANGED <<lapsed, asked, streamed>>,
           \A e \in Inserted : e.turn = t => e.type \notin Terminals,
           row' = row \/ row = NoTurn,
           pc[t] \notin {"starting", "idle"},
           \A u \in Turns \ {t} : pc'[u] = pc[u],
           At(t, "closing")' \/ (At(t, "apologising")' /\ t \notin streamed)
    PROVE  LogInv'
<1>1. PICK e \in Event :
         /\ e.turn = t /\ e.type = type /\ e \notin Inserted
         /\ open' = open \cup {e} /\ UNCHANGED log /\ Logged' = Logged
         /\ Inserted' = Inserted \cup {e} /\ IdsOK'
  BY InsertIds
<1>2. OneEach'
  BY <1>1 DEF LogInv, OneEach
<1>3. \A u, types : Of(u, types)' = Of(u, types)
  BY <1>1 DEF Of
<1>4. \A u : InProgress(u)' <=> InProgress(u)
  BY <1>3 DEF InProgress, Started, Terminated
<1>5. OneStream' /\ CursorAfterAnswer'
  BY <1>3, <1>4 DEF LogInv, OneStream, CursorAfterAnswer
<1>6. \A f \in open : f.turn \in Turns /\ f.turn # t /\ Placed(f)
  BY DEF LogInv, TurnsTypeOK, Event, Writes
<1>7. \A f \in open' : Placed(f)'
  <2>1. Placed(e)'
    BY <1>1 DEF Placed, Terminals
  <2>2. \A f \in open : Placed(f)'
    BY <1>6 DEF Placed, At
  <2>. QED
    BY <1>1, <2>1, <2>2
<1>8. TurnOK(t)'
  BY DEF TurnOK, At, Early
<1>9. ASSUME NEW u \in Turns, u # t PROVE TurnOK(u)'
  <2>1. TurnOK(u) /\ pc'[u] = pc[u]
    BY <1>9 DEF LogInv
  <2>2. At(u, "starting") /\ u \in streamed => row' = u
    BY <2>1, TurnCountAssumption DEF TurnOK, NoTurn, Turns
  <2>. QED
    BY <1>1, <1>3, <1>4, <1>9, <2>1, <2>2 DEF TurnOK, At
<1>. QED
  BY <1>1, <1>2, <1>5, <1>7, <1>8, <1>9 DEF LogInv

(* A turn begins.  Over SSE it is alone.                                   *)
LEMMA BeginLog ==
    ASSUME LogInv, NEW t \in Turns, Insert(t, "started"), At(t, "idle"), TurnsTypeOK',
           UNCHANGED <<lapsed, asked>>, pc' = [pc EXCEPT ![t] = "starting"],
           \/ UNCHANGED <<row, streamed>>
           \/ row = NoTurn /\ row' = t /\ streamed' = streamed \cup {t}
              /\ \A u \in Turns : ~InProgress(u)
    PROVE  LogInv'
<1>1. ~Writes(t) /\ TurnOK(t) /\ "started" \in Terminals \cup {"started"}
  BY Silent DEF At, LogInv
<1>2. PICK e \in Event :
         /\ e.turn = t /\ e.type = "started" /\ e \notin Inserted
         /\ open' = open \cup {e} /\ UNCHANGED log /\ Logged' = Logged
         /\ Inserted' = Inserted \cup {e} /\ IdsOK'
  BY <1>1, InsertIds
<1>3. "started" \notin Terminals
  BY DEF Terminals
<1>4. OneEach'
  BY <1>2, <1>3 DEF LogInv, OneEach
<1>5. \A u, types : Of(u, types)' = Of(u, types)
  BY <1>2 DEF Of
<1>6. \A u : InProgress(u)' <=> InProgress(u)
  BY <1>5 DEF InProgress, Started, Terminated
<1>7. OneStream'
  BY <1>6 DEF LogInv, OneStream, TurnsTypeOK
<1>8. CursorAfterAnswer'
  BY <1>1, <1>5 DEF LogInv, CursorAfterAnswer, TurnOK
<1>9. pc'[t] = "starting" /\ \A u \in Turns \ {t} : pc'[u] = pc[u]
  BY DEF LogInv, TurnsTypeOK
<1>10. \A f \in open' : Placed(f)'
  <2>1. Placed(e)'
    BY <1>2, <1>3, <1>9 DEF Placed, At
  <2>2. \A f \in open : f.turn \in Turns /\ f.turn # t /\ Placed(f)
    BY <1>1 DEF LogInv, TurnsTypeOK, Event, Writes
  <2>3. \A f \in open : Placed(f)'
    BY <2>2, <1>9 DEF Placed, At
  <2>. QED
    BY <1>2, <2>1, <2>3
<1>11. TurnOK(t)'
  <2>1. \A f \in Inserted' : f.turn = t => f.type = "started"
    BY <1>1, <1>2 DEF TurnOK, At, Early
  <2>2. t \in streamed' => row' = t /\ \A u \in streamed' : ~InProgress(u)'
    BY <1>1, <1>6 DEF TurnOK, LogInv, TurnsTypeOK
  <2>. QED
    BY <1>9, <2>1, <2>2 DEF TurnOK, At
<1>12. ASSUME NEW u \in Turns, u # t PROVE TurnOK(u)'
  <2>1. TurnOK(u) /\ pc'[u] = pc[u]
    BY <1>9, <1>12 DEF LogInv
  <2>2. At(u, "starting") /\ u \in streamed =>
           row' = u /\ \A v \in streamed' : ~InProgress(v)
    <3>1. At(u, "starting") /\ u \in streamed => row = u /\ \A v \in streamed : ~InProgress(v)
      BY <2>1 DEF TurnOK
    <3>2. row = u => row # NoTurn
      BY TurnCountAssumption DEF NoTurn, Turns
    <3>. QED
      BY <3>1, <3>2
  <2>. QED
    BY <1>2, <1>5, <1>6, <1>12, <2>1, <2>2 DEF TurnOK, At
<1>. QED
  BY <1>2, <1>4, <1>7, <1>8, <1>10, <1>11, <1>12 DEF LogInv

(* Committing an event keeps the log's invariant.                          *)
LEMMA CommitLog ==
    ASSUME LogInv, NEW t \in Turns, Commit(t)
    PROVE  LogInv'
<1>1. PICK e \in open :
         /\ e.turn = t /\ open' = open \ {e} /\ log' = Append(log, e)
         /\ row' = IF row = t THEN NoTurn ELSE row
         /\ Goto(t, After(t, e.type)) /\ UNCHANGED <<lapsed, asked, streamed, cut>>
  BY DEF Commit
<1>2. e \in Event /\ Placed(e) /\ (e.type = "started" \/ e.type \in Terminals)
  BY <1>1 DEF LogInv, TurnsTypeOK, Event
<1>3. log \in Seq(Event) /\ log' \in Seq(Event)
  BY <1>1, <1>2 DEF LogInv, TurnsTypeOK
<1>4. Logged' = Logged \cup {e} /\ Inserted' = Inserted /\ LastId' = LastId
  <2>1. Logged' = Logged \cup {e}
    <3>1. \A i \in DOMAIN log : i \in DOMAIN log' /\ log'[i] = log[i]
      BY <1>1, <1>3
    <3>2. Len(log) + 1 \in DOMAIN log' /\ log'[Len(log) + 1] = e
      BY <1>1, <1>3
    <3>3. \A i \in DOMAIN log' : i \in DOMAIN log \/ i = Len(log) + 1
      BY <1>1, <1>3
    <3>. QED
      BY <3>1, <3>2, <3>3 DEF Logged
  <2>2. Inserted' = Inserted
    BY <1>1, <2>1 DEF Inserted
  <2>. QED
    BY <2>1, <2>2 DEF LastId
<1>5. IdsOK' /\ OneEach'
  BY <1>1, <1>4 DEF LogInv, IdsOK, OneEach
<1>6. pc' = [pc EXCEPT ![t] = After(t, e.type)] /\ pc'[t] = After(t, e.type)
      /\ \A u \in Turns \ {t} : pc'[u] = pc[u]
  BY <1>1 DEF Goto, LogInv, TurnsTypeOK
<1>7. \/ /\ e.type = "started" /\ At(t, "starting") /\ pc'[t] \in {"ready", "working"}
      \/ /\ e.type \in Terminals /\ At(t, "closing") /\ pc'[t] \in {"finalizing", "done", "over"}
         /\ pc'[t] = "finalizing" => e.type = "completed"
      \/ /\ e.type \in Terminals /\ pc'[t] = "apologising"
  BY <1>1, <1>2, <1>6 DEF Placed, After, At, Terminals
<1>8. TurnsTypeOK'
  <2>1. pc' \in [Turns -> PC]
    BY <1>6, <1>7 DEF LogInv, TurnsTypeOK, PC
  <2>. QED
    BY <1>1, <1>3, <1>4, <2>1 DEF LogInv, TurnsTypeOK
<1>9. \A u \in Turns \ {t} : \A types : Of(u, types)' = Of(u, types)
  BY <1>1, <1>4 DEF Of
<1>10. \A types : Of(t, types) \subseteq Of(t, types)'
  BY <1>4 DEF Of
<1>11. \A u \in Turns \ {t} : InProgress(u)' <=> InProgress(u)
  BY <1>1, <1>9 DEF InProgress, Started, Terminated
<1>12. InProgress(t)' => InProgress(t) \/ e.type = "started"
  BY <1>1, <1>4, <1>10 DEF InProgress, Started, Terminated, Of
<1>13. streamed \subseteq Turns /\ streamed' = streamed /\ TurnOK(t)
  BY <1>1 DEF LogInv, TurnsTypeOK
<1>14. InProgress(t)' /\ t \in streamed => \A u \in streamed \ {t} : ~InProgress(u)'
  <2>1. CASE InProgress(t)
    BY <1>11, <1>13, <2>1 DEF LogInv, OneStream
  <2>2. CASE e.type = "started"
    BY <1>7, <1>11, <1>13, <2>2 DEF TurnOK, Terminals
  <2>. QED
    BY <1>12, <2>1, <2>2
<1>15. OneStream'
  BY <1>11, <1>13, <1>14 DEF LogInv, OneStream
<1>16. CursorAfterAnswer'
  BY <1>1, <1>9, <1>10, <1>13 DEF LogInv, CursorAfterAnswer
<1>17. \A f \in open' : Placed(f)'
  <2>1. \A f \in open' : f.turn \in Turns \ {t} /\ Placed(f)
    BY <1>1 DEF LogInv, IdsOK, TurnsTypeOK, Event
  <2>. QED
    BY <1>6, <1>13, <2>1 DEF Placed, At
<1>18. TurnOK(t)'
  <2>1. pc'[t] = "finalizing" => Of(t, {"completed"})' # {}
    <3>1. pc'[t] = "finalizing" => e \in Of(t, {"completed"})'
      BY <1>1, <1>4, <1>7 DEF Of
    <3>. QED
      BY <3>1
  <2>2. pc'[t] \in Early => \A f \in Inserted' : f.turn = t => f.type = "started"
    BY <1>4, <1>7, <1>13 DEF TurnOK, At, Early
  <2>3. pc'[t] \notin {"idle", "starting"}
    BY <1>7
  <2>. QED
    BY <2>1, <2>2, <2>3 DEF TurnOK, At
<1>19. ASSUME NEW u \in Turns \ {t} PROVE TurnOK(u)'
  <2>1. TurnOK(u) /\ pc'[u] = pc[u]
    BY <1>6 DEF LogInv
  <2>2. At(u, "starting") /\ u \in streamed => row' = u /\ \A v \in streamed : ~InProgress(v)'
    <3>1. At(u, "starting") /\ u \in streamed => row = u /\ \A v \in streamed : ~InProgress(v)
      BY <2>1 DEF TurnOK
    <3>2. At(u, "starting") /\ u \in streamed /\ t \in streamed => ~(e.type = "started")
      BY <1>7, <1>13, <3>1 DEF TurnOK, Terminals
    <3>3. At(u, "starting") /\ u \in streamed => \A v \in streamed : ~InProgress(v)'
      BY <1>11, <1>12, <1>13, <3>1, <3>2
    <3>. QED
      BY <1>1, <3>1, <3>3
  <2>. QED
    BY <1>1, <1>4, <1>9, <2>1, <2>2 DEF TurnOK, At
<1>. QED
  BY <1>5, <1>8, <1>15, <1>16, <1>17, <1>18, <1>19 DEF LogInv

(* Losing a process with its open transaction keeps it.                    *)
LEMMA VanishLog ==
    ASSUME LogInv, NEW t \in Turns, Vanish(t)
    PROVE  LogInv'
<1>1. /\ open' = {e \in open : e.turn # t} /\ UNCHANGED <<log, lapsed, asked, streamed, cut>>
      /\ row' = IF row = t THEN NoTurn ELSE row
      /\ pc' = [pc EXCEPT ![t] = "over"]
  BY DEF Vanish, Goto
<1>2. pc'[t] = "over" /\ \A u \in Turns \ {t} : pc'[u] = pc[u]
  BY <1>1 DEF LogInv, TurnsTypeOK
<1>3. Logged' = Logged /\ Inserted' \subseteq Inserted
  BY <1>1 DEF Logged, Inserted
<1>4. LastId \in Nat /\ \A e \in Inserted' : e.id \in 1..LastId
  BY <1>3 DEF LogInv, IdsOK
<1>5. IdsOK'
  BY <1>1, <1>3, <1>4, IdsBounded DEF LogInv, IdsOK
<1>6. OneEach'
  BY <1>3 DEF LogInv, OneEach
<1>7. TurnsTypeOK'
  BY <1>1, <1>3 DEF LogInv, TurnsTypeOK, PC
<1>8. \A u, types : Of(u, types)' = Of(u, types)
  BY <1>3 DEF Of
<1>9. \A u : InProgress(u)' <=> InProgress(u)
  BY <1>1, <1>8 DEF InProgress, Started, Terminated
<1>10. OneStream' /\ CursorAfterAnswer'
  BY <1>1, <1>8, <1>9 DEF LogInv, OneStream, CursorAfterAnswer
<1>11. \A f \in open' : Placed(f)'
  <2>1. \A f \in open' : f.turn \in Turns \ {t} /\ Placed(f)
    BY <1>1 DEF LogInv, TurnsTypeOK, Event
  <2>. QED
    BY <1>1, <1>2, <2>1 DEF Placed, At
<1>12. TurnOK(t)'
  BY <1>2 DEF TurnOK, At, Early
<1>13. ASSUME NEW u \in Turns \ {t} PROVE TurnOK(u)'
  <2>1. TurnOK(u) /\ pc'[u] = pc[u]
    BY <1>2 DEF LogInv
  <2>. QED
    BY <1>1, <1>3, <1>8, <1>9, <2>1 DEF TurnOK, At
<1>. QED
  BY <1>5, <1>6, <1>7, <1>10, <1>11, <1>12, <1>13 DEF LogInv

-----------------------------------------------------------------------------
(* The actions, one by one.                                                *)
LEMMA InsertType ==
    ASSUME LogInv, NEW t \in Turns, NEW type \in Terminals \cup {"started"}, Insert(t, type),
           ~Writes(t), NEW label \in PC, Goto(t, label), row' \in {row, t},
           UNCHANGED <<lapsed, asked, cut>>, streamed' \in {streamed, streamed \cup {t}}
    PROVE  TurnsTypeOK'
<1>1. \E e \in Event :
         /\ open' = open \cup {e} /\ UNCHANGED log
         /\ \A f, g \in Inserted' : f.id = g.id => f = g
  BY InsertIds
<1>. QED
  BY <1>1 DEF LogInv, TurnsTypeOK, Goto

(* Types, for a step without an event.                                     *)
LEMMA QuietType ==
    ASSUME LogInv, NEW t \in Turns, UNCHANGED events, UNCHANGED streamed, NEW label \in PC,
           Goto(t, label) \/ UNCHANGED pc, lapsed' \subseteq Turns,
           asked' \in Turns \cup {NoTurn}, cut' \subseteq streamed
    PROVE  TurnsTypeOK'
<1>1. Inserted' = Inserted
  BY DEF events, Inserted, Logged
<1>. QED
  BY <1>1 DEF LogInv, TurnsTypeOK, events, Goto

(* A turn that begins keeps the log's invariant.                           *)
LEMMA BeginSteps ==
    ASSUME LogInv, NEW t \in Turns, BeginSse(t) \/ BeginJson(t)
    PROVE  LogInv'
<1>1. ~Writes(t) /\ At(t, "idle") /\ "starting" \in PC /\ "started" \in Terminals \cup {"started"}
  BY Silent DEF BeginSse, BeginJson, IsNext, At, PC
<1>2. TurnsTypeOK'
  BY <1>1, InsertType DEF BeginSse, BeginJson
<1>. QED
  BY <1>1, <1>2, BeginLog DEF BeginSse, BeginJson, Goto

(* The apology of a failed turn keeps it.                                  *)
LEMMA ApologiseStep ==
    ASSUME LogInv, NEW t \in Turns, Apologise(t)
    PROVE  LogInv'
<1>1. /\ At(t, "working") /\ ~Writes(t) /\ t \notin streamed /\ Insert(t, "error")
      /\ Goto(t, "apologising") /\ UNCHANGED <<row, lapsed, asked, streamed, cut>>
  BY DEF Apologise
<1>2. "error" \in Terminals /\ "error" \in Terminals \cup {"started"} /\ "apologising" \in PC
  BY DEF Terminals, PC
<1>3. TurnsTypeOK'
  BY <1>1, <1>2, InsertType
<1>4. \A e \in Inserted : e.turn = t => e.type \notin Terminals
  BY <1>1 DEF LogInv, TurnOK, At, Early, Terminals
<1>5. pc'[t] = "apologising" /\ \A u \in Turns \ {t} : pc'[u] = pc[u]
  BY <1>1 DEF Goto, LogInv, TurnsTypeOK
<1>. QED
  BY <1>1, <1>2, <1>3, <1>4, <1>5, TerminalLog DEF At

(* Appending a terminal where there is none keeps it.                      *)
LEMMA AppendTerminalStep ==
    ASSUME LogInv, NEW t \in Turns, NEW type \in Terminals, AppendTerminal(t, type),
           UNCHANGED <<lapsed, asked, streamed, cut>>, ~Writes(t),
           pc[t] \in {"ready", "prepared", "failed", "answered", "apologising", "done"}
    PROVE  LogInv'
<1>1. CASE Terminated(t)
  <2>1. UNCHANGED events /\ Goto(t, "over") /\ "over" \in PC
    BY <1>1 DEF AppendTerminal, PC
  <2>2. TurnsTypeOK'
    <3>1. lapsed \subseteq Turns /\ asked \in Turns \cup {NoTurn} /\ cut \subseteq streamed
      BY DEF LogInv, TurnsTypeOK
    <3>. QED
      BY <2>1, <3>1, QuietType
  <2>3. MovesOn(t) /\ AsksRightly(t)
    BY <2>1 DEF MovesOn, AsksRightly, Goto, Early, LogInv, TurnsTypeOK
  <2>. QED
    BY <2>1, <2>2, <2>3, QuietLog DEF events
<1>2. CASE ~Terminated(t)
  <2>1. row = NoTurn /\ Insert(t, type) /\ row' = t /\ Goto(t, "closing") /\ "closing" \in PC
    BY <1>2 DEF AppendTerminal, PC
  <2>2. TurnsTypeOK'
    BY <2>1, InsertType
  <2>3. \A e \in Inserted : e.turn = t => e.type \notin Terminals
    BY <1>2 DEF Inserted, Terminated, Of, Writes
  <2>4. pc'[t] = "closing" /\ \A u \in Turns \ {t} : pc'[u] = pc[u]
    BY <2>1 DEF Goto, LogInv, TurnsTypeOK
  <2>. QED
    BY <2>1, <2>2, <2>3, <2>4, TerminalLog DEF At
<1>. QED
  BY <1>1, <1>2

(* Every handler that appends a terminal keeps it.                         *)
LEMMA TerminalSteps ==
    ASSUME LogInv, NEW t \in Turns,
           \/ CloseSse(t) \/ Cleanup(t) \/ CloseJson(t)
           \/ Disconnect(t) /\ pc[t] \in {"ready", "done"}
    PROVE  LogInv'
<1>1. \E type \in Terminals : AppendTerminal(t, type)
  BY DEF CloseSse, Cleanup, CloseJson, Disconnect, At, Terminals
<1>2. UNCHANGED <<lapsed, asked, streamed, cut>>
  BY DEF CloseSse, Cleanup, CloseJson, Disconnect, At
<1>3. pc[t] \in {"ready", "prepared", "failed", "answered", "apologising", "done"}
  BY DEF CloseSse, Cleanup, CloseJson, At
<1>4. ~Writes(t)
  <2>1. CASE At(t, "apologising")
    BY <2>1 DEF CloseSse, Cleanup, CloseJson, At
  <2>2. CASE ~At(t, "apologising")
    BY <1>3, <2>2, Silent DEF At
  <2>. QED
    BY <2>1, <2>2
<1>. QED
  BY <1>1, <1>2, <1>3, <1>4, AppendTerminalStep

(* Starting and ending the agent keeps it.                                 *)
LEMMA WorkerSteps ==
    ASSUME LogInv, NEW t \in Turns, StartWorker(t) \/ WorkerEnds(t)
    PROVE  LogInv'
<1>1. UNCHANGED <<events, lapsed, asked, streamed, cut>>
  BY DEF StartWorker, WorkerEnds
<1>2. PICK label \in {"working", "prepared", "failed"} : Goto(t, label)
  BY DEF StartWorker, WorkerEnds
<1>3. pc[t] \in {"ready", "working"}
  BY DEF StartWorker, WorkerEnds, At
<1>4. TurnsTypeOK'
  <2>1. lapsed \subseteq Turns /\ asked \in Turns \cup {NoTurn} /\ cut \subseteq streamed
        /\ label \in PC
    BY DEF LogInv, TurnsTypeOK, PC
  <2>. QED
    BY <1>1, <1>2, <2>1, QuietType
<1>5. ~Writes(t)
  BY <1>3, Silent DEF At
<1>6. MovesOn(t) /\ AsksRightly(t)
  BY <1>1, <1>2, <1>3, <1>5 DEF MovesOn, AsksRightly, Goto, Early, LogInv, TurnsTypeOK
<1>. QED
  BY <1>1, <1>4, <1>6, QuietLog DEF events

(* Moving the Cursor to the next question keeps it.                        *)
LEMMA MoveCursorStep ==
    ASSUME LogInv, NEW t \in Turns, MoveCursor(t)
    PROVE  LogInv'
<1>1. UNCHANGED <<events, lapsed, streamed, cut>> /\ asked' \in {t, asked, NoTurn}
  BY DEF MoveCursor
<1>2. \/ At(t, "finalizing") /\ Goto(t, "done")
      \/ At(t, "prepared") /\ t \notin streamed /\ Goto(t, "answered")
  BY DEF MoveCursor
<1>3. PICK label \in {"done", "answered"} :
         Goto(t, label) /\ (label = "answered" => pc[t] = "prepared")
  BY <1>2 DEF At
<1>4. TurnsTypeOK'
  <2>1. lapsed' \subseteq Turns /\ asked' \in Turns \cup {NoTurn} /\ cut' \subseteq streamed
        /\ label \in PC
    BY <1>1 DEF LogInv, TurnsTypeOK, PC
  <2>. QED
    BY <1>1, <1>3, <2>1, QuietType
<1>5. ~Writes(t)
  BY <1>2, Silent DEF At
<1>6. pc'[t] = label /\ \A u \in Turns \ {t} : pc'[u] = pc[u]
  BY <1>3 DEF Goto, LogInv, TurnsTypeOK
<1>7. t \in streamed => Of(t, {"completed"}) # {}
  BY <1>2 DEF LogInv, TurnOK
<1>8. MovesOn(t) /\ AsksRightly(t)
  BY <1>1, <1>3, <1>5, <1>6, <1>7 DEF MovesOn, AsksRightly, Early, At
<1>. QED
  BY <1>1, <1>4, <1>8, QuietLog DEF events

(* A client that leaves and a lease that lapses keep it.                   *)
LEMMA LeaveSteps ==
    ASSUME LogInv, NEW t \in Turns,
           (Disconnect(t) /\ At(t, "working")) \/ LeaseLapses(t)
    PROVE  LogInv'
<1>1. UNCHANGED <<log, open, row, asked, streamed, pc>> /\ lapsed \subseteq lapsed'
  BY DEF Disconnect, LeaseLapses, At, events
<1>2. TurnsTypeOK'
  <2>1. lapsed' \subseteq Turns /\ asked' \in Turns \cup {NoTurn} /\ cut' \subseteq streamed
    BY <1>1 DEF Disconnect, LeaseLapses, LogInv, TurnsTypeOK, At, events
  <2>2. "done" \in PC /\ UNCHANGED events /\ UNCHANGED streamed /\ UNCHANGED pc
    BY <1>1 DEF PC, events
  <2>. QED
    BY <2>1, <2>2, QuietType
<1>3. MovesOn(t) /\ AsksRightly(t)
  BY <1>1 DEF MovesOn, AsksRightly
<1>. QED
  BY <1>1, <1>2, <1>3, QuietLog

(* Every step of a turn keeps the log's invariant.                         *)
LEMMA TurnLog ==
    ASSUME LogInv, NEW t \in Turns, TurnStep(t)
    PROVE  LogInv'
<1>1. CASE Disconnect(t)
  BY <1>1, TerminalSteps, LeaveSteps DEF Disconnect
<1>. QED
  BY <1>1, BeginSteps, ApologiseStep, CommitLog, VanishLog, TerminalSteps, WorkerSteps,
     MoveCursorStep, LeaveSteps
     DEF TurnStep, ServerStep

(* Every step keeps the log's invariant.                                   *)
LEMMA LogNext ==
    ASSUME LogInv, [StreamNext]_allVars
    PROVE  LogInv'
<1>1. ASSUME UNCHANGED turnVars PROVE LogInv'
  <2>1. 1 \in Turns /\ UNCHANGED <<log, open, row, streamed, lapsed, asked, pc, cut>>
    BY <1>1, TurnCountAssumption DEF turnVars, events, Turns
  <2>2. TurnsTypeOK'
    BY <2>1 DEF LogInv, TurnsTypeOK, Inserted, Logged
  <2>. QED
    BY <2>1, <2>2, QuietLog DEF MovesOn, AsksRightly
<1>. QED
  BY <1>1, TurnLog
     DEF StreamNext, Connect, StreamStep, CheckSession, List, Send, Drop, SessionEnds, allVars

(* The empty log satisfies it.                                             *)
LEMMA LogInit == StreamInit => LogInv
<1>. SUFFICES ASSUME StreamInit PROVE LogInv
  OBVIOUS
<1>1. Logged = {} /\ Inserted = {} /\ log = <<>>
  BY DEF StreamInit, TurnsInit, Logged, Inserted
<1>2. LastId = 0
  BY <1>1 DEF LastId
<1>3. TurnsTypeOK
  BY <1>1 DEF StreamInit, TurnsInit, TurnsTypeOK, PC
<1>4. \A t \in Turns : TurnOK(t)
  BY <1>1, TurnCountAssumption DEF StreamInit, TurnsInit, TurnOK, At, NoTurn, Turns
<1>. QED
  BY <1>1, <1>2, <1>3, <1>4
     DEF StreamInit, TurnsInit, LogInv, IdsOK, OneEach, OneStream, CursorAfterAnswer

-----------------------------------------------------------------------------
(* The page.                                                               *)
LEMMA LogGrows ==
    ASSUME LogInv, NEW t \in Turns, TurnStep(t)
    PROVE  UNCHANGED log \/ \E e \in open : log' = Append(log, e)
<1>1. ASSUME NEW type, AppendTerminal(t, type) PROVE UNCHANGED log
  BY <1>1 DEF AppendTerminal, Insert, events
<1>. QED
  BY <1>1 DEF TurnStep, ServerStep, BeginSse, BeginJson, Insert, Apologise, Disconnect, Vanish,
              LeaseLapses, Commit, StartWorker, WorkerEnds, CloseSse, Cleanup, CloseJson,
              MoveCursor, events

(* What the page was shown last is in the log.                             *)
LEMMA LastSeenLogged ==
    ASSUME LogInv, PageInv
    PROVE  LastSeen = 0 \/ \E m \in DOMAIN log : log[m].id = LastSeen
<1>1. \A i \in DOMAIN seen : \E e \in Logged : e.id = seen[i]
  BY DEF PageInv, StreamTypeOK
<1>. QED
  BY <1>1 DEF LastSeen, Logged

(* A turn that writes or commits does not disturb what the page was        *)
(* shown.                                                                  *)
LEMMA TurnPage ==
    ASSUME LogInv, PageInv, NEW t \in Turns, TurnStep(t), UNCHANGED <<session, streamVars>>
    PROVE  PageInv'
<1>1. LogInv' /\ UNCHANGED <<session, stream, cursor, batch, seen, late>> /\ LastSeen' = LastSeen
  BY TurnLog DEF streamVars, LastSeen
<1>2. log \in Seq(Event)
  BY DEF LogInv, TurnsTypeOK
<1>3. \/ UNCHANGED log
      \/ \E e \in open : /\ log' = Append(log, e) /\ Len(log) + 1 \in DOMAIN log'
                         /\ e \notin Logged
                         /\ \A n \in DOMAIN log' :
                               \/ n = Len(log) + 1 /\ log'[n] = e
                               \/ n \in DOMAIN log /\ log'[n] = log[n]
  <2>1. CASE UNCHANGED log
    BY <2>1
  <2>2. ASSUME NEW e \in open, log' = Append(log, e)
        PROVE  /\ Len(log) + 1 \in DOMAIN log' /\ e \notin Logged
               /\ \A n \in DOMAIN log' :
                     \/ n = Len(log) + 1 /\ log'[n] = e
                     \/ n \in DOMAIN log /\ log'[n] = log[n]
    <3>1. e \notin Logged /\ e \in Event
      BY DEF LogInv, IdsOK, TurnsTypeOK
    <3>2. DOMAIN log' = 1..(Len(log) + 1) /\ DOMAIN log = 1..Len(log) /\ Len(log) \in Nat
      BY <1>2, <2>2, <3>1
    <3>3. log'[Len(log) + 1] = e /\ \A n \in 1..Len(log) : log'[n] = log[n]
      BY <1>2, <2>2, <3>1
    <3>. QED
      BY <3>1, <3>2, <3>3
  <2>. QED
    BY <2>1, <2>2, LogGrows
<1>4. \A n \in DOMAIN log : n \in DOMAIN log' /\ log'[n] = log[n]
  <2>1. ASSUME NEW e \in open, log' = Append(log, e)
        PROVE  \A n \in DOMAIN log : n \in DOMAIN log' /\ log'[n] = log[n]
    <3>1. e \in Event
      BY DEF LogInv, TurnsTypeOK
    <3>. QED
      BY <1>2, <2>1, <3>1
  <2>. QED
    BY <2>1, LogGrows
<1>5. Logged \subseteq Logged'
  BY <1>4 DEF Logged
<1>6. LastSeen = 0 \/ \E m \in DOMAIN log : log[m].id = LastSeen
  BY LastSeenLogged
<1>7. LastSeen \in 0..LastId' /\ LastId' \in Nat
  <2>1. LastId' \in Nat /\ \A e \in Logged' : e.id \in 1..LastId'
    BY <1>1 DEF LogInv, IdsOK, Inserted
  <2>2. LastSeen = 0 \/ \E e \in Logged' : e.id = LastSeen
    BY <1>4, <1>6 DEF Logged
  <2>. QED
    BY <2>1, <2>2
<1>8. cursor \in 0..LastId'
  <2>1. cursor = 0 \/ cursor = LastSeen
    BY DEF PageInv, StreamTypeOK
  <2>. QED
    BY <1>7, <2>1
<1>9. StreamTypeOK'
  BY <1>1, <1>5, <1>8 DEF PageInv, StreamTypeOK, LogInv
<1>10. ListedFirst'
  <2>1. batch \subseteq Logged
    BY DEF PageInv, StreamTypeOK
  <2>2. \A n \in DOMAIN log : n <= Len(log) /\ n \in Nat /\ Len(log) \in Nat
    BY <1>2
  <2>3. ASSUME NEW m \in DOMAIN log', NEW n \in DOMAIN log',
               log'[m] \in batch, log'[n].id > cursor, log'[n] \notin batch
        PROVE  m < n
    <3>1. m \in DOMAIN log /\ log'[m] = log[m]
      BY <1>3, <2>1, <2>3
    <3>2. CASE n \in DOMAIN log /\ log'[n] = log[n]
      BY <2>3, <3>1, <3>2 DEF PageInv, ListedFirst
    <3>3. CASE n = Len(log) + 1
      BY <2>2, <3>1, <3>3
    <3>. QED
      BY <1>3, <3>2, <3>3
  <2>. QED
    BY <1>1, <2>3 DEF ListedFirst
<1>11. OnlyOvertakenAreMissed'
  <2>1. ASSUME NEW n \in DOMAIN log', log'[n].id < LastSeen
        PROVE  Shown(log'[n]) \/ \E m \in 1..(n - 1) : log'[m].id > log'[n].id
    <3>1. CASE n \in DOMAIN log /\ log'[n] = log[n]
      <4>1. Shown(log[n]) \/ Overtaken(n)
        BY <2>1, <3>1 DEF PageInv, OnlyOvertakenAreMissed
      <4>2. \A m \in 1..(n - 1) : m \in DOMAIN log
        BY <1>2, <3>1
      <4>. QED
        BY <1>4, <3>1, <4>1, <4>2 DEF Overtaken
    <3>2. CASE n = Len(log) + 1
      <4>1. log'[n].id \in Nat /\ n \in Nat
        <5>1. log' \in Seq(Event)
          BY <1>1 DEF LogInv, TurnsTypeOK
        <5>2. DOMAIN log' = 1..Len(log') /\ log'[n] \in Event
          BY <2>1, <5>1
        <5>. QED
          BY <2>1, <5>2 DEF Event
      <4>2. PICK m \in DOMAIN log : log[m].id = LastSeen
        BY <1>6, <2>1, <4>1
      <4>3. m \in 1..(n - 1) /\ log'[m].id > log'[n].id
        BY <1>2, <1>4, <2>1, <3>2, <4>1, <4>2 DEF PageInv, StreamTypeOK
      <4>. QED
        BY <4>3
    <3>. QED
      BY <1>3, <3>1, <3>2
  <2>. QED
    BY <1>1, <2>1 DEF OnlyOvertakenAreMissed, Shown, Overtaken
<1>. QED
  BY <1>1, <1>9, <1>10, <1>11 DEF PageInv, ShownInOrder

(* The log is left alone, and so is what the page received.                *)
LEMMA IdlePage ==
    ASSUME LogInv, PageInv, UNCHANGED <<turnVars, seen, late>>, session' \in BOOLEAN,
           session' = session \/ ~session', cursor' \in {cursor, LastSeen, 0},
           stream' \in {"closed", "listening", "checked"},
           batch' = {} \/ (batch' \in {batch, New} /\ cursor' = cursor),
           stream' # "closed" => cursor' = LastSeen,
           stream' = "closed" => batch' = {} /\ cursor' = 0,
           session' \/ stream' = "checked" => session \/ stream = "checked"
    PROVE  PageInv'
<1>1. UNCHANGED <<log, open>> /\ Logged' = Logged /\ LastId' = LastId /\ LastSeen' = LastSeen
  BY DEF turnVars, events, Logged, Inserted, LastId, LastSeen
<1>2. TurnsTypeOK'
  BY <1>1 DEF PageInv, StreamTypeOK, TurnsTypeOK, Inserted, turnVars, events
<1>3. LastSeen \in 0..LastId /\ LastId \in Nat
  <2>1. LastId \in Nat /\ \A e \in Logged : e.id \in 1..LastId
    BY DEF LogInv, IdsOK, Inserted
  <2>2. LastSeen = 0 \/ \E e \in Logged : e.id = LastSeen
    BY LastSeenLogged DEF Logged
  <2>. QED
    BY <2>1, <2>2
<1>4. cursor' \in 0..LastId' /\ batch' \subseteq {e \in Logged' : e.id > cursor'}
  BY <1>1, <1>3 DEF PageInv, StreamTypeOK, New
<1>5. StreamTypeOK'
  BY <1>1, <1>2, <1>4 DEF PageInv, StreamTypeOK
<1>6. ListedFirst'
  <2>1. CASE batch' = {}
    BY <2>1 DEF ListedFirst
  <2>2. CASE batch' = batch /\ cursor' = cursor
    BY <1>1, <2>2 DEF PageInv, ListedFirst
  <2>3. CASE batch' = New /\ cursor' = cursor
    BY <1>1, <2>3 DEF New, ListedFirst, Logged
  <2>. QED
    BY <2>1, <2>2, <2>3
<1>7. OnlyOvertakenAreMissed' /\ ShownInOrder'
  BY <1>1 DEF PageInv, OnlyOvertakenAreMissed, Shown, Overtaken, ShownInOrder
<1>. QED
  BY <1>1, <1>5, <1>6, <1>7 DEF PageInv

(* Connecting, listing and dropping do not, either.                        *)
LEMMA QuietPage ==
    ASSUME LogInv, PageInv,
           Connect \/ CheckSession \/ List \/ Drop \/ SessionEnds \/ UNCHANGED allVars
    PROVE  PageInv'
<1>1. /\ session \in BOOLEAN /\ stream \in {"closed", "listening", "checked"}
      /\ stream # "closed" => cursor = LastSeen
      /\ stream = "closed" => batch = {} /\ cursor = 0
  BY DEF PageInv, StreamTypeOK
<1>2. CASE Connect
  BY <1>1, <1>2, IdlePage DEF Connect
<1>3. CASE CheckSession
  BY <1>1, <1>3, IdlePage DEF CheckSession
<1>4. CASE List
  BY <1>1, <1>4, IdlePage DEF List
<1>5. CASE Drop
  BY <1>1, <1>5, IdlePage DEF Drop
<1>6. CASE SessionEnds
  BY <1>1, <1>6, IdlePage DEF SessionEnds, streamVars
<1>7. CASE UNCHANGED allVars
  BY <1>1, <1>7, IdlePage DEF allVars, streamVars
<1>. QED
  BY <1>2, <1>3, <1>4, <1>5, <1>6, <1>7

(* An event that is sent is the next one in order.                         *)
LEMMA SendPage ==
    ASSUME LogInv, PageInv, Send
    PROVE  PageInv'
<1>1. PICK e \in batch :
         /\ \A f \in batch : e.id <= f.id
         /\ cursor' = e.id /\ seen' = Append(seen, e.id) /\ batch' = batch \ {e}
  BY DEF Send
<1>2. /\ stream = "checked" /\ stream' = "listening" /\ UNCHANGED <<turnVars, session>>
      /\ late' = IF session THEN late ELSE late + 1
  BY DEF Send, Checked
<1>3. UNCHANGED <<log, open>> /\ Logged' = Logged /\ LastId' = LastId
  BY <1>2 DEF turnVars, events, Logged, Inserted, LastId
<1>4. e \in Logged /\ e \in Event /\ e.id \in Nat /\ e.id > cursor /\ e.id \in 1..LastId
      /\ cursor = LastSeen /\ cursor \in Nat /\ LastId \in Nat /\ batch \subseteq Logged
  <2>1. e \in Logged /\ e.id > cursor /\ cursor \in 0..LastId /\ cursor = LastSeen
        /\ batch \subseteq Logged
    BY <1>2 DEF PageInv, StreamTypeOK
  <2>2. e \in Event /\ e.id \in 1..LastId /\ LastId \in Nat
    BY <2>1, EventTypes DEF LogInv, IdsOK, Inserted
  <2>. QED
    BY <2>1, <2>2 DEF Event
<1>5. seen \in Seq(Nat) /\ seen' \in Seq(Nat) /\ seen' # <<>>
  BY <1>1, <1>4 DEF PageInv
<1>6. /\ DOMAIN seen' = 1..(Len(seen) + 1) /\ DOMAIN seen = 1..Len(seen) /\ Len(seen) \in Nat
      /\ Len(seen') = Len(seen) + 1
      /\ seen'[Len(seen) + 1] = e.id /\ \A i \in DOMAIN seen : seen'[i] = seen[i]
  BY <1>1, <1>4, <1>5
<1>7. LastSeen' = e.id
  BY <1>5, <1>6 DEF LastSeen
<1>8. \A f \in batch \ {e} : f.id > e.id
  <2>1. ASSUME NEW f \in batch \ {e} PROVE f.id > e.id
    <3>1. e.id <= f.id /\ f \in Inserted /\ e \in Inserted /\ f \in Event
      BY <1>1, <1>4, EventTypes DEF Inserted
    <3>2. f.id # e.id
      BY <3>1 DEF LogInv, TurnsTypeOK
    <3>. QED
      BY <1>4, <3>1, <3>2 DEF Event
  <2>. QED
    BY <2>1
<1>9. StreamTypeOK'
  <2>1. TurnsTypeOK'
    BY <1>2, <1>3 DEF PageInv, StreamTypeOK, TurnsTypeOK, Inserted, turnVars, events
  <2>2. \A i \in DOMAIN seen' : \E f \in Logged' : f.id = seen'[i]
    <3>1. \A i \in DOMAIN seen : \E f \in Logged : f.id = seen[i]
      BY DEF PageInv, StreamTypeOK
    <3>. QED
      BY <1>3, <1>4, <1>6, <3>1
  <2>3. late' \in Nat
    BY <1>2 DEF PageInv, StreamTypeOK
  <2>4. cursor' \in 0..LastId' /\ batch' \subseteq {f \in Logged' : f.id > cursor'}
    BY <1>1, <1>3, <1>4, <1>8
  <2>. QED
    BY <1>2, <2>1, <2>2, <2>3, <2>4 DEF PageInv, StreamTypeOK
<1>10. \A i \in DOMAIN seen : seen[i] <= LastSeen
  <2>1. \A i, j \in DOMAIN seen : i < j => seen[i] < seen[j]
    BY DEF PageInv, ShownInOrder
  <2>2. \A i \in DOMAIN seen : seen[i] \in Nat
    BY <1>5
  <2>3. ASSUME NEW i \in DOMAIN seen PROVE seen[i] <= seen[Len(seen)]
    <3>1. Len(seen) \in DOMAIN seen /\ i \in 1..Len(seen) /\ Len(seen) \in Nat
      BY <1>6
    <3>2. i = Len(seen) \/ i < Len(seen)
      BY <3>1
    <3>. QED
      BY <2>1, <2>2, <3>1, <3>2
  <2>4. seen # <<>> => LastSeen = seen[Len(seen)]
    BY DEF LastSeen
  <2>. QED
    BY <2>3, <2>4
<1>11. ShownInOrder'
  <2>1. ASSUME NEW i \in DOMAIN seen', NEW j \in DOMAIN seen', i < j PROVE seen'[i] < seen'[j]
    <3>1. CASE j \in DOMAIN seen
      BY <1>6, <2>1, <3>1 DEF PageInv, ShownInOrder
    <3>2. CASE j = Len(seen) + 1
      <4>1. i \in DOMAIN seen /\ seen[i] \in Nat /\ seen[i] <= LastSeen
        BY <1>5, <1>6, <1>10, <2>1, <3>2
      <4>. QED
        BY <1>4, <1>6, <3>2, <4>1
    <3>. QED
      BY <1>6, <3>1, <3>2
  <2>. QED
    BY <2>1 DEF ShownInOrder
<1>12. \A i, n : i \in DOMAIN seen /\ seen[i] = n => \E k \in DOMAIN seen' : seen'[k] = n
  BY <1>6
<1>13. ListedFirst'
  <2>1. ASSUME NEW m \in DOMAIN log, NEW n \in DOMAIN log,
               log[m] \in batch \ {e}, log[n].id > e.id, log[n] \notin batch \ {e}
        PROVE  m < n
    <3>1. log[n] \notin batch
      BY <1>4, <2>1
    <3>2. log[n].id \in Nat /\ log[n].id > cursor
      <4>1. log[n] \in Event
        BY DEF LogInv, TurnsTypeOK
      <4>. QED
        BY <1>4, <2>1, <4>1 DEF Event
    <3>. QED
      BY <2>1, <3>1, <3>2 DEF PageInv, ListedFirst
  <2>. QED
    BY <1>1, <1>3, <2>1 DEF ListedFirst
<1>14. OnlyOvertakenAreMissed'
  <2>1. ASSUME NEW n \in DOMAIN log, log[n].id < e.id
        PROVE  (\E i \in DOMAIN seen' : seen'[i] = log[n].id) \/ Overtaken(n)
    <3>1. log[n] \in Logged /\ log[n].id \in Nat /\ log[n].id # 0
      <4>1. log[n] \in Logged /\ log[n] \in Inserted /\ log[n] \in Event
        BY DEF Logged, Inserted, LogInv, TurnsTypeOK
      <4>2. log[n].id \in 1..LastId
        BY <4>1 DEF LogInv, IdsOK
      <4>. QED
        BY <4>1, <4>2
    <3>2. CASE log[n].id < LastSeen
      BY <1>12, <3>2 DEF PageInv, OnlyOvertakenAreMissed, Shown
    <3>3. CASE log[n].id = LastSeen
      <4>1. Len(seen) \in DOMAIN seen /\ seen[Len(seen)] = log[n].id
        BY <1>5, <1>6, <3>1, <3>3 DEF LastSeen
      <4>. QED
        BY <1>12, <4>1
    <3>4. CASE log[n].id > LastSeen
      <4>1. log[n] \notin batch
        BY <1>1, <1>4, <2>1, <3>1
      <4>2. PICK m \in DOMAIN log : log[m] = e
        BY <1>4 DEF Logged
      <4>3. m < n
        BY <1>4, <3>4, <4>1, <4>2 DEF PageInv, ListedFirst
      <4>4. m \in 1..(n - 1)
        <5>1. log \in Seq(Event)
          BY DEF LogInv, TurnsTypeOK
        <5>2. m \in 1..Len(log) /\ n \in 1..Len(log) /\ Len(log) \in Nat
          BY <5>1
        <5>. QED
          BY <4>3, <5>2
      <4>. QED
        BY <1>4, <2>1, <3>1, <4>2, <4>4 DEF Overtaken
    <3>. QED
      BY <1>4, <3>1, <3>2, <3>3, <3>4
  <2>. QED
    BY <1>3, <1>7, <2>1 DEF OnlyOvertakenAreMissed, Shown, Overtaken
<1>15. late' <= 1 /\ (session' \/ stream' = "checked" => late' = 0)
  <2>1. late \in Nat /\ late = 0
    BY <1>2 DEF PageInv, StreamTypeOK
  <2>. QED
    BY <1>2, <2>1
<1>. QED
  BY <1>2, <1>4, <1>5, <1>7, <1>9, <1>11, <1>13, <1>14, <1>15, <1>1 DEF PageInv

-----------------------------------------------------------------------------
(* Every step keeps the whole invariant.                                   *)
LEMMA PageNext == Inv /\ [StreamNext]_allVars => Inv'
<1>. SUFFICES ASSUME LogInv, PageInv, [StreamNext]_allVars PROVE LogInv' /\ PageInv'
  BY DEF Inv
<1>. QED
  BY LogNext, TurnPage, QuietPage, SendPage DEF StreamNext, StreamStep

(* The invariant holds.                                                    *)
LEMMA InvHolds == StreamSpec => []Inv
<1>1. StreamInit => PageInv
  <2>. SUFFICES ASSUME StreamInit PROVE PageInv
    OBVIOUS
  <2>1. LogInv /\ log = <<>> /\ seen = <<>> /\ batch = {} /\ late = 0 /\ cursor = 0
        /\ stream = "closed" /\ session = TRUE
    BY LogInit DEF StreamInit, TurnsInit
  <2>2. StreamTypeOK
    BY <2>1 DEF LogInv, IdsOK, StreamTypeOK
  <2>. QED
    BY <2>1, <2>2 DEF PageInv, ShownInOrder, ListedFirst, OnlyOvertakenAreMissed
<1>2. StreamInit => Inv
  BY <1>1, LogInit DEF Inv
<1>. QED
  BY <1>2, PageNext, PTL DEF StreamSpec

(* Log, turns, stream and page keep their types: in particular ids are     *)
(* taken once and the page is shown nothing that is not in the log.        *)
THEOREM TypeCorrect == StreamSpec => []StreamTypeOK
BY InvHolds, PTL DEF Inv, PageInv

(* A set whose elements are all equal has at most one.                     *)
LEMMA AtMostOne ==
    ASSUME NEW S, \A x, y \in S : x = y
    PROVE  Cardinality(S) <= 1
<1>1. CASE S = {}
  BY <1>1, FS_EmptySet
<1>2. CASE S # {}
  <2>1. PICK x \in S : S = {x}
    BY <1>2
  <2>. QED
    BY <2>1, FS_Singleton
<1>. QED
  BY <1>1, <1>2

(* A turn has one terminal, however worker, response, cleanup, client and  *)
(* process end (append_turn_terminal, events.py, and the handlers of       *)
(* main.py that call it).                                                  *)
THEOREM OneTerminalPerTurnHolds == StreamSpec => []OneTerminalPerTurn
<1>1. Inv => OneTerminalPerTurn
  BY AtMostOne DEF Inv, LogInv, OneEach, OneTerminalPerTurn
<1>. QED
  BY <1>1, InvHolds, PTL

(* Two SSE turns are in progress at once only if a lease has run out       *)
(* (append_turn_started looks at the turns under the row lock).            *)
THEOREM OneStreamedTurnHolds == StreamSpec => []OneStreamedTurn
<1>1. Inv => OneStreamedTurn
  BY AtMostOne DEF Inv, LogInv, OneStream, OneStreamedTurn
<1>. QED
  BY <1>1, InvHolds, PTL

(* The question of an SSE turn is the Cursor only if its answer is in the  *)
(* log (finalize_success after message.completed, main.py).                *)
THEOREM CursorAfterAnswerHolds == StreamSpec => []CursorAfterAnswer
BY InvHolds, PTL DEF Inv, LogInv

(* The page is shown events once and in order, over any number of broken   *)
(* connections (replay_events and Last-Event-ID).                          *)
THEOREM ShownInOrderHolds == StreamSpec => []ShownInOrder
BY InvHolds, PTL DEF Inv, PageInv

(* The page misses only events that an event with a larger id overtook.    *)
THEOREM OnlyOvertakenAreMissedHolds == StreamSpec => []OnlyOvertakenAreMissed
BY InvHolds, PTL DEF Inv, PageInv

(* At most one event goes out after logout or expiry.                      *)
THEOREM RevokedStreamStopsHolds == StreamSpec => []RevokedStreamStops
<1>1. Inv => RevokedStreamStops
  BY DEF Inv, PageInv, RevokedStreamStops
<1>. QED
  BY <1>1, InvHolds, PTL
===============================================================================
