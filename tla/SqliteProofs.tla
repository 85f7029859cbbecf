---------------------------- MODULE SqliteProofs ----------------------------
(***************************************************************************)
(* Proofs that the storage on SQLite keeps its promises to the messages    *)
(* that wait for it, and its transactions whole.                           *)
(***************************************************************************)
EXTENDS StorageProofs, FiniteSetTheorems

(* Most leaves are first-order reasoning about sets and functions, which   *)
(* Zenon does best; a leaf that needs arithmetic names SMT.                *)
USE Zenon

-----------------------------------------------------------------------------
(***************************************************************************)
(* Why a message that passes the gate depends on confirmed writes only.    *)
(* Every write that a message may depend on is confirmed, exposed, or owed *)
(* by a lock that the message waits for: a lock that failed, one whose     *)
(* callback covers the write, or one whose task has yet to commit it.      *)
(***************************************************************************)
Owes(k, w) ==
    \/ locks[k] = "failed"
    \/ tasks[k].phase = "callback" /\ w \in tasks[k].covers
    \/ tasks[k].phase = "scheduled" /\ w \in (IF tasks[k].committed THEN db ELSE working)

Due(n, w) == w \in confirmed \cup exposed \/ \E k \in 1..n : Owes(k, w)

VisibleIsDue == \A w \in Visible : Due(Len(locks), w)

SeenIsDue ==
    \A m \in Messages :
        result[m] # "unsent" => \A w \in seen[m] : Due(branch[m], w)

(* What an inner transaction wrote while the outer ones were rolled back   *)
(* is exposed: committing it confirms nothing.                             *)
InnerIsExposed ==
    saves # << >> /\ saves[1].depth # 0 => working \ saves[1].content \subseteq exposed

OwedInv == VisibleIsDue /\ SeenIsDue /\ InnerIsExposed

LEMMA OwedInit == SqliteInit => OwedInv
  BY DEF SqliteInit, GateInit, OwedInv, VisibleIsDue, SeenIsDue, InnerIsExposed, Visible

(* A lock keeps what it owes while its task does not move, or has it       *)
(* confirmed.                                                              *)
LEMMA OwesKept ==
    ASSUME StoreShape, NEW k \in 1..Len(locks), NEW w, Owes(k, w),
           locks'[k] = locks[k], tasks'[k] = tasks[k], db \subseteq db',
           implicit = k => working \subseteq working'
    PROVE  Owes(k, w)'
  <1>1. tasks[k].phase = "scheduled" /\ ~tasks[k].committed => k = implicit
    BY ShapeFacts DEF TasksMatchLocks
  <1> QED
    BY <1>1 DEF Owes

(* What is due stays due.                                                  *)
LEMMA DueKept ==
    ASSUME Len(locks) \in Nat, NEW n \in 0..Len(locks), NEW w, Due(n, w),
           confirmed \subseteq confirmed', exposed \subseteq exposed',
           \A k \in 1..Len(locks) : Owes(k, w) => Owes(k, w)' \/ w \in confirmed'
    PROVE  Due(n, w)'
  <1>1. CASE w \in confirmed \cup exposed
    BY <1>1 DEF Due
  <1>2. CASE \E k \in 1..n : Owes(k, w)
    <2>1. PICK k \in 1..n : Owes(k, w)
      BY <1>2
    <2>2. k \in 1..Len(locks)
      BY SMT
    <2>3. Owes(k, w)' \/ w \in confirmed'
      BY <2>1, <2>2
    <2>4. CASE w \in confirmed'
      BY <2>4 DEF Due
    <2>5. CASE Owes(k, w)'
      BY <2>5 DEF Due
    <2> QED
      BY <2>3, <2>4, <2>5
  <1> QED
    BY <1>1, <1>2 DEF Due

(* So a step keeps the two invariants when it lets go of nothing that is   *)
(* owed, and makes visible only what is due.                               *)
LEMMA DueStep ==
    ASSUME StoreShape, VisibleIsDue, SeenIsDue,
           confirmed \subseteq confirmed', exposed \subseteq exposed',
           \A k \in 1..Len(locks) : \A w \in Writes :
                Owes(k, w) => Owes(k, w)' \/ w \in confirmed',
           Len(locks') \in Nat, Len(locks') >= Len(locks),
           \A m \in Messages : result'[m] # "unsent" =>
                result[m] # "unsent" /\ branch'[m] = branch[m] /\ seen'[m] = seen[m],
           \A w \in Visible' : (w \in Visible /\ w \in Writes) \/ Due(Len(locks), w)'
    PROVE  VisibleIsDue' /\ SeenIsDue'
  <1>0. /\ Len(locks) \in Nat /\ branch \in [Messages -> 0..Len(locks)]
        /\ seen \in [Messages -> SUBSET Writes]
    BY ShapeFacts DEF GateInv, GateTypeOK, StoreTypes
  <1>1. ASSUME NEW n \in 0..Len(locks), NEW w \in Writes, Due(n, w)
        PROVE  Due(n, w)'
    BY <1>0, <1>1, DueKept
  <1>2. VisibleIsDue'
    <2> SUFFICES ASSUME NEW w \in Visible', w \in Visible, w \in Writes
                 PROVE  Due(Len(locks), w)'
      BY DEF VisibleIsDue
    <2>1. PICK n \in 0..Len(locks) : n = Len(locks)
      BY <1>0, SMT
    <2>2. Due(n, w)
      BY <2>1 DEF VisibleIsDue
    <2>3. Due(n, w)'
      BY <1>1, <2>2
    <2>4. \A k \in 1..n : k \in 1..Len(locks')
      BY <1>0, <2>1, SMT
    <2> QED
      BY <2>3, <2>4 DEF Due
  <1>3. SeenIsDue'
    <2> SUFFICES ASSUME NEW m \in Messages, result'[m] # "unsent", NEW w \in seen'[m]
                 PROVE  Due(branch[m], w)'
      BY DEF SeenIsDue
    <2>1. /\ result[m] # "unsent" /\ branch'[m] = branch[m] /\ seen'[m] = seen[m]
          /\ branch[m] \in 0..Len(locks) /\ w \in Writes
      BY <1>0
    <2>2. PICK n \in 0..Len(locks) : n = branch[m]
      BY <2>1
    <2>3. Due(n, w)
      BY <2>1, <2>2 DEF SeenIsDue
    <2>4. Due(n, w)'
      BY <1>1, <2>1, <2>3
    <2> QED
      BY <2>1, <2>2, <2>4 DEF Due
  <1> QED
    BY <1>2, <1>3

(* What is visible has been written.                                       *)
LEMMA VisibleWritten ==
    ASSUME StoreShape
    PROVE  /\ Visible \subseteq Writes
           /\ saves = << >> => Visible = working
           /\ saves # << >> => Visible = saves[1].content /\ 1 \in 1..Len(saves)
  <1>1. working \subseteq Writes
    BY DEF StoreShape, StoreTypes
  <1>2. ASSUME saves # << >>
        PROVE  1 \in 1..Len(saves) /\ saves[1].content \subseteq working
    <2>1. 1 \in 1..Len(saves)
      BY <1>2, ShapeFacts, SMT
    <2> QED
      BY <2>1 DEF StoreShape, Nested
  <1> QED
    BY <1>1, <1>2 DEF Visible

(* Under a transaction that the savepoints do not reach, every write is    *)
(* exposed: the outermost transaction has been rolled back.                *)
LEMMA OuterRolledBack ==
    ASSUME StoreShape, txns # << >>, saves = << >> \/ saves[1].depth # 0
    PROVE  1 \in 1..Len(txns) /\ txns[1]
  <1>1. 1 \in 1..Len(txns)
    BY ShapeFacts, SMT
  <1>2. ASSUME ~txns[1] PROVE FALSE
    <2>1. PICK i \in 1..Len(saves) : saves[i].depth + 1 = 1
      BY <1>1, <1>2 DEF StoreShape, Nested
    <2>2. saves # << >> /\ 1 \in 1..Len(saves) /\ saves[i].depth \in Nat
          /\ saves[1].depth \in Nat /\ Len(saves) \in Nat
      BY <2>1, ShapeFacts, SMT
    <2>3. i = 1 \/ saves[1].depth < saves[i].depth
      BY <2>2, SMT DEF StoreShape, Nested
    <2> QED
      BY <2>1, <2>2, <2>3, SMTT(30)
  <1> QED
    BY <1>1, <1>2

(* Steps that leave the store alone but for turns and the gate's events.   *)
LEMMA QuietOwed ==
    ASSUME StoreShape, OwedInv, locks' = locks,
           UNCHANGED <<tasks, db, working, saves, confirmed, exposed>>,
           \A m \in Messages : result'[m] # "unsent" =>
                result[m] # "unsent" /\ branch'[m] = branch[m] /\ seen'[m] = seen[m]
    PROVE  OwedInv'
  <1>1. \A n, w : Due(n, w) <=> Due(n, w)'
    BY DEF Due, Owes
  <1>2. Visible' = Visible
    BY DEF Visible
  <1>3. VisibleIsDue'
    BY <1>2 DEF OwedInv, VisibleIsDue, Due, Owes
  <1>4. SeenIsDue'
    BY SMT DEF OwedInv, SeenIsDue, Due, Owes
  <1>5. InnerIsExposed'
    BY DEF OwedInv, InnerIsExposed
  <1> QED
    BY <1>3, <1>4, <1>5 DEF OwedInv

LEMMA TurnOwed ==
    ASSUME StoreShape, OwedInv, BeginTurn \/ EndTurn \/ shutdown \/ DropRolledBack
    PROVE  OwedInv'
  <1>1. /\ UNCHANGED <<tasks, db, working, saves, confirmed, exposed, seen>>
        /\ UNCHANGED gateVars
    BY DEF BeginTurn, EndTurn, shutdown, DropRolledBack
  <1> QED
    BY <1>1, QuietOwed DEF gateVars

LEMMA GateEventsOwed == ASSUME StoreShape, OwedInv, GateEvents PROVE OwedInv'
  <1>1. UNCHANGED <<tasks, db, working, saves, confirmed, exposed, seen>>
    BY DEF GateEvents, storeVars
  <1>2. locks' = locks /\ branch' = branch
    BY DEF GateEvents, GateEvent, Join, Settle
  <1>3. \A m \in Messages : result'[m] # "unsent" => result[m] # "unsent"
    <2>1. CASE result' = result
      BY <2>1
    <2>2. ASSUME NEW x \in Messages, Settle(x)
          PROVE  \A m \in Messages : result'[m] # "unsent" => result[m] # "unsent"
      BY <2>2 DEF Settle, StoreShape, GateInv, GateTypeOK
    <2> QED
      BY <2>1, <2>2 DEF GateEvents, GateEvent, Join
  <1> QED
    BY <1>1, <1>2, <1>3, QuietOwed

LEMMA SendOwed ==
    ASSUME StoreShape, OwedInv, NEW m \in Messages, Send(m) PROVE OwedInv'
  <1>1. /\ UNCHANGED <<tasks, db, working, saves, confirmed, exposed>>
        /\ seen' = [seen EXCEPT ![m] = Visible]
    BY DEF Send, storeVars
  <1>2. /\ locks' = locks
        /\ result' = [result EXCEPT ![m] = "waiting"]
        /\ branch' = [branch EXCEPT ![m] = Len(locks)]
    BY DEF Send, wait
  <1>3. Visible' = Visible
    BY <1>1 DEF Visible
  <1>4. VisibleIsDue' /\ InnerIsExposed'
    BY <1>1, <1>2, <1>3 DEF OwedInv, VisibleIsDue, InnerIsExposed, Due, Owes
  <1>5. SeenIsDue'
    <2> SUFFICES ASSUME NEW x \in Messages, result'[x] # "unsent", NEW w \in seen'[x]
                 PROVE  Due(branch[x], w)'
      BY DEF SeenIsDue
    <2>0. /\ result \in [Messages -> ResultStates]
          /\ branch \in [Messages -> 0..Len(locks)]
          /\ seen \in [Messages -> SUBSET Writes]
      BY DEF StoreShape, GateInv, GateTypeOK, StoreTypes
    <2>1. CASE x = m
      <3>1. w \in Visible /\ branch'[x] = Len(locks)
        BY <1>1, <1>2, <2>0, <2>1
      <3>2. Due(Len(locks), w)
        BY <3>1 DEF OwedInv, VisibleIsDue
      <3> QED
        BY <1>1, <1>2, <3>1, <3>2 DEF Due, Owes
    <2>2. CASE x # m
      <3>1. w \in seen[x] /\ branch'[x] = branch[x] /\ result[x] # "unsent"
        BY <1>1, <1>2, <2>0, <2>2
      <3>2. Due(branch[x], w)
        BY <3>1 DEF OwedInv, SeenIsDue
      <3> QED
        BY <1>1, <1>2, <3>1, <3>2 DEF Due, Owes
    <2> QED
      BY <2>1, <2>2
  <1> QED
    BY <1>4, <1>5 DEF OwedInv

LEMMA WriteOwed ==
    ASSUME StoreShape, OwedInv, NEW sql \in BOOLEAN, Write(sql) PROVE OwedInv'
  <1>w. PICK w \in Writes : w = made + 1
    BY WriteEffect
  <1>0. /\ Len(locks) \in Nat /\ Len(tasks) = Len(locks) /\ GateInv
        /\ tasks \in Seq(TaskRecord) /\ db \subseteq working
        /\ implicit # 0 => implicit \in 1..Len(tasks)
    BY ShapeFacts DEF StoreTypes, Nested
  <1>1. /\ w \in Writes /\ working' = working \cup {w} /\ made' = w
        /\ saves' = saves /\ seen' = seen /\ confirmed' = confirmed
    BY <1>w, WriteEffect
  <1>2. exposed' = IF \E i \in 1..Len(txns) : txns[i] THEN exposed \cup {w} ELSE exposed
    BY <1>w DEF Write
  <1>3. exposed \subseteq exposed' /\ confirmed \subseteq confirmed' /\ working \subseteq working'
    BY <1>1, <1>2
  <1>4. db \subseteq db' /\ result' = result /\ branch' = branch
    BY <1>0, <1>3, WriteEffect DEF lockWhile, gateVars
  <1>5. txns # << >> /\ (saves = << >> \/ saves[1].depth # 0) => w \in exposed'
    BY <1>2, OuterRolledBack
  <1>6. InnerIsExposed'
    <2>1. saves # << >> => txns # << >>
      BY ShapeFacts
    <2> QED
      BY <1>1, <1>3, <1>5, <2>1 DEF OwedInv, InnerIsExposed
  <1>7. /\ \A k \in 1..Len(locks) : locks'[k] = locks[k] /\ tasks'[k] = tasks[k]
        /\ Len(locks') \in Nat /\ Len(locks') >= Len(locks)
        /\ \A x \in Visible' : x \in Visible \/ Due(Len(locks), x)'
    <2>1. CASE implicit = 0 /\ txns = << >>
      <3>1. /\ saves = << >> /\ lockWhile
            /\ tasks' = Append(tasks, [phase |-> "scheduled",
                                       committed |-> FALSE, covers |-> {}])
        BY <2>1, WriteEffect
      <3>2. [phase |-> "scheduled", committed |-> FALSE, covers |-> {}] \in TaskRecord
        BY DEF TaskRecord, TaskPhases
      <3>3. /\ \A j \in 1..Len(tasks) : tasks'[j] = tasks[j]
            /\ tasks'[Len(tasks) + 1] = [phase |-> "scheduled",
                                         committed |-> FALSE, covers |-> {}]
        BY <1>0, <3>1, <3>2, TaskAdded
      <3>4. /\ Len(locks') = Len(locks) + 1
            /\ \A j \in 1..Len(locks) : locks'[j] = locks[j]
        BY <1>0, <3>1, LockAdded
      <3>5. Visible = working /\ Visible' = working'
        BY <1>1, <3>1 DEF Visible
      <3>6. Due(Len(locks), w)'
        <4>1. PICK k \in 1..Len(locks') : k = Len(locks) + 1
          BY <1>0, <3>4, SMTT(30)
        <4>2. Owes(k, w)'
          BY <1>0, <1>1, <3>3, <4>1, SMTT(30) DEF Owes
        <4> QED
          BY <4>2 DEF Due
      <3> QED
        BY <1>0, <1>1, <3>3, <3>4, <3>5, <3>6, SMTT(30)
    <2>2. CASE ~(implicit = 0 /\ txns = << >>)
      <3>1. UNCHANGED <<gateVars, tasks, implicit, opened>>
        BY <2>2, WriteEffect
      <3>2. locks' = locks /\ tasks' = tasks
        BY <3>1 DEF gateVars
      <3>3. ASSUME saves = << >>, implicit # 0
            PROVE  Due(Len(locks), w)'
        <4>1. PICK k \in 1..Len(locks') : k = implicit
          BY <1>0, <3>2, <3>3
        <4>2. tasks'[k].phase = "scheduled" /\ ~tasks'[k].committed
          BY <3>2, <3>3, <4>1 DEF StoreShape, InTransaction
        <4>3. Owes(k, w)'
          BY <1>1, <4>2 DEF Owes
        <4> QED
          BY <4>3 DEF Due
      <3>4. ASSUME saves = << >>, implicit = 0
            PROVE  Due(Len(locks), w)'
        BY <1>5, <2>2, <3>4 DEF Due
      <3>5. CASE saves = << >>
        <4>1. Visible = working /\ Visible' = working'
          BY <1>1, <3>5 DEF Visible
        <4> QED
          BY <1>0, <1>1, <3>2, <3>3, <3>4, <3>5, <4>1, SMTT(30)
      <3>6. CASE saves # << >>
        BY <1>0, <1>1, <3>2, <3>6, SMTT(30) DEF Visible
      <3> QED
        BY <3>5, <3>6
    <2> QED
      BY <2>1, <2>2
  <1>8. \A k \in 1..Len(locks) : \A x \in Writes : Owes(k, x) => Owes(k, x)'
    BY <1>3, <1>4, <1>7, OwesKept
  <1>9. VisibleIsDue' /\ SeenIsDue'
    BY <1>1, <1>3, <1>4, <1>7, <1>8, VisibleWritten, DueStep DEF OwedInv
  <1> QED
    BY <1>6, <1>9 DEF OwedInv

LEMMA StartOwed == ASSUME StoreShape, OwedInv, StartTransaction PROVE OwedInv'
  <1>0. /\ Len(locks) \in Nat /\ Len(tasks) = Len(locks) /\ GateInv
        /\ tasks \in Seq(TaskRecord) /\ db \subseteq working /\ working \subseteq Writes
        /\ saves \in Seq(SaveRecord) /\ Len(txns) \in Nat /\ Len(saves) \in Nat
        /\ implicit # 0 => implicit \in 1..Len(tasks) /\ tasks[implicit] \in TaskRecord
    BY ShapeFacts DEF StoreTypes, Nested
  <1>1. /\ saves' = Append(saves, [depth |-> Len(txns), content |-> working])
        /\ working' = working
        /\ UNCHANGED <<gateVars, confirmed, exposed, seen>>
    BY StartEffect
  <1>2. locks' = locks /\ result' = result /\ branch' = branch
    BY <1>1 DEF gateVars
  <1>3. db \subseteq db'
    BY <1>0, StartEffect
  <1>4. [depth |-> Len(txns), content |-> working] \in SaveRecord
    BY <1>0 DEF SaveRecord
  <1>5. /\ Len(saves') = Len(saves) + 1 /\ saves' \in Seq(SaveRecord)
        /\ \A j \in 1..Len(saves) : saves'[j] = saves[j]
        /\ saves'[Len(saves) + 1] = [depth |-> Len(txns), content |-> working]
    BY <1>0, <1>1, <1>4, SaveAdded
  <1>6. saves' # << >>
    BY <1>0, <1>5, EmptyLen, SMTT(30)
  <1>7. /\ saves = << >> => saves'[1].content = working
        /\ saves # << >> => saves'[1] = saves[1]
    BY <1>0, <1>5, ShapeFacts, SMTT(30)
  <1>8. Visible' = Visible
    BY <1>6, <1>7 DEF Visible
  <1>9. InnerIsExposed'
    BY <1>1, <1>7 DEF OwedInv, InnerIsExposed
  <1>10. ASSUME NEW k \in 1..Len(locks), NEW w \in Writes, Owes(k, w)
         PROVE  Owes(k, w)'
    <2>1. CASE k = implicit
      <3>1. /\ k # 0 /\ tasks[k].phase = "scheduled" /\ ~tasks[k].committed
            /\ tasks' = [tasks EXCEPT ![k] = [tasks[k] EXCEPT !.committed = TRUE]]
            /\ db' = working
        <4>1. /\ k # 0 /\ tasks[k].phase = "scheduled" /\ ~tasks[k].committed
          BY <1>0, <2>1, SMTT(30) DEF StoreShape, InTransaction
        <4>2. implicit # 0 /\ ~tasks[implicit].committed
          BY <2>1, <4>1
        <4>3. /\ db' = working
              /\ tasks' = [tasks EXCEPT ![implicit].committed = TRUE]
          BY <4>2 DEF StartTransaction
        <4> QED
          BY <2>1, <4>1, <4>3
      <3>2. locks[k] = "held"
        BY <1>0, <3>1 DEF StoreShape, TasksMatchLocks
      <3>3. w \in db'
        BY <1>10, <3>1, <3>2 DEF Owes
      <3>4. tasks'[k].phase = "scheduled" /\ tasks'[k].committed
        BY <1>0, <2>1, <3>1, SMTT(30) DEF TaskRecord
      <3> QED
        BY <3>3, <3>4 DEF Owes
    <2>2. CASE k # implicit
      <3>1. tasks'[k] = tasks[k]
        BY <1>0, <2>2, StartEffect, SMTT(30)
      <3> QED
        BY <1>2, <1>3, <1>10, <2>2, <3>1, OwesKept
    <2> QED
      BY <2>1, <2>2
  <1>11. VisibleIsDue' /\ SeenIsDue'
    BY <1>0, <1>1, <1>2, <1>8, <1>10, VisibleWritten, DueStep, SMTT(30) DEF OwedInv
  <1> QED
    BY <1>9, <1>11 DEF OwedInv

(* A transaction is rolled back: what is visible stays so.                 *)
LEMMA RollbackOwed ==
    ASSUME StoreShape, OwedInv, Rollback \/ Abandon PROVE OwedInv'
  <1>1. /\ txns # << >> /\ ~txns[Len(txns)]
        /\ rollbackImpl(Len(txns) - 1)
        /\ UNCHANGED <<gateVars, tasks, implicit, made, confirmed, exposed, seen>>
    BY DEF Rollback, Abandon
  <1>2. /\ ReleaseSavepoint(saves[Len(saves)].content, Len(txns) - 1)
        /\ Len(saves) \in Nat /\ Len(saves) >= 1
    BY <1>1, LastSavepoint, ShapeFacts DEF rollbackImpl
  <1>3. /\ saves' \in Seq(SaveRecord) /\ Len(saves') = Len(saves) - 1
        /\ \A j \in 1..(Len(saves) - 1) : saves'[j] = saves[j]
        /\ working' = saves[Len(saves)].content
        /\ db' = IF Len(saves) = 1 THEN saves[Len(saves)].content ELSE db
    BY <1>1, <1>2, ReleaseEffect, ShapeFacts
  <1>4. Len(saves) \in 1..Len(saves)
    BY <1>2, SMT
  <1>5. /\ db \subseteq saves[Len(saves)].content
        /\ saves[Len(saves)].content \subseteq working
    BY <1>4 DEF StoreShape, Nested
  <1>6. db \subseteq db' /\ working' \subseteq working /\ implicit = 0
    BY <1>1, <1>3, <1>5 DEF StoreShape, InTransaction
  <1>7. saves # << >> /\ (saves' = << >> <=> Len(saves) = 1)
    BY <1>2, <1>3, EmptyLen, SMTT(30)
  <1>8. saves' # << >> => saves'[1] = saves[1]
    BY <1>2, <1>3, <1>7, SMTT(30)
  <1>9. Visible' = Visible
    BY <1>3, <1>7, <1>8 DEF Visible
  <1>10. InnerIsExposed'
    BY <1>1, <1>6, <1>7, <1>8 DEF OwedInv, InnerIsExposed
  <1>11. /\ locks' = locks /\ result' = result /\ branch' = branch /\ tasks' = tasks
         /\ seen' = seen /\ confirmed' = confirmed /\ exposed' = exposed
         /\ Len(locks) \in Nat
    BY <1>1, ShapeFacts DEF gateVars
  <1>12. \A k \in 1..Len(locks) : \A w \in Writes : Owes(k, w) => Owes(k, w)'
    BY <1>6, <1>11, OwesKept, SMTT(30)
  <1>13. VisibleIsDue' /\ SeenIsDue'
    BY <1>9, <1>11, <1>12, VisibleWritten, DueStep, SMTT(30) DEF OwedInv
  <1> QED
    BY <1>10, <1>13 DEF OwedInv

(* The outermost transaction is committed under a lock that covers all     *)
(* that becomes visible; an inner one makes visible only what is exposed.  *)
LEMMA CommitOwed == ASSUME StoreShape, OwedInv, CommitTransaction PROVE OwedInv'
  <1>1. /\ txns # << >> /\ ~txns[Len(txns)]
        /\ ReleaseSavepoint(working, Len(txns) - 1)
        /\ IF Len(txns) - 1 = 0 THEN commitRoot(db') ELSE UNCHANGED <<gateVars, tasks>>
        /\ UNCHANGED <<implicit, made, confirmed, exposed, seen>>
    BY DEF CommitTransaction
  <1>2. /\ Len(saves) \in Nat /\ Len(saves) >= 1 /\ Len(txns) \in Nat /\ Len(txns) >= 1
        /\ saves[Len(saves)].depth = Len(txns) - 1
    BY <1>1, LastSavepoint, ShapeFacts
  <1>3. /\ saves' \in Seq(SaveRecord) /\ Len(saves') = Len(saves) - 1
        /\ \A j \in 1..(Len(saves) - 1) : saves'[j] = saves[j]
        /\ working' = working
        /\ db' = IF Len(saves) = 1 THEN working ELSE db
    BY <1>1, ReleaseEffect, ShapeFacts
  <1>4. db \subseteq db' /\ db' \subseteq Writes /\ implicit = 0 /\ working \subseteq Writes
    BY <1>1, <1>3 DEF StoreShape, StoreTypes, Nested, InTransaction
  <1>5. saves # << >> /\ (saves' = << >> <=> Len(saves) = 1)
    BY <1>2, <1>3, EmptyLen, SMTT(30)
  <1>6. saves' # << >> => saves'[1] = saves[1]
    BY <1>2, <1>3, <1>5, SMTT(30)
  <1>7. InnerIsExposed'
    BY <1>1, <1>3, <1>5, <1>6 DEF OwedInv, InnerIsExposed
  <1>8. /\ \A k \in 1..Len(locks) : locks'[k] = locks[k] /\ tasks'[k] = tasks[k]
        /\ Len(locks') \in Nat /\ Len(locks') >= Len(locks) /\ Len(locks) \in Nat
        /\ result' = result /\ branch' = branch
        /\ Len(txns) - 1 = 0 =>
              /\ Len(locks') = Len(locks) + 1
              /\ tasks'[Len(locks) + 1].phase = "callback"
              /\ tasks'[Len(locks) + 1].covers = db'
    <2>0. Len(locks) \in Nat /\ Len(tasks) = Len(locks)
      BY ShapeFacts
    <2>1. CASE Len(txns) - 1 = 0
      <3>1. commitRoot(db') /\ implicit' = implicit
        BY <1>1, <2>1
      <3>2. result' = result /\ branch' = branch
        BY <3>1 DEF commitRoot, lockWhile
      <3> QED
        BY <1>4, <2>0, <3>1, <3>2, CommitRootTasks, SMTT(30)
    <2>2. CASE Len(txns) - 1 # 0
      BY <1>1, <2>0, <2>2, SMTT(30) DEF gateVars
    <2> QED
      BY <2>1, <2>2
  <1>9. \A k \in 1..Len(locks) : \A w \in Writes : Owes(k, w) => Owes(k, w)'
    BY <1>4, <1>8, OwesKept, SMTT(30)
  <1>10. ASSUME NEW w \in Visible'
         PROVE  (w \in Visible /\ w \in Writes) \/ Due(Len(locks), w)'
    <2>1. CASE Len(saves) # 1
      <3>1. Visible' = Visible
        BY <1>5, <1>6, <2>1 DEF Visible
      <3> QED
        BY <3>1, VisibleWritten
    <2>2. CASE Len(saves) = 1
      <3>1. w \in working /\ w \in Writes /\ db' = working /\ Visible = saves[1].content
        BY <1>3, <1>4, <1>5, <2>2 DEF Visible
      <3>2. CASE Len(txns) - 1 = 0
        <4>1. PICK k \in 1..Len(locks') : k = Len(locks) + 1
          BY <1>8, <3>2, SMTT(30)
        <4>2. Owes(k, w)'
          BY <1>8, <3>1, <3>2, <4>1 DEF Owes
        <4> QED
          BY <4>2 DEF Due
      <3>3. CASE Len(txns) - 1 # 0
        <4>1. w \in saves[1].content \/ w \in exposed
          BY <1>2, <1>5, <2>2, <3>1, <3>3 DEF OwedInv, InnerIsExposed
        <4> QED
          BY <1>1, <3>1, <4>1 DEF Due
      <3> QED
        BY <3>2, <3>3
    <2> QED
      BY <2>1, <2>2
  <1>11. VisibleIsDue' /\ SeenIsDue'
    BY <1>1, <1>8, <1>9, <1>10, DueStep DEF OwedInv
  <1> QED
    BY <1>7, <1>11 DEF OwedInv

(* A task moves on: what its lock owed, the callback covers, the failed    *)
(* lock refuses, or the completed callback has confirmed.                  *)
LEMMA TaskOwed ==
    ASSUME StoreShape, OwedInv, NEW k \in 1..Len(tasks), tasks[k].phase # "done",
           Len(locks') = Len(locks),
           \A j \in 1..Len(locks) : j # k => locks'[j] = locks[j] /\ tasks'[j] = tasks[j],
           result' = result, branch' = branch,
           UNCHANGED <<saves, exposed, seen>>,
           confirmed \subseteq confirmed', db \subseteq db', working' \subseteq working,
           implicit # k => working' = working,
           \A w \in Writes : Owes(k, w) => Owes(k, w)' \/ w \in confirmed'
    PROVE  OwedInv'
  <1>1. Len(locks) \in Nat /\ Len(tasks) = Len(locks) /\ k # 0
    BY ShapeFacts, SMT
  <1>2. ASSUME NEW j \in 1..Len(locks), NEW w \in Writes, Owes(j, w)
        PROVE  Owes(j, w)' \/ w \in confirmed'
    <2>1. CASE j = k
      BY <1>2, <2>1
    <2>2. CASE j # k
      BY <1>2, <2>2, OwesKept
    <2> QED
      BY <2>1, <2>2
  <1>3. implicit = k => saves = << >>
    BY <1>1, ShapeFacts DEF InTransaction
  <1>4. Visible' \subseteq Visible
    BY <1>3 DEF Visible
  <1>5. InnerIsExposed'
    BY <1>3 DEF OwedInv, InnerIsExposed
  <1>6. VisibleIsDue' /\ SeenIsDue'
    BY <1>1, <1>2, <1>4, VisibleWritten, DueStep, SMTT(30) DEF OwedInv
  <1> QED
    BY <1>5, <1>6 DEF OwedInv

LEMMA CallbackOwed ==
    ASSUME StoreShape, OwedInv, NEW k \in 1..Len(tasks), CallbackDone(k) \/ CallbackFails(k)
    PROVE  OwedInv'
  <1> DEFINE t == [tasks[k] EXCEPT !.phase = "done"]
  <1>1. /\ tasks[k].phase = "callback" /\ tasks' = [tasks EXCEPT ![k] = t]
        /\ Unlock(k) \/ BreakLock(k)
        /\ UNCHANGED <<db, working, saves, exposed, seen>>
        /\ confirmed \subseteq confirmed'
    BY DEF CallbackDone, CallbackFails
  <1>2. /\ tasks \in Seq(TaskRecord) /\ k \in 1..Len(locks) /\ GateInv
        /\ Len(tasks) = Len(locks) /\ tasks[k] \in TaskRecord
    BY ShapeFacts DEF StoreTypes
  <1>3. t \in TaskRecord
    BY <1>2 DEF TaskRecord, TaskPhases
  <1>4. \A j \in 1..Len(locks) : j # k => tasks'[j] = tasks[j]
    BY <1>1, <1>2, <1>3, TaskReplaced, ZenonT(60)
  <1>5. /\ Len(locks') = Len(locks) /\ result' = result /\ branch' = branch
        /\ \A j \in 1..Len(locks) : j # k => locks'[j] = locks[j]
    BY <1>1, <1>2, LockEnds
  <1>6. locks[k] = "held"
    BY <1>1, ShapeFacts DEF TasksMatchLocks
  <1>7. ASSUME NEW w \in Writes, Owes(k, w)
        PROVE  Owes(k, w)' \/ w \in confirmed'
    <2>1. w \in tasks[k].covers
      BY <1>1, <1>6, <1>7 DEF Owes
    <2>2. CASE CallbackDone(k)
      BY <2>1, <2>2 DEF CallbackDone
    <2>3. CASE CallbackFails(k)
      <3>1. BreakLock(k)
        BY <2>3 DEF CallbackFails
      <3>2. locks'[k] = "failed"
        BY <1>2, <3>1, LockEnds
      <3> QED
        BY <3>2 DEF Owes
    <2> QED
      BY <2>2, <2>3
  <1>8. tasks[k].phase # "done"
    BY <1>1
  <1>9. db \subseteq db' /\ working' = working
    BY <1>1
  <1> HIDE DEF t
  <1> QED
    BY <1>1, <1>4, <1>5, <1>7, <1>8, <1>9, TaskOwed

LEMMA CommitTaskOwed ==
    ASSUME StoreShape, OwedInv, NEW k \in 1..Len(tasks), CommitTask(k) PROVE OwedInv'
  <1>1. /\ tasks[k].phase = "scheduled" /\ tasks[k].phase # "done"
        /\ UNCHANGED <<saves, confirmed, exposed, seen>>
    BY DEF CommitTask
  <1>2. /\ tasks[k] \in TaskRecord /\ k \in 1..Len(locks) /\ GateInv
        /\ tasks \in Seq(TaskRecord) /\ Len(tasks) = Len(locks)
        /\ db \subseteq Writes /\ working \subseteq Writes /\ db \subseteq working
    BY ShapeFacts DEF StoreTypes, Nested
  <1>3. ~tasks[k].committed => implicit = k
    BY <1>1, <1>2, ShapeFacts DEF TasksMatchLocks
  <1>4. locks[k] = "held"
    BY <1>1, ShapeFacts DEF TasksMatchLocks
  <1>5. ASSUME IF tasks[k].committed THEN UNCHANGED <<db, opened>>
                                     ELSE db' = working /\ opened' = "no",
               callCommitCallback(k, db'), working' = working
        PROVE  OwedInv'
    <2> DEFINE t == [tasks[k] EXCEPT !.phase = "callback", !.covers = db']
    <2>1. tasks' = [tasks EXCEPT ![k] = t] /\ UNCHANGED gateVars
      BY <1>5 DEF callCommitCallback
    <2>2. db \subseteq db' /\ db' \subseteq Writes
      BY <1>2, <1>5
    <2>3. t \in TaskRecord /\ t.phase = "callback" /\ t.covers = db'
      BY <1>2, <2>2 DEF TaskRecord, TaskPhases
    <2> HIDE DEF t
    <2>4. \A j \in 1..Len(locks) : tasks'[j] = IF j = k THEN t ELSE tasks[j]
      BY <1>2, <2>1, <2>3, TaskReplaced
    <2>5. locks' = locks /\ result' = result /\ branch' = branch
      BY <2>1 DEF gateVars
    <2>6. ASSUME NEW w \in Writes, Owes(k, w)
          PROVE  Owes(k, w)'
      <3>1. w \in db'
        BY <1>1, <1>4, <1>5, <2>6 DEF Owes
      <3>2. tasks'[k].phase = "callback" /\ tasks'[k].covers = db'
        BY <1>2, <2>3, <2>4
      <3> QED
        BY <3>1, <3>2 DEF Owes
    <2> QED
      BY <1>1, <1>5, <2>2, <2>4, <2>5, <2>6, TaskOwed
  <1>6. ASSUME BreakLock(k), tasks' = [tasks EXCEPT ![k].phase = "done"],
               db' = db, working' \subseteq working, implicit # k => working' = working
        PROVE  OwedInv'
    <2> DEFINE t == [tasks[k] EXCEPT !.phase = "done"]
    <2>1. tasks' = [tasks EXCEPT ![k] = t]
      BY <1>6
    <2>2. t \in TaskRecord
      BY <1>2 DEF TaskRecord, TaskPhases
    <2> HIDE DEF t
    <2>3. \A j \in 1..Len(locks) : j # k => tasks'[j] = tasks[j]
      BY <1>2, <2>1, <2>2, TaskReplaced
    <2>4. /\ Len(locks') = Len(locks) /\ result' = result /\ branch' = branch
          /\ \A j \in 1..Len(locks) : j # k => locks'[j] = locks[j]
          /\ locks'[k] = "failed"
      BY <1>2, <1>6, LockEnds
    <2>5. \A w \in Writes : Owes(k, w)'
      BY <2>4 DEF Owes
    <2> QED
      BY <1>1, <1>6, <2>3, <2>4, <2>5, TaskOwed
  <1>7. \/ /\ IF tasks[k].committed THEN UNCHANGED <<db, opened>>
                                     ELSE db' = working /\ opened' = "no"
           /\ callCommitCallback(k, db') /\ working' = working
        \/ /\ BreakLock(k) /\ tasks' = [tasks EXCEPT ![k].phase = "done"]
           /\ db' = db
           /\ (~tasks[k].committed /\ working' = db) \/ working' = working
    BY DEF CommitTask
  <1> QED
    BY <1>2, <1>3, <1>5, <1>6, <1>7

LEMMA OwedStep == StoreShape /\ OwedInv /\ [SqliteNext]_sqliteVars => OwedInv'
  <1> SUFFICES ASSUME StoreShape, OwedInv, [SqliteNext]_sqliteVars PROVE OwedInv'
    OBVIOUS
  <1>1. CASE BeginTurn \/ EndTurn \/ shutdown \/ DropRolledBack
    BY <1>1, TurnOwed
  <1>2. ASSUME NEW sql \in BOOLEAN, Write(sql) PROVE OwedInv'
    BY <1>2, WriteOwed
  <1>3. CASE StartTransaction
    BY <1>3, StartOwed
  <1>4. CASE CommitTransaction
    BY <1>4, CommitOwed
  <1>5. CASE Rollback \/ Abandon
    BY <1>5, RollbackOwed
  <1>6. ASSUME NEW k \in 1..Len(tasks), CommitTask(k) PROVE OwedInv'
    BY <1>6, CommitTaskOwed
  <1>7. ASSUME NEW k \in 1..Len(tasks), CallbackDone(k) \/ CallbackFails(k)
        PROVE  OwedInv'
    BY <1>7, CallbackOwed
  <1>8. ASSUME NEW m \in Messages, Send(m) PROVE OwedInv'
    BY <1>8, SendOwed
  <1>9. CASE GateEvents
    BY <1>9, GateEventsOwed
  <1>10. CASE UNCHANGED sqliteVars
    BY <1>10, QuietOwed DEF sqliteVars, storeVars, gateVars
  <1> QED
    BY <1>1, <1>2, <1>3, <1>4, <1>5, <1>6, <1>7, <1>8, <1>9, <1>10 DEF SqliteNext

(* A message that has passed is behind released locks only, whose tasks    *)
(* are done and owe nothing.                                               *)
LEMMA OwedDelivery ==
    ASSUME StoreShape, OwedInv PROVE DeliveredIsConfirmedUnlessExposed
  <1> SUFFICES ASSUME NEW m \in Messages, result[m] = "passed", NEW w \in seen[m]
               PROVE  w \in confirmed \cup exposed
    BY DEF DeliveredIsConfirmedUnlessExposed
  <1>1. /\ branch[m] \in 0..Len(locks) /\ Len(locks) \in Nat /\ Len(tasks) = Len(locks)
    BY ShapeFacts DEF GateInv, GateTypeOK
  <1>2. \A k \in 1..branch[m] : k \in 1..Len(locks) /\ locks[k] = "released"
    BY <1>1, ShapeFacts, SMT DEF GateInv, OutcomesAreDue, PassedMeansReleased
  <1>3. \A k \in 1..branch[m] : ~Owes(k, w)
    BY <1>1, <1>2, ShapeFacts DEF TasksMatchLocks, Owes
  <1>4. Due(branch[m], w)
    BY DEF OwedInv, SeenIsDue
  <1> QED
    BY <1>3, <1>4 DEF Due

(* The output gate is honored for any number of writes, messages and       *)
(* nested transactions: a message that actor-sqlite.c++ lets out depends   *)
(* only on writes that commitCallback has confirmed, but for those made    *)
(* under a transaction that was already rolled back.                       *)
THEOREM MessagesAreConfirmed == SqliteSpec => []DeliveredIsConfirmedUnlessExposed
  <1>1. SqliteInit => StoreShape /\ OwedInv
    BY StoreShapeInit, OwedInit
  <1>2. StoreShape /\ OwedInv /\ [SqliteNext]_sqliteVars => (StoreShape /\ OwedInv)'
    BY StoreShapeStep, OwedStep
  <1>3. StoreShape /\ OwedInv => DeliveredIsConfirmedUnlessExposed
    BY OwedDelivery
  <1> QED
    BY <1>1, <1>2, <1>3, PTL DEF SqliteSpec

-----------------------------------------------------------------------------
(***************************************************************************)
(* Runs of writes.  What the file, the connection and the savepoints hold  *)
(* is a union of whole runs, but for exposed writes; the file and the      *)
(* savepoints hold nothing of the present run; the connection holds all of *)
(* it.  Once a transaction is rolled back and not yet dropped, the present *)
(* run is exposed.                                                         *)
(***************************************************************************)
Whole(S) == \A w \in S \ exposed : \A v \in 1..made : run[v] = run[w] => v \in S
Past(S) == \A w \in S \ exposed : run[w] # current

RunsStart == \A w \in 1..made : run[w] \in 1..w
RunIsPresent == \A w \in 1..made : run[w] = current => w \in working
RunIsExposed ==
    (\E i \in 1..Len(txns) : txns[i]) =>
        \A w \in 1..made : run[w] = current => w \in exposed
RunsAreWhole ==
    /\ Whole(working) /\ Whole(db) /\ Past(db)
    /\ \A i \in 1..Len(saves) : Whole(saves[i].content) /\ Past(saves[i].content)

RunsInv ==
    /\ ~running => current = 0
    /\ RunsStart /\ RunIsPresent /\ RunIsExposed /\ RunsAreWhole

LEMMA RunsInit == SqliteInit => RunsInv
  BY SMT DEF SqliteInit, RunsInv, RunsStart, RunIsPresent, RunIsExposed, RunsAreWhole, Whole,
         Past

(* One of the sets of writes that the storage keeps.                       *)
Held(S) == S \in {db, working} \/ \E i \in 1..Len(saves) : S = saves[i].content

(* A step that ends the run and makes no write: what is held stays whole.  *)
LEMMA BoundaryRuns ==
    ASSUME StoreShape, RunsInv, current' = 0, UNCHANGED <<made, run, exposed>>,
           Held(working'), Held(db'),
           \A i \in 1..Len(saves') : Held(saves'[i].content)
    PROVE  RunsInv'
  <1>1. /\ db \subseteq 1..made /\ working \subseteq 1..made
        /\ \A i \in 1..Len(saves) : saves[i].content \subseteq 1..made
    BY DEF StoreShape, Nested
  <1>2. \A w \in 1..made : run[w] # 0
    BY SMT DEF RunsInv, RunsStart, StoreShape, StoreTypes
  <1>3. ASSUME NEW S, Held(S)
        PROVE  /\ \A w \in S \ exposed : \A v \in 1..made : run[v] = run[w] => v \in S
               /\ S \subseteq 1..made
    BY <1>1, <1>3, ZenonT(60) DEF Held, RunsInv, RunsAreWhole, Whole
  <1>4. Whole(working)' /\ Whole(db)'
    BY <1>3 DEF Whole
  <1>5. Past(db)'
    BY <1>2, <1>3 DEF Past
  <1>6. \A i \in 1..Len(saves') : Whole(saves[i].content)' /\ Past(saves[i].content)'
    BY <1>2, <1>3 DEF Whole, Past
  <1>7. (~running => current = 0)'
    OBVIOUS
  <1>8. RunsStart'
    BY DEF RunsInv, RunsStart
  <1>9. RunIsPresent' /\ RunIsExposed'
    BY <1>2 DEF RunIsPresent, RunIsExposed
  <1>10. RunsAreWhole'
    BY <1>4, <1>5, <1>6 DEF RunsAreWhole
  <1> QED
    BY <1>7, <1>8, <1>9, <1>10 DEF RunsInv

LEMMA QuietRuns == ASSUME RunsInv, UNCHANGED storeVars PROVE RunsInv'
  BY DEF RunsInv, RunsStart, RunIsPresent, RunIsExposed, RunsAreWhole, Whole, Past,
         storeVars

(* Between turns no run is under way.                                      *)
LEMMA IdleRuns ==
    ASSUME StoreShape, RunsInv, ~running,
           BeginTurn \/ shutdown \/ DropRolledBack \/ GateEvents
             \/ \E k \in 1..Len(tasks) : CallbackDone(k) \/ CallbackFails(k)
    PROVE  RunsInv'
  <1>1. UNCHANGED <<made, run, current, exposed, db, working, saves>>
    BY DEF BeginTurn, shutdown, DropRolledBack, GateEvents, CallbackDone, CallbackFails,
           storeVars
  <1>2. current' = 0
    BY <1>1 DEF RunsInv
  <1> QED
    BY <1>1, <1>2, BoundaryRuns DEF Held

LEMMA EndTurnRuns == ASSUME StoreShape, RunsInv, EndTurn PROVE RunsInv'
  BY BoundaryRuns DEF EndTurn, Held

LEMMA CommitTaskRuns ==
    ASSUME StoreShape, RunsInv, NEW k \in 1..Len(tasks), CommitTask(k) PROVE RunsInv'
  <1>1. /\ UNCHANGED <<made, run, current, exposed, saves>> /\ ~running
        /\ db' \in {db, working} /\ working' \in {db, working}
    BY DEF CommitTask
  <1>2. current' = 0
    BY <1>1 DEF RunsInv
  <1> QED
    BY <1>1, <1>2, BoundaryRuns DEF Held

LEMMA StartRuns == ASSUME StoreShape, RunsInv, StartTransaction PROVE RunsInv'
  <1>0. /\ working \subseteq Writes /\ saves \in Seq(SaveRecord) /\ Len(txns) \in Nat
    BY ShapeFacts DEF StoreTypes
  <1>1. /\ UNCHANGED <<made, run, exposed, working>> /\ current' = 0
        /\ db' \in {db, working}
        /\ saves' = Append(saves, [depth |-> Len(txns), content |-> working])
    BY StartEffect
  <1>2. [depth |-> Len(txns), content |-> working] \in SaveRecord
    BY <1>0 DEF SaveRecord
  <1>3. /\ Len(saves') = Len(saves) + 1 /\ Len(saves) \in Nat
        /\ \A j \in 1..Len(saves) : saves'[j] = saves[j]
        /\ saves'[Len(saves) + 1] = [depth |-> Len(txns), content |-> working]
    BY <1>0, <1>1, <1>2, SaveAdded, ShapeFacts
  <1>4. \A i \in 1..Len(saves') : Held(saves'[i].content)
    BY <1>3, SMT DEF Held
  <1> QED
    BY <1>1, <1>4, BoundaryRuns DEF Held

LEMMA PopRuns ==
    ASSUME StoreShape, RunsInv, CommitTransaction \/ Rollback \/ Abandon
    PROVE  RunsInv'
  <1>1. /\ UNCHANGED <<made, run, exposed>> /\ current' = 0
        /\ txns # << >> /\ ~txns[Len(txns)]
        /\ \/ ReleaseSavepoint(working, Len(txns) - 1)
           \/ rollbackImpl(Len(txns) - 1)
    BY DEF CommitTransaction, Rollback, Abandon
  <1>2. Len(saves) \in 1..Len(saves)
    BY <1>1, LastSavepoint, ShapeFacts, SMTT(30)
  <1>3. PICK content \in {working, saves[Len(saves)].content} :
            ReleaseSavepoint(content, Len(txns) - 1)
    BY <1>1, LastSavepoint, ShapeFacts DEF rollbackImpl
  <1>4. Held(content)
    BY <1>2 DEF Held
  <1>5. /\ Len(saves') = Len(saves) - 1 /\ Len(saves) \in Nat
        /\ \A j \in 1..(Len(saves) - 1) : saves'[j] = saves[j]
        /\ working' = content
        /\ db' \in {content, db}
    BY <1>1, <1>3, ReleaseEffect, ShapeFacts, ZenonT(60)
  <1>6. \A i \in 1..Len(saves') : Held(saves'[i].content)
    BY <1>5, SMT DEF Held
  <1>7. Held(working') /\ Held(db')
    BY <1>4, <1>5 DEF Held
  <1> QED
    BY <1>1, <1>6, <1>7, BoundaryRuns

(* A write joins the present run or begins one of its own.  It is at once  *)
(* in the file only under a transaction that was rolled back, where it and *)
(* the present run are exposed.                                            *)
LEMMA WriteRuns ==
    ASSUME StoreShape, RunsInv, NEW sql \in BOOLEAN, Write(sql) PROVE RunsInv'
  <1>0. PICK w \in Writes : w = made + 1
    BY WriteEffect
  <1>1. /\ made \in Nat /\ current \in 0..made /\ w = made + 1
        /\ run \in [Writes -> 0..MaxWrites] /\ made' = w
        /\ db \subseteq 1..made /\ working \subseteq 1..made
        /\ \A i \in 1..Len(saves) : saves[i].content \subseteq 1..made
        /\ 1..made \subseteq Writes
    <2>1. /\ made \in 0..MaxWrites /\ current \in 0..made
          /\ run \in [Writes -> 0..MaxWrites]
      BY DEF StoreShape, StoreTypes
    <2>2. /\ db \subseteq 1..made /\ working \subseteq 1..made
          /\ \A i \in 1..Len(saves) : saves[i].content \subseteq 1..made
      BY DEF StoreShape, Nested
    <2>3. made \in Nat /\ 1..made \subseteq Writes
      BY <2>1, ActorSqliteAssumption, SMTT(30) DEF Writes
    <2>4. made' = w
      BY <1>0, WriteEffect
    <2> QED
      BY <1>0, <2>1, <2>2, <2>3, <2>4
  <1>2. /\ current' = (IF current = 0 THEN w ELSE current)
        /\ run' = [run EXCEPT ![w] = current'] /\ running
        /\ exposed' = IF \E i \in 1..Len(txns) : txns[i] THEN exposed \cup {w} ELSE exposed
    BY <1>0 DEF Write
  <1>3. /\ working' = working \cup {w} /\ txns' = txns /\ saves' = saves
        /\ running' = running
        /\ db' = db \/ (db' = working' /\ txns # << >> /\ saves = << >>)
    BY <1>0, WriteEffect
  <1>4. /\ \A v \in 1..made : run[v] \in 1..v /\ run'[v] = run[v] /\ v # w
        /\ run'[w] = current' /\ current' \in 1..w
    BY <1>1, <1>2, SMT DEF RunsInv, RunsStart
  <1>5. \A v \in 1..made : run'[v] = current' <=> run[v] = current
    <2> SUFFICES ASSUME NEW v \in 1..made PROVE run[v] = current' <=> run[v] = current
      BY <1>4
    <2>1. run[v] \in 1..v /\ v < w
      BY <1>1, <1>4, SMTT(30)
    <2>2. run[v] # 0 /\ run[v] # w
      BY <1>1, <2>1, SMT
    <2> QED
      BY <1>2, <2>2
  <1>6. \A v \in 1..made' : v \in 1..made \/ v = w
    BY <1>1, SMT
  <1>7. exposed \subseteq exposed'
    BY <1>2
  <1>8. RunsStart'
    BY <1>1, <1>4, <1>6 DEF RunsStart
  <1>9. RunIsPresent'
    BY <1>3, <1>5, <1>6 DEF RunsInv, RunIsPresent
  <1>10. RunIsExposed'
    <2> SUFFICES ASSUME \E i \in 1..Len(txns) : txns[i],
                        NEW v \in 1..made', run'[v] = current'
                 PROVE  v \in exposed'
      BY <1>3 DEF RunIsExposed
    <2>1. w \in exposed'
      BY <1>2
    <2>2. v \in 1..made => v \in exposed
      BY <1>5 DEF RunsInv, RunIsExposed
    <2> QED
      BY <1>6, <1>7, <2>1, <2>2
  <1>11. ASSUME NEW S, S \subseteq 1..made, Whole(S), Past(S)
         PROVE  /\ \A u \in S \ exposed' : run'[u] # current'
                /\ \A u \in S \ exposed' : \A v \in 1..made' : run'[v] = run'[u] => v \in S
    <2> SUFFICES ASSUME NEW u \in S \ exposed'
                 PROVE  /\ run'[u] # current'
                        /\ \A v \in 1..made' : run'[v] = run'[u] => v \in S
      OBVIOUS
    <2>1. u \in 1..made /\ u \in S \ exposed
      BY <1>7, <1>11
    <2>2. run[u] # current /\ run'[u] = run[u] /\ run'[u] # current'
      BY <1>4, <1>5, <1>11, <2>1 DEF Past
    <2>3. \A v \in 1..made : run[v] = run[u] => v \in S
      BY <1>11, <2>1 DEF Whole
    <2> QED
      BY <1>4, <1>6, <2>2, <2>3
  <1>12. Whole(working)'
    <2> SUFFICES ASSUME NEW u \in working' \ exposed', NEW v \in 1..made',
                        run'[v] = run'[u]
                 PROVE  v \in working'
      BY DEF Whole
    <2>1. CASE v = w
      BY <1>3, <2>1
    <2>2. CASE v # w /\ u = w
      <3>1. v \in 1..made /\ run[v] = current
        BY <1>4, <1>5, <1>6, <2>2
      <3> QED
        BY <1>3, <3>1 DEF RunsInv, RunIsPresent
    <2>3. CASE v # w /\ u # w
      <3>1. v \in 1..made /\ u \in working \ exposed /\ u \in 1..made
        BY <1>1, <1>3, <1>6, <1>7, <2>3
      <3>2. run[v] = run[u]
        BY <1>4, <3>1
      <3> QED
        BY <1>3, <3>1, <3>2 DEF RunsInv, RunsAreWhole, Whole
    <2> QED
      BY <2>1, <2>2, <2>3
  <1>13. Whole(db)' /\ Past(db)'
    <2>1. CASE db' = db
      BY <1>1, <1>11, <2>1, ZenonT(60) DEF RunsInv, RunsAreWhole, Whole, Past
    <2>2. CASE db' = working' /\ txns # << >> /\ saves = << >>
      <3>1. Whole(db)'
        BY <1>12, <2>2 DEF Whole
      <3>2. Len(txns) \in 1..Len(txns) /\ txns[Len(txns)]
        <4>1. Len(txns) \in Nat /\ Len(txns) # 0 /\ Len(saves) = 0
          BY <2>2, ShapeFacts
        <4> QED
          BY <4>1, SMTT(30) DEF StoreShape, Nested
      <3>3. \A v \in 1..made' : run'[v] = current' => v \in exposed'
        BY <1>3, <1>10, <3>2 DEF RunIsExposed
      <3>4. db' \subseteq 1..made'
        BY <1>1, <1>3, <2>2, SMTT(30)
      <3> QED
        BY <3>1, <3>3, <3>4 DEF Past
    <2> QED
      BY <1>3, <2>1, <2>2
  <1>14. \A i \in 1..Len(saves') : Whole(saves[i].content)' /\ Past(saves[i].content)'
    <2> SUFFICES ASSUME NEW i \in 1..Len(saves)
                 PROVE  Whole(saves[i].content)' /\ Past(saves[i].content)'
      BY <1>3
    <2>1. PICK S : S = saves[i].content
      OBVIOUS
    <2>2. S \subseteq 1..made /\ Whole(S) /\ Past(S) /\ saves'[i].content = S
      BY <1>1, <1>3, <2>1 DEF RunsInv, RunsAreWhole
    <2> QED
      BY <1>11, <2>2 DEF Whole, Past
  <1>15. RunsAreWhole'
    BY <1>12, <1>13, <1>14 DEF RunsAreWhole
  <1> QED
    BY <1>2, <1>3, <1>8, <1>9, <1>10, <1>15 DEF RunsInv

LEMMA RunsStep == StoreShape /\ RunsInv /\ [SqliteNext]_sqliteVars => RunsInv'
  <1> SUFFICES ASSUME StoreShape, RunsInv, [SqliteNext]_sqliteVars PROVE RunsInv'
    OBVIOUS
  <1>1. CASE EndTurn
    BY <1>1, EndTurnRuns
  <1>2. CASE BeginTurn \/ shutdown \/ DropRolledBack \/ GateEvents
               \/ \E k \in 1..Len(tasks) : CallbackDone(k) \/ CallbackFails(k)
    <2>1. ~running
      BY <1>2 DEF BeginTurn, shutdown, DropRolledBack, GateEvents, CallbackDone,
                  CallbackFails
    <2> QED
      BY <1>2, <2>1, IdleRuns
  <1>3. ASSUME NEW sql \in BOOLEAN, Write(sql) PROVE RunsInv'
    BY <1>3, WriteRuns
  <1>4. CASE StartTransaction
    BY <1>4, StartRuns
  <1>5. CASE CommitTransaction \/ Rollback \/ Abandon
    BY <1>5, PopRuns
  <1>6. ASSUME NEW k \in 1..Len(tasks), CommitTask(k) PROVE RunsInv'
    BY <1>6, CommitTaskRuns
  <1>7. CASE (\E m \in Messages : Send(m)) \/ UNCHANGED sqliteVars
    <2>1. UNCHANGED storeVars
      BY <1>7 DEF Send, sqliteVars
    <2> QED
      BY <2>1, QuietRuns
  <1> QED
    BY <1>1, <1>2, <1>3, <1>4, <1>5, <1>6, <1>7 DEF SqliteNext

(* There are as many savepoints as unfinished transactions: the depth of a *)
(* savepoint is a one-to-one correspondence.                               *)
LEMMA SavepointsCount ==
    ASSUME StoreShape
    PROVE  Len(saves) = Cardinality({i \in 1..Len(txns) : ~txns[i]})
  <1> DEFINE n == Len(saves)
             T == {i \in 1..Len(txns) : ~txns[i]}
             f == [i \in 1..n |-> saves[i].depth + 1]
  <1>1. n \in Nat /\ \A i \in 1..n : saves[i].depth \in Nat
    BY ShapeFacts
  <1>2. f \in [1..n -> T]
    BY DEF StoreShape, Nested
  <1>3. \A i, j \in 1..n : i # j => f[i] # f[j]
    <2> SUFFICES ASSUME NEW i \in 1..n, NEW j \in 1..n, i < j PROVE f[i] # f[j]
      BY <1>1, SMT
    <2>1. saves[i].depth < saves[j].depth
      BY DEF StoreShape, Nested
    <2> QED
      BY <1>1, <2>1, SMTT(30)
  <1>4. \A d \in T : \E i \in 1..n : f[i] = d
    BY DEF StoreShape, Nested
  <1>5. f \in Bijection(1..n, T)
    <2> HIDE DEF f, T, n
    <2>1. DOMAIN f = 1..n
      BY <1>2
    <2> QED
      BY <1>2, <1>3, <1>4, <2>1 DEF Bijection, Injection, Surjection, IsInjective
  <1>6. ExistsBijection(1..n, T)
    BY <1>5 DEF ExistsBijection
  <1> HIDE DEF f, T, n
  <1>7. Cardinality(T) = n
    BY <1>1, <1>6, FS_CountingElements
  <1> QED
    BY <1>7 DEF T, n

(* Objects and database agree on which transaction is open.                *)
LEMMA ShapeAgrees == ASSUME StoreShape PROVE TransactionsAgree
  <1>1. ~brokenDb => (opened # "no" <=> implicit # 0 \/ saves # << >>)
    BY DEF StoreShape, InTransaction
  <1>2. implicit # 0 => txns = << >> /\ tasks[implicit].phase = "scheduled"
                        /\ ~tasks[implicit].committed
    BY DEF StoreShape, InTransaction
  <1>3. /\ \A i \in 1..Len(saves) : ~txns[saves[i].depth + 1]
        /\ \A i, j \in 1..Len(saves) : i < j => saves[i].depth < saves[j].depth
    BY DEF StoreShape, Nested
  <1> QED
    BY <1>1, <1>2, <1>3, SavepointsCount DEF TransactionsAgree

(* Writes with no await and no transaction boundary between them reach the *)
(* file together, and currentTxn always tells the transaction that SQLite  *)
(* is in: for any number of writes and any depth of nesting.               *)
THEOREM TransactionsStaySound == SqliteSpec => []TransactionsAreSound
  <1>1. SqliteInit => StoreShape /\ RunsInv
    BY StoreShapeInit, RunsInit
  <1>2. StoreShape /\ RunsInv /\ [SqliteNext]_sqliteVars => (StoreShape /\ RunsInv)'
    BY StoreShapeStep, RunsStep
  <1>3. StoreShape /\ RunsInv => TransactionsAreSound
    <2> SUFFICES ASSUME StoreShape, RunsInv PROVE TransactionsAreSound
      OBVIOUS
    <2>1. RunsAreAtomicUnlessExposed
      BY DEF RunsInv, RunsAreWhole, Whole, Past, RunsAreAtomicUnlessExposed, Atomic
    <2> QED
      BY <2>1, ShapeAgrees DEF TransactionsAreSound
  <1> QED
    BY <1>1, <1>2, <1>3, PTL DEF SqliteSpec

(* Every variable of the storage keeps its type.                           *)
THEOREM SqliteTypeCorrect == SqliteSpec => []SqliteTypeOK
  <1>1. StoreShape => SqliteTypeOK
    <2> SUFFICES ASSUME StoreShape PROVE SqliteTypeOK
      OBVIOUS
    <2>1. GateTypeOK
      BY DEF StoreShape, GateInv
    <2>2. \A k \in 1..Len(tasks) : /\ tasks[k].phase \in TaskPhases
                                   /\ tasks[k].committed \in BOOLEAN
                                   /\ tasks[k].covers \subseteq Writes
      BY ShapeFacts DEF TaskRecord
    <2>3. \A i \in 1..Len(saves) : /\ saves[i].depth \in 0..(MaxDepth - 1)
                                   /\ saves[i].content \subseteq Writes
      BY ShapeFacts, ActorSqliteAssumption, SMTT(30) DEF SaveRecord, StoreTypes, Nested
    <2> QED
      BY <2>1, <2>2, <2>3 DEF StoreShape, StoreTypes, SqliteTypeOK
  <1> QED
    BY <1>1, StoreShapeInit, StoreShapeStep, PTL DEF SqliteSpec
=============================================================================
