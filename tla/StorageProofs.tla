--------------------------- MODULE StorageProofs ---------------------------
(***************************************************************************)
(* Proofs about the output gate and about the storage on SQLite that runs  *)
(* behind it.                                                              *)
(***************************************************************************)
EXTENDS ActorSqlite, TLAPS

(* Most leaves are first-order reasoning about sets and functions, which   *)
(* Zenon does best; a leaf that needs arithmetic names SMT.                *)
USE Zenon

-----------------------------------------------------------------------------
(***************************************************************************)
(* The inductive invariant of the output gate: a join that is ready stands *)
(* for locks that have all been released, and one with an error for a lock *)
(* that failed.  As the states "released" and "failed" are final, what a   *)
(* join said when a message asked stays true.                              *)
(***************************************************************************)
JoinsAreDue ==
    \A k \in 1..Len(locks) :
        /\ joined[k] = "ready" => \A j \in 1..k : locks[j] = "released"
        /\ joined[k] = "error" => \E j \in 1..k : locks[j] = "failed"

GateInv == GateTypeOK /\ JoinsAreDue /\ OutcomesAreDue

LEMMA GateInitInv == GateInit => GateInv
  BY OutputGateAssumption, SMT
  DEF GateInit, GateInv, GateTypeOK, JoinsAreDue, OutcomesAreDue, PassedMeansReleased,
      RejectedMeansFailed, BrokenMeansFailed, LockStates, JoinStates, ResultStates

(* The value of pastLocksPromise that a message waits for says what became *)
(* of the locks before it.                                                 *)
LEMMA PastLocksAreDue ==
    ASSUME GateInv, NEW k \in 0..Len(locks)
    PROVE  /\ PastLocks(k) \in JoinStates
           /\ PastLocks(k) = "ready" => \A j \in 1..k : locks[j] = "released"
           /\ PastLocks(k) = "error" => \E j \in 1..k : locks[j] = "failed"
  <1>1. CASE k = 0
    BY <1>1, SMT DEF PastLocks, JoinStates
  <1>2. CASE k # 0
    <2>1. k \in 1..Len(locks) /\ k \in 1..Len(joined)
      BY <1>2, SMT DEF GateInv, GateTypeOK
    <2>2. joined[k] \in JoinStates
      BY <2>1, SMT DEF GateInv, GateTypeOK
    <2> QED
      BY <1>2, <2>1, <2>2 DEF PastLocks, GateInv, JoinsAreDue
  <1> QED
    BY <1>1, <1>2

(* lockWhile() changes nothing about the locks that were there.            *)
LEMMA LockWhileInv == ASSUME GateInv, lockWhile PROVE GateInv'
  <1> DEFINE n == Len(locks)
  <1>0. /\ locks \in Seq(LockStates) /\ joined \in Seq(JoinStates)
        /\ Len(joined) = n /\ n \in Nat
        /\ result \in [Messages -> ResultStates]
        /\ branch \in [Messages -> 0..n]
    BY SMT DEF GateInv, GateTypeOK
  <1>1. /\ locks' = Append(locks, "held") /\ joined' = Append(joined, "pending")
        /\ result' = result /\ branch' = branch
        /\ brokenState' = brokenState /\ onBrokenPromise' = onBrokenPromise
    BY DEF lockWhile
  <1>2. /\ locks' \in Seq(LockStates) /\ Len(locks') = n + 1
        /\ joined' \in Seq(JoinStates) /\ Len(joined') = n + 1
    BY <1>0, <1>1, SMT DEF LockStates, JoinStates
  <1>3. /\ \A j \in 1..n : locks'[j] = locks[j] /\ joined'[j] = joined[j]
        /\ locks'[n + 1] = "held" /\ joined'[n + 1] = "pending"
    BY <1>0, <1>1, SMT
  <1>4. \A m \in Messages : branch[m] \in 0..n /\ branch[m] \in 0..(n + 1)
    BY <1>0, SMT
  <1> HIDE DEF n
  <1>5. GateTypeOK'
    BY <1>0, <1>1, <1>2, <1>4 DEF GateInv, GateTypeOK
  <1>6. JoinsAreDue'
    <2> SUFFICES ASSUME NEW k \in 1..(n + 1)
                 PROVE  /\ joined'[k] = "ready" =>
                              \A j \in 1..k : locks'[j] = "released"
                        /\ joined'[k] = "error" =>
                              \E j \in 1..k : locks'[j] = "failed"
      BY <1>2 DEF JoinsAreDue
    <2>1. CASE k = n + 1
      BY <2>1, <1>3
    <2>2. CASE k \in 1..n
      <3>1. \A j \in 1..k : j \in 1..n
        BY <1>0, <2>2, SMT
      <3> QED
        BY <1>3, <2>2, <3>1 DEF GateInv, JoinsAreDue, n
    <2> QED
      BY <1>0, <2>1, <2>2, SMT
  <1>7. \A m \in Messages : \A j \in 1..branch[m] : locks'[j] = locks[j]
    BY <1>0, <1>3, <1>4, SMT
  <1>8. PassedMeansReleased' /\ RejectedMeansFailed'
    <2> SUFFICES ASSUME NEW m \in Messages
                 PROVE  /\ result[m] = "passed" =>
                              \A k \in 1..branch[m] : locks'[k] = "released"
                        /\ result[m] = "rejected" =>
                              \E k \in 1..branch[m] : locks'[k] = "failed"
      BY <1>1 DEF PassedMeansReleased, RejectedMeansFailed
    <2> QED
      BY <1>7, SMT DEF GateInv, OutcomesAreDue, PassedMeansReleased, RejectedMeansFailed
  <1>9. (\E k \in 1..Len(locks') : locks'[k] = "failed")
            <=> (\E k \in 1..Len(locks) : locks[k] = "failed")
    <2>1. \A k \in 1..(n + 1) : locks'[k] = "failed" => k \in 1..n
      BY <1>0, <1>3, SMT
    <2>2. \A k \in 1..n : k \in 1..(n + 1)
      BY <1>0, SMT
    <2> QED
      BY <1>2, <1>3, <2>1, <2>2 DEF n
  <1>10. BrokenMeansFailed'
    BY <1>1, <1>9 DEF GateInv, OutcomesAreDue, BrokenMeansFailed
  <1> QED
    BY <1>5, <1>6, <1>8, <1>10 DEF GateInv, OutcomesAreDue

(* Only the state of a held lock changes when it ends.                     *)
LEMMA LockEndsInv ==
    ASSUME GateInv, NEW k \in 1..Len(locks), NEW to \in {"released", "failed"},
           locks[k] = "held", locks' = [locks EXCEPT ![k] = to],
           UNCHANGED <<joined, result, branch>>,
           IF to = "released"
           THEN UNCHANGED <<brokenState, onBrokenPromise>>
           ELSE /\ brokenState' = "exception"
                /\ onBrokenPromise' = IF brokenState = "fulfiller" THEN "rejected"
                                                               ELSE onBrokenPromise
    PROVE  GateInv'
  <1> DEFINE n == Len(locks)
  <1>0. /\ locks \in Seq(LockStates) /\ joined \in Seq(JoinStates)
        /\ Len(joined) = n /\ n \in Nat /\ k \in 1..n
        /\ result \in [Messages -> ResultStates]
        /\ branch \in [Messages -> 0..n]
        /\ brokenState \in {"unset", "fulfiller", "exception"}
        /\ onBrokenPromise \in {"none", "pending", "rejected"}
    BY SMT DEF GateInv, GateTypeOK
  <1>1. /\ joined' = joined /\ result' = result /\ branch' = branch
    OBVIOUS
  <1>2. locks' \in Seq(LockStates) /\ Len(locks') = n
    BY <1>0, SMT DEF LockStates
  <1>3. \A j \in 1..n : locks'[j] = IF j = k THEN to ELSE locks[j]
    BY <1>0, SMT
  <1>4. \A j \in 1..n : /\ locks[j] = "released" => locks'[j] = "released"
                        /\ locks[j] = "failed" => locks'[j] = "failed"
    BY <1>3
  <1> HIDE DEF n
  <1>5. GateTypeOK'
    BY <1>0, <1>1, <1>2 DEF GateTypeOK
  <1>6. JoinsAreDue'
    <2> SUFFICES ASSUME NEW i \in 1..n
                 PROVE  /\ joined[i] = "ready" =>
                              \A j \in 1..i : locks'[j] = "released"
                        /\ joined[i] = "error" =>
                              \E j \in 1..i : locks'[j] = "failed"
      BY <1>1, <1>2 DEF JoinsAreDue
    <2>1. \A j \in 1..i : j \in 1..n
      BY <1>0, SMT
    <2> QED
      BY <1>4, <2>1 DEF GateInv, JoinsAreDue, n
  <1>7. \A m \in Messages : \A j \in 1..branch[m] : j \in 1..n
    BY <1>0, SMT
  <1>8. PassedMeansReleased' /\ RejectedMeansFailed'
    BY <1>1, <1>4, <1>7
    DEF GateInv, OutcomesAreDue, PassedMeansReleased, RejectedMeansFailed
  <1>9. CASE to = "released"
    <2>1. (\E j \in 1..Len(locks') : locks'[j] = "failed")
            <=> (\E j \in 1..Len(locks) : locks[j] = "failed")
      BY <1>9, <1>2, <1>3 DEF n
    <2>2. BrokenMeansFailed'
      BY <1>9, <2>1 DEF GateInv, OutcomesAreDue, BrokenMeansFailed
    <2> QED
      BY <1>5, <1>6, <1>8, <2>2 DEF GateInv, OutcomesAreDue
  <1>10. CASE to = "failed"
    <2>1. \E j \in 1..Len(locks') : locks'[j] = "failed"
      BY <1>10, <1>0, <1>2, <1>3
    <2>2. BrokenMeansFailed'
      BY <1>10, <2>1, <1>0 DEF GateInv, OutcomesAreDue, BrokenMeansFailed
    <2> QED
      BY <1>5, <1>6, <1>8, <2>2 DEF GateInv, OutcomesAreDue
  <1> QED
    BY <1>9, <1>10

LEMMA UnlockInv == ASSUME GateInv, NEW k \in 1..Len(locks), Unlock(k) PROVE GateInv'
  BY LockEndsInv DEF Unlock

LEMMA BreakLockInv ==
    ASSUME GateInv, NEW k \in 1..Len(locks), BreakLock(k) PROVE GateInv'
  BY LockEndsInv DEF BreakLock

(* A join of what the earlier locks came to with the next lock is due.     *)
LEMMA JoinInv == ASSUME GateInv, NEW k \in 1..Len(locks), Join(k) PROVE GateInv'
  <1> DEFINE n == Len(locks)
             to == IF PastLocks(k - 1) = "ready" /\ locks[k] = "released"
                   THEN "ready" ELSE "error"
  <1>0. /\ locks \in Seq(LockStates) /\ joined \in Seq(JoinStates)
        /\ Len(joined) = n /\ n \in Nat /\ k \in 1..n /\ k - 1 \in 0..n
    BY SMT DEF GateInv, GateTypeOK
  <1>1. /\ joined' = [joined EXCEPT ![k] = to] /\ locks' = locks
        /\ result' = result /\ branch' = branch
        /\ brokenState' = brokenState /\ onBrokenPromise' = onBrokenPromise
        /\ PastLocks(k - 1) # "pending" /\ locks[k] # "held"
    BY DEF Join
  <1>2. to \in JoinStates
    BY DEF JoinStates
  <1>3. /\ to = "ready" => \A j \in 1..k : locks[j] = "released"
        /\ to = "error" => \E j \in 1..k : locks[j] = "failed"
    <2>1. locks[k] \in {"released", "failed"}
      BY <1>0, <1>1, SMT DEF LockStates
    <2>2. PastLocks(k - 1) \in {"ready", "error"}
      BY <1>0, <1>1, PastLocksAreDue DEF JoinStates
    <2>3. \A j \in 1..k : j = k \/ j \in 1..(k - 1)
      BY <1>0, SMT
    <2>4. \A j \in 1..(k - 1) : j \in 1..k
      BY <1>0, SMT
    <2>5. k \in 1..k
      BY <1>0, SMT
    <2> QED
      BY <1>0, <2>1, <2>2, <2>3, <2>4, <2>5, PastLocksAreDue
  <1> HIDE DEF to
  <1>4. /\ joined' \in Seq(JoinStates) /\ Len(joined') = n
        /\ \A j \in 1..n : joined'[j] = IF j = k THEN to ELSE joined[j]
    BY <1>0, <1>1, <1>2, SMT
  <1>5. GateTypeOK'
    BY <1>0, <1>1, <1>4 DEF GateInv, GateTypeOK
  <1>6. JoinsAreDue'
    BY <1>1, <1>3, <1>4, SMT DEF GateInv, JoinsAreDue
  <1>7. OutcomesAreDue'
    BY <1>1 DEF GateInv, OutcomesAreDue, PassedMeansReleased, RejectedMeansFailed,
                BrokenMeansFailed
  <1> QED
    BY <1>5, <1>6, <1>7 DEF GateInv

LEMMA WaitInv == ASSUME GateInv, NEW m \in Messages, wait(m) PROVE GateInv'
  <1>0. /\ result \in [Messages -> ResultStates] /\ locks \in Seq(LockStates)
        /\ branch \in [Messages -> 0..Len(locks)]
    BY DEF GateInv, GateTypeOK
  <1>1. /\ locks' = locks /\ joined' = joined
        /\ brokenState' = brokenState /\ onBrokenPromise' = onBrokenPromise
        /\ result' = [result EXCEPT ![m] = "waiting"]
        /\ branch' = [branch EXCEPT ![m] = Len(locks)]
    BY DEF wait
  <1>2. /\ result' \in [Messages -> ResultStates]
        /\ branch' \in [Messages -> 0..Len(locks)]
        /\ \A x \in Messages : x # m => result'[x] = result[x] /\ branch'[x] = branch[x]
        /\ result'[m] = "waiting"
    BY <1>0, <1>1, SMT DEF ResultStates
  <1>3. GateTypeOK' /\ JoinsAreDue' /\ BrokenMeansFailed'
    BY <1>1, <1>2, SMTT(30) DEF GateInv, GateTypeOK, JoinsAreDue, OutcomesAreDue, BrokenMeansFailed
  <1>4. PassedMeansReleased' /\ RejectedMeansFailed'
    BY <1>1, <1>2, SMT
    DEF GateInv, OutcomesAreDue, PassedMeansReleased, RejectedMeansFailed
  <1> QED
    BY <1>3, <1>4 DEF GateInv, OutcomesAreDue

LEMMA SettleInv == ASSUME GateInv, NEW m \in Messages, Settle(m) PROVE GateInv'
  <1> DEFINE to == IF PastLocks(branch[m]) = "ready" THEN "passed" ELSE "rejected"
  <1>0. /\ result \in [Messages -> ResultStates]
        /\ branch[m] \in 0..Len(locks)
    BY DEF GateInv, GateTypeOK
  <1>1. /\ locks' = locks /\ joined' = joined /\ branch' = branch
        /\ brokenState' = brokenState /\ onBrokenPromise' = onBrokenPromise
        /\ result' = [result EXCEPT ![m] = to]
        /\ PastLocks(branch[m]) # "pending"
    BY DEF Settle
  <1>2. /\ to \in {"passed", "rejected"}
        /\ to = "passed" => \A j \in 1..branch[m] : locks[j] = "released"
        /\ to = "rejected" => \E j \in 1..branch[m] : locks[j] = "failed"
    BY <1>0, <1>1, PastLocksAreDue DEF JoinStates
  <1> HIDE DEF to
  <1>3. /\ result' \in [Messages -> ResultStates]
        /\ \A x \in Messages : result'[x] = IF x = m THEN to ELSE result[x]
    BY <1>0, <1>1, <1>2 DEF ResultStates
  <1>4. GateTypeOK' /\ JoinsAreDue' /\ BrokenMeansFailed'
    BY <1>1, <1>3 DEF GateInv, GateTypeOK, JoinsAreDue, OutcomesAreDue, BrokenMeansFailed
  <1>5. PassedMeansReleased' /\ RejectedMeansFailed'
    BY <1>1, <1>2, <1>3
    DEF GateInv, OutcomesAreDue, PassedMeansReleased, RejectedMeansFailed
  <1> QED
    BY <1>4, <1>5 DEF GateInv, OutcomesAreDue

LEMMA GateEventInv == ASSUME GateInv, GateEvent PROVE GateInv'
  BY JoinInv, SettleInv DEF GateEvent

LEMMA OnBrokenInv == ASSUME GateInv, onBroken PROVE GateInv'
  BY ZenonT(60) DEF GateInv, GateTypeOK, JoinsAreDue, OutcomesAreDue, PassedMeansReleased,
         RejectedMeansFailed, BrokenMeansFailed, onBroken

LEMMA GateUnchangedInv == ASSUME GateInv, UNCHANGED gateVars PROVE GateInv'
  BY ZenonT(60) DEF gateVars, GateInv, GateTypeOK, JoinsAreDue, OutcomesAreDue,
         PassedMeansReleased, RejectedMeansFailed, BrokenMeansFailed

(***************************************************************************)
(* Whatever the order in which locks end and joins run, a message that     *)
(* passes the gate follows only released locks, one that is refused        *)
(* follows a failed lock, and the gate is broken exactly when a lock has   *)
(* failed, for any number of messages and locks.                           *)
(***************************************************************************)
THEOREM GateOutcomesAreDue == GateSpec => []OutcomesAreDue
  <1>1. GateInv /\ [GateNext]_gateVars => GateInv'
    <2> SUFFICES ASSUME GateInv, [GateNext]_gateVars PROVE GateInv'
      OBVIOUS
    <2>1. CASE lockWhile
      BY <2>1, LockWhileInv
    <2>2. ASSUME NEW k \in 1..Len(locks), Unlock(k) \/ BreakLock(k) PROVE GateInv'
      BY <2>2, UnlockInv, BreakLockInv
    <2>3. ASSUME NEW m \in Messages, wait(m) PROVE GateInv'
      BY <2>3, WaitInv
    <2>4. CASE GateEvent
      BY <2>4, GateEventInv
    <2>5. CASE onBroken
      BY <2>5, OnBrokenInv
    <2>6. CASE UNCHANGED gateVars
      BY <2>6, GateUnchangedInv
    <2> QED
      BY <2>1, <2>2, <2>3, <2>4, <2>5, <2>6 DEF GateNext
  <1>2. GateInv => OutcomesAreDue
    BY DEF GateInv
  <1> QED
    BY <1>1, <1>2, GateInitInv, PTL DEF GateSpec

-----------------------------------------------------------------------------
(* The empty sequence is the one of length zero.                           *)
LEMMA EmptyLen ==
    ASSUME NEW S, NEW s \in Seq(S)
    PROVE  Len(s) \in Nat /\ (s = << >> <=> Len(s) = 0)
  BY SMT

(***************************************************************************)
(* Storage on SQLite.  The shape of its state: task k runs under lock k of *)
(* the gate, and only the ImplicitTxn that is current has a task that is   *)
(* scheduled and not committed.                                            *)
(***************************************************************************)
TaskRecord == [phase : TaskPhases, committed : BOOLEAN, covers : SUBSET Writes]
SaveRecord == [depth : Nat, content : SUBSET Writes]

StoreTypes ==
    /\ running \in BOOLEAN /\ brokenDb \in BOOLEAN
    /\ made \in 0..MaxWrites /\ current \in 0..made
    /\ run \in [Writes -> 0..MaxWrites]
    /\ implicit \in 0..Len(locks)
    /\ txns \in Seq(BOOLEAN) /\ Len(txns) <= MaxDepth
    /\ tasks \in Seq(TaskRecord) /\ Len(tasks) = Len(locks)
    /\ db \subseteq Writes /\ working \subseteq Writes
    /\ opened \in {"no", "begin", "savepoint"}
    /\ saves \in Seq(SaveRecord)
    /\ confirmed \subseteq Writes /\ exposed \subseteq Writes
    /\ seen \in [Messages -> SUBSET Writes]

TasksMatchLocks ==
    \A k \in 1..Len(tasks) :
        /\ tasks[k].phase = "done" <=> locks[k] # "held"
        /\ tasks[k].phase = "scheduled" /\ ~tasks[k].committed => k = implicit

(* The savepoints are those of the unfinished transactions, from the       *)
(* outermost inwards, and the file, the savepoints and the connection hold *)
(* more and more.                                                          *)
Nested ==
    /\ \A i \in 1..Len(saves) :
          /\ saves[i].depth + 1 \in 1..Len(txns) /\ ~txns[saves[i].depth + 1]
          /\ db \subseteq saves[i].content /\ saves[i].content \subseteq working
    /\ \A i, j \in 1..Len(saves) : i < j =>
          /\ saves[i].depth < saves[j].depth
          /\ saves[i].content \subseteq saves[j].content
    /\ \A d \in 1..Len(txns) :
          ~txns[d] => \E i \in 1..Len(saves) : saves[i].depth + 1 = d
    /\ db \subseteq working /\ working \subseteq 1..made

(* Which transaction SQLite is in, as far as the code relies on it.  Once  *)
(* the storage is broken, one may be left open.                            *)
InTransaction ==
    /\ saves # << >> => opened = "savepoint"
    /\ implicit # 0 => /\ opened = "begin" /\ txns = << >>
                       /\ tasks[implicit].phase = "scheduled"
                       /\ ~tasks[implicit].committed
    /\ ~brokenDb /\ opened # "no" => implicit # 0 \/ saves # << >>

StoreShape == GateInv /\ StoreTypes /\ TasksMatchLocks /\ Nested /\ InTransaction

LEMMA StoreShapeInit == SqliteInit => StoreShape
  <1> SUFFICES ASSUME SqliteInit PROVE StoreShape
    OBVIOUS
  <1>1. GateInv
    BY GateInitInv DEF SqliteInit
  <1>2. StoreTypes
    <2>0. /\ made \in 0..MaxWrites /\ current \in 0..made
          /\ run \in [Writes -> 0..MaxWrites]
      BY ActorSqliteAssumption, SMT DEF SqliteInit
    <2>1. /\ running \in BOOLEAN /\ brokenDb \in BOOLEAN
          /\ opened \in {"no", "begin", "savepoint"}
          /\ seen \in [Messages -> SUBSET Writes]
          /\ db \subseteq Writes /\ working \subseteq Writes
          /\ confirmed \subseteq Writes /\ exposed \subseteq Writes
      BY DEF SqliteInit
    <2>2. locks = << >> /\ txns = << >> /\ tasks = << >> /\ saves = << >> /\ implicit = 0
      BY DEF SqliteInit, GateInit
    <2>3. /\ implicit \in 0..Len(locks) /\ Len(tasks) = Len(locks)
          /\ txns \in Seq(BOOLEAN) /\ Len(txns) <= MaxDepth
      BY <2>2, ActorSqliteAssumption, SMT
    <2>4. tasks \in Seq(TaskRecord) /\ saves \in Seq(SaveRecord)
      BY <2>2, SMT
    <2> QED
      BY <2>0, <2>1, <2>3, <2>4 DEF StoreTypes
  <1>3. TasksMatchLocks /\ Nested /\ InTransaction
    BY SMT DEF SqliteInit, TasksMatchLocks, Nested, InTransaction
  <1> QED
    BY <1>1, <1>2, <1>3 DEF StoreShape

(* The savepoint of the innermost transaction, when that is unfinished, is *)
(* the last on the stack: RELEASE and ROLLBACK TO find their own.          *)
LEMMA LastSavepoint ==
    ASSUME StoreTypes, Nested, txns # << >>, ~txns[Len(txns)]
    PROVE  /\ Len(saves) \in Nat /\ Len(saves) >= 1 /\ Len(txns) \in Nat
           /\ Len(txns) >= 1
           /\ SavepointAt(Len(txns) - 1) = Len(saves)
           /\ saves[Len(saves)].depth = Len(txns) - 1
  <1> DEFINE n == Len(saves)
             t == Len(txns)
  <1>1. /\ n \in Nat /\ t \in Nat /\ t >= 1
        /\ \A i \in 1..n : saves[i].depth \in Nat
    <2>1. saves \in Seq(SaveRecord) /\ txns \in Seq(BOOLEAN)
      BY DEF StoreTypes
    <2>2. t # 0
      BY <2>1, EmptyLen
    <2> QED
      <3>1. \A i \in 1..n : saves[i] \in SaveRecord
        BY <2>1, SMT
      <3>2. \A i \in 1..n : saves[i].depth \in Nat
        BY <3>1 DEF SaveRecord
      <3>3. n \in Nat /\ t \in Nat
        BY <2>1, EmptyLen
      <3> QED
        BY <2>2, <3>2, <3>3, SMT
  <1>2. PICK i \in 1..n : saves[i].depth + 1 = t
    BY <1>1, SMT DEF Nested
  <1>3. n \in 1..n
    BY <1>1, <1>2, SMT
  <1>4. saves[n].depth + 1 <= t
    BY <1>1, <1>3, SMT DEF Nested
  <1>5. ~(i < n)
    BY <1>1, <1>2, <1>3, <1>4, SMTT(30) DEF Nested
  <1>6. i = n
    BY <1>1, <1>2, <1>5, SMT
  <1>7. saves[n].depth = t - 1
    BY <1>1, <1>2, <1>3, <1>6, SMT
  <1>8. \A j \in 1..n : saves[j].depth = t - 1 => j = n
    BY <1>1, <1>3, <1>7, SMT DEF Nested
  <1>9. /\ n \in 1..n /\ saves[n].depth = t - 1
        /\ \A j \in (n + 1)..n : saves[j].depth # t - 1
    BY <1>1, <1>3, <1>7, SMT
  <1>10. SavepointAt(t - 1) = n
    BY <1>8, <1>9 DEF SavepointAt
  <1> QED
    BY <1>1, <1>3, <1>7, <1>10, SMT

(* RELEASE of that savepoint with the connection seeing content.           *)
LEMMA ReleaseEffect ==
    ASSUME StoreTypes, Nested, InTransaction, txns # << >>, ~txns[Len(txns)],
           NEW content, ReleaseSavepoint(content, Len(txns) - 1)
    PROVE  /\ saves' \in Seq(SaveRecord) /\ Len(saves') = Len(saves) - 1
           /\ \A j \in 1..(Len(saves) - 1) : saves'[j] = saves[j]
           /\ working' = content
           /\ db' = IF Len(saves) = 1 THEN content ELSE db
           /\ opened' = IF Len(saves) = 1 THEN "no" ELSE "savepoint"
  <1> DEFINE n == Len(saves)
  <1>1. n \in Nat /\ n >= 1 /\ SavepointAt(Len(txns) - 1) = n
    BY LastSavepoint
  <1>2. opened = "savepoint"
    BY <1>1, SMT DEF InTransaction
  <1>3. saves' = SubSeq(saves, 1, n - 1)
    BY <1>1 DEF ReleaseSavepoint
  <1>4. saves \in Seq(SaveRecord)
    BY DEF StoreTypes
  <1>5. /\ saves' \in Seq(SaveRecord) /\ Len(saves') = n - 1
        /\ \A j \in 1..(n - 1) : saves'[j] = saves[j]
    BY <1>1, <1>3, <1>4, SMT
  <1>6. /\ working' = content
        /\ db' = IF n = 1 THEN content ELSE db
        /\ opened' = IF n = 1 THEN "no" ELSE opened
    BY <1>1, <1>2 DEF ReleaseSavepoint
  <1> QED
    BY <1>2, <1>5, <1>6

(* What the proofs about a step keep needing.                              *)
LEMMA ShapeFacts ==
    ASSUME StoreShape
    PROVE  /\ GateInv /\ StoreTypes /\ TasksMatchLocks /\ Nested /\ InTransaction
           /\ Len(locks) \in Nat /\ Len(tasks) = Len(locks)
           /\ Len(saves) \in Nat /\ Len(txns) \in Nat
           /\ (saves = << >> <=> Len(saves) = 0)
           /\ (txns = << >> <=> Len(txns) = 0)
           /\ \A k \in 1..Len(tasks) : tasks[k] \in TaskRecord
           /\ \A i \in 1..Len(saves) : saves[i] \in SaveRecord
           /\ \A i \in 1..Len(saves) : saves[i].depth \in Nat
           /\ txns = << >> => saves = << >>
           /\ implicit # 0 => implicit \in 1..Len(tasks)
  <1>1. /\ GateInv /\ StoreTypes /\ TasksMatchLocks /\ Nested /\ InTransaction
    BY DEF StoreShape
  <1>2. /\ locks \in Seq(LockStates) /\ tasks \in Seq(TaskRecord)
        /\ saves \in Seq(SaveRecord) /\ txns \in Seq(BOOLEAN)
        /\ Len(tasks) = Len(locks) /\ implicit \in 0..Len(locks)
    BY <1>1 DEF GateInv, GateTypeOK, StoreTypes
  <1>3. /\ Len(locks) \in Nat
        /\ Len(saves) \in Nat /\ Len(txns) \in Nat
        /\ (saves = << >> <=> Len(saves) = 0)
        /\ (txns = << >> <=> Len(txns) = 0)
    BY <1>2, EmptyLen
  <1>4. /\ \A k \in 1..Len(tasks) : tasks[k] \in TaskRecord
        /\ \A i \in 1..Len(saves) : saves[i] \in SaveRecord
    BY <1>2, SMT
  <1>5. \A i \in 1..Len(saves) : saves[i].depth \in Nat
    BY <1>4 DEF SaveRecord
  <1>6. ASSUME Len(txns) = 0, Len(saves) # 0 PROVE FALSE
    <2>1. 1 \in 1..Len(saves)
      BY <1>3, <1>6, SMT
    <2>2. saves[1].depth + 1 \in 1..0
      BY <1>1, <1>6, <2>1 DEF Nested
    <2> QED
      BY <2>2, SMT
  <1>7. implicit # 0 => implicit \in 1..Len(tasks)
    BY <1>2, <1>3, SMT
  <1> QED
    BY <1>1, <1>2, <1>3, <1>4, <1>5, <1>6, <1>7

(* A task is replaced by another, or one is added.                         *)
LEMMA TaskReplaced ==
    ASSUME tasks \in Seq(TaskRecord), NEW k \in 1..Len(tasks), NEW t \in TaskRecord,
           tasks' = [tasks EXCEPT ![k] = t]
    PROVE  /\ tasks' \in Seq(TaskRecord) /\ Len(tasks') = Len(tasks)
           /\ \A j \in 1..Len(tasks) : tasks'[j] = IF j = k THEN t ELSE tasks[j]
  BY SMT

LEMMA TaskAdded ==
    ASSUME tasks \in Seq(TaskRecord), NEW t \in TaskRecord, tasks' = Append(tasks, t)
    PROVE  /\ tasks' \in Seq(TaskRecord) /\ Len(tasks') = Len(tasks) + 1
           /\ \A j \in 1..Len(tasks) : tasks'[j] = tasks[j]
           /\ tasks'[Len(tasks) + 1] = t
  BY SMT

(* The same for the locks of the gate.                                     *)
LEMMA LockAdded ==
    ASSUME GateInv, lockWhile
    PROVE  /\ Len(locks') = Len(locks) + 1
           /\ \A j \in 1..Len(locks) : locks'[j] = locks[j]
           /\ locks'[Len(locks) + 1] = "held"
  BY SMT DEF GateInv, GateTypeOK, lockWhile

LEMMA LockReplaced ==
    ASSUME GateInv, NEW k \in 1..Len(locks), NEW to, locks' = [locks EXCEPT ![k] = to]
    PROVE  /\ Len(locks') = Len(locks)
           /\ \A j \in 1..Len(locks) : locks'[j] = IF j = k THEN to ELSE locks[j]
  BY SMT DEF GateInv, GateTypeOK

(* Steps that leave the transactions and their tasks alone.                *)
LEMMA QuietShape ==
    ASSUME StoreShape, GateInv', StoreTypes', locks' = locks,
           UNCHANGED <<made, implicit, txns, tasks, db, working, opened, saves>>,
           brokenDb => brokenDb'
    PROVE  StoreShape'
  BY DEF StoreShape, TasksMatchLocks, Nested, InTransaction

LEMMA TurnShape ==
    ASSUME StoreShape, BeginTurn \/ EndTurn \/ shutdown PROVE StoreShape'
  <1>1. GateInv' /\ locks' = locks
    BY GateUnchangedInv, ShapeFacts DEF BeginTurn, EndTurn, shutdown, gateVars
  <1>2. /\ UNCHANGED <<made, implicit, txns, tasks, db, working, opened, saves,
                       run, confirmed, exposed, seen>>
        /\ brokenDb => brokenDb'
    BY SMT DEF BeginTurn, EndTurn, shutdown
  <1>3. running' \in BOOLEAN /\ brokenDb' \in BOOLEAN /\ current' \in {current, 0}
    BY DEF StoreShape, StoreTypes, BeginTurn, EndTurn, shutdown
  <1>4. current' \in 0..made
    BY <1>3, SMT DEF StoreShape, StoreTypes
  <1>5. StoreTypes'
    BY <1>1, <1>2, <1>3, <1>4 DEF StoreShape, StoreTypes
  <1> QED
    BY <1>1, <1>2, <1>5, QuietShape

LEMMA GateEventsShape == ASSUME StoreShape, GateEvents PROVE StoreShape'
  <1>1. GateInv'
    BY GateEventInv, ShapeFacts DEF GateEvents
  <1>2. locks' = locks
    BY DEF GateEvents, GateEvent, Join, Settle
  <1>3. UNCHANGED <<storeVars, seen>>
    BY DEF GateEvents
  <1>4. StoreTypes'
    BY <1>2, <1>3 DEF StoreShape, StoreTypes, storeVars
  <1> QED
    BY <1>1, <1>2, <1>3, <1>4, QuietShape DEF storeVars

LEMMA SendShape == ASSUME StoreShape, NEW m \in Messages, Send(m) PROVE StoreShape'
  <1>1. GateInv'
    BY WaitInv, ShapeFacts DEF Send
  <1>2. locks' = locks
    BY DEF Send, wait
  <1>3. UNCHANGED storeVars /\ seen' = [seen EXCEPT ![m] = Visible]
    BY DEF Send
  <1>4. Visible \subseteq Writes
    <2>1. working \subseteq Writes
      BY DEF StoreShape, StoreTypes
    <2>2. ASSUME saves # << >> PROVE saves[1].content \subseteq Writes
      <3>1. 1 \in 1..Len(saves)
        BY <2>2, ShapeFacts, SMT
      <3>2. saves[1] \in SaveRecord
        BY <3>1, ShapeFacts
      <3> QED
        BY <3>2 DEF SaveRecord
    <2> QED
      BY <2>1, <2>2 DEF Visible
  <1>5. seen' \in [Messages -> SUBSET Writes]
    BY <1>3, <1>4 DEF StoreShape, StoreTypes
  <1>6. StoreTypes'
    BY <1>2, <1>3, <1>5 DEF StoreShape, StoreTypes, storeVars
  <1> QED
    BY <1>1, <1>2, <1>3, <1>6, QuietShape DEF storeVars

(* What a write does to the transactions: outside of any it begins one     *)
(* with a task of its own, and the file holds the write at once only when  *)
(* every explicit transaction has been rolled back.                        *)
LEMMA WriteEffect ==
    ASSUME StoreShape, NEW sql \in BOOLEAN, Write(sql)
    PROVE  /\ made' = made + 1 /\ made + 1 \in Writes
           /\ working' = working \cup {made + 1}
           /\ txns' = txns /\ saves' = saves /\ seen' = seen
           /\ confirmed' = confirmed /\ brokenDb' = brokenDb /\ running' = running
           /\ \/ /\ implicit = 0 /\ txns = << >> /\ saves = << >> /\ lockWhile
                 /\ tasks' = Append(tasks, [phase |-> "scheduled",
                                            committed |-> FALSE, covers |-> {}])
                 /\ implicit' = Len(tasks) + 1
                 /\ opened = "no" /\ opened' = "begin" /\ db' = db
              \/ /\ ~(implicit = 0 /\ txns = << >>)
                 /\ UNCHANGED <<gateVars, tasks, implicit, opened>>
                 /\ db' = IF opened = "no" THEN working' ELSE db
                 /\ opened = "no" => implicit = 0 /\ saves = << >>
  <1>1. /\ made' = made + 1 /\ made < MaxWrites
        /\ working' = working \cup {made + 1}
        /\ txns' = txns /\ saves' = saves /\ seen' = seen
        /\ confirmed' = confirmed /\ brokenDb' = brokenDb /\ running' = running
    BY DEF Write
  <1>2. made + 1 \in Writes
    BY <1>1, ActorSqliteAssumption, SMT DEF StoreShape, StoreTypes, Writes
  <1>3. CASE implicit = 0 /\ txns = << >>
    <2>1. /\ lockWhile
          /\ tasks' = Append(tasks, [phase |-> "scheduled",
                                     committed |-> FALSE, covers |-> {}])
          /\ implicit' = Len(tasks')
          /\ opened = "no" /\ opened' = "begin" /\ db' = db
      BY <1>3 DEF Write, onWrite
    <2>2. [phase |-> "scheduled", committed |-> FALSE, covers |-> {}] \in TaskRecord
      BY DEF TaskRecord, TaskPhases
    <2>3. Len(tasks') = Len(tasks) + 1
      BY <2>1, <2>2, TaskAdded DEF StoreShape, StoreTypes
    <2>4. saves = << >>
      BY <1>3, ShapeFacts
    <2> QED
      BY <1>1, <1>2, <1>3, <2>1, <2>3, <2>4
  <1>4. CASE ~(implicit = 0 /\ txns = << >>)
    <2>1. /\ UNCHANGED <<gateVars, tasks, implicit, opened>>
          /\ db' = IF opened = "no" THEN working' ELSE db
      BY <1>4 DEF Write
    <2>2. opened = "no" => implicit = 0 /\ saves = << >>
      BY DEF StoreShape, InTransaction
    <2> QED
      BY <1>1, <1>2, <1>4, <2>1, <2>2
  <1> QED
    BY <1>3, <1>4

LEMMA WriteShape ==
    ASSUME StoreShape, NEW sql \in BOOLEAN, Write(sql) PROVE StoreShape'
  <1>1. /\ made' = made + 1 /\ made + 1 \in Writes
        /\ working' = working \cup {made + 1}
        /\ txns' = txns /\ saves' = saves /\ seen' = seen
        /\ confirmed' = confirmed /\ brokenDb' = brokenDb /\ running' = running
    BY WriteEffect
  <1>2. /\ made \in Nat /\ made \in 0..MaxWrites /\ current \in 0..made
        /\ run \in [Writes -> 0..MaxWrites]
        /\ db \subseteq Writes /\ working \subseteq Writes /\ exposed \subseteq Writes
        /\ db \subseteq working /\ working \subseteq 1..made
    BY SMT DEF StoreShape, StoreTypes, Nested
  <1>3. /\ made' \in 0..MaxWrites /\ current' \in 0..made'
        /\ run' \in [Writes -> 0..MaxWrites]
        /\ exposed' \subseteq Writes
    <2>1. /\ current' = IF current = 0 THEN made + 1 ELSE current
          /\ run' = [run EXCEPT ![made + 1] = current']
          /\ exposed' \in {exposed, exposed \cup {made + 1}}
      BY DEF Write
    <2>2. made' \in 0..MaxWrites /\ current' \in 0..made' /\ current' \in 0..MaxWrites
      BY <1>1, <1>2, <2>1, ActorSqliteAssumption, SMT DEF Writes
    <2> QED
      BY <1>1, <1>2, <2>1, <2>2
  <1>4. working' \subseteq Writes /\ working' \subseteq 1..made' /\ working \subseteq working'
    BY <1>1, <1>2, SMT
  <1>5. CASE implicit = 0 /\ txns = << >>
    <2>1. /\ saves = << >> /\ lockWhile
          /\ tasks' = Append(tasks, [phase |-> "scheduled",
                                     committed |-> FALSE, covers |-> {}])
          /\ implicit' = Len(tasks) + 1
          /\ opened' = "begin" /\ db' = db
      BY <1>5, WriteEffect
    <2>2. [phase |-> "scheduled", committed |-> FALSE, covers |-> {}] \in TaskRecord
      BY DEF TaskRecord, TaskPhases
    <2>3. /\ tasks' \in Seq(TaskRecord) /\ Len(tasks') = Len(tasks) + 1
          /\ \A j \in 1..Len(tasks) : tasks'[j] = tasks[j]
          /\ tasks'[Len(tasks) + 1] = [phase |-> "scheduled",
                                       committed |-> FALSE, covers |-> {}]
      BY <2>1, <2>2, TaskAdded DEF StoreShape, StoreTypes
    <2>4. /\ Len(locks') = Len(locks) + 1 /\ Len(tasks) = Len(locks)
          /\ \A j \in 1..Len(locks) : locks'[j] = locks[j]
          /\ locks'[Len(locks) + 1] = "held"
          /\ Len(locks) \in Nat
      BY <2>1, LockAdded, ShapeFacts
    <2>5. GateInv'
      BY <2>1, LockWhileInv, ShapeFacts
    <2>6. StoreTypes'
      BY <1>1, <1>3, <1>4, <2>1, <2>3, <2>4, SMTT(30) DEF StoreShape, StoreTypes
    <2>7. TasksMatchLocks'
      <3> SUFFICES ASSUME NEW k \in 1..(Len(tasks) + 1)
                   PROVE  /\ tasks'[k].phase = "done" <=> locks'[k] # "held"
                          /\ tasks'[k].phase = "scheduled" /\ ~tasks'[k].committed
                                => k = implicit'
        BY <2>3 DEF TasksMatchLocks
      <3>1. CASE k = Len(tasks) + 1
        BY <2>1, <2>3, <2>4, <3>1, SMT
      <3>2. CASE k \in 1..Len(tasks)
        <4>1. /\ tasks[k].phase = "done" <=> locks[k] # "held"
              /\ ~(tasks[k].phase = "scheduled" /\ ~tasks[k].committed)
          BY <1>5, <3>2, SMT DEF StoreShape, TasksMatchLocks
        <4> QED
          BY <2>3, <2>4, <3>2, <4>1
      <3> QED
        BY <2>4, <3>1, <3>2, SMT
    <2>8. Nested'
      BY <1>1, <1>2, <1>4, <1>5, <2>1, SMT DEF Nested
    <2>9. InTransaction'
      BY <1>1, <1>5, <2>1, <2>3, <2>4, SMT DEF InTransaction
    <2> QED
      BY <2>5, <2>6, <2>7, <2>8, <2>9 DEF StoreShape
  <1>6. CASE ~(implicit = 0 /\ txns = << >>)
    <2>1. /\ UNCHANGED <<gateVars, tasks, implicit, opened>>
          /\ db' = IF opened = "no" THEN working' ELSE db
          /\ opened = "no" => implicit = 0 /\ saves = << >>
      BY <1>6, WriteEffect
    <2>2. locks' = locks
      BY <2>1 DEF gateVars
    <2>3. db' \subseteq working' /\ db' \subseteq Writes
      BY <1>2, <1>4, <2>1
    <2>4. GateInv'
      BY <2>1, GateUnchangedInv, ShapeFacts
    <2>5. StoreTypes'
      BY <1>1, <1>3, <1>4, <2>1, <2>2, <2>3 DEF StoreShape, StoreTypes
    <2>6. TasksMatchLocks' /\ InTransaction'
      BY <1>1, <2>1, <2>2 DEF StoreShape, TasksMatchLocks, InTransaction
    <2>7. Nested'
      <3>1. CASE opened = "no"
        BY <1>1, <1>4, <2>1, <2>3, <3>1, ShapeFacts, SMTT(30) DEF StoreShape, Nested
      <3>2. CASE opened # "no"
        BY <1>1, <1>4, <2>1, <2>3, <3>2 DEF StoreShape, Nested
      <3> QED
        BY <3>1, <3>2
    <2> QED
      BY <2>4, <2>5, <2>6, <2>7 DEF StoreShape
  <1> QED
    BY <1>5, <1>6

(* startTransaction() commits the implicit transaction if there is one,    *)
(* and then SQLite is in the transaction of the outermost savepoint.       *)
LEMMA StartEffect ==
    ASSUME StoreShape, StartTransaction
    PROVE  /\ Len(txns) < MaxDepth
           /\ saves' = Append(saves, [depth |-> Len(txns), content |-> working])
           /\ working' = working /\ opened' = "savepoint"
           /\ implicit' = 0 /\ txns' = Append(txns, FALSE) /\ current' = 0
           /\ UNCHANGED <<gateVars, running, made, run, brokenDb, confirmed,
                          exposed, seen>>
           /\ \/ /\ implicit # 0 /\ saves = << >> /\ db' = working
                 /\ tasks' = [tasks EXCEPT ![implicit] =
                                 [tasks[implicit] EXCEPT !.committed = TRUE]]
              \/ /\ implicit = 0 /\ db' = db /\ tasks' = tasks
  <1>1. /\ Len(txns) < MaxDepth /\ ~brokenDb
        /\ implicit' = 0 /\ txns' = Append(txns, FALSE) /\ current' = 0
        /\ UNCHANGED <<gateVars, running, made, run, brokenDb, confirmed,
                       exposed, seen>>
    BY DEF StartTransaction
  <1>2. CASE implicit # 0
    <2>1. ~tasks[implicit].committed /\ txns = << >>
      BY <1>2 DEF StoreShape, InTransaction
    <2>2. saves = << >>
      BY <2>1, ShapeFacts
    <2>3. /\ db' = working
          /\ tasks' = [tasks EXCEPT ![implicit] =
                          [tasks[implicit] EXCEPT !.committed = TRUE]]
          /\ Savepoint(working, "no", Len(txns))
      BY <1>2, <2>1 DEF StartTransaction
    <2> QED
      BY <1>1, <1>2, <2>2, <2>3 DEF Savepoint
  <1>3. CASE implicit = 0
    <2>1. db' = db /\ tasks' = tasks /\ Savepoint(working, opened, Len(txns))
      BY <1>3 DEF StartTransaction
    <2>2. opened \in {"no", "savepoint"}
      BY <1>1, <1>3 DEF StoreShape, InTransaction
    <2> QED
      BY <1>1, <1>3, <2>1, <2>2 DEF Savepoint
  <1> QED
    BY <1>2, <1>3

(* A savepoint is added to the stack, or a transaction.                    *)
LEMMA SaveAdded ==
    ASSUME saves \in Seq(SaveRecord), NEW s \in SaveRecord, saves' = Append(saves, s)
    PROVE  /\ saves' \in Seq(SaveRecord) /\ Len(saves') = Len(saves) + 1
           /\ \A j \in 1..Len(saves) : saves'[j] = saves[j]
           /\ saves'[Len(saves) + 1] = s
  BY SMT

LEMMA TxnAdded ==
    ASSUME txns \in Seq(BOOLEAN), txns' = Append(txns, FALSE)
    PROVE  /\ txns' \in Seq(BOOLEAN) /\ Len(txns') = Len(txns) + 1
           /\ \A d \in 1..Len(txns) : txns'[d] = txns[d]
           /\ txns'[Len(txns) + 1] = FALSE
  BY SMT

LEMMA StartShape == ASSUME StoreShape, StartTransaction PROVE StoreShape'
  <1> DEFINE n == Len(saves)
             t == Len(txns)
  <1>1. /\ t < MaxDepth
        /\ saves' = Append(saves, [depth |-> t, content |-> working])
        /\ working' = working /\ opened' = "savepoint"
        /\ implicit' = 0 /\ txns' = Append(txns, FALSE) /\ current' = 0
        /\ UNCHANGED <<gateVars, running, made, run, brokenDb, confirmed,
                       exposed, seen>>
        /\ implicit # 0 => saves = << >> /\ db' = working
        /\ implicit = 0 => db' = db
    BY StartEffect
  <1>2. /\ n \in Nat /\ t \in Nat /\ (saves = << >> <=> n = 0)
        /\ \A i \in 1..n : saves[i].depth \in Nat
    BY ShapeFacts
  <1>3. working \subseteq Writes /\ db \subseteq working /\ working \subseteq 1..made
    BY DEF StoreShape, StoreTypes, Nested
  <1>4. /\ saves' \in Seq(SaveRecord) /\ Len(saves') = n + 1
        /\ \A j \in 1..n : saves'[j] = saves[j]
        /\ saves'[n + 1] = [depth |-> t, content |-> working]
    <2>1. [depth |-> t, content |-> working] \in SaveRecord
      BY <1>2, <1>3 DEF SaveRecord
    <2> QED
      BY <1>1, <2>1, SaveAdded DEF StoreShape, StoreTypes
  <1>5. /\ txns' \in Seq(BOOLEAN) /\ Len(txns') = t + 1
        /\ \A d \in 1..t : txns'[d] = txns[d]
        /\ txns'[t + 1] = FALSE
    BY <1>1, TxnAdded DEF StoreShape, StoreTypes
  <1>6. /\ tasks' \in Seq(TaskRecord) /\ Len(tasks') = Len(tasks)
        /\ \A k \in 1..Len(tasks) :
              /\ tasks'[k].phase = tasks[k].phase
              /\ k # implicit => tasks'[k] = tasks[k]
        /\ implicit # 0 => tasks'[implicit].committed
    <2>1. CASE implicit # 0
      <3>1. implicit \in 1..Len(tasks) /\ tasks[implicit] \in TaskRecord
        BY <2>1, ShapeFacts
      <3>2. /\ [tasks[implicit] EXCEPT !.committed = TRUE] \in TaskRecord
            /\ [tasks[implicit] EXCEPT !.committed = TRUE].phase = tasks[implicit].phase
            /\ [tasks[implicit] EXCEPT !.committed = TRUE].committed
        BY <3>1 DEF TaskRecord
      <3>3. tasks' = [tasks EXCEPT ![implicit] =
                         [tasks[implicit] EXCEPT !.committed = TRUE]]
        BY <2>1, StartEffect
      <3> QED
        BY <3>1, <3>2, <3>3, TaskReplaced, SMT DEF StoreShape, StoreTypes
    <2>2. CASE implicit = 0
      BY <2>2, StartEffect, ZenonT(60) DEF StoreShape, StoreTypes
    <2> QED
      BY <2>1, <2>2
  <1>7. locks' = locks /\ GateInv'
    BY <1>1, GateUnchangedInv, ShapeFacts DEF gateVars
  <1> HIDE DEF n, t
  <1>8. StoreTypes'
    <2>1. current' \in 0..made' /\ implicit' \in 0..Len(locks') /\ Len(txns') <= MaxDepth
      BY <1>1, <1>2, <1>5, <1>7, ActorSqliteAssumption, ShapeFacts, SMT
      DEF StoreShape, StoreTypes
    <2>2. db' \subseteq Writes
      BY <1>1, <1>3
    <2> QED
      BY <1>1, <1>4, <1>5, <1>6, <1>7, <2>1, <2>2 DEF StoreShape, StoreTypes
  <1>9. TasksMatchLocks'
    BY <1>1, <1>6, <1>7 DEF StoreShape, TasksMatchLocks
  <1>10. db' \subseteq working'
    BY <1>1, <1>3
  <1>11. ASSUME NEW i \in 1..(n + 1)
         PROVE  /\ saves'[i].depth + 1 \in 1..(t + 1) /\ ~txns'[saves'[i].depth + 1]
                /\ db' \subseteq saves'[i].content /\ saves'[i].content \subseteq working'
    <2>1. CASE i = n + 1
      BY <1>1, <1>2, <1>4, <1>5, <1>10, <2>1, SMT
    <2>2. CASE i \in 1..n
      <3>1. /\ saves[i].depth + 1 \in 1..t /\ ~txns[saves[i].depth + 1]
            /\ db \subseteq saves[i].content /\ saves[i].content \subseteq working
        BY <2>2 DEF StoreShape, Nested, n, t
      <3>2. db' = db
        BY <1>1, <1>2, <2>2, SMT
      <3> QED
        BY <1>1, <1>2, <1>4, <1>5, <2>2, <3>1, <3>2, SMTT(30)
    <2> QED
      BY <1>2, <2>1, <2>2, SMT
  <1>12. ASSUME NEW i \in 1..(n + 1), NEW j \in 1..(n + 1), i < j
         PROVE  /\ saves'[i].depth < saves'[j].depth
                /\ saves'[i].content \subseteq saves'[j].content
    <2>1. i \in 1..n
      BY <1>2, <1>12, SMT
    <2>2. /\ saves[i].depth + 1 \in 1..t /\ saves[i].content \subseteq working
      BY <2>1 DEF StoreShape, Nested, n, t
    <2>3. CASE j = n + 1
      BY <1>2, <1>4, <2>1, <2>2, <2>3, SMT
    <2>4. CASE j \in 1..n
      BY <1>4, <1>12, <2>1, <2>4 DEF StoreShape, Nested, n
    <2> QED
      BY <1>2, <2>3, <2>4, SMT
  <1>13. ASSUME NEW d \in 1..(t + 1), ~txns'[d]
         PROVE  \E i \in 1..(n + 1) : saves'[i].depth + 1 = d
    <2>1. CASE d = t + 1
      <3>1. n + 1 \in 1..(n + 1) /\ saves'[n + 1].depth + 1 = d
        BY <1>2, <1>4, <2>1, SMT
      <3> QED
        BY <3>1
    <2>2. CASE d \in 1..t
      <3>1. ~txns[d]
        BY <1>5, <1>13, <2>2
      <3>2. PICK i \in 1..n : saves[i].depth + 1 = d
        BY <2>2, <3>1 DEF StoreShape, Nested, n, t
      <3>3. i \in 1..(n + 1) /\ saves'[i].depth + 1 = d
        BY <1>2, <1>4, <3>2, SMT
      <3> QED
        BY <3>3
    <2> QED
      BY <1>2, <2>1, <2>2, SMT
  <1>14. Nested'
    BY <1>1, <1>3, <1>4, <1>5, <1>10, <1>11, <1>12, <1>13, ZenonT(60) DEF Nested
  <1>15. InTransaction'
    <2>1. saves' # << >>
      BY <1>2, <1>4, EmptyLen, SMT
    <2> QED
      BY <1>1, <2>1 DEF InTransaction
  <1> QED
    BY <1>7, <1>8, <1>9, <1>14, <1>15 DEF StoreShape

(* The innermost transaction ends and its savepoint is released, with the  *)
(* connection seeing what it saw before or what the savepoint holds.       *)
LEMMA PopNested ==
    ASSUME StoreShape, txns # << >>, ~txns[Len(txns)],
           NEW content \in {working, saves[Len(saves)].content},
           ReleaseSavepoint(content, Len(txns) - 1),
           txns' \in Seq(BOOLEAN), made' = made,
           Len(txns') >= Len(txns) - 1,
           \A d \in 1..(Len(txns) - 1) : txns'[d] = txns[d],
           \A d \in 1..Len(txns') : ~txns'[d] => d \in 1..(Len(txns) - 1)
    PROVE  /\ Nested'
           /\ db \subseteq db' /\ db' \subseteq Writes /\ working' \subseteq Writes
           /\ saves[Len(saves)].content \subseteq content /\ content \subseteq working
  <1> DEFINE n == Len(saves)
             t == Len(txns)
  <1>1. /\ n \in Nat /\ n >= 1 /\ t \in Nat /\ t >= 1
        /\ saves[n].depth = t - 1
        /\ \A i \in 1..n : saves[i].depth \in Nat
    BY LastSavepoint, ShapeFacts
  <1>2. /\ saves' \in Seq(SaveRecord) /\ Len(saves') = n - 1
        /\ \A j \in 1..(n - 1) : saves'[j] = saves[j]
        /\ working' = content
        /\ db' = IF n = 1 THEN content ELSE db
    BY ReleaseEffect, ShapeFacts
  <1>3. Len(txns') \in Nat /\ Len(txns') >= t - 1
    BY EmptyLen
  <1>4. /\ \A i \in 1..n :
              /\ saves[i].depth + 1 \in 1..t /\ ~txns[saves[i].depth + 1]
              /\ db \subseteq saves[i].content /\ saves[i].content \subseteq working
        /\ \A i, j \in 1..n : i < j =>
              /\ saves[i].depth < saves[j].depth
              /\ saves[i].content \subseteq saves[j].content
        /\ \A d \in 1..t : ~txns[d] => \E i \in 1..n : saves[i].depth + 1 = d
        /\ db \subseteq working /\ working \subseteq 1..made /\ working \subseteq Writes
    BY DEF StoreShape, StoreTypes, Nested
  <1> HIDE DEF n, t
  <1>5. n \in 1..n
    BY <1>1, SMT
  <1>6. /\ content \subseteq working /\ db \subseteq content
        /\ saves[n].content \subseteq content
    BY <1>4, <1>5 DEF n
  <1>7. db \subseteq db' /\ db' \subseteq working' /\ working' \subseteq 1..made'
    BY <1>2, <1>4, <1>6
  <1>8. db' \subseteq Writes /\ working' \subseteq Writes
    BY <1>2, <1>4, <1>6
  <1>9. ASSUME NEW i \in 1..(n - 1)
        PROVE  /\ saves'[i].depth + 1 \in 1..Len(txns') /\ ~txns'[saves'[i].depth + 1]
               /\ db' \subseteq saves'[i].content /\ saves'[i].content \subseteq working'
    <2>1. i \in 1..n /\ i < n /\ n # 1
      BY <1>1, SMT
    <2>2. /\ saves[i].depth < t - 1 /\ saves[i].content \subseteq saves[n].content
      BY <1>1, <1>4, <1>5, <2>1, ZenonT(60)
    <2>3. saves[i].depth + 1 \in 1..(t - 1) /\ ~txns[saves[i].depth + 1]
      BY <1>1, <1>4, <2>1, <2>2, SMTT(30)
    <2>4. saves[i].depth + 1 \in 1..Len(txns') /\ ~txns'[saves[i].depth + 1]
      <3>1. saves[i].depth + 1 \in 1..Len(txns')
        BY <1>1, <1>3, <2>3, SMTT(30)
      <3>2. ~txns'[saves[i].depth + 1]
        BY <2>3 DEF t
      <3> QED
        BY <3>1, <3>2
    <2>5. db \subseteq saves[i].content /\ saves[i].content \subseteq content
      BY <1>4, <1>6, <2>1, <2>2
    <2> QED
      BY <1>2, <2>1, <2>4, <2>5
  <1>10. ASSUME NEW i \in 1..(n - 1), NEW j \in 1..(n - 1), i < j
         PROVE  /\ saves'[i].depth < saves'[j].depth
                /\ saves'[i].content \subseteq saves'[j].content
    <2>1. i \in 1..n /\ j \in 1..n
      BY <1>1, SMT
    <2> QED
      BY <1>2, <1>4, <1>10, <2>1
  <1>11. ASSUME NEW d \in 1..Len(txns'), ~txns'[d]
         PROVE  \E i \in 1..(n - 1) : saves'[i].depth + 1 = d
    <2>1. d \in 1..(t - 1)
      BY <1>11 DEF t
    <2>2. d \in 1..t /\ ~txns[d]
      BY <1>1, <1>11, <2>1, SMT DEF t
    <2>3. PICK i \in 1..n : saves[i].depth + 1 = d
      BY <1>4, <2>2
    <2>4. i # n
      BY <1>1, <2>1, <2>3, SMT
    <2>5. i \in 1..(n - 1)
      BY <1>1, <2>4, SMT
    <2>6. saves'[i].depth + 1 = d
      BY <1>2, <2>3, <2>5, ZenonT(60)
    <2> QED
      BY <2>5, <2>6
  <1>12. Nested'
    BY <1>2, <1>7, <1>9, <1>10, <1>11 DEF Nested
  <1> QED
    BY <1>6, <1>7, <1>8, <1>12 DEF n

(* So the shape is kept, whatever becomes of the output gate.              *)
LEMMA PopShape ==
    ASSUME StoreShape, txns # << >>, ~txns[Len(txns)],
           NEW content \in {working, saves[Len(saves)].content},
           ReleaseSavepoint(content, Len(txns) - 1),
           txns' \in Seq(BOOLEAN), Len(txns') <= Len(txns),
           Len(txns') >= Len(txns) - 1,
           \A d \in 1..(Len(txns) - 1) : txns'[d] = txns[d],
           \A d \in 1..Len(txns') : ~txns'[d] => d \in 1..(Len(txns) - 1),
           current' = 0,
           UNCHANGED <<running, made, run, implicit, brokenDb, confirmed, exposed,
                       seen>>,
           GateInv', tasks' \in Seq(TaskRecord), Len(tasks') = Len(locks'),
           TasksMatchLocks'
    PROVE  StoreShape'
  <1>1. implicit = 0
    BY DEF StoreShape, InTransaction
  <1>2. Nested' /\ db' \subseteq Writes /\ working' \subseteq Writes
    BY PopNested
  <1>3. /\ saves' \in Seq(SaveRecord) /\ Len(saves') = Len(saves) - 1
        /\ opened' = IF Len(saves) = 1 THEN "no" ELSE "savepoint"
        /\ Len(saves) \in Nat
    BY ReleaseEffect, ShapeFacts
  <1>4. InTransaction'
    <2>1. saves' = << >> <=> Len(saves) = 1
      BY <1>3, EmptyLen, SMTT(30)
    <2> QED
      BY <1>1, <1>3, <2>1 DEF InTransaction
  <1>5. StoreTypes'
    <2>1. Len(locks') \in Nat
      BY SMT DEF GateInv, GateTypeOK
    <2>2. /\ current' \in 0..made' /\ implicit' \in 0..Len(locks')
      BY <1>1, <2>1, SMT DEF StoreShape, StoreTypes
    <2>3. Len(txns') <= MaxDepth
      <3>1. Len(txns) <= MaxDepth /\ Len(txns) \in Nat /\ Len(txns') \in Nat
        BY EmptyLen DEF StoreShape, StoreTypes
      <3> QED
        BY <3>1, ActorSqliteAssumption, SMT
    <2> QED
      BY <1>2, <1>3, <2>2, <2>3 DEF StoreShape, StoreTypes
  <1> QED
    BY <1>2, <1>4, <1>5 DEF StoreShape

(* The transaction object is dropped, or stays until it can be dropped.    *)
LEMMA AllButLast ==
    ASSUME NEW S, NEW s \in Seq(S), s # << >>
    PROVE  /\ SubSeq(s, 1, Len(s) - 1) \in Seq(S)
           /\ Len(SubSeq(s, 1, Len(s) - 1)) = Len(s) - 1
           /\ \A d \in 1..(Len(s) - 1) : SubSeq(s, 1, Len(s) - 1)[d] = s[d]
  <1> DEFINE n == Len(s)
  <1>1. n \in Nat /\ n >= 1
    BY EmptyLen, SMT
  <1>2. \A i \in 1..(n - 1) : s[i] \in S
    BY <1>1, SMT
  <1> HIDE DEF n
  <1>3. /\ SubSeq(s, 1, n - 1) \in Seq(S)
        /\ Len(SubSeq(s, 1, n - 1)) = IF 1 <= n - 1 THEN n - 1 - 1 + 1 ELSE 0
        /\ \A i \in 1..(n - 1 - 1 + 1) : SubSeq(s, 1, n - 1)[i] = s[1 + i - 1]
    BY <1>1, <1>2, SMT
  <1>4. /\ SubSeq(s, 1, n - 1) \in Seq(S)
        /\ Len(SubSeq(s, 1, n - 1)) = n - 1
        /\ \A i \in 1..(n - 1) : SubSeq(s, 1, n - 1)[i] = s[i]
    BY <1>1, <1>3, SMT
  <1> QED
    BY <1>4 DEF n

LEMMA LastReplaced ==
    ASSUME NEW S, NEW s \in Seq(S), s # << >>, NEW e \in S
    PROVE  /\ [s EXCEPT ![Len(s)] = e] \in Seq(S)
           /\ Len([s EXCEPT ![Len(s)] = e]) = Len(s)
           /\ \A d \in 1..(Len(s) - 1) : [s EXCEPT ![Len(s)] = e][d] = s[d]
           /\ [s EXCEPT ![Len(s)] = e][Len(s)] = e
  <1>1. Len(s) \in Nat /\ Len(s) >= 1
    BY EmptyLen, SMT
  <1> QED
    BY <1>1, SMT

LEMMA TxnDropped ==
    ASSUME txns \in Seq(BOOLEAN), txns # << >>,
           txns' = SubSeq(txns, 1, Len(txns) - 1)
    PROVE  /\ txns' \in Seq(BOOLEAN) /\ Len(txns') = Len(txns) - 1
           /\ \A d \in 1..(Len(txns) - 1) : txns'[d] = txns[d]
  BY AllButLast

LEMMA TxnRolledBack ==
    ASSUME txns \in Seq(BOOLEAN), txns # << >>,
           txns' = [txns EXCEPT ![Len(txns)] = TRUE]
    PROVE  /\ txns' \in Seq(BOOLEAN) /\ Len(txns') = Len(txns)
           /\ \A d \in 1..(Len(txns) - 1) : txns'[d] = txns[d]
           /\ txns'[Len(txns)]
  <1> DEFINE s == [txns EXCEPT ![Len(txns)] = TRUE]
  <1>1. /\ s \in Seq(BOOLEAN) /\ Len(s) = Len(txns)
        /\ \A d \in 1..(Len(txns) - 1) : s[d] = txns[d]
        /\ s[Len(txns)] = TRUE
    <2>1. TRUE \in BOOLEAN
      OBVIOUS
    <2> QED
      BY <2>1, LastReplaced
  <1>2. txns' = s
    OBVIOUS
  <1> HIDE DEF s
  <1> QED
    BY <1>1, <1>2

LEMMA AbandonShape == ASSUME StoreShape, Abandon PROVE StoreShape'
  <1>1. /\ txns # << >> /\ ~txns[Len(txns)]
        /\ rollbackImpl(Len(txns) - 1)
        /\ txns' = SubSeq(txns, 1, Len(txns) - 1)
        /\ current' = 0
        /\ UNCHANGED <<gateVars, running, made, run, implicit, tasks, brokenDb,
                       confirmed, exposed, seen>>
    BY DEF Abandon
  <1>2. ReleaseSavepoint(saves[Len(saves)].content, Len(txns) - 1)
    BY <1>1, LastSavepoint, ShapeFacts DEF rollbackImpl
  <1>3. /\ txns' \in Seq(BOOLEAN) /\ Len(txns') = Len(txns) - 1
        /\ \A d \in 1..(Len(txns) - 1) : txns'[d] = txns[d]
        /\ Len(txns) \in Nat
    BY <1>1, TxnDropped, EmptyLen DEF StoreShape, StoreTypes
  <1>4. \A d \in 1..Len(txns') : ~txns'[d] => d \in 1..(Len(txns) - 1)
    BY <1>3
  <1>5. GateInv' /\ locks' = locks
    BY <1>1, GateUnchangedInv, ShapeFacts DEF gateVars
  <1>6. /\ tasks' \in Seq(TaskRecord) /\ Len(tasks') = Len(locks')
        /\ TasksMatchLocks'
    BY <1>1, <1>5 DEF StoreShape, StoreTypes, TasksMatchLocks
  <1>7. Len(txns') <= Len(txns) /\ Len(txns') >= Len(txns) - 1
    BY <1>3, SMTT(30)
  <1> QED
    BY <1>1, <1>2, <1>3, <1>4, <1>5, <1>6, <1>7, PopShape

LEMMA RollbackShape == ASSUME StoreShape, Rollback PROVE StoreShape'
  <1>1. /\ txns # << >> /\ ~txns[Len(txns)]
        /\ rollbackImpl(Len(txns) - 1)
        /\ txns' = [txns EXCEPT ![Len(txns)] = TRUE]
        /\ current' = 0
        /\ UNCHANGED <<gateVars, running, made, run, implicit, tasks, brokenDb,
                       confirmed, exposed, seen>>
    BY DEF Rollback
  <1>2. ReleaseSavepoint(saves[Len(saves)].content, Len(txns) - 1)
    BY <1>1, LastSavepoint, ShapeFacts DEF rollbackImpl
  <1>3. /\ txns' \in Seq(BOOLEAN) /\ Len(txns') = Len(txns)
        /\ \A d \in 1..(Len(txns) - 1) : txns'[d] = txns[d]
        /\ txns'[Len(txns)]
        /\ Len(txns) \in Nat
    BY <1>1, TxnRolledBack, EmptyLen DEF StoreShape, StoreTypes
  <1>4. \A d \in 1..Len(txns') : ~txns'[d] => d \in 1..(Len(txns) - 1)
    BY <1>3, SMT
  <1>5. GateInv' /\ locks' = locks
    BY <1>1, GateUnchangedInv, ShapeFacts DEF gateVars
  <1>6. /\ tasks' \in Seq(TaskRecord) /\ Len(tasks') = Len(locks')
        /\ TasksMatchLocks'
    BY <1>1, <1>5 DEF StoreShape, StoreTypes, TasksMatchLocks
  <1>7. Len(txns') <= Len(txns) /\ Len(txns') >= Len(txns) - 1
    BY <1>3, SMT
  <1> QED
    BY <1>1, <1>2, <1>3, <1>4, <1>5, <1>6, <1>7, PopShape

(* A committed root transaction gets a lock of the gate, under which its   *)
(* callback runs.                                                          *)
LEMMA CommitRootTasks ==
    ASSUME StoreShape, implicit' = implicit, NEW content \in SUBSET Writes,
           commitRoot(content)
    PROVE  /\ GateInv'
           /\ tasks' \in Seq(TaskRecord) /\ Len(tasks') = Len(locks')
           /\ Len(tasks') = Len(tasks) + 1
           /\ \A j \in 1..Len(tasks) : tasks'[j] = tasks[j] /\ locks'[j] = locks[j]
           /\ tasks'[Len(tasks) + 1].phase = "callback"
           /\ tasks'[Len(tasks) + 1].covers = content
           /\ TasksMatchLocks'
  <1> DEFINE t == [phase |-> "callback", committed |-> TRUE, covers |-> content]
             n == Len(tasks)
  <1>1. lockWhile /\ tasks' = Append(tasks, t)
    BY DEF commitRoot
  <1>2. t \in TaskRecord
    BY DEF TaskRecord, TaskPhases
  <1>3. /\ tasks' \in Seq(TaskRecord) /\ Len(tasks') = n + 1
        /\ \A j \in 1..n : tasks'[j] = tasks[j]
        /\ tasks'[n + 1] = t
    BY <1>1, <1>2, TaskAdded, ZenonT(60) DEF StoreShape, StoreTypes
  <1>4. /\ Len(locks') = Len(locks) + 1 /\ n = Len(locks)
        /\ \A j \in 1..Len(locks) : locks'[j] = locks[j]
        /\ locks'[Len(locks) + 1] = "held"
        /\ Len(locks) \in Nat
    BY <1>1, LockAdded, ShapeFacts, ZenonT(60)
  <1>5. GateInv'
    BY <1>1, LockWhileInv, ShapeFacts
  <1>6. TasksMatchLocks'
    <2> SUFFICES ASSUME NEW k \in 1..(n + 1)
                 PROVE  /\ tasks'[k].phase = "done" <=> locks'[k] # "held"
                        /\ tasks'[k].phase = "scheduled" /\ ~tasks'[k].committed
                              => k = implicit
      BY <1>3, ZenonT(60) DEF TasksMatchLocks
    <2>1. CASE k = n + 1
      BY <1>3, <1>4, <2>1, SMT
    <2>2. CASE k \in 1..n
      BY <1>3, <1>4, <2>2 DEF StoreShape, TasksMatchLocks
    <2>3. k = n + 1 \/ k \in 1..n
      BY <1>4, SMT
    <2> QED
      BY <2>1, <2>2, <2>3
  <1> QED
    BY <1>3, <1>4, <1>5, <1>6, SMT

LEMMA CommitShape == ASSUME StoreShape, CommitTransaction PROVE StoreShape'
  <1>1. /\ txns # << >> /\ ~txns[Len(txns)]
        /\ ReleaseSavepoint(working, Len(txns) - 1)
        /\ txns' = SubSeq(txns, 1, Len(txns) - 1)
        /\ IF Len(txns) - 1 = 0 THEN commitRoot(db') ELSE UNCHANGED <<gateVars, tasks>>
        /\ current' = 0
        /\ UNCHANGED <<running, made, run, implicit, brokenDb, confirmed, exposed,
                       seen>>
    BY DEF CommitTransaction
  <1>3. /\ txns' \in Seq(BOOLEAN) /\ Len(txns') = Len(txns) - 1
        /\ \A d \in 1..(Len(txns) - 1) : txns'[d] = txns[d]
        /\ Len(txns) \in Nat
    BY <1>1, TxnDropped, EmptyLen DEF StoreShape, StoreTypes
  <1>4. \A d \in 1..Len(txns') : ~txns'[d] => d \in 1..(Len(txns) - 1)
    BY <1>3
  <1>5. Len(txns') <= Len(txns) /\ Len(txns') >= Len(txns) - 1
    BY <1>3, SMT
  <1>6. /\ GateInv' /\ tasks' \in Seq(TaskRecord) /\ Len(tasks') = Len(locks')
        /\ TasksMatchLocks'
    <2>1. CASE Len(txns) - 1 = 0
      <3>1. db' \in SUBSET Writes
        BY <1>1, <1>3, <1>4, <1>5, PopNested
      <3> QED
        BY <1>1, <2>1, <3>1, CommitRootTasks
    <2>2. CASE Len(txns) - 1 # 0
      <3>1. UNCHANGED <<gateVars, tasks>>
        BY <1>1, <2>2
      <3>2. GateInv' /\ locks' = locks
        BY <3>1, GateUnchangedInv, ShapeFacts DEF gateVars
      <3> QED
        BY <1>1, <3>1, <3>2 DEF StoreShape, StoreTypes, TasksMatchLocks
    <2> QED
      BY <2>1, <2>2
  <1> QED
    BY <1>1, <1>3, <1>4, <1>5, <1>6, PopShape

LEMMA DropShape == ASSUME StoreShape, DropRolledBack PROVE StoreShape'
  <1>1. /\ txns # << >> /\ txns[Len(txns)]
        /\ txns' = SubSeq(txns, 1, Len(txns) - 1)
        /\ UNCHANGED <<gateVars, running, made, run, current, implicit, tasks,
                       brokenDb, db, working, opened, saves, confirmed, exposed, seen>>
    BY DEF DropRolledBack
  <1>2. /\ txns' \in Seq(BOOLEAN) /\ Len(txns') = Len(txns) - 1
        /\ \A d \in 1..(Len(txns) - 1) : txns'[d] = txns[d]
        /\ Len(txns) \in Nat /\ Len(txns) <= MaxDepth
    BY <1>1, TxnDropped, EmptyLen DEF StoreShape, StoreTypes
  <1>3. GateInv' /\ locks' = locks
    BY <1>1, GateUnchangedInv, ShapeFacts DEF gateVars
  <1>4. implicit = 0
    BY <1>1 DEF StoreShape, InTransaction
  <1>5. TasksMatchLocks' /\ InTransaction'
    BY <1>1, <1>3, <1>4 DEF StoreShape, TasksMatchLocks, InTransaction
  <1>6. Len(txns') <= MaxDepth
    BY <1>2, ActorSqliteAssumption, SMT
  <1>7. StoreTypes'
    BY <1>1, <1>2, <1>3, <1>6 DEF StoreShape, StoreTypes
  <1>8. \A i \in 1..Len(saves) : /\ saves[i].depth + 1 \in 1..(Len(txns) - 1)
                                 /\ ~txns'[saves[i].depth + 1]
    <2> SUFFICES ASSUME NEW i \in 1..Len(saves)
                 PROVE  /\ saves[i].depth + 1 \in 1..(Len(txns) - 1)
                        /\ ~txns'[saves[i].depth + 1]
      OBVIOUS
    <2>1. saves[i].depth + 1 \in 1..Len(txns) /\ ~txns[saves[i].depth + 1]
      BY DEF StoreShape, Nested
    <2>2. saves[i].depth + 1 # Len(txns)
      BY <1>1, <2>1
    <2>3. saves[i].depth + 1 \in 1..(Len(txns) - 1)
      BY <1>2, <2>1, <2>2, ShapeFacts, SMTT(30)
    <2> QED
      BY <1>2, <2>1, <2>3
  <1>9. \A d \in 1..(Len(txns) - 1) :
            ~txns'[d] => \E i \in 1..Len(saves) : saves[i].depth + 1 = d
    <2> SUFFICES ASSUME NEW d \in 1..(Len(txns) - 1), ~txns'[d]
                 PROVE  \E i \in 1..Len(saves) : saves[i].depth + 1 = d
      OBVIOUS
    <2>1. d \in 1..Len(txns)
      BY <1>2, SMT
    <2>2. ~txns[d]
      BY <1>2
    <2> QED
      BY <2>1, <2>2 DEF StoreShape, Nested
  <1>10. Nested'
    BY <1>1, <1>2, <1>8, <1>9 DEF StoreShape, Nested
  <1> QED
    BY <1>3, <1>5, <1>7, <1>10 DEF StoreShape

(* A task and its lock change together, and the transactions as little as  *)
(* a commit or its failure does.                                           *)
LEMMA TaskShape ==
    ASSUME StoreShape, NEW k \in 1..Len(tasks), tasks[k].phase # "done",
           NEW t \in TaskRecord, tasks' = [tasks EXCEPT ![k] = t],
           implicit' = IF implicit = k THEN 0 ELSE implicit,
           GateInv', Len(locks') = Len(locks),
           \A j \in 1..Len(locks) : j # k => locks'[j] = locks[j],
           t.phase = "done" <=> locks'[k] # "held",
           t.phase # "scheduled",
           UNCHANGED <<running, made, run, current, txns, saves, exposed, seen>>,
           confirmed' \subseteq Writes, brokenDb' \in BOOLEAN, brokenDb => brokenDb',
           \/ /\ UNCHANGED <<db, working, opened>>
              /\ implicit = k => brokenDb'
           \/ /\ implicit = k /\ opened' = "no"
              /\ \/ db' = working /\ working' = working
                 \/ db' = db /\ working' = db
    PROVE  StoreShape'
  <1>0. /\ GateInv /\ StoreTypes /\ TasksMatchLocks /\ Nested /\ InTransaction
        /\ Len(locks) \in Nat /\ Len(tasks) = Len(locks) /\ implicit \in 0..Len(locks)
        /\ implicit # 0 => implicit \in 1..Len(tasks)
    BY ShapeFacts DEF StoreTypes
  <1>1. /\ tasks' \in Seq(TaskRecord) /\ Len(tasks') = Len(tasks)
        /\ \A j \in 1..Len(tasks) : tasks'[j] = IF j = k THEN t ELSE tasks[j]
    BY <1>0, TaskReplaced DEF StoreTypes
  <1>2. implicit' \in 0..Len(locks')
    BY <1>0, SMT
  <1>3. TasksMatchLocks'
    <2> SUFFICES ASSUME NEW j \in 1..Len(tasks)
                 PROVE  /\ tasks'[j].phase = "done" <=> locks'[j] # "held"
                        /\ tasks'[j].phase = "scheduled" /\ ~tasks'[j].committed
                              => j = implicit'
      BY <1>1 DEF TasksMatchLocks
    <2>1. CASE j = k
      BY <1>1, <2>1
    <2>2. CASE j # k
      BY <1>0, <1>1, <2>2 DEF TasksMatchLocks
    <2> QED
      BY <2>1, <2>2
  <1>4. /\ db' \subseteq working' /\ working' \subseteq working
        /\ db' \subseteq Writes /\ working' \subseteq Writes
        /\ opened' \in {"no", "begin", "savepoint"}
    BY <1>0 DEF Nested, StoreTypes
  <1>5. StoreTypes'
    BY <1>0, <1>1, <1>2, <1>4 DEF StoreTypes
  <1>6. k # 0 /\ (implicit = k => txns = << >> /\ saves = << >> /\ Len(saves) = 0)
    <2>1. k # 0
      BY SMT
    <2>2. /\ implicit # 0 => txns = << >>
          /\ txns = << >> => saves = << >>
          /\ saves = << >> => Len(saves) = 0
      BY ShapeFacts DEF InTransaction
    <2> QED
      BY <2>1, <2>2
  <1>7. Nested'
    <2>1. CASE UNCHANGED <<db, working, opened>>
      BY <1>0, <2>1 DEF Nested
    <2>2. CASE implicit = k
      BY <1>0, <1>4, <1>6, <2>2, SMT DEF Nested
    <2> QED
      BY <2>1, <2>2
  <1>8. InTransaction'
    <2>1. CASE implicit = k
      BY <1>0, <1>6, <2>1 DEF InTransaction
    <2>2. CASE implicit # k
      <3>1. implicit # 0 => tasks'[implicit] = tasks[implicit]
        BY <1>0, <1>1, <2>2
      <3> QED
        BY <1>0, <2>2, <3>1 DEF InTransaction
    <2> QED
      BY <2>1, <2>2
  <1> QED
    BY <1>3, <1>5, <1>7, <1>8 DEF StoreShape

(* The lock of a task ends.                                                *)
LEMMA LockEnds ==
    ASSUME GateInv, NEW k \in 1..Len(locks), Unlock(k) \/ BreakLock(k)
    PROVE  /\ GateInv' /\ Len(locks') = Len(locks)
           /\ \A j \in 1..Len(locks) : j # k => locks'[j] = locks[j]
           /\ Unlock(k) => locks'[k] = "released"
           /\ BreakLock(k) => locks'[k] = "failed"
           /\ locks'[k] # "held"
           /\ result' = result /\ branch' = branch
  <1>1. ASSUME NEW to \in {"released", "failed"}, locks' = [locks EXCEPT ![k] = to]
        PROVE  /\ Len(locks') = Len(locks)
               /\ \A j \in 1..Len(locks) : j # k => locks'[j] = locks[j]
               /\ locks'[k] = to
    BY <1>1, LockReplaced, SMT
  <1>2. CASE Unlock(k)
    <2>1. GateInv'
      BY <1>2, UnlockInv
    <2>2. /\ locks' = [locks EXCEPT ![k] = "released"]
          /\ result' = result /\ branch' = branch
      BY <1>2 DEF Unlock
    <2>3. /\ Len(locks') = Len(locks) /\ locks'[k] = "released"
          /\ \A j \in 1..Len(locks) : j # k => locks'[j] = locks[j]
      BY <1>1, <2>2
    <2>4. ~BreakLock(k)
      <3>1. BreakLock(k) => locks' = [locks EXCEPT ![k] = "failed"]
        BY DEF BreakLock
      <3> QED
        BY <1>1, <2>3, <3>1
    <2> QED
      BY <2>1, <2>2, <2>3, <2>4
  <1>3. CASE BreakLock(k)
    <2>1. GateInv'
      BY <1>3, BreakLockInv
    <2>2. /\ locks' = [locks EXCEPT ![k] = "failed"]
          /\ result' = result /\ branch' = branch
      BY <1>3 DEF BreakLock
    <2>3. /\ Len(locks') = Len(locks) /\ locks'[k] = "failed"
          /\ \A j \in 1..Len(locks) : j # k => locks'[j] = locks[j]
      BY <1>1, <2>2
    <2>4. ~Unlock(k)
      <3>1. Unlock(k) => locks' = [locks EXCEPT ![k] = "released"]
        BY DEF Unlock
      <3> QED
        BY <1>1, <2>3, <3>1
    <2> QED
      BY <2>1, <2>2, <2>3, <2>4
  <1> QED
    BY <1>2, <1>3

LEMMA CallbackShape ==
    ASSUME StoreShape, NEW k \in 1..Len(tasks), CallbackDone(k) \/ CallbackFails(k)
    PROVE  StoreShape'
  <1> DEFINE t == [tasks[k] EXCEPT !.phase = "done"]
  <1>1. /\ tasks[k].phase = "callback" /\ tasks' = [tasks EXCEPT ![k] = t]
        /\ Unlock(k) \/ BreakLock(k)
        /\ UNCHANGED <<running, made, run, current, implicit, txns, db, working,
                       opened, saves, exposed, seen>>
        /\ brokenDb' = brokenDb \/ brokenDb' = TRUE
        /\ confirmed' = confirmed \/ confirmed' = confirmed \cup tasks[k].covers
    BY DEF CallbackDone, CallbackFails
  <1>2. tasks[k] \in TaskRecord /\ k \in 1..Len(locks) /\ GateInv
    BY ShapeFacts
  <1>3. t \in TaskRecord /\ t.phase = "done"
    BY <1>2 DEF TaskRecord, TaskPhases
  <1>4. confirmed' \subseteq Writes
    BY <1>1, <1>2 DEF TaskRecord, StoreShape, StoreTypes
  <1>5. brokenDb' \in BOOLEAN /\ (brokenDb => brokenDb')
    <2>1. brokenDb \in BOOLEAN
      BY DEF StoreShape, StoreTypes
    <2>2. (brokenDb' = brokenDb) \/ (brokenDb' = TRUE)
      BY <1>1
    <2> QED
      BY <2>1, <2>2
  <1>6. implicit # k
    <2>1. implicit = k => tasks[k].phase = "scheduled"
      BY ShapeFacts, SMT DEF InTransaction
    <2> QED
      BY <1>1, <2>1
  <1>7. /\ GateInv' /\ Len(locks') = Len(locks)
        /\ \A j \in 1..Len(locks) : j # k => locks'[j] = locks[j]
        /\ locks'[k] # "held"
    BY <1>1, <1>2, LockEnds
  <1> HIDE DEF t
  <1> QED
    BY <1>1, <1>3, <1>4, <1>5, <1>6, <1>7, TaskShape

LEMMA CommitTaskShape ==
    ASSUME StoreShape, NEW k \in 1..Len(tasks), CommitTask(k)
    PROVE  StoreShape'
  <1>1. /\ tasks[k].phase = "scheduled"
        /\ implicit' = IF implicit = k THEN 0 ELSE implicit
        /\ UNCHANGED <<running, made, run, current, txns, saves, confirmed, exposed,
                       seen>>
    BY DEF CommitTask
  <1>2. /\ tasks[k] \in TaskRecord /\ k \in 1..Len(locks) /\ GateInv
        /\ brokenDb \in BOOLEAN /\ confirmed \subseteq Writes
        /\ db \subseteq Writes /\ working \subseteq Writes
    BY ShapeFacts DEF StoreTypes
  <1>3. ~tasks[k].committed <=> implicit = k
    BY <1>1, <1>2, ShapeFacts, SMT DEF TasksMatchLocks, InTransaction
  <1>4. locks[k] = "held"
    BY <1>1, ShapeFacts DEF TasksMatchLocks
  <1>5. ASSUME ~brokenDb,
               IF tasks[k].committed THEN UNCHANGED <<db, opened>>
                                     ELSE db' = working /\ opened' = "no",
               callCommitCallback(k, db'), UNCHANGED <<brokenDb, working>>
        PROVE  StoreShape'
    <2> DEFINE t == [tasks[k] EXCEPT !.phase = "callback", !.covers = db']
    <2>1. tasks' = [tasks EXCEPT ![k] = t] /\ UNCHANGED gateVars
      BY <1>5 DEF callCommitCallback
    <2>2. db' \in SUBSET Writes
      BY <1>2, <1>5
    <2>3. t \in TaskRecord /\ t.phase = "callback"
      BY <1>2, <2>2 DEF TaskRecord, TaskPhases
    <2>4. GateInv' /\ locks' = locks
      BY <1>2, <2>1, GateUnchangedInv DEF gateVars
    <2>5. implicit = k =>
             /\ db' = working /\ opened' = "no" /\ working' = working
      BY <1>3, <1>5
    <2>6. implicit # k => UNCHANGED <<db, working, opened>>
      BY <1>3, <1>5
    <2> HIDE DEF t
    <2> QED
      BY <1>1, <1>2, <1>4, <1>5, <2>1, <2>3, <2>4, <2>5, <2>6, TaskShape
  <1>6. ASSUME BreakLock(k), tasks' = [tasks EXCEPT ![k].phase = "done"],
               \/ /\ ~tasks[k].committed /\ brokenDb' = TRUE
                  /\ working' = db /\ opened' = "no" /\ UNCHANGED db
               \/ brokenDb /\ UNCHANGED <<db, working, opened, brokenDb>>
        PROVE  StoreShape'
    <2> DEFINE t == [tasks[k] EXCEPT !.phase = "done"]
    <2>1. tasks' = [tasks EXCEPT ![k] = t]
      BY <1>6
    <2>2. t \in TaskRecord /\ t.phase = "done"
      BY <1>2 DEF TaskRecord, TaskPhases
    <2>3. /\ GateInv' /\ Len(locks') = Len(locks)
          /\ \A j \in 1..Len(locks) : j # k => locks'[j] = locks[j]
          /\ locks'[k] # "held"
      BY <1>2, <1>6, LockEnds
    <2>4. brokenDb' \in BOOLEAN /\ brokenDb'
      <3>1. (brokenDb' = TRUE) \/ (brokenDb /\ brokenDb' = brokenDb)
        BY <1>6
      <3> QED
        BY <1>2, <3>1
    <2>5. \/ implicit = k /\ opened' = "no" /\ db' = db /\ working' = db
          \/ UNCHANGED <<db, working, opened>>
      BY <1>3, <1>6
    <2> HIDE DEF t
    <2> QED
      BY <1>1, <1>2, <2>1, <2>2, <2>3, <2>4, <2>5, TaskShape
  <1> QED
    BY <1>5, <1>6 DEF CommitTask

LEMMA StoreShapeStep == StoreShape /\ [SqliteNext]_sqliteVars => StoreShape'
  <1> SUFFICES ASSUME StoreShape, [SqliteNext]_sqliteVars PROVE StoreShape'
    OBVIOUS
  <1>1. CASE BeginTurn \/ EndTurn \/ shutdown
    BY <1>1, TurnShape
  <1>2. ASSUME NEW sql \in BOOLEAN, Write(sql) PROVE StoreShape'
    BY <1>2, WriteShape
  <1>3. CASE StartTransaction
    BY <1>3, StartShape
  <1>4. CASE CommitTransaction
    BY <1>4, CommitShape
  <1>5. CASE Rollback
    BY <1>5, RollbackShape
  <1>6. CASE DropRolledBack
    BY <1>6, DropShape
  <1>7. CASE Abandon
    BY <1>7, AbandonShape
  <1>8. ASSUME NEW k \in 1..Len(tasks), CommitTask(k) PROVE StoreShape'
    BY <1>8, CommitTaskShape
  <1>9. ASSUME NEW k \in 1..Len(tasks), CallbackDone(k) \/ CallbackFails(k)
        PROVE  StoreShape'
    BY <1>9, CallbackShape
  <1>10. ASSUME NEW m \in Messages, Send(m) PROVE StoreShape'
    BY <1>10, SendShape
  <1>11. CASE GateEvents
    BY <1>11, GateEventsShape
  <1>12. CASE UNCHANGED sqliteVars
    <2>1. UNCHANGED gateVars /\ UNCHANGED <<storeVars, seen>> /\ locks' = locks
      BY <1>12 DEF sqliteVars, gateVars
    <2>2. GateInv'
      BY <2>1, GateUnchangedInv, ShapeFacts
    <2>3. StoreTypes'
      BY <2>1 DEF StoreShape, StoreTypes, storeVars
    <2> QED
      BY <2>1, <2>2, <2>3, QuietShape DEF storeVars
  <1> QED
    BY <1>1, <1>2, <1>3, <1>4, <1>5, <1>6, <1>7, <1>8, <1>9, <1>10, <1>11, <1>12
    DEF SqliteNext
=============================================================================
