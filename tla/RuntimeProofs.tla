--------------------------- MODULE RuntimeProofs ---------------------------
(***************************************************************************)
(* Proofs about two parts of the runtime: the asynchronous isolate lock    *)
(* implements a thread's ownership of an isolate, for any threads, tasks   *)
(* and isolates; and timers fire in order, at their time, and neither time *)
(* nor clearTimeout() is taken back, for any ids, delays and limits.       *)
(***************************************************************************)
EXTENDS AsyncLock, Timeouts, FiniteSetTheorems, TLAPS

(* Most leaves are first-order reasoning about sets and functions, which   *)
(* Zenon does best; a leaf that needs arithmetic names SMT.                *)
USE Zenon

-----------------------------------------------------------------------------
(* What joining two lists gives.                                           *)
LEMMA Joined ==
    ASSUME NEW S, NEW a \in Seq(S), NEW b \in Seq(S)
    PROVE  /\ a \o b \in Seq(S) /\ Len(a \o b) = Len(a) + Len(b)
           /\ \A n \in 1..(Len(a) + Len(b)) :
                 (a \o b)[n] = IF n <= Len(a) THEN a[n] ELSE b[n - Len(a)]
  BY SMT

(* A list without its element at place p, and with e put at place p.       *)
LEMMA Unlinked ==
    ASSUME NEW S, NEW s \in Seq(S), NEW p \in 1..Len(s)
    PROVE  /\ WithoutEntry(s, p) \in Seq(S)
           /\ WithoutEntry(s, p) = WithoutWaiter(s, p)
           /\ Len(WithoutEntry(s, p)) = Len(s) - 1
           /\ \A n \in 1..(Len(s) - 1) :
                 WithoutEntry(s, p)[n] = IF n < p THEN s[n] ELSE s[n + 1]
  <1> DEFINE a == SubSeq(s, 1, p - 1)
             b == SubSeq(s, p + 1, Len(s))
  <1>1. /\ a \in Seq(S) /\ Len(a) = p - 1 /\ \A n \in 1..(p - 1) : a[n] = s[n]
    BY SMT
  <1>2. /\ b \in Seq(S) /\ Len(b) = Len(s) - p
        /\ \A n \in 1..(Len(s) - p) : b[n] = s[n + p]
    BY SMT
  <1>3. WithoutEntry(s, p) = a \o b /\ WithoutWaiter(s, p) = a \o b
    BY DEF WithoutEntry, WithoutWaiter
  <1> HIDE DEF a, b
  <1>4. /\ a \o b \in Seq(S) /\ Len(a \o b) = Len(a) + Len(b)
        /\ \A n \in 1..(Len(a) + Len(b)) :
              (a \o b)[n] = IF n <= Len(a) THEN a[n] ELSE b[n - Len(a)]
    BY <1>1, <1>2, Joined
  <1>5. Len(a) + Len(b) = Len(s) - 1
    BY <1>1, <1>2, SMT
  <1>6. ASSUME NEW n \in 1..(Len(s) - 1)
        PROVE  (a \o b)[n] = IF n < p THEN s[n] ELSE s[n + 1]
    <2>1. (a \o b)[n] = IF n <= p - 1 THEN a[n] ELSE b[n - (p - 1)]
      BY <1>1, <1>4, <1>5
    <2>2. n > p - 1 => n - (p - 1) \in 1..(Len(s) - p) /\ n - (p - 1) + p = n + 1
      BY SMT
    <2> QED
      BY <1>1, <1>2, <2>1, <2>2, SMT
  <1> QED
    BY <1>3, <1>4, <1>5, <1>6

LEMMA Linked ==
    ASSUME NEW S, NEW s \in Seq(S), NEW e \in S, NEW p \in 1..(Len(s) + 1)
    PROVE  /\ WithEntryAt(s, p, e) \in Seq(S)
           /\ Len(WithEntryAt(s, p, e)) = Len(s) + 1
           /\ \A n \in 1..(Len(s) + 1) :
                 WithEntryAt(s, p, e)[n] =
                    IF n < p THEN s[n] ELSE IF n = p THEN e ELSE s[n - 1]
  <1> DEFINE a == SubSeq(s, 1, p - 1)
             b == SubSeq(s, p, Len(s))
             c == Append(a, e)
  <1>0. Len(s) \in Nat
    BY SMT
  <1>1. /\ a \in Seq(S) /\ Len(a) = p - 1 /\ \A n \in 1..(p - 1) : a[n] = s[n]
    BY SMT
  <1>2. /\ b \in Seq(S) /\ Len(b) = Len(s) - p + 1
        /\ \A n \in 1..(Len(s) - p + 1) : b[n] = s[n + p - 1]
    BY SMT
  <1>3. WithEntryAt(s, p, e) = (a \o <<e>>) \o b
    BY DEF WithEntryAt
  <1> HIDE DEF a, b
  <1>4. a \o <<e>> = c
    BY <1>1, SMT
  <1>5. c \in Seq(S) /\ Len(c) = p /\ c[p] = e /\ \A n \in 1..(p - 1) : c[n] = s[n]
    BY <1>1, SMT
  <1> HIDE DEF c
  <1>6. /\ c \o b \in Seq(S) /\ Len(c \o b) = Len(c) + Len(b)
        /\ \A n \in 1..(Len(c) + Len(b)) :
              (c \o b)[n] = IF n <= Len(c) THEN c[n] ELSE b[n - Len(c)]
    BY <1>5, <1>2, Joined
  <1>7. Len(c) + Len(b) = Len(s) + 1
    BY <1>2, <1>5, SMT
  <1>8. ASSUME NEW n \in 1..(Len(s) + 1)
        PROVE  (c \o b)[n] = IF n < p THEN s[n] ELSE IF n = p THEN e ELSE s[n - 1]
    <2>1. (c \o b)[n] = IF n <= p THEN c[n] ELSE b[n - p]
      BY <1>5, <1>6, <1>7
    <2>2. n > p => n - p \in 1..(Len(s) - p + 1) /\ n - p + p - 1 = n - 1
      BY <1>0, SMT
    <2> QED
      BY <1>2, <1>5, <2>1, <2>2, SMT
  <1> QED
    BY <1>3, <1>4, <1>6, <1>7, <1>8

-----------------------------------------------------------------------------
(***************************************************************************)
(* The lists of waiters and the threads agree: a thread that has a waiter  *)
(* is on the list of one isolate, once.  The readied waiters are the ones  *)
(* at the head of a list.                                                  *)
(***************************************************************************)
OnOwnList ==
    \A i \in Isolates : \A n \in 1..Len(asyncWaiters[i]) :
        threadCurrentWaiter[asyncWaiters[i][n]] = i

OnListOnce ==
    \A i \in Isolates : \A m, n \in 1..Len(asyncWaiters[i]) :
        asyncWaiters[i][m] = asyncWaiters[i][n] => m = n

IsListed ==
    \A th \in Threads : threadCurrentWaiter[th] # NoIsolate =>
        \E n \in 1..Len(asyncWaiters[threadCurrentWaiter[th]]) :
            asyncWaiters[threadCurrentWaiter[th]][n] = th

HeadsAreReady ==
    \A i \in Isolates : asyncWaiters[i] # << >> => asyncWaiters[i][1] \in readied

ReadyAreHeads == \A th \in readied : asyncWaiters[threadCurrentWaiter[th]][1] = th

(* The tasks that refer to the waiter of their thread want its isolate,    *)
(* and hold the lock only once it is ready; while a waiter exists, a task  *)
(* refers to it; a task is blocked only by a waiter for another isolate.   *)
TasksMatchWaiters ==
    \A t \in Takers :
        /\ task[t].at \in {"waiting", "holding"} =>
              threadCurrentWaiter[ThreadOf[t]] = task[t].isolate
        /\ task[t].at = "holding" => ThreadOf[t] \in readied
        /\ task[t].at = "blocked" =>
              threadCurrentWaiter[ThreadOf[t]] \notin {NoIsolate, task[t].isolate}

WaitersAreReferred ==
    \A th \in Threads : threadCurrentWaiter[th] # NoIsolate => RefsOf(th) # {}

AsyncLockInv ==
    /\ AsyncLockTypeOK /\ OnOwnList /\ OnListOnce /\ IsListed
    /\ HeadsAreReady /\ ReadyAreHeads /\ TasksMatchWaiters /\ WaitersAreReferred

LEMMA AsyncLockInitInv == AsyncLockInit => AsyncLockInv
  BY AsyncLockAssumption, SMT
  DEF AsyncLockInit, AsyncLockInv, AsyncLockTypeOK, OnOwnList, OnListOnce, IsListed,
      HeadsAreReady, ReadyAreHeads, TasksMatchWaiters, WaitersAreReferred, Ats

(* What the invariant says of the types, in the form the steps need.       *)
LEMMA AsyncLockFacts ==
    ASSUME AsyncLockInv, NEW t \in Takers
    PROVE  /\ ThreadOf[t] \in Threads /\ task[t].isolate \in Isolates
           /\ task \in [Takers -> [at : Ats, isolate : Isolates]]
           /\ \A i \in Isolates : asyncWaiters[i] \in Seq(Threads)
           /\ \A i \in Isolates : Len(asyncWaiters[i]) \in Nat
           /\ \A i \in Isolates : asyncWaiters[i] = << >> <=> Len(asyncWaiters[i]) = 0
           /\ asyncWaiters \in [Isolates -> Seq(Threads)]
           /\ threadCurrentWaiter \in [Threads -> Isolates \cup {NoIsolate}]
           /\ readied \subseteq Threads
           /\ \A th \in readied : threadCurrentWaiter[th] \in Isolates
           /\ NoIsolate \notin Isolates
  <1>1. AsyncLockTypeOK
    BY DEF AsyncLockInv
  <1> QED
    BY <1>1, AsyncLockAssumption, SMT DEF AsyncLockTypeOK

(* Only tasks move, none of them to or from a reference.                   *)
LEMMA TasksMove ==
    ASSUME AsyncLockInv, NEW t \in Takers, NEW to \in Ats,
           task' = [task EXCEPT ![t].at = to],
           UNCHANGED <<asyncWaiters, threadCurrentWaiter, readied>>,
           to \in {"waiting", "holding"} =>
              threadCurrentWaiter[ThreadOf[t]] = task[t].isolate,
           to = "holding" => ThreadOf[t] \in readied,
           to = "blocked" => threadCurrentWaiter[ThreadOf[t]] \notin {NoIsolate, task[t].isolate},
           \/ to \in {"waiting", "holding"}
           \/ task[t].at \notin {"waiting", "holding"}
           \/ RefsOf(ThreadOf[t]) # {t}
    PROVE  AsyncLockInv'
  <1>1. /\ \A u \in Takers : task'[u].at = IF u = t THEN to ELSE task[u].at
        /\ \A u \in Takers : task'[u].isolate = task[u].isolate
        /\ task' \in [Takers -> [at : Ats, isolate : Isolates]]
    <2>0. task \in [Takers -> [at : Ats, isolate : Isolates]]
      BY AsyncLockFacts
    <2>1. \A u \in Takers : task'[u] = IF u = t THEN [task[t] EXCEPT !.at = to] ELSE task[u]
      BY <2>0
    <2>2. [task[t] EXCEPT !.at = to] \in [at : Ats, isolate : Isolates]
      BY <2>0
    <2> QED
      BY <2>0, <2>1, <2>2
  <1>2. AsyncLockTypeOK'
    BY <1>1 DEF AsyncLockInv, AsyncLockTypeOK
  <1>3. TasksMatchWaiters'
    BY <1>1 DEF AsyncLockInv, TasksMatchWaiters
  <1>4. WaitersAreReferred'
    <2> SUFFICES ASSUME NEW th \in Threads, threadCurrentWaiter[th] # NoIsolate
                 PROVE  RefsOf(th)' # {}
      BY DEF WaitersAreReferred
    <2>1. RefsOf(th) # {}
      BY DEF AsyncLockInv, WaitersAreReferred
    <2>2. CASE RefsOf(th) # {t}
      <3>0. PICK u \in RefsOf(th) : u # t
        BY <2>1, <2>2
      <3>1. u \in RefsOf(th)'
        BY <1>1, <3>0 DEF RefsOf
      <3> QED
        BY <3>1
    <2>3. CASE RefsOf(th) = {t}
      <3>1. ThreadOf[t] = th /\ task[t].at \in {"waiting", "holding"}
        BY <2>3 DEF RefsOf
      <3>2. to \in {"waiting", "holding"}
        BY <2>3, <3>1
      <3>3. t \in RefsOf(th)'
        BY <1>1, <3>1, <3>2 DEF RefsOf
      <3> QED
        BY <3>3
    <2> QED
      BY <2>2, <2>3
  <1>5. OnOwnList' /\ OnListOnce' /\ IsListed' /\ HeadsAreReady' /\ ReadyAreHeads'
    BY SMT DEF AsyncLockInv, OnOwnList, OnListOnce, IsListed, HeadsAreReady, ReadyAreHeads
  <1> QED
    BY <1>2, <1>3, <1>4, <1>5 DEF AsyncLockInv

(* A thread without a waiter gets one, at the end of the isolate's list.   *)
LEMMA NewWaiterInv ==
    ASSUME AsyncLockInv, NEW t \in Takers, task[t].at \in {"new", "retry"},
           threadCurrentWaiter[ThreadOf[t]] = NoIsolate,
           task' = [task EXCEPT ![t].at = "waiting"],
           NewWaiter(ThreadOf[t], task[t].isolate)
    PROVE  AsyncLockInv'
  <1>0. PICK th \in Threads, i \in Isolates : th = ThreadOf[t] /\ i = task[t].isolate
    BY AsyncLockFacts
  <1>1. PICK len \in Nat : len = Len(asyncWaiters[i])
    BY AsyncLockFacts
  <1>2. /\ asyncWaiters' \in [Isolates -> Seq(Threads)]
        /\ asyncWaiters'[i] = Append(asyncWaiters[i], th)
        /\ \A j \in Isolates : j # i => asyncWaiters'[j] = asyncWaiters[j]
    BY <1>0, AsyncLockFacts, SMT DEF NewWaiter
  <1>3. /\ Len(asyncWaiters'[i]) = len + 1
        /\ \A n \in 1..len : asyncWaiters'[i][n] = asyncWaiters[i][n]
        /\ asyncWaiters'[i][len + 1] = th
    <2>1. asyncWaiters[i] \in Seq(Threads)
      BY AsyncLockFacts
    <2> QED
      BY <1>1, <1>2, <2>1, SMT
  <1>4. /\ threadCurrentWaiter' \in [Threads -> Isolates \cup {NoIsolate}]
        /\ threadCurrentWaiter'[th] = i /\ threadCurrentWaiter[th] = NoIsolate
        /\ \A x \in Threads : x # th => threadCurrentWaiter'[x] = threadCurrentWaiter[x]
    BY <1>0, AsyncLockFacts DEF NewWaiter
  <1>5. readied' = IF len = 0 THEN readied \cup {th} ELSE readied
    BY <1>0, <1>1, AsyncLockFacts DEF NewWaiter
  <1>6. th \notin readied /\ readied \subseteq Threads
    BY <1>4, AsyncLockFacts
  <1>7. /\ \A u \in Takers : task'[u].at = IF u = t THEN "waiting" ELSE task[u].at
        /\ \A u \in Takers : task'[u].isolate = task[u].isolate
        /\ task' \in [Takers -> [at : Ats, isolate : Isolates]]
    BY AsyncLockFacts, ZenonT(60) DEF Ats
  <1>8. \A j \in Isolates : \A n \in 1..Len(asyncWaiters[j]) :
            asyncWaiters[j][n] \in Threads /\ asyncWaiters[j][n] # th
    BY <1>4, AsyncLockFacts, SMT DEF AsyncLockInv, OnOwnList
  <1>9. AsyncLockTypeOK'
    BY <1>2, <1>4, <1>5, <1>6, <1>7, AsyncLockFacts, SMT DEF AsyncLockTypeOK
  <1>10. OnOwnList'
    <2> SUFFICES ASSUME NEW j \in Isolates, NEW n \in 1..Len(asyncWaiters'[j])
                 PROVE  threadCurrentWaiter'[asyncWaiters'[j][n]] = j
      BY DEF OnOwnList
    <2>1. CASE j # i
      BY <1>2, <1>4, <1>8, <2>1, SMT DEF AsyncLockInv, OnOwnList
    <2>2. CASE j = i /\ n \in 1..len
      BY <1>1, <1>3, <1>4, <1>8, <2>2, SMT DEF AsyncLockInv, OnOwnList
    <2>3. CASE j = i /\ n = len + 1
      BY <1>3, <1>4, <2>3
    <2> QED
      BY <1>3, <2>1, <2>2, <2>3, SMT
  <1>11. OnListOnce'
    <2> SUFFICES ASSUME NEW j \in Isolates, NEW m \in 1..Len(asyncWaiters'[j]),
                        NEW n \in 1..Len(asyncWaiters'[j]), m < n
                 PROVE  asyncWaiters'[j][m] # asyncWaiters'[j][n]
      <3> SUFFICES ASSUME NEW j \in Isolates, NEW m \in 1..Len(asyncWaiters'[j]),
                          NEW n \in 1..Len(asyncWaiters'[j]), m # n
                   PROVE  asyncWaiters'[j][m] # asyncWaiters'[j][n]
        BY DEF OnListOnce
      <3>1. m < n \/ n < m
        BY <1>2, SMT
      <3> QED
        BY <3>1
    <2>0. m # n
      BY <1>2, SMT
    <2>1. CASE j # i
      BY <1>2, <2>0, <2>1 DEF AsyncLockInv, OnListOnce
    <2>2. CASE j = i /\ n \in 1..len
      BY <1>1, <1>3, <2>2, SMTT(30) DEF AsyncLockInv, OnListOnce
    <2>3. CASE j = i /\ n = len + 1
      BY <1>1, <1>3, <1>8, <2>3, SMT
    <2> QED
      BY <1>3, <2>1, <2>2, <2>3, SMT
  <1>12. IsListed'
    <2> SUFFICES ASSUME NEW x \in Threads, threadCurrentWaiter'[x] # NoIsolate
                 PROVE  \E n \in 1..Len(asyncWaiters'[threadCurrentWaiter'[x]]) :
                            asyncWaiters'[threadCurrentWaiter'[x]][n] = x
      BY DEF IsListed
    <2>0. PICK j \in Isolates : j = threadCurrentWaiter'[x]
      BY <1>4
    <2>1. CASE x = th
      BY <1>1, <1>3, <1>4, <2>1, SMTT(30)
    <2>2. CASE x # th
      <3>1. PICK n \in 1..Len(asyncWaiters[j]) : asyncWaiters[j][n] = x
        BY <1>4, <2>0, <2>2, AsyncLockFacts DEF AsyncLockInv, IsListed
      <3>2. n \in 1..Len(asyncWaiters'[j]) /\ asyncWaiters'[j][n] = x
        BY <1>1, <1>2, <1>3, <3>1, SMTT(30)
      <3> QED
        BY <2>0, <3>2
    <2> QED
      BY <2>1, <2>2
  <1>13. \A j \in Isolates : asyncWaiters[j] # << >> => asyncWaiters'[j][1] = asyncWaiters[j][1]
    <2> SUFFICES ASSUME NEW j \in Isolates, asyncWaiters[j] # << >>
                 PROVE  asyncWaiters'[j][1] = asyncWaiters[j][1]
      OBVIOUS
    <2>1. CASE j = i
      <3>1. len # 0
        BY <1>1, <2>1, AsyncLockFacts
      <3> QED
        BY <1>1, <1>3, <2>1, <3>1, SMT
    <2>2. CASE j # i
      BY <1>2, <2>2
    <2> QED
      BY <2>1, <2>2
  <1>14. HeadsAreReady'
    <2> SUFFICES ASSUME NEW j \in Isolates, asyncWaiters'[j] # << >>
                 PROVE  asyncWaiters'[j][1] \in readied'
      BY DEF HeadsAreReady
    <2>1. CASE asyncWaiters[j] # << >>
      BY <1>5, <1>13, <2>1 DEF AsyncLockInv, HeadsAreReady
    <2>2. CASE asyncWaiters[j] = << >>
      <3>1. j = i /\ len = 0
        BY <1>1, <1>2, <2>2, AsyncLockFacts
      <3> QED
        BY <1>3, <1>5, <3>1, SMT
    <2> QED
      BY <2>1, <2>2
  <1>15. ReadyAreHeads'
    <2> SUFFICES ASSUME NEW x \in readied'
                 PROVE  asyncWaiters'[threadCurrentWaiter'[x]][1] = x
      BY DEF ReadyAreHeads
    <2>1. CASE x = th
      <3>1. len = 0
        BY <1>5, <1>6, <2>1
      <3> QED
        BY <1>3, <1>4, <2>1, <3>1, SMT
    <2>2. CASE x # th
      <3>1. x \in readied /\ x \in Threads
        BY <1>5, <1>6, <2>2
      <3>2. PICK j \in Isolates : j = threadCurrentWaiter[x]
        BY <3>1, AsyncLockFacts
      <3>3. asyncWaiters[j] # << >>
        BY <3>1, <3>2, AsyncLockFacts, SMTT(30) DEF AsyncLockInv, IsListed
      <3>4. asyncWaiters[j][1] = x
        BY <3>1, <3>2 DEF AsyncLockInv, ReadyAreHeads
      <3> QED
        BY <1>4, <1>13, <2>2, <3>1, <3>2, <3>3, <3>4
    <2> QED
      BY <2>1, <2>2
  <1>16. \A u \in Takers : ThreadOf[u] = th => task[u].at \notin {"waiting", "holding", "blocked"}
    BY <1>4, AsyncLockFacts, ZenonT(60) DEF AsyncLockInv, TasksMatchWaiters
  <1>17. TasksMatchWaiters'
    <2> SUFFICES ASSUME NEW u \in Takers
                 PROVE  /\ task'[u].at \in {"waiting", "holding"} =>
                              threadCurrentWaiter'[ThreadOf[u]] = task'[u].isolate
                        /\ task'[u].at = "holding" => ThreadOf[u] \in readied'
                        /\ task'[u].at = "blocked" =>
                              threadCurrentWaiter'[ThreadOf[u]] \notin {NoIsolate, task'[u].isolate}
      BY DEF TasksMatchWaiters
    <2>1. CASE u = t
      BY <1>0, <1>4, <1>7, <2>1
    <2>2. CASE u # t /\ ThreadOf[u] = th
      BY <1>7, <1>16, <2>2
    <2>3. CASE u # t /\ ThreadOf[u] # th
      <3>1. ThreadOf[u] \in Threads
        BY AsyncLockFacts
      <3>2. threadCurrentWaiter'[ThreadOf[u]] = threadCurrentWaiter[ThreadOf[u]]
        BY <1>4, <2>3, <3>1
      <3> QED
        BY <1>5, <1>7, <2>3, <3>2 DEF AsyncLockInv, TasksMatchWaiters
    <2> QED
      BY <2>1, <2>2, <2>3
  <1>18. WaitersAreReferred'
    <2> SUFFICES ASSUME NEW x \in Threads, threadCurrentWaiter'[x] # NoIsolate
                 PROVE  RefsOf(x)' # {}
      BY DEF WaitersAreReferred
    <2>1. CASE x = th
      <3>1. t \in RefsOf(x)'
        BY <1>0, <1>7, <2>1 DEF RefsOf
      <3> QED
        BY <3>1
    <2>2. CASE x # th
      <3>1. PICK u \in RefsOf(x) : TRUE
        BY <1>4, <2>2 DEF AsyncLockInv, WaitersAreReferred
      <3>2. u \in RefsOf(x)'
        BY <1>0, <1>7, <2>2, <3>1 DEF RefsOf
      <3> QED
        BY <3>2
    <2> QED
      BY <2>1, <2>2
  <1> QED
    BY <1>9, <1>10, <1>11, <1>12, <1>14, <1>15, <1>17, <1>18 DEF AsyncLockInv

(* The last reference to a waiter is dropped: it is unlinked, the one      *)
(* behind the head of the list becomes ready, and the tasks blocked by it  *)
(* may retry.                                                              *)
LEMMA LastDropInv ==
    ASSUME AsyncLockInv, NEW t \in Takers, task[t].at \in {"waiting", "holding"},
           RefsOf(ThreadOf[t]) = {t}, Drop(t)
    PROVE  AsyncLockInv'
  <1>0. PICK th \in Threads, i \in Isolates :
            th = ThreadOf[t] /\ i = task[t].isolate /\ i = threadCurrentWaiter[th]
    BY AsyncLockFacts DEF AsyncLockInv, TasksMatchWaiters
  <1>1. PICK len \in Nat : len = Len(asyncWaiters[i])
    BY AsyncLockFacts
  <1>2. PICK p \in 1..len : p = PlaceOf(th) /\ asyncWaiters[i][p] = th
    <2>1. \E n \in 1..len : asyncWaiters[i][n] = th
      BY <1>0, <1>1, AsyncLockFacts, ZenonT(60) DEF AsyncLockInv, IsListed
    <2>2. DOMAIN asyncWaiters[i] = 1..len
      BY <1>1, AsyncLockFacts, SMT
    <2> QED
      BY <1>0, <2>1, <2>2 DEF PlaceOf
  <1>3. /\ DestroyWaiter(th)
        /\ task' = [u \in Takers |->
                      IF u = t THEN [task[u] EXCEPT !.at = "done"]
                      ELSE IF ThreadOf[u] = th /\ task[u].at = "blocked"
                      THEN [task[u] EXCEPT !.at = "retry"]
                      ELSE task[u]]
    BY <1>0 DEF Drop
  <1>4. /\ asyncWaiters' \in [Isolates -> Seq(Threads)]
        /\ Len(asyncWaiters'[i]) = len - 1
        /\ \A n \in 1..(len - 1) :
              asyncWaiters'[i][n] = IF n < p THEN asyncWaiters[i][n] ELSE asyncWaiters[i][n + 1]
        /\ \A j \in Isolates : j # i => asyncWaiters'[j] = asyncWaiters[j]
    <2>1. asyncWaiters' = [asyncWaiters EXCEPT ![i] = WithoutWaiter(asyncWaiters[i], p)]
      BY <1>0, <1>2, <1>3 DEF DestroyWaiter, Leave
    <2>2. asyncWaiters[i] \in Seq(Threads) /\ asyncWaiters \in [Isolates -> Seq(Threads)]
      BY AsyncLockFacts
    <2>3. /\ WithoutWaiter(asyncWaiters[i], p) \in Seq(Threads)
          /\ Len(WithoutWaiter(asyncWaiters[i], p)) = len - 1
          /\ \A n \in 1..(len - 1) : WithoutWaiter(asyncWaiters[i], p)[n] =
                IF n < p THEN asyncWaiters[i][n] ELSE asyncWaiters[i][n + 1]
      BY <1>1, <2>2, Unlinked, ZenonT(60)
    <2> QED
      BY <2>1, <2>2, <2>3
  <1>5. /\ threadCurrentWaiter' \in [Threads -> Isolates \cup {NoIsolate}]
        /\ threadCurrentWaiter'[th] = NoIsolate /\ threadCurrentWaiter[th] = i
        /\ i # NoIsolate
        /\ \A x \in Threads : x # th => threadCurrentWaiter'[x] = threadCurrentWaiter[x]
    <2>1. threadCurrentWaiter' = [threadCurrentWaiter EXCEPT ![th] = NoIsolate]
      BY <1>3 DEF DestroyWaiter, Leave
    <2> QED
      BY <1>0, <2>1, AsyncLockFacts
  <1>6. /\ \A n \in 1..len : asyncWaiters[i][n] \in Threads
        /\ \A n \in 1..len : n # p => asyncWaiters[i][n] # th
    <2>1. asyncWaiters[i] \in Seq(Threads)
      BY AsyncLockFacts
    <2>2. \A n \in 1..len : asyncWaiters[i][n] \in Threads
      BY <1>1, <2>1, SMT
    <2>3. \A n \in 1..len : n # p => asyncWaiters[i][n] # th
      BY <1>1, <1>2 DEF AsyncLockInv, OnListOnce
    <2> QED
      BY <2>2, <2>3
  <1>7. /\ p = 1 /\ len >= 2 => readied' = (readied \ {th}) \cup {asyncWaiters[i][2]}
        /\ ~(p = 1 /\ len >= 2) => readied' = readied \ {th}
    <2>1. DOMAIN asyncWaiters[i] = 1..len
      BY <1>1, AsyncLockFacts, SMT
    <2>2. readied' = (readied \ {th}) \cup (IF p = 1 THEN Following(th) ELSE {})
      BY <1>2, <1>3 DEF DestroyWaiter, Leave
    <2>3. Following(th) = {asyncWaiters[i][n] : n \in (1..len) \cap {p + 1}}
      BY <1>0, <1>2, <2>1 DEF Following
    <2>4. CASE p = 1 /\ len >= 2
      <3>1. (1..len) \cap {p + 1} = {2}
        BY <2>4, SMT
      <3>2. Following(th) = {asyncWaiters[i][2]}
        BY <2>3, <3>1
      <3> QED
        BY <2>2, <2>4, <3>2
    <2>5. CASE p = 1 /\ ~(len >= 2)
      <3>1. (1..len) \cap {p + 1} = {}
        BY <2>5, SMT
      <3>2. Following(th) = {}
        BY <2>3, <3>1
      <3> QED
        BY <2>2, <2>5, <3>2
    <2>6. CASE p # 1
      BY <2>2, <2>6
    <2> QED
      BY <2>4, <2>5, <2>6
  <1>8. /\ \A u \in Takers : task'[u].isolate = task[u].isolate
        /\ \A u \in Takers : task'[u].at \in {"waiting", "holding"} =>
              task'[u] = task[u] /\ ThreadOf[u] # th
        /\ \A u \in Takers : ThreadOf[u] # th => task'[u] = task[u]
        /\ \A u \in Takers : task'[u].at = "blocked" => task'[u] = task[u] /\ ThreadOf[u] # th
        /\ task' \in [Takers -> [at : Ats, isolate : Isolates]]
    <2>1. \A u \in Takers : ThreadOf[u] = th /\ u # t => task[u].at \notin {"waiting", "holding"}
      BY <1>0 DEF RefsOf
    <2>2. \A u \in Takers : task[u] \in [at : Ats, isolate : Isolates]
      BY AsyncLockFacts
    <2>3. ASSUME NEW u \in Takers
          PROVE  \/ /\ ThreadOf[u] = th /\ task'[u].at = "done" /\ task'[u].isolate = task[u].isolate
                    /\ task'[u] \in [at : Ats, isolate : Isolates]
                 \/ /\ ThreadOf[u] = th /\ task'[u].at = "retry" /\ task'[u].isolate = task[u].isolate
                    /\ task'[u] \in [at : Ats, isolate : Isolates]
                 \/ ThreadOf[u] # th /\ task'[u] = task[u]
                 \/ task'[u] = task[u] /\ task[u].at \notin {"waiting", "holding", "blocked"}
      <3>1. CASE u = t
        BY <1>0, <1>3, <2>2, <3>1 DEF Ats
      <3>2. CASE u # t /\ ThreadOf[u] = th /\ task[u].at = "blocked"
        BY <1>0, <1>3, <2>2, <3>2 DEF Ats
      <3>3. CASE u # t /\ ~(ThreadOf[u] = th /\ task[u].at = "blocked")
        BY <1>3, <2>1, <3>3
      <3> QED
        BY <3>1, <3>2, <3>3
    <2>4. task' \in [Takers -> [at : Ats, isolate : Isolates]]
      <3>1. \A u \in Takers : task'[u] \in [at : Ats, isolate : Isolates]
        BY <2>2, <2>3
      <3> QED
        BY <1>3, <3>1
    <2> QED
      BY <2>3, <2>4
  <1>9. AsyncLockTypeOK'
    <2>1. ASSUME NEW x \in readied'
          PROVE  x \in Threads /\ threadCurrentWaiter'[x] # NoIsolate
      <3>1. CASE x \in readied \ {th}
        BY <1>5, <3>1, AsyncLockFacts
      <3>2. CASE len >= 2 /\ p = 1 /\ x = asyncWaiters[i][2]
        <4>1. x \in Threads /\ x # th
          BY <1>6, <3>2, SMT
        <4>2. threadCurrentWaiter[x] = i
          BY <1>1, <3>2, SMT DEF AsyncLockInv, OnOwnList
        <4> QED
          BY <1>5, <4>1, <4>2
      <3> QED
        BY <1>7, <2>1, <3>1, <3>2
    <2> QED
      BY <1>4, <1>5, <1>8, <2>1 DEF AsyncLockTypeOK
  <1>10. ASSUME NEW n \in 1..(len - 1)
         PROVE  \E m \in 1..len : m # p /\ asyncWaiters'[i][n] = asyncWaiters[i][m]
                                  /\ m = IF n < p THEN n ELSE n + 1
    BY <1>4, SMT
  <1>11. OnOwnList'
    <2> SUFFICES ASSUME NEW j \in Isolates, NEW n \in 1..Len(asyncWaiters'[j])
                 PROVE  threadCurrentWaiter'[asyncWaiters'[j][n]] = j
      BY DEF OnOwnList
    <2>1. CASE j # i
      <3>1. n \in 1..Len(asyncWaiters[j]) /\ asyncWaiters'[j][n] = asyncWaiters[j][n]
        BY <1>4, <2>1
      <3>2. asyncWaiters[j][n] \in Threads /\ threadCurrentWaiter[asyncWaiters[j][n]] = j
        BY <3>1, AsyncLockFacts, SMT DEF AsyncLockInv, OnOwnList
      <3> QED
        BY <1>5, <2>1, <3>1, <3>2
    <2>2. CASE j = i
      <3>1. PICK m \in 1..len : m # p /\ asyncWaiters'[i][n] = asyncWaiters[i][m]
        BY <1>4, <1>10, <2>2
      <3>2. threadCurrentWaiter[asyncWaiters[i][m]] = i
        BY <1>1 DEF AsyncLockInv, OnOwnList
      <3> QED
        BY <1>5, <1>6, <2>2, <3>1, <3>2
    <2> QED
      BY <2>1, <2>2
  <1>12. OnListOnce'
    <2> SUFFICES ASSUME NEW j \in Isolates, NEW m \in 1..Len(asyncWaiters'[j]),
                        NEW n \in 1..Len(asyncWaiters'[j]),
                        asyncWaiters'[j][m] = asyncWaiters'[j][n]
                 PROVE  m = n
      BY DEF OnListOnce
    <2>1. CASE j # i
      BY <1>4, <2>1 DEF AsyncLockInv, OnListOnce
    <2>2. CASE j = i
      <3>0. m \in 1..(len - 1) /\ n \in 1..(len - 1)
        BY <1>4, <2>2
      <3>1. PICK a \in 1..len : /\ asyncWaiters'[i][m] = asyncWaiters[i][a]
                                /\ a = IF m < p THEN m ELSE m + 1
        BY <1>10, <3>0
      <3>2. PICK b \in 1..len : /\ asyncWaiters'[i][n] = asyncWaiters[i][b]
                                /\ b = IF n < p THEN n ELSE n + 1
        BY <1>10, <3>0
      <3>3. a = b
        BY <1>1, <2>2, <3>1, <3>2, ZenonT(60) DEF AsyncLockInv, OnListOnce
      <3> QED
        BY <3>0, <3>1, <3>2, <3>3, SMT
    <2> QED
      BY <2>1, <2>2
  <1>13. IsListed'
    <2> SUFFICES ASSUME NEW x \in Threads, threadCurrentWaiter'[x] # NoIsolate
                 PROVE  \E n \in 1..Len(asyncWaiters'[threadCurrentWaiter'[x]]) :
                            asyncWaiters'[threadCurrentWaiter'[x]][n] = x
      BY DEF IsListed
    <2>0. x # th /\ threadCurrentWaiter'[x] = threadCurrentWaiter[x]
      BY <1>5
    <2>1. PICK j \in Isolates : j = threadCurrentWaiter[x]
      BY <2>0, AsyncLockFacts
    <2>2. PICK m \in 1..Len(asyncWaiters[j]) : asyncWaiters[j][m] = x
      BY <2>0, <2>1 DEF AsyncLockInv, IsListed
    <2>3. CASE j # i
      BY <1>4, <2>0, <2>1, <2>2, <2>3
    <2>4. CASE j = i
      <3>1. m # p /\ m \in 1..len
        BY <1>1, <1>2, <2>0, <2>2, <2>4
      <3>2. PICK n \in 1..(len - 1) : m = IF n < p THEN n ELSE n + 1
        <4>1. CASE m < p
          <5>1. m \in 1..(len - 1) /\ m = IF m < p THEN m ELSE m + 1
            BY <3>1, <4>1, SMT
          <5> QED
            BY <5>1
        <4>2. CASE m > p
          <5>1. m - 1 \in 1..(len - 1) /\ m = IF m - 1 < p THEN m - 1 ELSE m - 1 + 1
            BY <3>1, <4>2, SMT
          <5> QED
            BY <5>1
        <4> QED
          BY <3>1, <4>1, <4>2, SMT
      <3>3. asyncWaiters'[i][n] = x
        BY <1>4, <2>2, <2>4, <3>2
      <3> QED
        BY <1>4, <2>0, <2>1, <2>4, <3>3
    <2> QED
      BY <2>3, <2>4
  <1>14. HeadsAreReady'
    <2> SUFFICES ASSUME NEW j \in Isolates, asyncWaiters'[j] # << >>
                 PROVE  asyncWaiters'[j][1] \in readied'
      BY DEF HeadsAreReady
    <2>1. CASE j # i
      <3>1. asyncWaiters[j] # << >> /\ asyncWaiters'[j] = asyncWaiters[j]
        BY <1>4, <2>1
      <3>2. asyncWaiters[j][1] \in readied
        BY <3>1 DEF AsyncLockInv, HeadsAreReady
      <3>3. 1 \in 1..Len(asyncWaiters[j])
        BY <3>1, AsyncLockFacts, SMT
      <3>4. asyncWaiters[j][1] # th
        BY <1>5, <2>1, <3>3, ZenonT(60) DEF AsyncLockInv, OnOwnList
      <3> QED
        BY <1>7, <3>1, <3>2, <3>4
    <2>2. CASE j = i
      <3>1. len - 1 # 0
        <4>1. asyncWaiters'[i] \in Seq(Threads)
          BY <1>4
        <4> QED
          BY <1>4, <2>2, <4>1, SMT
      <3>2. len >= 2 /\ 1 \in 1..(len - 1)
        BY <3>1, SMT
      <3>3. CASE p = 1
        BY <1>4, <1>7, <2>2, <3>2, <3>3, SMT
      <3>4. CASE p # 1
        <4>1. asyncWaiters'[i][1] = asyncWaiters[i][1]
          BY <1>4, <3>2, <3>4, SMT
        <4>2. asyncWaiters[i][1] \in readied /\ asyncWaiters[i][1] # th
          BY <1>1, <1>6, <3>2, <3>4, AsyncLockFacts, SMT DEF AsyncLockInv, HeadsAreReady
        <4> QED
          BY <1>7, <2>2, <3>4, <4>1, <4>2
      <3> QED
        BY <3>3, <3>4
    <2> QED
      BY <2>1, <2>2
  <1>15. ReadyAreHeads'
    <2> SUFFICES ASSUME NEW x \in readied'
                 PROVE  asyncWaiters'[threadCurrentWaiter'[x]][1] = x
      BY DEF ReadyAreHeads
    <2>1. CASE x \in readied \ {th}
      <3>1. PICK j \in Isolates : j = threadCurrentWaiter[x] /\ j = threadCurrentWaiter'[x]
        BY <1>5, <2>1, AsyncLockFacts
      <3>2. asyncWaiters[j][1] = x
        BY <2>1, <3>1 DEF AsyncLockInv, ReadyAreHeads
      <3>3. CASE j # i
        BY <1>4, <3>1, <3>2, <3>3
      <3>4. CASE j = i
        <4>1. p # 1
          BY <1>2, <2>1, <3>2, <3>4
        <4>2. 1 \in 1..(len - 1) /\ 1 < p
          BY <4>1, SMT
        <4> QED
          BY <1>4, <3>1, <3>2, <3>4, <4>2
      <3> QED
        BY <3>3, <3>4
    <2>2. CASE len >= 2 /\ p = 1 /\ x = asyncWaiters[i][2]
      <3>1. x \in Threads /\ x # th
        BY <1>6, <2>2, SMT
      <3>2. threadCurrentWaiter[x] = i
        BY <1>1, <2>2, SMT DEF AsyncLockInv, OnOwnList
      <3>3. asyncWaiters'[i][1] = x
        BY <1>4, <2>2, SMT
      <3> QED
        BY <1>5, <3>1, <3>2, <3>3
    <2> QED
      BY <1>7, <2>1, <2>2
  <1>16. TasksMatchWaiters'
    <2> SUFFICES ASSUME NEW u \in Takers,
                        task'[u].at \in {"waiting", "holding", "blocked"}
                 PROVE  /\ task'[u].at \in {"waiting", "holding"} =>
                              threadCurrentWaiter'[ThreadOf[u]] = task'[u].isolate
                        /\ task'[u].at = "holding" => ThreadOf[u] \in readied'
                        /\ task'[u].at = "blocked" =>
                              threadCurrentWaiter'[ThreadOf[u]] \notin {NoIsolate, task'[u].isolate}
      BY DEF TasksMatchWaiters
    <2>1. task'[u] = task[u] /\ ThreadOf[u] # th /\ ThreadOf[u] \in Threads
      BY <1>8, AsyncLockFacts
    <2>2. threadCurrentWaiter'[ThreadOf[u]] = threadCurrentWaiter[ThreadOf[u]]
      BY <1>5, <2>1
    <2> QED
      BY <1>7, <2>1, <2>2 DEF AsyncLockInv, TasksMatchWaiters
  <1>17. WaitersAreReferred'
    <2> SUFFICES ASSUME NEW x \in Threads, threadCurrentWaiter'[x] # NoIsolate
                 PROVE  RefsOf(x)' # {}
      BY DEF WaitersAreReferred
    <2>1. x # th
      BY <1>5
    <2>2. PICK u \in RefsOf(x) : TRUE
      BY <1>5, <2>1 DEF AsyncLockInv, WaitersAreReferred
    <2>3. u \in RefsOf(x)'
      BY <1>8, <2>1, <2>2 DEF RefsOf
    <2> QED
      BY <2>3
  <1> QED
    BY <1>9, <1>11, <1>12, <1>13, <1>14, <1>15, <1>16, <1>17 DEF AsyncLockInv

LEMMA DropInv ==
    ASSUME AsyncLockInv, NEW t \in Takers, task[t].at \in {"waiting", "holding"}, Drop(t)
    PROVE  AsyncLockInv'
  <1>1. CASE RefsOf(ThreadOf[t]) = {t}
    BY <1>1, LastDropInv
  <1>2. CASE RefsOf(ThreadOf[t]) # {t}
    <2>1. /\ task' = [task EXCEPT ![t].at = "done"]
          /\ UNCHANGED <<asyncWaiters, threadCurrentWaiter, readied>>
      BY <1>2 DEF Drop
    <2>2. "done" \in Ats
      BY DEF Ats
    <2> QED
      BY <1>2, <2>1, <2>2, TasksMove
  <1> QED
    BY <1>1, <1>2

LEMMA TakeInv == ASSUME AsyncLockInv, NEW t \in Takers, takeAsyncLockImpl(t) PROVE AsyncLockInv'
  <1>0. task[t].at \in {"new", "retry"}
    BY DEF takeAsyncLockImpl
  <1>1. CASE threadCurrentWaiter[ThreadOf[t]] = NoIsolate
    <2>1. /\ task' = [task EXCEPT ![t].at = "waiting"]
          /\ NewWaiter(ThreadOf[t], task[t].isolate)
      BY <1>1 DEF takeAsyncLockImpl
    <2> QED
      BY <1>0, <1>1, <2>1, NewWaiterInv
  <1>2. CASE threadCurrentWaiter[ThreadOf[t]] # NoIsolate
    <2>1. PICK to \in {"waiting", "blocked"} :
              /\ to = IF threadCurrentWaiter[ThreadOf[t]] = task[t].isolate THEN "waiting"
                                                                            ELSE "blocked"
              /\ task' = [task EXCEPT ![t].at = to]
      BY <1>2 DEF takeAsyncLockImpl
    <2>2. UNCHANGED <<asyncWaiters, threadCurrentWaiter, readied>>
      BY <1>2 DEF takeAsyncLockImpl
    <2>3. /\ to = "waiting" => threadCurrentWaiter[ThreadOf[t]] = task[t].isolate
          /\ to = "blocked" => threadCurrentWaiter[ThreadOf[t]] \notin {NoIsolate, task[t].isolate}
          /\ to # "holding" /\ to \in Ats
      BY <1>2, <2>1 DEF Ats
    <2>4. task[t].at \notin {"waiting", "holding"}
      BY <1>0
    <2> QED
      BY <2>1, <2>2, <2>3, <2>4, TasksMove
  <1> QED
    BY <1>1, <1>2

LEMMA LockTakenInv == ASSUME AsyncLockInv, NEW t \in Takers, LockTaken(t) PROVE AsyncLockInv'
  <1>1. /\ task[t].at = "waiting" /\ ThreadOf[t] \in readied
        /\ task' = [task EXCEPT ![t].at = "holding"]
        /\ UNCHANGED <<asyncWaiters, threadCurrentWaiter, readied>>
    BY DEF LockTaken
  <1>2. threadCurrentWaiter[ThreadOf[t]] = task[t].isolate
    BY <1>1 DEF AsyncLockInv, TasksMatchWaiters
  <1>3. "holding" \in Ats
    BY DEF Ats
  <1> QED
    BY <1>1, <1>2, <1>3, TasksMove

LEMMA CancelInv == ASSUME AsyncLockInv, NEW t \in Takers, CancelTake(t) PROVE AsyncLockInv'
  <1>1. CASE task[t].at = "waiting" /\ Drop(t)
    BY <1>1, DropInv
  <1>2. CASE /\ task[t].at \in {"blocked", "retry"}
             /\ task' = [task EXCEPT ![t].at = "done"]
             /\ UNCHANGED <<asyncWaiters, threadCurrentWaiter, readied>>
    <2>1. "done" \in Ats /\ task[t].at \notin {"waiting", "holding"}
      BY <1>2 DEF Ats
    <2> QED
      BY <1>2, <2>1, TasksMove
  <1> QED
    BY <1>1, <1>2 DEF CancelTake

LEMMA AsyncLockStepInv == AsyncLockInv /\ [AsyncLockNext]_asyncLockVars => AsyncLockInv'
  <1> SUFFICES ASSUME AsyncLockInv, [AsyncLockNext]_asyncLockVars PROVE AsyncLockInv'
    OBVIOUS
  <1>1. ASSUME NEW t \in Takers, takeAsyncLockImpl(t) PROVE AsyncLockInv'
    BY <1>1, TakeInv
  <1>2. ASSUME NEW t \in Takers, LockTaken(t) PROVE AsyncLockInv'
    BY <1>2, LockTakenInv
  <1>3. ASSUME NEW t \in Takers, ReleaseLock(t) PROVE AsyncLockInv'
    BY <1>3, DropInv DEF ReleaseLock
  <1>4. ASSUME NEW t \in Takers, CancelTake(t) PROVE AsyncLockInv'
    BY <1>4, CancelInv
  <1>5. CASE UNCHANGED asyncLockVars
    BY <1>5, SMT DEF AsyncLockInv, AsyncLockTypeOK, OnOwnList, OnListOnce, IsListed,
                HeadsAreReady, ReadyAreHeads, TasksMatchWaiters, WaitersAreReferred, RefsOf,
                asyncLockVars
  <1> QED
    BY <1>1, <1>2, <1>3, <1>4, <1>5 DEF AsyncLockNext

(* Waiters exist for the threads that the lists name, and only they are    *)
(* ready.                                                                  *)
THEOREM AsyncLockTypeCorrect == AsyncLockSpec => []AsyncLockTypeOK
  <1>1. AsyncLockInv => AsyncLockTypeOK
    BY DEF AsyncLockInv
  <1> QED
    BY <1>1, AsyncLockInitInv, AsyncLockStepInv, PTL DEF AsyncLockSpec

-----------------------------------------------------------------------------
(* The tasks that hold the lock of an isolate.                             *)
Holders == [i \in Isolates |-> {t \in Takers : task[t].at = "holding" /\ task[t].isolate = i}]

(* A step in which no task starts or stops holding a lock.                 *)
LEMMA HoldersKept ==
    ASSUME \A u \in Takers : /\ task'[u].at = "holding" <=> task[u].at = "holding"
                             /\ task'[u].isolate = task[u].isolate
    PROVE  Holders' = Holders
  BY DEF Holders

(* The holder of an isolate is at the head of its list, and a thread has   *)
(* one waiter: only the thread that has the lock shares it.                *)
LEMMA TakenRefines ==
    ASSUME AsyncLockInv, NEW t \in Takers, LockTaken(t)
    PROVE  Lock!LockNext
  <1>0. PICK i \in Isolates : i = task[t].isolate
    BY AsyncLockFacts
  <1>1. /\ task[t].at = "waiting" /\ ThreadOf[t] \in readied
        /\ task' = [task EXCEPT ![t].at = "holding"]
    BY DEF LockTaken
  <1>2. \A u \in Takers : /\ task'[u].at = IF u = t THEN "holding" ELSE task[u].at
                          /\ task'[u].isolate = task[u].isolate
    BY <1>1, AsyncLockFacts
  <1>3. Holders' = [Holders EXCEPT ![i] = @ \cup {t}]
    <2>1. ASSUME NEW j \in Isolates
          PROVE  {u \in Takers : task'[u].at = "holding" /\ task'[u].isolate = j} =
                 IF j = i THEN Holders[j] \cup {t} ELSE Holders[j]
      BY <1>0, <1>2 DEF Holders
    <2> QED
      BY <2>1 DEF Holders
  <1>4. t \notin Holders[i] /\ t \in Holders'[i]
    BY <1>0, <1>1, <1>2 DEF Holders
  <1>5. ASSUME NEW j \in Isolates, NEW u \in Holders[j]
        PROVE  (ThreadOf[u] = ThreadOf[t]) = (i = j)
    <2>1. /\ u \in Takers /\ threadCurrentWaiter[ThreadOf[u]] = j /\ ThreadOf[u] \in readied
          /\ threadCurrentWaiter[ThreadOf[t]] = i
      BY <1>0, <1>1, <1>5 DEF Holders, AsyncLockInv, TasksMatchWaiters
    <2>2. /\ asyncWaiters[j][1] = ThreadOf[u] /\ asyncWaiters[i][1] = ThreadOf[t]
      BY <1>1, <2>1 DEF AsyncLockInv, ReadyAreHeads
    <2> QED
      BY <2>1, <2>2
  <1>6. Lock!Acquire(t, i)
    BY <1>3, <1>5 DEF Lock!Acquire, Holders
  <1> QED
    BY <1>4, <1>6 DEF Lock!LockNext, Holders

LEMMA DropTasks ==
    ASSUME AsyncLockInv, NEW t \in Takers, Drop(t)
    PROVE  /\ task'[t].at = "done" /\ task'[t].isolate = task[t].isolate
           /\ \A u \in Takers \ {t} : /\ task'[u].at = "holding" <=> task[u].at = "holding"
                                      /\ task'[u].isolate = task[u].isolate
  <1>0. \A u \in Takers : task[u] \in [at : Ats, isolate : Isolates]
    BY AsyncLockFacts
  <1>1. CASE RefsOf(ThreadOf[t]) = {t}
    <2>1. task' = [u \in Takers |->
                      IF u = t THEN [task[u] EXCEPT !.at = "done"]
                      ELSE IF ThreadOf[u] = ThreadOf[t] /\ task[u].at = "blocked"
                      THEN [task[u] EXCEPT !.at = "retry"]
                      ELSE task[u]]
      BY <1>1 DEF Drop
    <2> QED
      BY <1>0, <2>1
  <1>2. CASE RefsOf(ThreadOf[t]) # {t}
    <2>1. task' = [task EXCEPT ![t].at = "done"]
      BY <1>2 DEF Drop
    <2> QED
      BY <2>1, AsyncLockFacts
  <1> QED
    BY <1>1, <1>2

LEMMA ReleaseRefines ==
    ASSUME AsyncLockInv, NEW t \in Takers, ReleaseLock(t)
    PROVE  Lock!LockNext
  <1>0. PICK i \in Isolates : i = task[t].isolate
    BY AsyncLockFacts
  <1>1. task[t].at = "holding" /\ Drop(t)
    BY DEF ReleaseLock
  <1>2. /\ task'[t].at = "done"
        /\ \A u \in Takers : /\ u # t => (task'[u].at = "holding" <=> task[u].at = "holding")
                             /\ task'[u].isolate = task[u].isolate
    BY <1>1, DropTasks
  <1>3. Holders' = [Holders EXCEPT ![i] = @ \ {t}]
    <2>1. ASSUME NEW j \in Isolates
          PROVE  {u \in Takers : task'[u].at = "holding" /\ task'[u].isolate = j} =
                 IF j = i THEN Holders[j] \ {t} ELSE Holders[j]
      BY <1>0, <1>2 DEF Holders
    <2> QED
      BY <2>1 DEF Holders
  <1>4. t \in Holders[i] /\ t \notin Holders'[i]
    BY <1>0, <1>1, <1>2 DEF Holders
  <1>5. Lock!Release(t, i)
    BY <1>3, <1>4 DEF Lock!Release, Holders
  <1> QED
    BY <1>4, <1>5 DEF Lock!LockNext, Holders

(* takeAsyncLockImpl() and AsyncWaiter of worker.c++ give a thread         *)
(* ownership of an isolate, for any number of threads, tasks and isolates: *)
(* whatever the order in which tasks ask, are canceled and release, no two *)
(* threads own an isolate and no thread owns two.                          *)
THEOREM AsyncLockImplements == AsyncLockSpec => ImplementsIsolateLock
  <1>1. AsyncLockInit => Lock!LockInit
    <2> SUFFICES ASSUME AsyncLockInit PROVE Lock!LockInit
      OBVIOUS
    <2>1. \A t \in Takers : task[t].at # "holding"
      BY SMT DEF AsyncLockInit
    <2> QED
      BY <2>1 DEF Lock!LockInit
  <1>2. ASSUME AsyncLockInv, [AsyncLockNext]_asyncLockVars
        PROVE  Lock!LockNext \/ Holders' = Holders
    <2>1. ASSUME NEW t \in Takers, takeAsyncLockImpl(t) PROVE Holders' = Holders
      <3>1. \A u \in Takers : /\ task'[u].at = "holding" <=> task[u].at = "holding"
                              /\ task'[u].isolate = task[u].isolate
        BY <1>2, <2>1, AsyncLockFacts, ZenonT(60) DEF takeAsyncLockImpl
      <3> QED
        BY <3>1, HoldersKept
    <2>2. ASSUME NEW t \in Takers, LockTaken(t) PROVE Lock!LockNext
      BY <1>2, <2>2, TakenRefines
    <2>3. ASSUME NEW t \in Takers, ReleaseLock(t) PROVE Lock!LockNext
      BY <1>2, <2>3, ReleaseRefines
    <2>4. ASSUME NEW t \in Takers, CancelTake(t) PROVE Holders' = Holders
      <3>1. CASE task[t].at = "waiting" /\ Drop(t)
        <4>1. \A u \in Takers : /\ task'[u].at = "holding" <=> task[u].at = "holding"
                                /\ task'[u].isolate = task[u].isolate
          BY <1>2, <3>1, DropTasks
        <4> QED
          BY <4>1, HoldersKept
      <3>2. CASE /\ task[t].at \in {"blocked", "retry"}
                 /\ task' = [task EXCEPT ![t].at = "done"]
        <4>1. \A u \in Takers : /\ task'[u].at = "holding" <=> task[u].at = "holding"
                                /\ task'[u].isolate = task[u].isolate
          BY <1>2, <3>2, AsyncLockFacts
        <4> QED
          BY <4>1, HoldersKept
      <3> QED
        BY <2>4, <3>1, <3>2 DEF CancelTake
    <2>5. CASE UNCHANGED asyncLockVars
      BY <2>5 DEF asyncLockVars, Holders
    <2> QED
      BY <1>2, <2>1, <2>2, <2>3, <2>4, <2>5 DEF AsyncLockNext
  <1>3. AsyncLockInv /\ [AsyncLockNext]_asyncLockVars => [Lock!LockNext]_Holders
    BY <1>2
  <1> QED
    BY <1>1, <1>3, AsyncLockInitInv, AsyncLockStepInv, PTL
    DEF AsyncLockSpec, ImplementsIsolateLock, Lock!LockSpec, Holders

-----------------------------------------------------------------------------
(***************************************************************************)
(* The entries are sorted by their times, and only the first of them is    *)
(* past waiting, at or after its time; the timer task waits for the first  *)
(* entry that waits.                                                       *)
(***************************************************************************)
Sorted(times) ==
    \A i, j \in 1..Len(times) : i < j => times[i].when <= times[j].when

OnlyFirstMoves(times) ==
    \A i \in 1..Len(times) : times[i].stage # "waiting" => i = 1

FirstIsDue(times, c) ==
    times # <<>> /\ times[1].stage # "waiting" => times[1].when <= c

AwaitsFirst(timer, times) ==
    timer = IF times # <<>> /\ times[1].stage = "waiting" THEN TaskFor(times) ELSE NoTask

(***************************************************************************)
(* An entry and the state of its timer agree.  A timer has one entry that  *)
(* has not ended as long as it is alive and not cleared.                   *)
(***************************************************************************)
EntryAgrees(entry, states) ==
    /\ states[entry.id].status # "unused"
    /\ entry.stage \in {"waiting", "fulfilled"} =>
          /\ states[entry.id].status = "live"
          /\ ~states[entry.id].isCanceled /\ ~states[entry.id].isRunning
    /\ entry.stage = "running" =>
          states[entry.id].status = "live" /\ states[entry.id].isRunning

OneEntryEach(times) ==
    \A i, j \in 1..Len(times) :
        times[i].id = times[j].id /\ times[i].stage # "ended" /\ times[j].stage # "ended"
        => i = j

LiveHasEntry(states, times) ==
    \A id \in Ids : states[id].status = "live" /\ ~states[id].isCanceled =>
        \E i \in 1..Len(times) : times[i].id = id /\ times[i].stage # "ended"

(* Ids are used in order.                                                  *)
UsedInOrder(states) ==
    \A id, j \in Ids : j < id /\ states[id].status # "unused" => states[j].status # "unused"

TimesInv ==
    /\ Sorted(timeoutTimes) /\ OnlyFirstMoves(timeoutTimes)
    /\ FirstIsDue(timeoutTimes, clock) /\ AwaitsFirst(timerTask, timeoutTimes)

StatesInv ==
    /\ \A i \in 1..Len(timeoutTimes) : EntryAgrees(timeoutTimes[i], timeouts)
    /\ OneEntryEach(timeoutTimes) /\ LiveHasEntry(timeouts, timeoutTimes)
    /\ UsedInOrder(timeouts)
    /\ timeoutCount = Cardinality(LiveTimers)

TimeoutsInv == TimeoutsTypeOK /\ TimesInv /\ StatesInv

Entry == [when : 0..MaxClock, id : Ids,
          stage : {"waiting", "fulfilled", "running", "ended"}]

TimeoutState == [repeat : BOOLEAN, msDelay : Nat, isCanceled : BOOLEAN,
                 isRunning : BOOLEAN, status : {"unused", "live", "erased"}]

(* A set of numbers that has all smaller ones with each is an interval.    *)
LEMMA InitialSegment ==
    ASSUME NEW n \in Nat, NEW S \in SUBSET (1..n),
           \A i \in S, j \in 1..n : j < i => j \in S
    PROVE  Cardinality(S) \in 0..n /\ S = 1..Cardinality(S) /\ IsFiniteSet(S)
  <1>1. IsFiniteSet(1..n) /\ Cardinality(1..n) = n
    BY FS_Interval, SMT
  <1>2. IsFiniteSet(S) /\ Cardinality(S) <= n
    BY <1>1, FS_Subset
  <1>3. PICK k \in Nat : k = Cardinality(S)
    BY <1>2, FS_CardinalityType
  <1>4. ASSUME NEW m \in S PROVE m <= k
    <2>1. 1..m \subseteq S
      BY SMT
    <2>2. Cardinality(1..m) = m
      BY FS_Interval, SMT
    <2>3. Cardinality(1..m) <= Cardinality(S)
      BY <1>2, <2>1, FS_Subset
    <2> QED
      BY <1>3, <2>2, <2>3
  <1>5. S \in SUBSET (1..k)
    BY <1>4, SMT
  <1>6. IsFiniteSet(1..k) /\ Cardinality(1..k) = k
    BY FS_Interval, SMT
  <1>7. Cardinality(1..k) = Cardinality(S) => 1..k = S
    BY <1>5, <1>6, FS_Subset
  <1> QED
    BY <1>2, <1>3, <1>6, <1>7, SMT

(* setTimeoutImpl() puts an entry behind those that are not later.         *)
LEMMA PlaceIsByTime ==
    ASSUME timeoutTimes \in Seq(Entry), Sorted(timeoutTimes), NEW when \in Nat
    PROVE  /\ PlaceFor(when) \in 1..(Len(timeoutTimes) + 1)
           /\ \A i \in 1..Len(timeoutTimes) :
                 i < PlaceFor(when) <=> timeoutTimes[i].when <= when
  <1> DEFINE S == {i \in 1..Len(timeoutTimes) : timeoutTimes[i].when <= when}
  <1>1. Len(timeoutTimes) \in Nat /\ DOMAIN timeoutTimes = 1..Len(timeoutTimes)
    BY SMT
  <1>2. \A i \in 1..Len(timeoutTimes) : timeoutTimes[i].when \in Nat
    <2>1. \A i \in 1..Len(timeoutTimes) : timeoutTimes[i] \in Entry
      BY SMT
    <2> QED
      BY <2>1, TimeoutsAssumption, SMT DEF Entry
  <1>3. ASSUME NEW i \in S, NEW j \in 1..Len(timeoutTimes), j < i PROVE j \in S
    BY <1>2, <1>3, SMT DEF Sorted
  <1>4. S \in SUBSET (1..Len(timeoutTimes))
    OBVIOUS
  <1>5. PlaceFor(when) = 1 + Cardinality(S)
    BY <1>1 DEF PlaceFor
  <1>6. \A i \in 1..Len(timeoutTimes) : i \in S <=> timeoutTimes[i].when <= when
    OBVIOUS
  <1> HIDE DEF S
  <1>7. Cardinality(S) \in 0..Len(timeoutTimes) /\ S = 1..Cardinality(S)
    BY <1>1, <1>3, <1>4, InitialSegment
  <1>8. PICK k \in 0..Len(timeoutTimes) : k = Cardinality(S)
    BY <1>7
  <1>9. S = 1..k /\ PlaceFor(when) = 1 + k
    BY <1>5, <1>7, <1>8
  <1> QED
    BY <1>1, <1>6, <1>9, SMT

-----------------------------------------------------------------------------
(* What is true of the list without one entry.                             *)
LEMMA Removed ==
    ASSUME NEW times \in Seq(Entry), NEW p \in 1..Len(times),
           Sorted(times), OnlyFirstMoves(times), OneEntryEach(times)
    PROVE  LET new == WithoutEntry(times, p)
           IN /\ new \in Seq(Entry)
              /\ Sorted(new) /\ OnlyFirstMoves(new) /\ OneEntryEach(new)
              /\ \A i \in 1..Len(new) :
                    \E j \in 1..Len(times) : j # p /\ new[i] = times[j]
              /\ \A j \in 1..Len(times) :
                    j # p => \E i \in 1..Len(new) : new[i] = times[j]
              /\ p # 1 => new # <<>> /\ new[1] = times[1]
              /\ new # <<>> => times[1].when <= new[1].when
              /\ p = 1 /\ new # <<>> => new[1].stage = "waiting"
  <1>0. Len(times) \in Nat
    BY SMT
  <1>1. PICK new \in Seq(Entry) : new = WithoutEntry(times, p)
    BY Unlinked
  <1>2. /\ Len(new) = Len(times) - 1
        /\ \A n \in 1..Len(new) : new[n] = IF n < p THEN times[n] ELSE times[n + 1]
    BY <1>1, Unlinked
  <1>3. \A n \in 1..Len(times) : times[n].when \in Nat
    <2>1. \A n \in 1..Len(times) : times[n] \in Entry
      BY SMT
    <2> QED
      BY <2>1, TimeoutsAssumption, SMT DEF Entry
  <1>4. Sorted(new)
    <2> SUFFICES ASSUME NEW i \in 1..Len(new), NEW j \in 1..Len(new), i < j
                 PROVE  new[i].when <= new[j].when
      BY DEF Sorted
    <2>1. PICK k \in 1..Len(times) : k = (IF i < p THEN i ELSE i + 1) /\ new[i] = times[k]
      BY <1>0, <1>2, SMT
    <2>2. PICK l \in 1..Len(times) : l = (IF j < p THEN j ELSE j + 1) /\ new[j] = times[l]
      <3>1. (IF j < p THEN j ELSE j + 1) \in 1..Len(times)
        BY <1>0, <1>2, SMT
      <3>2. new[j] = times[IF j < p THEN j ELSE j + 1]
        BY <1>2
      <3> QED
        BY <3>1, <3>2
    <2>3. k < l
      BY <2>1, <2>2, SMT
    <2> QED
      BY <2>1, <2>2, <2>3 DEF Sorted
  <1>5. OnlyFirstMoves(new)
    <2> SUFFICES ASSUME NEW i \in 1..Len(new), new[i].stage # "waiting"
                 PROVE  i = 1
      BY DEF OnlyFirstMoves
    <2>1. PICK k \in 1..Len(times) : k = (IF i < p THEN i ELSE i + 1) /\ new[i] = times[k]
      BY <1>0, <1>2, SMT
    <2>2. k = 1
      BY <2>1 DEF OnlyFirstMoves
    <2> QED
      BY <2>1, <2>2, SMT
  <1>6. OneEntryEach(new)
    <2> SUFFICES ASSUME NEW i \in 1..Len(new), NEW j \in 1..Len(new),
                        new[i].id = new[j].id, new[i].stage # "ended",
                        new[j].stage # "ended"
                 PROVE  i = j
      BY DEF OneEntryEach
    <2>1. PICK k \in 1..Len(times) : k = (IF i < p THEN i ELSE i + 1) /\ new[i] = times[k]
      BY <1>0, <1>2, SMTT(30)
    <2>2. PICK l \in 1..Len(times) : l = (IF j < p THEN j ELSE j + 1) /\ new[j] = times[l]
      BY <1>0, <1>2, SMT
    <2>3. k = l
      BY <2>1, <2>2 DEF OneEntryEach
    <2> QED
      BY <2>1, <2>2, <2>3, SMT
  <1>7. \A i \in 1..Len(new) : \E j \in 1..Len(times) : j # p /\ new[i] = times[j]
    <2> TAKE i \in 1..Len(new)
    <2>1. PICK k \in 1..Len(times) : k = (IF i < p THEN i ELSE i + 1) /\ new[i] = times[k]
      BY <1>0, <1>2, SMT
    <2> QED
      BY <2>1, SMT
  <1>8. ASSUME NEW j \in 1..Len(times), j # p
        PROVE  \E i \in 1..Len(new) : new[i] = times[j]
    <2>1. PICK i \in 1..Len(new) : i = IF j < p THEN j ELSE j - 1
      BY <1>0, <1>2, <1>8, SMT
    <2>2. new[i] = times[j]
      BY <1>2, <1>8, <2>1, SMT
    <2> QED
      BY <2>2
  <1>9. Len(new) \in Nat /\ (new # <<>> <=> Len(new) >= 1)
    BY SMT
  <1>10. p # 1 => new # <<>> /\ new[1] = times[1]
    BY <1>0, <1>2, <1>9, SMT
  <1>11. new # <<>> => times[1].when <= new[1].when
    <2> SUFFICES ASSUME new # <<>> PROVE times[1].when <= new[1].when
      OBVIOUS
    <2>1. 1 \in 1..Len(times) /\ 2 \in 1..Len(times) /\ 1 \in 1..Len(new)
      BY <1>0, <1>2, <1>9, SMT
    <2>2. new[1] = IF 1 < p THEN times[1] ELSE times[2]
      BY <1>2, <2>1, SMT
    <2> QED
      BY <1>3, <2>1, <2>2, SMT DEF Sorted
  <1>12. p = 1 /\ new # <<>> => new[1].stage = "waiting"
    <2> SUFFICES ASSUME p = 1, new # <<>> PROVE new[1].stage = "waiting"
      OBVIOUS
    <2>1. 2 \in 1..Len(times) /\ 1 \in 1..Len(new)
      BY <1>0, <1>2, <1>9, SMT
    <2>2. new[1] = times[2]
      BY <1>2, <2>1, SMT
    <2> QED
      BY <2>1, <2>2, SMT DEF OnlyFirstMoves
  <1> QED
    BY <1>1, <1>4, <1>5, <1>6, <1>7, <1>8, <1>10, <1>11, <1>12

(* What is true of the list with a new entry, at the place for its time.   *)
FitsAt(times, p, e) ==
    /\ e.stage = "waiting"
    /\ \A i \in 1..Len(times) : i < p <=> times[i].when <= e.when
    /\ \A i \in 1..Len(times) : times[i].id = e.id => times[i].stage = "ended"
    /\ times # <<>> /\ times[1].stage # "waiting" => p # 1

HasEntry(times, p, e, new) ==
    /\ new \in Seq(Entry) /\ new # <<>>
    /\ Sorted(new) /\ OnlyFirstMoves(new) /\ OneEntryEach(new)
    /\ \A i \in 1..Len(new) :
          new[i] = e \/ \E j \in 1..Len(times) : new[i] = times[j]
    /\ \A j \in 1..Len(times) : \E i \in 1..Len(new) : new[i] = times[j]
    /\ \E i \in 1..Len(new) : new[i] = e
    /\ IF p = 1 THEN new[1] = e ELSE times # <<>> /\ new[1] = times[1]

LEMMA Inserted ==
    ASSUME NEW times \in Seq(Entry), NEW e \in Entry, NEW p \in 1..(Len(times) + 1),
           Sorted(times), OnlyFirstMoves(times), OneEntryEach(times),
           FitsAt(times, p, e)
    PROVE  HasEntry(times, p, e, WithEntryAt(times, p, e))
  <1> DEFINE new == WithEntryAt(times, p, e)
  <1> USE DEF FitsAt
  <1>0. Len(times) \in Nat
    BY SMT
  <1>1. new \in Seq(Entry)
    BY Linked
  <1>2. /\ Len(new) = Len(times) + 1
        /\ \A n \in 1..Len(new) :
              new[n] = IF n < p THEN times[n] ELSE IF n = p THEN e ELSE times[n - 1]
    BY Linked, SMT
  <1> HIDE DEF new
  <1>3. e.when \in Nat /\ \A n \in 1..Len(times) : times[n].when \in Nat
    <2>1. \A n \in 1..Len(times) : times[n] \in Entry
      BY SMT
    <2> QED
      BY <2>1, TimeoutsAssumption, SMT DEF Entry
  <1>4. ASSUME NEW i \in 1..Len(new), i # p
        PROVE  \E k \in 1..Len(times) : k = (IF i < p THEN i ELSE i - 1) /\ new[i] = times[k]
    BY <1>0, <1>2, <1>4, SMT
  <1>5. p \in 1..Len(new) /\ new[p] = e
    BY <1>0, <1>2, SMT
  <1>6. Sorted(new)
    <2> SUFFICES ASSUME NEW i \in 1..Len(new), NEW j \in 1..Len(new), i < j
                 PROVE  new[i].when <= new[j].when
      BY DEF Sorted
    <2>1. CASE i = p
      <3>1. PICK l \in 1..Len(times) : l = (IF j < p THEN j ELSE j - 1) /\ new[j] = times[l]
        BY <1>4, <2>1, SMT
      <3>2. l >= p
        BY <2>1, <3>1, SMT
      <3> QED
        BY <1>3, <1>5, <2>1, <3>1, <3>2, SMTT(30)
    <2>2. CASE j = p
      <3>1. PICK k \in 1..Len(times) : k = (IF i < p THEN i ELSE i - 1) /\ new[i] = times[k]
        BY <1>4, <2>2, SMT
      <3>2. k < p
        BY <2>2, <3>1
      <3> QED
        BY <1>3, <1>5, <2>2, <3>1, <3>2
    <2>3. CASE i # p /\ j # p
      <3>1. PICK k \in 1..Len(times) : k = (IF i < p THEN i ELSE i - 1) /\ new[i] = times[k]
        BY <1>4, <2>3
      <3>2. PICK l \in 1..Len(times) : l = (IF j < p THEN j ELSE j - 1) /\ new[j] = times[l]
        BY <1>4, <2>3
      <3>3. k < l
        BY <2>3, <3>1, <3>2, SMT
      <3> QED
        BY <3>1, <3>2, <3>3, ZenonT(60) DEF Sorted
    <2> QED
      BY <2>1, <2>2, <2>3
  <1>7. OnlyFirstMoves(new)
    <2> SUFFICES ASSUME NEW i \in 1..Len(new), new[i].stage # "waiting"
                 PROVE  i = 1
      BY DEF OnlyFirstMoves
    <2>1. PICK k \in 1..Len(times) : k = (IF i < p THEN i ELSE i - 1) /\ new[i] = times[k]
      BY <1>4, <1>5
    <2>2. k = 1 /\ times # <<>> /\ times[1].stage # "waiting"
      BY <2>1, SMT DEF OnlyFirstMoves
    <2>3. p # 1
      BY <2>2
    <2> QED
      BY <1>4, <2>1, <2>2, <2>3, <1>5, SMTT(30)
  <1>8. OneEntryEach(new)
    <2> SUFFICES ASSUME NEW i \in 1..Len(new), NEW j \in 1..Len(new),
                        new[i].id = new[j].id, new[i].stage # "ended",
                        new[j].stage # "ended"
                 PROVE  i = j
      BY DEF OneEntryEach
    <2>1. CASE i = p \/ j = p
      <3>1. ASSUME NEW k \in 1..Len(new), k # p, new[k].id = e.id
            PROVE  new[k].stage = "ended"
        BY <1>4, <3>1, ZenonT(60)
      <3> QED
        BY <1>5, <2>1, <3>1
    <2>2. CASE i # p /\ j # p
      <3>1. PICK k \in 1..Len(times) : k = (IF i < p THEN i ELSE i - 1) /\ new[i] = times[k]
        BY <1>4, <2>2
      <3>2. PICK l \in 1..Len(times) : l = (IF j < p THEN j ELSE j - 1) /\ new[j] = times[l]
        BY <1>4, <2>2
      <3>3. k = l
        BY <3>1, <3>2, ZenonT(60) DEF OneEntryEach
      <3> QED
        BY <2>2, <3>1, <3>2, <3>3, SMT
    <2> QED
      BY <2>1, <2>2
  <1>9. ASSUME NEW j \in 1..Len(times)
        PROVE  \E i \in 1..Len(new) : new[i] = times[j]
    <2>1. PICK i \in 1..Len(new) : i = IF j < p THEN j ELSE j + 1
      BY <1>0, <1>2, SMT
    <2>2. new[i] = times[j]
      BY <1>2, <2>1, SMT
    <2> QED
      BY <2>2
  <1>10. new # <<>> /\ 1 \in 1..Len(new)
    BY <1>0, <1>2, SMT
  <1>11. IF p = 1 THEN new[1] = e ELSE times # <<>> /\ new[1] = times[1]
    BY <1>0, <1>2, <1>10, SMT
  <1> QED
    <2>1. HasEntry(times, p, e, new)
      BY <1>1, <1>4, <1>5, <1>6, <1>7, <1>8, <1>9, <1>10, <1>11 DEF HasEntry
    <2> QED
      BY <2>1 DEF new

-----------------------------------------------------------------------------
(* What a step may do to Date.now() and to cleared timers.                 *)
StepIsSound ==
    /\ now' >= now
    /\ \A id \in Ids :
          timeouts[id].isCanceled /\ ~timeouts[id].isRunning => ~timeouts'[id].isRunning

LEMMA Types ==
    ASSUME TimeoutsTypeOK
    PROVE  /\ clock \in 0..MaxClock /\ MaxClock \in Nat
           /\ timeouts \in [Ids -> TimeoutState]
           /\ timeoutTimes \in Seq(Entry)
           /\ Len(timeoutTimes) \in Nat
           /\ DOMAIN timeoutTimes = 1..Len(timeoutTimes)
           /\ timeoutTimes # <<>> <=> 1 \in 1..Len(timeoutTimes)
           /\ timeoutCount \in 0..MAX_TIMEOUTS /\ MAX_TIMEOUTS \in Nat
           /\ \A i \in 1..Len(timeoutTimes) :
                 /\ timeoutTimes[i] \in Entry
                 /\ timeoutTimes[i].when \in 0..MaxClock
                 /\ timeoutTimes[i].id \in Ids
  <1>1. timeoutTimes \in Seq(Entry)
    BY DEF TimeoutsTypeOK, Entry
  <1>2. \A i \in 1..Len(timeoutTimes) : timeoutTimes[i] \in Entry
    BY <1>1, SMT
  <1>3. \A i \in 1..Len(timeoutTimes) :
           timeoutTimes[i].when \in 0..MaxClock /\ timeoutTimes[i].id \in Ids
    BY <1>2 DEF Entry
  <1>4. /\ Len(timeoutTimes) \in Nat
        /\ DOMAIN timeoutTimes = 1..Len(timeoutTimes)
        /\ timeoutTimes # <<>> <=> 1 \in 1..Len(timeoutTimes)
    BY <1>1, SMT
  <1>5. timeouts \in [Ids -> TimeoutState]
    BY DEF TimeoutsTypeOK, TimeoutState
  <1> QED
    BY <1>1, <1>2, <1>3, <1>4, <1>5, TimeoutsAssumption DEF TimeoutsTypeOK

LEMMA NowFacts ==
    ASSUME TimeoutsTypeOK, FirstIsDue(timeoutTimes, clock)
    PROVE  /\ now \in 0..MaxClock /\ now <= clock
           /\ timeoutTimes # <<>> => now <= timeoutTimes[1].when
           /\ timeoutTimes # <<>> /\ timeoutTimes[1].stage # "waiting" =>
                 now = timeoutTimes[1].when
  BY Types, SMT DEF now, NowFor, FirstIsDue

LEMMA NowGrows ==
    ASSUME TimeoutsTypeOK, TimeoutsTypeOK', FirstIsDue(timeoutTimes, clock),
           clock' >= clock,
           timeoutTimes' # <<>> => timeoutTimes'[1].when >= now
    PROVE  now' >= now
  <1>1. PICK n \in 0..MaxClock : n = now /\ n <= clock
    BY NowFacts
  <1>2. clock' \in 0..MaxClock
    BY DEF TimeoutsTypeOK
  <1>3. now' = IF timeoutTimes' = <<>> \/ clock' < timeoutTimes'[1].when
               THEN clock' ELSE timeoutTimes'[1].when
    BY DEF now, NowFor
  <1>4. clock \in 0..MaxClock /\ MaxClock \in Nat
    BY Types
  <1> QED
    BY <1>1, <1>2, <1>3, <1>4, SMT

(* The live timers are as many as the limit counts.                        *)
LEMMA LiveIsFinite == IsFiniteSet(LiveTimers)
  <1>1. IsFiniteSet(1..MaxId)
    BY FS_Interval, TimeoutsAssumption, SMT
  <1>2. LiveTimers \in SUBSET (1..MaxId)
    BY DEF LiveTimers, Ids
  <1> QED
    BY <1>1, <1>2, FS_Subset

LEMMA NextIdIsNew ==
    ASSUME TimeoutsTypeOK, UsedInOrder(timeouts), NEW id \in Ids,
           id = Cardinality(Used) + 1
    PROVE  /\ timeouts[id].status = "unused"
           /\ \A j \in Ids : j < id => timeouts[j].status # "unused"
  <1>1. Used \in SUBSET (1..MaxId) /\ \A i \in Used, j \in 1..MaxId : j < i => j \in Used
    BY DEF Used, UsedInOrder, Ids
  <1>2. Used = 1..Cardinality(Used) /\ Cardinality(Used) \in Nat
    <2>1. MaxId \in Nat
      BY TimeoutsAssumption
    <2>2. Cardinality(Used) \in 0..MaxId /\ Used = 1..Cardinality(Used)
      BY <1>1, <2>1, InitialSegment
    <2> QED
      BY <2>1, <2>2, SMT
  <1>3. id \notin Used /\ \A j \in Ids : j < id => j \in Used
    BY <1>2, SMT DEF Ids
  <1> QED
    BY <1>3 DEF Used

(* The timer task for a list whose first entry waits, or is gone.          *)
LEMMA TaskType ==
    ASSUME NEW times \in Seq(Entry), NEW timer, AwaitsFirst(timer, times)
    PROVE  timer \in [when : 0..MaxClock, id : Ids \cup {0}]
  <1>1. times # <<>> => times[1] \in Entry
    BY SMT
  <1>2. times # <<>> => times[1].when \in 0..MaxClock /\ times[1].id \in Ids
    BY <1>1 DEF Entry
  <1> QED
    BY <1>2, TimeoutsAssumption, SMT DEF AwaitsFirst, TaskFor, NoTask

LEMMA StartKeeps ==
    ASSUME TimeoutsInv, NEW id \in Ids, NEW repeat \in BOOLEAN, NEW d \in Nat,
           setTimeout(id, repeat, d)
    PROVE  TimeoutsInv' /\ StepIsSound
  <1>1. TimeoutsTypeOK /\ TimesInv /\ StatesInv
    BY DEF TimeoutsInv
  <1>2. PICK n \in 0..MaxClock : n = now
    BY <1>1, NowFacts DEF TimesInv
  <1>3. /\ n <= clock
        /\ timeoutTimes # <<>> => n <= timeoutTimes[1].when
        /\ timeoutTimes # <<>> /\ timeoutTimes[1].stage # "waiting" =>
              n = timeoutTimes[1].when
    BY <1>1, <1>2, NowFacts DEF TimesInv
  <1>4. PICK w \in 0..MaxClock : w = now + d /\ w >= n
    BY <1>2, TimeoutsAssumption, SMTT(30) DEF setTimeout, StartAt
  <1>5. PICK p \in 1..(Len(timeoutTimes) + 1) : p = PlaceFor(w)
    <2>1. w \in Nat /\ timeoutTimes \in Seq(Entry) /\ Sorted(timeoutTimes)
      BY <1>1, <1>4, Types, TimeoutsAssumption, SMT DEF TimesInv
    <2>2. PlaceFor(w) \in 1..(Len(timeoutTimes) + 1)
      BY <2>1, PlaceIsByTime
    <2> QED
      BY <2>2
  <1>6. \A i \in 1..Len(timeoutTimes) : i < p <=> timeoutTimes[i].when <= w
    <2>1. w \in Nat /\ timeoutTimes \in Seq(Entry) /\ Sorted(timeoutTimes)
      BY <1>1, <1>4, Types, SMT DEF TimesInv
    <2>2. \A i \in 1..Len(timeoutTimes) : i < PlaceFor(w) <=> timeoutTimes[i].when <= w
      BY <2>1, PlaceIsByTime
    <2> QED
      BY <1>5, <2>2
  <1>7. PICK e \in Entry : e = [when |-> w, id |-> id, stage |-> "waiting"]
    BY DEF Entry
  <1>8. e.when = w /\ e.id = id /\ e.stage = "waiting"
    BY <1>7
  <1>9. /\ timeoutTimes' = WithEntryAt(timeoutTimes, p, e)
        /\ timerTask' = IF p = 1 THEN TaskFor(timeoutTimes') ELSE timerTask
    BY <1>4, <1>5, <1>7 DEF setTimeout, StartAt, SetTimes, WithEntry
  <1>10. /\ clock' = clock /\ timeoutCount' = timeoutCount + 1
         /\ timeoutCount < MAX_TIMEOUTS
         /\ id = Cardinality(Used) + 1
    BY DEF setTimeout, StartAt
  <1>11. PICK s \in TimeoutState : s = [repeat |-> repeat, msDelay |-> d,
             isCanceled |-> FALSE, isRunning |-> FALSE, status |-> "live"]
    BY ZenonT(60) DEF TimeoutState
  <1>12. s.isCanceled = FALSE /\ s.isRunning = FALSE /\ s.status = "live"
    BY <1>11
  <1>13. timeouts' = [timeouts EXCEPT ![id] = s]
    BY <1>11 DEF setTimeout, StartAt
  <1>14. /\ timeouts' \in [Ids -> TimeoutState] /\ timeouts'[id] = s
         /\ \A j \in Ids : j # id => timeouts'[j] = timeouts[j]
    BY <1>1, <1>13, Types
  <1>15. /\ timeouts[id].status = "unused"
         /\ \A j \in Ids : j < id => timeouts[j].status # "unused"
    BY <1>1, <1>10, NextIdIsNew DEF StatesInv
  <1>16. \A i \in 1..Len(timeoutTimes) : timeoutTimes[i].id # id
    BY <1>1, <1>15 DEF StatesInv, EntryAgrees
  <1>17. timeoutTimes # <<>> /\ timeoutTimes[1].stage # "waiting" => p # 1
    BY <1>1, <1>3, <1>4, <1>6, Types, SMTT(30)
  <1>18. /\ timeoutTimes' \in Seq(Entry) /\ timeoutTimes' # <<>>
         /\ Sorted(timeoutTimes') /\ OnlyFirstMoves(timeoutTimes')
         /\ OneEntryEach(timeoutTimes')
         /\ \A i \in 1..Len(timeoutTimes') :
               timeoutTimes'[i] = e \/
               \E j \in 1..Len(timeoutTimes) : timeoutTimes'[i] = timeoutTimes[j]
         /\ \A j \in 1..Len(timeoutTimes) :
               \E i \in 1..Len(timeoutTimes') : timeoutTimes'[i] = timeoutTimes[j]
         /\ \E i \in 1..Len(timeoutTimes') : timeoutTimes'[i] = e
         /\ IF p = 1 THEN timeoutTimes'[1] = e
                     ELSE timeoutTimes # <<>> /\ timeoutTimes'[1] = timeoutTimes[1]
    <2>1. /\ Sorted(timeoutTimes) /\ OnlyFirstMoves(timeoutTimes)
          /\ OneEntryEach(timeoutTimes) /\ timeoutTimes \in Seq(Entry)
      BY <1>1, Types DEF TimesInv, StatesInv
    <2> QED
      <3>1. \A i \in 1..Len(timeoutTimes) : i < p <=> timeoutTimes[i].when <= e.when
        BY <1>6, <1>8
      <3>2. \A i \in 1..Len(timeoutTimes) :
               timeoutTimes[i].id = e.id => timeoutTimes[i].stage = "ended"
        BY <1>8, <1>16
      <3> QED
        <4>1. FitsAt(timeoutTimes, p, e)
          BY <1>8, <1>17, <3>1, <3>2 DEF FitsAt
        <4>2. HasEntry(timeoutTimes, p, e, timeoutTimes')
          BY <1>9, <2>1, <4>1, Inserted
        <4> QED
          BY <4>2 DEF HasEntry
  <1>19. AwaitsFirst(timerTask', timeoutTimes')
    BY <1>1, <1>8, <1>9, <1>18 DEF TimesInv, AwaitsFirst, TaskFor
  <1>20. TimesInv'
    BY <1>1, <1>8, <1>10, <1>18, <1>19 DEF TimesInv, FirstIsDue
  <1>21. TimeoutsTypeOK'
    <2>1. timerTask' \in [when : 0..MaxClock, id : Ids \cup {0}]
      BY <1>18, <1>19, TaskType
    <2>2. timeoutCount' \in 0..MAX_TIMEOUTS
      BY <1>1, <1>10, Types, SMT
    <2>3. clock' \in 0..MaxClock
      BY <1>1, <1>10, Types
    <2> QED
      BY <1>14, <1>18, <2>1, <2>2, <2>3 DEF TimeoutsTypeOK, Entry, TimeoutState
  <1>22. LiveTimers' = LiveTimers \cup {id} /\ id \notin LiveTimers
    BY <1>12, <1>14, <1>15 DEF LiveTimers
  <1>23. timeoutCount' = Cardinality(LiveTimers')
    <2>1. Cardinality(LiveTimers \cup {id}) = Cardinality(LiveTimers) + 1
      BY <1>22, LiveIsFinite, FS_AddElement
    <2> QED
      BY <1>1, <1>10, <1>22, <2>1 DEF StatesInv
  <1>24. ASSUME NEW i \in 1..Len(timeoutTimes')
         PROVE  EntryAgrees(timeoutTimes'[i], timeouts')
    <2>1. CASE timeoutTimes'[i] = e
      BY <1>8, <1>12, <1>14, <2>1 DEF EntryAgrees
    <2>2. ASSUME NEW j \in 1..Len(timeoutTimes), timeoutTimes'[i] = timeoutTimes[j]
          PROVE  EntryAgrees(timeoutTimes'[i], timeouts')
      <3>1. timeoutTimes[j].id \in Ids /\ timeoutTimes[j].id # id
        BY <1>1, <1>16, Types
      <3>2. EntryAgrees(timeoutTimes[j], timeouts)
        BY <1>1 DEF StatesInv
      <3>3. timeouts'[timeoutTimes[j].id] = timeouts[timeoutTimes[j].id]
        BY <1>14, <3>1
      <3> QED
        BY <2>2, <3>2, <3>3 DEF EntryAgrees
    <2> QED
      BY <1>18, <2>1, <2>2
  <1>25. LiveHasEntry(timeouts', timeoutTimes')
    <2> SUFFICES ASSUME NEW j \in Ids, timeouts'[j].status = "live", ~timeouts'[j].isCanceled
                 PROVE  \E i \in 1..Len(timeoutTimes') :
                           timeoutTimes'[i].id = j /\ timeoutTimes'[i].stage # "ended"
      BY DEF LiveHasEntry
    <2>1. CASE j = id
      BY <1>8, <1>18, <2>1
    <2>2. CASE j # id
      <3>1. PICK k \in 1..Len(timeoutTimes) :
               timeoutTimes[k].id = j /\ timeoutTimes[k].stage # "ended"
        BY <1>1, <1>14, <2>2 DEF StatesInv, LiveHasEntry
      <3> QED
        BY <1>18, <3>1, SMTT(30)
    <2> QED
      BY <2>1, <2>2
  <1>26. UsedInOrder(timeouts')
    <2> SUFFICES ASSUME NEW i \in Ids, NEW j \in Ids, j < i, timeouts'[i].status # "unused"
                 PROVE  timeouts'[j].status # "unused"
      BY DEF UsedInOrder
    <2>1. j = id => timeouts'[j].status # "unused"
      BY <1>12, <1>14
    <2>2. j # id /\ i = id => timeouts'[j].status # "unused"
      BY <1>14, <1>15
    <2>3. j # id /\ i # id => timeouts'[j].status # "unused"
      BY <1>1, <1>14 DEF StatesInv, UsedInOrder
    <2> QED
      BY <2>1, <2>2, <2>3
  <1>27. StatesInv'
    BY <1>18, <1>23, <1>24, <1>25, <1>26 DEF StatesInv
  <1>28. now' >= now
    <2>1. timeoutTimes'[1].when >= n
      <3>1. CASE p = 1
        BY <1>4, <1>8, <1>18, <3>1
      <3>2. CASE p # 1
        <4>1. timeoutTimes # <<>> /\ timeoutTimes'[1] = timeoutTimes[1]
          BY <1>18, <3>2
        <4>2. timeoutTimes[1].when \in Nat /\ n <= timeoutTimes[1].when
          BY <1>1, <1>3, <4>1, Types, SMT
        <4> QED
          BY <4>1, <4>2
      <3> QED
        BY <3>1, <3>2
    <2>2. clock' >= clock
      BY <1>1, <1>10, Types, SMTT(30)
    <2> QED
      BY <1>1, <1>2, <1>21, <2>1, <2>2, NowGrows DEF TimesInv
  <1>29. \A j \in Ids : timeouts[j].isCanceled /\ ~timeouts[j].isRunning => ~timeouts'[j].isRunning
    BY <1>12, <1>14
  <1> QED
    BY <1>20, <1>21, <1>27, <1>28, <1>29 DEF TimeoutsInv, StepIsSound

LEMMA RemovalKeepsTimes ==
    ASSUME TimeoutsInv, NEW p \in 1..Len(timeoutTimes), RemoveEntry(p), clock' = clock
    PROVE  /\ TimesInv' /\ timeoutTimes' \in Seq(Entry) /\ OneEntryEach(timeoutTimes')
           /\ timerTask' \in [when : 0..MaxClock, id : Ids \cup {0}]
           /\ \A i \in 1..Len(timeoutTimes') : \E j \in 1..Len(timeoutTimes) :
                 j # p /\ timeoutTimes'[i] = timeoutTimes[j]
           /\ \A j \in 1..Len(timeoutTimes) :
                 j # p => \E i \in 1..Len(timeoutTimes') : timeoutTimes'[i] = timeoutTimes[j]
           /\ timeoutTimes' # <<>> => timeoutTimes'[1].when >= now
  <1>1. TimeoutsTypeOK /\ TimesInv /\ StatesInv
    BY DEF TimeoutsInv
  <1>2. /\ timeoutTimes' = WithoutEntry(timeoutTimes, p)
        /\ timerTask' = IF p = 1 THEN TaskFor(timeoutTimes') ELSE timerTask
    BY DEF RemoveEntry, SetTimes
  <1>3. /\ Sorted(timeoutTimes) /\ OnlyFirstMoves(timeoutTimes)
        /\ OneEntryEach(timeoutTimes) /\ timeoutTimes \in Seq(Entry)
    BY <1>1, Types DEF TimesInv, StatesInv
  <1>4. /\ timeoutTimes' \in Seq(Entry)
        /\ Sorted(timeoutTimes') /\ OnlyFirstMoves(timeoutTimes')
        /\ OneEntryEach(timeoutTimes')
        /\ \A i \in 1..Len(timeoutTimes') : \E j \in 1..Len(timeoutTimes) :
              j # p /\ timeoutTimes'[i] = timeoutTimes[j]
        /\ \A j \in 1..Len(timeoutTimes) :
              j # p => \E i \in 1..Len(timeoutTimes') : timeoutTimes'[i] = timeoutTimes[j]
        /\ p # 1 => timeoutTimes' # <<>> /\ timeoutTimes'[1] = timeoutTimes[1]
        /\ timeoutTimes' # <<>> => timeoutTimes[1].when <= timeoutTimes'[1].when
        /\ p = 1 /\ timeoutTimes' # <<>> => timeoutTimes'[1].stage = "waiting"
    BY <1>2, <1>3, Removed, ZenonT(60)
  <1>5. timeoutTimes # <<>> /\ 1 \in 1..Len(timeoutTimes)
    BY <1>3, SMT
  <1>6. AwaitsFirst(timerTask', timeoutTimes')
    BY <1>1, <1>2, <1>4, <1>5 DEF TimesInv, AwaitsFirst, TaskFor
  <1>7. FirstIsDue(timeoutTimes', clock')
    BY <1>1, <1>4, <1>5 DEF TimesInv, FirstIsDue
  <1>8. timeoutTimes' # <<>> => timeoutTimes'[1].when >= now
    <2>1. PICK n \in 0..MaxClock : n = now /\ n <= timeoutTimes[1].when
      BY <1>1, <1>5, NowFacts DEF TimesInv
    <2>2. timeoutTimes[1].when \in Nat
      BY <1>1, <1>5, Types, SMTT(30)
    <2>3. timeoutTimes' # <<>> => timeoutTimes'[1] \in Entry
      BY <1>4, SMT
    <2>4. timeoutTimes' # <<>> => timeoutTimes'[1].when \in Nat
      BY <2>3, TimeoutsAssumption, SMT DEF Entry
    <2> QED
      BY <1>4, <2>1, <2>2, <2>4, SMT
  <1> QED
    BY <1>4, <1>6, <1>7, <1>8, TaskType DEF TimesInv

LEMMA CompletionKeeps ==
    ASSUME TimeoutsInv, NEW p, PromiseCompletes(p)
    PROVE  TimeoutsInv' /\ StepIsSound
  <1>1. TimeoutsTypeOK /\ TimesInv /\ StatesInv
    BY DEF TimeoutsInv
  <1>2. p \in 1..Len(timeoutTimes) /\ timeoutTimes[p].stage = "ended"
    BY <1>1, Types DEF PromiseCompletes, At
  <1>3. RemoveEntry(p) /\ clock' = clock /\ timeouts' = timeouts /\ timeoutCount' = timeoutCount
    BY DEF PromiseCompletes
  <1>4. /\ TimesInv' /\ timeoutTimes' \in Seq(Entry) /\ OneEntryEach(timeoutTimes')
        /\ timerTask' \in [when : 0..MaxClock, id : Ids \cup {0}]
        /\ \A i \in 1..Len(timeoutTimes') : \E j \in 1..Len(timeoutTimes) :
              j # p /\ timeoutTimes'[i] = timeoutTimes[j]
        /\ \A j \in 1..Len(timeoutTimes) :
              j # p => \E i \in 1..Len(timeoutTimes') : timeoutTimes'[i] = timeoutTimes[j]
        /\ timeoutTimes' # <<>> => timeoutTimes'[1].when >= now
    BY <1>2, <1>3, RemovalKeepsTimes
  <1>5. TimeoutsTypeOK'
    BY <1>1, <1>3, <1>4 DEF TimeoutsTypeOK, Entry
  <1>6. \A i \in 1..Len(timeoutTimes') : EntryAgrees(timeoutTimes'[i], timeouts')
    BY <1>1, <1>3, <1>4 DEF StatesInv
  <1>7. LiveHasEntry(timeouts', timeoutTimes')
    <2> SUFFICES ASSUME NEW j \in Ids, timeouts'[j].status = "live", ~timeouts'[j].isCanceled
                 PROVE  \E i \in 1..Len(timeoutTimes') :
                           timeoutTimes'[i].id = j /\ timeoutTimes'[i].stage # "ended"
      BY DEF LiveHasEntry
    <2>1. PICK k \in 1..Len(timeoutTimes) :
             timeoutTimes[k].id = j /\ timeoutTimes[k].stage # "ended"
      BY <1>1, <1>3 DEF StatesInv, LiveHasEntry
    <2> QED
      BY <1>2, <1>4, <2>1, ZenonT(60)
  <1>8. UsedInOrder(timeouts') /\ LiveTimers' = LiveTimers
    BY <1>1, <1>3 DEF StatesInv, LiveTimers
  <1>9. StatesInv'
    BY <1>1, <1>3, <1>4, <1>6, <1>7, <1>8 DEF StatesInv
  <1>10. now' >= now
    <2>1. clock' >= clock
      BY <1>1, <1>3, Types, SMT
    <2> QED
      BY <1>1, <1>4, <1>5, <2>1, NowGrows DEF TimesInv
  <1> QED
    BY <1>3, <1>4, <1>5, <1>9, <1>10 DEF TimeoutsInv, StepIsSound

(* clearTimeout() finds the entry of a timer whose callback does not run.  *)
LEMMA EntryIsFound ==
    ASSUME TimeoutsInv, NEW id \in LiveTimers, ~timeouts[id].isRunning
    PROVE  /\ EntryOf(id) \in 1..Len(timeoutTimes)
           /\ timeoutTimes[EntryOf(id)].id = id
           /\ timeoutTimes[EntryOf(id)].stage \in {"waiting", "fulfilled"}
  <1>1. TimeoutsTypeOK /\ StatesInv
    BY DEF TimeoutsInv
  <1>2. DOMAIN timeoutTimes = 1..Len(timeoutTimes)
    BY <1>1, Types
  <1>3. PICK i \in 1..Len(timeoutTimes) :
           timeoutTimes[i].id = id /\ timeoutTimes[i].stage # "ended"
    BY <1>1 DEF StatesInv, LiveHasEntry, LiveTimers
  <1>4. EntryAgrees(timeoutTimes[i], timeouts) /\ timeoutTimes[i] \in Entry
    BY <1>1, Types DEF StatesInv
  <1>5. timeoutTimes[i].stage # "running"
    BY <1>3, <1>4 DEF EntryAgrees
  <1>6. timeoutTimes[i].stage \in {"waiting", "fulfilled"}
    BY <1>3, <1>4, <1>5 DEF Entry
  <1> QED
    BY <1>2, <1>3, <1>6 DEF EntryOf

LEMMA ClearKeeps ==
    ASSUME TimeoutsInv, NEW id \in Ids, clearTimeout(id)
    PROVE  TimeoutsInv' /\ StepIsSound
  <1>1. TimeoutsTypeOK /\ TimesInv /\ StatesInv /\ timeouts \in [Ids -> TimeoutState]
    BY Types DEF TimeoutsInv
  <1>2. /\ id \in LiveTimers /\ clock' = clock /\ timeoutCount' = timeoutCount - 1
        /\ timeouts[id].status = "live" /\ ~timeouts[id].isCanceled
    BY DEF clearTimeout, LiveTimers
  <1>3. PICK s \in TimeoutState : s = [timeouts[id] EXCEPT !.isCanceled = TRUE]
    BY <1>1 DEF TimeoutState
  <1>4. s.isCanceled /\ s.status = "live" /\ s.isRunning = timeouts[id].isRunning
    BY <1>1, <1>2, <1>3 DEF TimeoutState
  <1>5. timeouts' = [timeouts EXCEPT ![id] = s]
    BY <1>3 DEF clearTimeout
  <1>6. /\ timeouts' \in [Ids -> TimeoutState] /\ timeouts'[id] = s
        /\ \A j \in Ids : j # id => timeouts'[j] = timeouts[j]
    BY <1>1, <1>5
  <1>7. /\ timeoutCount' = Cardinality(LiveTimers') /\ timeoutCount' \in 0..MAX_TIMEOUTS
    <2>1. LiveTimers' = LiveTimers \ {id}
      BY <1>4, <1>6 DEF LiveTimers
    <2>2. /\ Cardinality(LiveTimers \ {id}) = Cardinality(LiveTimers) - 1
          /\ IsFiniteSet(LiveTimers \ {id})
      BY <1>2, LiveIsFinite, FS_RemoveElement
    <2>3. Cardinality(LiveTimers \ {id}) \in Nat
      BY <2>2, FS_CardinalityType
    <2>4. timeoutCount' = Cardinality(LiveTimers')
      BY <1>1, <1>2, <2>1, <2>2 DEF StatesInv
    <2> QED
      BY <1>1, <1>2, <2>1, <2>3, <2>4, Types, SMTT(30)
  <1>8. UsedInOrder(timeouts')
    BY <1>1, <1>2, <1>4, <1>6 DEF StatesInv, UsedInOrder
  <1>9. \A j \in Ids : timeouts[j].isCanceled /\ ~timeouts[j].isRunning => ~timeouts'[j].isRunning
    BY <1>4, <1>6
  <1>10. ASSUME NEW entry \in Entry, EntryAgrees(entry, timeouts),
                entry.id = id => entry.stage \in {"running", "ended"}
         PROVE  EntryAgrees(entry, timeouts')
    <2>1. CASE entry.id = id
      BY <1>4, <1>6, <1>10, <2>1 DEF EntryAgrees
    <2>2. CASE entry.id # id
      <3>1. timeouts'[entry.id] = timeouts[entry.id]
        BY <1>6, <2>2 DEF Entry
      <3> QED
        BY <1>10, <3>1 DEF EntryAgrees
    <2> QED
      BY <2>1, <2>2
  <1>11. ASSUME NEW j \in Ids, timeouts'[j].status = "live", ~timeouts'[j].isCanceled
         PROVE  j # id /\ \E k \in 1..Len(timeoutTimes) :
                   timeoutTimes[k].id = j /\ timeoutTimes[k].stage # "ended"
    <2>1. j # id
      BY <1>4, <1>6, <1>11
    <2> QED
      BY <1>1, <1>6, <1>11, <2>1 DEF StatesInv, LiveHasEntry
  <1>12. CASE timeouts[id].isRunning
    <2>1. timeoutTimes' = timeoutTimes /\ timerTask' = timerTask
      BY <1>12 DEF clearTimeout
    <2>2. TimesInv'
      BY <1>1, <1>2, <2>1 DEF TimesInv
    <2>3. TimeoutsTypeOK'
      BY <1>1, <1>2, <1>6, <1>7, <2>1 DEF TimeoutsTypeOK, TimeoutState
    <2>4. ASSUME NEW i \in 1..Len(timeoutTimes)
          PROVE  EntryAgrees(timeoutTimes[i], timeouts')
      <3>1. timeoutTimes[i] \in Entry /\ EntryAgrees(timeoutTimes[i], timeouts)
        BY <1>1, Types DEF StatesInv
      <3>2. timeoutTimes[i].id = id => timeoutTimes[i].stage \notin {"waiting", "fulfilled"}
        BY <1>12, <3>1 DEF EntryAgrees
      <3>3. timeoutTimes[i].id = id => timeoutTimes[i].stage \in {"running", "ended"}
        BY <3>1, <3>2 DEF Entry
      <3> QED
        BY <1>10, <3>1, <3>3
    <2>5. LiveHasEntry(timeouts', timeoutTimes)
      BY <1>11 DEF LiveHasEntry
    <2>6. StatesInv'
      BY <1>1, <1>7, <1>8, <2>1, <2>4, <2>5 DEF StatesInv
    <2>7. now' = now /\ now \in Nat
      BY <1>1, <1>2, <2>1, NowFacts, Types, SMTT(30) DEF now, TimesInv
    <2> QED
      BY <1>9, <2>2, <2>3, <2>6, <2>7, SMTT(30) DEF TimeoutsInv, StepIsSound
  <1>13. CASE ~timeouts[id].isRunning
    <2>1. PICK p \in 1..Len(timeoutTimes) : p = EntryOf(id)
      BY <1>2, <1>13, EntryIsFound
    <2>2. timeoutTimes[p].id = id /\ timeoutTimes[p].stage \in {"waiting", "fulfilled"}
      BY <1>2, <1>13, <2>1, EntryIsFound
    <2>3. RemoveEntry(p)
      BY <1>13, <2>1 DEF clearTimeout
    <2>4. /\ TimesInv' /\ timeoutTimes' \in Seq(Entry) /\ OneEntryEach(timeoutTimes')
          /\ timerTask' \in [when : 0..MaxClock, id : Ids \cup {0}]
          /\ \A i \in 1..Len(timeoutTimes') : \E j \in 1..Len(timeoutTimes) :
                j # p /\ timeoutTimes'[i] = timeoutTimes[j]
          /\ \A j \in 1..Len(timeoutTimes) :
                j # p => \E i \in 1..Len(timeoutTimes') : timeoutTimes'[i] = timeoutTimes[j]
          /\ timeoutTimes' # <<>> => timeoutTimes'[1].when >= now
      BY <1>2, <2>3, RemovalKeepsTimes
    <2>5. TimeoutsTypeOK'
      BY <1>1, <1>2, <1>6, <1>7, <2>4 DEF TimeoutsTypeOK, Entry, TimeoutState
    <2>6. ASSUME NEW i \in 1..Len(timeoutTimes')
          PROVE  EntryAgrees(timeoutTimes'[i], timeouts')
      <3>1. PICK j \in 1..Len(timeoutTimes) : j # p /\ timeoutTimes'[i] = timeoutTimes[j]
        BY <2>4
      <3>2. timeoutTimes[j] \in Entry /\ EntryAgrees(timeoutTimes[j], timeouts)
        BY <1>1, Types DEF StatesInv
      <3>3. timeoutTimes[j].id = id => timeoutTimes[j].stage = "ended"
        BY <1>1, <2>2, <3>1 DEF StatesInv, OneEntryEach
      <3> QED
        BY <1>10, <3>1, <3>2, <3>3
    <2>7. LiveHasEntry(timeouts', timeoutTimes')
      <3> SUFFICES ASSUME NEW j \in Ids, timeouts'[j].status = "live", ~timeouts'[j].isCanceled
                   PROVE  \E i \in 1..Len(timeoutTimes') :
                             timeoutTimes'[i].id = j /\ timeoutTimes'[i].stage # "ended"
        BY DEF LiveHasEntry
      <3>1. PICK k \in 1..Len(timeoutTimes) :
               k # p /\ timeoutTimes[k].id = j /\ timeoutTimes[k].stage # "ended"
        BY <1>11, <2>2, SMT
      <3> QED
        BY <2>4, <3>1, ZenonT(60)
    <2>8. StatesInv'
      BY <1>7, <1>8, <2>4, <2>6, <2>7 DEF StatesInv
    <2>9. clock' >= clock
      BY <1>1, <1>2, Types, SMTT(30)
    <2>10. now' >= now
      BY <1>1, <2>4, <2>5, <2>9, NowGrows DEF TimesInv
    <2> QED
      BY <1>9, <2>4, <2>5, <2>8, <2>10 DEF TimeoutsInv, StepIsSound
  <1> QED
    BY <1>12, <1>13

-----------------------------------------------------------------------------
(* The first entry moves on to its next stage.                             *)
MovedOn(times, next, new) ==
    /\ new \in Seq(Entry) /\ new # <<>> /\ Len(new) = Len(times)
    /\ new[1].when = times[1].when /\ new[1].id = times[1].id
    /\ new[1].stage = next
    /\ \A i \in 1..Len(times) : i # 1 => new[i] = times[i]
    /\ Sorted(new) /\ OnlyFirstMoves(new) /\ OneEntryEach(new)

LEMMA Staged ==
    ASSUME NEW times \in Seq(Entry), times # <<>>,
           NEW next \in {"fulfilled", "running", "ended"},
           Sorted(times), OnlyFirstMoves(times), OneEntryEach(times),
           times[1].stage # "ended"
    PROVE  MovedOn(times, next, [times EXCEPT ![1].stage = next])
  <1> DEFINE new == [times EXCEPT ![1].stage = next]
  <1>0. Len(times) \in Nat /\ 1 \in 1..Len(times) /\ times[1] \in Entry
    BY SMT
  <1>1. PICK e \in Entry : e = [times[1] EXCEPT !.stage = next]
    BY <1>0 DEF Entry
  <1>2. e.when = times[1].when /\ e.id = times[1].id /\ e.stage = next
    BY <1>0, <1>1 DEF Entry
  <1>3. new = [times EXCEPT ![1] = e]
    BY <1>0, <1>1
  <1> HIDE DEF new
  <1>4. new \in Seq(Entry)
    <2>1. new \in [1..Len(times) -> Entry]
      BY <1>0, <1>3, SMT
    <2> QED
      BY <1>0, <2>1, SMT
  <1>5. /\ Len(new) = Len(times) /\ new # <<>> /\ new[1] = e
        /\ \A i \in 1..Len(times) : i # 1 => new[i] = times[i]
    BY <1>0, <1>3, SMT
  <1>6. \A i \in 1..Len(times) :
           /\ new[i].when = times[i].when /\ new[i].id = times[i].id
           /\ new[i].stage # "ended" => times[i].stage # "ended"
           /\ i # 1 => new[i].stage = times[i].stage
    BY <1>2, <1>5
  <1>7. Sorted(new)
    BY <1>5, <1>6 DEF Sorted
  <1>8. OnlyFirstMoves(new)
    BY <1>5, <1>6 DEF OnlyFirstMoves
  <1>9. OneEntryEach(new)
    BY <1>5, <1>6, SMT DEF OneEntryEach
  <1>10. MovedOn(times, next, new)
    BY <1>2, <1>4, <1>5, <1>7, <1>8, <1>9 DEF MovedOn
  <1> QED
    BY <1>10 DEF new

LEMMA FiringKeeps ==
    ASSUME TimeoutsInv, TimerFires
    PROVE  TimeoutsInv' /\ StepIsSound
  <1>1. TimeoutsTypeOK /\ TimesInv /\ StatesInv /\ timeoutTimes \in Seq(Entry)
    BY Types DEF TimeoutsInv
  <1>2. /\ timeoutTimes # <<>> /\ timeoutTimes[1].stage = "waiting"
        /\ timeoutTimes[1].when <= clock
    BY <1>1 DEF TimerFires, TimesInv, AwaitsFirst, TaskFor
  <1>3. /\ timeoutTimes' = [timeoutTimes EXCEPT ![1].stage = "fulfilled"]
        /\ timerTask' = NoTask /\ clock' = clock /\ timeouts' = timeouts
        /\ timeoutCount' = timeoutCount
    BY DEF TimerFires
  <1>4. /\ timeoutTimes' \in Seq(Entry) /\ timeoutTimes' # <<>>
        /\ Len(timeoutTimes') = Len(timeoutTimes)
        /\ timeoutTimes'[1].when = timeoutTimes[1].when
        /\ timeoutTimes'[1].id = timeoutTimes[1].id
        /\ timeoutTimes'[1].stage = "fulfilled"
        /\ \A i \in 1..Len(timeoutTimes) : i # 1 => timeoutTimes'[i] = timeoutTimes[i]
        /\ Sorted(timeoutTimes') /\ OnlyFirstMoves(timeoutTimes')
        /\ OneEntryEach(timeoutTimes')
    <2>1. PICK next \in {"fulfilled", "running", "ended"} : next = "fulfilled"
      OBVIOUS
    <2>2. timeoutTimes' = [timeoutTimes EXCEPT ![1].stage = next]
      BY <1>3, <2>1
    <2>3. /\ Sorted(timeoutTimes) /\ OnlyFirstMoves(timeoutTimes)
          /\ OneEntryEach(timeoutTimes) /\ timeoutTimes[1].stage # "ended"
      BY <1>1, <1>2 DEF TimesInv, StatesInv
    <2>4. MovedOn(timeoutTimes, next, timeoutTimes')
      BY <1>1, <1>2, <2>2, <2>3, Staged
    <2> QED
      BY <2>1, <2>4 DEF MovedOn
  <1>5. TimesInv'
    BY <1>2, <1>3, <1>4 DEF TimesInv, FirstIsDue, AwaitsFirst
  <1>6. TimeoutsTypeOK'
    <2>1. timerTask' \in [when : 0..MaxClock, id : Ids \cup {0}]
      BY <1>3, TimeoutsAssumption, SMT DEF NoTask
    <2> QED
      BY <1>1, <1>3, <1>4, <2>1 DEF TimeoutsTypeOK, Entry
  <1>7. ASSUME NEW i \in 1..Len(timeoutTimes')
        PROVE  EntryAgrees(timeoutTimes'[i], timeouts')
    <2>1. EntryAgrees(timeoutTimes[i], timeouts)
      BY <1>1, <1>4 DEF StatesInv
    <2>2. CASE i = 1
      BY <1>2, <1>3, <1>4, <2>1, <2>2 DEF EntryAgrees
    <2>3. CASE i # 1
      BY <1>3, <1>4, <2>1, <2>3
    <2> QED
      BY <2>2, <2>3
  <1>8. LiveHasEntry(timeouts', timeoutTimes')
    <2>1. \A i \in 1..Len(timeoutTimes) :
             /\ timeoutTimes'[i].id = timeoutTimes[i].id
             /\ timeoutTimes[i].stage # "ended" => timeoutTimes'[i].stage # "ended"
      BY <1>4
    <2>2. LiveHasEntry(timeouts, timeoutTimes)
      BY <1>1 DEF StatesInv
    <2> QED
      BY <1>3, <1>4, <2>1, <2>2, SMTT(30) DEF LiveHasEntry
  <1>9. UsedInOrder(timeouts') /\ LiveTimers' = LiveTimers
    BY <1>1, <1>3 DEF StatesInv, LiveTimers
  <1>10. StatesInv'
    BY <1>1, <1>3, <1>4, <1>7, <1>8, <1>9 DEF StatesInv
  <1>11. now' = now /\ now \in Nat
    <2>1. now' = now
      BY <1>2, <1>3, <1>4 DEF now, NowFor
    <2> QED
      BY <1>1, <2>1, NowFacts, Types, SMTT(30) DEF TimesInv
  <1> QED
    BY <1>3, <1>5, <1>6, <1>10, <1>11, SMTT(30) DEF TimeoutsInv, StepIsSound

LEMMA BeginningKeeps ==
    ASSUME TimeoutsInv, NEW p, CallbackBegins(p)
    PROVE  TimeoutsInv' /\ StepIsSound
  <1>1. /\ TimeoutsTypeOK /\ TimesInv /\ StatesInv /\ timeoutTimes \in Seq(Entry)
        /\ timeouts \in [Ids -> TimeoutState]
    BY Types DEF TimeoutsInv
  <1>2. p \in 1..Len(timeoutTimes) /\ timeoutTimes[p].stage = "fulfilled"
    BY <1>1, Types DEF CallbackBegins, At
  <1>3. p = 1
    BY <1>1, <1>2 DEF TimesInv, OnlyFirstMoves
  <1>4. timeoutTimes # <<>> /\ timeoutTimes[1].stage = "fulfilled" /\ 1 \in 1..Len(timeoutTimes)
    BY <1>1, <1>2, <1>3, SMTT(30)
  <1>5. PICK id \in Ids : id = timeoutTimes[1].id
    BY <1>1, <1>4, Types
  <1>6. timeouts[id].status = "live" /\ ~timeouts[id].isCanceled
    BY <1>1, <1>4, <1>5 DEF StatesInv, EntryAgrees
  <1>7. PICK s \in TimeoutState : s = [timeouts[id] EXCEPT !.isRunning = TRUE]
    BY <1>1 DEF TimeoutState
  <1>8. s.isRunning /\ s.status = "live" /\ ~s.isCanceled
    BY <1>1, <1>6, <1>7 DEF TimeoutState
  <1>9. /\ timeouts' = [timeouts EXCEPT ![id] = s]
        /\ timeoutTimes' = [timeoutTimes EXCEPT ![1].stage = "running"]
        /\ clock' = clock /\ timerTask' = timerTask /\ timeoutCount' = timeoutCount
    BY <1>3, <1>5, <1>7 DEF CallbackBegins
  <1>10. /\ timeouts' \in [Ids -> TimeoutState] /\ timeouts'[id] = s
         /\ \A j \in Ids : j # id => timeouts'[j] = timeouts[j]
    BY <1>1, <1>9
  <1>11. /\ timeoutTimes' \in Seq(Entry) /\ timeoutTimes' # <<>>
         /\ Len(timeoutTimes') = Len(timeoutTimes)
         /\ timeoutTimes'[1].when = timeoutTimes[1].when
         /\ timeoutTimes'[1].id = timeoutTimes[1].id
         /\ timeoutTimes'[1].stage = "running"
         /\ \A i \in 1..Len(timeoutTimes) : i # 1 => timeoutTimes'[i] = timeoutTimes[i]
         /\ Sorted(timeoutTimes') /\ OnlyFirstMoves(timeoutTimes')
         /\ OneEntryEach(timeoutTimes')
    <2>1. PICK next \in {"fulfilled", "running", "ended"} : next = "running"
      OBVIOUS
    <2>2. timeoutTimes' = [timeoutTimes EXCEPT ![1].stage = next]
      BY <1>9, <2>1
    <2>3. /\ Sorted(timeoutTimes) /\ OnlyFirstMoves(timeoutTimes)
          /\ OneEntryEach(timeoutTimes) /\ timeoutTimes[1].stage # "ended"
      BY <1>1, <1>4 DEF TimesInv, StatesInv
    <2>4. MovedOn(timeoutTimes, next, timeoutTimes')
      BY <1>1, <1>4, <2>2, <2>3, Staged, ZenonT(60)
    <2> QED
      BY <2>1, <2>4 DEF MovedOn
  <1>12. TimesInv'
    BY <1>1, <1>4, <1>9, <1>11 DEF TimesInv, FirstIsDue, AwaitsFirst
  <1>13. TimeoutsTypeOK'
    BY <1>1, <1>9, <1>10, <1>11 DEF TimeoutsTypeOK, Entry, TimeoutState
  <1>14. ASSUME NEW i \in 1..Len(timeoutTimes')
         PROVE  EntryAgrees(timeoutTimes'[i], timeouts')
    <2>1. EntryAgrees(timeoutTimes[i], timeouts) /\ timeoutTimes[i].id \in Ids
      BY <1>1, <1>11, Types DEF StatesInv
    <2>2. CASE i = 1
      BY <1>5, <1>8, <1>10, <1>11, <2>2 DEF EntryAgrees
    <2>3. CASE i # 1 /\ timeoutTimes[i].id = id
      <3>1. timeoutTimes[i].stage = "ended"
        BY <1>1, <1>4, <1>5, <1>11, <2>3 DEF StatesInv, OneEntryEach
      <3> QED
        BY <1>8, <1>10, <1>11, <2>3, <3>1 DEF EntryAgrees
    <2>4. CASE i # 1 /\ timeoutTimes[i].id # id
      <3>1. timeouts'[timeoutTimes[i].id] = timeouts[timeoutTimes[i].id]
        BY <1>10, <2>1, <2>4
      <3> QED
        BY <1>11, <2>1, <2>4, <3>1 DEF EntryAgrees
    <2> QED
      BY <2>2, <2>3, <2>4
  <1>15. LiveHasEntry(timeouts', timeoutTimes')
    <2>1. \A i \in 1..Len(timeoutTimes) :
             /\ timeoutTimes'[i].id = timeoutTimes[i].id
             /\ timeoutTimes[i].stage # "ended" => timeoutTimes'[i].stage # "ended"
      BY <1>11
    <2>2. LiveHasEntry(timeouts, timeoutTimes)
      BY <1>1 DEF StatesInv
    <2>3. \A j \in Ids : /\ timeouts'[j].status = timeouts[j].status
                         /\ ~timeouts'[j].isCanceled => ~timeouts[j].isCanceled
      BY <1>6, <1>8, <1>10
    <2> QED
      BY <1>11, <2>1, <2>2, <2>3, SMT DEF LiveHasEntry
  <1>16. UsedInOrder(timeouts') /\ LiveTimers' = LiveTimers
    BY <1>1, <1>6, <1>8, <1>10 DEF StatesInv, LiveTimers, UsedInOrder
  <1>17. StatesInv'
    BY <1>1, <1>9, <1>11, <1>14, <1>15, <1>16 DEF StatesInv
  <1>18. now' = now /\ now \in Nat
    <2>1. now' = now
      BY <1>4, <1>9, <1>11 DEF now, NowFor
    <2> QED
      BY <1>1, <2>1, NowFacts, Types, SMT DEF TimesInv
  <1>19. \A j \in Ids : timeouts[j].isCanceled /\ ~timeouts[j].isRunning => ~timeouts'[j].isRunning
    BY <1>6, <1>10
  <1> QED
    BY <1>12, <1>13, <1>17, <1>18, <1>19, SMTT(30) DEF TimeoutsInv, StepIsSound

(* An interval is set again behind its entry, which ended.                 *)
LEMMA SetAgain ==
    ASSUME TimeoutsInv, timeoutTimes # <<>>, timeoutTimes[1].stage = "running",
           NEW w \in 0..MaxClock, w >= now,
           NEW ended, MovedOn(timeoutTimes, "ended", ended),
           NEW e \in Entry, e = [when |-> w, id |-> timeoutTimes[1].id, stage |-> "waiting"],
           NEW new, new = WithEntry(ended, timeoutTimes[1].id, w)
    PROVE  HasEntry(ended, 2, e, new)
  <1>0. /\ ended \in Seq(Entry) /\ Len(ended) = Len(timeoutTimes) /\ ended # <<>>
        /\ Sorted(ended) /\ OnlyFirstMoves(ended) /\ OneEntryEach(ended)
        /\ ended[1].when = timeoutTimes[1].when /\ ended[1].id = timeoutTimes[1].id
        /\ ended[1].stage = "ended"
        /\ \A i \in 1..Len(timeoutTimes) : i # 1 => ended[i] = timeoutTimes[i]
    BY DEF MovedOn
  <1>1. /\ TimeoutsTypeOK /\ TimesInv /\ StatesInv /\ timeoutTimes \in Seq(Entry)
        /\ 1 \in 1..Len(timeoutTimes)
    BY Types DEF TimeoutsInv
  <1>2. PICK p \in 1..(Len(ended) + 1) : p = PlaceFor(w)
    BY <1>0, <1>1, PlaceIsByTime, SMTT(30) DEF TimesInv
  <1>3. \A i \in 1..Len(ended) : i < p <=> timeoutTimes[i].when <= w
    <2>1. \A i \in 1..Len(timeoutTimes) : i < PlaceFor(w) <=> timeoutTimes[i].when <= w
      BY <1>1, PlaceIsByTime, SMTT(30) DEF TimesInv
    <2> QED
      BY <1>0, <1>2, <2>1
  <1>4. e.when = w /\ e.id = timeoutTimes[1].id /\ e.stage = "waiting"
    OBVIOUS
  <1>5. \A i \in 1..Len(ended) : i < p <=> ended[i].when <= e.when
    BY <1>0, <1>3, <1>4
  <1>6. \A i \in 1..Len(ended) : ended[i].id = e.id => ended[i].stage = "ended"
    <2> SUFFICES ASSUME NEW i \in 1..Len(ended), ended[i].id = e.id, i # 1
                 PROVE  ended[i].stage = "ended"
      BY <1>0
    <2>1. ended[i] = timeoutTimes[i] /\ timeoutTimes[i].id = timeoutTimes[1].id
      BY <1>0, <1>4
    <2> QED
      BY <1>0, <1>1, <2>1, ZenonT(60) DEF StatesInv, OneEntryEach
  <1>7. now = timeoutTimes[1].when /\ timeoutTimes[1].when \in Nat
    BY <1>1, NowFacts, Types, SMTT(30) DEF TimesInv
  <1>8. p # 1
    <2>1. 1 \in 1..Len(ended) /\ timeoutTimes[1].when <= w
      BY <1>0, <1>1, <1>7
    <2>2. 1 < p
      BY <1>3, <2>1
    <2> QED
      BY <2>2, SMT
  <1>9. new = WithEntryAt(ended, p, e)
    BY <1>2 DEF WithEntry
  <1> QED
    <2>1. ended # <<>> /\ ended[1].stage # "waiting" => p # 1
      BY <1>8
    <2>2. FitsAt(ended, p, e)
      BY <1>4, <1>5, <1>6, <2>1 DEF FitsAt
    <2>3. HasEntry(ended, p, e, new)
      BY <1>0, <1>9, <2>2, Inserted
    <2> QED
      BY <1>8, <2>3, SMTT(30) DEF HasEntry

LEMMA EndingKeeps ==
    ASSUME TimeoutsInv, NEW p, NEW exceeded \in BOOLEAN, CallbackEnds(p, exceeded)
    PROVE  TimeoutsInv' /\ StepIsSound
  <1>1. /\ TimeoutsTypeOK /\ TimesInv /\ StatesInv /\ timeoutTimes \in Seq(Entry)
        /\ timeouts \in [Ids -> TimeoutState]
    BY Types DEF TimeoutsInv
  <1>2. p \in 1..Len(timeoutTimes) /\ timeoutTimes[p].stage = "running"
    BY <1>1, Types DEF CallbackEnds, At
  <1>3. p = 1
    BY <1>1, <1>2 DEF TimesInv, OnlyFirstMoves
  <1>4. timeoutTimes # <<>> /\ timeoutTimes[1].stage = "running" /\ 1 \in 1..Len(timeoutTimes)
    BY <1>1, <1>2, <1>3, SMTT(30)
  <1>5. PICK id \in Ids : id = timeoutTimes[1].id
    BY <1>1, <1>4, Types
  <1>6. timeouts[id].status = "live" /\ timeouts[id] \in TimeoutState
    BY <1>1, <1>4, <1>5 DEF StatesInv, EntryAgrees
  <1>7. PICK again \in BOOLEAN :
           again = (timeouts[id].repeat /\ ~timeouts[id].isCanceled /\ ~exceeded)
    OBVIOUS
  <1>8. PICK d \in Nat : d = timeouts[id].msDelay
    BY <1>6 DEF TimeoutState
  <1>9. End(1, again, d)
    BY <1>3, <1>5, <1>7, <1>8 DEF CallbackEnds
  <1>10. PICK ended : ended = [timeoutTimes EXCEPT ![1].stage = "ended"]
    OBVIOUS
  <1>11. /\ timeouts' = [timeouts EXCEPT ![id].isRunning = FALSE,
                                        ![id].status = IF again THEN "live" ELSE "erased"]
         /\ again => now + d <= MaxClock
         /\ timeoutTimes' = IF again THEN WithEntry(ended, id, now + d) ELSE ended
         /\ timeoutCount' = timeoutCount - (IF again \/ timeouts[id].isCanceled THEN 0 ELSE 1)
         /\ clock' = clock /\ timerTask' = timerTask
    BY <1>5, <1>9, <1>10 DEF End
  <1>12. PICK s \in TimeoutState :
            s = [timeouts[id] EXCEPT !.isRunning = FALSE,
                                     !.status = IF again THEN "live" ELSE "erased"]
    BY <1>6 DEF TimeoutState
  <1>13. /\ s.isRunning = FALSE /\ s.status = (IF again THEN "live" ELSE "erased")
         /\ s.isCanceled = timeouts[id].isCanceled
    BY <1>6, <1>12 DEF TimeoutState
  <1>14. timeouts' = [timeouts EXCEPT ![id] = s]
    BY <1>1, <1>11, <1>12
  <1>15. /\ timeouts' \in [Ids -> TimeoutState] /\ timeouts'[id] = s
         /\ \A j \in Ids : j # id => timeouts'[j] = timeouts[j]
    BY <1>1, <1>14
  <1>16. again => ~timeouts[id].isCanceled
    BY <1>7
  <1>170. MovedOn(timeoutTimes, "ended", ended)
    <2>1. PICK next \in {"fulfilled", "running", "ended"} : next = "ended"
      OBVIOUS
    <2>2. ended = [timeoutTimes EXCEPT ![1].stage = next]
      BY <1>10, <2>1
    <2>3. /\ Sorted(timeoutTimes) /\ OnlyFirstMoves(timeoutTimes)
          /\ OneEntryEach(timeoutTimes) /\ timeoutTimes[1].stage # "ended"
      BY <1>1, <1>4 DEF TimesInv, StatesInv
    <2>4. MovedOn(timeoutTimes, next, ended)
      BY <1>1, <1>4, <2>2, <2>3, Staged
    <2> QED
      BY <2>1, <2>4
  <1>17. /\ ended \in Seq(Entry) /\ ended # <<>> /\ Len(ended) = Len(timeoutTimes)
         /\ ended[1].when = timeoutTimes[1].when /\ ended[1].id = id
         /\ ended[1].stage = "ended"
         /\ \A i \in 1..Len(timeoutTimes) : i # 1 => ended[i] = timeoutTimes[i]
         /\ Sorted(ended) /\ OnlyFirstMoves(ended) /\ OneEntryEach(ended)
    BY <1>5, <1>170 DEF MovedOn
  <1>18. PICK w \in Nat : w = now + d
    BY <1>1, NowFacts, TimeoutsAssumption, SMT DEF TimesInv
  <1>19. w >= now /\ (again => w \in 0..MaxClock)
    BY <1>1, <1>11, <1>18, NowFacts, TimeoutsAssumption, SMTT(30) DEF TimesInv
  <1>20. again => [when |-> w, id |-> id, stage |-> "waiting"] \in Entry
    BY <1>19 DEF Entry
  <1>21. /\ timeoutTimes' \in Seq(Entry) /\ timeoutTimes' # <<>>
         /\ Sorted(timeoutTimes') /\ OnlyFirstMoves(timeoutTimes')
         /\ OneEntryEach(timeoutTimes')
         /\ \A i \in 1..Len(timeoutTimes') :
               \/ again /\ timeoutTimes'[i] = [when |-> w, id |-> id, stage |-> "waiting"]
               \/ \E j \in 1..Len(ended) : timeoutTimes'[i] = ended[j]
         /\ \A j \in 1..Len(ended) : \E i \in 1..Len(timeoutTimes') : timeoutTimes'[i] = ended[j]
         /\ again => \E i \in 1..Len(timeoutTimes') :
               timeoutTimes'[i] = [when |-> w, id |-> id, stage |-> "waiting"]
         /\ timeoutTimes'[1] = ended[1]
    <2>1. CASE ~again
      BY <1>11, <1>17, <2>1
    <2>2. CASE again
      <3>1. PICK e \in Entry : e = [when |-> w, id |-> id, stage |-> "waiting"]
        BY <1>20, <2>2
      <3>2. timeoutTimes' = WithEntry(ended, timeoutTimes[1].id, w)
        BY <1>5, <1>11, <1>18, <2>2
      <3>3. w \in 0..MaxClock /\ w >= now
        BY <1>19, <2>2
      <3>4. /\ timeoutTimes' \in Seq(Entry) /\ timeoutTimes' # <<>>
            /\ Sorted(timeoutTimes') /\ OnlyFirstMoves(timeoutTimes')
            /\ OneEntryEach(timeoutTimes')
            /\ \A i \in 1..Len(timeoutTimes') :
                  timeoutTimes'[i] = e \/ \E j \in 1..Len(ended) : timeoutTimes'[i] = ended[j]
            /\ \A j \in 1..Len(ended) :
                  \E i \in 1..Len(timeoutTimes') : timeoutTimes'[i] = ended[j]
            /\ \E i \in 1..Len(timeoutTimes') : timeoutTimes'[i] = e
            /\ timeoutTimes'[1] = ended[1]
        <4>1. e = [when |-> w, id |-> timeoutTimes[1].id, stage |-> "waiting"]
          BY <1>5, <3>1
        <4>2. HasEntry(ended, 2, e, timeoutTimes')
          BY <1>4, <1>170, <3>2, <3>3, <4>1, SetAgain
        <4> QED
          BY <4>2, SMTT(30) DEF HasEntry
      <3> QED
        BY <2>2, <3>1, <3>4
    <2> QED
      BY <2>1, <2>2
  <1>22. TimesInv'
    <2>1. /\ timeoutTimes'[1].when = timeoutTimes[1].when
          /\ timeoutTimes'[1].stage = "ended"
      BY <1>17, <1>21
    <2> QED
      BY <1>1, <1>4, <1>11, <1>21, <2>1 DEF TimesInv, FirstIsDue, AwaitsFirst
  <1>23. timeoutCount' = Cardinality(LiveTimers') /\ timeoutCount' \in 0..MAX_TIMEOUTS
    <2>1. timeoutCount = Cardinality(LiveTimers) /\ timeoutCount \in 0..MAX_TIMEOUTS
          /\ MAX_TIMEOUTS \in Nat
      BY <1>1, Types DEF StatesInv
    <2>2. CASE again \/ timeouts[id].isCanceled
      <3>1. LiveTimers' = LiveTimers
        BY <1>6, <1>13, <1>15, <1>16, <2>2 DEF LiveTimers
      <3> QED
        BY <1>11, <2>1, <2>2, <3>1, SMTT(30)
    <2>3. CASE ~again /\ ~timeouts[id].isCanceled
      <3>1. LiveTimers' = LiveTimers \ {id} /\ id \in LiveTimers
        BY <1>6, <1>13, <1>15, <2>3 DEF LiveTimers
      <3>2. /\ Cardinality(LiveTimers \ {id}) = Cardinality(LiveTimers) - 1
            /\ IsFiniteSet(LiveTimers \ {id})
        BY <3>1, LiveIsFinite, FS_RemoveElement
      <3>3. Cardinality(LiveTimers \ {id}) \in Nat
        BY <3>2, FS_CardinalityType
      <3>4. timeoutCount' = Cardinality(LiveTimers')
        BY <1>11, <2>1, <2>3, <3>1, <3>2
      <3> QED
        BY <1>11, <2>1, <2>3, <3>1, <3>3, <3>4, SMTT(30)
    <2> QED
      BY <2>2, <2>3
  <1>24. TimeoutsTypeOK'
    BY <1>1, <1>11, <1>15, <1>21, <1>23 DEF TimeoutsTypeOK, Entry, TimeoutState
  <1>25. ASSUME NEW i \in 1..Len(timeoutTimes')
         PROVE  EntryAgrees(timeoutTimes'[i], timeouts')
    <2>1. CASE again /\ timeoutTimes'[i] = [when |-> w, id |-> id, stage |-> "waiting"]
      <3>1. timeoutTimes'[i].id = id /\ timeoutTimes'[i].stage = "waiting"
        BY <2>1, SMT
      <3> QED
        BY <1>13, <1>15, <1>16, <2>1, <3>1 DEF EntryAgrees
    <2>2. ASSUME NEW j \in 1..Len(ended), timeoutTimes'[i] = ended[j]
          PROVE  EntryAgrees(timeoutTimes'[i], timeouts')
      <3>1. CASE ended[j].id = id
        <4>1. ended[j].stage = "ended"
          <5>1. j # 1 => timeoutTimes[j].stage = "ended"
            BY <1>1, <1>4, <1>5, <1>17, <3>1 DEF StatesInv, OneEntryEach
          <5> QED
            BY <1>17, <5>1
        <4>2. timeouts'[id].status # "unused"
          BY <1>13, <1>15
        <4> QED
          BY <2>2, <3>1, <4>1, <4>2 DEF EntryAgrees
      <3>2. CASE ended[j].id # id
        <4>1. ended[j] = timeoutTimes[j] /\ j \in 1..Len(timeoutTimes)
          BY <1>17, <3>2
        <4>2. EntryAgrees(timeoutTimes[j], timeouts) /\ timeoutTimes[j].id \in Ids
          BY <1>1, <4>1, Types, ZenonT(60) DEF StatesInv
        <4>3. timeouts'[timeoutTimes[j].id] = timeouts[timeoutTimes[j].id]
          BY <1>15, <3>2, <4>1, <4>2
        <4> QED
          BY <2>2, <4>1, <4>2, <4>3 DEF EntryAgrees
      <3> QED
        BY <3>1, <3>2
    <2> QED
      BY <1>21, <2>1, <2>2
  <1>26. LiveHasEntry(timeouts', timeoutTimes')
    <2> SUFFICES ASSUME NEW j \in Ids, timeouts'[j].status = "live", ~timeouts'[j].isCanceled
                 PROVE  \E i \in 1..Len(timeoutTimes') :
                           timeoutTimes'[i].id = j /\ timeoutTimes'[i].stage # "ended"
      BY DEF LiveHasEntry
    <2>1. CASE j = id
      <3>1. again
        BY <1>13, <1>15, <2>1
      <3>2. PICK i \in 1..Len(timeoutTimes') :
               timeoutTimes'[i] = [when |-> w, id |-> id, stage |-> "waiting"]
        BY <1>21, <3>1
      <3>3. timeoutTimes'[i].id = id /\ timeoutTimes'[i].stage = "waiting"
        BY <3>2, SMTT(30)
      <3> QED
        BY <2>1, <3>3
    <2>2. CASE j # id
      <3>1. PICK k \in 1..Len(timeoutTimes) :
               timeoutTimes[k].id = j /\ timeoutTimes[k].stage # "ended"
        BY <1>1, <1>15, <2>2 DEF StatesInv, LiveHasEntry
      <3>2. k # 1 /\ k \in 1..Len(ended)
        BY <1>5, <1>17, <2>2, <3>1
      <3>3. ended[k] = timeoutTimes[k]
        BY <1>17, <3>2
      <3>4. PICK i \in 1..Len(timeoutTimes') : timeoutTimes'[i] = ended[k]
        BY <1>21, <3>2
      <3> QED
        BY <3>1, <3>3, <3>4
    <2> QED
      BY <2>1, <2>2
  <1>27. UsedInOrder(timeouts')
    <2>1. \A j \in Ids : timeouts'[j].status = "unused" <=> timeouts[j].status = "unused"
      BY <1>6, <1>13, <1>15
    <2> QED
      BY <1>1, <2>1 DEF StatesInv, UsedInOrder
  <1>28. StatesInv'
    BY <1>21, <1>23, <1>25, <1>26, <1>27 DEF StatesInv
  <1>29. now' = now /\ now \in Nat
    <2>1. timeoutTimes'[1].when = timeoutTimes[1].when
      BY <1>17, <1>21
    <2>2. now' = now
      BY <1>4, <1>11, <1>21, <2>1 DEF now, NowFor
    <2> QED
      BY <1>1, <2>2, NowFacts, Types, SMTT(30) DEF TimesInv
  <1>30. \A j \in Ids : timeouts[j].isCanceled /\ ~timeouts[j].isRunning => ~timeouts'[j].isRunning
    BY <1>13, <1>15
  <1> QED
    BY <1>22, <1>24, <1>28, <1>29, <1>30, SMTT(30) DEF TimeoutsInv, StepIsSound

LEMMA TickKeeps ==
    ASSUME TimeoutsInv, ClockTicks
    PROVE  TimeoutsInv' /\ StepIsSound
  <1>1. TimeoutsTypeOK /\ TimesInv /\ StatesInv
    BY DEF TimeoutsInv
  <1>2. /\ clock < MaxClock /\ clock' = clock + 1 /\ timeouts' = timeouts
        /\ timeoutTimes' = timeoutTimes /\ timerTask' = timerTask
        /\ timeoutCount' = timeoutCount
    BY DEF ClockTicks
  <1>3. clock \in Nat /\ clock' \in 0..MaxClock /\ clock' >= clock
    BY <1>1, <1>2, Types, SMTT(30)
  <1>4. TimeoutsTypeOK'
    BY <1>1, <1>2, <1>3 DEF TimeoutsTypeOK
  <1>5. FirstIsDue(timeoutTimes', clock')
    BY <1>1, <1>2, <1>3, Types, SMTT(30) DEF TimesInv, FirstIsDue
  <1>6. TimesInv' /\ StatesInv'
    BY <1>1, <1>2, <1>5 DEF TimesInv, StatesInv, LiveTimers
  <1>7. now' >= now
    <2>1. timeoutTimes' # <<>> => timeoutTimes'[1].when >= now
      BY <1>1, <1>2, NowFacts, Types DEF TimesInv
    <2> QED
      BY <1>1, <1>3, <1>4, <2>1, NowGrows DEF TimesInv
  <1> QED
    BY <1>2, <1>4, <1>6, <1>7 DEF TimeoutsInv, StepIsSound

-----------------------------------------------------------------------------
LEMMA TimeoutsInitially == TimeoutsInit => TimeoutsInv
  <1> SUFFICES ASSUME TimeoutsInit PROVE TimeoutsInv
    OBVIOUS
  <1>1. TimeoutsTypeOK
    BY TimeoutsAssumption, SMT DEF TimeoutsInit, TimeoutsTypeOK, Unused, NoTask
  <1>2. Len(timeoutTimes) = 0 /\ timeoutTimes = <<>>
    BY DEF TimeoutsInit
  <1>3. TimesInv
    BY <1>2, SMT DEF TimeoutsInit, TimesInv, Sorted, OnlyFirstMoves, FirstIsDue, AwaitsFirst
  <1>4. \A id \in Ids : timeouts[id].status = "unused"
    BY DEF TimeoutsInit, Unused
  <1>5. LiveTimers = {}
    BY <1>4 DEF LiveTimers
  <1>6. timeoutCount = Cardinality(LiveTimers)
    BY <1>5, FS_EmptySet DEF TimeoutsInit
  <1>7. StatesInv
    BY <1>2, <1>4, <1>6, SMT DEF StatesInv, OneEntryEach, LiveHasEntry, UsedInOrder
  <1> QED
    BY <1>1, <1>3, <1>7 DEF TimeoutsInv

LEMMA TimeoutsStep ==
    ASSUME TimeoutsInv, [TimeoutsNext]_timeoutVars
    PROVE  TimeoutsInv' /\ [StepIsSound]_timeoutVars
  <1>1. ASSUME NEW id \in Ids, NEW d \in Delays, setTimeout(id, FALSE, d)
        PROVE  TimeoutsInv' /\ StepIsSound
    <2>1. PICK repeat \in BOOLEAN : repeat = FALSE
      OBVIOUS
    <2>2. setTimeout(id, repeat, d) /\ d \in Nat
      BY <1>1, <2>1, TimeoutsAssumption
    <2> QED
      BY <2>2, StartKeeps
  <1>2. ASSUME NEW id \in Ids, NEW d \in IntervalDelays, setTimeout(id, TRUE, d)
        PROVE  TimeoutsInv' /\ StepIsSound
    <2>1. PICK repeat \in BOOLEAN : repeat = TRUE
      OBVIOUS
    <2>2. setTimeout(id, repeat, d) /\ d \in Nat
      BY <1>2, <2>1, TimeoutsAssumption
    <2> QED
      BY <2>2, StartKeeps
  <1>3. ASSUME NEW id \in Ids, clearTimeout(id)
        PROVE  TimeoutsInv' /\ StepIsSound
    BY <1>3, ClearKeeps
  <1>4. CASE TimerFires
    BY <1>4, FiringKeeps
  <1>5. ASSUME NEW i \in Places, CallbackBegins(i)
        PROVE  TimeoutsInv' /\ StepIsSound
    BY <1>5, BeginningKeeps
  <1>6. ASSUME NEW i \in Places, NEW exceeded \in BOOLEAN, CallbackEnds(i, exceeded)
        PROVE  TimeoutsInv' /\ StepIsSound
    BY <1>6, EndingKeeps
  <1>7. ASSUME NEW i \in Places, PromiseCompletes(i)
        PROVE  TimeoutsInv' /\ StepIsSound
    BY <1>7, CompletionKeeps
  <1>8. CASE ClockTicks
    BY <1>8, TickKeeps
  <1>9. CASE UNCHANGED timeoutVars
    BY <1>9 DEF timeoutVars, TimeoutsInv, TimeoutsTypeOK, TimesInv, StatesInv, LiveTimers
  <1> QED
    BY <1>1, <1>2, <1>3, <1>4, <1>5, <1>6, <1>7, <1>8, <1>9 DEF TimeoutsNext

LEMMA OrderFollows ==
    ASSUME TimeoutsInv
    PROVE  TimersInOrder
  <1>1. TimeoutsTypeOK /\ TimesInv /\ StatesInv
    BY DEF TimeoutsInv
  <1>2. FirstTimerAwaited
    BY <1>1 DEF TimesInv, AwaitsFirst, FirstTimerAwaited
  <1>3. CallbackSeesItsTime
    BY <1>1, NowFacts, Types DEF TimesInv, OnlyFirstMoves, CallbackSeesItsTime
  <1>4. LiveTimers = {id \in Ids :
            /\ ~timeouts[id].isCanceled
            /\ \E i \in 1..Len(timeoutTimes) :
                  timeoutTimes[i].id = id /\ timeoutTimes[i].stage # "ended"}
    <2>1. ASSUME NEW id \in Ids, NEW i \in 1..Len(timeoutTimes), timeoutTimes[i].id = id,
                 timeoutTimes[i].stage # "ended"
          PROVE  timeouts[id].status = "live"
      <3>1. timeoutTimes[i].stage \in {"waiting", "fulfilled", "running"}
        BY <1>1, <2>1, Types DEF Entry
      <3>2. EntryAgrees(timeoutTimes[i], timeouts)
        BY <1>1 DEF StatesInv
      <3> QED
        BY <2>1, <3>1, <3>2 DEF EntryAgrees
    <2>2. LiveHasEntry(timeouts, timeoutTimes)
      BY <1>1 DEF StatesInv
    <2> QED
      BY <2>1, <2>2 DEF LiveTimers, LiveHasEntry
  <1>5. CountIsOfActive
    BY <1>1, <1>4, Types DEF StatesInv, CountIsOfActive
  <1> QED
    BY <1>2, <1>3, <1>5 DEF TimersInOrder

(* Along every behaviour the entries stay sorted, only the first of them   *)
(* is past waiting, and entries and timer states agree.                    *)
THEOREM TimeoutsInvariance == TimeoutsSpec => []TimeoutsInv
  BY TimeoutsInitially, TimeoutsStep, PTL DEF TimeoutsSpec

(* The states of timeouts have their types, and the count stays within the *)
(* limit of addState().                                                    *)
THEOREM TimeoutsTypeCorrect == TimeoutsSpec => []TimeoutsTypeOK
  <1>1. TimeoutsInv => TimeoutsTypeOK
    BY DEF TimeoutsInv
  <1> QED
    BY <1>1, TimeoutsInvariance, PTL

(* No timer is missed: resetTimerTask() always waits for the first timer.  *)
(* Callbacks run in the order of their times, with Date.now() the time     *)
(* each was set for, and the limit counts the timers that can still fire.  *)
THEOREM TimersStayInOrder == TimeoutsSpec => []TimersInOrder
  BY OrderFollows, TimeoutsInvariance, PTL

(* Date.now() never goes backwards, and a cleared timer never calls back.  *)
THEOREM NothingTakenBack == TimeoutsSpec => NothingIsTakenBack
  <1>1. StepIsSound => now' >= now
    BY DEF StepIsSound
  <1>2. StepIsSound =>
           \A id \in Ids : timeouts[id].isCanceled /\ ~timeouts[id].isRunning
                           => ~timeouts'[id].isRunning
    BY DEF StepIsSound
  <1> QED
    BY <1>1, <1>2, TimeoutsInitially, TimeoutsStep, PTL
       DEF TimeoutsSpec, NothingIsTakenBack, TimeNeverGoesBack, ClearedStayCleared
=============================================================================
