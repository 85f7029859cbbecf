----------------------------- MODULE AsyncLock -----------------------------
(***************************************************************************)
(* The asynchronous isolate lock: Worker::AsyncWaiter,                     *)
(* Worker::Isolate::takeAsyncLockImpl() and Worker::AsyncLock in           *)
(* src/workerd/io/worker.c++.                                              *)
(*                                                                         *)
(* Tasks of several threads take locks of several isolates.  A thread has  *)
(* at most one AsyncWaiter, which is therefore named by the thread; the    *)
(* tasks of a thread that want the same isolate share it, and those that   *)
(* want another one wait until it is gone.  The waiters of an isolate form *)
(* a list guarded by a mutex, and the first holds the lock.                *)
(***************************************************************************)
EXTENDS Naturals, Sequences, FiniteSets

CONSTANTS
    Threads, Isolates, Takers,
    ThreadOf,     \* the thread a task runs on
    NoIsolate

ASSUME AsyncLockAssumption ==
    /\ ThreadOf \in [Takers -> Threads]
    /\ NoIsolate \notin Isolates

VARIABLES
    asyncWaiters,         \* Isolate::asyncWaiters: threads in order
    threadCurrentWaiter,  \* the isolate each thread's waiter is for
    readied,              \* threads whose readyPromise is fulfilled
    task                  \* where in takeAsyncLockImpl() each task is

asyncLockVars == <<asyncWaiters, threadCurrentWaiter, readied, task>>

(* "new", then "blocked" on the releasePromise of a waiter for another     *)
(* isolate, about to "retry" after it, "waiting" for the readyPromise of a *)
(* waiter, "holding" the AsyncLock, and "done".                            *)
Ats == {"new", "blocked", "retry", "waiting", "holding", "done"}

AsyncLockInit ==
    /\ asyncWaiters = [i \in Isolates |-> <<>>]
    /\ threadCurrentWaiter = [th \in Threads |-> NoIsolate]
    /\ readied = {}
    /\ task \in [Takers -> {[at |-> "new", isolate |-> i] : i \in Isolates}]

(* The tasks that hold a reference to the waiter of a thread.              *)
RefsOf(th) ==
    {t \in Takers : ThreadOf[t] = th /\ task[t].at \in {"waiting", "holding"}}

(* AsyncWaiter's constructor.                                              *)
NewWaiter(th, i) ==
    /\ asyncWaiters' = [asyncWaiters EXCEPT ![i] = Append(@, th)]
    /\ threadCurrentWaiter' = [threadCurrentWaiter EXCEPT ![th] = i]
    /\ readied' = IF asyncWaiters[i] = <<>> THEN readied \cup {th} ELSE readied

(* One turn of the loop in takeAsyncLockImpl().                            *)
takeAsyncLockImpl(t) ==
    LET th == ThreadOf[t]
        i == task[t].isolate
    IN /\ task[t].at \in {"new", "retry"}
       /\ task' = [task EXCEPT ![t].at =
             IF threadCurrentWaiter[th] \in {NoIsolate, i} THEN "waiting"
                                                           ELSE "blocked"]
       /\ IF threadCurrentWaiter[th] = NoIsolate THEN NewWaiter(th, i)
          ELSE UNCHANGED <<asyncWaiters, threadCurrentWaiter, readied>>

(* Mutant: a task does not wait for the readyPromise.                      *)
LockTakenEarly(t) ==
    /\ task[t].at = "waiting"
    /\ task' = [task EXCEPT ![t].at = "holding"]
    /\ UNCHANGED <<asyncWaiters, threadCurrentWaiter, readied>>

(* The readyPromise resolves in the task's thread.                         *)
LockTaken(t) ==
    /\ task[t].at = "waiting" /\ ThreadOf[t] \in readied
    /\ task' = [task EXCEPT ![t].at = "holding"]
    /\ UNCHANGED <<asyncWaiters, threadCurrentWaiter, readied>>

(* A list without the waiter at a place, which is unlinked.                *)
WithoutWaiter(list, place) ==
    SubSeq(list, 1, place - 1) \o SubSeq(list, place + 1, Len(list))

(* Unlinks the waiter of th, and makes the waiters in `alerted` ready.     *)
Leave(th, place, alerted) ==
    LET i == threadCurrentWaiter[th]
    IN /\ asyncWaiters' = [asyncWaiters EXCEPT ![i] = WithoutWaiter(@, place)]
       /\ readied' = (readied \ {th}) \cup alerted
       /\ threadCurrentWaiter' = [threadCurrentWaiter EXCEPT ![th] = NoIsolate]

PlaceOf(th) ==
    LET list == asyncWaiters[threadCurrentWaiter[th]]
    IN CHOOSE n \in DOMAIN list : list[n] = th

Following(th) ==
    LET list == asyncWaiters[threadCurrentWaiter[th]]
    IN {list[n] : n \in DOMAIN list \cap {PlaceOf(th) + 1}}

(* AsyncWaiter's destructor.  (Fulfilling releasePromise is in Drop.)      *)
DestroyWaiter(th) ==
    Leave(th, PlaceOf(th), IF PlaceOf(th) = 1 THEN Following(th) ELSE {})

(* Mutant: those that wait for the waiter to go away are not told.         *)
DropSilently(t) ==
    LET th == ThreadOf[t]
    IN IF RefsOf(th) = {t}
       THEN /\ DestroyWaiter(th)
            /\ task' = [task EXCEPT ![t].at = "done"]
       ELSE /\ task' = [task EXCEPT ![t].at = "done"]
            /\ UNCHANGED <<asyncWaiters, threadCurrentWaiter, readied>>

(* A task drops its reference to the waiter; the last one destroys it.     *)
Drop(t) ==
    LET th == ThreadOf[t]
    IN IF RefsOf(th) = {t}
       THEN /\ DestroyWaiter(th)
            /\ task' = [u \in Takers |->
                  IF u = t THEN [task[u] EXCEPT !.at = "done"]
                  ELSE IF ThreadOf[u] = th /\ task[u].at = "blocked"
                  THEN [task[u] EXCEPT !.at = "retry"]
                  ELSE task[u]]
       ELSE /\ task' = [task EXCEPT ![t].at = "done"]
            /\ UNCHANGED <<asyncWaiters, threadCurrentWaiter, readied>>

(* The AsyncLock is destroyed.                                             *)
ReleaseLock(t) == task[t].at = "holding" /\ Drop(t)

(* The promise of takeAsyncLock() is dropped before it resolves.           *)
CancelTake(t) ==
    \/ task[t].at = "waiting" /\ Drop(t)
    \/ /\ task[t].at \in {"blocked", "retry"}
       /\ task' = [task EXCEPT ![t].at = "done"]
       /\ UNCHANGED <<asyncWaiters, threadCurrentWaiter, readied>>

AsyncLockNext ==
    \E t \in Takers : \/ takeAsyncLockImpl(t) \/ LockTaken(t)
                     \/ ReleaseLock(t) \/ CancelTake(t)

AsyncLockSpec == AsyncLockInit /\ [][AsyncLockNext]_asyncLockVars

-----------------------------------------------------------------------------
(* Only waiters that exist are ready.                                      *)
AsyncLockTypeOK ==
    /\ asyncWaiters \in [Isolates -> Seq(Threads)]
    /\ threadCurrentWaiter \in [Threads -> Isolates \cup {NoIsolate}]
    /\ readied \subseteq {th \in Threads : threadCurrentWaiter[th] # NoIsolate}
    /\ task \in [Takers -> [at : Ats, isolate : Isolates]]

(* The lock is a thread's ownership of an isolate.                         *)
Lock == INSTANCE IsolateLock WITH
    holders <- [i \in Isolates |->
        {t \in Takers : task[t].at = "holding" /\ task[t].isolate = i}]

(* Whatever the order in which tasks of several threads ask, are canceled  *)
(* and release, an isolate is never owned by two threads nor two isolates  *)
(* by one thread.                                                          *)
ImplementsIsolateLock == Lock!LockSpec

(* Every task that asked for a lock gets it or is canceled.                *)
LocksGranted ==
    \A t \in Takers : task[t].at \in {"blocked", "retry", "waiting"}
                        ~> task[t].at \in {"holding", "done"}
=============================================================================
