---------------------------- MODULE IsolateLock ----------------------------
(***************************************************************************)
(* What the asynchronous isolate lock promises (Worker::AsyncLock in       *)
(* src/workerd/io/worker.h): it is a thread's ownership of an isolate.     *)
(* Any number of tasks of one thread may share it.                         *)
(***************************************************************************)
CONSTANTS Isolates, Takers, ThreadOf

VARIABLE holders   \* the tasks that have an AsyncLock on each isolate

LockInit == holders = [i \in Isolates |-> {}]

(* No other thread owns the isolate, and the thread owns no other.         *)
Acquire(t, i) ==
    /\ holders' = [holders EXCEPT ![i] = @ \cup {t}]
    /\ \A j \in Isolates : \A u \in holders[j] :
            (ThreadOf[u] = ThreadOf[t]) = (i = j)

Release(t, i) ==
    /\ t \in holders[i]
    /\ holders' = [holders EXCEPT ![i] = @ \ {t}]

LockNext ==
    /\ holders' # holders
    /\ \E t \in Takers, i \in Isolates : Acquire(t, i) \/ Release(t, i)

LockSpec == LockInit /\ [][LockNext]_holders
=============================================================================
