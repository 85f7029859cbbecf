----------------------------- MODULE OutputGate -----------------------------
(***************************************************************************)
(* The output gate of a Durable Object (OutputGate in                      *)
(* src/workerd/io/io-gate.{h,c++}), which holds back outgoing messages     *)
(* until the writes they might depend on are confirmed.                    *)
(*                                                                         *)
(* Each lockWhile() appends a lock.  pastLocksPromise is rebuilt on every  *)
(* lock() as the join of its old value with the new lock's promise, so the *)
(* gate is a chain of joins; each join is an event of its own, which runs  *)
(* some time after both of its inputs are settled.                         *)
(***************************************************************************)
EXTENDS Naturals, Sequences

CONSTANTS
    Messages,   \* outgoing messages, each of which calls wait() once
    MaxLocks    \* bound on the calls of lockWhile()

ASSUME OutputGateAssumption == MaxLocks \in Nat

VARIABLES
    locks,       \* the fulfiller of each lockWhile(), in the order of lock()
    joined,      \* the k-th value of pastLocksPromise joins locks 1..k
    result,      \* what became of each message's wait()
    branch,      \* the value of pastLocksPromise a message's wait() branched
    brokenState, \* nothing, the fulfiller made by onBroken(), or an exception
    onBrokenPromise

gateVars == <<locks, joined, result, branch, brokenState, onBrokenPromise>>

LockStates   == {"held", "released", "failed"}
JoinStates   == {"pending", "ready", "error"}
ResultStates == {"unsent", "waiting", "passed", "rejected"}

GateTypeOK ==
    /\ locks \in Seq(LockStates)
    /\ joined \in Seq(JoinStates)
    /\ Len(joined) = Len(locks)
    /\ result \in [Messages -> ResultStates]
    /\ branch \in [Messages -> 0..Len(locks)]
    /\ brokenState \in {"unset", "fulfiller", "exception"}
    /\ onBrokenPromise \in {"none", "pending", "rejected"}

-----------------------------------------------------------------------------
GateInit ==
    /\ locks = << >>
    /\ joined = << >>
    /\ result = [m \in Messages |-> "unsent"]
    /\ branch = [m \in Messages |-> 0]
    /\ brokenState = "unset"
    /\ onBrokenPromise = "none"

(* The value of pastLocksPromise after k calls of lock(): the constructor's *)
(* READY_NOW, or a join.                                                    *)
PastLocks(k) == IF k = 0 THEN "ready" ELSE joined[k]

(* lockWhile(), up to its first suspension: lock() and the new join.       *)
lockWhile ==
    /\ Len(locks) < MaxLocks
    /\ locks' = Append(locks, "held")
    /\ joined' = Append(joined, "pending")
    /\ UNCHANGED <<result, branch, brokenState, onBrokenPromise>>

(* The promise given to the k-th lockWhile() resolves: fulfill().          *)
Unlock(k) ==
    /\ locks[k] = "held"
    /\ locks' = [locks EXCEPT ![k] = "released"]
    /\ UNCHANGED <<joined, result, branch, brokenState, onBrokenPromise>>

(* It rejects or times out, or the wrapper promise is canceled: setBroken() *)
(* and reject().                                                            *)
BreakLock(k) ==
    /\ locks[k] = "held"
    /\ locks' = [locks EXCEPT ![k] = "failed"]
    /\ brokenState' = "exception"
    /\ onBrokenPromise' = IF brokenState = "fulfiller" THEN "rejected"
                                                       ELSE onBrokenPromise
    /\ UNCHANGED <<joined, result, branch>>

(* Mutant: the join forgets that an earlier lock failed.                   *)
JoinForgetsPast(k) ==
    /\ joined[k] = "pending"
    /\ PastLocks(k - 1) # "pending"
    /\ locks[k] # "held"
    /\ joined' = [joined EXCEPT ![k] =
                     IF locks[k] = "released" THEN "ready" ELSE "error"]
    /\ UNCHANGED <<locks, result, branch, brokenState, onBrokenPromise>>

(* Mutant: a lock that failed never settles the join.                      *)
JoinIgnoresFailure(k) ==
    /\ joined[k] = "pending"
    /\ PastLocks(k - 1) = "ready"
    /\ locks[k] = "released"
    /\ joined' = [joined EXCEPT ![k] = "ready"]
    /\ UNCHANGED <<locks, result, branch, brokenState, onBrokenPromise>>

(* kj::joinPromises() settles when both inputs have, with an error if      *)
(* either has one.                                                         *)
Join(k) ==
    /\ joined[k] = "pending"
    /\ PastLocks(k - 1) # "pending"
    /\ locks[k] # "held"
    /\ joined' = [joined EXCEPT ![k] =
                     IF PastLocks(k - 1) = "ready" /\ locks[k] = "released"
                       THEN "ready" ELSE "error"]
    /\ UNCHANGED <<locks, result, branch, brokenState, onBrokenPromise>>

(* wait(): the message waits for the present value of pastLocksPromise.    *)
wait(m) ==
    /\ result[m] = "unsent"
    /\ result' = [result EXCEPT ![m] = "waiting"]
    /\ branch' = [branch EXCEPT ![m] = Len(locks)]
    /\ UNCHANGED <<locks, joined, brokenState, onBrokenPromise>>

(* The promise wait() returned settles, and the message goes out or fails. *)
Settle(m) ==
    /\ result[m] = "waiting"
    /\ PastLocks(branch[m]) # "pending"
    /\ result' = [result EXCEPT ![m] =
                     IF PastLocks(branch[m]) = "ready" THEN "passed"
                                                       ELSE "rejected"]
    /\ UNCHANGED <<locks, joined, branch, brokenState, onBrokenPromise>>

(* onBroken(), which may be called once.                                   *)
onBroken ==
    /\ onBrokenPromise = "none"
    /\ brokenState # "fulfiller"
    /\ brokenState' = IF brokenState = "exception" THEN "exception"
                                                   ELSE "fulfiller"
    /\ onBrokenPromise' = IF brokenState = "exception" THEN "rejected"
                                                       ELSE "pending"
    /\ UNCHANGED <<locks, joined, result, branch>>

(* What the event loop does by itself.                                     *)
GateEvent ==
    \/ \E k \in 1..Len(locks) : Join(k)
    \/ \E m \in Messages : Settle(m)

GateNext ==
    \/ lockWhile
    \/ \E k \in 1..Len(locks) : Unlock(k) \/ BreakLock(k)
    \/ \E m \in Messages : wait(m)
    \/ GateEvent
    \/ onBroken

GateSpec == GateInit /\ [][GateNext]_gateVars

-----------------------------------------------------------------------------
(* A message passes the gate only if every lock taken before its wait()    *)
(* has been released, and none of them failed, whatever the order in which *)
(* the locks ended and the joins ran.                                      *)
PassedMeansReleased ==
    \A m \in Messages : result[m] = "passed" =>
        \A k \in 1..branch[m] : locks[k] = "released"

(* A message is refused only if a lock before its wait() failed: the wait  *)
(* "will not be affected by any future call to lockWhile()".               *)
RejectedMeansFailed ==
    \A m \in Messages : result[m] = "rejected" =>
        \E k \in 1..branch[m] : locks[k] = "failed"

(* onBroken() "rejects if and when calls to wait() become broken due to a  *)
(* failed lockWhile()": it is rejected exactly when a lock has failed.     *)
BrokenMeansFailed ==
    /\ brokenState = "exception" <=> \E k \in 1..Len(locks) : locks[k] = "failed"
    /\ onBrokenPromise = "rejected" => brokenState = "exception"
    /\ onBrokenPromise = "pending" => brokenState = "fulfiller"

(* Whatever the order in which locks end and joins run, what the gate      *)
(* tells those that wait is due.                                           *)
OutcomesAreDue == PassedMeansReleased /\ RejectedMeansFailed /\ BrokenMeansFailed

(* Every message is settled in the end.                                    *)
MessagesSettle ==
    \A m \in Messages :
        result[m] = "waiting" ~> result[m] \in {"passed", "rejected"}
=============================================================================
