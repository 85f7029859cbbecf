----------------------------- MODULE InputGate -----------------------------
(***************************************************************************)
(* The input gate of a Durable Object, with nested critical sections       *)
(* (InputGate, InputGate::Lock, InputGate::Waiter and                      *)
(* InputGate::CriticalSection in src/workerd/io/io-gate.{h,c++}).          *)
(*                                                                         *)
(* A gate is the actor's root gate or a critical section.  A task is a     *)
(* promise chain that calls wait() on a gate and then runs under the Lock  *)
(* it receives.  A Lock object belongs to an owner: the task that holds    *)
(* it, or the critical section whose parentLock it is (after succeeded()   *)
(* the same Lock is the value succeeded() returned, which the section's    *)
(* continuation in the parent scope still holds).                          *)
(*                                                                         *)
(* Everything runs on one event loop, so an action is the code between two *)
(* suspension points.  A waiter whose promise has been fulfilled or        *)
(* rejected but whose coroutine has not resumed yet is a state of its own. *)
(***************************************************************************)
EXTENDS Naturals, Sequences, FiniteSets

CONSTANTS
    Root,       \* the actor's InputGate
    Sections,   \* CriticalSection objects the behaviour may create
    Tasks,      \* promise chains that ask for locks
    NoGate,     \* a null gate pointer
    NoSection   \* a null section pointer

ASSUME InputGateAssumption ==
    /\ Root \notin Sections
    /\ NoGate \notin Sections \cup {Root}
    /\ NoSection \notin Sections
    /\ Tasks \cap Sections = {}
    /\ IsFiniteSet(Tasks)
    /\ IsFiniteSet(Sections)

Gates  == Sections \cup {Root}
Owners == Tasks \cup Sections

VARIABLES
    state,            \* CriticalSection::state ("UNUSED" before construction)
    path,             \* the chain of parent pointers, nearest ancestor first
    lockCount,        \* InputGate::lockCount
    waiters,          \* InputGate::waiters
    waitingChildren,  \* InputGate::waitingChildren
    broken,           \* is brokenState an exception?
    lock,             \* Lock::gate of the Lock each owner holds, or NoGate
    pc,               \* what each task is doing
    entering          \* the section whose first wait() a task is executing

vars == <<state, path, lockCount, waiters, waitingChildren, broken, lock, pc,
          entering>>

SectionStates == {"UNUSED", "NOT_STARTED", "INITIAL_WAIT", "RUNNING",
                  "REPARENTED", "DESTROYED"}

TaskStates == {"idle",          \* no wait() outstanding, no Lock
               "waiting",       \* a Waiter in some gate's `waiters`
               "childWaiting",  \* a Waiter in some gate's `waitingChildren`
               "childGranted",  \* that Waiter was fulfilled, coroutine pending
               "childRejected", \* that Waiter was rejected, coroutine pending
               "holding"}       \* the task runs under a Lock

TypeOK ==
    /\ state \in [Sections -> SectionStates]
    /\ path \in [Sections -> Seq(Gates)]
    /\ lockCount \in [Gates -> Nat]
    /\ waiters \in [Gates -> Seq(Tasks)]
    /\ waitingChildren \in [Gates -> Seq(Tasks)]
    /\ broken \in [Gates -> BOOLEAN]
    /\ lock \in [Owners -> Gates \cup {NoGate}]
    /\ pc \in [Tasks -> TaskStates]
    /\ entering \in [Tasks -> Sections \cup {NoSection}]

-----------------------------------------------------------------------------
(* The sections that have handed their locks and waiters to their parent.  *)
Reparented == {c \in Sections : state[c] = "REPARENTED"}

FirstOutside(s, R) ==
    s[CHOOSE i \in 1..Len(s) : s[i] \notin R /\ \A j \in 1..(i-1) : s[j] \in R]

(* CriticalSection::parentAsInputGate(): the nearest ancestor that has not *)
(* been reparented itself.                                                 *)
parentAsInputGate(c) == FirstOutside(path[c], Reparented)

(* The gate whose lockCount a Lock on gate g is counted in.                *)
Target(g) == IF g \in Reparented THEN parentAsInputGate(g) ELSE g

(* Mutant: failed() breaks the section's direct parent and stops.          *)
FailureReachesParentOnly(c) == {path[c][1]}

(* The ancestors failed() visits: it walks the parent pointers and stops   *)
(* at the first section that is broken already.                            *)
FailureReaches(c) ==
    {path[c][i] : i \in {i \in 1..Len(path[c]) :
        \A j \in 1..i : path[c][j] \in Sections => ~broken[path[c][j]]}}

(* kj::List::remove() of the k-th element.                                 *)
Unlink(s, k) == [i \in 1..(Len(s) - 1) |-> IF i < k THEN s[i] ELSE s[i + 1]]

-----------------------------------------------------------------------------
Init ==
    /\ state = [c \in Sections |-> "UNUSED"]
    /\ path = [c \in Sections |-> << >>]
    /\ lockCount = [g \in Gates |-> 0]
    /\ waiters = [g \in Gates |-> << >>]
    /\ waitingChildren = [g \in Gates |-> << >>]
    /\ broken = [g \in Gates |-> FALSE]
    /\ lock = [o \in Owners |-> NoGate]
    /\ pc = [t \in Tasks |-> "idle"]
    /\ entering = [t \in Tasks |-> NoSection]

(* Mutant: wait() takes a Lock without looking at lockCount.               *)
WaitWithoutBlocking(t, g) ==
    LET target == Target(g) IN
    /\ pc[t] = "idle"
    /\ g \in Sections => state[g] \in {"RUNNING", "REPARENTED"}
    /\ ~broken[target]
    /\ lockCount' = [lockCount EXCEPT ![target] = @ + 1]
    /\ lock' = [lock EXCEPT ![t] = target]
    /\ pc' = [pc EXCEPT ![t] = "holding"]
    /\ UNCHANGED <<state, path, waiters, waitingChildren, broken, entering>>

(***************************************************************************)
(* InputGate::wait() on the root gate, on a running section, or on a       *)
(* section that has been reparented, whose wait() is its parent's.  On a   *)
(* broken gate it throws, which changes nothing here.                      *)
(***************************************************************************)
Wait(t, g) ==
    LET target == Target(g) IN
    /\ pc[t] = "idle"
    /\ g \in Sections => state[g] \in {"RUNNING", "REPARENTED"}
    /\ ~broken[target]
    /\ IF lockCount[target] = 0
         THEN /\ lockCount' = [lockCount EXCEPT ![target] = 1]
              /\ lock' = [lock EXCEPT ![t] = target]
              /\ pc' = [pc EXCEPT ![t] = "holding"]
              /\ UNCHANGED waiters
         ELSE /\ waiters' = [waiters EXCEPT ![target] = Append(@, t)]
              /\ pc' = [pc EXCEPT ![t] = "waiting"]
              /\ UNCHANGED <<lockCount, lock>>
    /\ UNCHANGED <<state, path, waitingChildren, broken, entering>>

(* Mutant: addRef() copies the pointer and counts nothing.                 *)
AddRefUncounted(o, t) ==
    /\ lock[o] # NoGate
    /\ o \in Tasks => pc[o] = "holding"
    /\ o \in Sections => state[o] = "REPARENTED"
    /\ pc[t] = "idle"
    /\ lock' = [lock EXCEPT ![t] = lock[o]]
    /\ pc' = [pc EXCEPT ![t] = "holding"]
    /\ UNCHANGED <<state, path, lockCount, waiters, waitingChildren, broken,
                   entering>>

(* Lock::addRef(): another task gets a Lock on the same gate.              *)
AddRef(o, t) ==
    LET target == Target(lock[o]) IN
    /\ lock[o] # NoGate
    /\ o \in Tasks => pc[o] = "holding"
    /\ o \in Sections => state[o] = "REPARENTED"
    /\ pc[t] = "idle"
    /\ lockCount' = [lockCount EXCEPT ![target] = @ + 1]
    /\ lock' = [lock EXCEPT ![t] = lock[o]]
    /\ pc' = [pc EXCEPT ![t] = "holding"]
    /\ UNCHANGED <<state, path, waiters, waitingChildren, broken, entering>>

(* Mutant: releaseLock() wakes nobody.                                     *)
releaseLockWakesNobody(o, ws, wc, p) ==
    /\ lockCount' = [lockCount EXCEPT ![Target(lock[o])] = @ - 1]
    /\ lock' = [lock EXCEPT ![o] = NoGate]
    /\ pc' = [t \in Tasks |-> IF t = o THEN "idle" ELSE p[t]]
    /\ waiters' = ws
    /\ waitingChildren' = wc

(***************************************************************************)
(* InputGate::releaseLock() for the Lock of owner o, where ws, wc and p    *)
(* are the waiters, the waiting children and the tasks' states when it is  *)
(* called.  When the last lock goes, the first waiting child, or else the  *)
(* first waiter, gets a Lock at once: its promise is fulfilled, its        *)
(* coroutine resumes later.                                                *)
(***************************************************************************)
releaseLock(o, ws, wc, p) ==
    LET g == Target(lock[o])
        done == [t \in Tasks |-> IF t = o THEN "idle" ELSE p[t]]
    IN \/ /\ lockCount[g] > 1 \/ (wc[g] = << >> /\ ws[g] = << >>)
          /\ lockCount' = [lockCount EXCEPT ![g] = @ - 1]
          /\ lock' = [lock EXCEPT ![o] = NoGate]
          /\ pc' = done
          /\ waiters' = ws
          /\ waitingChildren' = wc
       \/ /\ lockCount[g] = 1 /\ wc[g] # << >>
          /\ waitingChildren' = [wc EXCEPT ![g] = Tail(@)]
          /\ lock' = [lock EXCEPT ![o] = NoGate, ![Head(wc[g])] = g]
          /\ pc' = [done EXCEPT ![Head(wc[g])] = "childGranted"]
          /\ waiters' = ws
          /\ UNCHANGED lockCount
       \/ /\ lockCount[g] = 1 /\ wc[g] = << >> /\ ws[g] # << >>
          /\ waiters' = [ws EXCEPT ![g] = Tail(@)]
          /\ lock' = [lock EXCEPT ![o] = NoGate, ![Head(ws[g])] = g]
          /\ pc' = [done EXCEPT ![Head(ws[g])] = "holding"]
          /\ waitingChildren' = wc
          /\ UNCHANGED lockCount

(* ~Lock(): a task, or the continuation of a finished section, is done.    *)
Release(o) ==
    /\ lock[o] # NoGate
    /\ o \in Tasks => pc[o] = "holding"
    /\ o \in Sections => state[o] = "REPARENTED"
    /\ releaseLock(o, waiters, waitingChildren, pc)
    /\ UNCHANGED <<state, path, broken, entering>>

(* Lock::startCriticalSection(): the new section's parent is the gate the  *)
(* Lock was taken on, whether or not that gate has been reparented since.  *)
StartCriticalSection(o, c) ==
    LET g == lock[o] IN
    /\ g # NoGate
    /\ o \in Tasks => pc[o] = "holding"
    /\ o \in Sections => state[o] = "REPARENTED"
    /\ state[c] = "UNUSED"
    /\ state' = [state EXCEPT ![c] = "NOT_STARTED"]
    /\ path' = [path EXCEPT ![c] = IF g = Root THEN <<Root>>
                                               ELSE <<g>> \o path[g]]
    /\ UNCHANGED <<lockCount, waiters, waitingChildren, broken, lock, pc,
                   entering>>

(* The first CriticalSection::wait(), up to its first suspension.          *)
FirstWait(t, c) ==
    LET target == parentAsInputGate(c) IN
    /\ pc[t] = "idle"
    /\ state[c] = "NOT_STARTED"
    /\ \/ /\ broken[target]
          /\ state' = [state EXCEPT ![c] = "INITIAL_WAIT"]
          /\ broken' = [broken EXCEPT ![c] = TRUE]
          /\ UNCHANGED <<lockCount, waitingChildren, lock, pc, entering>>
       \/ /\ ~broken[target] /\ lockCount[target] = 0
          /\ state' = [state EXCEPT ![c] = "RUNNING"]
          /\ lockCount' = [lockCount EXCEPT ![target] = 1, ![c] = 1]
          /\ lock' = [lock EXCEPT ![c] = target, ![t] = c]
          /\ pc' = [pc EXCEPT ![t] = "holding"]
          /\ UNCHANGED <<waitingChildren, broken, entering>>
       \/ /\ ~broken[target] /\ lockCount[target] > 0
          /\ state' = [state EXCEPT ![c] = "INITIAL_WAIT"]
          /\ waitingChildren' =
                [waitingChildren EXCEPT ![target] = Append(@, t)]
          /\ pc' = [pc EXCEPT ![t] = "childWaiting"]
          /\ entering' = [entering EXCEPT ![t] = c]
          /\ UNCHANGED <<lockCount, broken, lock>>
    /\ UNCHANGED <<path, waiters>>

(* The first wait() resumes with the parent Lock; the section's own gate   *)
(* has no locks yet, so its InputGate::wait() succeeds in the same turn.   *)
ResumeGranted(t) ==
    LET c == entering[t] IN
    /\ pc[t] = "childGranted"
    /\ state' = [state EXCEPT ![c] = "RUNNING"]
    /\ lock' = [lock EXCEPT ![c] = lock[t], ![t] = c]
    /\ lockCount' = [lockCount EXCEPT ![c] = 1]
    /\ pc' = [pc EXCEPT ![t] = "holding"]
    /\ entering' = [entering EXCEPT ![t] = NoSection]
    /\ UNCHANGED <<path, waiters, waitingChildren, broken>>

(* The first wait() resumes with an exception.                             *)
ResumeRejected(t) ==
    LET c == entering[t] IN
    /\ pc[t] = "childRejected"
    /\ state' = [state EXCEPT ![c] = "RUNNING"]
    /\ broken' = [broken EXCEPT ![c] = TRUE]
    /\ pc' = [pc EXCEPT ![t] = "idle"]
    /\ entering' = [entering EXCEPT ![t] = NoSection]
    /\ UNCHANGED <<path, lockCount, waiters, waitingChildren, lock>>

(* The task is canceled while its wait() is outstanding: ~Waiter() unlinks *)
(* it, and a Lock that was granted but not received yet is released.       *)
Cancel(t) ==
    /\ \/ /\ pc[t] = "waiting"
          /\ \E g \in Gates : \E k \in 1..Len(waiters[g]) :
                /\ waiters[g][k] = t
                /\ waiters' = [waiters EXCEPT ![g] = Unlink(@, k)]
          /\ pc' = [pc EXCEPT ![t] = "idle"]
          /\ UNCHANGED <<lockCount, waitingChildren, lock>>
       \/ /\ pc[t] = "childWaiting"
          /\ \E g \in Gates : \E k \in 1..Len(waitingChildren[g]) :
                /\ waitingChildren[g][k] = t
                /\ waitingChildren' =
                      [waitingChildren EXCEPT ![g] = Unlink(@, k)]
          /\ pc' = [pc EXCEPT ![t] = "idle"]
          /\ UNCHANGED <<lockCount, waiters, lock>>
       \/ /\ pc[t] = "childRejected"
          /\ pc' = [pc EXCEPT ![t] = "idle"]
          /\ UNCHANGED <<lockCount, waiters, waitingChildren, lock>>
       \/ /\ pc[t] = "childGranted"
          /\ releaseLock(t, waiters, waitingChildren, pc)
    /\ entering' = [entering EXCEPT ![t] = NoSection]
    /\ UNCHANGED <<state, path, broken>>

(* CriticalSection::succeeded(): the parent adopts the section's waiters   *)
(* and locks, and the section's parentLock is returned to the caller.      *)
(* The section object keeps standing for the owner of that Lock until the  *)
(* Lock is dropped. A section that has failed may still succeed here: the  *)
(* code does not ask, though its callers do not do it.                     *)
Succeeded(c) ==
    LET p == parentAsInputGate(c) IN
    /\ state[c] = "RUNNING"
    /\ lock[c] # NoGate
    /\ waitingChildren' =
          [waitingChildren EXCEPT ![p] = @ \o waitingChildren[c], ![c] = << >>]
    /\ waiters' = [waiters EXCEPT ![p] = @ \o waiters[c], ![c] = << >>]
    /\ lockCount' = [lockCount EXCEPT ![p] = @ + lockCount[c], ![c] = 0]
    /\ state' = [state EXCEPT ![c] = "REPARENTED"]
    /\ UNCHANGED <<path, broken, lock, pc, entering>>

(* setBroken() on every gate of the set S: their waiters are rejected and  *)
(* their lists emptied.                                                    *)
Emptied(q, S) == [g \in Gates |-> IF g \in S THEN << >> ELSE q[g]]

Rejected(S) ==
    LET in(q, t) == \E g \in S : \E i \in 1..Len(q[g]) : q[g][i] = t
    IN [t \in Tasks |-> IF in(waiters, t) THEN "idle"
                        ELSE IF in(waitingChildren, t) THEN "childRejected"
                        ELSE pc[t]]

(* The gates CriticalSection::failed() breaks.                             *)
BrokenBy(c) == IF broken[c] THEN {} ELSE {c} \cup FailureReaches(c)

(* CriticalSection::failed() on a section that is running.                 *)
Failed(c) ==
    LET S == BrokenBy(c) IN
    /\ state[c] = "RUNNING"
    /\ ~broken[c]
    /\ broken' = [g \in Gates |-> broken[g] \/ g \in S]
    /\ waiters' = Emptied(waiters, S)
    /\ waitingChildren' = Emptied(waitingChildren, S)
    /\ pc' = Rejected(S)
    /\ UNCHANGED <<state, path, lockCount, lock, entering>>

(* Nobody refers to section c: it has no Lock and no waiter, its first     *)
(* wait() is not outstanding, and no existing section is nested in it.     *)
Unreferenced(c) ==
    /\ \A o \in Owners : lock[o] # c
    /\ \A t \in Tasks : entering[t] # c
    /\ waiters[c] = << >> /\ waitingChildren[c] = << >>
    /\ \A d \in Sections : state[d] \notin {"UNUSED", "DESTROYED"} =>
          \A i \in 1..Len(path[d]) : path[d][i] # c

(* ~CriticalSection(): a section dropped while it is running fails, and    *)
(* its parentLock is released.                                             *)
DestroySection(c) ==
    LET S == IF state[c] = "RUNNING" THEN BrokenBy(c) ELSE {} IN
    /\ state[c] \notin {"UNUSED", "DESTROYED"}
    /\ state[c] = "REPARENTED" => lock[c] = NoGate
    /\ Unreferenced(c)
    /\ state' = [state EXCEPT ![c] = "DESTROYED"]
    /\ broken' = [g \in Gates |-> broken[g] \/ g \in S]
    /\ \/ /\ lock[c] # NoGate
          /\ releaseLock(c, Emptied(waiters, S), Emptied(waitingChildren, S),
                         Rejected(S))
       \/ /\ lock[c] = NoGate
          /\ waiters' = Emptied(waiters, S)
          /\ waitingChildren' = Emptied(waitingChildren, S)
          /\ pc' = Rejected(S)
          /\ UNCHANGED <<lockCount, lock>>
    /\ UNCHANGED <<path, entering>>

Next ==
    \/ \E t \in Tasks, g \in Gates : Wait(t, g)
    \/ \E o \in Owners, t \in Tasks : AddRef(o, t)
    \/ \E o \in Owners : Release(o)
    \/ \E o \in Owners, c \in Sections : StartCriticalSection(o, c)
    \/ \E t \in Tasks, c \in Sections : FirstWait(t, c)
    \/ \E t \in Tasks : ResumeGranted(t)
    \/ \E t \in Tasks : ResumeRejected(t)
    \/ \E t \in Tasks : Cancel(t)
    \/ \E c \in Sections : Succeeded(c)
    \/ \E c \in Sections : Failed(c)
    \/ \E c \in Sections : DestroySection(c)

Spec == Init /\ [][Next]_vars

-----------------------------------------------------------------------------
(* The Locks that count against gate g.                                    *)
HoldersOf(g) == {o \in Owners : lock[o] # NoGate /\ Target(lock[o]) = g}

(* Lock accounting: every gate's lockCount is the number of Lock objects   *)
(* that block it, across grants in flight, addRef(), reparenting by        *)
(* succeeded() and destruction.  A count too high blocks the actor for     *)
(* ever; one too low lets an event in during somebody else's lock.         *)
LocksAccounted == \A g \in Gates : lockCount[g] = Cardinality(HoldersOf(g))

(* No lost wakeup: a gate that nobody holds has nobody waiting for it, as  *)
(* ~InputGate() asserts.  It is what makes the hand-over in releaseLock()  *)
(* enough: no other step ever wakes a waiter.                              *)
NoLostWakeup ==
    \A g \in Gates :
        lockCount[g] = 0 => waiters[g] = << >> /\ waitingChildren[g] = << >>

(* The sections that block gate g: running ones, and ones that were        *)
(* granted their parent Lock and are about to run.                         *)
Blocking(g) ==
    {c \in Sections : state[c] = "RUNNING" /\ lock[c] # NoGate
                      /\ parentAsInputGate(c) = g}
    \cup {c \in Sections : \E t \in Tasks :
              pc[t] = "childGranted" /\ entering[t] = c
              /\ parentAsInputGate(c) = g}

(* Mutual exclusion of critical sections: in any one scope at most one     *)
(* section is running, also after sections have been adopted by the scope  *)
(* of a parent that finished first.                                        *)
OneSectionPerScope ==
    \A g \in Gates : \A c, d \in Blocking(g) : c = d

(* While a critical section runs, nothing new enters the scope it blocks:  *)
(* whether wait() grants the Lock at once or a release hands it to a       *)
(* waiter, a task gets a Lock on a scope only if no section is running in  *)
(* it ("all events that were not initiated by the CriticalSection itself   *)
(* will be blocked from being delivered").  The one exception is addRef()  *)
(* of a Lock that a task or a finished section holds; the parentLock of    *)
(* the running section is not such a Lock.                                 *)
OutsidersExcluded ==
    [][\A t \in Tasks :
          /\ pc[t] \in {"idle", "waiting"} /\ pc'[t] = "holding"
          /\ \A o \in Owners : ~AddRef(o, t)
          => Blocking(lock[t])' = {}]_vars

(* A failed critical section breaks the actor: once any section is broken  *)
(* the root gate is, however the sections were nested and reparented.      *)
FailureBreaksRoot == \A c \in Sections : broken[c] => broken[Root]

(* setBroken()'s contract: all future waiters of a broken gate are         *)
(* rejected.  No task that waits ever gets a Lock of a gate that was       *)
(* broken before.                                                          *)
NoLockFromBrokenGate ==
    [][\A t \in Tasks :
          (pc[t] = "waiting" /\ pc'[t] = "holding") => ~broken[lock'[t]]]_vars

(* Every waiter is served: a task that waits gets a Lock or an exception   *)
(* (or is canceled), provided that the Locks' owners do not duplicate them *)
(* with addRef() for ever.  Nothing but the hand-over in releaseLock(),    *)
(* adoption by succeeded() and rejection by failed() ever moves a waiter.  *)
WaitersServed ==
    <>[][\A o \in Owners, t \in Tasks : ~AddRef(o, t)]_vars
    => \A t \in Tasks : (pc[t] \in {"waiting", "childWaiting"})
                        ~> (pc[t] \notin {"waiting", "childWaiting"})

(* A reparented section has nothing left of its own, as releaseLock()      *)
(* asserts before it forwards a release to the parent.                     *)
ReparentedIsEmpty ==
    \A c \in Sections : state[c] = "REPARENTED" =>
        lockCount[c] = 0 /\ waiters[c] = << >> /\ waitingChildren[c] = << >>
=============================================================================
