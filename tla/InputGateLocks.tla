--------------------------- MODULE InputGateLocks ---------------------------
(***************************************************************************)
(* The inductive invariant of InputGate, for any number of tasks and       *)
(* sections, and its preservation by the steps that take, duplicate or give *)
(* up a Lock: wait(), addRef(), releaseLock(), which hands the last Lock of *)
(* a gate to the next waiter, ~Lock(), and the cancellation of a wait().   *)
(***************************************************************************)
EXTENDS InputGate, FiniteSetTheorems, TLAPS

(* Most leaves are first-order reasoning about sets and functions, which   *)
(* Zenon does best; a leaf that needs arithmetic names SMT.                *)
USE Zenon

Existing(c) == state[c] \notin {"UNUSED", "DESTROYED"}

(* Index i holds the first element of s that is not in R.                  *)
IsFirst(s, R, i) ==
    i \in 1..Len(s) /\ s[i] \notin R /\ \A j \in 1..(i-1) : s[j] \in R

(* The chain of parents of section c, where pth are the chains, st the     *)
(* sections' states and R the reparented sections: it reaches a live gate, *)
(* contains only sections that have been running, and contains the whole   *)
(* chain of each of them.                                                  *)
ChainOK(c, pth, st, R) ==
    /\ \E i \in 1..Len(pth[c]) : IsFirst(pth[c], R, i)
    /\ \A i \in 1..Len(pth[c]) :
          /\ pth[c][i] # c
          /\ pth[c][i] \in Sections =>
                /\ st[pth[c][i]] \in {"RUNNING", "REPARENTED"}
                /\ \A k \in 1..Len(pth[pth[c][i]]) :
                      /\ i + k \in 1..Len(pth[c])
                      /\ pth[c][i + k] = pth[pth[c][i]][k]

PathInv ==
    \A c \in Sections : Existing(c) => ChainOK(c, path, state, Reparented)

(* Locks are on gates that exist and belong to owners that can hold them;  *)
(* a running section's parentLock blocks the scope it runs in.             *)
LockInv ==
    /\ \A o \in Owners : lock[o] \in Sections =>
          state[lock[o]] \in {"RUNNING", "REPARENTED"}
    /\ \A c \in Sections : lock[c] # NoGate =>
          /\ state[c] \in {"RUNNING", "REPARENTED"}
          /\ state[c] = "RUNNING" => Target(lock[c]) = parentAsInputGate(c)

(* What a task's state says about its Lock and its first wait().           *)
TaskInv(p) ==
    /\ \A t \in Tasks : lock[t] # NoGate <=> p[t] \in {"holding", "childGranted"}
    /\ \A t \in Tasks : entering[t] \in Sections <=>
             p[t] \in {"childWaiting", "childGranted", "childRejected"}
    /\ \A t \in Tasks : entering[t] \in Sections =>
             state[entering[t]] = "INITIAL_WAIT"
    /\ \A t \in Tasks : p[t] = "childGranted" =>
             Target(lock[t]) = parentAsInputGate(entering[t])
    /\ \A t, u \in Tasks : entering[t] = entering[u] /\ entering[t] \in Sections
                           => t = u

Distinct(q) ==
    \A g, h \in Gates : \A i \in 1..Len(q[g]), j \in 1..Len(q[h]) :
        q[g][i] = q[h][j] => g = h /\ i = j

(* A task is in a list of waiters only if it waits, and only once.         *)
QueueInv(ws, wc, p) ==
    /\ \A g \in Gates : \A i \in 1..Len(ws[g]) : p[ws[g][i]] = "waiting"
    /\ \A g \in Gates : \A i \in 1..Len(wc[g]) :
          /\ p[wc[g][i]] = "childWaiting"
          /\ parentAsInputGate(entering[wc[g][i]]) = g
    /\ Distinct(ws)
    /\ Distinct(wc)

WakeupInv(ws, wc) ==
    \A g \in Gates : lockCount[g] = 0 => ws[g] = << >> /\ wc[g] = << >>

(* An owner whose Lock keeps a scope for a critical section.               *)
Blocker(o, p) ==
    /\ lock[o] # NoGate
    /\ o \in Sections => state[o] = "RUNNING"
    /\ o \in Tasks => p[o] = "childGranted"

BlockInv(p) ==
    \A o1, o2 \in Owners :
        (Blocker(o1, p) /\ Blocker(o2, p) /\ Target(lock[o1]) = Target(lock[o2]))
        => o1 = o2

(* The inductive invariant.                                                *)
Inv ==
    /\ TypeOK
    /\ PathInv
    /\ LockInv
    /\ TaskInv(pc)
    /\ QueueInv(waiters, waitingChildren, pc)
    /\ WakeupInv(waiters, waitingChildren)
    /\ BlockInv(pc)
    /\ LocksAccounted

-----------------------------------------------------------------------------
(* The first element outside R is unique.                                  *)
LEMMA FirstIs ==
    ASSUME NEW s, NEW R, NEW i, Len(s) \in Nat, IsFirst(s, R, i)
    PROVE  FirstOutside(s, R) = s[i]
<1> DEFINE P(k) == s[k] \notin R /\ \A j \in 1..(k-1) : s[j] \in R
           k == CHOOSE k \in 1..Len(s) : P(k)
<1>1. i \in 1..Len(s) /\ P(i)
  BY DEF IsFirst
<1>2. k \in 1..Len(s) /\ P(k)
  <2> HIDE DEF P
  <2> QED BY <1>1
<1>3. k = i
  <2>1. ~(k < i)
    BY <1>1, <1>2, SMT
  <2>2. ~(i < k)
    BY <1>1, <1>2, SMT
  <2> QED BY <1>1, <1>2, <2>1, <2>2, SMT
<1> QED BY <1>3 DEF FirstOutside

(* A section that exists has a parent gate, which is live and not itself.  *)
LEMMA ParentExists ==
    ASSUME TypeOK, PathInv, NEW c \in Sections, Existing(c)
    PROVE  /\ parentAsInputGate(c) \in Gates \ Reparented
           /\ parentAsInputGate(c) # c
           /\ parentAsInputGate(c) \in Sections =>
                 state[parentAsInputGate(c)] = "RUNNING"
<1>1. PICK i \in 1..Len(path[c]) : IsFirst(path[c], Reparented, i)
  BY DEF PathInv, ChainOK
<1>2. path[c] \in Seq(Gates) /\ Len(path[c]) \in Nat
  BY SMT DEF TypeOK
<1>3. parentAsInputGate(c) = path[c][i]
  BY <1>1, <1>2, FirstIs DEF parentAsInputGate
<1>4. path[c][i] \in Gates /\ path[c][i] \notin Reparented
  BY <1>1, <1>2, SMT DEF IsFirst
<1>5. path[c][i] # c /\ (path[c][i] \in Sections =>
                         state[path[c][i]] \in {"RUNNING", "REPARENTED"})
  BY DEF PathInv, ChainOK
<1> QED BY <1>3, <1>4, <1>5 DEF Reparented

(* Every Lock is counted in a live gate.                                   *)
LEMMA TargetExists ==
    ASSUME TypeOK, PathInv, NEW g \in Gates,
           g \in Sections => state[g] \in {"RUNNING", "REPARENTED"}
    PROVE  /\ Target(g) \in Gates \ Reparented
           /\ Target(g) \in Sections => state[Target(g)] = "RUNNING"
           /\ g \notin Reparented => Target(g) = g
<1>1. CASE g \in Reparented
  <2>1. g \in Sections /\ Existing(g)
    BY <1>1 DEF Reparented, Existing
  <2> QED BY <1>1, <2>1, ParentExists DEF Target
<1>2. CASE g \notin Reparented
  BY <1>2 DEF Target, Reparented
<1> QED BY <1>1, <1>2

-----------------------------------------------------------------------------
LEMMA HoldersFinite == \A g : IsFiniteSet(HoldersOf(g))
<1>1. IsFiniteSet(Owners)
  BY InputGateAssumption, FS_Union DEF Owners
<1> QED BY <1>1, FS_Subset DEF HoldersOf

(* Replacing one member of a finite set by another keeps its size.         *)
LEMMA SwapCardinality ==
    ASSUME NEW H, IsFiniteSet(H), NEW x \in H, NEW y, y \notin H
    PROVE  Cardinality((H \ {x}) \cup {y}) = Cardinality(H)
<1>1. IsFiniteSet(H \ {x}) /\ Cardinality(H \ {x}) = Cardinality(H) - 1
  BY FS_RemoveElement
<1>2. Cardinality((H \ {x}) \cup {y}) = Cardinality(H \ {x}) + 1
  BY <1>1, FS_AddElement
<1>3. Cardinality(H) \in Nat
  BY FS_CardinalityType
<1> QED BY <1>1, <1>2, <1>3, SMT

(* While no section is reparented and no parent chain changes, Locks keep  *)
(* counting in the same gates.                                             *)
LEMMA TargetUnchanged ==
    ASSUME path' = path, Reparented' = Reparented
    PROVE  /\ \A g : Target(g)' = Target(g)
           /\ \A c : parentAsInputGate(c)' = parentAsInputGate(c)
BY DEF Target, parentAsInputGate

(* Accounting when an owner without a Lock gets one.                       *)
LEMMA CountAdd ==
    ASSUME TypeOK, LocksAccounted, NEW o \in Owners, NEW x \in Gates,
           \A g : Target(g)' = Target(g),
           lock[o] = NoGate, lock' = [lock EXCEPT ![o] = x],
           Target(x) \in Gates,
           lockCount' = [lockCount EXCEPT ![Target(x)] = @ + 1]
    PROVE  LocksAccounted'
<1> SUFFICES ASSUME NEW g \in Gates
             PROVE  lockCount'[g] = Cardinality(HoldersOf(g)')
  BY DEF LocksAccounted
<1>1. x # NoGate
  BY InputGateAssumption DEF Gates
<1>2. IsFiniteSet(HoldersOf(g)) /\ lockCount[g] = Cardinality(HoldersOf(g))
  BY HoldersFinite DEF LocksAccounted
<1>3. CASE g = Target(x)
  <2>1. HoldersOf(g)' = HoldersOf(g) \cup {o}
    BY <1>1, <1>3 DEF HoldersOf, TypeOK
  <2>2. o \notin HoldersOf(g)
    BY DEF HoldersOf
  <2>3. Cardinality(HoldersOf(g)') = Cardinality(HoldersOf(g)) + 1
    BY <1>2, <2>1, <2>2, FS_AddElement
  <2> QED BY <1>2, <1>3, <2>3 DEF TypeOK
<1>4. CASE g # Target(x)
  <2>1. HoldersOf(g)' = HoldersOf(g)
    BY <1>1, <1>4 DEF HoldersOf, TypeOK
  <2> QED BY <1>2, <1>4, <2>1 DEF TypeOK
<1> QED BY <1>3, <1>4

(* Accounting when an owner gives up its Lock.                             *)
LEMMA CountRemove ==
    ASSUME TypeOK, LocksAccounted, NEW o \in Owners, lock[o] # NoGate,
           \A g : Target(g)' = Target(g),
           lock' = [lock EXCEPT ![o] = NoGate],
           Target(lock[o]) \in Gates,
           lockCount' = [lockCount EXCEPT ![Target(lock[o])] = @ - 1]
    PROVE  LocksAccounted' /\ lockCount[Target(lock[o])] > 0
<1>1. ASSUME NEW g \in Gates, g = Target(lock[o])
      PROVE  lockCount'[g] = Cardinality(HoldersOf(g)') /\ lockCount[g] > 0
  <2>1. HoldersOf(g)' = HoldersOf(g) \ {o} /\ o \in HoldersOf(g)
    BY <1>1 DEF HoldersOf, TypeOK
  <2>2. IsFiniteSet(HoldersOf(g)) /\ lockCount[g] = Cardinality(HoldersOf(g))
    BY HoldersFinite DEF LocksAccounted
  <2>3. Cardinality(HoldersOf(g)') = Cardinality(HoldersOf(g)) - 1
    BY <2>1, <2>2, FS_RemoveElement
  <2>4. Cardinality(HoldersOf(g)) # 0
    BY <2>1, <2>2, FS_EmptySet
  <2> QED BY <1>1, <2>2, <2>3, <2>4, SMT DEF TypeOK
<1>2. ASSUME NEW g \in Gates, g # Target(lock[o])
      PROVE  lockCount'[g] = Cardinality(HoldersOf(g)')
  <2>1. HoldersOf(g)' = HoldersOf(g)
    BY <1>2 DEF HoldersOf, TypeOK
  <2> QED BY <1>2, <2>1 DEF TypeOK, LocksAccounted
<1> QED BY <1>1, <1>2 DEF LocksAccounted

(* Accounting when an owner's Lock is handed over to another one.          *)
LEMMA CountSwap ==
    ASSUME TypeOK, LocksAccounted, NEW o \in Owners, lock[o] # NoGate,
           NEW n \in Owners, lock[n] = NoGate,
           \A g : Target(g)' = Target(g),
           Target(lock[o]) \in Gates \ Reparented,
           lock' = [lock EXCEPT ![o] = NoGate, ![n] = Target(lock[o])],
           lockCount' = lockCount
    PROVE  LocksAccounted'
<1> SUFFICES ASSUME NEW g \in Gates
             PROVE  lockCount[g] = Cardinality(HoldersOf(g)')
  BY DEF LocksAccounted
<1>1. o # n /\ Target(Target(lock[o])) = Target(lock[o])
  BY DEF Target
<1>2. IsFiniteSet(HoldersOf(g)) /\ lockCount[g] = Cardinality(HoldersOf(g))
  BY HoldersFinite DEF LocksAccounted
<1>3. lock'[o] = NoGate /\ lock'[n] = Target(lock[o])
      /\ \A q \in Owners \ {o, n} : lock'[q] = lock[q]
  BY <1>1 DEF TypeOK
<1>4. Target(lock[o]) # NoGate
  BY InputGateAssumption DEF Gates
<1>5. CASE g = Target(lock[o])
  <2>1. HoldersOf(g)' = (HoldersOf(g) \ {o}) \cup {n}
    BY <1>1, <1>3, <1>4, <1>5 DEF HoldersOf
  <2>2. o \in HoldersOf(g) /\ n \notin HoldersOf(g)
    BY <1>5 DEF HoldersOf
  <2> QED BY <1>2, <2>1, <2>2, SwapCardinality, SMT
<1>6. CASE g # Target(lock[o])
  <2>1. HoldersOf(g)' = HoldersOf(g)
    BY <1>1, <1>3, <1>4, <1>6 DEF HoldersOf
  <2> QED BY <1>2, <2>1
<1> QED BY <1>5, <1>6

(* A gate that some owner's Lock blocks has a positive count.              *)
LEMMA CountPositive ==
    ASSUME TypeOK, LocksAccounted, NEW o \in Owners, lock[o] # NoGate,
           Target(lock[o]) \in Gates
    PROVE  lockCount[Target(lock[o])] > 0
<1> DEFINE H == HoldersOf(Target(lock[o]))
<1>1. o \in H
  BY DEF HoldersOf
<1>2. IsFiniteSet(H) /\ lockCount[Target(lock[o])] = Cardinality(H)
  BY HoldersFinite DEF LocksAccounted
<1>3. Cardinality(H) # 0
  BY <1>1, <1>2, FS_EmptySet
<1> QED BY <1>2, <1>3, SMT DEF TypeOK

(* A gate that two owners' Locks block has a count of at least two.        *)
LEMMA CountTwo ==
    ASSUME TypeOK, LocksAccounted, NEW o \in Owners, NEW q \in Owners, o # q,
           lock[o] # NoGate, lock[q] # NoGate,
           Target(lock[o]) \in Gates, Target(lock[q]) = Target(lock[o])
    PROVE  lockCount[Target(lock[o])] > 1
<1> DEFINE H == HoldersOf(Target(lock[o]))
<1>1. o \in H /\ q \in H \ {o}
  BY DEF HoldersOf
<1>2. IsFiniteSet(H) /\ lockCount[Target(lock[o])] = Cardinality(H)
  BY HoldersFinite DEF LocksAccounted
<1>3. IsFiniteSet(H \ {o}) /\ Cardinality(H \ {o}) = Cardinality(H) - 1
  BY <1>1, <1>2, FS_RemoveElement
<1>4. Cardinality(H \ {o}) # 0 /\ Cardinality(H \ {o}) \in Nat
  BY <1>1, <1>3, FS_EmptySet, FS_CardinalityType
<1> QED BY <1>2, <1>3, <1>4, SMT DEF TypeOK

(* What a list of waiters holds after a task joined it.                    *)
LEMMA AppendElements ==
    ASSUME NEW q \in [Gates -> Seq(Tasks)], NEW g \in Gates, NEW t \in Tasks,
           NEW r, r = [q EXCEPT ![g] = Append(@, t)]
    PROVE  /\ r \in [Gates -> Seq(Tasks)]
           /\ \A h \in Gates : \A i \in 1..Len(r[h]) :
                 \/ i \in 1..Len(q[h]) /\ r[h][i] = q[h][i]
                 \/ h = g /\ i = Len(q[g]) + 1 /\ r[h][i] = t
<1>1. r \in [Gates -> Seq(Tasks)]
  BY SMT
<1> SUFFICES ASSUME NEW h \in Gates, NEW i \in 1..Len(r[h])
             PROVE  \/ i \in 1..Len(q[h]) /\ r[h][i] = q[h][i]
                    \/ h = g /\ i = Len(q[g]) + 1 /\ r[h][i] = t
  BY <1>1
<1>2. CASE h = g
  <2>1. r[h] = Append(q[g], t) /\ q[g] \in Seq(Tasks)
    BY <1>2
  <2> QED BY <1>2, <2>1, SMT
<1>3. CASE h # g
  BY <1>3
<1> QED BY <1>2, <1>3

(* Queues r are queues q after task t, which was on none, has joined g's.  *)
Joined(q, r, g, t) ==
    /\ \A h \in Gates : \A i \in 1..Len(q[h]) : q[h][i] # t
    /\ \A h \in Gates : \A i \in 1..Len(r[h]) :
          \/ i \in 1..Len(q[h]) /\ r[h][i] = q[h][i]
          \/ h = g /\ i = Len(q[g]) + 1 /\ r[h][i] = t

(* Every task is still on the queues once.                                 *)
LEMMA DistinctJoined ==
    ASSUME NEW q, NEW r, NEW g \in Gates, NEW t, Distinct(q), Joined(q, r, g, t)
    PROVE  Distinct(r)
  <1> SUFFICES ASSUME NEW a \in Gates, NEW b \in Gates,
                      NEW i \in 1..Len(r[a]), NEW j \in 1..Len(r[b]), r[a][i] = r[b][j]
               PROVE  a = b /\ i = j
    BY DEF Distinct
  <1>1. CASE r[a][i] = t
    <2>1. a = g /\ i = Len(q[g]) + 1
      BY <1>1 DEF Joined
    <2>2. b = g /\ j = Len(q[g]) + 1
      BY <1>1 DEF Joined
    <2> QED
      BY <2>1, <2>2
  <1>2. CASE r[a][i] # t
    <2>1. i \in 1..Len(q[a]) /\ r[a][i] = q[a][i]
      BY <1>2 DEF Joined
    <2>2. j \in 1..Len(q[b]) /\ r[b][j] = q[b][j]
      BY <1>2 DEF Joined
    <2>3. q[a][i] = q[b][j]
      BY <2>1, <2>2
    <2> QED
      BY <2>1, <2>2, <2>3, SMT DEF Distinct
  <1> QED
    BY <1>1, <1>2

-----------------------------------------------------------------------------
LEMMA InitInv == Init => Inv
<1> SUFFICES ASSUME Init PROVE Inv
  OBVIOUS
<1> USE InputGateAssumption DEF Init, Gates, Owners
<1>1. TypeOK
  BY SMT DEF TypeOK, SectionStates, TaskStates
<1>2. PathInv
  BY DEF PathInv, ChainOK, Existing
<1>3. LockInv
  BY DEF LockInv
<1>4. TaskInv(pc)
  BY DEF TaskInv
<1>5. QueueInv(waiters, waitingChildren, pc)
  BY SMT DEF QueueInv, Distinct
<1>6. WakeupInv(waiters, waitingChildren)
  BY DEF WakeupInv
<1>7. BlockInv(pc)
  BY DEF BlockInv, Blocker
<1>8. LocksAccounted
  <2>1. \A g \in Gates : HoldersOf(g) = {}
    BY DEF HoldersOf
  <2> QED BY <2>1, FS_EmptySet DEF LocksAccounted
<1> QED BY <1>1, <1>2, <1>3, <1>4, <1>5, <1>6, <1>7, <1>8 DEF Inv

(* A task with a new Lock: wait() on an unlocked gate, or addRef().        *)
LEMMA WaitInv ==
    ASSUME Inv, NEW t \in Tasks, NEW g \in Gates, Wait(t, g)
    PROVE  Inv'
<1> DEFINE target == Target(g)
<1> USE DEF Inv
<1>0. t \in Owners /\ \A o \in Owners : o # t => lock'[o] = lock[o]
  BY DEF Wait, TypeOK, Owners
<1>1. /\ target \in Gates \ Reparented
      /\ target \in Sections => state[target] = "RUNNING"
      /\ Target(target) = target /\ target # NoGate
  BY TargetExists, InputGateAssumption DEF Wait, Target, Gates
<1>2. path' = path /\ Reparented' = Reparented /\ state' = state
      /\ entering' = entering /\ waitingChildren' = waitingChildren
  BY DEF Wait, Reparented
<1>3. /\ \A x : Target(x)' = Target(x)
      /\ \A x : parentAsInputGate(x)' = parentAsInputGate(x)
  BY <1>2, TargetUnchanged
<1>4. pc[t] = "idle" /\ lock[t] = NoGate /\ entering[t] \notin Sections
  BY DEF Wait, TaskInv
<1>5. PathInv'
  BY <1>2 DEF PathInv, Existing
<1>6. CASE lockCount[target] = 0
  <2>1. /\ lockCount' = [lockCount EXCEPT ![target] = lockCount[target] + 1]
        /\ lock' = [lock EXCEPT ![t] = target]
        /\ pc' = [pc EXCEPT ![t] = "holding"]
        /\ waiters' = waiters
    BY <1>6, SMTT(30) DEF Wait, TypeOK
  <2>2. TypeOK'
    BY <1>0, <1>1, <1>2, <2>1, SMT DEF TypeOK, TaskStates, Wait
  <2>3. LockInv'
    BY <1>0, <1>1, <1>2, <1>3, <2>1, InputGateAssumption DEF LockInv, TypeOK, Owners
  <2>4. TaskInv(pc)'
    BY <1>0, <1>1, <1>2, <1>3, <1>4, <2>1, SMTT(30) DEF TaskInv, TypeOK, Owners
  <2>5. QueueInv(waiters, waitingChildren, pc)'
    BY <1>2, <1>3, <1>4, <2>1, SMT DEF QueueInv, TypeOK
  <2>6. WakeupInv(waiters, waitingChildren)'
    BY <1>1, <1>2, <2>1, SMTT(30) DEF WakeupInv, TypeOK
  <2>7. BlockInv(pc)'
    BY <1>0, <1>2, <1>3, <2>1, InputGateAssumption, SMTT(30) DEF BlockInv, Blocker, TypeOK, Owners
  <2>8. LocksAccounted'
    BY <1>0, <1>1, <1>3, <1>4, <2>1, CountAdd, ZenonT(60)
  <2> QED BY <1>5, <2>2, <2>3, <2>4, <2>5, <2>6, <2>7, <2>8
<1>7. CASE lockCount[target] # 0
  <2>1. /\ waiters' = [waiters EXCEPT ![target] = Append(@, t)]
        /\ pc' = [pc EXCEPT ![t] = "waiting"]
        /\ lockCount' = lockCount /\ lock' = lock
    BY <1>7 DEF Wait
  <2>2. TypeOK'
    BY <1>1, <1>2, <2>1, SMTT(30) DEF TypeOK, TaskStates, Wait
  <2>3. LockInv'
    BY <1>2, <1>3, <2>1 DEF LockInv
  <2>4. TaskInv(pc)'
    BY <1>2, <1>3, <1>4, <2>1 DEF TaskInv, TypeOK
  <2>5. QueueInv(waiters, waitingChildren, pc)'
    <3>1. \A h \in Gates : \A i \in 1..Len(waiters'[h]) :
             \/ i \in 1..Len(waiters[h]) /\ waiters'[h][i] = waiters[h][i]
             \/ h = target /\ i = Len(waiters[target]) + 1 /\ waiters'[h][i] = t
      BY <1>1, <2>1, AppendElements, SMTT(30) DEF TypeOK
    <3>2. \A h \in Gates : \A i \in 1..Len(waiters[h]) :
             waiters[h][i] # t /\ waiters[h][i] \in Tasks
      BY <1>4, SMT DEF QueueInv, TypeOK
    <3>3. \A h \in Gates : \A i \in 1..Len(waitingChildren[h]) :
             waitingChildren[h][i] # t /\ waitingChildren[h][i] \in Tasks
      BY <1>4, SMT DEF QueueInv, TypeOK
    <3>4. pc'[t] = "waiting" /\ \A u \in Tasks : u # t => pc'[u] = pc[u]
      BY <2>1 DEF TypeOK
    <3>5. \A h \in Gates : \A i \in 1..Len(waiters'[h]) :
             pc'[waiters'[h][i]] = "waiting"
      BY <3>1, <3>2, <3>4, SMTT(30) DEF QueueInv
    <3>6. Distinct(waiters)'
      <4>1. Joined(waiters, waiters', target, t)
        BY <3>1, <3>2 DEF Joined
      <4> QED BY <1>1, <4>1, DistinctJoined DEF QueueInv
    <3> QED BY <1>2, <1>3, <3>3, <3>4, <3>5, <3>6, SMTT(30) DEF QueueInv
  <2>6. WakeupInv(waiters, waitingChildren)'
    BY <1>1, <1>2, <1>7, <2>1 DEF WakeupInv, TypeOK
  <2>7. BlockInv(pc)'
    BY <1>2, <1>3, <1>4, <2>1, ZenonT(60) DEF BlockInv, Blocker, TypeOK
  <2>8. LocksAccounted'
    BY <1>3, <2>1 DEF LocksAccounted, HoldersOf
  <2> QED BY <1>5, <2>2, <2>3, <2>4, <2>5, <2>6, <2>7, <2>8
<1> QED BY <1>6, <1>7

(* Lock::addRef().                                                         *)
LEMMA AddRefInv ==
    ASSUME Inv, NEW o \in Owners, NEW t \in Tasks, AddRef(o, t)
    PROVE  Inv'
<1> USE DEF Inv
<1>0. t \in Owners /\ \A q \in Owners : q # t => lock'[q] = lock[q]
  BY DEF AddRef, TypeOK, Owners
<1>1. /\ lock[o] \in Gates /\ lock[o] # NoGate
      /\ Target(lock[o]) \in Gates \ Reparented
      /\ lock[o] \in Sections => state[lock[o]] \in {"RUNNING", "REPARENTED"}
  BY TargetExists, SMT DEF AddRef, TypeOK, LockInv
<1>2. path' = path /\ Reparented' = Reparented /\ state' = state
      /\ entering' = entering /\ waitingChildren' = waitingChildren
      /\ waiters' = waiters
  BY DEF AddRef, Reparented
<1>3. /\ \A x : Target(x)' = Target(x)
      /\ \A x : parentAsInputGate(x)' = parentAsInputGate(x)
  BY <1>2, TargetUnchanged
<1>4. pc[t] = "idle" /\ lock[t] = NoGate /\ entering[t] \notin Sections
  BY DEF AddRef, TaskInv
<1>5. /\ lockCount' = [lockCount EXCEPT ![Target(lock[o])] = @ + 1]
      /\ lock' = [lock EXCEPT ![t] = lock[o]]
      /\ pc' = [pc EXCEPT ![t] = "holding"]
  BY DEF AddRef
<1>6. TypeOK'
  BY <1>0, <1>1, <1>2, <1>5, SMT DEF TypeOK, TaskStates, AddRef
<1>7. PathInv'
  BY <1>2 DEF PathInv, Existing
<1>8. LockInv'
  BY <1>0, <1>1, <1>2, <1>3, <1>5, InputGateAssumption, ZenonT(60)
     DEF LockInv, TypeOK, Owners
<1>9. TaskInv(pc)'
  BY <1>0, <1>1, <1>2, <1>3, <1>4, <1>5, SMT DEF TaskInv, TypeOK, Owners
<1>10. QueueInv(waiters, waitingChildren, pc)'
  BY <1>2, <1>3, <1>4, <1>5, SMT DEF QueueInv, TypeOK
<1>11. WakeupInv(waiters, waitingChildren)'
  BY <1>1, <1>2, <1>5, SMTT(30) DEF WakeupInv, TypeOK
<1>12. BlockInv(pc)'
  BY <1>0, <1>2, <1>3, <1>5, InputGateAssumption, SMT
     DEF BlockInv, Blocker, TypeOK, Owners
<1>13. LocksAccounted'
  BY <1>0, <1>1, <1>3, <1>4, <1>5, CountAdd
<1> QED BY <1>6, <1>7, <1>8, <1>9, <1>10, <1>11, <1>12, <1>13

-----------------------------------------------------------------------------
(* The steps that give up a Lock.                                          *)

(* What a list of waiters holds after its first task left it.              *)
LeftBehind(q, g, r) ==
    /\ r \in [Gates -> Seq(Tasks)]
    /\ Head(q[g]) = q[g][1] /\ 1 \in 1..Len(q[g]) /\ q[g][1] \in Tasks
    /\ \A h \in Gates : \A i \in 1..Len(r[h]) :
          /\ \E j \in 1..Len(q[h]) : r[h][i] = q[h][j]
          /\ r[h][i] # q[g][1]
    /\ Distinct(r)

LEMMA TailElements ==
    ASSUME NEW q \in [Gates -> Seq(Tasks)], NEW g \in Gates, q[g] # << >>,
           NEW r, r = [q EXCEPT ![g] = Tail(@)], Distinct(q)
    PROVE  LeftBehind(q, g, r)
<1>1. r \in [Gates -> Seq(Tasks)]
  BY SMT
<1>2. Head(q[g]) = q[g][1] /\ 1 \in 1..Len(q[g]) /\ q[g][1] \in Tasks
  BY SMT
<1>3. ASSUME NEW h \in Gates, NEW i \in 1..Len(r[h])
      PROVE  \/ h # g /\ i \in 1..Len(q[h]) /\ r[h][i] = q[h][i]
             \/ h = g /\ i + 1 \in 1..Len(q[h]) /\ r[h][i] = q[h][i + 1]
  <2>1. CASE h = g
    <3>1. r[h] = Tail(q[g]) /\ q[g] \in Seq(Tasks) /\ i \in 1..Len(Tail(q[g]))
      BY <2>1
    <3> QED BY <2>1, <3>1, SMT
  <2>2. CASE h # g
    BY <2>2
  <2> QED BY <2>1, <2>2
<1>4. ASSUME NEW h \in Gates, NEW i \in 1..Len(r[h])
      PROVE  /\ \E j \in 1..Len(q[h]) : r[h][i] = q[h][j]
             /\ r[h][i] # q[g][1]
  <2>1. CASE h # g /\ i \in 1..Len(q[h]) /\ r[h][i] = q[h][i]
    BY <1>2, <2>1 DEF Distinct
  <2>2. CASE h = g /\ i + 1 \in 1..Len(q[h]) /\ r[h][i] = q[h][i + 1]
    <3>1. i + 1 # 1
      BY SMT
    <3> QED BY <1>2, <2>2, <3>1, SMT DEF Distinct
  <2> QED BY <1>3, <2>1, <2>2
<1>5. ASSUME NEW h \in Gates, NEW k \in Gates,
             NEW i \in 1..Len(r[h]), NEW j \in 1..Len(r[k]), r[h][i] = r[k][j]
      PROVE  h = k /\ i = j
  <2>1. /\ \/ h # g /\ i \in 1..Len(q[h]) /\ r[h][i] = q[h][i]
           \/ h = g /\ i + 1 \in 1..Len(q[h]) /\ r[h][i] = q[h][i + 1]
        /\ \/ k # g /\ j \in 1..Len(q[k]) /\ r[k][j] = q[k][j]
           \/ k = g /\ j + 1 \in 1..Len(q[k]) /\ r[k][j] = q[k][j + 1]
    BY <1>3
  <2> HIDE DEF Distinct
  <2>2. h = k
    BY <1>5, <2>1, SMT DEF Distinct
  <2>3. i = j
    <3>1. CASE h # g
      BY <1>5, <2>1, <2>2, <3>1, SMT DEF Distinct
    <3>2. CASE h = g
      <4>1. i + 1 = j + 1
        BY <1>5, <2>1, <2>2, <3>2, SMT DEF Distinct
      <4> QED BY <4>1, SMT
    <3> QED BY <3>1, <3>2
  <2> QED BY <2>2, <2>3
<1>6. Distinct(r)
  BY <1>5 DEF Distinct
<1> QED BY <1>1, <1>2, <1>4, <1>6 DEF LeftBehind

(* The situation in which releaseLock() runs for the Lock of owner o, which *)
(* is counted in gate g: the parts of the invariant, for the lists ws and   *)
(* wc and the tasks' states p, and what the rest of the step changes.       *)
Releasing(o, g, ws, wc, p) ==
    /\ TypeOK /\ LockInv /\ LocksAccounted
    /\ TaskInv(p) /\ QueueInv(ws, wc, p) /\ WakeupInv(ws, wc) /\ BlockInv(p)
    /\ path' = path
    /\ state' \in [Sections -> SectionStates]
    /\ broken' \in [Gates -> BOOLEAN]
    /\ entering' \in [Tasks -> Sections \cup {NoSection}]
    /\ \A t \in Tasks : entering'[t] = IF t = o THEN NoSection ELSE entering[t]
    /\ \A x : Target(x)' = Target(x)
    /\ \A x : parentAsInputGate(x)' = parentAsInputGate(x)
    /\ lock[o] # NoGate /\ Target(lock[o]) = g /\ Target(g) = g
    /\ g \in Gates \ Reparented /\ g # NoGate /\ lockCount[g] > 0
    /\ g \in Sections => state[g] = "RUNNING" /\ state'[g] = state[g]
    /\ \A c \in Sections : c # o => state'[c] = state[c]
    /\ \A q \in Owners : lock[q] \in Sections => state'[lock[q]] = state[lock[q]]
    /\ \A t \in Tasks : entering[t] \in Sections =>
                           state'[entering[t]] = state[entering[t]]
    /\ \A h \in Gates : \A i \in 1..Len(ws[h]) : ws[h][i] \in Tasks /\ ws[h][i] # o
    /\ \A h \in Gates : \A i \in 1..Len(wc[h]) : wc[h][i] \in Tasks /\ wc[h][i] # o

(* Owner q is a task that receives the Lock of gate g from o.              *)
Granted(q, o, g, p) ==
    /\ q \in Tasks /\ q # o /\ lock[q] = NoGate /\ lock'[q] = g
    /\ \/ /\ p[q] = "childWaiting" /\ pc'[q] = "childGranted"
          /\ parentAsInputGate(entering[q]) = g
       \/ p[q] = "waiting" /\ pc'[q] = "holding"

(* The Lock of o is gone, and nothing changed but for a grant.             *)
Handed(o, g, p) ==
    /\ lock'[o] = NoGate
    /\ o \in Tasks => pc'[o] = "idle"
    /\ \A q \in Owners : q # o => lock'[q] = lock[q] \/ Granted(q, o, g, p)
    /\ \A t \in Tasks : t # o =>
          (lock'[t] = lock[t] /\ pc'[t] = p[t]) \/ Granted(t, o, g, p)

LEMMA HandedLockInv ==
    ASSUME NEW o \in Owners, NEW g, NEW ws, NEW wc, NEW p,
           Releasing(o, g, ws, wc, p), Handed(o, g, p)
    PROVE  LockInv'
<1>0. NoGate \notin Sections /\ Sections \subseteq Owners
      /\ \A c \in Sections : ~Granted(c, o, g, p)
  BY InputGateAssumption DEF Owners, Granted
<1>1. ASSUME NEW q \in Owners, lock'[q] \in Sections
      PROVE  state'[lock'[q]] \in {"RUNNING", "REPARENTED"}
  <2>1. q # o
    BY <1>0, <1>1 DEF Handed
  <2>2. lock'[q] = lock[q] \/ lock'[q] = g
    BY <2>1 DEF Handed, Granted
  <2>3. /\ g \in Sections => state'[g] = "RUNNING"
        /\ lock[q] \in Sections => state'[lock[q]] \in {"RUNNING", "REPARENTED"}
    BY DEF Releasing, LockInv
  <2> QED BY <1>1, <2>2, <2>3
<1>2. ASSUME NEW c \in Sections, lock'[c] # NoGate
      PROVE  /\ state'[c] \in {"RUNNING", "REPARENTED"}
             /\ state'[c] = "RUNNING" => Target(lock[c])' = parentAsInputGate(c)'
  <2>1. c # o /\ lock'[c] = lock[c]
    BY <1>0, <1>2 DEF Handed
  <2>2. state'[c] = state[c] /\ LockInv
    BY <2>1 DEF Releasing
  <2>3. Target(lock[c])' = Target(lock[c]) /\ parentAsInputGate(c)' = parentAsInputGate(c)
    BY <2>1 DEF Releasing
  <2> QED BY <1>2, <2>1, <2>2, <2>3 DEF LockInv
<1> QED BY <1>1, <1>2 DEF LockInv

LEMMA HandedTaskInv ==
    ASSUME NEW o \in Owners, NEW g, NEW ws, NEW wc, NEW p,
           Releasing(o, g, ws, wc, p), Handed(o, g, p)
    PROVE  TaskInv(pc)'
<1>1. /\ TaskInv(p) /\ g # NoGate /\ Target(g) = g /\ NoSection \notin Sections
      /\ \A t \in Tasks : entering'[t] = IF t = o THEN NoSection ELSE entering[t]
      /\ \A t \in Tasks : entering[t] \in Sections =>
                             state'[entering[t]] = state[entering[t]]
      /\ \A x : Target(x)' = Target(x)
      /\ \A x : parentAsInputGate(x)' = parentAsInputGate(x)
  BY InputGateAssumption DEF Releasing
<1>2. \A t \in Tasks : lock'[t] # NoGate <=> pc'[t] \in {"holding", "childGranted"}
  BY <1>1, SMTT(30) DEF Handed, Granted, TaskInv
<1>3. \A t \in Tasks : entering'[t] \in Sections <=>
           pc'[t] \in {"childWaiting", "childGranted", "childRejected"}
  BY <1>1 DEF Handed, Granted, TaskInv
<1>4. \A t \in Tasks : entering'[t] \in Sections =>
           state'[entering'[t]] = "INITIAL_WAIT"
  BY <1>1 DEF TaskInv
<1>5. ASSUME NEW t \in Tasks, pc'[t] = "childGranted"
      PROVE  Target(lock[t])' = parentAsInputGate(entering[t])'
  <2>1. t # o /\ entering'[t] = entering[t]
    BY <1>1, <1>5 DEF Handed
  <2>2. parentAsInputGate(entering[t])' = parentAsInputGate(entering[t])
    BY <1>1, <2>1
  <2>3. CASE lock'[t] = lock[t] /\ pc'[t] = p[t]
    <3>1. Target(lock[t])' = Target(lock[t])
      BY <1>1, <2>3
    <3> QED BY <1>1, <1>5, <2>2, <2>3, <3>1 DEF TaskInv
  <2>4. CASE Granted(t, o, g, p)
    <3>1. lock'[t] = g /\ parentAsInputGate(entering[t]) = g
      BY <1>5, <2>4 DEF Granted
    <3>2. Target(lock[t])' = Target(g)
      BY <1>1, <3>1
    <3> QED BY <1>1, <2>2, <3>1, <3>2
  <2> QED BY <2>1, <2>3, <2>4 DEF Handed
<1>6. \A t, u \in Tasks : entering'[t] = entering'[u] /\ entering'[t] \in Sections
                           => t = u
  BY <1>1, SMT DEF TaskInv
<1> QED BY <1>2, <1>3, <1>4, <1>5, <1>6 DEF TaskInv

(* The three outcomes of releaseLock(): the count drops, or the last Lock   *)
(* goes to the first waiting child section, or to the first waiter.         *)
GoesToNobody(o, g, ws, wc, p) ==
    /\ lockCount[g] > 1 \/ (wc[g] = << >> /\ ws[g] = << >>)
    /\ lockCount' = [lockCount EXCEPT ![g] = @ - 1]
    /\ lock' = [lock EXCEPT ![o] = NoGate]
    /\ pc' = [t \in Tasks |-> IF t = o THEN "idle" ELSE p[t]]
    /\ waiters' = ws
    /\ waitingChildren' = wc

GoesToTask(o, g, p, n, s) ==
    /\ lockCount[g] = 1 /\ lockCount' = lockCount
    /\ lock' = [lock EXCEPT ![o] = NoGate, ![n] = g]
    /\ pc' = [[t \in Tasks |-> IF t = o THEN "idle" ELSE p[t]] EXCEPT ![n] = s]

GoesToChild(o, g, ws, wc, p) ==
    /\ wc[g] # << >> /\ GoesToTask(o, g, p, Head(wc[g]), "childGranted")
    /\ waitingChildren' = [wc EXCEPT ![g] = Tail(@)]
    /\ waiters' = ws

GoesToWaiter(o, g, ws, wc, p) ==
    /\ ws[g] # << >> /\ GoesToTask(o, g, p, Head(ws[g]), "holding")
    /\ waiters' = [ws EXCEPT ![g] = Tail(@)]
    /\ waitingChildren' = wc

(* The parts of the invariant that a release can disturb.                  *)
AfterRelease ==
    /\ TypeOK' /\ LockInv' /\ TaskInv(pc)' /\ LocksAccounted'
    /\ QueueInv(waiters, waitingChildren, pc)'
    /\ WakeupInv(waiters, waitingChildren)' /\ BlockInv(pc)'

LEMMA ReleaseToNobody ==
    ASSUME NEW o \in Owners, NEW g,
           NEW ws \in [Gates -> Seq(Tasks)], NEW wc \in [Gates -> Seq(Tasks)],
           NEW p \in [Tasks -> TaskStates], Releasing(o, g, ws, wc, p),
           GoesToNobody(o, g, ws, wc, p)
    PROVE  AfterRelease
<1>0. waiters' = ws /\ waitingChildren' = wc
  BY DEF GoesToNobody
<1>1. /\ TypeOK /\ QueueInv(ws, wc, p) /\ WakeupInv(ws, wc) /\ BlockInv(p)
      /\ g \in Gates /\ lockCount[g] > 0
      /\ \A x : parentAsInputGate(x)' = parentAsInputGate(x)
      /\ \A x : Target(x)' = Target(x)
  BY DEF Releasing
<1>2. /\ \A h \in Gates : \A i \in 1..Len(ws[h]) : ws[h][i] \in Tasks /\ ws[h][i] # o
      /\ \A h \in Gates : \A i \in 1..Len(wc[h]) : wc[h][i] \in Tasks /\ wc[h][i] # o
      /\ \A t \in Tasks : entering'[t] = IF t = o THEN NoSection ELSE entering[t]
  BY DEF Releasing
<1>3. /\ lock'[o] = NoGate /\ \A q \in Owners : q # o => lock'[q] = lock[q]
      /\ \A t \in Tasks : t # o => pc'[t] = p[t]
      /\ o \in Tasks => pc'[o] = "idle"
  BY <1>1 DEF TypeOK, GoesToNobody
<1>4. Handed(o, g, p)
  BY <1>3 DEF Handed, Owners
<1>5. TypeOK'
  <2>1. /\ lock' \in [Owners -> Gates \cup {NoGate}] /\ lockCount' \in [Gates -> Nat]
        /\ pc' \in [Tasks -> TaskStates] /\ path' \in [Sections -> Seq(Gates)]
    BY <1>1, SMTT(30) DEF TypeOK, TaskStates, Releasing, GoesToNobody
  <2> QED BY <1>0, <2>1 DEF TypeOK, Releasing
<1>6. QueueInv(waiters, waitingChildren, pc)'
  <2>1. ASSUME NEW h \in Gates, NEW i \in 1..Len(wc[h])
        PROVE  /\ pc'[wc[h][i]] = "childWaiting"
               /\ parentAsInputGate(entering[waitingChildren[h][i]])' = h
    <3>1. pc'[wc[h][i]] = p[wc[h][i]] /\ entering'[wc[h][i]] = entering[wc[h][i]]
      BY <1>2, <1>3
    <3>2. p[wc[h][i]] = "childWaiting" /\ parentAsInputGate(entering[wc[h][i]]) = h
      BY <1>1 DEF QueueInv
    <3>3. parentAsInputGate(entering[waitingChildren[h][i]])' = parentAsInputGate(entering[wc[h][i]])
      BY <1>0, <1>1, <3>1
    <3> QED BY <3>1, <3>2, <3>3
  <2>2. ASSUME NEW h \in Gates, NEW i \in 1..Len(ws[h])
        PROVE  pc'[ws[h][i]] = "waiting"
    <3>1. p[ws[h][i]] = "waiting"
      BY <1>1 DEF QueueInv
    <3> QED BY <1>2, <1>3, <3>1
  <2> QED BY <1>0, <1>1, <2>1, <2>2 DEF QueueInv
<1>7. WakeupInv(waiters, waitingChildren)'
  BY <1>0, <1>1, SMT DEF WakeupInv, TypeOK, GoesToNobody
<1>8. BlockInv(pc)'
  <2>1. ASSUME NEW q \in Owners, Blocker(q, pc)'
        PROVE  Blocker(q, p) /\ Target(lock[q])' = Target(lock[q])
    <3>1. q # o /\ lock'[q] = lock[q]
      BY <1>3, <2>1 DEF Blocker
    <3>2. q \in Sections => state'[q] = state[q]
      BY <3>1 DEF Releasing
    <3> QED BY <1>1, <1>3, <2>1, <3>1, <3>2 DEF Blocker
  <2> QED BY <1>1, <2>1 DEF BlockInv
<1>9. LocksAccounted'
  BY CountRemove DEF Releasing, GoesToNobody
<1> QED BY <1>4, <1>5, <1>6, <1>7, <1>8, <1>9, HandedLockInv, HandedTaskInv DEF AfterRelease

(* What a grant of the last Lock to task n does.                           *)
LEMMA ReleaseToTask ==
    ASSUME NEW o \in Owners, NEW g,
           NEW ws \in [Gates -> Seq(Tasks)], NEW wc \in [Gates -> Seq(Tasks)],
           NEW p \in [Tasks -> TaskStates], Releasing(o, g, ws, wc, p),
           NEW n \in Tasks, n # o, NEW s, GoesToTask(o, g, p, n, s),
           \/ p[n] = "waiting" /\ s = "holding"
           \/ p[n] = "childWaiting" /\ s = "childGranted" /\ parentAsInputGate(entering[n]) = g
    PROVE  /\ Handed(o, g, p) /\ LocksAccounted' /\ BlockInv(pc)'
           /\ lock' \in [Owners -> Gates \cup {NoGate}]
           /\ pc' \in [Tasks -> TaskStates]
<1>1. /\ TypeOK /\ BlockInv(p) /\ TaskInv(p) /\ LocksAccounted
      /\ g \in Gates \ Reparented /\ Target(g) = g
      /\ \A x : Target(x)' = Target(x)
      /\ lock[o] # NoGate /\ Target(lock[o]) = g
  BY DEF Releasing
<1>2. lock[n] = NoGate /\ n \in Owners
  BY <1>1, ZenonT(60) DEF TaskInv, Owners
<1>3. /\ lock'[o] = NoGate /\ lock'[n] = g
      /\ \A q \in Owners : q # o /\ q # n => lock'[q] = lock[q]
      /\ pc'[n] = s /\ \A t \in Tasks : t # o /\ t # n => pc'[t] = p[t]
      /\ o \in Tasks => pc'[o] = "idle"
  BY <1>1, <1>2 DEF TypeOK, GoesToTask
<1>4. Handed(o, g, p)
  BY <1>2, <1>3 DEF Handed, Granted, Owners
<1>5. LocksAccounted'
  BY <1>1, <1>2, CountSwap DEF GoesToTask
<1>6. \A q \in Owners : q # o /\ lock[q] # NoGate => Target(lock[q]) # g
  BY <1>1, CountTwo, SMTT(30) DEF GoesToTask
<1>7. ASSUME NEW q \in Owners, q # n, Blocker(q, pc)'
      PROVE  Blocker(q, p) /\ Target(lock[q])' = Target(lock[q]) /\ q # o
  <2>1. q # o /\ lock'[q] = lock[q]
    BY <1>3, <1>7 DEF Blocker
  <2>2. q \in Sections => state'[q] = state[q]
    BY <2>1 DEF Releasing
  <2> QED BY <1>1, <1>3, <1>7, <2>1, <2>2 DEF Blocker
<1>8. Target(lock[n])' = g
  BY <1>1, <1>3
<1>9. BlockInv(pc)'
  <2> SUFFICES ASSUME NEW o1 \in Owners, NEW o2 \in Owners,
                      Blocker(o1, pc)', Blocker(o2, pc)',
                      Target(lock[o1])' = Target(lock[o2])'
               PROVE  o1 = o2
    BY DEF BlockInv
  <2>1. CASE o1 # n /\ o2 # n
    BY <1>1, <1>7, <2>1 DEF BlockInv
  <2>2. CASE o1 = n /\ o2 # n
    BY <1>6, <1>7, <1>8, <2>2 DEF Blocker
  <2>3. CASE o1 # n /\ o2 = n
    BY <1>6, <1>7, <1>8, <2>3 DEF Blocker
  <2> QED BY <2>1, <2>2, <2>3
<1>10. /\ lock' \in [Owners -> Gates \cup {NoGate}]
       /\ pc' \in [Tasks -> TaskStates]
  BY <1>1 DEF TypeOK, TaskStates, GoesToTask
<1> QED BY <1>4, <1>5, <1>9, <1>10

LEMMA ReleaseToChild ==
    ASSUME NEW o \in Owners, NEW g,
           NEW ws \in [Gates -> Seq(Tasks)], NEW wc \in [Gates -> Seq(Tasks)],
           NEW p \in [Tasks -> TaskStates], Releasing(o, g, ws, wc, p),
           GoesToChild(o, g, ws, wc, p)
    PROVE  AfterRelease
<1>0. wc[g] # << >> /\ waiters' = ws
  BY DEF GoesToChild
<1>1. /\ TypeOK /\ QueueInv(ws, wc, p) /\ g \in Gates
      /\ \A x : parentAsInputGate(x)' = parentAsInputGate(x)
  BY DEF Releasing
<1>2. /\ \A h \in Gates : \A i \in 1..Len(ws[h]) : ws[h][i] \in Tasks /\ ws[h][i] # o
      /\ \A h \in Gates : \A i \in 1..Len(wc[h]) : wc[h][i] \in Tasks /\ wc[h][i] # o
      /\ \A t \in Tasks : entering'[t] = IF t = o THEN NoSection ELSE entering[t]
  BY DEF Releasing
<1>3. LeftBehind(wc, g, waitingChildren') /\ Distinct(ws)
  <2>1. Distinct(wc) /\ Distinct(ws)
    BY <1>1, ZenonT(60) DEF QueueInv
  <2>2. waitingChildren' = [wc EXCEPT ![g] = Tail(@)]
    BY DEF GoesToChild
  <2> QED BY <1>0, <1>1, <2>1, <2>2, TailElements
<1>4. PICK n \in Tasks : n = Head(wc[g]) /\ n = wc[g][1] /\ 1 \in 1..Len(wc[g])
  BY <1>3 DEF LeftBehind
<1>5. n # o /\ p[n] = "childWaiting" /\ parentAsInputGate(entering[n]) = g
  <2>1. p[n] = "childWaiting" /\ parentAsInputGate(entering[n]) = g
    BY <1>1, <1>4, SMTT(30) DEF QueueInv
  <2> QED BY <1>1, <1>2, <1>4, <2>1
<1>6. GoesToTask(o, g, p, n, "childGranted")
  BY <1>4 DEF GoesToChild
<1>7. /\ Handed(o, g, p) /\ LocksAccounted' /\ BlockInv(pc)'
      /\ lock' \in [Owners -> Gates \cup {NoGate}] /\ pc' \in [Tasks -> TaskStates]
  BY <1>5, <1>6, ReleaseToTask
<1>8. \A t \in Tasks : t # o /\ t # n => pc'[t] = p[t] /\ entering'[t] = entering[t]
  BY <1>2, <1>6 DEF GoesToTask
<1>9. TypeOK'
  <2>1. waitingChildren' \in [Gates -> Seq(Tasks)] /\ lockCount' \in [Gates -> Nat]
        /\ path' \in [Sections -> Seq(Gates)]
    BY <1>1, <1>3, <1>6 DEF LeftBehind, TypeOK, Releasing, GoesToTask
  <2> QED BY <1>0, <1>7, <2>1 DEF TypeOK, Releasing
<1>10. ASSUME NEW h \in Gates, NEW i \in 1..Len(ws[h])
       PROVE  pc'[ws[h][i]] = "waiting"
  <2>1. p[ws[h][i]] = "waiting" /\ ws[h][i] \in Tasks /\ ws[h][i] # o
    BY <1>1, <1>2, SMTT(30) DEF QueueInv
  <2> QED BY <1>5, <1>8, <2>1
<1>11. ASSUME NEW h \in Gates, NEW i \in 1..Len(waitingChildren'[h])
       PROVE  /\ pc'[waitingChildren'[h][i]] = "childWaiting"
              /\ parentAsInputGate(entering[waitingChildren[h][i]])' = h
  <2>1. PICK j \in 1..Len(wc[h]) : waitingChildren'[h][i] = wc[h][j]
    BY <1>3 DEF LeftBehind
  <2>a. waitingChildren'[h][i] # n
    BY <1>3, <1>4, SMTT(30) DEF LeftBehind
  <2>2. PICK u \in Tasks : u = wc[h][j] /\ u # n /\ u # o
    BY <1>2, <2>1, <2>a
  <2>3. p[u] = "childWaiting" /\ parentAsInputGate(entering[u]) = h
    BY <1>1, <2>2 DEF QueueInv
  <2>4. pc'[u] = p[u] /\ entering'[u] = entering[u]
    BY <1>8, <2>2
  <2>5. parentAsInputGate(entering[u])' = parentAsInputGate(entering[u])
    BY <1>1, <2>4
  <2>6. parentAsInputGate(entering[waitingChildren[h][i]])' = parentAsInputGate(entering[u])'
    BY <2>1, <2>2
  <2> QED BY <2>1, <2>2, <2>3, <2>4, <2>5, <2>6
<1>12. QueueInv(waiters, waitingChildren, pc)'
  <2>1. Distinct(waitingChildren')
    BY <1>3 DEF LeftBehind
  <2>2. waiters' = ws
    BY <1>0
  <2> QED BY <1>3, <1>10, <1>11, <2>1, <2>2 DEF QueueInv
<1>13. WakeupInv(waiters, waitingChildren)'
  <2>1. lockCount' = lockCount /\ lockCount[g] = 1
    BY <1>6 DEF GoesToTask
  <2>2. \A h \in Gates : h # g => waitingChildren'[h] = wc[h]
    BY DEF GoesToChild
  <2>3. WakeupInv(ws, wc)
    BY ZenonT(60) DEF Releasing
  <2> QED BY <1>0, <2>1, <2>2, <2>3 DEF WakeupInv
<1> QED BY <1>7, <1>9, <1>12, <1>13, HandedLockInv, HandedTaskInv DEF AfterRelease

LEMMA ReleaseToWaiter ==
    ASSUME NEW o \in Owners, NEW g,
           NEW ws \in [Gates -> Seq(Tasks)], NEW wc \in [Gates -> Seq(Tasks)],
           NEW p \in [Tasks -> TaskStates], Releasing(o, g, ws, wc, p),
           GoesToWaiter(o, g, ws, wc, p)
    PROVE  AfterRelease
<1>0. ws[g] # << >> /\ waitingChildren' = wc
  BY DEF GoesToWaiter
<1>1. /\ TypeOK /\ QueueInv(ws, wc, p) /\ g \in Gates
      /\ \A x : parentAsInputGate(x)' = parentAsInputGate(x)
  BY DEF Releasing
<1>2. /\ \A h \in Gates : \A i \in 1..Len(ws[h]) : ws[h][i] \in Tasks /\ ws[h][i] # o
      /\ \A h \in Gates : \A i \in 1..Len(wc[h]) : wc[h][i] \in Tasks /\ wc[h][i] # o
      /\ \A t \in Tasks : entering'[t] = IF t = o THEN NoSection ELSE entering[t]
  BY DEF Releasing
<1>3. LeftBehind(ws, g, waiters') /\ Distinct(wc)
  <2>1. Distinct(wc) /\ Distinct(ws)
    BY <1>1 DEF QueueInv
  <2>2. waiters' = [ws EXCEPT ![g] = Tail(@)]
    BY DEF GoesToWaiter
  <2> QED BY <1>0, <1>1, <2>1, <2>2, TailElements
<1>4. PICK n \in Tasks : n = Head(ws[g]) /\ n = ws[g][1] /\ 1 \in 1..Len(ws[g])
  BY <1>3, ZenonT(60) DEF LeftBehind
<1>5. n # o /\ p[n] = "waiting"
  <2>1. p[n] = "waiting"
    BY <1>1, <1>4, SMT DEF QueueInv
  <2> QED BY <1>1, <1>2, <1>4, <2>1, ZenonT(60)
<1>6. GoesToTask(o, g, p, n, "holding")
  BY <1>4 DEF GoesToWaiter
<1>7. /\ Handed(o, g, p) /\ LocksAccounted' /\ BlockInv(pc)'
      /\ lock' \in [Owners -> Gates \cup {NoGate}] /\ pc' \in [Tasks -> TaskStates]
  BY <1>5, <1>6, ReleaseToTask
<1>8. \A t \in Tasks : t # o /\ t # n => pc'[t] = p[t] /\ entering'[t] = entering[t]
  BY <1>2, <1>6 DEF GoesToTask
<1>9. TypeOK'
  <2>1. waiters' \in [Gates -> Seq(Tasks)] /\ lockCount' \in [Gates -> Nat]
        /\ path' \in [Sections -> Seq(Gates)]
    BY <1>1, <1>3, <1>6 DEF LeftBehind, TypeOK, Releasing, GoesToTask
  <2> QED BY <1>0, <1>7, <2>1 DEF TypeOK, Releasing
<1>10. ASSUME NEW h \in Gates, NEW i \in 1..Len(wc[h])
       PROVE  /\ pc'[wc[h][i]] = "childWaiting"
              /\ parentAsInputGate(entering[waitingChildren[h][i]])' = h
  <2>1. PICK u \in Tasks : u = wc[h][i] /\ u # o
    BY <1>2, SMT
  <2>2. p[u] = "childWaiting" /\ parentAsInputGate(entering[u]) = h
    BY <1>1, <2>1 DEF QueueInv
  <2>3. pc'[u] = p[u] /\ entering'[u] = entering[u]
    BY <1>5, <1>8, <2>1, <2>2
  <2>4. parentAsInputGate(entering[u])' = parentAsInputGate(entering[u])
    BY <1>1, <2>3
  <2>5. parentAsInputGate(entering[waitingChildren[h][i]])' = parentAsInputGate(entering[u])'
    BY <1>0, <2>1
  <2> QED BY <2>1, <2>2, <2>3, <2>4, <2>5
<1>11. ASSUME NEW h \in Gates, NEW i \in 1..Len(waiters'[h])
       PROVE  pc'[waiters'[h][i]] = "waiting"
  <2>1. PICK j \in 1..Len(ws[h]) : waiters'[h][i] = ws[h][j]
    BY <1>3 DEF LeftBehind
  <2>a. waiters'[h][i] # n
    BY <1>3, <1>4, SMT DEF LeftBehind
  <2>2. PICK u \in Tasks : u = ws[h][j] /\ u # n /\ u # o
    BY <1>2, <2>1, <2>a
  <2>3. p[u] = "waiting"
    BY <1>1, <2>2, ZenonT(60) DEF QueueInv
  <2> QED BY <1>8, <2>1, <2>2, <2>3
<1>12. QueueInv(waiters, waitingChildren, pc)'
  <2>1. Distinct(waiters')
    BY <1>3 DEF LeftBehind
  <2>2. waitingChildren' = wc
    BY <1>0
  <2> QED BY <1>3, <1>10, <1>11, <2>1, <2>2 DEF QueueInv
<1>13. WakeupInv(waiters, waitingChildren)'
  <2>1. lockCount' = lockCount /\ lockCount[g] = 1
    BY <1>6 DEF GoesToTask
  <2>2. \A h \in Gates : h # g => waiters'[h] = ws[h]
    BY DEF GoesToWaiter
  <2>3. WakeupInv(ws, wc)
    BY DEF Releasing
  <2> QED BY <1>0, <2>1, <2>2, <2>3 DEF WakeupInv
<1> QED BY <1>7, <1>9, <1>12, <1>13, HandedLockInv, HandedTaskInv DEF AfterRelease

(* releaseLock(), called by ~Lock(), by cancellation of a granted wait(),  *)
(* or by ~CriticalSection() after it rejected waiters.                     *)
LEMMA ReleaseLockInv ==
    ASSUME TypeOK, PathInv, LockInv, LocksAccounted,
           NEW ws \in [Gates -> Seq(Tasks)], NEW wc \in [Gates -> Seq(Tasks)],
           NEW p \in [Tasks -> TaskStates],
           TaskInv(p), QueueInv(ws, wc, p), WakeupInv(ws, wc), BlockInv(p),
           NEW o \in Owners, lock[o] # NoGate, releaseLock(o, ws, wc, p),
           path' = path, Reparented' = Reparented,
           state' \in [Sections -> SectionStates],
           broken' \in [Gates -> BOOLEAN],
           entering' \in [Tasks -> Sections \cup {NoSection}],
           \A t \in Tasks : entering'[t] = IF t = o THEN NoSection
                                                    ELSE entering[t],
           \A c \in Sections : state'[c] # state[c] =>
              /\ c = o /\ state[c] = "RUNNING" /\ Unreferenced(c)
    PROVE  /\ TypeOK' /\ LockInv' /\ TaskInv(pc)' /\ LocksAccounted'
           /\ QueueInv(waiters, waitingChildren, pc)'
           /\ WakeupInv(waiters, waitingChildren)' /\ BlockInv(pc)'
<1>1. /\ \A x : Target(x)' = Target(x)
      /\ \A x : parentAsInputGate(x)' = parentAsInputGate(x)
  BY TargetUnchanged
<1>2. /\ lock[o] \in Gates
      /\ lock[o] \in Sections => state[lock[o]] \in {"RUNNING", "REPARENTED"}
  BY DEF LockInv, TypeOK
<1>3. PICK g \in Gates : g = Target(lock[o])
  BY <1>2, TargetExists
<1>4. /\ g \in Gates \ Reparented /\ g # NoGate /\ Target(g) = g
      /\ g \in Sections => state[g] = "RUNNING"
  <2>1. /\ g \in Gates \ Reparented
        /\ g \in Sections => state[g] = "RUNNING"
    BY <1>2, <1>3, TargetExists
  <2> QED BY <2>1, InputGateAssumption DEF Gates, Target
<1>5. o \in Sections /\ state[o] = "RUNNING" => g # o
  BY <1>3, ParentExists DEF LockInv, Existing
<1>6. lockCount[g] > 0
  BY <1>3, CountPositive
<1>7. /\ \A c \in Sections : c # o => state'[c] = state[c]
      /\ \A q \in Owners : lock[q] \in Sections => state'[lock[q]] = state[lock[q]]
      /\ \A t \in Tasks : entering[t] \in Sections =>
                             state'[entering[t]] = state[entering[t]]
      /\ g \in Sections => state'[g] = state[g]
  BY <1>4, <1>5, ZenonT(60) DEF Unreferenced
<1>8. o \in Tasks => p[o] \in {"holding", "childGranted"}
  BY DEF TaskInv
<1>9. /\ \A h \in Gates : \A i \in 1..Len(ws[h]) : ws[h][i] \in Tasks /\ ws[h][i] # o
      /\ \A h \in Gates : \A i \in 1..Len(wc[h]) : wc[h][i] \in Tasks /\ wc[h][i] # o
  <2>1. /\ \A h \in Gates : \A i \in 1..Len(ws[h]) : p[ws[h][i]] = "waiting"
        /\ \A h \in Gates : \A i \in 1..Len(wc[h]) : p[wc[h][i]] = "childWaiting"
    BY DEF QueueInv
  <2>2. /\ \A h \in Gates : \A i \in 1..Len(ws[h]) : ws[h][i] \in Tasks
        /\ \A h \in Gates : \A i \in 1..Len(wc[h]) : wc[h][i] \in Tasks
    BY SMTT(30)
  <2>3. ASSUME NEW u \in Tasks, p[u] \in {"waiting", "childWaiting"} PROVE u # o
    BY <1>8, <2>3
  <2> QED BY <2>1, <2>2, <2>3, ZenonT(60)
<1>10. Releasing(o, g, ws, wc, p)
  BY <1>1, <1>3, <1>4, <1>6, <1>7, <1>9 DEF Releasing
<1>11. \/ GoesToNobody(o, g, ws, wc, p)
       \/ GoesToChild(o, g, ws, wc, p)
       \/ GoesToWaiter(o, g, ws, wc, p)
  BY <1>3, <1>6
     DEF releaseLock, GoesToNobody, GoesToChild, GoesToWaiter, GoesToTask
<1>12. AfterRelease
  BY <1>10, <1>11, ReleaseToNobody, ReleaseToChild, ReleaseToWaiter
<1> QED BY <1>12 DEF AfterRelease

(* Parent chains survive every step that reparents nothing and destroys    *)
(* only a section that nobody refers to.                                   *)
LEMMA PathStep ==
    ASSUME PathInv, path' = path, Reparented' = Reparented,
           \A c \in Sections : state'[c] # state[c] =>
              \/ state[c] \in {"NOT_STARTED", "INITIAL_WAIT"}
                 /\ state'[c] \in {"INITIAL_WAIT", "RUNNING"}
              \/ state'[c] = "DESTROYED" /\ Unreferenced(c)
    PROVE  PathInv'
<1> SUFFICES ASSUME NEW c \in Sections, Existing(c)'
             PROVE  ChainOK(c, path, state', Reparented)
  BY DEF PathInv
<1>1. Existing(c)
  BY DEF Existing
<1>2. ASSUME NEW i \in 1..Len(path[c]), path[c][i] \in Sections
      PROVE  state'[path[c][i]] \in {"RUNNING", "REPARENTED"}
  <2>1. state[path[c][i]] \in {"RUNNING", "REPARENTED"}
    BY <1>1, <1>2 DEF PathInv, ChainOK
  <2>2. ~Unreferenced(path[c][i])
    BY <1>1, <1>2 DEF Unreferenced, Existing
  <2> QED BY <1>2, <2>1, <2>2
<1>3. ChainOK(c, path, state, Reparented)
  BY <1>1 DEF PathInv
<1> QED BY <1>2, <1>3 DEF ChainOK

LEMMA ReleaseInv ==
    ASSUME Inv, NEW o \in Owners, Release(o)
    PROVE  Inv'
<1> USE DEF Inv
<1>1. state' = state /\ path' = path /\ broken' = broken /\ entering' = entering
      /\ Reparented' = Reparented /\ lock[o] # NoGate
      /\ releaseLock(o, waiters, waitingChildren, pc)
  BY DEF Release, Reparented
<1>2. \A t \in Tasks : entering'[t] = IF t = o THEN NoSection ELSE entering[t]
  <2>1. o \in Tasks => entering[o] \notin Sections
    BY DEF Release, TaskInv
  <2> QED BY <1>1, <2>1 DEF TypeOK
<1>3. PathInv'
  BY <1>1, PathStep
<1>4. /\ waiters \in [Gates -> Seq(Tasks)] /\ waitingChildren \in [Gates -> Seq(Tasks)]
      /\ pc \in [Tasks -> TaskStates]
      /\ state' \in [Sections -> SectionStates]
      /\ broken' \in [Gates -> BOOLEAN]
      /\ entering' \in [Tasks -> Sections \cup {NoSection}]
  BY <1>1 DEF TypeOK
<1>5. /\ TypeOK' /\ LockInv' /\ TaskInv(pc)' /\ LocksAccounted'
      /\ QueueInv(waiters, waitingChildren, pc)'
      /\ WakeupInv(waiters, waitingChildren)' /\ BlockInv(pc)'
  BY <1>1, <1>2, <1>4, ReleaseLockInv
<1> QED BY <1>3, <1>5

LEMMA FunctionIsSequence ==
    ASSUME NEW S, NEW n \in Nat, NEW f \in [1..n -> S]
    PROVE  f \in Seq(S) /\ Len(f) = n
BY SMT

(* The lists r are the lists q without the tasks of T.                     *)
Shrunk(r, q, T) ==
    /\ r \in [Gates -> Seq(Tasks)]
    /\ \A h \in Gates : \A i \in 1..Len(r[h]) :
          /\ \E j \in 1..Len(q[h]) : r[h][i] = q[h][j]
          /\ r[h][i] \notin T
    /\ Distinct(r)
    /\ \A h \in Gates : q[h] = << >> => r[h] = << >>

(* What a list of waiters holds after one task was unlinked.               *)
LEMMA UnlinkElements ==
    ASSUME NEW q \in [Gates -> Seq(Tasks)], NEW g \in Gates,
           NEW k \in 1..Len(q[g]),
           NEW r, r = [q EXCEPT ![g] = Unlink(@, k)], Distinct(q)
    PROVE  Shrunk(r, q, {q[g][k]})
<1>1. q[g] \in Seq(Tasks) /\ Len(q[g]) \in Nat /\ Len(q[g]) - 1 \in Nat
  BY SMT
<1>2. /\ Unlink(q[g], k) \in Seq(Tasks)
      /\ Len(Unlink(q[g], k)) = Len(q[g]) - 1
      /\ \A i \in 1..(Len(q[g]) - 1) :
            Unlink(q[g], k)[i] = q[g][IF i < k THEN i ELSE i + 1]
  <2>1. \A i \in 1..(Len(q[g]) - 1) : /\ i \in 1..Len(q[g]) /\ i + 1 \in 1..Len(q[g])
                                     /\ q[g][i] \in Tasks /\ q[g][i + 1] \in Tasks
    BY <1>1, SMT
  <2>2. Unlink(q[g], k) \in [1..(Len(q[g]) - 1) -> Tasks]
    <3>1. \A i \in 1..(Len(q[g]) - 1) :
             (IF i < k THEN q[g][i] ELSE q[g][i + 1]) \in Tasks
      BY <2>1
    <3> QED BY <3>1 DEF Unlink
  <2>3. Unlink(q[g], k) \in Seq(Tasks)
    BY <1>1, <2>2, FunctionIsSequence
  <2>4. Len(Unlink(q[g], k)) = Len(q[g]) - 1
    BY <1>1, <2>2, FunctionIsSequence, SMTT(30)
  <2> QED BY <2>3, <2>4 DEF Unlink
<1> DEFINE ix(h, i) == IF h = g /\ i >= k THEN i + 1 ELSE i
<1>3. ASSUME NEW h \in Gates, NEW i \in 1..Len(r[h])
      PROVE  /\ i \in Nat /\ ix(h, i) \in 1..Len(q[h]) /\ r[h][i] = q[h][ix(h, i)]
             /\ h = g => ix(h, i) # k
  <2>1. CASE h = g
    <3>1. r[h] = Unlink(q[g], k)
      BY <2>1
    <3>2. i \in 1..(Len(q[g]) - 1)
      BY <1>2, <3>1
    <3> QED BY <1>1, <1>2, <2>1, <3>1, <3>2, SMTT(30)
  <2>2. CASE h # g
    BY <2>2, SMTT(30)
  <2> QED BY <2>1, <2>2
<1>4. r \in [Gates -> Seq(Tasks)]
  BY <1>2
<1>5. ASSUME NEW h \in Gates, NEW i \in 1..Len(r[h])
      PROVE  /\ \E j \in 1..Len(q[h]) : r[h][i] = q[h][j]
             /\ r[h][i] # q[g][k]
  <2> HIDE DEF ix
  <2> QED BY <1>3, SMT DEF Distinct
<1>6. ASSUME NEW h \in Gates, NEW l \in Gates,
             NEW i \in 1..Len(r[h]), NEW j \in 1..Len(r[l]), r[h][i] = r[l][j]
      PROVE  h = l /\ i = j
  <2>1. h = l /\ ix(h, i) = ix(l, j)
    <3> HIDE DEF ix
    <3>1. ix(h, i) \in 1..Len(q[h]) /\ r[h][i] = q[h][ix(h, i)]
      BY <1>3
    <3>2. ix(l, j) \in 1..Len(q[l]) /\ r[l][j] = q[l][ix(l, j)]
      BY <1>3
    <3>3. q[h][ix(h, i)] = q[l][ix(l, j)]
      BY <1>6, <3>1, <3>2
    <3> QED BY <3>1, <3>2, <3>3, SMTT(30) DEF Distinct
  <2>2. i \in Nat /\ j \in Nat /\ k \in Nat
    BY <1>3, SMT
  <2> QED BY <2>1, <2>2, SMTT(30)
<1>7. Distinct(r)
  BY <1>6 DEF Distinct
<1>8. \A h \in Gates : q[h] = << >> => r[h] = << >>
  BY <1>1, SMT
<1>9. ASSUME NEW h \in Gates, NEW i \in 1..Len(r[h])
      PROVE  /\ \E j \in 1..Len(q[h]) : r[h][i] = q[h][j]
             /\ r[h][i] \notin {q[g][k]}
  BY <1>5
<1> QED BY <1>4, <1>7, <1>8, <1>9 DEF Shrunk

LEMMA CancelInv ==
    ASSUME Inv, NEW t \in Tasks, Cancel(t)
    PROVE  Inv'
<1> USE DEF Inv
<1>1. /\ state' = state /\ path' = path /\ broken' = broken
      /\ entering' = [entering EXCEPT ![t] = NoSection]
      /\ Reparented' = Reparented /\ t \in Owners
  BY DEF Cancel, Reparented, Owners
<1>2. /\ \A x : Target(x)' = Target(x)
      /\ \A x : parentAsInputGate(x)' = parentAsInputGate(x)
  BY <1>1, TargetUnchanged
<1>3. PathInv'
  BY <1>1, PathStep
<1>4. \A u \in Tasks : entering'[u] = IF u = t THEN NoSection ELSE entering[u]
  BY <1>1 DEF TypeOK
<1>5. /\ entering' \in [Tasks -> Sections \cup {NoSection}]
      /\ NoSection \notin Sections
  BY <1>1, InputGateAssumption DEF TypeOK
<1>6. CASE pc[t] = "childGranted" /\ releaseLock(t, waiters, waitingChildren, pc)
  <2>1. lock[t] # NoGate
    BY <1>6 DEF TaskInv
  <2>2. /\ waiters \in [Gates -> Seq(Tasks)] /\ waitingChildren \in [Gates -> Seq(Tasks)]
        /\ pc \in [Tasks -> TaskStates]
        /\ state' \in [Sections -> SectionStates]
        /\ broken' \in [Gates -> BOOLEAN]
    BY <1>1 DEF TypeOK
  <2>3. /\ TypeOK' /\ LockInv' /\ TaskInv(pc)' /\ LocksAccounted'
        /\ QueueInv(waiters, waitingChildren, pc)'
        /\ WakeupInv(waiters, waitingChildren)' /\ BlockInv(pc)'
    BY <1>1, <1>4, <1>5, <1>6, <2>1, <2>2, ReleaseLockInv
  <2> QED BY <1>3, <2>3
<1>7. ASSUME pc[t] \in {"waiting", "childWaiting", "childRejected"},
             pc' = [pc EXCEPT ![t] = "idle"], lock' = lock, lockCount' = lockCount,
             Shrunk(waiters', waiters, {t}),
             Shrunk(waitingChildren', waitingChildren, {t})
      PROVE  Inv'
  <2>1. TypeOK'
    BY <1>1, <1>5, <1>7 DEF TypeOK, TaskStates, Shrunk
  <2>2. LockInv'
    BY <1>1, <1>2, <1>7 DEF LockInv
  <2>3. pc'[t] = "idle" /\ \A u \in Tasks : u # t => pc'[u] = pc[u]
    BY <1>7 DEF TypeOK
  <2>4. TaskInv(pc)'
    <3>1. ASSUME NEW u \in Tasks, pc'[u] = "childGranted"
          PROVE  Target(lock[u])' = parentAsInputGate(entering[u])'
      <4>1. u # t /\ entering'[u] = entering[u] /\ pc[u] = "childGranted"
        BY <1>4, <2>3, <3>1
      <4>2. Target(lock[u])' = Target(lock[u])
        BY <1>2, <1>7
      <4>3. parentAsInputGate(entering[u])' = parentAsInputGate(entering[u])
        BY <1>2, <4>1
      <4> QED BY <4>1, <4>2, <4>3, ZenonT(60) DEF TaskInv
    <3>2. \A u \in Tasks : lock'[u] # NoGate <=> pc'[u] \in {"holding", "childGranted"}
      BY <1>7, <2>3 DEF TaskInv
    <3>3. \A u \in Tasks : entering'[u] \in Sections <=>
             pc'[u] \in {"childWaiting", "childGranted", "childRejected"}
      BY <1>4, <1>5, <2>3 DEF TaskInv
    <3>4. \A u \in Tasks : entering'[u] \in Sections =>
             state'[entering'[u]] = "INITIAL_WAIT"
      BY <1>1, <1>4, <1>5 DEF TaskInv
    <3>5. \A u, v \in Tasks :
             entering'[u] = entering'[v] /\ entering'[u] \in Sections => u = v
      BY <1>4, <1>5, SMT DEF TaskInv
    <3> QED BY <3>1, <3>2, <3>3, <3>4, <3>5, ZenonT(60) DEF TaskInv
  <2>5. QueueInv(waiters, waitingChildren, pc)'
    <3>1. ASSUME NEW h \in Gates, NEW i \in 1..Len(waiters'[h])
          PROVE  pc'[waiters'[h][i]] = "waiting"
      <4>1. PICK j \in 1..Len(waiters[h]) : waiters'[h][i] = waiters[h][j]
        BY <1>7 DEF Shrunk
      <4>2. waiters'[h][i] # t
        BY <1>7 DEF Shrunk
      <4>3. pc[waiters[h][j]] = "waiting" /\ waiters[h][j] \in Tasks
        BY SMT DEF QueueInv, TypeOK
      <4> QED BY <2>3, <4>1, <4>2, <4>3
    <3>2. ASSUME NEW h \in Gates, NEW i \in 1..Len(waitingChildren'[h])
          PROVE  /\ pc'[waitingChildren'[h][i]] = "childWaiting"
                 /\ parentAsInputGate(entering[waitingChildren[h][i]])' = h
      <4>1. PICK j \in 1..Len(waitingChildren[h]) :
               waitingChildren'[h][i] = waitingChildren[h][j]
        BY <1>7 DEF Shrunk
      <4>2. waitingChildren'[h][i] # t
        BY <1>7 DEF Shrunk
      <4> DEFINE u == waitingChildren[h][j]
      <4>3. /\ pc[u] = "childWaiting" /\ u \in Tasks
            /\ parentAsInputGate(entering[u]) = h
        BY SMT DEF QueueInv, TypeOK
      <4>4. entering'[u] = entering[u]
        BY <1>4, <4>1, <4>2, <4>3
      <4> QED BY <1>2, <2>3, <4>1, <4>2, <4>3, <4>4
    <3>3. Distinct(waiters') /\ Distinct(waitingChildren')
      BY <1>7 DEF Shrunk
    <3> QED BY <3>1, <3>2, <3>3 DEF QueueInv
  <2>6. WakeupInv(waiters, waitingChildren)'
    BY <1>7 DEF WakeupInv, Shrunk
  <2>7. BlockInv(pc)'
    <3>1. ASSUME NEW q \in Owners, Blocker(q, pc)'
          PROVE  Blocker(q, pc) /\ Target(lock[q])' = Target(lock[q])
      BY <1>1, <1>2, <1>7, <2>3, <3>1 DEF Blocker
    <3> QED BY <3>1 DEF BlockInv
  <2>8. LocksAccounted'
    BY <1>2, <1>7 DEF LocksAccounted, HoldersOf
  <2> QED BY <1>3, <2>1, <2>2, <2>4, <2>5, <2>6, <2>7, <2>8
<1>8. ASSUME NEW q, q \in [Gates -> Seq(Tasks)], Distinct(q),
             \A h \in Gates : \A i \in 1..Len(q[h]) : q[h][i] # t
      PROVE  Shrunk(q, q, {t})
  BY <1>8 DEF Shrunk
<1>9. /\ waiters \in [Gates -> Seq(Tasks)] /\ Distinct(waiters)
      /\ waitingChildren \in [Gates -> Seq(Tasks)] /\ Distinct(waitingChildren)
      /\ pc[t] # "waiting" => \A h \in Gates : \A i \in 1..Len(waiters[h]) :
                                 waiters[h][i] # t
      /\ pc[t] # "childWaiting" =>
            \A h \in Gates : \A i \in 1..Len(waitingChildren[h]) :
               waitingChildren[h][i] # t
  <2>1. QueueInv(waiters, waitingChildren, pc)
    OBVIOUS
  <2>2. /\ waiters \in [Gates -> Seq(Tasks)] /\ Distinct(waiters)
        /\ waitingChildren \in [Gates -> Seq(Tasks)] /\ Distinct(waitingChildren)
    BY <2>1 DEF TypeOK, QueueInv
  <2>3. /\ \A h \in Gates : \A i \in 1..Len(waiters[h]) :
              pc[waiters[h][i]] = "waiting"
        /\ \A h \in Gates : \A i \in 1..Len(waitingChildren[h]) :
              pc[waitingChildren[h][i]] = "childWaiting"
    BY <2>1 DEF QueueInv
  <2>4. pc[t] # "waiting" => \A h \in Gates : \A i \in 1..Len(waiters[h]) :
                                 waiters[h][i] # t
    BY <2>3, SMT
  <2>5. pc[t] # "childWaiting" =>
            \A h \in Gates : \A i \in 1..Len(waitingChildren[h]) :
               waitingChildren[h][i] # t
    BY <2>3, SMT
  <2> QED BY <2>2, <2>4, <2>5
<1>10. CASE pc[t] = "waiting"
  <2>0. PICK g \in Gates : \E k \in 1..Len(waiters[g]) :
           waiters[g][k] = t /\ waiters' = [waiters EXCEPT ![g] = Unlink(@, k)]
    BY <1>10 DEF Cancel
  <2>1. PICK k \in 1..Len(waiters[g]) :
           waiters[g][k] = t /\ waiters' = [waiters EXCEPT ![g] = Unlink(@, k)]
    BY <2>0
  <2>2. Shrunk(waiters', waiters, {t})
    BY <1>9, <2>1, UnlinkElements
  <2>3. /\ pc' = [pc EXCEPT ![t] = "idle"] /\ lock' = lock
        /\ lockCount' = lockCount /\ waitingChildren' = waitingChildren
    BY <1>10 DEF Cancel
  <2>4. Shrunk(waitingChildren', waitingChildren, {t})
    BY <1>8, <1>9, <1>10, <2>3
  <2> QED BY <1>7, <1>10, <2>2, <2>3, <2>4
<1>11. CASE pc[t] = "childWaiting"
  <2>0. PICK g \in Gates : \E k \in 1..Len(waitingChildren[g]) :
           /\ waitingChildren[g][k] = t
           /\ waitingChildren' = [waitingChildren EXCEPT ![g] = Unlink(@, k)]
    BY <1>11 DEF Cancel
  <2>1. PICK k \in 1..Len(waitingChildren[g]) :
           /\ waitingChildren[g][k] = t
           /\ waitingChildren' = [waitingChildren EXCEPT ![g] = Unlink(@, k)]
    BY <2>0
  <2>2. Shrunk(waitingChildren', waitingChildren, {t})
    BY <1>9, <2>1, UnlinkElements
  <2>3. /\ pc' = [pc EXCEPT ![t] = "idle"] /\ lock' = lock
        /\ lockCount' = lockCount /\ waiters' = waiters
    BY <1>11 DEF Cancel
  <2>4. Shrunk(waiters', waiters, {t})
    BY <1>8, <1>9, <1>11, <2>3
  <2> QED BY <1>7, <1>11, <2>2, <2>3, <2>4
<1>12. CASE pc[t] = "childRejected"
  <2>1. /\ pc' = [pc EXCEPT ![t] = "idle"] /\ lock' = lock
        /\ lockCount' = lockCount /\ waiters' = waiters
        /\ waitingChildren' = waitingChildren
    BY <1>12 DEF Cancel
  <2>2. Shrunk(waiters', waiters, {t}) /\ Shrunk(waitingChildren', waitingChildren, {t})
    BY <1>8, <1>9, <1>12, <2>1
  <2> QED BY <1>7, <1>12, <2>1, <2>2
<1> QED BY <1>6, <1>10, <1>11, <1>12 DEF Cancel
=============================================================================
