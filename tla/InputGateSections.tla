------------------------- MODULE InputGateSections --------------------------
(***************************************************************************)
(* The invariant of InputGate is preserved when a critical section is      *)
(* created and when its first wait() runs and resumes.                     *)
(***************************************************************************)
EXTENDS InputGateLocks

(* Most leaves are first-order reasoning about sets and functions, which   *)
(* Zenon does best; a leaf that needs arithmetic names SMT.                *)
USE Zenon

LEMMA ConsElements ==
    ASSUME NEW S, NEW g \in S, NEW s \in Seq(S)
    PROVE  LET r == <<g>> \o s IN
           /\ r \in Seq(S) /\ Len(r) = Len(s) + 1 /\ r[1] = g
           /\ \A i \in 1..Len(s) : r[i + 1] = s[i]
           /\ \A i \in 1..Len(r) : i = 1 \/ (i - 1 \in 1..Len(s) /\ r[i] = s[i - 1])
BY SMT

(* A chain stays good while it and the chains of its sections are kept.    *)
LEMMA ChainKept ==
    ASSUME NEW d, NEW pth, NEW qth, NEW st, NEW tt, NEW R,
           ChainOK(d, pth, st, R), qth[d] = pth[d],
           \A i \in 1..Len(pth[d]) : pth[d][i] \in Sections =>
              /\ tt[pth[d][i]] \in {"RUNNING", "REPARENTED"}
              /\ qth[pth[d][i]] = pth[pth[d][i]]
    PROVE  ChainOK(d, qth, tt, R)
BY SMT DEF ChainOK

LEMMA ChainIntro ==
    ASSUME NEW c, NEW pth, NEW st, NEW R, NEW r, pth[c] = r,
           \E i \in 1..Len(r) : IsFirst(r, R, i),
           \A i \in 1..Len(r) :
              /\ r[i] # c
              /\ r[i] \in Sections =>
                    /\ st[r[i]] \in {"RUNNING", "REPARENTED"}
                    /\ \A k \in 1..Len(pth[r[i]]) :
                          i + k \in 1..Len(r) /\ r[i + k] = pth[r[i]][k]
    PROVE  ChainOK(c, pth, st, R)
BY DEF ChainOK

LEMMA SingletonChain ==
    ASSUME NEW c \in Sections, NEW pth, NEW st, NEW R \in SUBSET Sections,
           pth[c] = <<Root>>
    PROVE  ChainOK(c, pth, st, R)
<1>1. Root \notin Sections /\ Root # c /\ Len(pth[c]) = 1 /\ pth[c][1] = Root
  BY InputGateAssumption, SMT
<1>2. IsFirst(pth[c], R, 1)
  BY <1>1, SMT DEF IsFirst
<1> QED BY <1>1, <1>2, SMT DEF ChainOK

(* The parent chain of a new section.                                      *)
LEMMA StartPath ==
    ASSUME TypeOK, PathInv, NEW g \in Gates, NEW c \in Sections,
           g \in Sections => state[g] \in {"RUNNING", "REPARENTED"},
           state[c] = "UNUSED",
           path'[c] = (IF g = Root THEN <<Root>> ELSE <<g>> \o path[g]),
           Reparented' = Reparented,
           \A d \in Sections : d # c => path'[d] = path[d] /\ state'[d] = state[d]
    PROVE  PathInv' /\ path'[c] \in Seq(Gates)
<1>1. Reparented' = Reparented
  OBVIOUS
<1>2. \A d \in Sections : d # c => path'[d] = path[d] /\ state'[d] = state[d]
  OBVIOUS
<1>3. ASSUME NEW d \in Sections, Existing(d), NEW i \in 1..Len(path[d]),
             path[d][i] \in Sections
      PROVE  /\ path[d][i] # c
             /\ state'[path[d][i]] \in {"RUNNING", "REPARENTED"}
             /\ path'[path[d][i]] = path[path[d][i]]
  <2>1. state[path[d][i]] \in {"RUNNING", "REPARENTED"}
    BY <1>3 DEF PathInv, ChainOK
  <2> QED BY <1>2, <1>3, <2>1
<1>4. ASSUME NEW d \in Sections, d # c, Existing(d)'
      PROVE  ChainOK(d, path', state', Reparented')
  <2>1. Existing(d) /\ path'[d] = path[d]
    BY <1>2, <1>4 DEF Existing
  <2>2. ChainOK(d, path, state, Reparented)
    BY <2>1 DEF PathInv
  <2>3. \A i \in 1..Len(path[d]) : path[d][i] \in Sections =>
           /\ state'[path[d][i]] \in {"RUNNING", "REPARENTED"}
           /\ path'[path[d][i]] = path[path[d][i]]
    BY <1>3, <2>1
  <2> QED BY <1>1, <2>1, <2>2, <2>3, ChainKept, SMTT(30)
<1>5. CASE g = Root
  <2>1. path'[c] = <<Root>>
    BY <1>5
  <2>2. Reparented' \in SUBSET Sections
    BY DEF Reparented
  <2>4. ChainOK(c, path', state', Reparented')
    BY <2>1, <2>2, SingletonChain
  <2>5. path'[c] \in Seq(Gates)
    BY <1>5, <2>1, SMT
  <2> QED BY <1>4, <2>4, <2>5 DEF PathInv
<1>6. CASE g # Root
  <2> DEFINE s == path[g]
             r == <<g>> \o s
  <2>1. g \in Sections /\ Existing(g) /\ g # c /\ s \in Seq(Gates)
    BY <1>6 DEF Gates, Existing, TypeOK
  <2>2. /\ r \in Seq(Gates) /\ Len(r) = Len(s) + 1 /\ r[1] = g
        /\ \A i \in 1..Len(s) : r[i + 1] = s[i]
        /\ \A i \in 1..Len(r) : i = 1 \/ (i - 1 \in 1..Len(s) /\ r[i] = s[i - 1])
    BY <2>1, ConsElements, SMTT(30)
  <2>3. path'[c] = r
    BY <1>6
  <2> HIDE DEF r
  <2>4. \E i \in 1..Len(r) : IsFirst(r, Reparented, i)
    <3>1. CASE g \notin Reparented
      BY <2>1, <2>2, <3>1, SMT DEF IsFirst
    <3>2. CASE g \in Reparented
      <4>1. PICK j \in 1..Len(s) : IsFirst(s, Reparented, j)
        BY <2>1 DEF PathInv, ChainOK
      <4>2. j + 1 \in 1..Len(r) /\ r[j + 1] \notin Reparented
        BY <2>1, <2>2, <4>1, SMTT(30) DEF IsFirst
      <4>3. ASSUME NEW i \in 1..((j + 1) - 1) PROVE r[i] \in Reparented
        <5>1. CASE i = 1
          BY <2>2, <3>2, <5>1
        <5>2. CASE i # 1
          <6>1. i - 1 \in 1..(j - 1) /\ r[i] = s[i - 1]
            BY <2>1, <2>2, <4>1, <5>2, SMT
          <6> QED BY <4>1, <6>1 DEF IsFirst
        <5> QED BY <5>1, <5>2
      <4> QED BY <4>2, <4>3 DEF IsFirst
    <3> QED BY <3>1, <3>2
  <2>5. ASSUME NEW i \in 1..Len(r)
        PROVE  /\ r[i] # c
               /\ r[i] \in Sections =>
                     /\ state'[r[i]] \in {"RUNNING", "REPARENTED"}
                     /\ \A k \in 1..Len(path'[r[i]]) :
                           /\ i + k \in 1..Len(r)
                           /\ r[i + k] = path'[r[i]][k]
    <3>1. CASE i = 1
      <4>1. r[i] = g /\ path'[g] = s /\ state'[g] = state[g]
        BY <1>2, <2>1, <2>2, <3>1
      <4>2. \A k \in 1..Len(s) : i + k \in 1..Len(r) /\ r[i + k] = s[k]
        BY <2>1, <2>2, <3>1, SMT
      <4> QED BY <2>1, <4>1, <4>2
    <3>2. CASE i # 1
      <4> DEFINE j == i - 1
                 h == s[j]
      <4>1. j \in 1..Len(s) /\ r[i] = h /\ i = j + 1
        BY <2>1, <2>2, <3>2, SMT
      <4>2. CASE h \in Sections
        <5>1. h # c /\ state'[h] \in {"RUNNING", "REPARENTED"} /\ path'[h] = path[h]
          BY <1>3, <2>1, <4>1, <4>2
        <5>2. \A k \in 1..Len(path[h]) : j + k \in 1..Len(s) /\ s[j + k] = path[h][k]
          BY <2>1, <4>1, <4>2, ZenonT(60) DEF PathInv, ChainOK
        <5>3. ASSUME NEW k \in 1..Len(path[h])
              PROVE  i + k \in 1..Len(r) /\ r[i + k] = path[h][k]
          <6>1. i + k = (j + k) + 1 /\ j + k \in 1..Len(s)
            BY <2>1, <4>1, <5>2, SMT
          <6>2. s[j + k] = path[h][k]
            BY <5>2
          <6> HIDE DEF h, j
          <6>3. r[(j + k) + 1] = s[j + k]
            BY <2>2, <6>1
          <6>4. Len(s) \in Nat /\ (j + k) + 1 \in 1..Len(r)
            BY <2>1, <2>2, <6>1, SMTT(30)
          <6> QED BY <6>1, <6>2, <6>3, <6>4
        <5> HIDE DEF h, j
        <5> QED BY <4>1, <5>1, <5>3, ZenonT(60)
      <4>3. CASE h \notin Sections
        BY <4>1, <4>3
      <4> QED BY <4>2, <4>3
    <3> QED BY <3>1, <3>2
  <2>6. ChainOK(c, path', state', Reparented')
    BY <1>1, <2>3, <2>4, <2>5, ChainIntro, SMTT(30)
  <2> QED BY <1>4, <2>2, <2>3, <2>6 DEF PathInv
<1> QED BY <1>5, <1>6

LEMMA StartInv ==
    ASSUME Inv, NEW o \in Owners, NEW c \in Sections, StartCriticalSection(o, c)
    PROVE  Inv'
<1> USE DEF Inv
<1> DEFINE g == lock[o]
<1>1. /\ g \in Gates /\ state[c] = "UNUSED"
      /\ g \in Sections => state[g] \in {"RUNNING", "REPARENTED"}
      /\ path' = [path EXCEPT ![c] = IF g = Root THEN <<Root>> ELSE <<g>> \o path[g]]
      /\ state' = [state EXCEPT ![c] = "NOT_STARTED"]
      /\ lockCount' = lockCount /\ waiters' = waiters
      /\ waitingChildren' = waitingChildren /\ broken' = broken /\ lock' = lock
      /\ pc' = pc /\ entering' = entering
  BY DEF StartCriticalSection, TypeOK, LockInv
<1>2. /\ path'[c] = (IF g = Root THEN <<Root>> ELSE <<g>> \o path[g])
      /\ state'[c] = "NOT_STARTED"
      /\ \A d \in Sections : d # c => path'[d] = path[d] /\ state'[d] = state[d]
  BY <1>1 DEF TypeOK
<1>3. Reparented' = Reparented
  BY <1>1, <1>2 DEF Reparented
<1>4. PathInv' /\ path'[c] \in Seq(Gates)
  <2> HIDE DEF g
  <2> QED BY <1>1, <1>2, <1>3, StartPath
<1>5. TypeOK'
  <2>1. path' \in [Sections -> Seq(Gates)]
    <3>1. path' = [path EXCEPT ![c] = path'[c]]
      BY <1>1 DEF TypeOK
    <3> QED BY <1>4, <3>1 DEF TypeOK
  <2>2. state' \in [Sections -> SectionStates]
    BY <1>1 DEF TypeOK, SectionStates
  <2> QED BY <1>1, <2>1, <2>2 DEF TypeOK
<1>6. \A x \in Gates : Target(x)' = Target(x)
  <2>1. \A x \in Reparented : x \in Sections /\ x # c
    BY <1>1 DEF Reparented
  <2> QED BY <1>2, <1>3, <2>1 DEF Target, parentAsInputGate
<1>7. \A d \in Sections : d # c => parentAsInputGate(d)' = parentAsInputGate(d)
  BY <1>2, <1>3 DEF parentAsInputGate
<1>8. LockInv'
  <2>1. lock[c] = NoGate /\ \A q \in Owners : lock[q] # c
    BY <1>1 DEF LockInv
  <2>2. ASSUME NEW d \in Sections, lock[d] # NoGate
        PROVE  /\ state'[d] \in {"RUNNING", "REPARENTED"}
               /\ state'[d] = "RUNNING" => Target(lock[d])' = parentAsInputGate(d)'
    <3>1. d # c /\ state'[d] = state[d] /\ lock[d] \in Gates
      BY <1>2, <2>1, <2>2 DEF TypeOK, Owners
    <3>2. Target(lock[d])' = Target(lock[d])
      BY <1>1, <1>6, <3>1
    <3> QED BY <1>7, <2>2, <3>1, <3>2 DEF LockInv
  <2> QED BY <1>1, <1>2, <2>1, <2>2, ZenonT(60) DEF LockInv
<1>9. \A t \in Tasks : entering[t] # c
  BY <1>1 DEF TaskInv
<1>10. TaskInv(pc)'
  <2>1. ASSUME NEW t \in Tasks, pc[t] = "childGranted"
        PROVE  Target(lock[t])' = parentAsInputGate(entering[t])'
    <3>1. lock[t] \in Gates /\ entering[t] \in Sections
      BY <2>1, ZenonT(60) DEF TaskInv, TypeOK, Owners
    <3>2. Target(lock[t])' = Target(lock[t])
      BY <1>1, <1>6, <3>1
    <3>3. parentAsInputGate(entering[t])' = parentAsInputGate(entering[t])
      BY <1>1, <1>7, <1>9, <3>1
    <3> QED BY <2>1, <3>2, <3>3 DEF TaskInv
  <2>2. \A t \in Tasks : entering[t] \in Sections => state'[entering[t]] = state[entering[t]]
    BY <1>2, <1>9
  <2> QED BY <1>1, <2>1, <2>2 DEF TaskInv
<1>11. QueueInv(waiters, waitingChildren, pc)'
  <2>1. ASSUME NEW h \in Gates, NEW i \in 1..Len(waitingChildren[h])
        PROVE  parentAsInputGate(entering[waitingChildren[h][i]])' = h
    <3> DEFINE u == waitingChildren[h][i]
    <3>1. u \in Tasks /\ pc[u] = "childWaiting" /\ parentAsInputGate(entering[u]) = h
      BY SMT DEF QueueInv, TypeOK
    <3>2. entering[u] \in Sections /\ entering[u] # c
      BY <1>9, <3>1 DEF TaskInv
    <3> QED BY <1>1, <1>7, <3>1, <3>2
  <2> QED BY <1>1, <2>1, ZenonT(60) DEF QueueInv
<1>12. WakeupInv(waiters, waitingChildren)'
  BY <1>1 DEF WakeupInv
<1>13. BlockInv(pc)'
  <2>1. ASSUME NEW q \in Owners, Blocker(q, pc)'
        PROVE  Blocker(q, pc) /\ Target(lock[q])' = Target(lock[q])
    <3>1. lock[q] # NoGate /\ lock[q] \in Gates
      BY <1>1, <2>1 DEF Blocker, TypeOK
    <3>2. q \in Sections => state'[q] = state[q]
      BY <1>1, <1>2, <3>1 DEF LockInv
    <3> QED BY <1>1, <1>6, <2>1, <3>1, <3>2 DEF Blocker
  <2> QED BY <2>1 DEF BlockInv
<1>14. LocksAccounted'
  <2>1. \A h \in Gates : HoldersOf(h)' = HoldersOf(h)
    BY <1>1, <1>6 DEF HoldersOf, TypeOK
  <2> QED BY <1>1, <2>1 DEF LocksAccounted
<1> QED BY <1>4, <1>5, <1>8, <1>10, <1>11, <1>12, <1>13, <1>14

(* A section that is not running holds no locks of its own.                *)
LEMMA Unheld ==
    ASSUME Inv, NEW c \in Sections, state[c] # "RUNNING"
    PROVE  /\ \A o \in Owners : lock[o] # NoGate =>
                 lock[o] \in Gates /\ Target(lock[o]) \in Gates /\ Target(lock[o]) # c
           /\ HoldersOf(c) = {} /\ lockCount[c] = 0
<1>1. \A o \in Owners : lock[o] # NoGate =>
         lock[o] \in Gates /\ Target(lock[o]) \in Gates /\ Target(lock[o]) # c
  <2> SUFFICES ASSUME NEW o \in Owners, lock[o] # NoGate
               PROVE  lock[o] \in Gates /\ Target(lock[o]) \in Gates /\ Target(lock[o]) # c
    OBVIOUS
  <2>1. /\ lock[o] \in Gates
        /\ lock[o] \in Sections => state[lock[o]] \in {"RUNNING", "REPARENTED"}
    BY DEF Inv, TypeOK, LockInv
  <2> QED BY <2>1, TargetExists, SMT DEF Inv
<1>2. HoldersOf(c) = {}
  BY <1>1 DEF HoldersOf
<1>3. c \in Gates
  BY DEF Gates
<1> QED BY <1>1, <1>2, <1>3, FS_EmptySet DEF Inv, LocksAccounted

LEMMA FirstWaitInv ==
    ASSUME Inv, NEW t \in Tasks, NEW c \in Sections, FirstWait(t, c)
    PROVE  Inv'
<1> USE DEF Inv
<1> DEFINE target == parentAsInputGate(c)
<1>1. /\ pc[t] = "idle" /\ state[c] = "NOT_STARTED" /\ path' = path /\ waiters' = waiters
      /\ lock[t] = NoGate /\ lock[c] = NoGate /\ entering[t] \notin Sections
      /\ entering[t] = NoSection /\ t \in Owners /\ c \in Owners /\ t # c /\ c \in Gates
      /\ c # NoGate /\ NoSection \notin Sections
  <2>1. pc[t] = "idle" /\ state[c] = "NOT_STARTED" /\ path' = path /\ waiters' = waiters
    BY DEF FirstWait
  <2>2. /\ t \in Owners /\ c \in Owners /\ t # c /\ c \in Gates
        /\ c # NoGate /\ NoSection \notin Sections
    BY InputGateAssumption DEF Owners, Gates
  <2>3. lock[t] = NoGate /\ entering[t] \notin Sections
    BY <2>1 DEF TaskInv
  <2>4. lock[c] = NoGate
    BY <2>1 DEF LockInv
  <2>5. entering[t] = NoSection
    BY <2>3 DEF TypeOK
  <2> QED BY <2>1, <2>2, <2>3, <2>4, <2>5
<1>2. /\ target \in Gates \ Reparented /\ target # c /\ target # NoGate
      /\ target \in Sections => state[target] = "RUNNING"
      /\ Target(target) = target /\ Target(c) = c
  BY <1>1, ParentExists, InputGateAssumption
     DEF Existing, Target, Gates, Reparented
<1>3. \E st \in {"INITIAL_WAIT", "RUNNING"} : state' = [state EXCEPT ![c] = st]
  BY DEF FirstWait
<1>4. /\ \A d \in Sections : d # c => state'[d] = state[d]
      /\ state'[c] \in {"INITIAL_WAIT", "RUNNING"}
      /\ state' \in [Sections -> SectionStates]
  BY <1>3 DEF TypeOK, SectionStates
<1>5. Reparented' = Reparented
  BY <1>1, <1>4 DEF Reparented
<1>6. /\ \A x : Target(x)' = Target(x)
      /\ \A x : parentAsInputGate(x)' = parentAsInputGate(x)
  BY <1>1, <1>5, TargetUnchanged
<1>7. PathInv'
  <2>1. \A d \in Sections : state'[d] # state[d] =>
           /\ state[d] \in {"NOT_STARTED", "INITIAL_WAIT"}
           /\ state'[d] \in {"INITIAL_WAIT", "RUNNING"}
    BY <1>1, <1>4
  <2> QED BY <1>1, <1>5, <2>1, PathStep
<1>8. /\ \A q \in Owners : lock[q] # c
      /\ \A q \in Owners : lock[q] \in Sections => state'[lock[q]] = state[lock[q]]
      /\ \A u \in Tasks : entering[u] # c
      /\ \A u \in Tasks : entering[u] \in Sections =>
                             state'[entering[u]] = state[entering[u]]
  BY <1>1, <1>4, SMT DEF LockInv, TaskInv
<1>9. /\ HoldersOf(c) = {} /\ lockCount[c] = 0
      /\ \A q \in Owners : lock[q] # NoGate => Target(lock[q]) # c
  BY <1>1, Unheld
<1>10. CASE /\ broken' = [broken EXCEPT ![c] = TRUE]
            /\ UNCHANGED <<lockCount, waitingChildren, lock, pc, entering>>
  <2>1. TypeOK'
    BY <1>1, <1>4, <1>10 DEF TypeOK
  <2>2. LockInv'
    BY <1>1, <1>4, <1>6, <1>8, <1>10 DEF LockInv
  <2>3. TaskInv(pc)'
    BY <1>6, <1>8, <1>10 DEF TaskInv
  <2>4. QueueInv(waiters, waitingChildren, pc)'
    BY <1>1, <1>6, <1>10, ZenonT(60) DEF QueueInv
  <2>5. WakeupInv(waiters, waitingChildren)'
    BY <1>1, <1>10 DEF WakeupInv
  <2>6. BlockInv(pc)'
    BY <1>1, <1>4, <1>6, <1>10, ZenonT(60) DEF BlockInv, Blocker
  <2>7. LocksAccounted'
    BY <1>6, <1>10 DEF LocksAccounted, HoldersOf
  <2> QED BY <1>7, <2>1, <2>2, <2>3, <2>4, <2>5, <2>6, <2>7
<1>11. CASE /\ lockCount[target] = 0
            /\ state' = [state EXCEPT ![c] = "RUNNING"]
            /\ lockCount' = [lockCount EXCEPT ![target] = 1, ![c] = 1]
            /\ lock' = [lock EXCEPT ![c] = target, ![t] = c]
            /\ pc' = [pc EXCEPT ![t] = "holding"]
            /\ UNCHANGED <<waitingChildren, broken, entering>>
  <2>1. /\ lock'[c] = target /\ lock'[t] = c
        /\ \A q \in Owners : q # c /\ q # t => lock'[q] = lock[q]
        /\ pc'[t] = "holding" /\ \A u \in Tasks : u # t => pc'[u] = pc[u]
        /\ state'[c] = "RUNNING"
        /\ lockCount'[target] = 1 /\ lockCount'[c] = 1
        /\ \A h \in Gates : h # target /\ h # c => lockCount'[h] = lockCount[h]
    BY <1>1, <1>2, <1>11 DEF TypeOK
  <2>2. TypeOK'
    BY <1>1, <1>2, <1>4, <1>11, ZenonT(60) DEF TypeOK, TaskStates
  <2>3. LockInv'
    <3>1. ASSUME NEW q \in Owners, lock'[q] \in Sections
          PROVE  state'[lock'[q]] \in {"RUNNING", "REPARENTED"}
      <4>1. CASE q = c
        BY <1>2, <1>4, <2>1, <3>1, <4>1
      <4>2. CASE q = t
        BY <2>1, <4>2
      <4>3. CASE q # c /\ q # t
        BY <1>8, <2>1, <3>1, <4>3, SMTT(30) DEF LockInv
      <4> QED BY <4>1, <4>2, <4>3
    <3>2. ASSUME NEW d \in Sections, lock'[d] # NoGate
          PROVE  /\ state'[d] \in {"RUNNING", "REPARENTED"}
                 /\ state'[d] = "RUNNING" => Target(lock[d])' = parentAsInputGate(d)'
      <4>1. CASE d = c
        <5>1. Target(lock[c])' = target
          BY <1>2, <1>6, <2>1
        <5> QED BY <1>6, <2>1, <4>1, <5>1
      <4>2. CASE d # c
        <5>1. lock'[d] = lock[d] /\ state'[d] = state[d]
          BY <1>4, <2>1, <4>2, InputGateAssumption DEF Owners
        <5>2. Target(lock[d])' = Target(lock[d])
          BY <1>6, <5>1
        <5> QED BY <1>6, <3>2, <5>1, <5>2 DEF LockInv
      <4> QED BY <4>1, <4>2
    <3> QED BY <3>1, <3>2 DEF LockInv
  <2>4. TaskInv(pc)'
    <3>1. \A u \in Tasks : u # t => lock'[u] = lock[u]
      BY <2>1, InputGateAssumption DEF Owners
    <3>2. entering' = entering
      BY <1>11
    <3> QED BY <1>1, <1>6, <1>8, <2>1, <3>1, <3>2, SMTT(30) DEF TaskInv
  <2>5. QueueInv(waiters, waitingChildren, pc)'
    BY <1>1, <1>6, <1>11, <2>1, SMTT(30) DEF QueueInv, TypeOK
  <2>6. WakeupInv(waiters, waitingChildren)'
    BY <1>1, <1>11, <2>1, SMT DEF WakeupInv
  <2>7. BlockInv(pc)'
    <3>1. \A q \in Owners : lock[q] # NoGate => Target(lock[q]) # target
      BY <1>2, <1>11, CountPositive, SMTT(30)
    <3>2. ASSUME NEW q \in Owners, Blocker(q, pc)', q # c
          PROVE  Blocker(q, pc) /\ Target(lock[q])' = Target(lock[q])
                 /\ Target(lock[q]) # target
      <4>1. q # t /\ lock'[q] = lock[q]
        BY <2>1, <3>2 DEF Blocker
      <4>2. Target(lock[q])' = Target(lock[q])
        BY <1>6, <4>1
      <4>3. Blocker(q, pc)
        BY <1>4, <2>1, <3>2, <4>1 DEF Blocker
      <4> QED BY <3>1, <4>1, <4>2, <4>3 DEF Blocker
    <3>3. Target(lock[c])' = target
      BY <1>2, <1>6, <2>1
    <3> QED BY <3>2, <3>3 DEF BlockInv
  <2>8. LocksAccounted'
    <3> SUFFICES ASSUME NEW h \in Gates
                 PROVE  lockCount'[h] = Cardinality(HoldersOf(h)')
      BY DEF LocksAccounted
    <3>0. IsFiniteSet(HoldersOf(h)) /\ lockCount[h] = Cardinality(HoldersOf(h))
      BY HoldersFinite DEF LocksAccounted
    <3>1. CASE h = c
      <4>1. HoldersOf(c)' = {t}
        BY <1>1, <1>2, <1>6, <1>9, <2>1, SMT DEF HoldersOf
      <4> QED BY <2>1, <3>1, <4>1, FS_Singleton, ZenonT(60)
    <3>2. CASE h = target
      <4>1. HoldersOf(h)' = HoldersOf(h) \cup {c}
        BY <1>1, <1>2, <1>6, <2>1, <3>2, SMTT(30) DEF HoldersOf
      <4>2. HoldersOf(h) = {}
        BY <1>11, <3>0, <3>2, FS_EmptySet
      <4>3. HoldersOf(h)' = {c}
        BY <4>1, <4>2
      <4>4. lockCount'[h] = 1
        BY <2>1, <3>2
      <4>5. Cardinality({c}) = 1
        BY FS_Singleton
      <4> QED BY <4>3, <4>4, <4>5
    <3>3. CASE h # c /\ h # target
      <4>1. HoldersOf(h)' = HoldersOf(h)
        BY <1>1, <1>2, <1>6, <2>1, <3>3, SMTT(30) DEF HoldersOf
      <4> QED BY <2>1, <3>0, <3>3, <4>1
    <3> QED BY <3>1, <3>2, <3>3
  <2> QED BY <1>7, <2>2, <2>3, <2>4, <2>5, <2>6, <2>7, <2>8
<1>12. CASE /\ lockCount[target] > 0
            /\ state' = [state EXCEPT ![c] = "INITIAL_WAIT"]
            /\ waitingChildren' = [waitingChildren EXCEPT ![target] = Append(@, t)]
            /\ pc' = [pc EXCEPT ![t] = "childWaiting"]
            /\ entering' = [entering EXCEPT ![t] = c]
            /\ UNCHANGED <<lockCount, broken, lock>>
  <2>1. /\ pc'[t] = "childWaiting" /\ \A u \in Tasks : u # t => pc'[u] = pc[u]
        /\ entering'[t] = c /\ \A u \in Tasks : u # t => entering'[u] = entering[u]
        /\ state'[c] = "INITIAL_WAIT" /\ lock' = lock /\ lockCount' = lockCount
    BY <1>12 DEF TypeOK
  <2>2. /\ waitingChildren' \in [Gates -> Seq(Tasks)]
        /\ \A h \in Gates : \A i \in 1..Len(waitingChildren'[h]) :
             \/ i \in 1..Len(waitingChildren[h]) /\ waitingChildren'[h][i] = waitingChildren[h][i]
             \/ /\ h = target /\ i = Len(waitingChildren[target]) + 1
                /\ waitingChildren'[h][i] = t
    BY <1>2, <1>12, AppendElements, SMT DEF TypeOK
  <2>3. \A h \in Gates : h # target => waitingChildren'[h] = waitingChildren[h]
    BY <1>12 DEF TypeOK
  <2>4. TypeOK'
    BY <1>1, <1>4, <1>12, <2>2 DEF TypeOK, TaskStates
  <2>5. LockInv'
    BY <1>1, <1>4, <1>6, <1>8, <2>1 DEF LockInv
  <2>6. TaskInv(pc)'
    BY <1>1, <1>6, <1>8, <2>1, SMTT(30) DEF TaskInv
  <2>7. QueueInv(waiters, waitingChildren, pc)'
    <3>1. \A h \in Gates : \A i \in 1..Len(waiters[h]) :
             waiters[h][i] # t /\ waiters[h][i] \in Tasks
      BY <1>1, SMT DEF QueueInv, TypeOK
    <3>2. \A h \in Gates : \A i \in 1..Len(waitingChildren[h]) :
             waitingChildren[h][i] # t /\ waitingChildren[h][i] \in Tasks
      BY <1>1, SMTT(30) DEF QueueInv, TypeOK
    <3>3. \A h \in Gates : \A i \in 1..Len(waiters[h]) : pc'[waiters[h][i]] = "waiting"
      BY <2>1, <3>1, SMT DEF QueueInv
    <3>4. ASSUME NEW h \in Gates, NEW i \in 1..Len(waitingChildren'[h])
          PROVE  /\ pc'[waitingChildren'[h][i]] = "childWaiting"
                 /\ parentAsInputGate(entering[waitingChildren[h][i]])' = h
      <4>1. CASE /\ i \in 1..Len(waitingChildren[h])
                 /\ waitingChildren'[h][i] = waitingChildren[h][i]
        <5> DEFINE u == waitingChildren[h][i]
        <5>1. u \in Tasks /\ pc'[u] = pc[u] /\ entering'[u] = entering[u]
          BY <2>1, <3>2, <4>1
        <5>2. pc[u] = "childWaiting" /\ parentAsInputGate(entering[u]) = h
          BY <4>1 DEF QueueInv
        <5> QED BY <1>6, <4>1, <5>1, <5>2
      <4>2. CASE h = target /\ waitingChildren'[h][i] = t
        BY <1>6, <2>1, <4>2
      <4> QED BY <2>2, <4>1, <4>2
    <3>5. Distinct(waiters) /\ Distinct(waitingChildren')
      <4>1. Joined(waitingChildren, waitingChildren', target, t)
        BY <2>2, <3>2 DEF Joined
      <4> QED BY <1>2, <4>1, DistinctJoined DEF QueueInv
    <3> QED BY <1>1, <3>3, <3>4, <3>5, ZenonT(60) DEF QueueInv
  <2>8. WakeupInv(waiters, waitingChildren)'
    BY <1>1, <1>12, <2>1, <2>3, SMTT(30) DEF WakeupInv
  <2>9. BlockInv(pc)'
    BY <1>1, <1>4, <1>6, <2>1, SMTT(30) DEF BlockInv, Blocker
  <2>10. LocksAccounted'
    BY <1>6, <2>1 DEF LocksAccounted, HoldersOf
  <2> QED BY <1>7, <2>4, <2>5, <2>6, <2>7, <2>8, <2>9, <2>10
<1> QED BY <1>10, <1>11, <1>12 DEF FirstWait

LEMMA ResumeGrantedInv ==
    ASSUME Inv, NEW t \in Tasks, ResumeGranted(t)
    PROVE  Inv'
<1> USE DEF Inv
<1>a. pc[t] = "childGranted"
  BY DEF ResumeGranted
<1>b. PICK c \in Sections : c = entering[t]
  BY <1>a DEF TaskInv
<1>c. state[c] = "INITIAL_WAIT" /\ lock[t] # NoGate
      /\ Target(lock[t]) = parentAsInputGate(c)
  BY <1>a, <1>b DEF TaskInv
<1>d. PICK g \in Gates : g = parentAsInputGate(c)
  BY <1>c, ParentExists DEF Existing
<1>1. /\ pc[t] = "childGranted" /\ path' = path /\ waiters' = waiters
      /\ waitingChildren' = waitingChildren /\ broken' = broken
      /\ state' = [state EXCEPT ![c] = "RUNNING"]
      /\ lock' = [lock EXCEPT ![c] = lock[t], ![t] = c]
      /\ lockCount' = [lockCount EXCEPT ![c] = 1]
      /\ pc' = [pc EXCEPT ![t] = "holding"]
      /\ entering' = [entering EXCEPT ![t] = NoSection]
  BY <1>b DEF ResumeGranted
<1>2. c \in Sections /\ state[c] = "INITIAL_WAIT" /\ lock[t] # NoGate
      /\ g = parentAsInputGate(c) /\ Target(lock[t]) = g
  BY <1>c, <1>d
<1>3. lock[c] = NoGate
  BY <1>2 DEF LockInv
<1>4. /\ t \in Owners /\ c \in Owners /\ t # c /\ c \in Gates /\ c # NoGate
      /\ NoSection \notin Sections
  BY <1>2, InputGateAssumption DEF Owners, Gates
<1>5. /\ g \in Gates \ Reparented /\ g # c /\ g # NoGate
      /\ Target(c) = c
  BY <1>2, ParentExists, InputGateAssumption DEF Existing, Target, Gates, Reparented
<1>6. /\ \A d \in Sections : d # c => state'[d] = state[d]
      /\ state'[c] = "RUNNING"
      /\ state' \in [Sections -> SectionStates]
      /\ lock'[c] = lock[t] /\ lock'[t] = c
      /\ \A q \in Owners : q # c /\ q # t => lock'[q] = lock[q]
      /\ pc'[t] = "holding" /\ \A u \in Tasks : u # t => pc'[u] = pc[u]
      /\ entering'[t] = NoSection /\ \A u \in Tasks : u # t => entering'[u] = entering[u]
      /\ lockCount'[c] = 1 /\ \A h \in Gates : h # c => lockCount'[h] = lockCount[h]
  BY <1>1, <1>2, <1>4 DEF TypeOK, SectionStates
<1>7. Reparented' = Reparented
  BY <1>2, <1>6 DEF Reparented
<1>8. /\ \A x : Target(x)' = Target(x)
      /\ \A x : parentAsInputGate(x)' = parentAsInputGate(x)
  BY <1>1, <1>7, TargetUnchanged
<1>9. PathInv'
  <2>1. \A d \in Sections : state'[d] # state[d] =>
           /\ state[d] \in {"NOT_STARTED", "INITIAL_WAIT"}
           /\ state'[d] \in {"INITIAL_WAIT", "RUNNING"}
    BY <1>2, <1>6
  <2> QED BY <1>1, <1>7, <2>1, PathStep
<1>10. /\ HoldersOf(c) = {} /\ lockCount[c] = 0
       /\ \A q \in Owners : lock[q] # NoGate => Target(lock[q]) # c
       /\ \A q \in Owners : lock[q] # c
  <2>1. \A q \in Owners : lock[q] # c
    BY <1>2 DEF LockInv
  <2> QED BY <1>2, <2>1, Unheld
<1>11. \A q \in Owners : lock[q] \in Sections => state'[lock[q]] = state[lock[q]]
  BY <1>6, <1>10
<1>12. TypeOK'
  <2>1. lock[t] \in Gates \cup {NoGate}
    BY <1>4 DEF TypeOK
  <2> QED BY <1>1, <1>4, <1>6, <2>1 DEF TypeOK, TaskStates
<1>13. LockInv'
  <2>1. ASSUME NEW q \in Owners, lock'[q] \in Sections
        PROVE  state'[lock'[q]] \in {"RUNNING", "REPARENTED"}
    <3>1. CASE q = t
      BY <1>6, <3>1
    <3>2. CASE q # t
      <4>1. \E r \in Owners : lock'[q] = lock[r]
        BY <1>4, <1>6, <3>2
      <4> QED BY <1>11, <2>1, <4>1 DEF LockInv
    <3> QED BY <3>1, <3>2
  <2>2. ASSUME NEW d \in Sections, lock'[d] # NoGate
        PROVE  /\ state'[d] \in {"RUNNING", "REPARENTED"}
               /\ state'[d] = "RUNNING" => Target(lock[d])' = parentAsInputGate(d)'
    <3>1. CASE d = c
      <4>1. Target(lock[c])' = g
        BY <1>2, <1>6, <1>8
      <4> QED BY <1>2, <1>6, <1>8, <3>1, <4>1
    <3>2. CASE d # c
      <4>1. lock'[d] = lock[d] /\ state'[d] = state[d]
        BY <1>6, <3>2, InputGateAssumption DEF Owners
      <4>2. Target(lock[d])' = Target(lock[d])
        BY <1>8, <4>1
      <4> QED BY <1>8, <2>2, <4>1, <4>2 DEF LockInv
    <3> QED BY <3>1, <3>2
  <2> QED BY <2>1, <2>2 DEF LockInv
<1>14. TaskInv(pc)'
  <2>1. \A u \in Tasks : u # t => lock'[u] = lock[u]
    BY <1>2, <1>6, InputGateAssumption DEF Owners
  <2>2. \A u \in Tasks : u # t => entering[u] # c
    BY <1>2, <1>b DEF TaskInv
  <2>3. \A u \in Tasks : u # t /\ entering[u] \in Sections
                         => state'[entering[u]] = state[entering[u]]
    BY <1>6, <2>2
  <2>4. ASSUME NEW u \in Tasks
        PROVE  /\ lock'[u] # NoGate <=> pc'[u] \in {"holding", "childGranted"}
               /\ entering'[u] \in Sections <=>
                    pc'[u] \in {"childWaiting", "childGranted", "childRejected"}
               /\ entering'[u] \in Sections => state'[entering'[u]] = "INITIAL_WAIT"
    <3>1. CASE u = t
      BY <1>4, <1>6, <3>1
    <3>2. CASE u # t
      BY <1>6, <2>1, <2>3, <3>2, SMTT(30) DEF TaskInv
    <3> QED BY <3>1, <3>2
  <2>5. ASSUME NEW u \in Tasks, pc'[u] = "childGranted"
        PROVE  Target(lock[u])' = parentAsInputGate(entering[u])'
    <3>1. u # t /\ pc[u] = "childGranted" /\ lock'[u] = lock[u] /\ entering'[u] = entering[u]
      BY <1>6, <2>1, <2>5
    <3> QED BY <1>8, <3>1 DEF TaskInv
  <2>6. ASSUME NEW u \in Tasks, NEW v \in Tasks, entering'[u] = entering'[v],
               entering'[u] \in Sections
        PROVE  u = v
    BY <1>4, <1>6, <2>6, SMTT(30) DEF TaskInv
  <2> QED BY <2>4, <2>5, <2>6 DEF TaskInv
<1>15. QueueInv(waiters, waitingChildren, pc)'
  <2>1. \A h \in Gates : \A i \in 1..Len(waiters[h]) :
           waiters[h][i] # t /\ waiters[h][i] \in Tasks
    BY <1>a, SMTT(30) DEF QueueInv, TypeOK
  <2>2. \A h \in Gates : \A i \in 1..Len(waitingChildren[h]) :
           waitingChildren[h][i] # t /\ waitingChildren[h][i] \in Tasks
    BY <1>a, SMT DEF QueueInv, TypeOK
  <2>3. waiters' = waiters /\ waitingChildren' = waitingChildren
    BY <1>1
  <2> QED BY <1>6, <1>8, <2>1, <2>2, <2>3, SMTT(30) DEF QueueInv
<1>16. WakeupInv(waiters, waitingChildren)'
  <2>1. waiters' = waiters /\ waitingChildren' = waitingChildren
    BY <1>1
  <2> QED BY <1>6, <2>1, SMTT(30) DEF WakeupInv
<1>17. BlockInv(pc)'
  <2> DEFINE old(q) == IF q = c THEN t ELSE q
  <2>1. ASSUME NEW q \in Owners, Blocker(q, pc)'
        PROVE  /\ q # t /\ old(q) \in Owners
               /\ Blocker(old(q), pc) /\ Target(lock[q])' = Target(lock[old(q)])
    <3>1. q # t
      BY <1>6, <2>1 DEF Blocker
    <3>2. CASE q = c
      <4>1. Target(lock[q])' = Target(lock[t])
        BY <1>6, <1>8, <3>2
      <4>2. Blocker(t, pc)
        BY <1>1, <1>2, InputGateAssumption DEF Blocker
      <4> QED BY <1>4, <3>1, <3>2, <4>1, <4>2
    <3>3. CASE q # c
      <4>1. lock'[q] = lock[q]
        BY <1>6, <3>1, <3>3
      <4>2. Target(lock[q])' = Target(lock[q])
        BY <1>8, <4>1
      <4>3. Blocker(q, pc)
        BY <1>6, <2>1, <3>1, <3>3, <4>1 DEF Blocker
      <4> QED BY <3>1, <3>3, <4>2, <4>3
    <3> QED BY <3>2, <3>3
  <2>2. ASSUME NEW o1 \in Owners, NEW o2 \in Owners, Blocker(o1, pc)', Blocker(o2, pc)',
               Target(lock[o1])' = Target(lock[o2])'
        PROVE  o1 = o2
    <3>1. old(o1) = old(o2)
      <4> HIDE DEF old
      <4> QED BY <2>1, <2>2 DEF BlockInv
    <3> QED BY <2>1, <2>2, <3>1
  <2> QED BY <2>2 DEF BlockInv
<1>18. LocksAccounted'
  <2> SUFFICES ASSUME NEW h \in Gates
               PROVE  lockCount'[h] = Cardinality(HoldersOf(h)')
    BY DEF LocksAccounted
  <2>0. IsFiniteSet(HoldersOf(h)) /\ lockCount[h] = Cardinality(HoldersOf(h))
    BY HoldersFinite DEF LocksAccounted
  <2>1. CASE h = c
    <3>1. HoldersOf(c)' = {t}
      BY <1>2, <1>4, <1>5, <1>6, <1>8, <1>10, SMTT(30) DEF HoldersOf
    <3>2. HoldersOf(h)' = HoldersOf(c)'
      BY <2>1
    <3>3. lockCount'[h] = 1
      BY <1>6, <2>1
    <3>4. Cardinality({t}) = 1
      BY FS_Singleton
    <3> QED BY <3>1, <3>2, <3>3, <3>4
  <2>2. CASE h = g
    <3>1. HoldersOf(g)' = (HoldersOf(g) \ {t}) \cup {c}
      BY <1>2, <1>3, <1>4, <1>5, <1>6, <1>8, SMTT(30) DEF HoldersOf
    <3>2. t \in HoldersOf(g) /\ c \notin HoldersOf(g)
      BY <1>2, <1>3, <1>4 DEF HoldersOf
    <3>3. Cardinality(HoldersOf(g)') = Cardinality(HoldersOf(g))
      BY <2>0, <2>2, <3>1, <3>2, SwapCardinality, SMTT(30)
    <3>4. HoldersOf(h)' = HoldersOf(g)'
      BY <2>2
    <3> QED BY <1>5, <1>6, <2>0, <2>2, <3>3, <3>4
  <2>3. CASE h # c /\ h # g
    <3>1. HoldersOf(h)' = HoldersOf(h)
      BY <1>2, <1>3, <1>4, <1>5, <1>6, <1>8, <2>3, SMTT(30) DEF HoldersOf
    <3> QED BY <1>6, <2>0, <2>3, <3>1
  <2> QED BY <2>1, <2>2, <2>3
<1> QED BY <1>9, <1>12, <1>13, <1>14, <1>15, <1>16, <1>17, <1>18

LEMMA ResumeRejectedInv ==
    ASSUME Inv, NEW t \in Tasks, ResumeRejected(t)
    PROVE  Inv'
<1> USE DEF Inv
<1> DEFINE c == entering[t]
<1>a. pc[t] = "childRejected"
  BY DEF ResumeRejected
<1>1. /\ pc[t] = "childRejected" /\ path' = path /\ waiters' = waiters
      /\ waitingChildren' = waitingChildren /\ lock' = lock /\ lockCount' = lockCount
      /\ state' = [state EXCEPT ![c] = "RUNNING"]
      /\ broken' = [broken EXCEPT ![c] = TRUE]
      /\ pc' = [pc EXCEPT ![t] = "idle"]
      /\ entering' = [entering EXCEPT ![t] = NoSection]
  BY DEF ResumeRejected
<1>2. c \in Sections /\ state[c] = "INITIAL_WAIT" /\ lock[t] = NoGate
  BY <1>1 DEF TaskInv
<1>3. lock[c] = NoGate
  BY <1>2 DEF LockInv
<1>4. NoSection \notin Sections
  BY InputGateAssumption
<1> HIDE DEF c
<1>6. /\ \A d \in Sections : d # c => state'[d] = state[d]
      /\ state'[c] = "RUNNING"
      /\ state' \in [Sections -> SectionStates]
      /\ pc'[t] = "idle" /\ \A u \in Tasks : u # t => pc'[u] = pc[u]
      /\ entering'[t] = NoSection /\ \A u \in Tasks : u # t => entering'[u] = entering[u]
  BY <1>1, <1>2 DEF TypeOK, SectionStates
<1>7. Reparented' = Reparented
  BY <1>2, <1>6 DEF Reparented
<1>8. /\ \A x : Target(x)' = Target(x)
      /\ \A x : parentAsInputGate(x)' = parentAsInputGate(x)
  BY <1>1, <1>7, TargetUnchanged
<1>9. PathInv'
  <2>1. \A d \in Sections : state'[d] # state[d] =>
           /\ state[d] \in {"NOT_STARTED", "INITIAL_WAIT"}
           /\ state'[d] \in {"INITIAL_WAIT", "RUNNING"}
    BY <1>2, <1>6
  <2> QED BY <1>1, <1>7, <2>1, PathStep
<1>10. TypeOK'
  BY <1>1, <1>6 DEF TypeOK, TaskStates
<1>11. LockInv'
  <2>1. \A q \in Owners : lock[q] \in Sections => state'[lock[q]] = state[lock[q]]
    BY <1>2, <1>6 DEF LockInv
  <2> QED BY <1>1, <1>3, <1>6, <1>8, <2>1 DEF LockInv
<1>12. TaskInv(pc)'
  <2>1. \A u \in Tasks : u # t => entering[u] # c
    BY <1>2 DEF TaskInv, c
  <2>2. lock' = lock
    BY <1>1
  <2> QED BY <1>2, <1>4, <1>6, <1>8, <2>1, <2>2, SMTT(30) DEF TaskInv
<1>13. QueueInv(waiters, waitingChildren, pc)'
  <2>1. \A h \in Gates : \A i \in 1..Len(waiters[h]) :
           waiters[h][i] # t /\ waiters[h][i] \in Tasks
    BY <1>a, SMT DEF QueueInv, TypeOK
  <2>2. \A h \in Gates : \A i \in 1..Len(waitingChildren[h]) :
           waitingChildren[h][i] # t /\ waitingChildren[h][i] \in Tasks
    BY <1>a, SMT DEF QueueInv, TypeOK
  <2>3. waiters' = waiters /\ waitingChildren' = waitingChildren
    BY <1>1
  <2> QED BY <1>6, <1>8, <2>1, <2>2, <2>3, SMTT(30) DEF QueueInv
<1>14. WakeupInv(waiters, waitingChildren)'
  BY <1>1 DEF WakeupInv
<1>15. BlockInv(pc)'
  <2>1. lock' = lock
    BY <1>1
  <2>2. \A q \in Owners : Blocker(q, pc)' => Blocker(q, pc)
    BY <1>3, <1>6, <2>1 DEF Blocker
  <2> QED BY <1>8, <2>1, <2>2 DEF BlockInv
<1>16. LocksAccounted'
  BY <1>1, <1>8 DEF LocksAccounted, HoldersOf
<1> QED BY <1>9, <1>10, <1>11, <1>12, <1>13, <1>14, <1>15, <1>16
=============================================================================
