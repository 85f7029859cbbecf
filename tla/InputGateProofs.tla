-------------------------- MODULE InputGateProofs ---------------------------
(***************************************************************************)
(* The invariant of InputGate is preserved when a critical section ends    *)
(* (its parent adopts it, it fails, or it is destroyed), and the theorems  *)
(* about InputGate that follow, for any number of tasks and sections.      *)
(***************************************************************************)
EXTENDS InputGateSections

(* Most leaves are first-order reasoning about sets and functions, which   *)
(* Zenon does best; a leaf that needs arithmetic names SMT.                *)
USE Zenon

(* When section c is reparented, the scopes nested in it move to its       *)
(* parent, and no other scope moves.                                       *)
LEMMA Adoption ==
    ASSUME TypeOK, PathInv, NEW c \in Sections, state[c] = "RUNNING",
           NEW d \in Sections, Existing(d)
    PROVE  LET p == IF parentAsInputGate(d) = c THEN parentAsInputGate(c)
                                                ELSE parentAsInputGate(d)
           IN /\ FirstOutside(path[d], Reparented \cup {c}) = p
              /\ \E i \in 1..Len(path[d]) :
                    IsFirst(path[d], Reparented \cup {c}, i)
<1> DEFINE R == Reparented \cup {c}
<1>1. /\ ChainOK(c, path, state, Reparented) /\ ChainOK(d, path, state, Reparented)
      /\ path[c] \in Seq(Gates) /\ path[d] \in Seq(Gates)
      /\ Len(path[c]) \in Nat /\ Len(path[d]) \in Nat
  <2>1. ChainOK(c, path, state, Reparented) /\ ChainOK(d, path, state, Reparented)
    BY DEF PathInv, Existing
  <2>2. path[c] \in Seq(Gates) /\ path[d] \in Seq(Gates)
    BY DEF TypeOK
  <2> QED BY <2>1, <2>2, SMT
<1>2. PICK j \in 1..Len(path[c]) : IsFirst(path[c], Reparented, j)
  BY <1>1 DEF ChainOK
<1>3. PICK i \in 1..Len(path[d]) : IsFirst(path[d], Reparented, i)
  BY <1>1 DEF ChainOK
<1>4. parentAsInputGate(c) = path[c][j] /\ parentAsInputGate(d) = path[d][i]
  BY <1>1, <1>2, <1>3, FirstIs DEF parentAsInputGate
<1>5. CASE path[d][i] # c
  <2>1. IsFirst(path[d], R, i)
    BY <1>3, <1>5 DEF IsFirst
  <2>2. FirstOutside(path[d], R) = path[d][i]
    BY <1>1, <2>1, FirstIs
  <2> QED BY <1>4, <1>5, <2>1, <2>2
<1>6. CASE path[d][i] = c
  <2>1. \A k \in 1..Len(path[c]) : /\ i + k \in 1..Len(path[d])
                                   /\ path[d][i + k] = path[c][k]
    BY <1>1, <1>6 DEF ChainOK
  <2>2. path[c][j] # c
    BY <1>1 DEF ChainOK
  <2>3. path[d][i + j] \notin R
    BY <1>2, <2>1, <2>2 DEF IsFirst
  <2>4. ASSUME NEW m \in 1..(i + j - 1) PROVE path[d][m] \in R
    <3>1. CASE m < i
      BY <1>3, <3>1, SMT DEF IsFirst
    <3>2. CASE m = i
      BY <1>6, <3>2
    <3>3. CASE m > i
      <4>1. m - i \in 1..(j - 1) /\ m - i \in 1..Len(path[c]) /\ m = i + (m - i)
        BY <1>1, <3>3, SMTT(30)
      <4>2. path[d][m] = path[c][m - i]
        BY <2>1, <4>1
      <4>3. path[c][m - i] \in Reparented
        BY <1>2, <4>1 DEF IsFirst
      <4> QED BY <4>2, <4>3
    <3> QED BY <3>1, <3>2, <3>3, SMT
  <2>5. IsFirst(path[d], R, i + j)
    BY <2>1, <2>3, <2>4, SMT DEF IsFirst
  <2>6. FirstOutside(path[d], R) = path[c][j]
    BY <1>1, <2>1, <2>5, FirstIs, ZenonT(60)
  <2> QED BY <1>4, <1>6, <2>1, <2>5, <2>6
<1> QED BY <1>5, <1>6

(* The lists r are the lists q after gate p adopted the list of gate c.    *)
Adopted(r, q, p, c) ==
    /\ r \in [Gates -> Seq(Tasks)]
    /\ \A h \in Gates : \A i \in 1..Len(r[h]) :
          \E g \in Gates : \E j \in 1..Len(q[g]) :
              r[h][i] = q[g][j] /\ h = IF g = c THEN p ELSE g
    /\ Distinct(r)
    /\ r[c] = << >>
    /\ q[p] = << >> /\ q[c] = << >> => r[p] = << >>
    /\ \A h \in Gates : h # p /\ h # c => r[h] = q[h]

LEMMA ConcatElements ==
    ASSUME NEW S, NEW s \in Seq(S), NEW u \in Seq(S)
    PROVE  /\ s \o u \in Seq(S) /\ Len(s \o u) = Len(s) + Len(u)
           /\ Len(s) \in Nat /\ Len(u) \in Nat
           /\ \A i \in 1..Len(s) : (s \o u)[i] = s[i]
           /\ \A i \in 1..(Len(s) + Len(u)) : i > Len(s) =>
                 /\ i - Len(s) \in 1..Len(u)
                 /\ (s \o u)[i] = u[i - Len(s)]
BY SMT

LEMMA AdoptedElements ==
    ASSUME NEW q \in [Gates -> Seq(Tasks)], NEW p \in Gates, NEW c \in Gates,
           p # c, Distinct(q),
           NEW r, r = [q EXCEPT ![p] = @ \o q[c], ![c] = << >>]
    PROVE  Adopted(r, q, p, c)
<1>1. r[p] = q[p] \o q[c] /\ r[c] = << >>
      /\ \A h \in Gates : h # p /\ h # c => r[h] = q[h]
  OBVIOUS
<1>2. q[p] \in Seq(Tasks) /\ q[c] \in Seq(Tasks)
  OBVIOUS
<1>3. r \in [Gates -> Seq(Tasks)]
  <2> DEFINE x == q[p] \o q[c]
             y == << >>
  <2>1. x \in Seq(Tasks) /\ y \in Seq(Tasks)
    BY <1>2, SMT
  <2>2. r = [q EXCEPT ![p] = x, ![c] = y]
    OBVIOUS
  <2> HIDE DEF x, y
  <2> QED BY <2>1, <2>2
<1>4. /\ Len(r[p]) = Len(q[p]) + Len(q[c])
      /\ Len(q[p]) \in Nat /\ Len(q[c]) \in Nat
      /\ \A i \in 1..Len(q[p]) : r[p][i] = q[p][i]
      /\ \A i \in 1..Len(r[p]) : i > Len(q[p]) =>
            i - Len(q[p]) \in 1..Len(q[c]) /\ r[p][i] = q[c][i - Len(q[p])]
  <2> HIDE DEF Gates
  <2> QED BY <1>1, <1>2, ConcatElements, SMTT(30)
<1> DEFINE From(h, i) == IF h = p /\ i > Len(q[p]) THEN c ELSE h
           At(h, i) == IF h = p /\ i > Len(q[p]) THEN i - Len(q[p]) ELSE i
<1>5. ASSUME NEW h \in Gates, NEW i \in 1..Len(r[h])
      PROVE  /\ From(h, i) \in Gates /\ At(h, i) \in 1..Len(q[From(h, i)])
             /\ r[h][i] = q[From(h, i)][At(h, i)]
             /\ h = IF From(h, i) = c THEN p ELSE From(h, i)
  <2>1. CASE h = p
    BY <1>4, <2>1, SMT
  <2>2. CASE h = c
    <3>1. Len(r[h]) = 0
      BY <1>1, <2>2
    <3> QED BY <3>1, SMT
  <2>3. CASE h # p /\ h # c
    BY <1>1, <2>3
  <2> QED BY <2>1, <2>2, <2>3
<1>6. ASSUME NEW h \in Gates, NEW k \in Gates, NEW i \in 1..Len(r[h]),
             NEW j \in 1..Len(r[k]), r[h][i] = r[k][j]
      PROVE  h = k /\ i = j
  <2>1. /\ From(h, i) \in Gates /\ At(h, i) \in 1..Len(q[From(h, i)])
        /\ r[h][i] = q[From(h, i)][At(h, i)]
        /\ h = IF From(h, i) = c THEN p ELSE From(h, i)
    BY <1>5
  <2>2. /\ From(k, j) \in Gates /\ At(k, j) \in 1..Len(q[From(k, j)])
        /\ r[k][j] = q[From(k, j)][At(k, j)]
        /\ k = IF From(k, j) = c THEN p ELSE From(k, j)
    BY <1>5
  <2>3. From(h, i) = From(k, j) /\ At(h, i) = At(k, j)
    <3> HIDE DEF From, At
    <3> QED BY <1>6, <2>1, <2>2, SMTT(30) DEF Distinct
  <2>4. h = k
    <3> HIDE DEF From, At
    <3> QED BY <2>1, <2>2, <2>3
  <2>5. Len(q[p]) \in Nat /\ i \in Int /\ j \in Int
    BY <1>4, SMT
  <2>6. (h = p /\ i > Len(q[p])) <=> (h = p /\ j > Len(q[p]))
    BY <2>3, <2>4
  <2> QED BY <2>3, <2>4, <2>5, <2>6, SMT
<1>7. Distinct(r)
  BY <1>6 DEF Distinct
<1>8. q[p] = << >> /\ q[c] = << >> => r[p] = << >>
  BY <1>1, SMT
<1>9. ASSUME NEW h \in Gates, NEW i \in 1..Len(r[h])
      PROVE  \E g \in Gates : \E j \in 1..Len(q[g]) :
                 r[h][i] = q[g][j] /\ h = IF g = c THEN p ELSE g
  <2>1. /\ From(h, i) \in Gates /\ At(h, i) \in 1..Len(q[From(h, i)])
        /\ r[h][i] = q[From(h, i)][At(h, i)]
        /\ h = IF From(h, i) = c THEN p ELSE From(h, i)
    BY <1>5
  <2> HIDE DEF From, At
  <2> QED BY <2>1
<1> QED BY <1>1, <1>3, <1>7, <1>8, <1>9 DEF Adopted

LEMMA SucceededInv ==
    ASSUME Inv, NEW c \in Sections, Succeeded(c)
    PROVE  Inv'
<1> USE DEF Inv
<1>1. state[c] = "RUNNING" /\ lock[c] # NoGate
  BY DEF Succeeded
<1>2. PICK p \in Gates : p = parentAsInputGate(c)
  BY <1>1, ParentExists DEF Existing
<1>3. /\ p \notin Reparented /\ p # c /\ c \notin Reparented /\ c \in Gates
      /\ Target(lock[c]) = p /\ c \in Owners
  BY <1>1, <1>2, ParentExists DEF Existing, Reparented, LockInv, Gates, Owners
<1>4. /\ waitingChildren' =
            [waitingChildren EXCEPT ![p] = @ \o waitingChildren[c], ![c] = << >>]
      /\ waiters' = [waiters EXCEPT ![p] = @ \o waiters[c], ![c] = << >>]
  BY <1>2 DEF Succeeded
<1>5. /\ lockCount' = [lockCount EXCEPT ![p] = @ + lockCount[c], ![c] = 0]
      /\ state' = [state EXCEPT ![c] = "REPARENTED"]
  BY <1>2 DEF Succeeded
<1>6. path' = path /\ broken' = broken /\ lock' = lock /\ pc' = pc /\ entering' = entering
  BY DEF Succeeded
<1>7. /\ Adopted(waiters', waiters, p, c)
      /\ Adopted(waitingChildren', waitingChildren, p, c)
  <2>1. /\ waiters \in [Gates -> Seq(Tasks)] /\ waitingChildren \in [Gates -> Seq(Tasks)]
        /\ Distinct(waiters) /\ Distinct(waitingChildren)
    BY DEF TypeOK, QueueInv
  <2> QED BY <1>3, <1>4, <2>1, AdoptedElements
<1>8. /\ \A d \in Sections : d # c => state'[d] = state[d]
      /\ state'[c] = "REPARENTED"
      /\ state' \in [Sections -> SectionStates]
      /\ lockCount' \in [Gates -> Nat]
      /\ lockCount'[p] = lockCount[p] + lockCount[c] /\ lockCount'[c] = 0
      /\ \A h \in Gates : h # p /\ h # c => lockCount'[h] = lockCount[h]
  <2>1. /\ \A d \in Sections : d # c => state'[d] = state[d]
        /\ state'[c] = "REPARENTED"
        /\ state' \in [Sections -> SectionStates]
    BY <1>5 DEF TypeOK, SectionStates
  <2>2. lockCount \in [Gates -> Nat] /\ lockCount[p] + lockCount[c] \in Nat
    BY <1>3, SMT DEF TypeOK
  <2>3. /\ lockCount'[p] = lockCount[p] + lockCount[c] /\ lockCount'[c] = 0
        /\ \A h \in Gates : h # p /\ h # c => lockCount'[h] = lockCount[h]
    BY <1>3, <1>5, <2>2
  <2>4. lockCount' \in [Gates -> Nat]
    BY <1>3, <1>5, <2>2
  <2> QED BY <2>1, <2>3, <2>4
<1>9. Reparented' = Reparented \cup {c}
  BY <1>8 DEF Reparented
<1> DEFINE Moved(g) == IF g = c THEN p ELSE g
<1>10. ASSUME NEW d \in Sections, Existing(d)
       PROVE  /\ parentAsInputGate(d)' = Moved(parentAsInputGate(d))
              /\ \E i \in 1..Len(path[d]) : IsFirst(path[d], Reparented \cup {c}, i)
  <2>1. parentAsInputGate(d)' = FirstOutside(path[d], Reparented \cup {c})
    BY <1>6, <1>9 DEF parentAsInputGate
  <2> QED BY <1>1, <1>2, <1>10, <2>1, Adoption, ZenonT(60)
<1>11. ASSUME NEW g \in Gates,
              g \in Sections => state[g] \in {"RUNNING", "REPARENTED"}
       PROVE  Target(g)' = Moved(Target(g))
  <2>1. CASE g = c
    <3>1. Target(g)' = parentAsInputGate(c)' /\ Target(g) = c
      BY <1>3, <1>9, <2>1 DEF Target
    <3>2. parentAsInputGate(c)' = p
      BY <1>1, <1>2, <1>3, <1>10 DEF Existing
    <3> QED BY <3>1, <3>2
  <2>2. CASE g \in Reparented
    <3>1. Target(g)' = parentAsInputGate(g)' /\ Target(g) = parentAsInputGate(g)
      BY <1>9, <2>2 DEF Target
    <3>2. g \in Sections /\ Existing(g)
      BY <2>2 DEF Reparented, Existing
    <3> QED BY <1>10, <3>1, <3>2
  <2>3. CASE g # c /\ g \notin Reparented
    BY <1>9, <2>3 DEF Target
  <2> QED BY <2>1, <2>2, <2>3
<1>12. ASSUME NEW q \in Owners, lock[q] # NoGate
       PROVE  Target(lock[q])' = Moved(Target(lock[q]))
  <2>1. PICK g \in Gates : g = lock[q]
    BY <1>12 DEF TypeOK
  <2>2. g \in Sections => state[g] \in {"RUNNING", "REPARENTED"}
    BY <2>1 DEF LockInv
  <2>3. Target(lock[q])' = Target(g)' /\ Target(lock[q]) = Target(g)
    BY <1>6, <2>1
  <2> QED BY <1>11, <2>2, <2>3
<1>13. TypeOK'
  BY <1>6, <1>7, <1>8 DEF TypeOK, Adopted
<1>14. PathInv'
  <2> SUFFICES ASSUME NEW d \in Sections, Existing(d)'
               PROVE  ChainOK(d, path, state', Reparented \cup {c})
    BY <1>6, <1>9 DEF PathInv
  <2>1. Existing(d)
    BY <1>1, <1>8 DEF Existing
  <2>2. ChainOK(d, path, state, Reparented)
    BY <2>1 DEF PathInv
  <2>3. \A x \in Sections : state[x] \in {"RUNNING", "REPARENTED"}
                            => state'[x] \in {"RUNNING", "REPARENTED"}
    BY <1>8
  <2> QED BY <1>10, <2>1, <2>2, <2>3 DEF ChainOK
<1>15. LockInv'
  <2>1. \A q \in Owners : lock'[q] \in Sections =>
           state'[lock'[q]] \in {"RUNNING", "REPARENTED"}
    BY <1>6, <1>8 DEF LockInv
  <2>2. ASSUME NEW d \in Sections, lock'[d] # NoGate
        PROVE  /\ state'[d] \in {"RUNNING", "REPARENTED"}
               /\ state'[d] = "RUNNING" => Target(lock[d])' = parentAsInputGate(d)'
    <3>1. lock[d] # NoGate /\ state[d] \in {"RUNNING", "REPARENTED"}
      BY <1>6, <2>2 DEF LockInv
    <3>2. CASE d = c
      BY <1>8, <3>2
    <3>3. CASE d # c /\ state[d] = "RUNNING"
      <4>1. Target(lock[d]) = parentAsInputGate(d)
        BY <3>1, <3>3 DEF LockInv
      <4>2. Target(lock[d])' = Moved(Target(lock[d]))
        BY <1>12, <3>1 DEF Owners
      <4>3. parentAsInputGate(d)' = Moved(parentAsInputGate(d))
        BY <1>10, <3>1 DEF Existing
      <4> QED BY <1>8, <3>3, <4>1, <4>2, <4>3
    <3>4. CASE d # c /\ state[d] = "REPARENTED"
      BY <1>8, <3>4
    <3> QED BY <3>1, <3>2, <3>3, <3>4
  <2> QED BY <2>1, <2>2 DEF LockInv
<1>16. TaskInv(pc)'
  <2>1. \A t \in Tasks : entering[t] \in Sections =>
           entering[t] # c /\ state'[entering[t]] = "INITIAL_WAIT"
    BY <1>1, <1>8, SMT DEF TaskInv
  <2>2. ASSUME NEW t \in Tasks, pc[t] = "childGranted"
        PROVE  Target(lock[t])' = parentAsInputGate(entering[t])'
    <3>1. /\ lock[t] # NoGate /\ entering[t] \in Sections
          /\ Target(lock[t]) = parentAsInputGate(entering[t])
          /\ state[entering[t]] = "INITIAL_WAIT" /\ t \in Owners
      BY <2>2 DEF TaskInv, Owners
    <3>2. PICK d \in Sections : d = entering[t]
      BY <3>1
    <3>3. parentAsInputGate(entering[t])' = parentAsInputGate(d)'
      BY <1>6, <3>2
    <3>4. parentAsInputGate(d)' = Moved(parentAsInputGate(d))
      BY <1>10, <3>1, <3>2 DEF Existing
    <3>5. Target(lock[t])' = Moved(Target(lock[t]))
      BY <1>12, <3>1
    <3> QED BY <3>1, <3>2, <3>3, <3>4, <3>5
  <2> QED BY <1>6, <2>1, <2>2 DEF TaskInv
<1>17. QueueInv(waiters, waitingChildren, pc)'
  <2>1. ASSUME NEW h \in Gates, NEW i \in 1..Len(waiters'[h])
        PROVE  pc[waiters'[h][i]] = "waiting"
    <3>1. PICK g \in Gates : \E j \in 1..Len(waiters[g]) :
              waiters'[h][i] = waiters[g][j] /\ h = Moved(g)
      BY <1>7 DEF Adopted
    <3> QED BY <3>1, SMT DEF QueueInv
  <2>2. ASSUME NEW h \in Gates, NEW i \in 1..Len(waitingChildren'[h])
        PROVE  /\ pc[waitingChildren'[h][i]] = "childWaiting"
               /\ parentAsInputGate(entering[waitingChildren[h][i]])' = h
    <3>0. PICK g \in Gates : \E j \in 1..Len(waitingChildren[g]) :
              waitingChildren'[h][i] = waitingChildren[g][j] /\ h = Moved(g)
      BY <1>7 DEF Adopted
    <3>1. PICK j \in 1..Len(waitingChildren[g]) :
              waitingChildren'[h][i] = waitingChildren[g][j] /\ h = Moved(g)
      BY <3>0
    <3>t. waitingChildren[g] \in Seq(Tasks)
      BY DEF TypeOK
    <3>u. waitingChildren[g][j] \in Tasks
      BY <3>t, SMT
    <3>2. PICK t \in Tasks : /\ t = waitingChildren'[h][i] /\ pc[t] = "childWaiting"
                             /\ parentAsInputGate(entering[t]) = g
      BY <3>1, <3>u DEF QueueInv
    <3>3. PICK d \in Sections : d = entering[t] /\ state[d] = "INITIAL_WAIT"
      BY <3>2 DEF TaskInv
    <3>4. parentAsInputGate(d)' = Moved(parentAsInputGate(d))
      BY <1>10, <3>3 DEF Existing
    <3>5. parentAsInputGate(entering[waitingChildren[h][i]])' = parentAsInputGate(d)'
      BY <1>6, <3>2, <3>3
    <3> QED BY <3>1, <3>2, <3>3, <3>4, <3>5
  <2>3. Distinct(waiters') /\ Distinct(waitingChildren')
    BY <1>7 DEF Adopted
  <2> QED BY <1>6, <2>1, <2>2, <2>3 DEF QueueInv
<1>18. WakeupInv(waiters, waitingChildren)'
  <2> SUFFICES ASSUME NEW h \in Gates, lockCount'[h] = 0
               PROVE  waiters'[h] = << >> /\ waitingChildren'[h] = << >>
    BY DEF WakeupInv
  <2>1. CASE h = p
    <3>1. lockCount[p] = 0 /\ lockCount[c] = 0
      BY <1>3, <1>8, <2>1, SMTT(30) DEF TypeOK
    <3> QED BY <1>3, <1>7, <2>1, <3>1 DEF WakeupInv, Adopted
  <2>2. CASE h = c
    BY <1>7, <2>2 DEF Adopted
  <2>3. CASE h # p /\ h # c
    BY <1>7, <1>8, <2>3, ZenonT(60) DEF WakeupInv, Adopted
  <2> QED BY <2>1, <2>2, <2>3
<1>19. BlockInv(pc)'
  <2>1. ASSUME NEW q \in Owners, Blocker(q, pc)'
        PROVE  /\ q # c /\ Blocker(q, pc) /\ Target(lock[q]) # p
               /\ Target(lock[q])' = Moved(Target(lock[q]))
    <3>1. q # c /\ lock[q] # NoGate
      BY <1>6, <1>8, <2>1 DEF Blocker
    <3>2. Blocker(q, pc)
      BY <1>6, <1>8, <2>1, <3>1 DEF Blocker
    <3>3. Blocker(c, pc)
      BY <1>1, InputGateAssumption DEF Blocker
    <3>4. Target(lock[q]) # p
      BY <1>3, <3>1, <3>2, <3>3 DEF BlockInv
    <3> QED BY <1>12, <3>1, <3>2, <3>4
  <2>2. ASSUME NEW o1 \in Owners, NEW o2 \in Owners, Blocker(o1, pc)', Blocker(o2, pc)',
               Target(lock[o1])' = Target(lock[o2])'
        PROVE  o1 = o2
    <3>1. Target(lock[o1]) = Target(lock[o2])
      BY <2>1, <2>2
    <3> QED BY <2>1, <2>2, <3>1 DEF BlockInv
  <2> QED BY <2>2 DEF BlockInv
<1>20. LocksAccounted'
  <2> SUFFICES ASSUME NEW h \in Gates
               PROVE  lockCount'[h] = Cardinality(HoldersOf(h)')
    BY DEF LocksAccounted
  <2>0. \A x \in Gates : IsFiniteSet(HoldersOf(x)) /\ lockCount[x] = Cardinality(HoldersOf(x))
    BY HoldersFinite DEF LocksAccounted
  <2>1. \A q \in Owners : q \in HoldersOf(h)' <=>
                             lock[q] # NoGate /\ Moved(Target(lock[q])) = h
    BY <1>6, <1>12 DEF HoldersOf
  <2>2. HoldersOf(h)' \subseteq Owners
    BY DEF HoldersOf
  <2>3. CASE h = c
    <3>1. HoldersOf(h)' = {}
      BY <1>3, <2>1, <2>2, <2>3
    <3> QED BY <1>8, <2>3, <3>1, FS_EmptySet
  <2>4. CASE h = p
    <3>1. HoldersOf(h)' = HoldersOf(p) \cup HoldersOf(c)
      BY <1>3, <2>1, <2>2, <2>4 DEF HoldersOf
    <3>2. HoldersOf(p) \cap HoldersOf(c) = {}
      BY <1>3 DEF HoldersOf
    <3>3. Cardinality(HoldersOf(p) \cap HoldersOf(c)) = 0
      BY <3>2, FS_EmptySet
    <3>4. Cardinality(HoldersOf(p) \cup HoldersOf(c)) =
             Cardinality(HoldersOf(p)) + Cardinality(HoldersOf(c))
               - Cardinality(HoldersOf(p) \cap HoldersOf(c))
      BY <1>3, <2>0, FS_Union
    <3>5. lockCount[p] \in Nat /\ lockCount[c] \in Nat
      BY <1>3 DEF TypeOK
    <3> QED BY <1>3, <1>8, <2>0, <2>4, <3>1, <3>3, <3>4, <3>5, SMTT(30)
  <2>5. CASE h # p /\ h # c
    <3>1. HoldersOf(h)' = HoldersOf(h)
      BY <2>1, <2>2, <2>5 DEF HoldersOf
    <3> QED BY <1>8, <2>0, <2>5, <3>1
  <2> QED BY <2>3, <2>4, <2>5
<1> QED BY <1>13, <1>14, <1>15, <1>16, <1>17, <1>18, <1>19, <1>20

(* Breaking the gates of S rejects exactly the tasks in their lists, and   *)
(* keeps what the invariant says of lists and tasks.                       *)
LEMMA BreakInv ==
    ASSUME Inv, NEW S \in SUBSET Gates,
           NEW ws, ws = Emptied(waiters, S),
           NEW wc, wc = Emptied(waitingChildren, S),
           NEW p, p = Rejected(S)
    PROVE  /\ ws \in [Gates -> Seq(Tasks)] /\ wc \in [Gates -> Seq(Tasks)]
           /\ p \in [Tasks -> TaskStates]
           /\ TaskInv(p) /\ QueueInv(ws, wc, p) /\ WakeupInv(ws, wc) /\ BlockInv(p)
<1> USE DEF Inv
<1> DEFINE in(q, t) == \E g \in S : \E i \in 1..Len(q[g]) : q[g][i] = t
<1>1. \A t \in Tasks : p[t] = IF in(waiters, t) THEN "idle"
                              ELSE IF in(waitingChildren, t) THEN "childRejected"
                              ELSE pc[t]
  BY DEF Rejected
<1>2. /\ ws \in [Gates -> Seq(Tasks)] /\ wc \in [Gates -> Seq(Tasks)]
      /\ \A h \in Gates : ws[h] = IF h \in S THEN << >> ELSE waiters[h]
      /\ \A h \in Gates : wc[h] = IF h \in S THEN << >> ELSE waitingChildren[h]
  BY SMT DEF Emptied, TypeOK
<1>3. \A t \in Tasks : in(waiters, t) => pc[t] = "waiting"
  BY SMT DEF QueueInv
<1>4. \A t \in Tasks : in(waitingChildren, t) => pc[t] = "childWaiting"
  BY SMT DEF QueueInv
<1> HIDE DEF in
<1>5. \A t \in Tasks : \/ p[t] = pc[t]
                       \/ pc[t] = "waiting" /\ p[t] = "idle"
                       \/ pc[t] = "childWaiting" /\ p[t] = "childRejected"
  BY <1>1, <1>3, <1>4
<1>6. p \in [Tasks -> TaskStates]
  <2>1. p = [t \in Tasks |-> p[t]]
    BY DEF Rejected
  <2>2. \A t \in Tasks : p[t] \in TaskStates
    BY <1>5 DEF TypeOK, TaskStates
  <2> QED BY <2>1, <2>2
<1>7. TaskInv(p)
  BY <1>5 DEF TaskInv
<1>8. ASSUME NEW h \in Gates, NEW i \in 1..Len(ws[h])
      PROVE  p[ws[h][i]] = "waiting"
  <2>0. h \notin S
    <3>1. h \in S => Len(ws[h]) = 0
      BY <1>2, SMT
    <3> QED BY <3>1, SMT
  <2>1. ws[h] = waiters[h]
    BY <1>2, <2>0
  <2>2. PICK t \in Tasks : t = waiters[h][i]
    BY <2>1, SMT DEF TypeOK
  <2>3. pc[t] = "waiting"
    BY <2>1, <2>2 DEF QueueInv
  <2>4. ~in(waiters, t)
    BY <2>0, <2>1, <2>2, SMTT(30) DEF QueueInv, Distinct, in
  <2> QED BY <1>1, <1>4, <2>1, <2>2, <2>3, <2>4
<1>9. ASSUME NEW h \in Gates, NEW i \in 1..Len(wc[h])
      PROVE  p[wc[h][i]] = "childWaiting" /\ parentAsInputGate(entering[wc[h][i]]) = h
  <2>0. h \notin S
    <3>1. h \in S => Len(wc[h]) = 0
      BY <1>2, SMT
    <3> QED BY <3>1, SMT
  <2>1. wc[h] = waitingChildren[h]
    BY <1>2, <2>0
  <2>2. PICK t \in Tasks : t = waitingChildren[h][i]
    BY <2>1, SMT DEF TypeOK
  <2>3. pc[t] = "childWaiting" /\ parentAsInputGate(entering[t]) = h
    BY <2>1, <2>2 DEF QueueInv
  <2>4. ~in(waitingChildren, t)
    BY <2>0, <2>1, <2>2, SMTT(30) DEF QueueInv, Distinct, in
  <2> QED BY <1>1, <1>3, <2>1, <2>2, <2>3, <2>4
<1>10. Distinct(ws) /\ Distinct(wc)
  <2>1. \A h \in Gates : \A i \in 1..Len(ws[h]) : ws[h] = waiters[h]
    BY <1>2, SMT
  <2>2. \A h \in Gates : \A i \in 1..Len(wc[h]) : wc[h] = waitingChildren[h]
    BY <1>2, SMT
  <2> QED BY <2>1, <2>2, SMTT(30) DEF QueueInv, Distinct
<1>11. QueueInv(ws, wc, p)
  BY <1>8, <1>9, <1>10 DEF QueueInv
<1>12. WakeupInv(ws, wc)
  BY <1>2 DEF WakeupInv
<1>13. BlockInv(p)
  <2>1. \A o \in Owners : Blocker(o, p) => Blocker(o, pc)
    BY <1>5 DEF Blocker
  <2> QED BY <2>1 DEF BlockInv
<1> QED BY <1>2, <1>6, <1>7, <1>11, <1>12, <1>13

LEMMA BrokenGates ==
    ASSUME TypeOK, NEW c \in Sections
    PROVE  BrokenBy(c) \in SUBSET Gates
<1>1. path[c] \in Seq(Gates)
  BY DEF TypeOK
<1> QED BY <1>1, SMT DEF BrokenBy, FailureReaches, Gates

LEMMA FailedInv ==
    ASSUME Inv, NEW c \in Sections, Failed(c)
    PROVE  Inv'
<1> USE DEF Inv
<1>1. PICK S \in SUBSET Gates : S = BrokenBy(c)
  BY BrokenGates
<1>2. /\ waiters' = Emptied(waiters, S)
      /\ waitingChildren' = Emptied(waitingChildren, S)
      /\ pc' = Rejected(S)
      /\ state' = state /\ path' = path /\ lockCount' = lockCount /\ lock' = lock
      /\ entering' = entering
      /\ broken' = [g \in Gates |-> broken[g] \/ g \in S]
  BY <1>1 DEF Failed
<1>3. /\ waiters' \in [Gates -> Seq(Tasks)] /\ waitingChildren' \in [Gates -> Seq(Tasks)]
      /\ pc' \in [Tasks -> TaskStates]
      /\ TaskInv(pc') /\ QueueInv(waiters', waitingChildren', pc')
      /\ WakeupInv(waiters', waitingChildren') /\ BlockInv(pc')
  BY <1>2, BreakInv
<1>4. /\ \A x : Target(x)' = Target(x)
      /\ \A x : parentAsInputGate(x)' = parentAsInputGate(x)
      /\ Reparented' = Reparented
  BY <1>2 DEF Target, parentAsInputGate, Reparented
<1>5. TypeOK'
  <2>1. broken' \in [Gates -> BOOLEAN]
    BY <1>2
  <2> QED BY <1>2, <1>3, <2>1 DEF TypeOK
<1>6. PathInv'
  BY <1>2, <1>4 DEF PathInv, Existing
<1>7. LockInv'
  BY <1>2, <1>4 DEF LockInv
<1>8. TaskInv(pc)'
  BY <1>2, <1>3, <1>4 DEF TaskInv
<1>9. QueueInv(waiters, waitingChildren, pc)'
  BY <1>2, <1>3, <1>4, SMTT(30) DEF QueueInv
<1>10. WakeupInv(waiters, waitingChildren)'
  BY <1>2, <1>3 DEF WakeupInv
<1>11. BlockInv(pc)'
  BY <1>2, <1>3, <1>4 DEF BlockInv, Blocker
<1>12. LocksAccounted'
  BY <1>2, <1>4 DEF LocksAccounted, HoldersOf
<1> QED BY <1>5, <1>6, <1>7, <1>8, <1>9, <1>10, <1>11, <1>12

LEMMA DestroyInv ==
    ASSUME Inv, NEW c \in Sections, DestroySection(c)
    PROVE  Inv'
<1> USE DEF Inv
<1>1. PICK S \in SUBSET Gates : S = IF state[c] = "RUNNING" THEN BrokenBy(c) ELSE {}
  BY BrokenGates
<1>2. /\ Existing(c) /\ Unreferenced(c)
      /\ state[c] = "REPARENTED" => lock[c] = NoGate
      /\ state' = [state EXCEPT ![c] = "DESTROYED"]
      /\ broken' = [g \in Gates |-> broken[g] \/ g \in S]
      /\ path' = path /\ entering' = entering
  BY <1>1 DEF DestroySection, Existing
<1>3. /\ \A d \in Sections : d # c => state'[d] = state[d]
      /\ state'[c] = "DESTROYED"
      /\ state' \in [Sections -> SectionStates]
      /\ broken' \in [Gates -> BOOLEAN]
      /\ entering' \in [Tasks -> Sections \cup {NoSection}]
  BY <1>2 DEF TypeOK, SectionStates
<1> DEFINE ws == Emptied(waiters, S)
           wc == Emptied(waitingChildren, S)
           p == Rejected(S)
<1>4. /\ ws \in [Gates -> Seq(Tasks)] /\ wc \in [Gates -> Seq(Tasks)]
      /\ p \in [Tasks -> TaskStates]
      /\ TaskInv(p) /\ QueueInv(ws, wc, p) /\ WakeupInv(ws, wc) /\ BlockInv(p)
  BY BreakInv
<1>5. CASE lock[c] # NoGate
  <2>1. state[c] = "RUNNING" /\ c \in Owners
    BY <1>2, <1>5 DEF LockInv, Owners
  <2>2. releaseLock(c, ws, wc, p)
    BY <1>1, <1>5 DEF DestroySection
  <2>3. Reparented' = Reparented
    BY <1>3, <2>1 DEF Reparented
  <2>4. \A t \in Tasks : entering'[t] = IF t = c THEN NoSection ELSE entering[t]
    BY <1>2, InputGateAssumption
  <2>5. \A d \in Sections : state'[d] # state[d] =>
           d = c /\ state[d] = "RUNNING" /\ Unreferenced(d)
    BY <1>2, <1>3, <2>1
  <2>6. PathInv'
    BY <1>2, <1>3, <2>3, <2>5, PathStep
  <2> HIDE DEF ws, wc, p
  <2>7. /\ TypeOK' /\ LockInv' /\ TaskInv(pc)' /\ LocksAccounted'
        /\ QueueInv(waiters, waitingChildren, pc)'
        /\ WakeupInv(waiters, waitingChildren)' /\ BlockInv(pc)'
    BY <1>2, <1>3, <1>4, <1>5, <2>1, <2>2, <2>3, <2>4, <2>5, ReleaseLockInv, ZenonT(60)
  <2> QED BY <2>6, <2>7
<1>6. CASE lock[c] = NoGate
  <2>1. /\ waiters' = ws /\ waitingChildren' = wc /\ pc' = p
        /\ lockCount' = lockCount /\ lock' = lock
    BY <1>1, <1>6 DEF DestroySection
  <2> HIDE DEF ws, wc, p
  <2>2. Reparented' = Reparented \ {c}
    BY <1>3 DEF Reparented
  <2>3. ASSUME NEW d \in Sections, d # c, Existing(d)
        PROVE  /\ parentAsInputGate(d)' = parentAsInputGate(d)
               /\ \E i \in 1..Len(path[d]) : IsFirst(path[d], Reparented \ {c}, i)
    <3>1. PICK i \in 1..Len(path[d]) : IsFirst(path[d], Reparented, i)
      BY <2>3 DEF PathInv, ChainOK
    <3>2. \A j \in 1..Len(path[d]) : path[d][j] # c
      BY <1>2, <2>3 DEF Unreferenced, Existing
    <3>3. Len(path[d]) \in Nat
      BY SMT DEF TypeOK
    <3>4. IsFirst(path[d], Reparented \ {c}, i)
      BY <3>1, <3>2, <3>3, SMTT(30) DEF IsFirst
    <3>5. /\ FirstOutside(path[d], Reparented \ {c}) = path[d][i]
          /\ FirstOutside(path[d], Reparented) = path[d][i]
      BY <3>1, <3>3, <3>4, FirstIs
    <3> QED BY <1>2, <2>2, <3>4, <3>5 DEF parentAsInputGate
  <2>4. ASSUME NEW q \in Owners, lock[q] # NoGate
        PROVE  Target(lock[q])' = Target(lock[q])
    <3>1. PICK g \in Gates : g = lock[q]
      BY <2>4 DEF TypeOK
    <3>2. g # c /\ (g \in Sections => Existing(g))
      BY <1>2, <3>1 DEF Unreferenced, LockInv, Existing
    <3>3. Target(lock[q])' = Target(g)' /\ Target(lock[q]) = Target(g)
      BY <2>1, <3>1
    <3>4. CASE g \in Reparented
      <4>1. g \in Sections
        BY <3>4 DEF Reparented
      <4> QED BY <2>2, <2>3, <3>2, <3>3, <3>4, <4>1 DEF Target
    <3>5. CASE g \notin Reparented
      BY <2>2, <3>3, <3>5 DEF Target
    <3> QED BY <3>4, <3>5
  <2>5. ASSUME NEW t \in Tasks, entering[t] \in Sections
        PROVE  /\ parentAsInputGate(entering[t])' = parentAsInputGate(entering[t])
               /\ state'[entering[t]] = state[entering[t]]
    <3>1. PICK d \in Sections : d = entering[t]
      BY <2>5
    <3>2. d # c /\ Existing(d)
      BY <1>2, <3>1 DEF Unreferenced, TaskInv, Existing
    <3>3. parentAsInputGate(entering[t])' = parentAsInputGate(d)'
      BY <1>2, <3>1
    <3> QED BY <1>3, <2>3, <3>1, <3>2, <3>3
  <2>6. TypeOK'
    BY <1>2, <1>3, <1>4, <2>1, ZenonT(60) DEF TypeOK
  <2>7. PathInv'
    <3> SUFFICES ASSUME NEW d \in Sections, Existing(d)'
                 PROVE  ChainOK(d, path, state', Reparented \ {c})
      BY <1>2, <2>2 DEF PathInv
    <3>1. d # c /\ Existing(d)
      BY <1>3 DEF Existing
    <3>2. ChainOK(d, path, state, Reparented)
      BY <3>1 DEF PathInv
    <3>3. \A j \in 1..Len(path[d]) : path[d][j] # c
      BY <1>2, <3>1 DEF Unreferenced, Existing
    <3> QED BY <1>3, <2>3, <3>1, <3>2, <3>3 DEF ChainOK
  <2>8. LockInv'
    <3>1. ASSUME NEW q \in Owners, lock'[q] \in Sections
          PROVE  state'[lock'[q]] \in {"RUNNING", "REPARENTED"}
      BY <1>2, <1>3, <2>1, <3>1 DEF LockInv, Unreferenced
    <3>2. ASSUME NEW d \in Sections, lock'[d] # NoGate
          PROVE  /\ state'[d] \in {"RUNNING", "REPARENTED"}
                 /\ state'[d] = "RUNNING" => Target(lock[d])' = parentAsInputGate(d)'
      <4>1. d # c /\ lock[d] # NoGate /\ d \in Owners
        BY <1>6, <2>1, <3>2 DEF Owners
      <4>2. state'[d] = state[d] /\ state[d] \in {"RUNNING", "REPARENTED"}
        BY <1>3, <4>1 DEF LockInv
      <4> QED BY <2>3, <2>4, <4>1, <4>2 DEF LockInv, Existing
    <3> QED BY <3>1, <3>2 DEF LockInv
  <2>9. TaskInv(pc)'
    <3>1. ASSUME NEW t \in Tasks, pc'[t] = "childGranted"
          PROVE  Target(lock[t])' = parentAsInputGate(entering[t])'
      <4>1. /\ lock[t] # NoGate /\ entering[t] \in Sections /\ t \in Owners
            /\ Target(lock[t]) = parentAsInputGate(entering[t])
        BY <1>4, <2>1, <3>1 DEF TaskInv, Owners
      <4> QED BY <2>4, <2>5, <4>1, ZenonT(60)
    <3> QED BY <1>2, <1>4, <2>1, <2>5, <3>1, ZenonT(60) DEF TaskInv
  <2>10. QueueInv(waiters, waitingChildren, pc)'
    <3>1. ASSUME NEW h \in Gates, NEW i \in 1..Len(wc[h])
          PROVE  parentAsInputGate(entering[waitingChildren[h][i]])' = h
      <4>1. PICK t \in Tasks : t = wc[h][i]
        BY <1>4, SMT
      <4>2. p[t] = "childWaiting" /\ parentAsInputGate(entering[t]) = h
        BY <1>4, <4>1 DEF QueueInv
      <4>3. parentAsInputGate(entering[waitingChildren[h][i]])' = parentAsInputGate(entering[t])'
        BY <2>1, <4>1
      <4>4. entering[t] \in Sections
        BY <1>4, <4>2 DEF TaskInv
      <4> QED BY <2>5, <4>2, <4>3, <4>4
    <3>2. /\ \A h \in Gates : \A i \in 1..Len(ws[h]) : p[ws[h][i]] = "waiting"
          /\ \A h \in Gates : \A i \in 1..Len(wc[h]) : p[wc[h][i]] = "childWaiting"
          /\ Distinct(ws) /\ Distinct(wc)
      BY <1>4 DEF QueueInv
    <3>3. Distinct(waiters)' /\ Distinct(waitingChildren)'
      BY <2>1, <3>2
    <3> QED BY <2>1, <3>1, <3>2, <3>3 DEF QueueInv
  <2>11. WakeupInv(waiters, waitingChildren)'
    BY <1>4, <2>1 DEF WakeupInv
  <2>12. BlockInv(pc)'
    <3>1. \A q \in Owners : Blocker(q, pc)' => Blocker(q, p)
      BY <1>3, <2>1 DEF Blocker
    <3>2. \A q \in Owners : Blocker(q, pc)' => lock[q] # NoGate
      BY <2>1 DEF Blocker
    <3> QED BY <1>4, <2>4, <3>1, <3>2 DEF BlockInv
  <2>13. LocksAccounted'
    <3>1. \A h : HoldersOf(h)' = HoldersOf(h)
      BY <2>1, <2>4 DEF HoldersOf
    <3> QED BY <2>1, <3>1 DEF LocksAccounted
  <2> QED BY <2>6, <2>7, <2>8, <2>9, <2>10, <2>11, <2>12, <2>13
<1> QED BY <1>5, <1>6

-----------------------------------------------------------------------------
(* The theorems.                                                           *)

LEMMA NextInv == Inv /\ [Next]_vars => Inv'
<1> SUFFICES ASSUME Inv, [Next]_vars PROVE Inv'
  OBVIOUS
<1>1. CASE UNCHANGED vars
  <2>1. Reparented' = Reparented
    BY <1>1 DEF vars, Reparented
  <2>2. /\ \A x : Target(x)' = Target(x)
        /\ \A x : parentAsInputGate(x)' = parentAsInputGate(x)
    BY <1>1, <2>1 DEF vars, Target, parentAsInputGate
  <2> USE <1>1 DEF vars, Inv
  <2>3. TypeOK' /\ PathInv'
    BY <2>1 DEF TypeOK, PathInv, Existing
  <2>4. LockInv' /\ TaskInv(pc)'
    BY <2>2 DEF LockInv, TaskInv
  <2>5. QueueInv(waiters, waitingChildren, pc)' /\ WakeupInv(waiters, waitingChildren)'
    BY <2>2 DEF QueueInv, WakeupInv
  <2>6. BlockInv(pc)' /\ LocksAccounted'
    BY <2>2 DEF BlockInv, Blocker, LocksAccounted, HoldersOf
  <2> QED BY <2>3, <2>4, <2>5, <2>6
<1>2. CASE Next
  BY <1>2, WaitInv, AddRefInv, ReleaseInv, StartInv, FirstWaitInv, ResumeGrantedInv,
     ResumeRejectedInv, CancelInv, SucceededInv, FailedInv, DestroyInv
     DEF Next
<1> QED BY <1>1, <1>2

(* The inductive invariant holds in every reachable state of the gate.     *)
THEOREM Invariance == Spec => []Inv
BY InitInv, NextInv, PTL DEF Spec

-----------------------------------------------------------------------------
(* The gates' fields have the types the class declares, in every state.    *)
THEOREM TypeCorrect == Spec => []TypeOK
<1>1. Inv => TypeOK
  BY DEF Inv
<1> QED BY <1>1, Invariance, PTL

(* Lock accounting is exact: every gate's lockCount is the number of Lock  *)
(* objects that block it, for any number of tasks and nested sections.     *)
THEOREM Accounting == Spec => []LocksAccounted
<1>1. Inv => LocksAccounted
  BY DEF Inv
<1> QED BY <1>1, Invariance, PTL

(* No wakeup is lost: a gate without Locks has no waiters.                 *)
THEOREM NoWakeupIsLost == Spec => []NoLostWakeup
<1>1. Inv => NoLostWakeup
  BY DEF Inv, WakeupInv, NoLostWakeup
<1> QED BY <1>1, Invariance, PTL

(* What blocks a scope is an owner whose Lock is counted in that scope.    *)
LEMMA BlockingOwner ==
    ASSUME Inv, NEW g \in Gates, NEW c \in Blocking(g)
    PROVE  \/ /\ c \in Owners /\ Blocker(c, pc) /\ Target(lock[c]) = g
              /\ state[c] = "RUNNING"
           \/ \E t \in Tasks : /\ entering[t] = c /\ t \in Owners /\ Blocker(t, pc)
                               /\ Target(lock[t]) = g
<1> USE DEF Inv
<1>1. CASE c \in Sections /\ state[c] = "RUNNING" /\ lock[c] # NoGate
           /\ parentAsInputGate(c) = g
  <2>1. Target(lock[c]) = g
    BY <1>1 DEF LockInv
  <2>2. c \in Owners /\ Blocker(c, pc)
    BY <1>1, InputGateAssumption DEF Owners, Blocker
  <2> QED BY <1>1, <2>1, <2>2
<1>2. ASSUME NEW t \in Tasks, c \in Sections, pc[t] = "childGranted", entering[t] = c,
             parentAsInputGate(c) = g
      PROVE  t \in Owners /\ Blocker(t, pc) /\ Target(lock[t]) = g
  <2>1. Target(lock[t]) = g /\ lock[t] # NoGate
    BY <1>2 DEF TaskInv
  <2>2. t \in Owners /\ Blocker(t, pc)
    BY <1>2, <2>1, InputGateAssumption DEF Owners, Blocker
  <2> QED BY <2>1, <2>2
<1> QED BY <1>1, <1>2 DEF Blocking

(* Mutual exclusion: in any one scope at most one critical section runs,   *)
(* however sections were nested, adopted, failed or destroyed.             *)
THEOREM MutualExclusion == Spec => []OneSectionPerScope
<1>1. ASSUME Inv, NEW g \in Gates, NEW c \in Blocking(g), NEW d \in Blocking(g)
      PROVE  c = d
  <2>1. \A o1, o2 \in Owners :
           (Blocker(o1, pc) /\ Blocker(o2, pc) /\ Target(lock[o1]) = Target(lock[o2]))
           => o1 = o2
    BY <1>1 DEF Inv, BlockInv
  <2>2. Tasks \cap Sections = {} /\ c \in Sections /\ d \in Sections
    BY InputGateAssumption DEF Blocking
  <2>3. \/ c \in Owners /\ Blocker(c, pc) /\ Target(lock[c]) = g
        \/ \E t \in Tasks : /\ entering[t] = c /\ t \in Owners /\ Blocker(t, pc)
                            /\ Target(lock[t]) = g
    BY <1>1, BlockingOwner
  <2>4. \/ d \in Owners /\ Blocker(d, pc) /\ Target(lock[d]) = g
        \/ \E t \in Tasks : /\ entering[t] = d /\ t \in Owners /\ Blocker(t, pc)
                            /\ Target(lock[t]) = g
    BY <1>1, BlockingOwner
  <2> QED BY <2>1, <2>2, <2>3, <2>4
<1>2. Inv => OneSectionPerScope
  BY <1>1 DEF OneSectionPerScope
<1> QED BY <1>2, Invariance, PTL

(* A reparented section has no lock and no waiter left of its own, which   *)
(* releaseLock() asserts when it forwards a release to the parent.         *)
THEOREM ReparentingIsComplete == Spec => []ReparentedIsEmpty
<1>1. ASSUME Inv, NEW c \in Sections, state[c] = "REPARENTED"
      PROVE  lockCount[c] = 0 /\ waiters[c] = << >> /\ waitingChildren[c] = << >>
  <2>1. /\ TypeOK /\ PathInv /\ LockInv /\ LocksAccounted
        /\ WakeupInv(waiters, waitingChildren)
    BY <1>1 DEF Inv
  <2>2. c \in Gates /\ c \in Reparented
    BY <1>1 DEF Gates, Reparented
  <2>3. ASSUME NEW q \in Owners, lock[q] # NoGate PROVE Target(lock[q]) # c
    <3>1. /\ lock[q] \in Gates
          /\ lock[q] \in Sections => state[lock[q]] \in {"RUNNING", "REPARENTED"}
      BY <2>1, <2>3 DEF TypeOK, LockInv
    <3> QED BY <2>1, <2>2, <3>1, TargetExists, SMTT(30)
  <2>4. HoldersOf(c) = {}
    BY <2>3 DEF HoldersOf
  <2>5. lockCount[c] = 0
    BY <2>1, <2>2, <2>4, FS_EmptySet DEF LocksAccounted
  <2> QED BY <2>1, <2>2, <2>5 DEF WakeupInv
<1>2. Inv => ReparentedIsEmpty
  BY <1>1 DEF ReparentedIsEmpty
<1> QED BY <1>2, Invariance, PTL

-----------------------------------------------------------------------------
(* A task that holds the only Lock of a gate has the scope to itself.      *)
LEMMA SoleHolder ==
    \A t \in Tasks, g \in Gates :
        (Inv /\ pc[t] = "holding" /\ lock[t] = g /\ Target(g) = g /\ lockCount[g] = 1)
        => Blocking(lock[t]) = {}
<1> SUFFICES ASSUME NEW t \in Tasks, NEW g \in Gates, Inv, pc[t] = "holding",
                    lock[t] = g, Target(g) = g, lockCount[g] = 1, NEW c \in Blocking(g)
             PROVE  FALSE
  OBVIOUS
<1>1. t \in Owners /\ lock[t] # NoGate /\ ~Blocker(t, pc)
  BY InputGateAssumption DEF Owners, Gates, Blocker
<1>2. PICK o \in Owners : Blocker(o, pc) /\ Target(lock[o]) = g
  BY BlockingOwner
<1>3. o # t /\ lock[o] # NoGate
  BY <1>1, <1>2 DEF Blocker
<1>4. lockCount[Target(lock[t])] > 1
  BY <1>1, <1>2, <1>3, CountTwo DEF Inv
<1> QED BY <1>4, SMT

(* Task t gets the only Lock of a gate that is not reparented.             *)
GetsOnlyLock(t) == lock'[t] \in Gates \ Reparented /\ lockCount'[lock'[t]] = 1

(* releaseLock() hands a Lock to a waiter only when it is the only one.    *)
LEMMA HandOver ==
    ASSUME Inv, NEW o \in Owners, lock[o] # NoGate,
           NEW ws \in [Gates -> Seq(Tasks)], NEW wc \in [Gates -> Seq(Tasks)],
           NEW p \in [Tasks -> TaskStates], releaseLock(o, ws, wc, p),
           NEW t \in Tasks, p[t] # "holding", pc'[t] = "holding", t # o
    PROVE  GetsOnlyLock(t)
<1> DEFINE done == [u \in Tasks |-> IF u = o THEN "idle" ELSE p[u]]
           g == Target(lock[o])
<1>1. done \in [Tasks -> TaskStates] /\ done[t] = p[t]
  BY DEF TaskStates
<1>2. /\ g \in Gates \ Reparented
      /\ g \in Sections => state[g] = "RUNNING"
  <2>1. /\ lock[o] \in Gates
        /\ lock[o] \in Sections => state[lock[o]] \in {"RUNNING", "REPARENTED"}
    BY DEF Inv, LockInv, TypeOK
  <2> QED BY <2>1, TargetExists DEF Inv
<1> HIDE DEF done, g
<1>3. /\ lockCount[g] = 1 /\ lockCount' = lockCount
      /\ t = Head(ws[g]) /\ lock' = [lock EXCEPT ![o] = NoGate, ![Head(ws[g])] = g]
  <2>1. CASE pc' = done
    BY <1>1, <2>1
  <2>2. CASE pc' = [done EXCEPT ![Head(wc[g])] = "childGranted"]
    BY <1>1, <2>2
  <2>3. CASE /\ lockCount[g] = 1 /\ lockCount' = lockCount
             /\ lock' = [lock EXCEPT ![o] = NoGate, ![Head(ws[g])] = g]
             /\ pc' = [done EXCEPT ![Head(ws[g])] = "holding"]
    BY <1>1, <2>3
  <2> QED BY <2>1, <2>2, <2>3, ZenonT(60) DEF releaseLock, done, g
<1>4. lock'[t] = g
  BY <1>3 DEF Inv, TypeOK, Owners
<1> QED BY <1>2, <1>3, <1>4 DEF GetsOnlyLock

(* A task that gets a Lock of an existing scope other than by addRef()     *)
(* holds the only one.                                                     *)
LEMMA Entrance ==
    ASSUME Inv, Inv', Next, NEW t \in Tasks,
           pc[t] \in {"idle", "waiting"}, pc'[t] = "holding",
           \A o \in Owners : ~AddRef(o, t)
    PROVE  \E g \in Gates : lock'[t] = g /\ Target(g)' = g /\ lockCount'[g] = 1
<1> USE DEF Inv
<1>0. t \in Owners /\ pc[t] # "holding" /\ pc[t] # "childGranted"
  BY DEF Owners
<1>1. ASSUME NEW u \in Tasks, NEW x \in Gates, Wait(u, x)
      PROVE  \E g \in Gates : lock'[t] = g /\ Target(g)' = g /\ lockCount'[g] = 1
  <2>1. PICK g \in Gates : g = Target(x) /\ g \notin Reparented
    <3>1. x \in Sections => state[x] \in {"RUNNING", "REPARENTED"}
      BY <1>1 DEF Wait
    <3> QED BY <3>1, TargetExists
  <2>2. /\ lockCount' = [lockCount EXCEPT ![g] = 1]
        /\ lock' = [lock EXCEPT ![u] = g]
        /\ u = t
    <3>1. CASE /\ lockCount' = [lockCount EXCEPT ![g] = 1]
               /\ lock' = [lock EXCEPT ![u] = g]
               /\ pc' = [pc EXCEPT ![u] = "holding"]
      BY <1>0, <3>1, ZenonT(60) DEF TypeOK
    <3>2. CASE pc' = [pc EXCEPT ![u] = "waiting"]
      BY <1>0, <3>2, ZenonT(60) DEF TypeOK
    <3> QED BY <1>1, <2>1, <3>1, <3>2 DEF Wait
  <2>3. Target(g)' = g
    <3>1. state' = state
      BY <1>1 DEF Wait
    <3> QED BY <2>1, <3>1 DEF Target, Reparented
  <2>4. lock'[t] = g /\ lockCount'[g] = 1
    BY <1>0, <2>2 DEF TypeOK
  <2> QED BY <2>3, <2>4, ZenonT(60)
<1>2. ASSUME NEW o \in Owners, NEW u \in Tasks, AddRef(o, u) PROVE FALSE
  <2>1. pc' = [pc EXCEPT ![u] = "holding"]
    BY <1>2 DEF AddRef
  <2>2. u = t
    BY <1>0, <2>1, ZenonT(60) DEF TypeOK
  <2> QED BY <1>2, <2>2
<1>3. ASSUME NEW o \in Owners, lock[o] # NoGate, t # o, Reparented' = Reparented,
             NEW ws \in [Gates -> Seq(Tasks)], NEW wc \in [Gates -> Seq(Tasks)],
             NEW p \in [Tasks -> TaskStates], p[t] # "holding", releaseLock(o, ws, wc, p)
      PROVE  \E g \in Gates : lock'[t] = g /\ Target(g)' = g /\ lockCount'[g] = 1
  <2>1. GetsOnlyLock(t)
    <3> HIDE DEF Inv
    <3> QED BY <1>3, HandOver
  <2>2. PICK g \in Gates : g = lock'[t] /\ g \notin Reparented /\ lockCount'[g] = 1
    BY <2>1, ZenonT(60) DEF GetsOnlyLock
  <2>3. Target(g)' = g
    BY <1>3, <2>2, ZenonT(60) DEF Target
  <2> QED BY <2>2, <2>3
<1>4. ASSUME NEW o \in Owners, Release(o)
      PROVE  \E g \in Gates : lock'[t] = g /\ Target(g)' = g /\ lockCount'[g] = 1
  <2>1. /\ lock[o] # NoGate /\ t # o /\ Reparented' = Reparented
        /\ releaseLock(o, waiters, waitingChildren, pc)
    BY <1>0, <1>4, ZenonT(60) DEF Release, Reparented
  <2>2. /\ waiters \in [Gates -> Seq(Tasks)] /\ waitingChildren \in [Gates -> Seq(Tasks)]
        /\ pc \in [Tasks -> TaskStates]
    BY DEF TypeOK
  <2> QED BY <1>0, <1>3, <2>1, <2>2, ZenonT(60)
<1>5. ASSUME NEW u \in Tasks, NEW c \in Sections, FirstWait(u, c)
      PROVE  \E g \in Gates : lock'[t] = g /\ Target(g)' = g /\ lockCount'[g] = 1
  <2>1. PICK g \in Gates : g = parentAsInputGate(c) /\ g # c
    BY <1>5, ParentExists DEF FirstWait, Existing
  <2>2. CASE /\ state' = [state EXCEPT ![c] = "RUNNING"]
             /\ lockCount' = [lockCount EXCEPT ![g] = 1, ![c] = 1]
             /\ lock' = [lock EXCEPT ![c] = g, ![u] = c]
             /\ pc' = [pc EXCEPT ![u] = "holding"]
    <3>1. u = t /\ c \in Gates
      BY <1>0, <2>2, ZenonT(60) DEF TypeOK, Gates
    <3>2. lock'[t] = c /\ lockCount'[c] = 1
      BY <1>0, <2>1, <2>2, <3>1, ZenonT(60) DEF TypeOK
    <3>3. Target(c)' = c
      BY <2>2, ZenonT(60) DEF Target, Reparented, TypeOK
    <3> QED BY <3>1, <3>2, <3>3, ZenonT(60)
  <2>3. CASE pc' = pc
    BY <1>0, <2>3, ZenonT(60)
  <2>4. CASE pc' = [pc EXCEPT ![u] = "childWaiting"]
    BY <1>0, <2>4, ZenonT(60) DEF TypeOK
  <2> QED BY <1>5, <2>1, <2>2, <2>3, <2>4 DEF FirstWait
<1>6. ASSUME NEW u \in Tasks, ResumeGranted(u) \/ ResumeRejected(u) PROVE FALSE
  BY <1>0, <1>6 DEF ResumeGranted, ResumeRejected, TypeOK
<1>7. ASSUME NEW u \in Tasks, Cancel(u)
      PROVE  \E g \in Gates : lock'[t] = g /\ Target(g)' = g /\ lockCount'[g] = 1
  <2>1. CASE pc' = [pc EXCEPT ![u] = "idle"]
    BY <1>0, <2>1, ZenonT(60) DEF TypeOK
  <2>2. CASE pc[u] = "childGranted" /\ releaseLock(u, waiters, waitingChildren, pc)
    <3>1. lock[u] # NoGate /\ u # t /\ Reparented' = Reparented /\ u \in Owners
      BY <1>0, <1>7, <2>2 DEF Cancel, TaskInv, Reparented, Owners
    <3>2. /\ waiters \in [Gates -> Seq(Tasks)] /\ waitingChildren \in [Gates -> Seq(Tasks)]
          /\ pc \in [Tasks -> TaskStates]
      BY DEF TypeOK
    <3> QED BY <1>0, <1>3, <2>2, <3>1, <3>2, ZenonT(60)
  <2> QED BY <1>7, <2>1, <2>2 DEF Cancel
<1>8. ASSUME NEW S PROVE Rejected(S)[t] # "holding"
  BY <1>0 DEF Rejected
<1>9. ASSUME NEW c \in Sections, DestroySection(c)
      PROVE  \E g \in Gates : lock'[t] = g /\ Target(g)' = g /\ lockCount'[g] = 1
  <2>1. PICK S \in SUBSET Gates : S = IF state[c] = "RUNNING" THEN BrokenBy(c) ELSE {}
    BY BrokenGates
  <2>2. lock[c] # NoGate /\ releaseLock(c, Emptied(waiters, S), Emptied(waitingChildren, S),
                                        Rejected(S))
    BY <1>8, <1>9, <2>1, ZenonT(60) DEF DestroySection
  <2>3. state[c] = "RUNNING" /\ c \in Owners /\ c # t
    BY <1>9, <2>2, InputGateAssumption, ZenonT(60) DEF DestroySection, LockInv, Owners
  <2>4. Reparented' = Reparented
    BY <1>9, <2>3 DEF DestroySection, Reparented, TypeOK
  <2>5. /\ Emptied(waiters, S) \in [Gates -> Seq(Tasks)]
        /\ Emptied(waitingChildren, S) \in [Gates -> Seq(Tasks)]
        /\ Rejected(S) \in [Tasks -> TaskStates]
    BY BreakInv
  <2> QED BY <1>3, <1>8, <2>2, <2>3, <2>4, <2>5, ZenonT(60)
<1>10. ASSUME NEW c \in Sections, Succeeded(c) PROVE FALSE
  BY <1>0, <1>10, ZenonT(60) DEF Succeeded
<1>11. ASSUME NEW c \in Sections, Failed(c) PROVE FALSE
  <2>1. pc' = Rejected(BrokenBy(c))
    BY <1>11 DEF Failed
  <2> QED BY <1>8, <2>1
<1>12. ASSUME NEW o \in Owners, NEW c \in Sections, StartCriticalSection(o, c) PROVE FALSE
  BY <1>0, <1>12 DEF StartCriticalSection
<1> QED BY <1>1, <1>2, <1>4, <1>5, <1>6, <1>7, <1>9, <1>10, <1>11, <1>12, ZenonT(60) DEF Next

(* While a critical section runs, neither wait() nor the release of a Lock *)
(* admits a task into the scope that the section blocks.                   *)
THEOREM Exclusion == Spec => OutsidersExcluded
<1> DEFINE Sole(t) == \A g \in Gates :
              (Inv /\ pc[t] = "holding" /\ lock[t] = g /\ Target(g) = g /\ lockCount[g] = 1)
              => Blocking(lock[t]) = {}
           Admits(t) ==
              /\ pc[t] \in {"idle", "waiting"} /\ pc'[t] = "holding"
              /\ \A o \in Owners : ~AddRef(o, t)
           Excluded == \A t \in Tasks : Admits(t) => Blocking(lock[t])' = {}
<1>1. (\A t \in Tasks : Sole(t))'
  <2>1. \A t \in Tasks : Sole(t)
    BY SoleHolder
  <2> QED BY <2>1, PTL
<1>2. Inv /\ Inv' /\ [Next]_vars => [Excluded]_vars
  <2> SUFFICES ASSUME Inv, Inv', Next, NEW t \in Tasks, Admits(t)
               PROVE  Blocking(lock[t])' = {}
    OBVIOUS
  <2>1. PICK g \in Gates : lock'[t] = g /\ Target(g)' = g /\ lockCount'[g] = 1
    BY Entrance
  <2> QED BY <1>1, <2>1
<1>3. Spec => [][Next]_vars
  BY DEF Spec
<1>4. Spec => [][Excluded]_vars
  BY <1>2, <1>3, Invariance, PTL
<1> QED BY <1>4 DEF OutsidersExcluded

-----------------------------------------------------------------------------
(* What makes failures reach the root: rejections only happen when it is   *)
(* broken, and every chain of parents contains it.                         *)
BrokenInv ==
    /\ \A c \in Sections : broken[c] => broken[Root]
    /\ \A t \in Tasks : pc[t] = "childRejected" => broken[Root]
    /\ \A c \in Sections : Existing(c) =>
          \E i \in 1..Len(path[c]) : path[c][i] = Root

LEMMA ReleaseRejectsNobody ==
    ASSUME NEW o, NEW ws, NEW wc, NEW p \in [Tasks -> TaskStates],
           releaseLock(o, ws, wc, p), NEW t \in Tasks, pc'[t] = "childRejected"
    PROVE  p[t] = "childRejected"
<1> DEFINE done == [u \in Tasks |-> IF u = o THEN "idle" ELSE p[u]]
           g == Target(lock[o])
<1>1. done \in [Tasks -> TaskStates]
      /\ (done[t] = "childRejected" => p[t] = "childRejected")
  BY DEF TaskStates
<1>2. \/ pc' = done
      \/ \E u, x : pc' = [done EXCEPT ![u] = x] /\ x \in {"childGranted", "holding"}
  BY DEF releaseLock
<1> HIDE DEF done
<1> QED BY <1>1, <1>2, SMT

(* A section that fails breaks the root, unless it was broken before.      *)
LEMMA RootReached ==
    ASSUME Inv, BrokenInv, NEW c \in Sections, Existing(c)
    PROVE  BrokenBy(c) = {} \/ Root \in BrokenBy(c) \/ broken[Root]
<1>1. PICK i \in 1..Len(path[c]) : path[c][i] = Root
  BY DEF BrokenInv
<1>2. CASE \A j \in 1..i : path[c][j] \in Sections => ~broken[path[c][j]]
  BY <1>1, <1>2 DEF BrokenBy, FailureReaches
<1>3. CASE \E j \in 1..i : path[c][j] \in Sections /\ broken[path[c][j]]
  BY <1>3 DEF BrokenInv
<1> QED BY <1>2, <1>3

(* Breaking the gates of S, when S contains the root.                      *)
LEMMA BreakRoot ==
    ASSUME Inv, BrokenInv, NEW S \in SUBSET Gates, S = {} \/ Root \in S \/ broken[Root],
           broken' = [g \in Gates |-> broken[g] \/ g \in S]
    PROVE  /\ \A c \in Sections : broken'[c] => broken'[Root]
           /\ \A t \in Tasks : Rejected(S)[t] = "childRejected" => broken'[Root]
<1>1. Root \in Gates /\ Sections \subseteq Gates
  BY DEF Gates
<1>2. \A t \in Tasks : Rejected(S)[t] = "childRejected" =>
         pc[t] = "childRejected" \/ \E g \in S : TRUE
  BY DEF Rejected
<1>3. \A g \in Gates : broken'[g] = (broken[g] \/ g \in S)
  OBVIOUS
<1> QED BY <1>1, <1>2, <1>3, ZenonT(60) DEF BrokenInv

LEMMA BrokenStep == Inv /\ Inv' /\ BrokenInv /\ [Next]_vars => BrokenInv'
<1> SUFFICES ASSUME Inv, Inv', BrokenInv, [Next]_vars PROVE BrokenInv'
  OBVIOUS
<1>a. TypeOK /\ TypeOK' /\ PathInv /\ LockInv /\ TaskInv(pc)
  BY DEF Inv
<1>1. ASSUME broken' = broken, path' = path,
             \A c \in Sections : Existing(c)' => Existing(c),
             \A t \in Tasks : pc'[t] = "childRejected" => pc[t] = "childRejected"
      PROVE  BrokenInv'
  BY <1>1 DEF BrokenInv
<1>2. CASE UNCHANGED vars
  BY <1>1, <1>2 DEF vars, Existing
<1>3. ASSUME NEW t \in Tasks, NEW g \in Gates, Wait(t, g) PROVE BrokenInv'
  <2>1. \A u \in Tasks : pc'[u] = "childRejected" => pc[u] = "childRejected"
    BY <1>3, <1>a DEF Wait, TypeOK
  <2> QED BY <1>1, <1>3, <2>1 DEF Wait, Existing
<1>4. ASSUME NEW o \in Owners, NEW t \in Tasks, AddRef(o, t) PROVE BrokenInv'
  <2>1. \A u \in Tasks : pc'[u] = "childRejected" => pc[u] = "childRejected"
    BY <1>4, <1>a, ZenonT(60) DEF AddRef, TypeOK
  <2> QED BY <1>1, <1>4, <2>1 DEF AddRef, Existing
<1>5. ASSUME NEW o \in Owners, Release(o) PROVE BrokenInv'
  <2>1. \A u \in Tasks : pc'[u] = "childRejected" => pc[u] = "childRejected"
    <3>1. releaseLock(o, waiters, waitingChildren, pc) /\ pc \in [Tasks -> TaskStates]
      BY <1>5, <1>a DEF Release, TypeOK
    <3> QED BY <3>1, ReleaseRejectsNobody
  <2> QED BY <1>1, <1>5, <2>1 DEF Release, Existing
<1>6. ASSUME NEW o \in Owners, NEW c \in Sections, StartCriticalSection(o, c)
      PROVE  BrokenInv'
  <2>1. PICK g \in Gates : g = lock[o]
    BY <1>6, <1>a DEF StartCriticalSection, TypeOK
  <2>2. /\ path' = [path EXCEPT ![c] = IF g = Root THEN <<Root>> ELSE <<g>> \o path[g]]
        /\ state[c] = "UNUSED" /\ state' = [state EXCEPT ![c] = "NOT_STARTED"]
        /\ broken' = broken /\ pc' = pc
    BY <1>6, <2>1 DEF StartCriticalSection
  <2>3. ASSUME NEW d \in Sections, Existing(d)'
        PROVE  \E i \in 1..Len(path'[d]) : path'[d][i] = Root
    <3>1. CASE d # c
      <4>1. path'[d] = path[d] /\ Existing(d)
        BY <1>a, <2>2, <2>3, <3>1, ZenonT(60) DEF TypeOK, Existing
      <4> QED BY <4>1 DEF BrokenInv
    <3>2. CASE d = c /\ g = Root
      <4>1. path'[d] = <<Root>>
        BY <1>a, <2>2, <3>2, ZenonT(60) DEF TypeOK
      <4> QED BY <4>1, SMTT(30)
    <3>3. CASE d = c /\ g # Root
      <4>1. path'[d] = <<g>> \o path[g]
        BY <1>a, <2>2, <3>3, ZenonT(60) DEF TypeOK
      <4>2. g \in Sections /\ Existing(g) /\ path[g] \in Seq(Gates)
        BY <1>a, <2>1, <3>3, ZenonT(60) DEF LockInv, Existing, Gates, TypeOK
      <4>3. PICK i \in 1..Len(path[g]) : path[g][i] = Root
        BY <4>2 DEF BrokenInv
      <4>4. /\ Len(<<g>> \o path[g]) = 1 + Len(path[g])
            /\ (<<g>> \o path[g])[i + 1] = path[g][i]
        BY <4>2, SMTT(30)
      <4> QED BY <4>1, <4>2, <4>3, <4>4, SMTT(30)
    <3> QED BY <3>1, <3>2, <3>3
  <2> QED BY <2>2, <2>3 DEF BrokenInv
<1>7. ASSUME NEW t \in Tasks, NEW c \in Sections, FirstWait(t, c) PROVE BrokenInv'
  <2>1. PICK g \in Gates : g = parentAsInputGate(c)
    BY <1>7, <1>a, ParentExists DEF FirstWait, Existing
  <2>2. path' = path /\ \A d \in Sections : Existing(d)' => Existing(d)
    BY <1>7, <1>a DEF FirstWait, TypeOK, Existing
  <2>3. \A u \in Tasks : pc'[u] = "childRejected" => pc[u] = "childRejected"
    BY <1>7, <1>a DEF FirstWait, TypeOK
  <2>4. CASE broken' = broken
    BY <1>1, <2>2, <2>3, <2>4
  <2>5. CASE broken[g] /\ broken' = [broken EXCEPT ![c] = TRUE]
    <3>1. broken[Root] /\ broken'[Root]
      <4>1. broken[Root]
        BY <2>5 DEF BrokenInv, Gates
      <4> QED BY <1>a, <2>5, <4>1, InputGateAssumption DEF TypeOK, Gates
    <3> QED BY <2>2, <2>3, <3>1, ZenonT(60) DEF BrokenInv
  <2> QED BY <1>7, <2>1, <2>4, <2>5 DEF FirstWait
<1>8. ASSUME NEW t \in Tasks, ResumeGranted(t) PROVE BrokenInv'
  <2>1. \A u \in Tasks : pc'[u] = "childRejected" => pc[u] = "childRejected"
    BY <1>8, <1>a DEF ResumeGranted, TypeOK
  <2>2. entering[t] \in Sections /\ state[entering[t]] = "INITIAL_WAIT"
    BY <1>8, <1>a DEF TaskInv, ResumeGranted
  <2>3. \A d \in Sections : Existing(d)' => Existing(d)
    BY <1>8, <1>a, <2>2 DEF ResumeGranted, Existing, TypeOK
  <2> QED BY <1>1, <1>8, <2>1, <2>3 DEF ResumeGranted
<1>9. ASSUME NEW t \in Tasks, ResumeRejected(t) PROVE BrokenInv'
  <2>1. \A u \in Tasks : pc'[u] = "childRejected" => pc[u] = "childRejected"
    BY <1>9, <1>a, ZenonT(60) DEF ResumeRejected, TypeOK
  <2>2. /\ pc[t] = "childRejected"
        /\ entering[t] \in Sections /\ state[entering[t]] = "INITIAL_WAIT"
    BY <1>9, <1>a DEF TaskInv, ResumeRejected
  <2>3. \A d \in Sections : Existing(d)' => Existing(d)
    BY <1>9, <1>a, <2>2 DEF ResumeRejected, Existing, TypeOK
  <2>4. broken[Root] /\ broken' = [broken EXCEPT ![entering[t]] = TRUE] /\ path' = path
    BY <1>9, <2>2 DEF BrokenInv, ResumeRejected
  <2>5. broken'[Root]
    BY <1>a, <2>4 DEF TypeOK, Gates
  <2> QED BY <2>1, <2>3, <2>4, <2>5, ZenonT(60) DEF BrokenInv
<1>10. ASSUME NEW t \in Tasks, Cancel(t) PROVE BrokenInv'
  <2>1. CASE pc' = [pc EXCEPT ![t] = "idle"]
    <3>1. \A u \in Tasks : pc'[u] = "childRejected" => pc[u] = "childRejected"
      BY <1>a, <2>1, ZenonT(60) DEF TypeOK
    <3> QED BY <1>1, <1>10, <3>1 DEF Cancel, Existing
  <2>2. CASE releaseLock(t, waiters, waitingChildren, pc)
    <3>1. \A u \in Tasks : pc'[u] = "childRejected" => pc[u] = "childRejected"
      BY <1>a, <2>2, ReleaseRejectsNobody, ZenonT(60) DEF TypeOK
    <3> QED BY <1>1, <1>10, <3>1 DEF Cancel, Existing
  <2> QED BY <1>10, <2>1, <2>2 DEF Cancel
<1>11. ASSUME NEW c \in Sections, Succeeded(c) PROVE BrokenInv'
  <2>1. \A d \in Sections : Existing(d)' => Existing(d)
    BY <1>11, <1>a, ZenonT(60) DEF Succeeded, Existing, TypeOK
  <2> QED BY <1>1, <1>11, <2>1 DEF Succeeded
<1>12. ASSUME NEW c \in Sections, Failed(c) PROVE BrokenInv'
  <2>1. PICK S \in SUBSET Gates : S = BrokenBy(c)
    BY <1>a, BrokenGates
  <2>2. S = {} \/ Root \in S \/ broken[Root]
    BY <1>12, <2>1, RootReached DEF Failed, Existing
  <2>3. /\ broken' = [g \in Gates |-> broken[g] \/ g \in S]
        /\ pc' = Rejected(S) /\ state' = state /\ path' = path
    BY <1>12, <2>1 DEF Failed
  <2>4. /\ \A d \in Sections : broken'[d] => broken'[Root]
        /\ \A t \in Tasks : Rejected(S)[t] = "childRejected" => broken'[Root]
    BY <2>2, <2>3, BreakRoot
  <2> QED BY <2>3, <2>4, ZenonT(60) DEF BrokenInv, Existing
<1>13. ASSUME NEW c \in Sections, DestroySection(c) PROVE BrokenInv'
  <2>1. PICK S \in SUBSET Gates : S = IF state[c] = "RUNNING" THEN BrokenBy(c) ELSE {}
    BY <1>a, BrokenGates
  <2>2. S = {} \/ Root \in S \/ broken[Root]
    BY <2>1, RootReached DEF Existing
  <2>3. /\ broken' = [g \in Gates |-> broken[g] \/ g \in S]
        /\ state' = [state EXCEPT ![c] = "DESTROYED"] /\ path' = path
        /\ \/ pc' = Rejected(S)
           \/ releaseLock(c, Emptied(waiters, S), Emptied(waitingChildren, S), Rejected(S))
    BY <1>13, <2>1, ZenonT(60) DEF DestroySection
  <2>4. /\ \A d \in Sections : broken'[d] => broken'[Root]
        /\ \A t \in Tasks : Rejected(S)[t] = "childRejected" => broken'[Root]
    BY <2>2, <2>3, BreakRoot
  <2>5. \A t \in Tasks : pc'[t] = "childRejected" => Rejected(S)[t] = "childRejected"
    <3>1. Rejected(S) \in [Tasks -> TaskStates]
      BY BreakInv
    <3> QED BY <2>3, <3>1, ReleaseRejectsNobody
  <2>6. \A d \in Sections : Existing(d)' => Existing(d)
    BY <1>a, <2>3, ZenonT(60) DEF Existing, TypeOK
  <2> QED BY <2>3, <2>4, <2>5, <2>6 DEF BrokenInv
<1> QED BY <1>2, <1>3, <1>4, <1>5, <1>6, <1>7, <1>8, <1>9, <1>10, <1>11, <1>12, <1>13
        DEF Next

(* A failed critical section breaks the actor: whenever a section is       *)
(* broken, so is the root gate.                                            *)
THEOREM FailureIsFatal == Spec => []FailureBreaksRoot
<1>1. Init => BrokenInv
  BY InputGateAssumption DEF Init, BrokenInv, Existing, Gates
<1>2. BrokenInv => FailureBreaksRoot
  BY DEF BrokenInv, FailureBreaksRoot
<1>3. Spec => []BrokenInv
  BY <1>1, Invariance, BrokenStep, PTL DEF Spec
<1> QED BY <1>2, <1>3, PTL
=============================================================================
