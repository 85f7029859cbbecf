-------------------------- MODULE HibernationProofs --------------------------
(***************************************************************************)
(* Proofs that one actor at a time stands for a Durable Object, and that   *)
(* its hibernatable WebSockets follow it.                                  *)
(***************************************************************************)
EXTENDS Hibernation, FiniteSetTheorems, TLAPS

(* Most leaves are first-order reasoning about sets and functions, which   *)
(* Zenon does best; a leaf that needs arithmetic names SMT.                *)
USE Zenon

ContainerType ==
    [live : BOOLEAN, actor : Instances \cup {0}, active : 0 .. Cardinality(Requesters),
     task : {"none", "timer", "locking"}, manager : Managers \cup {0},
     watched : Instances \cup {0}]

ReferenceType ==
    [pc : {"idle", "locking", "started"}, actor : Instances \cup {0},
     client : BOOLEAN, ours : BOOLEAN]

(* The requests that the tracker of the container counts.                  *)
Tracked(reqs) == {q \in Requesters : reqs[q].ours /\ reqs[q].actor # 0}

(***************************************************************************)
(* What a container and references to it and to other actors may be, with  *)
(* the actors that are shut down and the managers.                         *)
(*                                                                         *)
(* A reference that belongs to the container is one to its actor; all      *)
(* others are to actors that were shut down.  While an eviction is pending *)
(* no request is, and the container remembers the actor's manager; while   *)
(* it awaits the lock nobody watches the actor.                            *)
(***************************************************************************)
HeldWhenStarted(reqs) ==
    \A q \in Requesters :
        reqs[q].pc # "started" => reqs[q].actor = 0 /\ ~reqs[q].client /\ ~reqs[q].ours

OursIsTheContainers(c, reqs) ==
    \A q \in Requesters :
        reqs[q].ours => c.live /\ reqs[q].actor \in {0, c.actor}

OthersAreShut(c, reqs, down) ==
    \A q \in Requesters : ~reqs[q].ours /\ reqs[q].actor # 0 =>
        reqs[q].actor \in down /\ reqs[q].actor # c.actor

EvictionIsSafe(c, reqs, man) ==
    /\ c.task # "none" => /\ c.actor # 0
                          /\ Tracked(reqs) = {}
                          /\ man[c.actor] \in {0, c.manager}
    /\ c.task = "locking" => c.watched = 0

Consistent(c, reqs, down, man) ==
    /\ c \in ContainerType /\ reqs \in [Requesters -> ReferenceType]
    /\ man \in [Instances -> Managers \cup {0}]
    /\ ~c.live => c = NoContainer
    /\ c.actor # 0 => c.actor \notin down
    /\ c.watched \in {0, c.actor}
    /\ c.active = Cardinality(Tracked(reqs))
    /\ HeldWhenStarted(reqs) /\ OursIsTheContainers(c, reqs)
    /\ OthersAreShut(c, reqs, down) /\ EvictionIsSafe(c, reqs, man)

(* The state is consistent, and nothing is remembered of actors that are   *)
(* gone.                                                                   *)
NamespaceInv ==
    /\ isEvictable \in BOOLEAN
    /\ Consistent(container, requests, shut, managerOf)
    /\ shut \subseteq Referenced(container, requests)
    /\ brokenActors \subseteq Referenced(container, requests)
    /\ brokenActors \cap shut = {}
    /\ \A i \in Instances \ Referenced(container, requests) : managerOf[i] = 0

LEMMA InstancesFacts ==
    /\ Cardinality(Requesters) \in Nat /\ IsFiniteSet(Requesters)
    /\ 0 \notin Instances
    /\ IsFiniteSet(Instances) /\ Cardinality(Instances) = Cardinality(Requesters) + 1
  <1>1. Cardinality(Requesters) \in Nat /\ IsFiniteSet(Requesters)
    BY NamespaceAssumption, FS_CardinalityType
  <1>2. 0 \notin Instances
    BY <1>1, SMT DEF Instances
  <1>3. IsFiniteSet(Instances) /\ Cardinality(Instances) = Cardinality(Requesters) + 1
    BY <1>1, FS_Interval, SMTT(30) DEF Instances
  <1> QED
    BY <1>1, <1>2, <1>3

LEMMA NamespaceInitInv == NamespaceInit => NamespaceInv
  <1> SUFFICES ASSUME NamespaceInit PROVE NamespaceInv
    OBVIOUS
  <1>1. /\ container = NoContainer /\ requests = [q \in Requesters |-> NoReference]
        /\ brokenActors = {} /\ shut = {} /\ managerOf = [i \in Instances |-> 0]
        /\ isEvictable \in BOOLEAN
    BY NamespaceAssumption DEF NamespaceInit
  <1>2. container \in ContainerType
    BY <1>1, InstancesFacts, SMT DEF ContainerType, NoContainer
  <1>3. requests \in [Requesters -> ReferenceType]
    BY <1>1 DEF ReferenceType, NoReference
  <1>4. \A q \in Requesters : /\ requests[q].pc = "idle" /\ requests[q].actor = 0
                              /\ ~requests[q].client /\ ~requests[q].ours
    BY <1>1 DEF NoReference
  <1>5. Tracked(requests) = {}
    BY <1>4 DEF Tracked
  <1>6. Cardinality(Tracked(requests)) = 0
    BY <1>5, FS_EmptySet
  <1>7. Consistent(container, requests, shut, managerOf)
    BY <1>1, <1>2, <1>3, <1>4, <1>5, <1>6
    DEF Consistent, HeldWhenStarted, OursIsTheContainers, OthersAreShut, EvictionIsSafe,
        NoContainer
  <1> QED
    BY <1>1, <1>7 DEF NamespaceInv

(* The step to a consistent container and consistent references.           *)
LEMMA BecomeInv ==
    ASSUME NamespaceInv, NEW c, NEW reqs, NEW down, NEW man,
           Consistent(c, reqs, down, man), Become(c, reqs, down, man)
    PROVE  NamespaceInv'
  <1>1. /\ container' = c /\ requests' = reqs /\ isEvictable' = isEvictable
        /\ shut' = down \cap Referenced(c, reqs)
        /\ brokenActors' = (brokenActors \cap Referenced(c, reqs)) \ down
        /\ managerOf' = [i \in Instances |-> IF i \in Referenced(c, reqs) THEN man[i] ELSE 0]
    BY DEF Become
  <1>2. /\ c \in ContainerType /\ reqs \in [Requesters -> ReferenceType]
        /\ man \in [Instances -> Managers \cup {0}]
    BY DEF Consistent
  <1>3. /\ c.actor # 0 => c.actor \in Referenced(c, reqs) /\ c.actor \in Instances
        /\ \A q \in Requesters : reqs[q].actor # 0 => reqs[q].actor \in Referenced(c, reqs)
    BY <1>2 DEF Referenced, ContainerType
  <1>4. /\ managerOf' \in [Instances -> Managers \cup {0}]
        /\ c.actor # 0 => managerOf'[c.actor] = man[c.actor]
    BY <1>1, <1>2, <1>3
  <1>5. Consistent(c, reqs, shut', managerOf')
    <2>1. OthersAreShut(c, reqs, shut')
      BY <1>1, <1>3 DEF Consistent, OthersAreShut
    <2>2. EvictionIsSafe(c, reqs, managerOf')
      BY <1>4 DEF Consistent, EvictionIsSafe
    <2>3. c.actor # 0 => c.actor \notin shut'
      BY <1>1 DEF Consistent
    <2> QED
      BY <1>4, <2>1, <2>2, <2>3 DEF Consistent
  <1>6. Consistent(container, requests, shut, managerOf)'
    BY <1>1, <1>5
  <1>7. /\ (shut \subseteq Referenced(container, requests))'
        /\ (brokenActors \subseteq Referenced(container, requests))'
        /\ (brokenActors \cap shut = {})'
    BY <1>1
  <1>8. (\A i \in Instances \ Referenced(container, requests) : managerOf[i] = 0)'
    BY <1>1
  <1>9. isEvictable' \in BOOLEAN
    BY <1>1 DEF NamespaceInv
  <1> QED
    BY <1>6, <1>7, <1>8, <1>9 DEF NamespaceInv

(* What the invariant says, in the form the steps need.                    *)
LEMMA NamespaceFacts ==
    ASSUME NamespaceInv
    PROVE  /\ container \in ContainerType /\ requests \in [Requesters -> ReferenceType]
           /\ managerOf \in [Instances -> Managers \cup {0}]
           /\ isEvictable \in BOOLEAN
           /\ ~container.live => container = NoContainer
           /\ container.actor # 0 => container.actor \notin shut
           /\ container.watched \in {0, container.actor}
           /\ container.active = Cardinality(Tracked(requests))
           /\ IsFiniteSet(Tracked(requests)) /\ container.active \in Nat
           /\ HeldWhenStarted(requests) /\ OursIsTheContainers(container, requests)
           /\ OthersAreShut(container, requests, shut)
           /\ EvictionIsSafe(container, requests, managerOf)
           /\ shut \subseteq Instances /\ brokenActors \subseteq Instances
  <1>1. Tracked(requests) \in SUBSET Requesters
    BY DEF Tracked
  <1>2. IsFiniteSet(Tracked(requests)) /\ Cardinality(Tracked(requests)) \in Nat
    BY <1>1, InstancesFacts, FS_Subset, FS_CardinalityType
  <1>3. Consistent(container, requests, shut, managerOf)
    BY DEF NamespaceInv
  <1>4. Referenced(container, requests) \subseteq Instances
    BY <1>3, SMT DEF Consistent, ContainerType, ReferenceType, Referenced
  <1> QED
    BY <1>2, <1>3, <1>4 DEF Consistent, NamespaceInv

(* A requester begins to wait for the isolate lock, or gives up.           *)
LEMMA LockingInv ==
    ASSUME NamespaceInv, NEW q \in Requesters, getActor(q) \/ cancelGetActor(q)
    PROVE  NamespaceInv'
  <1>0. requests \in [Requesters -> ReferenceType] /\ HeldWhenStarted(requests)
    BY NamespaceFacts
  <1>1. /\ requests[q].actor = 0 /\ ~requests[q].client /\ ~requests[q].ours
    BY <1>0, SMT DEF getActor, cancelGetActor, NoReference, HeldWhenStarted
  <1>2. UNCHANGED <<isEvictable, container, brokenActors, shut, managerOf>>
    BY DEF getActor, cancelGetActor
  <1>3. /\ requests' \in [Requesters -> ReferenceType]
        /\ \A p \in Requesters : /\ requests'[p].actor = requests[p].actor
                                 /\ requests'[p].client <=> requests[p].client
                                 /\ requests'[p].ours <=> requests[p].ours
                                 /\ requests'[p].pc = "started" <=> requests[p].pc = "started"
    <2>1. CASE getActor(q)
      <3>1. requests' = [requests EXCEPT ![q].pc = "locking"] /\ requests[q].pc = "idle"
        BY <2>1, SMT DEF getActor, NoReference
      <3> QED
        BY <1>0, <3>1 DEF ReferenceType
    <2>2. CASE cancelGetActor(q)
      <3>1. requests' = [requests EXCEPT ![q] = NoReference] /\ requests[q].pc = "locking"
        BY <2>2 DEF cancelGetActor
      <3>2. /\ NoReference \in ReferenceType /\ NoReference.actor = 0 /\ ~NoReference.client
            /\ ~NoReference.ours /\ NoReference.pc = "idle"
        BY DEF NoReference, ReferenceType
      <3>3. \A p \in Requesters : requests'[p] = IF p = q THEN NoReference ELSE requests[p]
        BY <1>0, <3>1
      <3> QED
        BY <1>0, <1>1, <3>1, <3>2, <3>3
    <2> QED
      BY <2>1, <2>2
  <1>4. Tracked(requests') = Tracked(requests)
    BY <1>3 DEF Tracked
  <1>5. Referenced(container', requests') = Referenced(container, requests)
    BY <1>2, <1>3 DEF Referenced
  <1>6. Consistent(container', requests', shut', managerOf')
    <2>1. HeldWhenStarted(requests')
      BY <1>0, <1>3 DEF HeldWhenStarted
    <2>2. /\ OursIsTheContainers(container, requests') /\ OthersAreShut(container, requests', shut)
      BY <1>3, NamespaceFacts DEF OursIsTheContainers, OthersAreShut
    <2>3. EvictionIsSafe(container, requests', managerOf)
      BY <1>4, NamespaceFacts DEF EvictionIsSafe
    <2> QED
      BY <1>2, <1>3, <1>4, <2>1, <2>2, <2>3, NamespaceFacts DEF Consistent
  <1> QED
    BY <1>2, <1>5, <1>6 DEF NamespaceInv

(* There is always a fresh instance for a new actor.                       *)
LEMMA FreshInstance ==
    ASSUME NamespaceInv, container.actor = 0
    PROVE  \E n \in Instances : n \notin Referenced(container, requests)
  <1> DEFINE f == [q \in Requesters |-> requests[q].actor]
             T == {f[q] : q \in Requesters}
  <1> SUFFICES ASSUME Instances \subseteq Referenced(container, requests) PROVE FALSE
    OBVIOUS
  <1>1. Instances \in SUBSET T
    BY DEF Referenced
  <1>2. f \in Surjection(Requesters, T)
    BY DEF Surjection
  <1> HIDE DEF f, T
  <1>3. IsFiniteSet(T) /\ Cardinality(T) <= Cardinality(Requesters)
    BY <1>2, InstancesFacts, FS_Surjection
  <1>4. Cardinality(Instances) <= Cardinality(T) /\ Cardinality(T) \in Nat
    BY <1>1, <1>3, FS_Subset, FS_CardinalityType
  <1> QED
    BY <1>3, <1>4, InstancesFacts, SMT

(* One more reference to the actor of the container.                       *)
LEMMA TrackedAdded ==
    ASSUME NamespaceInv, NEW q \in Requesters, requests[q].actor = 0,
           NEW r \in ReferenceType, r.ours, r.actor # 0,
           NEW reqs, reqs = [requests EXCEPT ![q] = r]
    PROVE  /\ reqs \in [Requesters -> ReferenceType]
           /\ \A p \in Requesters : reqs[p] = IF p = q THEN r ELSE requests[p]
           /\ Cardinality(Tracked(reqs)) = container.active + 1
           /\ Cardinality(Tracked(reqs)) \in 0..Cardinality(Requesters)
  <1>1. /\ reqs \in [Requesters -> ReferenceType]
        /\ \A p \in Requesters : reqs[p] = IF p = q THEN r ELSE requests[p]
    BY NamespaceFacts
  <1>2. Tracked(reqs) = Tracked(requests) \cup {q} /\ q \notin Tracked(requests)
    BY <1>1 DEF Tracked
  <1>3. Cardinality(Tracked(reqs)) = container.active + 1
    <2>1. IsFiniteSet(Tracked(requests)) /\ container.active = Cardinality(Tracked(requests))
      BY NamespaceFacts
    <2>2. Cardinality(Tracked(requests) \cup {q}) = Cardinality(Tracked(requests)) + 1
      BY <1>2, <2>1, FS_AddElement
    <2> QED
      BY <1>2, <2>1, <2>2
  <1>4. Tracked(reqs) \in SUBSET Requesters
    BY DEF Tracked
  <1>5. Cardinality(Tracked(reqs)) <= Cardinality(Requesters)
    BY <1>4, InstancesFacts, FS_Subset
  <1> QED
    BY <1>1, <1>3, <1>5, NamespaceFacts, InstancesFacts, SMT

(* What TakeActor does, by the actor i it takes: the one in the container, *)
(* or a fresh one that gets the manager the container remembers.           *)
LEMMA TakeEffect ==
    ASSUME NamespaceInv, NEW q \in Requesters, NEW m, TakeActor(q, m)
    PROVE  \E i, c, reqs, man :
              /\ i \in Instances
              /\ Become(c, reqs, shut, man)
              /\ reqs = [requests EXCEPT ![q] = [pc |-> "started", actor |-> i,
                                                 client |-> TRUE, ours |-> TRUE]]
              /\ c = [live |-> TRUE, actor |-> i, active |-> container.active + 1,
                      task |-> IF container.active = 0 THEN "none" ELSE container.task,
                      manager |-> container.manager,
                      watched |-> IF container.actor = 0 THEN i ELSE container.watched]
              /\ \/ container.actor = 0 /\ i \notin Referenced(container, requests)
                 \/ container.actor # 0 /\ i = container.actor
              /\ man = [managerOf EXCEPT ![i] =
                    LET had == IF container.actor = 0 THEN container.manager ELSE managerOf[i]
                    IN IF had = 0 THEN m ELSE had]
  <1> DEFINE c0 == IF container.live THEN container ELSE [NoContainer EXCEPT !.live = TRUE]
             i == IF c0.actor = 0
                  THEN CHOOSE n \in Instances : n \notin Referenced(container, requests)
                  ELSE c0.actor
             had == IF c0.actor = 0 THEN container.manager ELSE managerOf[i]
             c == requestActive([c0 EXCEPT !.actor = i,
                                           !.watched = IF c0.actor = 0 THEN i ELSE @])
             reqs == [requests EXCEPT ![q] = [pc |-> "started", actor |-> i,
                                              client |-> TRUE, ours |-> TRUE]]
             man == [managerOf EXCEPT ![i] = IF had = 0 THEN m ELSE had]
  <1>1. Become(c, reqs, shut, man)
    BY DEF TakeActor
  <1>2. /\ container \in ContainerType
        /\ ~container.live => container = NoContainer
    BY NamespaceFacts
  <1>3. c0 = [container EXCEPT !.live = TRUE]
    <2>1. CASE container.live
      <3>1. container.live = TRUE
        BY <1>2, <2>1 DEF ContainerType
      <3> QED
        BY <1>2, <2>1, <3>1 DEF ContainerType
    <2>2. CASE ~container.live
      BY <1>2, <2>2
    <2> QED
      BY <2>1, <2>2
  <1>4. /\ c0 = [live |-> TRUE, actor |-> container.actor, active |-> container.active,
                 task |-> container.task, manager |-> container.manager,
                 watched |-> container.watched]
    BY <1>2, <1>3 DEF ContainerType
  <1>5. /\ c0.actor = container.actor /\ c0.active = container.active
        /\ c0.task = container.task /\ c0.watched = container.watched
        /\ c0.manager = container.manager
    BY <1>4
  <1> HIDE DEF c0
  <1>6. /\ i \in Instances
        /\ \/ container.actor = 0 /\ i \notin Referenced(container, requests)
           \/ container.actor # 0 /\ i = container.actor
    <2>1. CASE container.actor = 0
      BY <1>5, <2>1, FreshInstance
    <2>2. CASE container.actor # 0
      BY <1>2, <1>5, <2>2 DEF ContainerType
    <2> QED
      BY <2>1, <2>2
  <1> HIDE DEF i
  <1>7. c = [live |-> TRUE, actor |-> i, active |-> container.active + 1,
             task |-> IF container.active = 0 THEN "none" ELSE container.task,
             manager |-> container.manager,
             watched |-> IF container.actor = 0 THEN i ELSE container.watched]
    <2> DEFINE d == [c0 EXCEPT !.actor = i, !.watched = IF c0.actor = 0 THEN i ELSE @]
    <2>1. d = [live |-> TRUE, actor |-> i, active |-> container.active,
               task |-> container.task, manager |-> container.manager,
               watched |-> IF container.actor = 0 THEN i ELSE container.watched]
      <3>1. PICK w : w = IF c0.actor = 0 THEN i ELSE c0.watched
        OBVIOUS
      <3>2. PICK a, b, t, n, v : /\ a = container.actor /\ b = container.active
                                 /\ t = container.task /\ n = container.manager
                                 /\ v = container.watched
        OBVIOUS
      <3>3. c0 = [live |-> TRUE, actor |-> a, active |-> b, task |-> t, manager |-> n,
                  watched |-> v]
        BY <1>4, <3>2
      <3>4. d = [c0 EXCEPT !.actor = i, !.watched = w]
        BY <3>1, <3>3
      <3> HIDE DEF d
      <3>5. d = [live |-> TRUE, actor |-> i, active |-> b, task |-> t, manager |-> n,
                 watched |-> w]
        BY <3>3, <3>4
      <3> QED
        BY <1>5, <3>1, <3>2, <3>5
    <2>2. d.active = container.active /\ d.task = container.task
      BY <2>1
    <2>3. c = requestActive(d)
      OBVIOUS
    <2> HIDE DEF d, c
    <2> QED
      BY <2>1, <2>2, <2>3 DEF requestActive
  <1>8. had = IF container.actor = 0 THEN container.manager ELSE managerOf[i]
    BY <1>5
  <1> HIDE DEF c, had
  <1> QED
    BY <1>1, <1>6, <1>7, <1>8

(* A requester takes a reference to the actor, made if there is none.      *)
LEMMA TakeInv ==
    ASSUME NamespaceInv, NEW q \in Requesters, NEW m \in Managers \cup {0},
           requests[q].actor = 0, TakeActor(q, m)
    PROVE  NamespaceInv'
  <1>1. PICK i, c, reqs, man :
              /\ i \in Instances
              /\ Become(c, reqs, shut, man)
              /\ reqs = [requests EXCEPT ![q] = [pc |-> "started", actor |-> i,
                                                 client |-> TRUE, ours |-> TRUE]]
              /\ c = [live |-> TRUE, actor |-> i, active |-> container.active + 1,
                      task |-> IF container.active = 0 THEN "none" ELSE container.task,
                      manager |-> container.manager,
                      watched |-> IF container.actor = 0 THEN i ELSE container.watched]
              /\ \/ container.actor = 0 /\ i \notin Referenced(container, requests)
                 \/ container.actor # 0 /\ i = container.actor
              /\ man = [managerOf EXCEPT ![i] =
                    LET had == IF container.actor = 0 THEN container.manager ELSE managerOf[i]
                    IN IF had = 0 THEN m ELSE had]
    BY TakeEffect, SMT
  <1> DEFINE r == [pc |-> "started", actor |-> i, client |-> TRUE, ours |-> TRUE]
  <1>2. r \in ReferenceType /\ r.ours /\ r.actor = i /\ r.pc = "started" /\ i # 0
    BY <1>1, InstancesFacts DEF ReferenceType
  <1>3. reqs = [requests EXCEPT ![q] = r]
    BY <1>1
  <1> HIDE DEF r
  <1>4. /\ reqs \in [Requesters -> ReferenceType]
        /\ \A p \in Requesters : reqs[p] = IF p = q THEN r ELSE requests[p]
        /\ Cardinality(Tracked(reqs)) = container.active + 1
        /\ Cardinality(Tracked(reqs)) \in 0..Cardinality(Requesters)
    BY <1>2, <1>3, TrackedAdded, ZenonT(60)
  <1>5. container \in ContainerType /\ managerOf \in [Instances -> Managers \cup {0}]
    BY NamespaceFacts
  <1>6. (IF container.active = 0 THEN "none" ELSE container.task) = "none"
    <2>1. CASE container.active = 0
      BY <2>1
    <2>2. CASE container.active # 0
      <3>1. container.active = Cardinality(Tracked(requests))
        BY NamespaceFacts
      <3>2. Tracked(requests) # {}
        BY <2>2, <3>1, FS_EmptySet
      <3> QED
        BY <2>2, <3>2, NamespaceFacts DEF EvictionIsSafe
    <2> QED
      BY <2>1, <2>2
  <1>7. /\ c.live /\ c.actor = i /\ c.active = container.active + 1 /\ c.task = "none"
        /\ c.manager = container.manager
        /\ c.watched = IF container.actor = 0 THEN i ELSE container.watched
    BY <1>1, <1>6
  <1>8. c \in ContainerType
    BY <1>1, <1>4, <1>5, <1>6 DEF ContainerType
  <1>9. man \in [Instances -> Managers \cup {0}]
    <2>1. container.manager \in Managers \cup {0} /\ managerOf[i] \in Managers \cup {0}
      BY <1>1, <1>5 DEF ContainerType
    <2> QED
      BY <1>1, <1>5, <2>1
  <1>10. \A p \in Requesters : requests[p].actor # 0 =>
            requests[p].actor \in Referenced(container, requests)
    BY DEF Referenced
  <1>11. i \notin shut
    <2>1. shut \subseteq Referenced(container, requests)
      BY DEF NamespaceInv
    <2>2. container.actor # 0 => container.actor \notin shut
      BY NamespaceFacts
    <2> QED
      BY <1>1, <2>1, <2>2
  <1>12. c.watched \in {0, c.actor}
    <2>1. container.watched \in {0, container.actor}
      BY NamespaceFacts
    <2> QED
      BY <1>1, <1>7, <2>1
  <1>13. HeldWhenStarted(reqs)
    <2>1. HeldWhenStarted(requests)
      BY NamespaceFacts
    <2> QED
      BY <1>2, <1>4, <2>1 DEF HeldWhenStarted
  <1>14. OursIsTheContainers(c, reqs)
    <2>1. OursIsTheContainers(container, requests)
      BY NamespaceFacts
    <2>2. \A p \in Requesters : requests[p].ours => requests[p].actor \in {0, i}
      BY <1>1, <2>1 DEF OursIsTheContainers
    <2> QED
      BY <1>2, <1>4, <1>7, <2>2 DEF OursIsTheContainers
  <1>15. OthersAreShut(c, reqs, shut)
    <2>1. OthersAreShut(container, requests, shut)
      BY NamespaceFacts
    <2>2. \A p \in Requesters : ~requests[p].ours /\ requests[p].actor # 0 =>
             requests[p].actor \in shut
      BY <2>1 DEF OthersAreShut
    <2> QED
      BY <1>2, <1>4, <1>7, <1>11, <2>2 DEF OthersAreShut
  <1>16. EvictionIsSafe(c, reqs, man)
    BY <1>7 DEF EvictionIsSafe
  <1>17. Consistent(c, reqs, shut, man)
    BY <1>2, <1>4, <1>7, <1>8, <1>9, <1>11, <1>12, <1>13, <1>14, <1>15, <1>16 DEF Consistent
  <1> QED
    BY <1>1, <1>17, BecomeInv

(* What a release leaves of a reference.                                   *)
LEMMA ReleasedFacts ==
    ASSUME NamespaceInv, NEW q \in Requesters, NEW actor \in BOOLEAN, NEW client \in BOOLEAN,
           requests[q].pc = "started"
    PROVE  LET reqs == Released(q, actor, client) IN
           /\ reqs \in [Requesters -> ReferenceType]
           /\ \A p \in Requesters : p # q => reqs[p] = requests[p]
           /\ reqs[q].actor = IF actor THEN 0 ELSE requests[q].actor
           /\ reqs[q].client => requests[q].client
           /\ reqs[q].ours => requests[q].ours
           /\ reqs[q].actor # 0 \/ reqs[q].client
                => (reqs[q].ours <=> requests[q].ours) /\ reqs[q].pc = "started"
           /\ reqs[q].pc # "started" => reqs[q] = NoReference
           /\ ~client => (reqs[q].client <=> requests[q].client)
  <1>1. PICK x \in ReferenceType : x = requests[q]
    BY NamespaceFacts
  <1> DEFINE a == IF actor THEN 0 ELSE x.actor
             k == IF client THEN FALSE ELSE x.client
             r == [x EXCEPT !.actor = IF actor THEN 0 ELSE @,
                            !.client = IF client THEN FALSE ELSE @]
  <1>2. /\ a \in Instances \cup {0} /\ k \in BOOLEAN /\ (k => x.client)
        /\ (~client => (k <=> x.client))
    BY <1>1 DEF ReferenceType
  <1>3. r = [pc |-> x.pc, actor |-> a, client |-> k, ours |-> x.ours]
    <2>1. PICK b, l : b = a /\ l = k
      OBVIOUS
    <2>2. r = [x EXCEPT !.actor = b, !.client = l]
      BY <1>1, <2>1 DEF ReferenceType
    <2> HIDE DEF r
    <2> QED
      BY <1>1, <2>1, <2>2 DEF ReferenceType
  <1> DEFINE s == IF r.actor = 0 /\ ~r.client THEN NoReference ELSE r
  <1>4. Released(q, actor, client) = [requests EXCEPT ![q] = s]
    BY <1>1 DEF Released
  <1> HIDE DEF a, k, r
  <1>5. /\ r.pc = "started" /\ r.actor = a /\ (r.client <=> k) /\ (r.ours <=> x.ours)
        /\ r \in ReferenceType
    BY <1>1, <1>2, <1>3 DEF ReferenceType
  <1>6. /\ NoReference \in ReferenceType /\ NoReference.actor = 0 /\ ~NoReference.client
        /\ ~NoReference.ours
    BY DEF NoReference, ReferenceType
  <1>7. /\ s \in ReferenceType /\ s.actor = a /\ (s.client <=> k)
        /\ (s.ours => x.ours)
        /\ s.actor # 0 \/ s.client => (s.ours <=> x.ours) /\ s.pc = "started"
        /\ s.pc # "started" => s = NoReference
    BY <1>5, <1>6
  <1> HIDE DEF s
  <1>8. requests \in [Requesters -> ReferenceType]
    BY NamespaceFacts
  <1>9. PICK reqs : reqs = Released(q, actor, client)
    OBVIOUS
  <1>10. /\ reqs \in [Requesters -> ReferenceType] /\ reqs[q] = s
         /\ \A p \in Requesters : p # q => reqs[p] = requests[p]
    BY <1>4, <1>7, <1>8, <1>9
  <1>11. a = IF actor THEN 0 ELSE requests[q].actor
    BY <1>1 DEF a
  <1> QED
    BY <1>1, <1>2, <1>7, <1>9, <1>10, <1>11

(* A reference that goes while the container is not told.                  *)
LEMMA UntoldReleaseInv ==
    ASSUME NamespaceInv, NEW q \in Requesters, NEW actor \in BOOLEAN, NEW client \in BOOLEAN,
           requests[q].pc = "started", ~actor \/ ~requests[q].ours,
           Become(container, Released(q, actor, client), shut, managerOf)
    PROVE  NamespaceInv'
  <1>1. PICK reqs : reqs = Released(q, actor, client)
    OBVIOUS
  <1>2. /\ reqs \in [Requesters -> ReferenceType]
        /\ \A p \in Requesters : p # q => reqs[p] = requests[p]
        /\ reqs[q].actor = IF actor THEN 0 ELSE requests[q].actor
        /\ reqs[q].ours => requests[q].ours
        /\ reqs[q].actor # 0 \/ reqs[q].client
             => (reqs[q].ours <=> requests[q].ours) /\ reqs[q].pc = "started"
        /\ reqs[q].pc # "started" => reqs[q] = NoReference
    BY <1>1, ReleasedFacts, SMT
  <1>3. ~NoReference.ours /\ ~NoReference.client /\ NoReference.actor = 0
    BY DEF NoReference
  <1>4. Tracked(reqs) = Tracked(requests)
    BY <1>2 DEF Tracked
  <1>5. HeldWhenStarted(reqs)
    BY <1>2, <1>3, NamespaceFacts DEF HeldWhenStarted
  <1>6. OursIsTheContainers(container, reqs)
    BY <1>2, NamespaceFacts DEF OursIsTheContainers
  <1>7. OthersAreShut(container, reqs, shut)
    BY <1>2, NamespaceFacts DEF OthersAreShut
  <1>8. EvictionIsSafe(container, reqs, managerOf)
    BY <1>4, NamespaceFacts DEF EvictionIsSafe
  <1>9. Consistent(container, reqs, shut, managerOf)
    BY <1>2, <1>4, <1>5, <1>6, <1>7, <1>8, NamespaceFacts DEF Consistent
  <1> QED
    BY <1>1, <1>9, BecomeInv

(* The container after the tracker's count has gone down.                  *)
LEMMA InactiveFacts ==
    ASSUME NamespaceInv, container.active # 0, container.actor # 0
    PROVE  LET c == requestInactive(container) IN
           /\ c \in ContainerType
           /\ c.live = container.live /\ c.actor = container.actor
           /\ c.watched = container.watched /\ c.active = container.active - 1
           /\ c.task = IF c.active = 0 /\ isEvictable THEN "timer" ELSE container.task
           /\ c.manager = IF c.active = 0 /\ isEvictable /\ managerOf[container.actor] # 0
                          THEN managerOf[container.actor] ELSE container.manager
  <1>1. PICK x \in ContainerType : x = container
    BY NamespaceFacts
  <1>2. PICK n \in Managers \cup {0} : n = managerOf[container.actor]
    BY <1>1, NamespaceFacts DEF ContainerType
  <1>3. PICK b : b = x.active - 1
    OBVIOUS
  <1>4. x.active \in 0..Cardinality(Requesters) /\ x.active # 0
    BY <1>1 DEF ContainerType
  <1>5. b \in 0..Cardinality(Requesters)
    BY <1>3, <1>4, InstancesFacts, SMT
  <1>6. PICK d : d = [x EXCEPT !.active = b]
    OBVIOUS
  <1>7. /\ d = [container EXCEPT !.active = @ - 1]
        /\ d \in ContainerType /\ d.live = x.live /\ d.actor = x.actor /\ d.active = b
        /\ d.watched = x.watched /\ d.task = x.task /\ d.manager = x.manager
    BY <1>1, <1>3, <1>5, <1>6 DEF ContainerType
  <1>8. PICK y : y = IF n # 0 THEN n ELSE d.manager
    OBVIOUS
  <1>9. y \in Managers \cup {0}
    BY <1>2, <1>7, <1>8 DEF ContainerType
  <1>10. PICK e : e = [d EXCEPT !.task = "timer", !.manager = y]
    OBVIOUS
  <1>11. /\ e \in ContainerType /\ e.live = x.live /\ e.actor = x.actor /\ e.active = b
         /\ e.watched = x.watched /\ e.task = "timer" /\ e.manager = y
    BY <1>7, <1>9, <1>10 DEF ContainerType
  <1>12. inactive(d) = IF isEvictable THEN e ELSE d
    BY <1>1, <1>2, <1>7, <1>8, <1>10, SMT DEF inactive
  <1>13. requestInactive(container) = IF b = 0 /\ isEvictable THEN e ELSE d
    BY <1>7, <1>12 DEF requestInactive
  <1>14. PICK c : c = requestInactive(container)
    OBVIOUS
  <1>15. c = IF b = 0 /\ isEvictable THEN e ELSE d
    BY <1>13, <1>14
  <1>16. CASE b = 0 /\ isEvictable
    <2>1. c = e
      BY <1>15, <1>16
    <2> QED
      BY <1>1, <1>2, <1>3, <1>7, <1>8, <1>11, <1>14, <1>16, <2>1
  <1>17. CASE ~(b = 0 /\ isEvictable)
    <2>1. c = d
      BY <1>15, <1>17
    <2> QED
      BY <1>1, <1>2, <1>3, <1>7, <1>14, <1>17, <2>1
  <1> QED
    BY <1>16, <1>17

(* A reference of the container's goes: the last one arms the eviction.    *)
LEMMA ToldReleaseInv ==
    ASSUME NamespaceInv, NEW q \in Requesters, NEW client \in BOOLEAN,
           requests[q].pc = "started", requests[q].ours, requests[q].actor # 0,
           Become(requestInactive(container), Released(q, TRUE, client), shut, managerOf)
    PROVE  NamespaceInv'
  <1>0. PICK actor \in BOOLEAN : actor = TRUE
    BY ZenonT(60)
  <1>1. PICK reqs : reqs = Released(q, actor, client)
    OBVIOUS
  <1>2. /\ reqs \in [Requesters -> ReferenceType]
        /\ \A p \in Requesters : p # q => reqs[p] = requests[p]
        /\ reqs[q].actor = 0
        /\ reqs[q].ours => requests[q].ours
        /\ reqs[q].pc # "started" => reqs[q] = NoReference
    <2>1. /\ reqs \in [Requesters -> ReferenceType]
          /\ \A p \in Requesters : p # q => reqs[p] = requests[p]
          /\ reqs[q].actor = IF actor THEN 0 ELSE requests[q].actor
          /\ reqs[q].ours => requests[q].ours
          /\ reqs[q].pc # "started" => reqs[q] = NoReference
      BY <1>1, ReleasedFacts, SMT
    <2> QED
      BY <1>0, <2>1
  <1>3. ~NoReference.ours /\ ~NoReference.client /\ NoReference.actor = 0
    BY DEF NoReference
  <1>4. q \in Tracked(requests) /\ Tracked(reqs) = Tracked(requests) \ {q}
    BY <1>2 DEF Tracked
  <1>5. /\ IsFiniteSet(Tracked(requests)) /\ container.active = Cardinality(Tracked(requests))
        /\ container.active \in Nat
    BY NamespaceFacts
  <1>6. /\ IsFiniteSet(Tracked(reqs))
        /\ Cardinality(Tracked(reqs)) = container.active - 1
    <2>1. /\ IsFiniteSet(Tracked(requests) \ {q})
          /\ Cardinality(Tracked(requests) \ {q}) = Cardinality(Tracked(requests)) - 1
      BY <1>4, <1>5, FS_RemoveElement
    <2> QED
      BY <1>4, <1>5, <2>1
  <1>7. container.active # 0
    BY <1>4, <1>5, FS_EmptySet
  <1>8. container.live /\ container.actor = requests[q].actor /\ container.actor # 0
    BY NamespaceFacts DEF OursIsTheContainers
  <1>9. container.task = "none"
    BY <1>4, NamespaceFacts DEF EvictionIsSafe
  <1>10. PICK c : c = requestInactive(container)
    OBVIOUS
  <1>11. /\ c \in ContainerType
         /\ c.live = container.live /\ c.actor = container.actor
         /\ c.watched = container.watched /\ c.active = container.active - 1
         /\ c.task = IF c.active = 0 /\ isEvictable THEN "timer" ELSE container.task
         /\ c.manager = IF c.active = 0 /\ isEvictable /\ managerOf[container.actor] # 0
                        THEN managerOf[container.actor] ELSE container.manager
    BY <1>7, <1>8, <1>10, InactiveFacts, ZenonT(60)
  <1>12. HeldWhenStarted(reqs)
    BY <1>2, <1>3, NamespaceFacts, ZenonT(60) DEF HeldWhenStarted
  <1>13. OursIsTheContainers(c, reqs)
    BY <1>2, <1>8, <1>11, NamespaceFacts DEF OursIsTheContainers
  <1>14. OthersAreShut(c, reqs, shut)
    BY <1>2, <1>11, NamespaceFacts DEF OthersAreShut
  <1>15. EvictionIsSafe(c, reqs, managerOf)
    <2>1. c.task # "none" => c.active = 0 /\ isEvictable
      BY <1>9, <1>11
    <2>2. c.active = 0 => Tracked(reqs) = {}
      BY <1>6, <1>11, FS_EmptySet
    <2>3. c.task # "locking"
      BY <1>9, <1>11
    <2> QED
      BY <1>8, <1>11, <2>1, <2>2, <2>3 DEF EvictionIsSafe
  <1>16. Consistent(c, reqs, shut, managerOf)
    BY <1>2, <1>6, <1>8, <1>11, <1>12, <1>13, <1>14, <1>15, NamespaceFacts DEF Consistent
  <1> QED
    BY <1>0, <1>1, <1>10, <1>16, BecomeInv

(* A request is drained, its interface dropped, or both.                   *)
LEMMA ReleaseInv ==
    ASSUME NamespaceInv, NEW q \in Requesters,
           \/ RequestDrained(q)
           \/ DropInterface(q)
           \/ requests[q].actor # 0 /\ EndRequest(q)
    PROVE  NamespaceInv'
  <1>1. requests[q].actor # 0 \/ requests[q].client
    BY DEF RequestDrained, Drained, DropInterface
  <1>2. requests[q].pc = "started"
    BY <1>1, NamespaceFacts DEF HeldWhenStarted
  <1>3. requests[q].ours \in BOOLEAN
    BY NamespaceFacts DEF ReferenceType
  <1>4. CASE DropInterface(q)
    BY <1>2, <1>4, UntoldReleaseInv DEF DropInterface
  <1>5. CASE RequestDrained(q)
    <2>1. CASE requests[q].ours
      BY <1>2, <1>5, <2>1, ToldReleaseInv DEF RequestDrained, Drained
    <2>2. CASE ~requests[q].ours
      BY <1>2, <1>5, <2>2, UntoldReleaseInv DEF RequestDrained, Drained
    <2> QED
      BY <2>1, <2>2
  <1>6. CASE requests[q].actor # 0 /\ EndRequest(q)
    <2>1. CASE requests[q].ours
      BY <1>2, <1>6, <2>1, ToldReleaseInv DEF EndRequest
    <2>2. CASE ~requests[q].ours
      BY <1>2, <1>6, <2>2, UntoldReleaseInv DEF EndRequest
    <2> QED
      BY <2>1, <2>2
  <1> QED
    BY <1>4, <1>5, <1>6

(* While an eviction is pending nobody shares the actor.                   *)
LEMMA EvictionFacts ==
    ASSUME NamespaceInv, container.task # "none"
    PROVE  /\ container.actor # 0 /\ container.actor \in Instances
           /\ Tracked(requests) = {} /\ container.live
           /\ \A q \in Requesters : requests[q].actor # container.actor
           /\ \A q \in Requesters : requests[q].ours => requests[q].actor = 0
  <1>1. container.actor # 0 /\ Tracked(requests) = {} /\ container.actor \in Instances
    BY NamespaceFacts DEF EvictionIsSafe, ContainerType
  <1>2. container.live
    BY <1>1, NamespaceFacts, SMT DEF NoContainer
  <1>3. \A q \in Requesters : requests[q].ours => requests[q].actor = 0
    BY <1>1 DEF Tracked
  <1>4. \A q \in Requesters : requests[q].actor # container.actor
    BY <1>1, <1>3, NamespaceFacts DEF OthersAreShut
  <1> QED
    BY <1>1, <1>2, <1>3, <1>4

(* The eviction itself.                                                    *)
LEMMA EvictInv ==
    ASSUME NamespaceInv, container.task # "none", NEW c, c = [container EXCEPT !.watched = 0],
           Become(Evicted(c), requests, shut \cup {c.actor}, managerOf)
    PROVE  NamespaceInv'
  <1>1. PICK x \in ContainerType : x = container
    BY NamespaceFacts
  <1>2. PICK e : e = Evicted(c)
    OBVIOUS
  <1>3. /\ e \in ContainerType /\ e.live = container.live /\ e.actor = 0 /\ e.watched = 0
        /\ e.active = container.active /\ e.task = "none" /\ e.manager = container.manager
        /\ c.actor = container.actor
    BY <1>1, <1>2 DEF ContainerType, Evicted
  <1>4. PICK down : down = shut \cup {c.actor}
    OBVIOUS
  <1>5. shut \subseteq down
    BY <1>4
  <1>6. OursIsTheContainers(e, requests)
    BY <1>3, EvictionFacts DEF OursIsTheContainers
  <1>7. OthersAreShut(e, requests, down)
    BY <1>3, <1>5, NamespaceFacts DEF OthersAreShut
  <1>8. EvictionIsSafe(e, requests, managerOf)
    BY <1>3 DEF EvictionIsSafe
  <1>9. Consistent(e, requests, down, managerOf)
    BY <1>3, <1>6, <1>7, <1>8, NamespaceFacts, EvictionFacts DEF Consistent
  <1> QED
    BY <1>2, <1>4, <1>9, BecomeInv

(* The delay of handleShutdown has passed.                                 *)
LEMMA ShutdownTimerInv ==
    ASSUME NamespaceInv, ShutdownTimer
    PROVE  NamespaceInv'
  <1>1. PICK c : c = [container EXCEPT !.watched = 0]
    OBVIOUS
  <1>2. container.task = "timer" /\ ShutdownOf(c)
    BY <1>1 DEF ShutdownTimer
  <1>3. PICK x \in ContainerType : x = container
    BY NamespaceFacts
  <1>4. /\ c \in ContainerType /\ c.live = container.live /\ c.actor = container.actor
        /\ c.watched = 0 /\ c.active = container.active /\ c.manager = container.manager
    BY <1>1, <1>3 DEF ContainerType
  <1>5. ~ \E q \in Requesters : requests[q].actor = c.actor
    BY <1>2, <1>4, EvictionFacts
  <1>6. CASE c.manager # 0
    <2>1. PICK d : d = [c EXCEPT !.task = "locking"]
      OBVIOUS
    <2>2. Become(d, requests, shut, managerOf)
      BY <1>2, <1>5, <1>6, <2>1 DEF ShutdownOf
    <2>3. /\ d \in ContainerType /\ d.live = container.live /\ d.actor = container.actor
          /\ d.watched = 0 /\ d.active = container.active /\ d.manager = container.manager
          /\ d.task = "locking"
      BY <1>4, <2>1 DEF ContainerType
    <2>4. OursIsTheContainers(d, requests) /\ OthersAreShut(d, requests, shut)
      BY <2>3, NamespaceFacts DEF OursIsTheContainers, OthersAreShut
    <2>5. EvictionIsSafe(d, requests, managerOf)
      BY <1>2, <2>3, NamespaceFacts DEF EvictionIsSafe
    <2>6. Consistent(d, requests, shut, managerOf)
      BY <1>2, <2>3, <2>4, <2>5, NamespaceFacts, EvictionFacts DEF Consistent
    <2> QED
      BY <2>2, <2>6, BecomeInv
  <1>7. CASE c.manager = 0
    <2>1. Become(Evicted(c), requests, shut \cup {c.actor}, managerOf)
      BY <1>2, <1>5, <1>7 DEF ShutdownOf
    <2> QED
      BY <1>1, <1>2, <2>1, EvictInv
  <1> QED
    BY <1>6, <1>7

(* handleShutdown with the isolate lock.                                   *)
LEMMA ShutdownLockedInv ==
    ASSUME NamespaceInv, ShutdownLocked
    PROVE  NamespaceInv'
  <1>1. container.task = "locking" /\ container.watched = 0
    BY NamespaceFacts DEF ShutdownLocked, EvictionIsSafe
  <1>2. PICK c : c = [container EXCEPT !.watched = 0]
    OBVIOUS
  <1>3. c = container
    BY <1>1, <1>2, NamespaceFacts DEF ContainerType
  <1>4. Become(Evicted(c), requests, shut \cup {c.actor}, managerOf)
    BY <1>3 DEF ShutdownLocked
  <1> QED
    BY <1>1, <1>2, <1>4, EvictInv

(* The container leaves the map.                                           *)
LEMMA DestroyInv ==
    ASSUME NamespaceInv, DestroyContainer
    PROVE  NamespaceInv'
  <1>1. PICK down : down = shut \cup {container.actor}
    OBVIOUS
  <1>2. PICK reqs : reqs = [q \in Requesters |-> [requests[q] EXCEPT !.ours = FALSE]]
    OBVIOUS
  <1>3. Become(NoContainer, reqs, down, managerOf)
    BY <1>1, <1>2 DEF DestroyContainer, DestroyedWith
  <1>4. requests \in [Requesters -> ReferenceType]
    BY NamespaceFacts
  <1>5. \A q \in Requesters :
           /\ reqs[q] \in ReferenceType /\ reqs[q].pc = requests[q].pc
           /\ reqs[q].actor = requests[q].actor
           /\ (reqs[q].client <=> requests[q].client) /\ ~reqs[q].ours
    BY <1>2, <1>4 DEF ReferenceType
  <1>6. reqs \in [Requesters -> ReferenceType]
    BY <1>2, <1>5
  <1>7. /\ NoContainer \in ContainerType /\ ~NoContainer.live /\ NoContainer.actor = 0
        /\ NoContainer.watched = 0 /\ NoContainer.active = 0 /\ NoContainer.task = "none"
    BY InstancesFacts, SMT DEF NoContainer, ContainerType
  <1>8. Tracked(reqs) = {}
    BY <1>5 DEF Tracked
  <1>9. Cardinality(Tracked(reqs)) = 0
    BY <1>8, FS_EmptySet
  <1>10. HeldWhenStarted(reqs) /\ OursIsTheContainers(NoContainer, reqs)
    BY <1>5, NamespaceFacts DEF HeldWhenStarted, OursIsTheContainers
  <1>11. OthersAreShut(NoContainer, reqs, down)
    <2>1. SUFFICES ASSUME NEW q \in Requesters, requests[q].actor # 0
                   PROVE  requests[q].actor \in down
      BY <1>5, <1>7 DEF OthersAreShut
    <2>2. CASE requests[q].ours
      BY <1>1, <2>1, <2>2, NamespaceFacts DEF OursIsTheContainers
    <2>3. CASE ~requests[q].ours
      BY <1>1, <2>1, <2>3, NamespaceFacts DEF OthersAreShut
    <2> QED
      BY <2>2, <2>3
  <1>12. EvictionIsSafe(NoContainer, reqs, managerOf)
    BY <1>7 DEF EvictionIsSafe
  <1>13. Consistent(NoContainer, reqs, down, managerOf)
    BY <1>6, <1>7, <1>9, <1>10, <1>11, <1>12, NamespaceFacts DEF Consistent
  <1> QED
    BY <1>3, <1>13, BecomeInv

(* An actor breaks.                                                        *)
LEMMA BreakInv ==
    ASSUME NamespaceInv, NEW i \in Instances, Break(i)
    PROVE  NamespaceInv'
  <1>1. /\ i \in Referenced(container, requests) \ (shut \cup brokenActors)
        /\ brokenActors' = brokenActors \cup {i}
        /\ UNCHANGED <<isEvictable, container, requests, shut, managerOf>>
    BY DEF Break
  <1> QED
    BY <1>1 DEF NamespaceInv

(* The actor in which a handler runs is the one in the container.          *)
LEMMA RunsInTheContainer ==
    ASSUME NamespaceInv, NEW q \in Requesters, Runs(q)
    PROVE  /\ requests[q].ours /\ requests[q].actor = container.actor
           /\ container.actor # 0 /\ container.actor \in Instances
           /\ container.live /\ container.task = "none"
           /\ container.actor \in Referenced(container, requests)
  <1>1. requests[q].actor # 0 /\ requests[q].actor \notin shut
    BY DEF Runs
  <1>2. requests[q].ours
    BY <1>1, NamespaceFacts DEF OthersAreShut
  <1>3. requests[q].actor = container.actor /\ container.live
    BY <1>1, <1>2, NamespaceFacts DEF OursIsTheContainers
  <1>4. container.task = "none"
    BY <1>1, <1>2, NamespaceFacts DEF EvictionIsSafe, Tracked
  <1>5. container.actor \in Instances
    BY <1>1, <1>3, NamespaceFacts DEF ContainerType
  <1> QED
    BY <1>1, <1>2, <1>3, <1>4, <1>5 DEF Referenced

(* A manager that is made is a new one.                                    *)
LEMMA ManagerForFacts ==
    ASSUME NamespaceInv, NEW i \in Instances, managerOf[i] # 0 \/ Managers \ Alive # {}
    PROVE  /\ ManagerFor(i) \in Managers /\ ManagerFor(i) # 0
           /\ managerOf[i] # 0 => ManagerFor(i) = managerOf[i]
           /\ managerOf[i] = 0 => ManagerFor(i) \notin Alive
  <1>1. managerOf[i] \in Managers \cup {0}
    BY NamespaceFacts
  <1>2. CASE managerOf[i] # 0
    BY <1>1, <1>2, NamespaceAssumption DEF ManagerFor
  <1>3. CASE managerOf[i] = 0
    <2>1. \E n \in Managers : n \notin Alive
      BY <1>3
    <2>2. ManagerFor(i) = CHOOSE n \in Managers : n \notin Alive
      BY <1>3 DEF ManagerFor
    <2> QED
      BY <1>3, <2>1, <2>2, NamespaceAssumption
  <1> QED
    BY <1>2, <1>3

(* A WebSocket is accepted: the actor has a manager from then on.          *)
LEMMA AcceptInv ==
    ASSUME NamespaceInv, NEW r \in Calls, acceptWebSocket(r)
    PROVE  NamespaceInv'
  <1>0. r \in Requesters
    BY HibernationAssumption
  <1>1. PICK i \in Instances : i = requests[r].actor
    BY <1>0, RunsInTheContainer DEF acceptWebSocket
  <1>2. /\ i = container.actor /\ container.task = "none" /\ i # 0
        /\ i \in Referenced(container, requests)
    BY <1>0, <1>1, RunsInTheContainer DEF acceptWebSocket
  <1>3. PICK n : n = ManagerFor(i)
    OBVIOUS
  <1>4. n \in Managers
    BY <1>1, <1>3, ManagerForFacts DEF acceptWebSocket
  <1>5. /\ managerOf' = [managerOf EXCEPT ![i] = n]
        /\ UNCHANGED <<isEvictable, container, requests, brokenActors, shut>>
    BY <1>1, <1>3 DEF acceptWebSocket
  <1>6. managerOf' \in [Instances -> Managers \cup {0}]
    BY <1>4, <1>5, NamespaceFacts
  <1>7. EvictionIsSafe(container, requests, managerOf')
    BY <1>2, NamespaceFacts DEF EvictionIsSafe
  <1>8. Consistent(container, requests, shut, managerOf')
    BY <1>6, <1>7 DEF Consistent, NamespaceInv
  <1>9. \A j \in Instances \ Referenced(container, requests) : managerOf'[j] = 0
    BY <1>2, <1>5, NamespaceFacts DEF NamespaceInv
  <1> QED
    BY <1>5, <1>8, <1>9 DEF NamespaceInv

-----------------------------------------------------------------------------
(* WebSockets.                                                             *)

SocketType ==
    [pc : {"none", "reading", "waiting", "handling", "stuck"}, manager : Managers \cup {0},
     active : Instances \cup {0}, kind : Kinds, closed : BOOLEAN]

(* The manager of the object: its actor's, or the one remembered.          *)
CurrentManager ==
    IF container.actor # 0 THEN managerOf[container.actor] ELSE container.manager

(* A WebSocket for which a close event was sent is not read any more.      *)
ClosedIsNotRead(x) ==
    x.closed => x.pc # "reading" /\ x.kind \in {"close", "disconnect", "error"}

(* Every WebSocket has a manager, that of the object if its call is of the *)
(* container; a call that starts has none.                                 *)
SocketIsSound(r, x) ==
    /\ x # NoSocket => x.manager # 0
    /\ requests[r].pc = "locking" => x = NoSocket
    /\ ClosedIsNotRead(x)
    /\ x # NoSocket /\ requests[r].client /\ requests[r].ours
       => x.manager = CurrentManager /\ x.active \in {0, container.actor}

SocketsInv ==
    /\ sockets \in [Calls -> SocketType]
    /\ \A r \in Calls : SocketIsSound(r, sockets[r])

HibernationInv == NamespaceInv /\ SocketsInv

(* What a step may not do.                                                 *)
LeavesInOrderStep ==
    container.actor # 0 /\ container'.actor # container.actor
    => \/ container'.live /\ ~HasRequests
       \/ ~HasClients
       \/ container.actor \in brokenActors

ConnectedIsKeptStep ==
    \A r \in Calls : Ours(r) /\ sockets[r].pc = "reading" /\ sockets'[r] = NoSocket
                     => container.actor \in brokenActors

ClosesOnceStep ==
    \A r \in Calls : sockets[r].closed /\ sockets'[r].kind # sockets[r].kind
                     => sockets'[r].kind \in {"error", "none"}

StepIsSound ==
    SocketsInv' /\ LeavesInOrderStep /\ ConnectedIsKeptStep /\ ClosesOnceStep

(* A step of the namespace under which the WebSockets of the container     *)
(* keep their manager.                                                     *)
Smooth ==
    /\ \A r \in Calls : Ours(r) => CurrentManager' = CurrentManager
    /\ \A r \in Calls :
          requests'[r].client /\ requests'[r].ours /\ sockets[r] # NoSocket
          => requests[r].client /\ requests[r].ours
    /\ \A r \in Calls : requests'[r].pc = "locking" => sockets[r] = NoSocket
    /\ \/ container.actor \in {0, container'.actor}
       \/ container'.live /\ ~HasRequests

(* What may become of the WebSocket of call r in such a step.              *)
Follows(r, x) ==
    \/ x = NoSocket /\ sockets[r].pc # "reading"
    \/ /\ sockets[r] # NoSocket /\ x # NoSocket
       /\ x.manager = sockets[r].manager
       /\ ClosedIsNotRead(x)
       /\ Ours(r) => x.active \in {0, container'.actor}
       /\ sockets[r].closed /\ x.kind # sockets[r].kind => x.kind \in {"error", "none"}

LEMMA NoSocketFacts ==
    /\ NoSocket \in SocketType /\ NoSocket.pc = "none" /\ NoSocket.kind = "none"
    /\ ~NoSocket.closed /\ NoSocket.manager = 0 /\ NoSocket.active = 0
  BY DEF NoSocket, SocketType, Kinds

(* The WebSockets follow a smooth step.                                    *)
LEMMA SmoothStep ==
    ASSUME HibernationInv, NamespaceInv', Smooth,
           NEW s \in [Calls -> SocketType], sockets' = Kept(s) \/ sockets' = s,
           \A r \in Calls : Follows(r, s[r])
    PROVE  StepIsSound
  <1>0. sockets \in [Calls -> SocketType] /\ \A r \in Calls : SocketIsSound(r, sockets[r])
    BY DEF HibernationInv, SocketsInv
  <1>1. \A r \in Calls : sockets'[r] = s[r] \/ sockets'[r] = NoSocket
    BY DEF Kept
  <1>2. sockets' \in [Calls -> SocketType]
    <2>1. CASE sockets' = s
      BY <2>1
    <2>2. CASE sockets' = Kept(s)
      BY <2>2, NoSocketFacts DEF Kept
    <2> QED
      BY <2>1, <2>2
  <1>3. ASSUME NEW r \in Calls PROVE SocketIsSound(r, sockets[r])'
    <2>1. CASE sockets'[r] = NoSocket
      BY <2>1, NoSocketFacts DEF SocketIsSound, ClosedIsNotRead
    <2>2. CASE sockets'[r] = s[r] /\ s[r] # NoSocket
      <3>1. /\ sockets[r] # NoSocket /\ s[r].manager = sockets[r].manager
            /\ ClosedIsNotRead(s[r])
            /\ Ours(r) => s[r].active \in {0, container'.actor}
        BY <2>2 DEF Follows
      <3>2. s[r].manager # 0
        BY <1>0, <3>1 DEF SocketIsSound
      <3>3. requests'[r].pc # "locking"
        BY <3>1 DEF Smooth
      <3>4. requests'[r].client /\ requests'[r].ours =>
               s[r].manager = CurrentManager' /\ s[r].active \in {0, container'.actor}
        <4>1. SUFFICES ASSUME requests'[r].client /\ requests'[r].ours
                       PROVE  s[r].manager = CurrentManager' /\ s[r].active \in {0, container'.actor}
          OBVIOUS
        <4>2. requests[r].client /\ requests[r].ours
          BY <3>1, <4>1 DEF Smooth
        <4>3. Ours(r) /\ sockets[r].manager = CurrentManager
          BY <1>0, <3>1, <4>2 DEF Ours, SocketIsSound
        <4>4. CurrentManager' = CurrentManager
          BY <4>3 DEF Smooth
        <4> QED
          BY <3>1, <4>3, <4>4
      <3> QED
        BY <2>2, <3>1, <3>2, <3>3, <3>4 DEF SocketIsSound, ClosedIsNotRead
    <2> QED
      BY <1>1, <2>1, <2>2
  <1>4. LeavesInOrderStep
    BY DEF Smooth, LeavesInOrderStep
  <1>5. ConnectedIsKeptStep
    <2>1. SUFFICES ASSUME NEW r \in Calls, Ours(r), sockets[r].pc = "reading",
                          sockets'[r] = NoSocket
                   PROVE  FALSE
      BY DEF ConnectedIsKeptStep
    <2>2. s[r] # NoSocket /\ s[r].manager = sockets[r].manager
      BY <2>1 DEF Follows
    <2>3. sockets[r].manager = CurrentManager
      BY <1>0, <2>1 DEF Ours, SocketIsSound
    <2>4. s[r].manager = CurrentManager'
      BY <2>1, <2>2, <2>3 DEF Smooth
    <2>5. CurrentManager' \in Alive'
      <3>1. container'.actor \in Instances \cup {0}
        BY DEF NamespaceInv, Consistent, ContainerType
      <3> QED
        BY <3>1 DEF CurrentManager, Alive
    <2>6. sockets'[r] = s[r]
      BY <2>4, <2>5 DEF Kept
    <2> QED
      BY <2>1, <2>2, <2>6
  <1>6. ClosesOnceStep
    <2>1. SUFFICES ASSUME NEW r \in Calls, sockets[r].closed,
                          sockets'[r].kind # sockets[r].kind
                   PROVE  sockets'[r].kind \in {"error", "none"}
      BY DEF ClosesOnceStep
    <2>2. CASE sockets'[r] = NoSocket
      BY <2>2, NoSocketFacts
    <2>3. CASE sockets'[r] = s[r] /\ s[r] # NoSocket
      BY <2>1, <2>3 DEF Follows
    <2> QED
      BY <1>1, <2>2, <2>3
  <1> QED
    BY <1>2, <1>3, <1>4, <1>5, <1>6 DEF StepIsSound, SocketsInv

(* A smooth step that does nothing else to the WebSockets.                 *)
LEMMA PlainStep ==
    ASSUME HibernationInv, NamespaceInv', Smooth,
           sockets' = Kept(sockets) \/ sockets' = sockets,
           \A r \in Calls : Ours(r) => container.actor \in {0, container'.actor}
    PROVE  StepIsSound
  <1>1. PICK s \in [Calls -> SocketType] : s = sockets
    BY DEF HibernationInv, SocketsInv
  <1>2. Kept(sockets) = Kept(s)
    BY <1>1
  <1>3. ASSUME NEW r \in Calls PROVE Follows(r, s[r])
    <2>1. CASE sockets[r] = NoSocket
      BY <1>1, <2>1, NoSocketFacts DEF Follows
    <2>2. CASE sockets[r] # NoSocket
      <3>1. SocketIsSound(r, sockets[r])
        BY DEF HibernationInv, SocketsInv
      <3>2. Ours(r) => s[r].active \in {0, container'.actor}
        BY <1>1, <2>2, <3>1 DEF Ours, SocketIsSound
      <3> QED
        BY <1>1, <2>2, <3>1, <3>2 DEF Follows, SocketIsSound
    <2> QED
      BY <2>1, <2>2
  <1> QED
    BY <1>1, <1>2, <1>3, SmoothStep

(* The manager of the actor in the container outlives a step to it.        *)
LEMMA BecomeManager ==
    ASSUME NEW c, NEW reqs, NEW down, NEW man, Become(c, reqs, down, man),
           c.actor \in Instances \cup {0}
    PROVE  /\ container' = c /\ requests' = reqs
           /\ CurrentManager' = IF c.actor # 0 THEN man[c.actor] ELSE c.manager
  <1>1. /\ container' = c /\ requests' = reqs
        /\ managerOf' = [i \in Instances |-> IF i \in Referenced(c, reqs) THEN man[i] ELSE 0]
    BY DEF Become
  <1>2. c.actor # 0 => c.actor \in Referenced(c, reqs)
    BY DEF Referenced
  <1> QED
    BY <1>1, <1>2 DEF CurrentManager

LEMMA SocketFacts ==
    ASSUME HibernationInv, NEW r \in Calls
    PROVE  /\ r \in Requesters /\ EventOf(r) \in Requesters /\ EventOf(r) \notin Calls
           /\ sockets[r] \in SocketType
           /\ sockets[r] # NoSocket => sockets[r].manager # 0
           /\ requests[r].pc = "locking" => sockets[r] = NoSocket
           /\ ClosedIsNotRead(sockets[r])
           /\ Ours(r) => /\ sockets[r].manager = CurrentManager /\ CurrentManager # 0
                         /\ sockets[r].active \in {0, container.actor}
  <1>1. sockets \in [Calls -> SocketType] /\ SocketIsSound(r, sockets[r])
    BY DEF HibernationInv, SocketsInv
  <1> QED
    BY <1>1, HibernationAssumption DEF SocketIsSound, Ours

(* Taking the actor is smooth: a new one gets the remembered manager.      *)
LEMMA TakeSmooth ==
    ASSUME HibernationInv, NEW q \in Requesters, NEW m, TakeActor(q, m),
           q \in Calls => sockets[q] = NoSocket
    PROVE  Smooth /\ container'.actor \in Instances /\ container.actor \in {0, container'.actor}
  <1>0. NamespaceInv
    BY DEF HibernationInv
  <1>1. PICK i, c, reqs, man :
              /\ i \in Instances
              /\ Become(c, reqs, shut, man)
              /\ reqs = [requests EXCEPT ![q] = [pc |-> "started", actor |-> i,
                                                 client |-> TRUE, ours |-> TRUE]]
              /\ c = [live |-> TRUE, actor |-> i, active |-> container.active + 1,
                      task |-> IF container.active = 0 THEN "none" ELSE container.task,
                      manager |-> container.manager,
                      watched |-> IF container.actor = 0 THEN i ELSE container.watched]
              /\ \/ container.actor = 0 /\ i \notin Referenced(container, requests)
                 \/ container.actor # 0 /\ i = container.actor
              /\ man = [managerOf EXCEPT ![i] =
                    LET had == IF container.actor = 0 THEN container.manager ELSE managerOf[i]
                    IN IF had = 0 THEN m ELSE had]
    BY <1>0, TakeEffect, SMTT(30)
  <1>2. c.actor = i /\ i # 0 /\ requests \in [Requesters -> ReferenceType]
        /\ managerOf \in [Instances -> Managers \cup {0}]
    BY <1>0, <1>1, InstancesFacts, NamespaceFacts
  <1>3. /\ container' = c /\ requests' = reqs /\ CurrentManager' = man[i]
    BY <1>1, <1>2, BecomeManager, ZenonT(60)
  <1>4. container.actor \in {0, container'.actor}
    BY <1>1, <1>2, <1>3
  <1>5. ASSUME NEW r \in Calls, Ours(r) PROVE CurrentManager' = CurrentManager
    <2>1. CurrentManager # 0
      BY <1>5, SocketFacts
    <2>2. CurrentManager = IF container.actor = 0 THEN container.manager ELSE managerOf[i]
      BY <1>1 DEF CurrentManager
    <2>3. man[i] = CurrentManager
      BY <1>1, <1>2, <2>1, <2>2
    <2> QED
      BY <1>3, <2>3
  <1>6. \A p \in Requesters : p # q => requests'[p] = requests[p]
    BY <1>1, <1>2, <1>3
  <1>7. requests'[q].pc = "started"
    BY <1>1, <1>2, <1>3
  <1>8. \A r \in Calls : requests'[r].pc = "locking" => sockets[r] = NoSocket
    BY <1>6, <1>7, SocketFacts
  <1>9. \A r \in Calls :
          requests'[r].client /\ requests'[r].ours /\ sockets[r] # NoSocket
          => requests[r].client /\ requests[r].ours
    BY <1>6, SocketFacts
  <1> QED
    BY <1>1, <1>2, <1>3, <1>4, <1>5, <1>8, <1>9 DEF Smooth

(* So is letting it go.                                                    *)
LEMMA ReleaseSmooth ==
    ASSUME HibernationInv, NEW q \in Requesters,
           \/ RequestDrained(q)
           \/ DropInterface(q)
           \/ requests[q].actor # 0 /\ EndRequest(q)
    PROVE  Smooth /\ container'.actor = container.actor
  <1>0. NamespaceInv /\ container \in ContainerType
    BY NamespaceFacts DEF HibernationInv
  <1>1. requests[q].actor # 0 \/ requests[q].client
    BY DEF RequestDrained, Drained, DropInterface
  <1>2. requests[q].pc = "started" /\ requests[q].ours \in BOOLEAN
    BY <1>0, <1>1, NamespaceFacts DEF HeldWhenStarted, ReferenceType
  <1>3. PICK actor \in BOOLEAN, client \in BOOLEAN :
           /\ actor => requests[q].actor # 0
           /\ Become(IF actor /\ requests[q].ours THEN requestInactive(container) ELSE container,
                     Released(q, actor, client), shut, managerOf)
    <2>1. CASE DropInterface(q)
      BY <2>1 DEF DropInterface
    <2>2. CASE RequestDrained(q)
      BY <2>2 DEF RequestDrained, Drained
    <2>3. CASE requests[q].actor # 0 /\ EndRequest(q)
      BY <2>3, ZenonT(60) DEF EndRequest
    <2> QED
      BY <2>1, <2>2, <2>3
  <1>4. PICK reqs : reqs = Released(q, actor, client)
    OBVIOUS
  <1>5. /\ \A p \in Requesters : p # q => reqs[p] = requests[p]
        /\ reqs[q].client => requests[q].client
        /\ reqs[q].ours => requests[q].ours
        /\ reqs[q].pc # "started" => reqs[q] = NoReference
    BY <1>0, <1>2, <1>4, ReleasedFacts, SMTT(30)
  <1>6. PICK c : c = IF actor /\ requests[q].ours THEN requestInactive(container) ELSE container
    OBVIOUS
  <1>7. c.actor = container.actor /\ (c.actor # 0 \/ c.manager = container.manager)
    <2>1. CASE actor /\ requests[q].ours
      <3>1. container.actor = requests[q].actor /\ container.actor # 0
        BY <1>0, <1>3, <2>1, NamespaceFacts DEF OursIsTheContainers
      <3>2. q \in Tracked(requests)
        BY <1>3, <2>1 DEF Tracked
      <3>3. container.active # 0
        <4>1. container.active = Cardinality(Tracked(requests)) /\ IsFiniteSet(Tracked(requests))
          BY <1>0, NamespaceFacts
        <4> QED
          BY <3>2, <4>1, FS_EmptySet
      <3>4. c = requestInactive(container)
        BY <1>6, <2>1
      <3> QED
        BY <1>0, <3>1, <3>3, <3>4, InactiveFacts
    <2>2. CASE ~(actor /\ requests[q].ours)
      BY <1>6, <2>2
    <2> QED
      BY <2>1, <2>2
  <1>8. Become(c, reqs, shut, managerOf)
    BY <1>3, <1>4, <1>6
  <1>9. c.actor \in Instances \cup {0}
    BY <1>0, <1>7 DEF ContainerType
  <1>10. /\ container' = c /\ requests' = reqs
         /\ CurrentManager' = IF c.actor # 0 THEN managerOf[c.actor] ELSE c.manager
    BY <1>8, <1>9, BecomeManager
  <1>11. CurrentManager' = CurrentManager
    BY <1>7, <1>10 DEF CurrentManager
  <1>12. \A r \in Calls : requests'[r].pc = "locking" => sockets[r] = NoSocket
    <2>1. NoReference.pc = "idle"
      BY DEF NoReference
    <2> QED
      BY <1>5, <1>10, <2>1, SocketFacts
  <1>13. \A r \in Calls :
          requests'[r].client /\ requests'[r].ours /\ sockets[r] # NoSocket
          => requests[r].client /\ requests[r].ours
    BY <1>5, <1>10, SocketFacts
  <1> QED
    BY <1>7, <1>10, <1>11, <1>12, <1>13 DEF Smooth

(* The calls.                                                              *)
LEMMA CallMovesSound ==
    ASSUME HibernationInv, CallMoves
    PROVE  NamespaceInv' /\ StepIsSound
  <1>0. NamespaceInv
    BY DEF HibernationInv
  <1>1. sockets' = Kept(sockets)
    BY DEF CallMoves
  <1>2. PICK q \in Callers : \/ (q \in Calls => sockets[q] = NoSocket) /\ getActor(q)
                             \/ RequestStep(q)
    BY DEF CallMoves
  <1>3. q \in Requesters
    BY DEF Callers
  <1>4. NamespaceInv' /\ Smooth /\ container.actor \in {0, container'.actor}
    <2>1. CASE ((q \in Calls => sockets[q] = NoSocket) /\ getActor(q)) \/ cancelGetActor(q)
      <3>1. NamespaceInv'
        BY <1>0, <1>3, <2>1, LockingInv
      <3>2. UNCHANGED <<container, managerOf>>
        BY <2>1 DEF getActor, cancelGetActor
      <3>3. requests \in [Requesters -> ReferenceType]
        BY <1>0, NamespaceFacts
      <3>4. /\ \A p \in Requesters : p # q => requests'[p] = requests[p]
            /\ requests'[q].client => requests[q].client
            /\ q \in Calls /\ requests'[q].pc = "locking" => sockets[q] = NoSocket
            /\ requests'[q].ours => requests[q].ours
        <4>1. CASE (q \in Calls => sockets[q] = NoSocket) /\ getActor(q)
          BY <1>3, <3>3, <4>1 DEF getActor, ReferenceType
        <4>2. CASE cancelGetActor(q)
          <5>1. requests'[q] = NoReference /\ \A p \in Requesters : p # q => requests'[p] = requests[p]
            BY <1>3, <3>3, <4>2 DEF cancelGetActor
          <5> QED
            BY <5>1, SMT DEF NoReference
        <4> QED
          BY <2>1, <4>1, <4>2
      <3>5. CurrentManager' = CurrentManager
        BY <3>2 DEF CurrentManager
      <3>6. Smooth
        BY <3>2, <3>4, <3>5, SocketFacts DEF Smooth
      <3> QED
        BY <3>1, <3>2, <3>6
    <2>2. CASE getActorImpl(q)
      <3>1. requests[q].pc = "locking" /\ TakeActor(q, 0)
        BY <2>2 DEF getActorImpl
      <3>2. requests[q].actor = 0
        BY <1>0, <1>3, <3>1, NamespaceFacts DEF HeldWhenStarted
      <3>3. q \in Calls => sockets[q] = NoSocket
        BY <3>1, SocketFacts
      <3>4. NamespaceInv'
        BY <1>0, <1>3, <3>1, <3>2, TakeInv
      <3> QED
        BY <1>3, <3>1, <3>3, <3>4, TakeSmooth
    <2>3. CASE RequestDrained(q) \/ DropInterface(q)
      <3>1. NamespaceInv'
        BY <1>0, <1>3, <2>3, ReleaseInv
      <3> QED
        BY <1>3, <2>3, <3>1, ReleaseSmooth
    <2> QED
      BY <1>2, <2>1, <2>2, <2>3 DEF RequestStep
  <1> QED
    BY <1>1, <1>4, PlainStep

(* The eviction of an actor: its WebSockets' manager is remembered.        *)
LEMMA EvictSmooth ==
    ASSUME HibernationInv, container.task # "none", NEW c,
           c.actor = container.actor, c.manager = container.manager, c.live = container.live,
           c \in ContainerType,
           Become(Evicted(c), requests, shut \cup {c.actor}, managerOf)
    PROVE  /\ Smooth /\ container'.actor = 0
           /\ \A r \in Calls : Ours(r) => sockets[r].manager = container.manager
  <1>0. NamespaceInv
    BY DEF HibernationInv
  <1>1. PICK e, down : e = Evicted(c) /\ down = shut \cup {c.actor}
    OBVIOUS
  <1>2. e.actor = 0 /\ e.manager = container.manager /\ e.live = container.live
    BY <1>1 DEF Evicted, ContainerType
  <1>3. container' = e /\ requests' = requests /\ CurrentManager' = container.manager
    BY <1>1, <1>2, BecomeManager
  <1>4. container.actor # 0 /\ container.live /\ Tracked(requests) = {}
    BY <1>0, EvictionFacts
  <1>5. managerOf[container.actor] \in {0, container.manager}
    BY <1>0, NamespaceFacts DEF EvictionIsSafe
  <1>6. ASSUME NEW r \in Calls, Ours(r)
        PROVE  CurrentManager = container.manager /\ sockets[r].manager = container.manager
    <2>1. CurrentManager # 0 /\ sockets[r].manager = CurrentManager
      BY <1>6, SocketFacts
    <2> QED
      BY <1>4, <1>5, <2>1 DEF CurrentManager
  <1>7. container'.live /\ ~HasRequests
    BY <1>2, <1>3, <1>4 DEF HasRequests, Tracked
  <1>8. Smooth
    BY <1>3, <1>6, <1>7, SocketFacts DEF Smooth
  <1> QED
    BY <1>2, <1>3, <1>6, <1>8

(* The container leaves the map with its WebSockets, when no client is     *)
(* left or its actor is broken.                                            *)
LEMMA DestroySound ==
    ASSUME HibernationInv, DestroyContainer, sockets' = Kept(sockets),
           ~HasClients \/ container.actor \in brokenActors
    PROVE  StepIsSound
  <1>0. NamespaceInv /\ sockets \in [Calls -> SocketType]
    BY DEF HibernationInv, SocketsInv
  <1>1. requests' = [q \in Requesters |-> [requests[q] EXCEPT !.ours = FALSE]]
    BY DEF DestroyContainer, DestroyedWith, Become
  <1>2. \A q \in Requesters : ~requests'[q].ours /\ requests'[q].pc = requests[q].pc
    BY <1>0, <1>1, NamespaceFacts DEF ReferenceType
  <1>3. /\ sockets' \in [Calls -> SocketType]
        /\ \A r \in Calls : sockets'[r] \in {sockets[r], NoSocket}
    BY <1>0, NoSocketFacts DEF Kept
  <1>4. ASSUME NEW r \in Calls PROVE SocketIsSound(r, sockets[r])'
    <2>1. CASE sockets'[r] = NoSocket
      BY <2>1, NoSocketFacts DEF SocketIsSound, ClosedIsNotRead
    <2>2. CASE sockets'[r] = sockets[r]
      BY <1>2, <2>2, SocketFacts DEF SocketIsSound, ClosedIsNotRead
    <2> QED
      BY <1>3, <2>1, <2>2
  <1>5. LeavesInOrderStep
    BY DEF LeavesInOrderStep
  <1>6. ConnectedIsKeptStep
    BY SocketFacts DEF ConnectedIsKeptStep, Ours, HasClients
  <1>7. ClosesOnceStep
    BY <1>3, NoSocketFacts DEF ClosesOnceStep
  <1> QED
    BY <1>3, <1>4, <1>5, <1>6, <1>7 DEF StepIsSound, SocketsInv

(* The host of the object: its timers, its clean-up and its breaking.      *)
LEMMA HostMovesSound ==
    ASSUME HibernationInv, HostMoves
    PROVE  NamespaceInv' /\ StepIsSound
  <1>0. NamespaceInv /\ sockets' = Kept(sockets)
    BY DEF HibernationInv, HostMoves
  <1>1. CASE ShutdownTimer
    <2>1. NamespaceInv'
      BY <1>0, <1>1, ShutdownTimerInv
    <2>2. PICK c : c = [container EXCEPT !.watched = 0]
      OBVIOUS
    <2>3. container.task = "timer" /\ ShutdownOf(c)
      BY <1>1, <2>2 DEF ShutdownTimer
    <2>4. PICK x \in ContainerType : x = container
      BY <1>0, NamespaceFacts
    <2>5. /\ c \in ContainerType /\ c.live = container.live /\ c.actor = container.actor
          /\ c.manager = container.manager
      BY <2>2, <2>4 DEF ContainerType
    <2>6. ~ \E q \in Requesters : requests[q].actor = c.actor
      BY <1>0, <2>3, <2>5, EvictionFacts
    <2>7. CASE c.manager # 0
      <3>1. PICK d : d = [c EXCEPT !.task = "locking"]
        OBVIOUS
      <3>2. Become(d, requests, shut, managerOf)
        BY <2>3, <2>6, <2>7, <3>1 DEF ShutdownOf
      <3>3. d.actor = container.actor /\ d.manager = container.manager
            /\ d.actor \in Instances \cup {0}
        BY <2>5, <3>1 DEF ContainerType
      <3>4. /\ container' = d /\ requests' = requests
            /\ CurrentManager' = IF d.actor # 0 THEN managerOf[d.actor] ELSE d.manager
        BY <3>2, <3>3, BecomeManager
      <3>5. CurrentManager' = CurrentManager
        BY <3>3, <3>4 DEF CurrentManager
      <3>6. Smooth
        BY <3>3, <3>4, <3>5, SocketFacts DEF Smooth
      <3> QED
        BY <1>0, <2>1, <3>3, <3>4, <3>6, PlainStep
    <2>8. CASE c.manager = 0
      <3>1. Become(Evicted(c), requests, shut \cup {c.actor}, managerOf)
        BY <2>3, <2>6, <2>8 DEF ShutdownOf
      <3>2. /\ Smooth
            /\ \A r \in Calls : Ours(r) => sockets[r].manager = container.manager
        BY <2>3, <2>5, <3>1, EvictSmooth
      <3>3. \A r \in Calls : ~Ours(r)
        BY <2>5, <2>8, <3>2, SocketFacts
      <3> QED
        BY <1>0, <2>1, <3>2, <3>3, PlainStep
    <2> QED
      BY <2>7, <2>8
  <1>2. CASE cleanupLoop
    <2>1. DestroyContainer /\ ~HasClients
      BY <1>2 DEF cleanupLoop, RemoveUnless
    <2> QED
      BY <1>0, <2>1, DestroyInv, DestroySound
  <1>3. CASE onActorBroken
    <2>1. DestroyContainer /\ container.watched # 0 /\ container.watched \in brokenActors
      BY <1>3 DEF onActorBroken
    <2>2. container.actor \in brokenActors
      BY <1>0, <2>1, NamespaceFacts
    <2> QED
      BY <1>0, <2>1, <2>2, DestroyInv, DestroySound
  <1>4. CASE \E i \in Instances : Break(i)
    <2>1. NamespaceInv'
      BY <1>0, <1>4, BreakInv
    <2>2. UNCHANGED <<container, requests, managerOf>>
      BY <1>4 DEF Break
    <2>3. CurrentManager' = CurrentManager
      BY <2>2 DEF CurrentManager
    <2>4. Smooth
      BY <2>2, <2>3, SocketFacts DEF Smooth
    <2> QED
      BY <1>0, <2>1, <2>2, <2>4, PlainStep
  <1> QED
    BY <1>1, <1>2, <1>3, <1>4 DEF HostMoves, HostStep

(* The eviction that packs the WebSockets away.                            *)
LEMMA HibernateAndEvictSound ==
    ASSUME HibernationInv, HibernateAndEvict
    PROVE  NamespaceInv' /\ StepIsSound
  <1>0. NamespaceInv /\ sockets \in [Calls -> SocketType]
    BY DEF HibernationInv, SocketsInv
  <1>1. ShutdownLocked /\ sockets' = Kept(HibernatedAll(sockets))
    BY DEF HibernateAndEvict
  <1>2. NamespaceInv'
    BY <1>0, <1>1, ShutdownLockedInv
  <1>3. /\ container.task # "none"
        /\ Become(Evicted(container), requests, shut \cup {container.actor}, managerOf)
    BY <1>1 DEF ShutdownLocked
  <1>4. PICK c : c = container
    OBVIOUS
  <1>5. c \in ContainerType
    BY <1>0, <1>4, NamespaceFacts
  <1>6. /\ Smooth /\ container'.actor = 0
        /\ \A r \in Calls : Ours(r) => sockets[r].manager = container.manager
    BY <1>3, <1>4, <1>5, EvictSmooth
  <1>7. PICK s : s = HibernatedAll(sockets)
    OBVIOUS
  <1>8. \A r \in Calls : s[r] = IF sockets[r].manager = container.manager
                                THEN [sockets[r] EXCEPT !.active = 0] ELSE sockets[r]
    BY <1>7 DEF HibernatedAll
  <1>9. ASSUME NEW r \in Calls
        PROVE  /\ s[r] \in SocketType /\ s[r].pc = sockets[r].pc
               /\ s[r].manager = sockets[r].manager
               /\ s[r].kind = sockets[r].kind /\ (s[r].closed <=> sockets[r].closed)
               /\ sockets[r].manager = container.manager => s[r].active = 0
               /\ sockets[r] = NoSocket => s[r] = NoSocket
               /\ sockets[r] # NoSocket => s[r] # NoSocket
    <2>1. PICK x \in SocketType : x = sockets[r]
      BY <1>0
    <2>2. PICK y : y = [x EXCEPT !.active = 0]
      OBVIOUS
    <2>3. /\ y \in SocketType /\ y.pc = x.pc /\ y.manager = x.manager /\ y.kind = x.kind
          /\ (y.closed <=> x.closed) /\ y.active = 0
      BY <2>1, <2>2 DEF SocketType
    <2>4. x = NoSocket => y = NoSocket
      BY <2>2, SMT DEF NoSocket
    <2>5. x # NoSocket => x.manager # 0
      BY <2>1, SocketFacts
    <2>6. s[r] = y \/ (s[r] = x /\ sockets[r].manager # container.manager)
      BY <1>8, <2>1, <2>2
    <2> QED
      BY <2>1, <2>3, <2>4, <2>5, <2>6, NoSocketFacts
  <1>10. s \in [Calls -> SocketType]
    BY <1>7, <1>9 DEF HibernatedAll
  <1>11. ASSUME NEW r \in Calls PROVE Follows(r, s[r])
    <2>1. CASE sockets[r] = NoSocket
      BY <1>9, <2>1, NoSocketFacts DEF Follows
    <2>2. CASE sockets[r] # NoSocket
      <3>1. ClosedIsNotRead(sockets[r])
        BY SocketFacts
      <3>2. ClosedIsNotRead(s[r])
        BY <1>9, <3>1 DEF ClosedIsNotRead
      <3> QED
        BY <1>6, <1>9, <2>2, <3>2 DEF Follows
    <2> QED
      BY <2>1, <2>2
  <1>12. sockets' = Kept(s)
    BY <1>1, <1>7
  <1> QED
    BY <1>2, <1>6, <1>10, <1>11, <1>12, SmoothStep

(* A step that leaves the namespace alone.                                 *)
LEMMA QuietSmooth ==
    ASSUME HibernationInv, UNCHANGED namespaceVars
    PROVE  NamespaceInv' /\ Smooth /\ container' = container /\ managerOf' = managerOf
  <1>1. UNCHANGED <<isEvictable, container, requests, brokenActors, shut, managerOf>>
    BY DEF namespaceVars
  <1>2. NamespaceInv'
    BY <1>1 DEF NamespaceInv, HibernationInv
  <1>3. CurrentManager' = CurrentManager
    BY <1>1 DEF CurrentManager
  <1> QED
    BY <1>1, <1>2, <1>3, SocketFacts DEF Smooth

(* A smooth step in which one WebSocket moves.                             *)
LEMMA OneSocketStep ==
    ASSUME HibernationInv, NamespaceInv', Smooth, container.actor \in {0, container'.actor},
           NEW r \in Calls, NEW x \in SocketType, Follows(r, x),
           \/ sockets' = [sockets EXCEPT ![r] = x]
           \/ sockets' = Kept([sockets EXCEPT ![r] = x])
    PROVE  StepIsSound
  <1>0. sockets \in [Calls -> SocketType]
    BY DEF HibernationInv, SocketsInv
  <1>1. PICK s : s = [sockets EXCEPT ![r] = x]
    OBVIOUS
  <1>2. /\ s \in [Calls -> SocketType]
        /\ \A q \in Calls : s[q] = IF q = r THEN x ELSE sockets[q]
    BY <1>0, <1>1
  <1>3. ASSUME NEW q \in Calls PROVE Follows(q, s[q])
    <2>1. CASE q = r
      BY <1>2, <2>1
    <2>2. CASE q # r /\ sockets[q] = NoSocket
      BY <1>2, <2>2, NoSocketFacts DEF Follows
    <2>3. CASE q # r /\ sockets[q] # NoSocket
      <3>1. s[q] = sockets[q]
        BY <1>2, <2>3
      <3>2. Ours(q) => sockets[q].active \in {0, container'.actor}
        BY SocketFacts
      <3> QED
        BY <2>3, <3>1, <3>2, SocketFacts DEF Follows
    <2> QED
      BY <2>1, <2>2, <2>3
  <1>4. sockets' = s \/ sockets' = Kept(s)
    BY <1>1
  <1> QED
    BY <1>2, <1>3, <1>4, SmoothStep

(* handleSocketTermination: one close event at most.                       *)
LEMMA TerminatedFacts ==
    ASSUME NEW x \in SocketType, NEW disconnected \in BOOLEAN
    PROVE  LET y == Terminated(x, disconnected) IN
           /\ y \in SocketType /\ y.pc = "waiting" /\ y.manager = x.manager
           /\ y.active = x.active /\ y.kind \in {"disconnect", "error"}
           /\ x.closed => y.kind = "error"
  <1>1. PICK close \in BOOLEAN : close = (disconnected /\ ~x.closed)
    OBVIOUS
  <1>2. PICK k : k = IF close THEN "disconnect" ELSE "error"
    OBVIOUS
  <1>3. PICK b : b = (x.closed \/ close)
    OBVIOUS
  <1>4. b \in BOOLEAN
    BY <1>3
  <1>5. Terminated(x, disconnected) = [x EXCEPT !.pc = "waiting", !.kind = k, !.closed = b]
    BY <1>1, <1>2, <1>3 DEF Terminated, SocketType
  <1>6. k \in {"disconnect", "error"} /\ (x.closed => k = "error")
    BY <1>1, <1>2
  <1>7. PICK y : y = Terminated(x, disconnected)
    OBVIOUS
  <1>8. y = [x EXCEPT !.pc = "waiting", !.kind = k, !.closed = b]
    BY <1>5, <1>7
  <1>9. /\ y \in SocketType /\ y.pc = "waiting" /\ y.manager = x.manager
        /\ y.active = x.active /\ y.kind = k
    BY <1>4, <1>6, <1>8, ZenonT(60) DEF SocketType, Kinds
  <1> QED
    BY <1>6, <1>7, <1>9

(* A WebSocket that goes on, with the manager and the object it has.       *)
LEMMA GoesOn ==
    ASSUME HibernationInv, NEW r \in Calls, NEW x \in SocketType,
           container.actor \in {0, container'.actor},
           sockets[r].pc # "none", x.pc # "none",
           x.manager = sockets[r].manager, x.active = sockets[r].active,
           ClosedIsNotRead(x),
           sockets[r].closed /\ x.kind # sockets[r].kind => x.kind \in {"error", "none"}
    PROVE  Follows(r, x)
  <1>1. sockets[r] # NoSocket /\ x # NoSocket
    BY NoSocketFacts
  <1>2. Ours(r) => x.active \in {0, container'.actor}
    BY SocketFacts
  <1> QED
    BY <1>1, <1>2 DEF Follows

(* The read loop: something is received.                                   *)
LEMMA ReceiveSound ==
    ASSUME HibernationInv, NEW r \in Calls, receive(r) \/ receiveDisconnected(r)
    PROVE  NamespaceInv' /\ StepIsSound
  <1>1. UNCHANGED namespaceVars /\ sockets[r].pc = "reading"
    BY ZenonT(60) DEF receive, receiveDisconnected
  <1>2. NamespaceInv' /\ Smooth /\ container' = container
    BY <1>1, QuietSmooth
  <1>3. PICK x \in SocketType : x = sockets[r]
    BY SocketFacts
  <1>4. ~x.closed
    BY <1>1, <1>3, SocketFacts DEF ClosedIsNotRead
  <1>5. PICK m, c : /\ m = [x EXCEPT !.pc = "waiting", !.kind = "message"]
                    /\ c = [x EXCEPT !.pc = "waiting", !.kind = "close", !.closed = TRUE]
    OBVIOUS
  <1>6. /\ m \in SocketType /\ m.pc = "waiting" /\ m.manager = x.manager /\ m.active = x.active
        /\ ~m.closed
    BY <1>3, <1>4, <1>5 DEF SocketType, Kinds
  <1>7. /\ c \in SocketType /\ c.pc = "waiting" /\ c.manager = x.manager /\ c.active = x.active
        /\ c.kind = "close"
    BY <1>3, <1>5 DEF SocketType, Kinds
  <1>8. PICK y : /\ sockets' = [sockets EXCEPT ![r] = y]
                 /\ \/ y = m \/ y = c
                    \/ \E disconnected \in BOOLEAN : y = Terminated(x, disconnected)
    BY <1>3, <1>5, ZenonT(60) DEF receive, receiveDisconnected
  <1>9. /\ y \in SocketType /\ y.pc = "waiting" /\ y.manager = x.manager /\ y.active = x.active
        /\ y.closed => y.kind \in {"close", "disconnect", "error"}
    <2>1. CASE y = m
      BY <1>6, <2>1
    <2>2. CASE y = c
      BY <1>7, <2>2
    <2>3. CASE \E disconnected \in BOOLEAN : y = Terminated(x, disconnected)
      BY <1>3, <2>3, TerminatedFacts, SMTT(30)
    <2> QED
      BY <1>8, <2>1, <2>2, <2>3
  <1>10. Follows(r, y)
    BY <1>1, <1>2, <1>3, <1>4, <1>9, GoesOn DEF ClosedIsNotRead
  <1> QED
    BY <1>2, <1>8, <1>9, <1>10, OneSocketStep

(* No actor for the event.                                                 *)
LEMMA EventThrowsSound ==
    ASSUME HibernationInv, NEW r \in Calls, EventThrows(r)
    PROVE  NamespaceInv' /\ StepIsSound
  <1>1. UNCHANGED namespaceVars /\ sockets[r].pc = "waiting"
    BY DEF EventThrows
  <1>2. NamespaceInv' /\ Smooth /\ container' = container
    BY <1>1, QuietSmooth
  <1>3. PICK x \in SocketType : x = sockets[r]
    BY SocketFacts
  <1>4. PICK z : z = [x EXCEPT !.pc = "stuck"]
    OBVIOUS
  <1>5. /\ z \in SocketType /\ z.pc = "stuck" /\ z.manager = x.manager /\ z.active = x.active
        /\ z.kind = x.kind /\ (z.closed <=> x.closed)
    BY <1>3, <1>4 DEF SocketType
  <1>6. PICK y : /\ sockets' = [sockets EXCEPT ![r] = y]
                 /\ \/ y = z
                    \/ \E disconnected \in BOOLEAN : y = Terminated(x, disconnected)
    <2>1. PICK disconnected \in BOOLEAN :
             sockets' = [sockets EXCEPT ![r] =
                           IF sockets[r].kind \in {"message", "close"}
                           THEN Terminated(sockets[r], disconnected)
                           ELSE [sockets[r] EXCEPT !.pc = "stuck"]]
      BY ZenonT(60) DEF EventThrows
    <2> QED
      BY <1>3, <1>4, <2>1
  <1>7. /\ y \in SocketType /\ y.pc # "none" /\ y.manager = x.manager /\ y.active = x.active
        /\ ClosedIsNotRead(y)
        /\ x.closed /\ y.kind # x.kind => y.kind \in {"error", "none"}
    <2>1. CASE y = z
      <3>1. ClosedIsNotRead(x)
        BY <1>3, SocketFacts
      <3> QED
        BY <1>5, <2>1, <3>1 DEF ClosedIsNotRead
    <2>2. CASE \E disconnected \in BOOLEAN : y = Terminated(x, disconnected)
      BY <1>3, <2>2, TerminatedFacts, SMTT(30) DEF ClosedIsNotRead
    <2> QED
      BY <1>6, <2>1, <2>2
  <1>8. Follows(r, y)
    BY <1>1, <1>2, <1>3, <1>7, GoesOn
  <1> QED
    BY <1>2, <1>6, <1>7, <1>8, OneSocketStep

(* The event runs in the actor that its loopback found, and claims its     *)
(* WebSocket there.                                                        *)
LEMMA EventRunsSound ==
    ASSUME HibernationInv, NEW r \in Calls, EventRuns(r)
    PROVE  NamespaceInv' /\ StepIsSound
  <1>0. NamespaceInv
    BY DEF HibernationInv
  <1>1. /\ sockets[r].pc = "waiting" /\ requests[EventOf(r)] = NoReference
        /\ TakeActor(EventOf(r), sockets[r].manager)
    BY DEF EventRuns
  <1>2. PICK x \in SocketType : x = sockets[r]
    BY SocketFacts
  <1>3. PICK m \in Managers \cup {0} : m = x.manager
    BY <1>2 DEF SocketType
  <1>4. PICK q \in Requesters : q = EventOf(r) /\ q \notin Calls
    BY SocketFacts
  <1>5. TakeActor(q, m) /\ requests[q].actor = 0
    BY <1>1, <1>2, <1>3, <1>4, SMTT(30) DEF NoReference
  <1>6. NamespaceInv'
    BY <1>0, <1>5, TakeInv
  <1>7. Smooth /\ container'.actor \in Instances /\ container.actor \in {0, container'.actor}
    BY <1>4, <1>5, TakeSmooth
  <1>8. PICK i, a : /\ i \in Instances /\ i = container'.actor
                    /\ a = Claimed(sockets[r], container'.actor)
    BY <1>7
  <1>9. a \in {i, x.active} /\ (x.active # 0 => a = x.active)
    BY <1>2, <1>8 DEF Claimed
  <1>10. PICK y : y = [x EXCEPT !.pc = "handling", !.active = a]
    OBVIOUS
  <1>11. sockets' = Kept([sockets EXCEPT ![r] = y])
    BY <1>2, <1>8, <1>10 DEF EventRuns
  <1>12. /\ y \in SocketType /\ y.pc = "handling" /\ y.manager = x.manager /\ y.active = a
         /\ y.kind = x.kind /\ (y.closed <=> x.closed)
    BY <1>2, <1>8, <1>9, <1>10, ZenonT(60) DEF SocketType
  <1>13. ClosedIsNotRead(y)
    BY <1>2, <1>12, SocketFacts DEF ClosedIsNotRead
  <1>14. Ours(r) => y.active \in {0, container'.actor}
    BY <1>2, <1>7, <1>8, <1>9, <1>12, SocketFacts
  <1>15. sockets[r] # NoSocket /\ y # NoSocket
    BY <1>1, <1>12, NoSocketFacts
  <1>16. Follows(r, y)
    BY <1>2, <1>12, <1>13, <1>14, <1>15 DEF Follows
  <1> QED
    BY <1>6, <1>7, <1>11, <1>12, <1>16, OneSocketStep

(* The event is over.                                                      *)
LEMMA EventReturnsSound ==
    ASSUME HibernationInv, NEW r \in Calls, EventReturns(r)
    PROVE  NamespaceInv' /\ StepIsSound
  <1>0. NamespaceInv /\ sockets \in [Calls -> SocketType]
    BY DEF HibernationInv, SocketsInv
  <1>1. PICK q \in Requesters : q = EventOf(r)
    BY SocketFacts
  <1>2. DropInterface(q) \/ (requests[q].actor # 0 /\ EndRequest(q))
    BY <1>1 DEF EventReturns, EventReturnsLeaving
  <1>3. NamespaceInv'
    BY <1>0, <1>2, ReleaseInv
  <1>4. Smooth /\ container'.actor = container.actor
    BY <1>2, ReleaseSmooth
  <1>5. PICK x \in SocketType : x = sockets[r]
    BY SocketFacts
  <1>6. PICK m : m = [x EXCEPT !.pc = "reading", !.kind = "none"]
    OBVIOUS
  <1>7. sockets' = Kept(IF x.pc # "handling" THEN sockets
                        ELSE [sockets EXCEPT ![r] = IF x.kind = "message" THEN m ELSE NoSocket])
    BY <1>5, <1>6 DEF EventReturns, EventReturnsLeaving
  <1>8. CASE x.pc # "handling"
    <2>1. sockets' = Kept(sockets)
      BY <1>7, <1>8
    <2> QED
      BY <1>3, <1>4, <2>1, PlainStep
  <1>9. CASE x.pc = "handling" /\ x.kind = "message"
    <2>1. sockets' = Kept([sockets EXCEPT ![r] = m])
      BY <1>7, <1>9
    <2>2. ~x.closed
      BY <1>5, <1>9, SocketFacts DEF ClosedIsNotRead
    <2>3. /\ m \in SocketType /\ m.pc = "reading" /\ m.manager = x.manager
          /\ m.active = x.active /\ m.kind = "none" /\ ~m.closed
      BY <1>5, <1>6, <2>2 DEF SocketType, Kinds
    <2>4. Follows(r, m)
      BY <1>4, <1>5, <1>9, <2>2, <2>3, GoesOn DEF ClosedIsNotRead
    <2> QED
      BY <1>3, <1>4, <2>1, <2>3, <2>4, OneSocketStep
  <1>10. CASE x.pc = "handling" /\ x.kind # "message"
    <2>1. sockets' = Kept([sockets EXCEPT ![r] = NoSocket])
      BY <1>7, <1>10
    <2>2. Follows(r, NoSocket)
      BY <1>5, <1>10 DEF Follows
    <2> QED
      BY <1>3, <1>4, <2>1, <2>2, NoSocketFacts, OneSocketStep
  <1> QED
    BY <1>8, <1>9, <1>10

LEMMA EventDrainedSound ==
    ASSUME HibernationInv, NEW r \in Calls, EventDrained(r)
    PROVE  NamespaceInv' /\ StepIsSound
  <1>0. NamespaceInv
    BY DEF HibernationInv
  <1>1. PICK q \in Requesters : q = EventOf(r)
    BY SocketFacts
  <1>2. RequestDrained(q) /\ sockets' = Kept(sockets)
    BY <1>1 DEF EventDrained
  <1>3. NamespaceInv'
    BY <1>0, <1>2, ReleaseInv
  <1>4. Smooth /\ container'.actor = container.actor
    BY <1>2, ReleaseSmooth
  <1> QED
    BY <1>2, <1>3, <1>4, PlainStep

(* getWebSockets: those of the actor's manager are unpacked in it.         *)
LEMMA GetWebSocketsSound ==
    ASSUME HibernationInv, NEW q \in Callers, getWebSockets(q)
    PROVE  NamespaceInv' /\ StepIsSound
  <1>0. NamespaceInv /\ sockets \in [Calls -> SocketType] /\ q \in Requesters
    BY DEF HibernationInv, SocketsInv, Callers
  <1>1. PICK i \in Instances : i = requests[q].actor /\ i = container.actor
    BY <1>0, RunsInTheContainer DEF getWebSockets
  <1>2. PICK n : n = managerOf[i] /\ n # 0
    BY <1>1 DEF getWebSockets
  <1>3. /\ UNCHANGED namespaceVars
        /\ sockets' = [s \in Calls |->
             IF sockets[s].manager = n /\ sockets[s].active = 0
             THEN [sockets[s] EXCEPT !.active = i] ELSE sockets[s]]
    BY <1>1, <1>2 DEF getWebSockets
  <1>4. NamespaceInv' /\ Smooth /\ container' = container
    BY <1>3, QuietSmooth
  <1>5. PICK s : s = [c \in Calls |-> IF sockets[c].manager = n /\ sockets[c].active = 0
                                      THEN [sockets[c] EXCEPT !.active = i] ELSE sockets[c]]
    BY ZenonT(60)
  <1>6. ASSUME NEW r \in Calls PROVE s[r] \in SocketType /\ Follows(r, s[r])
    <2>1. PICK x \in SocketType : x = sockets[r]
      BY <1>0
    <2>2. CASE x.manager = n /\ x.active = 0
      <3>1. PICK y : y = [x EXCEPT !.active = i]
        BY ZenonT(60)
      <3>2. s[r] = y
        BY <1>5, <2>1, <2>2, <3>1
      <3>3. /\ y \in SocketType /\ y.pc = x.pc /\ y.manager = x.manager /\ y.active = i
            /\ y.kind = x.kind /\ (y.closed <=> x.closed)
        BY <2>1, <3>1 DEF SocketType
      <3>4. sockets[r] # NoSocket /\ y # NoSocket
        BY <1>2, <2>1, <2>2, <3>3, NoSocketFacts
      <3>5. ClosedIsNotRead(y)
        BY <2>1, <3>3, SocketFacts DEF ClosedIsNotRead
      <3> QED
        BY <1>1, <1>4, <2>1, <3>2, <3>3, <3>4, <3>5 DEF Follows
    <2>3. CASE ~(x.manager = n /\ x.active = 0)
      <3>1. s[r] = x
        BY <1>5, <2>1, <2>3
      <3>2. CASE x = NoSocket
        BY <2>1, <3>1, <3>2, NoSocketFacts DEF Follows
      <3>3. CASE x # NoSocket
        BY <1>4, <2>1, <3>1, <3>3, SocketFacts DEF Follows
      <3> QED
        BY <2>1, <3>1, <3>2, <3>3
    <2> QED
      BY <2>2, <2>3
  <1>7. s \in [Calls -> SocketType]
    BY <1>5, <1>6
  <1> QED
    BY <1>3, <1>4, <1>5, <1>6, <1>7, SmoothStep

(* A WebSocket is accepted, into the manager of the object.                *)
LEMMA AcceptSound ==
    ASSUME HibernationInv, NEW r \in Calls, acceptWebSocket(r)
    PROVE  NamespaceInv' /\ StepIsSound
  <1>0. NamespaceInv /\ sockets \in [Calls -> SocketType] /\ r \in Requesters
    BY HibernationAssumption DEF HibernationInv, SocketsInv
  <1>1. NamespaceInv'
    BY <1>0, AcceptInv
  <1>2. PICK i \in Instances : i = requests[r].actor /\ i = container.actor /\ i # 0
    BY <1>0, RunsInTheContainer DEF acceptWebSocket
  <1>3. PICK n : n = ManagerFor(i)
    OBVIOUS
  <1>4. n \in Managers /\ n # 0 /\ (managerOf[i] # 0 => n = managerOf[i])
    BY <1>0, <1>2, <1>3, ManagerForFacts DEF acceptWebSocket
  <1>5. PICK x : x = [NoSocket EXCEPT !.pc = "reading", !.manager = n, !.active = i]
    OBVIOUS
  <1>6. /\ managerOf' = [managerOf EXCEPT ![i] = n]
        /\ sockets' = [sockets EXCEPT ![r] = x] /\ sockets[r] = NoSocket
        /\ UNCHANGED <<isEvictable, container, requests, brokenActors, shut>>
    BY <1>2, <1>3, <1>5 DEF acceptWebSocket
  <1>7. /\ x \in SocketType /\ x.manager = n /\ x.active = i /\ ~x.closed
    BY <1>4, <1>5, ZenonT(60) DEF NoSocket, SocketType, Kinds
  <1>8. CurrentManager' = n /\ CurrentManager = managerOf[i]
    BY <1>0, <1>2, <1>6, NamespaceFacts DEF CurrentManager
  <1>9. /\ sockets' \in [Calls -> SocketType]
        /\ \A p \in Calls : sockets'[p] = IF p = r THEN x ELSE sockets[p]
    BY <1>0, <1>6, <1>7
  <1>10. requests[r].pc # "locking"
    BY <1>0, <1>2, NamespaceFacts, ZenonT(60) DEF HeldWhenStarted
  <1>11. ASSUME NEW p \in Calls PROVE SocketIsSound(p, sockets[p])'
    <2>1. CASE p = r
      <3>1. sockets'[p] = x /\ requests'[p].pc # "locking" /\ container'.actor = i
        BY <1>2, <1>6, <1>9, <1>10, <2>1
      <3> QED
        BY <1>4, <1>7, <1>8, <3>1 DEF SocketIsSound, ClosedIsNotRead
    <2>2. CASE p # r
      <3>1. sockets'[p] = sockets[p] /\ requests'[p] = requests[p] /\ container' = container
        BY <1>6, <1>9, <2>2
      <3>2. Ours(p) => sockets[p].manager = CurrentManager'
        BY <1>4, <1>8, SocketFacts
      <3> QED
        BY <3>1, <3>2, SocketFacts DEF SocketIsSound, ClosedIsNotRead, Ours
    <2> QED
      BY <2>1, <2>2
  <1>12. LeavesInOrderStep
    BY <1>6 DEF LeavesInOrderStep
  <1>13. ConnectedIsKeptStep
    BY <1>6, <1>9 DEF ConnectedIsKeptStep, Ours
  <1>14. ClosesOnceStep
    BY <1>6, <1>9, NoSocketFacts DEF ClosesOnceStep
  <1> QED
    BY <1>1, <1>9, <1>11, <1>12, <1>13, <1>14 DEF StepIsSound, SocketsInv

LEMMA HibernationInitInv == HibernationInit => HibernationInv
  <1> SUFFICES ASSUME HibernationInit PROVE HibernationInv
    OBVIOUS
  <1>1. NamespaceInv
    BY NamespaceInitInv DEF HibernationInit
  <1>2. /\ sockets \in [Calls -> SocketType] /\ \A r \in Calls : sockets[r] = NoSocket
    BY NoSocketFacts DEF HibernationInit
  <1>3. SocketsInv
    BY <1>2, NoSocketFacts DEF SocketsInv, SocketIsSound, ClosedIsNotRead
  <1> QED
    BY <1>1, <1>3 DEF HibernationInv

(* Every step keeps the invariant and does nothing it may not do.          *)
LEMMA HibernationNextSound ==
    ASSUME HibernationInv, HibernationNext
    PROVE  NamespaceInv' /\ StepIsSound
  BY CallMovesSound, HostMovesSound, HibernateAndEvictSound, GetWebSocketsSound, AcceptSound,
     ReceiveSound, EventRunsSound, EventReturnsSound, EventDrainedSound, EventThrowsSound
  DEF HibernationNext

LEMMA HibernationStep ==
    HibernationInv /\ [HibernationNext]_hibernationVars =>
       /\ HibernationInv'
       /\ [LeavesInOrderStep]_namespaceVars
       /\ [ConnectedIsKeptStep]_hibernationVars
       /\ [ClosesOnceStep]_sockets
  <1> SUFFICES ASSUME HibernationInv, [HibernationNext]_hibernationVars
               PROVE  /\ HibernationInv'
                      /\ [LeavesInOrderStep]_namespaceVars
                      /\ [ConnectedIsKeptStep]_hibernationVars
                      /\ [ClosesOnceStep]_sockets
    OBVIOUS
  <1>1. CASE HibernationNext
    <2>1. NamespaceInv' /\ StepIsSound
      BY <1>1, HibernationNextSound
    <2> QED
      BY <2>1 DEF StepIsSound, HibernationInv
  <1>2. CASE UNCHANGED hibernationVars
    <2>1. UNCHANGED namespaceVars /\ UNCHANGED sockets
      BY <1>2 DEF hibernationVars
    <2>2. UNCHANGED <<isEvictable, container, requests, brokenActors, shut, managerOf>>
      BY <2>1 DEF namespaceVars
    <2>3. NamespaceInv'
      BY <2>1, QuietSmooth
    <2>4. SocketsInv'
      BY <2>1, <2>2 DEF HibernationInv, SocketsInv, SocketIsSound, CurrentManager
    <2> QED
      BY <1>2, <2>1, <2>3, <2>4 DEF HibernationInv
  <1> QED
    BY <1>1, <1>2

(* What the invariant says of the properties of states.                    *)
LEMMA HibernationImplies == HibernationInv => OneActorAtATime /\ HibernationTypeOK
  <1> SUFFICES ASSUME HibernationInv PROVE OneActorAtATime /\ HibernationTypeOK
    OBVIOUS
  <1>0. NamespaceInv
    BY DEF HibernationInv
  <1>1. NoSplitBrain
    BY <1>0, NamespaceFacts DEF NoSplitBrain, OursIsTheContainers, OthersAreShut
  <1>2. IdleWhenEvicting
    BY <1>0, NamespaceFacts, EvictionFacts DEF IdleWhenEvicting, HasRequests, Tracked
  <1>3. WatchesItsOwn
    BY <1>0, NamespaceFacts DEF WatchesItsOwn
  <1>4. ManagerIsKept /\ ActiveInTheActor
    BY SocketFacts DEF ManagerIsKept, ActiveInTheActor, CurrentManager
  <1>5. NamespaceTypeOK
    BY <1>0, NamespaceFacts DEF NamespaceTypeOK, ContainerType, ReferenceType
  <1>6. HibernationTypeOK
    BY <1>5 DEF HibernationTypeOK, HibernationInv, SocketsInv, SocketType
  <1> QED
    BY <1>1, <1>2, <1>3, <1>4, <1>6 DEF OneActorAtATime

(* Every state of the namespace and the WebSockets is of its shape.        *)
THEOREM HibernationTypeCorrect == HibernationSpec => []HibernationTypeOK
  BY HibernationInitInv, HibernationStep, HibernationImplies, PTL DEF HibernationSpec

(* One actor at a time stands for the object, in every interleaving of     *)
(* calls, events, evictions, clean-ups and failures: no request holds an   *)
(* actor that accepts work while another has taken its place; an eviction  *)
(* is pending only while no request is; and the watch for broken actors,   *)
(* the manager and the WebSockets follow the actor in the map.             *)
THEOREM OneActorStands == HibernationSpec => []OneActorAtATime
  BY HibernationInitInv, HibernationStep, HibernationImplies, PTL DEF HibernationSpec

(* Nothing leaves while it is wanted: an actor leaves the map only when it *)
(* is idle, without clients or broken, a connected WebSocket is lost only  *)
(* with a broken actor, and no WebSocket is closed twice.                  *)
THEOREM NothingLeaves == HibernationSpec => NothingLeavesEarly
  <1>1. HibernationSpec => LeavesInOrder
    BY HibernationInitInv, HibernationStep, PTL
    DEF HibernationSpec, LeavesInOrder, LeavesInOrderStep
  <1>2. HibernationSpec => ConnectedIsKept
    BY HibernationInitInv, HibernationStep, PTL
    DEF HibernationSpec, ConnectedIsKept, ConnectedIsKeptStep
  <1>3. HibernationSpec => ClosesOnce
    BY HibernationInitInv, HibernationStep, PTL
    DEF HibernationSpec, ClosesOnce, ClosesOnceStep
  <1> QED
    BY <1>1, <1>2, <1>3, PTL DEF NothingLeavesEarly
=============================================================================
