--------------------------- MODULE ActorNamespace ---------------------------
(***************************************************************************)
(* The life of one Durable Object in its namespace: the container kept in  *)
(* the `actors` map, the Worker::Actor inside it (created by the first     *)
(* request, evicted ten seconds after the last one, created again by the   *)
(* next), the RequestTracker that tells the container when to arm and when *)
(* to cancel the eviction, the clients' shared ActorContainerRef, the      *)
(* onBroken task that removes a broken actor, and the clean-up loop.       *)
(*                                                                         *)
(* server.c++ 1478-1952 (WorkerService::ActorNamespace), io/request-       *)
(* tracker.c++.  Time is not modelled: the ten seconds of handleShutdown   *)
(* and the seventy of cleanupLoop may pass at any moment they are awaited. *)
(***************************************************************************)
EXTENDS Naturals, FiniteSets

CONSTANTS Requesters,       \* whoever calls getActor() for this object
          Managers,         \* identities for HibernationManagers, from 1
          IsEvictable       \* the isEvictable flags of the ActorConfigs explored

ASSUME NamespaceAssumption ==
  /\ IsFiniteSet(Requesters)
  /\ IsEvictable \subseteq BOOLEAN
  /\ Managers \subseteq Nat \ {0}

VARIABLES isEvictable,      \* config.isEvictable
          container,        \* the ActorContainer in `actors`, if it is there
          requests,         \* what each requester holds
          brokenActors,     \* actors whose onBroken() promise has resolved
          shut,             \* actors shutdown() was called on
          managerOf         \* impl->hibernationManager of each actor

namespaceVars == <<isEvictable, container, requests, brokenActors, shut, managerOf>>

(* One Worker::Actor more than there can be references to old ones.        *)
Instances == 1 .. (Cardinality(Requesters) + 1)

NoContainer ==
  [live |-> FALSE, actor |-> 0, active |-> 0, task |-> "none", manager |-> 0,
   watched |-> 0]

(* `actor`: the referenced Worker::Actor; `client`: whether the            *)
(* WorkerInterface, and with it the ActorContainerRef, still exists;       *)
(* `ours`: whether both belong to the container now in the map.            *)
NoReference == [pc |-> "idle", actor |-> 0, client |-> FALSE, ours |-> FALSE]

NamespaceInit ==
  /\ isEvictable \in IsEvictable
  /\ container = NoContainer
  /\ requests = [q \in Requesters |-> NoReference]
  /\ brokenActors = {}
  /\ shut = {}
  /\ managerOf = [i \in Instances |-> 0]

Referenced(c, reqs) == ({reqs[q].actor : q \in Requesters} \cup {c.actor}) \ {0}

(* The step to a new container and new references: an actor nobody refers  *)
(* to any more is destroyed, and its reference to the manager with it.     *)
Become(c, reqs, down, managers) ==
  LET kept == Referenced(c, reqs)
  IN /\ container' = c
     /\ requests' = reqs
     /\ shut' = down \cap kept
     /\ brokenActors' = (brokenActors \cap kept) \ down
     /\ managerOf' = [i \in Instances |-> IF i \in kept THEN managers[i] ELSE 0]
     /\ UNCHANGED isEvictable

-----------------------------------------------------------------------------
(* Requests.                                                               *)

getActor(q) ==
  /\ requests[q] = NoReference
  /\ requests' = [requests EXCEPT ![q].pc = "locking"]
  /\ UNCHANGED <<isEvictable, container, brokenActors, shut, managerOf>>

(* The caller gives up while the target isolate's lock is awaited.         *)
cancelGetActor(q) ==
  /\ requests[q].pc = "locking"
  /\ requests' = [requests EXCEPT ![q] = NoReference]
  /\ UNCHANGED <<isEvictable, container, brokenActors, shut, managerOf>>

(* RequestTracker::requestActive: the first reference cancels the eviction.*)
requestActive(c) ==
  [c EXCEPT !.active = @ + 1, !.task = IF c.active = 0 THEN "none" ELSE @]

(* ActorContainer::inactive: the manager is remembered for the next actor, *)
(* and the eviction armed.                                                 *)
inactive(c) ==
  LET m == IF c.actor = 0 THEN 0 ELSE managerOf[c.actor]
  IN IF isEvictable
     THEN [c EXCEPT !.task = "timer", !.manager = IF m # 0 THEN m ELSE @]
     ELSE c

(* RequestTracker::requestInactive, for a tracker that still has its hooks.*)
requestInactive(c) ==
  LET d == [c EXCEPT !.active = @ - 1]
  IN IF d.active = 0 THEN inactive(d) ELSE d

(* What getActorImpl does once it has the lock: find or create the         *)
(* container, reuse or construct its actor (which gets the remembered      *)
(* manager, or `m` if it has none, and an onBroken task), and hand out a   *)
(* reference to both.                                                      *)
TakeActor(q, m) ==
  LET c == IF container.live THEN container ELSE [NoContainer EXCEPT !.live = TRUE]
      made == c.actor = 0
      i == IF made
           THEN CHOOSE n \in Instances : n \notin Referenced(container, requests)
           ELSE c.actor
      had == IF made THEN container.manager ELSE managerOf[i]
  IN Become(requestActive([c EXCEPT !.actor = i,
                                    !.watched = IF made THEN i ELSE @]),
            [requests EXCEPT ![q] = [pc |-> "started", actor |-> i,
                                     client |-> TRUE, ours |-> TRUE]],
            shut, [managerOf EXCEPT ![i] = IF had = 0 THEN m ELSE had])

getActorImpl(q) == requests[q].pc = "locking" /\ TakeActor(q, 0)

(* `requests` once requester q has let go of its actor, its client, or both*)
Released(q, actor, client) ==
  LET r == [requests[q] EXCEPT !.actor = IF actor THEN 0 ELSE @,
                               !.client = IF client THEN FALSE ELSE @]
  IN [requests EXCEPT ![q] = IF r.actor = 0 /\ ~r.client THEN NoReference ELSE r]

(* The IncomingRequest has been drained: its actor reference goes, and its *)
(* ActiveRequest with it.                                                  *)
Drained(q, hooks) ==
  /\ requests[q].actor # 0
  /\ Become(IF hooks THEN requestInactive(container) ELSE container,
            Released(q, TRUE, FALSE), shut, managerOf)

(* Mutant: a container that is gone is told too.                           *)
RequestDrainedAnyway(q) == Drained(q, TRUE)

RequestDrained(q) == Drained(q, requests[q].ours)

(* The client lets go of the WorkerInterface, perhaps while waitUntil()    *)
(* work still holds the actor.                                             *)
DropInterface(q) ==
  /\ requests[q].client
  /\ Become(container, Released(q, FALSE, TRUE), shut, managerOf)

(* Both at once.                                                           *)
EndRequest(q) ==
  Become(IF requests[q].ours THEN requestInactive(container) ELSE container,
         Released(q, TRUE, TRUE), shut, managerOf)

-----------------------------------------------------------------------------
(* Eviction.                                                               *)

Evicted(c) == [c EXCEPT !.actor = 0, !.task = "none"]

(* Only an actor with a manager needs the isolate lock, for the sake of    *)
(* its WebSockets; the others go at once.                                  *)
ShutdownOf(c) ==
  IF \E q \in Requesters : requests[q].actor = c.actor   \* isShared()
  THEN Become([c EXCEPT !.task = "none"], requests, shut, managerOf)
  ELSE IF c.manager # 0
       THEN Become([c EXCEPT !.task = "locking"], requests, shut, managerOf)
       ELSE Become(Evicted(c), requests, shut \cup {c.actor}, managerOf)

(* handleShutdown after its delay: erase the onBroken task, and go on.     *)
ShutdownTimer ==
  /\ container.task = "timer"
  /\ ShutdownOf([container EXCEPT !.watched = 0])

(* handleShutdown with the isolate lock.                                   *)
ShutdownLocked ==
  /\ container.task = "locking"
  /\ Become(Evicted(container), requests, shut \cup {container.actor}, managerOf)

(* ~ActorContainer, run by whatever takes it out of `actors`.              *)
DestroyedWith(down) ==
  Become(NoContainer, [q \in Requesters |-> [requests[q] EXCEPT !.ours = FALSE]],
         down, managerOf)

(* Mutant: the actor is not shut down.                                     *)
DestroyContainerQuietly == DestroyedWith(shut)

DestroyContainer == DestroyedWith(shut \cup {container.actor})

HasClients == \E q \in Requesters : requests[q].client /\ requests[q].ours
HasRequests == \E q \in Requesters : requests[q].actor # 0 /\ requests[q].ours

RemoveUnless(used) == isEvictable /\ container.live /\ ~used /\ DestroyContainer

(* Mutant: the actor is evicted, though clients are left.                  *)
cleanupLoopOfEvicted == RemoveUnless(container.actor # 0)

(* cleanupLoop() removes a container that no client refers to.             *)
cleanupLoop == RemoveUnless(HasClients)

(* The context is aborted, the output gate breaks, or the constructor      *)
(* fails: the promise of Worker::Actor::onBroken() resolves.               *)
Break(i) ==
  /\ i \in Referenced(container, requests) \ (shut \cup brokenActors)
  /\ brokenActors' = brokenActors \cup {i}
  /\ UNCHANGED <<isEvictable, container, requests, shut, managerOf>>

onActorBroken ==
  /\ container.watched # 0
  /\ container.watched \in brokenActors
  /\ DestroyContainer

(* What a request does by itself, and what its host does.                  *)
RequestStep(q) ==
  \/ cancelGetActor(q)
  \/ getActorImpl(q)
  \/ RequestDrained(q)
  \/ DropInterface(q)

HostStep ==
  \/ ShutdownTimer
  \/ cleanupLoop
  \/ onActorBroken
  \/ \E i \in Instances : Break(i)

-----------------------------------------------------------------------------
(* Properties.                                                             *)

(* The states of the model are of the declared shape.                      *)
NamespaceTypeOK ==
  /\ isEvictable \in BOOLEAN
  /\ container \in [live : BOOLEAN, actor : Instances \cup {0},
                    active : 0 .. Cardinality(Requesters),
                    task : {"none", "timer", "locking"},
                    manager : Managers \cup {0}, watched : Instances \cup {0}]
  /\ requests \in [Requesters -> [pc : {"idle", "locking", "started"},
                                  actor : Instances \cup {0},
                                  client : BOOLEAN, ours : BOOLEAN]]
  /\ brokenActors \subseteq Instances
  /\ shut \subseteq Instances
  /\ managerOf \in [Instances -> Managers \cup {0}]
  /\ ~container.live => container = NoContainer

(* No split brain: a request never holds an actor that still accepts work  *)
(* while a later one has taken its place; every actor but the one in the   *)
(* map has been shut down.                                                 *)
NoSplitBrain ==
  \A q \in Requesters :
    requests[q].actor \notin {0, container.actor} => requests[q].actor \in shut

(* The tracker's count is that of the references to the container's actor, *)
(* and no eviction is pending while there is one: "if a new request comes  *)
(* in while we're waiting to get the lock then we will cancel this         *)
(* promise" (server.c++ 1619-1621).                                        *)
IdleWhenEvicting ==
  /\ container.active =
       Cardinality({q \in Requesters : requests[q].ours /\ requests[q].actor # 0})
  /\ container.task # "none" => ~HasRequests /\ container.actor # 0

(* An actor leaves the map only when it is idle, when no client of it is   *)
(* left, or when it is broken.                                             *)
LeavesInOrder ==
  [][container.actor # 0 /\ container'.actor # container.actor
     => \/ container'.live /\ ~HasRequests
        \/ ~HasClients
        \/ container.actor \in brokenActors]_namespaceVars

(* The onBroken task is that of the actor in the container: what it        *)
(* removes is never a sound actor that has taken the place of another.     *)
WatchesItsOwn == container.watched \in {0, container.actor}

(* A broken actor in the map is watched by the task that will remove it    *)
(* (or is about to be evicted): "If the actor becomes broken, remove it    *)
(* from the map, so a new one will be created next time" (server.c++ 1903).*)
(* It does not hold: see the README.                                       *)
BrokenIsRemoved ==
  container.actor \in brokenActors
  => container.watched = container.actor \/ container.task = "locking"

(* An actor without requests is evicted, unless a request comes.           *)
IdleIsEvicted ==
  (isEvictable /\ container.actor # 0 /\ container.active = 0)
  ~> (container.actor = 0 \/ container.active > 0)

=============================================================================
