---------------------------- MODULE Hibernation ----------------------------
(***************************************************************************)
(* Hibernatable WebSockets across the eviction and the rebirth of their    *)
(* Durable Object.  A call accepts the server end of its own WebSocket;    *)
(* from then on the HibernationManager owns it, reads it, and delivers     *)
(* what it reads as events, each a new request to the namespace through    *)
(* the actor's loopback.  When the actor is evicted the WebSockets are     *)
(* packed away; an event, or getWebSockets(), unpacks them in the actor    *)
(* that replaced it.                                                       *)
(*                                                                         *)
(* io/hibernation-manager.c++, api/hibernatable-web-socket.c++ 15-158,     *)
(* api/actor-state.c++ 838-897.                                            *)
(***************************************************************************)
EXTENDS ActorNamespace

CONSTANTS Calls,        \* the requesters that may accept a WebSocket (the others do not)
          EventOf(_)    \* the requester standing for the events of a call's WebSocket

ASSUME HibernationAssumption ==
  \A r \in Calls : r \in Requesters /\ EventOf(r) \in Requesters \ Calls

Callers == Requesters \ {EventOf(r) : r \in Calls}

VARIABLE sockets        \* the HibernatableWebSocket accepted by each call

hibernationVars == <<namespaceVars, sockets>>

(* `pc`: where the read loop is.  "reading": in receive(); "waiting": the  *)
(* event `kind` awaits its actor; "handling": it runs; "stuck": the task   *)
(* failed, and the WebSocket stays in allWs.  `active`: the actor whose    *)
(* IoContext the api::WebSocket belongs to, 0 for a HibernationPackage.    *)
NoSocket ==
  [pc |-> "none", manager |-> 0, active |-> 0, kind |-> "none", closed |-> FALSE]

Kinds == {"none", "message", "close", "disconnect", "error"}

(* A manager lives as long as the container or an actor refers to it; its  *)
(* WebSockets and their read loops go with it.                             *)
Alive == {container.manager} \cup {managerOf[i] : i \in Instances}
Kept(s) == [r \in Calls |-> IF s[r].manager \in Alive' THEN s[r] ELSE NoSocket]

HibernationInit == NamespaceInit /\ sockets = [r \in Calls |-> NoSocket]

-----------------------------------------------------------------------------
(* The object and its calls.  One call has at most one WebSocket, and is   *)
(* not made again before that is gone.                                     *)

CallMoves ==
  /\ \E q \in Callers :
       \/ (q \in Calls => sockets[q] = NoSocket) /\ getActor(q)
       \/ RequestStep(q)
  /\ sockets' = Kept(sockets)

HostMoves == HostStep /\ sockets' = Kept(sockets)

(* hibernateWebSockets().                                                  *)
HibernatedAll(s) ==
  [r \in Calls |-> IF s[r].manager = container.manager
                   THEN [s[r] EXCEPT !.active = 0] ELSE s[r]]

(* handleShutdown has the lock: hibernateWebSockets(), then the eviction.  *)
HibernateAndEvict == ShutdownLocked /\ sockets' = Kept(HibernatedAll(sockets))

(* A call's handler runs only in a sound actor.                            *)
Runs(q) == requests[q].actor \notin {0} \cup shut \cup brokenActors

(* DurableObjectState::acceptWebSocket: the actor's manager, or a new one. *)
ManagerFor(i) ==
  IF managerOf[i] # 0 THEN managerOf[i] ELSE CHOOSE n \in Managers : n \notin Alive

(* The manager takes the WebSocket and starts its read loop.               *)
acceptWebSocket(r) ==
  LET i == requests[r].actor
  IN /\ Runs(r)
     /\ requests[r].client
     /\ sockets[r] = NoSocket
     /\ managerOf[i] # 0 \/ Managers \ Alive # {}
     /\ managerOf' = [managerOf EXCEPT ![i] = ManagerFor(i)]
     /\ sockets' = [sockets EXCEPT ![r] =
          [NoSocket EXCEPT !.pc = "reading", !.manager = ManagerFor(i), !.active = i]]
     /\ UNCHANGED <<isEvictable, container, requests, brokenActors, shut>>

(* getWebSockets: every WebSocket of the manager is unpacked.              *)
getWebSockets(q) ==
  LET i == requests[q].actor
  IN /\ Runs(q)
     /\ managerOf[i] # 0
     /\ sockets' = [s \in Calls |->
          IF sockets[s].manager = managerOf[i] /\ sockets[s].active = 0
          THEN [sockets[s] EXCEPT !.active = i] ELSE sockets[s]]
     /\ UNCHANGED namespaceVars

-----------------------------------------------------------------------------
(* The read loop.  The peer is there as long as the call's client is.      *)

(* handleSocketTermination of an error, up to the dispatch of its event.   *)
Terminated(s, disconnected) ==
  LET close == disconnected /\ ~s.closed
  IN [s EXCEPT !.pc = "waiting", !.kind = IF close THEN "disconnect" ELSE "error",
               !.closed = @ \/ close]

receive(r) ==
  /\ sockets[r].pc = "reading"
  /\ requests[r].client
  /\ \E next \in {[sockets[r] EXCEPT !.pc = "waiting", !.kind = "message"],
                  [sockets[r] EXCEPT !.pc = "waiting", !.kind = "close",
                                     !.closed = TRUE],
                  Terminated(sockets[r], FALSE)} :
       sockets' = [sockets EXCEPT ![r] = next]
  /\ UNCHANGED namespaceVars

receiveDisconnected(r) ==
  /\ sockets[r].pc = "reading"
  /\ ~requests[r].client
  /\ sockets' = [sockets EXCEPT ![r] = Terminated(@, TRUE)]
  /\ UNCHANGED namespaceVars

(* claimWebSocket(): the event finds its WebSocket only in its own         *)
(* manager, and unpacks it if it has to.                                   *)
Claimed(s, i) ==
  IF managerOf'[i] = s.manager /\ s.active = 0 THEN i ELSE s.active

(* HibernatableWebSocketCustomEventImpl::run in the actor the loopback     *)
(* found.                                                                  *)
EventRuns(r) ==
  /\ sockets[r].pc = "waiting"
  /\ requests[EventOf(r)] = NoReference
  /\ TakeActor(EventOf(r), sockets[r].manager)
  /\ sockets' = Kept([sockets EXCEPT ![r] =
       [@ EXCEPT !.pc = "handling", !.active = Claimed(sockets[r], container'.actor)]])

(* The event is over, handled or not, and its interface is dropped; drain()*)
(* may keep the actor for longer.  The loop reads on, or the WebSocket is  *)
(* dropped after a close, a disconnection or an error.                     *)
EventReturnsLeaving(r, left) ==
  /\ requests[EventOf(r)].client /\ requests[EventOf(r)].actor # 0
  /\ EndRequest(EventOf(r)) \/ DropInterface(EventOf(r))
  /\ sockets' = Kept(IF sockets[r].pc # "handling" THEN sockets
                     ELSE [sockets EXCEPT ![r] =
                             IF @.kind = "message"
                             THEN [@ EXCEPT !.pc = "reading", !.kind = "none"]
                             ELSE left])

(* Mutant: the WebSocket is not dropped.                                   *)
EventReturnsUndropped(r) == EventReturnsLeaving(r, sockets[r])

EventReturns(r) == EventReturnsLeaving(r, NoSocket)

(* The drain() that the event left behind in waitUntilTasks ends.          *)
EventDrained(r) ==
  /\ ~requests[EventOf(r)].client
  /\ RequestDrained(EventOf(r))
  /\ sockets' = Kept(sockets)

(* No actor for the event (its constructor threw): the read loop ends with *)
(* the exception, and so does the termination that follows it, but the     *)
(* exception of the latter's own event leaves the WebSocket behind.        *)
EventThrows(r) ==
  /\ sockets[r].pc = "waiting"
  /\ \E disconnected \in BOOLEAN :
       sockets' = [sockets EXCEPT ![r] =
                     IF @.kind \in {"message", "close"}
                     THEN Terminated(@, disconnected)
                     ELSE [@ EXCEPT !.pc = "stuck"]]
  /\ UNCHANGED namespaceVars

HibernationNext ==
  \/ CallMoves
  \/ HostMoves
  \/ HibernateAndEvict
  \/ \E q \in Callers : getWebSockets(q)
  \/ \E r \in Calls :
       \/ acceptWebSocket(r)
       \/ receive(r)
       \/ receiveDisconnected(r)
       \/ EventRuns(r)
       \/ EventReturns(r)
       \/ EventDrained(r)
       \/ EventThrows(r)

HibernationSpec == HibernationInit /\ [][HibernationNext]_hibernationVars

-----------------------------------------------------------------------------
(* Properties.                                                             *)

(* The states of the model are of the declared shape.                      *)
HibernationTypeOK ==
  /\ NamespaceTypeOK
  /\ sockets \in [Calls -> [pc : {"none", "reading", "waiting", "handling", "stuck"},
                            manager : Managers \cup {0},
                            active : Instances \cup {0},
                            kind : Kinds, closed : BOOLEAN]]

(* A WebSocket whose call still belongs to the container in the map.       *)
Ours(r) == sockets[r] # NoSocket /\ requests[r].client /\ requests[r].ours

(* The manager follows the WebSocket through every eviction: it is the one *)
(* of the actor, or, between two actors, the one the container remembers.  *)
(* An event therefore always finds the WebSocket it is for.                *)
ManagerIsKept ==
  \A r \in Calls :
    Ours(r) => sockets[r].manager = IF container.actor # 0
                                    THEN managerOf[container.actor]
                                    ELSE container.manager

(* A WebSocket is never left with a JavaScript object of an actor that has *)
(* gone: eviction packs it away before.                                    *)
ActiveInTheActor ==
  \A r \in Calls : Ours(r) /\ sockets[r].active # 0
                   => sockets[r].active = container.actor

(* A connected WebSocket that nothing has ended is not lost by evictions   *)
(* or by the clean-up loop, only when its actor breaks.                    *)
ConnectedIsKept ==
  [][\A r \in Calls :
       Ours(r) /\ sockets[r].pc = "reading" /\ sockets'[r] = NoSocket
       => container.actor \in brokenActors]_hibernationVars

(* No WebSocket gets a second close event: "let's mark our websocket as    *)
(* having done so to prevent a situation where we dispatch it twice"       *)
(* (hibernation-manager.c++ 358-360).                                      *)
ClosesOnce ==
  [][\A r \in Calls : sockets[r].closed /\ sockets'[r].kind # sockets[r].kind
       => sockets'[r].kind \in {"error", "none"}]_sockets

(* "this drops the HibernationManager so any connected hibernatable        *)
(* websockets will be disconnected" (server.c++ 1946-1947): the WebSockets *)
(* of a container that is gone have no events in the one that follows.  It *)
(* is violated: every actor that shares the manager keeps it alive.        *)
BrokenDisconnects ==
  \A r \in Calls :
    sockets[r].pc = "handling" /\ requests[r].client => requests[r].ours

(* One actor at a time: eviction, the watch for broken actors, the manager *)
(* and the WebSockets all follow the actor in the map.                     *)
OneActorAtATime ==
  NoSplitBrain /\ IdleWhenEvicting /\ WatchesItsOwn /\ ManagerIsKept /\ ActiveInTheActor

(* No actor and no WebSocket leaves while it is wanted.                    *)
NothingLeavesEarly == LeavesInOrder /\ ConnectedIsKept /\ ClosesOnce

(* A WebSocket whose peer has gone is dropped in the end, unless the event *)
(* that says so cannot be delivered.                                       *)
DisconnectedIsDropped ==
  \A r \in Calls : (sockets[r] # NoSocket /\ ~requests[r].client)
                   ~> sockets[r].pc \in {"none", "stuck"}

(* What is no longer wanted goes: idle actors, and sockets without a peer. *)
UnwantedIsDropped == IdleIsEvicted /\ DisconnectedIsDropped
=============================================================================
