--------------------------- MODULE WebSocketSend ---------------------------
(***************************************************************************)
(* The sending side of one hibernatable WebSocket.  Three parties write to *)
(* the one kj::WebSocket, which takes one message at a time: the pump, for *)
(* what JavaScript sends; the read loop, for the automatic responses of an *)
(* awake WebSocket; and again the read loop, for those of a hibernating    *)
(* one.  Responses that arrive while the pump runs are queued, each        *)
(* message remembering how many of them go out before it.                  *)
(*                                                                         *)
(* api/web-socket.c++ 29-63, 508-622, 702-888, 1086-1097; io/hibernation-  *)
(* manager.c++ 60-75, 211-222, 287-342.                                    *)
(***************************************************************************)
EXTENDS Naturals, Integers, Sequences, SequencesExt

CONSTANTS MaxMessages,      \* calls of send() and close() explored
          MaxResponses,     \* automatic responses explored
          MaxHibernations,  \* hibernations explored
          SlowSends         \* may a send outlast the ten seconds to eviction?

ASSUME WebSocketSendAssumption ==
  /\ MaxMessages \in Nat /\ MaxResponses \in Nat /\ MaxHibernations \in Nat
  /\ SlowSends \in BOOLEAN

VARIABLES socket,       \* the api::WebSocket, its pump and its AutoResponse
          package,      \* the HibernatableWebSocket's side of hibernation
          loop,         \* the read loop: receiving, or sending a response
          wire,         \* what the kj::WebSocket has sent
          count,        \* how many of each kind of input there have been
          late          \* has a message come when the pump no longer looked?

sendVars == <<socket, package, loop, wire, count, late>>

(* `seen`: how many responses had been asked for when it was sent.         *)
Message(n, close, seen) ==
  [from |-> "script", n |-> n, close |-> close, seen |-> seen]
Response(n) == [from |-> "auto", n |-> n, close |-> FALSE, seen |-> 0]
NoMessage == [from |-> "none", n |-> 0, close |-> FALSE, seen |-> 0]

(* The width of size_t; any number no deque reaches behaves like 2^64.     *)
SizeT == 2^16

(* `pump`: "idle"; "auto": awaiting ongoingAutoResponse; "lock": awaiting  *)
(* the output lock of `current`; "before": sending a response that goes    *)
(* before it; "sending": sending it; "after": sending a response left over *)
(* at the end.  `ongoing`: whether ongoingAutoResponse is unresolved.      *)
NewSocket ==
  [pump |-> "idle", outgoing |-> <<>>, current |-> NoMessage, before |-> 0,
   deque |-> <<>>, queued |-> 0, sending |-> NoMessage, ongoing |-> FALSE,
   isClosed |-> FALSE, closedOutgoing |-> FALSE, closedForHib |-> FALSE,
   outgoingAborted |-> FALSE]

(* `away`: activeOrPackage holds a package; `closed`: the package's        *)
(* closedOutgoingConnection; `promise`: autoResponsePromise is unresolved. *)
Awake == [away |-> FALSE, closed |-> FALSE, promise |-> FALSE]

Receiving == [pc |-> "receiving", sending |-> NoMessage]

SendInit ==
  /\ socket = NewSocket
  /\ package = Awake
  /\ loop = Receiving
  /\ wire = <<>>
  /\ count = [messages |-> 0, responses |-> 0, hibernations |-> 0]
  /\ late = FALSE

-----------------------------------------------------------------------------
(* The pump.                                                               *)

(* KJ_DEFER: the end of the pump.                                          *)
PumpEnds(s) ==
  [s EXCEPT !.pump = "idle", !.outgoing = <<>>, !.deque = <<>>,
            !.current = NoMessage, !.before = 0, !.sending = NoMessage]

(* With the message's lock: its responses first, then the message itself.  *)
(* A failed KJ_ASSERT ends the pump, and reportError() the sending.        *)
SendCurrent(s) ==
  IF s.before > Len(s.deque) THEN [PumpEnds(s) EXCEPT !.outgoingAborted = TRUE]
  ELSE IF s.before > 0
  THEN [s EXCEPT !.pump = "before", !.sending = Head(s.deque),
                 !.deque = Tail(@), !.before = @ - 1, !.queued = @ - 1]
  ELSE [s EXCEPT !.pump = "sending", !.sending = s.current]

(* The next message; after the last, what is left of the responses; then   *)
(* the end.  The loop over the responses does not look for messages.       *)
PumpOn(s) ==
  IF s.outgoing # <<>> /\ s.pump # "after"
  THEN [s EXCEPT !.pump = "lock", !.current = Head(s.outgoing).message,
                 !.before = Head(s.outgoing).before, !.outgoing = Tail(@),
                 !.sending = NoMessage]
  ELSE IF s.deque # <<>> /\ ~s.isClosed
       THEN [s EXCEPT !.pump = "after", !.current = NoMessage,
                      !.sending = Head(s.deque), !.deque = Tail(@)]
       ELSE PumpEnds(s)

(* ensurePumping: a pump starts by waiting for a response on its way.      *)
ensurePumping(s) ==
  IF s.pump # "idle" THEN s
  ELSE IF s.ongoing THEN [s EXCEPT !.pump = "auto"] ELSE PumpOn(s)

(* send() and close() put a message in the queue, with the number of       *)
(* responses that have come since the message before it.                   *)
Queued(s, message) ==
  LET before == (Len(s.deque) - s.queued) % SizeT
  IN [s EXCEPT !.outgoing = Append(@, [message |-> message, before |-> before]),
               !.queued = Len(s.deque)]

Outgoing(closes) ==
  /\ ~package.away
  /\ ~socket.closedOutgoing
  /\ ~socket.outgoingAborted
  /\ count.messages < MaxMessages
  /\ socket' = ensurePumping(
       Queued([socket EXCEPT !.closedOutgoing = closes, !.closedForHib = @ \/ closes],
              Message(count.messages + 1, closes, count.responses)))
  /\ late' = (late \/ socket.pump = "after")
  /\ count' = [count EXCEPT !.messages = @ + 1]
  /\ UNCHANGED <<package, loop, wire>>

send == Outgoing(FALSE)
close == Outgoing(TRUE)

(* The response under way is out; the pump may begin.                      *)
PumpBegins ==
  /\ socket.pump = "auto"
  /\ ~socket.ongoing
  /\ socket' = PumpOn(socket)
  /\ UNCHANGED <<package, loop, wire, count, late>>

OutputLockOpens ==
  /\ socket.pump = "lock"
  /\ socket' = SendCurrent(socket)
  /\ UNCHANGED <<package, loop, wire, count, late>>

(* What the pump was sending is sent.                                      *)
PumpSent ==
  /\ socket.pump \in {"before", "sending", "after"}
  /\ wire' = Append(wire, socket.sending)
  /\ socket' = IF socket.pump = "before" THEN SendCurrent(socket)
               ELSE PumpOn([socket EXCEPT !.isClosed = @ \/ socket.sending.close])
  /\ UNCHANGED <<package, loop, count, late>>

-----------------------------------------------------------------------------
(* The read loop receives a message that has an automatic response.        *)

LoopSends(pc) == [pc |-> pc, sending |-> Response(count.responses + 1)]

(* sendAutoResponse, of an awake WebSocket.                                *)
sendAutoResponseWith(deque) ==
  /\ loop.pc = "receiving"
  /\ ~package.away
  /\ count.responses < MaxResponses
  /\ count' = [count EXCEPT !.responses = @ + 1]
  /\ IF socket.pump # "idle"
     THEN socket' = [socket EXCEPT !.deque = deque] /\ UNCHANGED loop
     ELSE IF socket.isClosed THEN UNCHANGED <<socket, loop>>
     ELSE /\ socket' = [socket EXCEPT !.ongoing = TRUE]
          /\ loop' = LoopSends("awake")
  /\ UNCHANGED <<package, wire, late>>

(* Mutant: the response goes to the front of the deque.                    *)
sendAutoResponseFirst ==
  sendAutoResponseWith(<<Response(count.responses + 1)>> \o socket.deque)

sendAutoResponse ==
  sendAutoResponseWith(Append(socket.deque, Response(count.responses + 1)))

(* The same for a hibernating one.                                         *)
respondAsleep ==
  /\ loop.pc = "receiving"
  /\ package.away
  /\ count.responses < MaxResponses
  /\ count' = [count EXCEPT !.responses = @ + 1]
  /\ IF package.closed THEN UNCHANGED <<package, loop>>
     ELSE /\ package' = [package EXCEPT !.promise = TRUE]
          /\ loop' = LoopSends("asleep")
  /\ UNCHANGED <<socket, wire, late>>

(* It is out: both the loop and whoever awaits the promise go on.          *)
ResponseSentTelling(ongoing) ==
  /\ loop.pc # "receiving"
  /\ wire' = Append(wire, loop.sending)
  /\ loop' = Receiving
  /\ socket' = [socket EXCEPT !.ongoing = ongoing]
  /\ package' = [package EXCEPT !.promise = FALSE]
  /\ UNCHANGED <<count, late>>

(* Mutant: the pump that waits is not told.                                *)
ResponseSentQuietly == ResponseSentTelling(socket.ongoing /\ loop.pc = "asleep")

ResponseSent == ResponseSentTelling(FALSE)

-----------------------------------------------------------------------------
(* Hibernation.                                                            *)

(* hibernateWebSockets: the api::WebSocket is dropped, and what it knew of *)
(* a response under way with it.  A pump at work is left alone here.       *)
hibernate ==
  /\ ~package.away
  /\ count.hibernations < MaxHibernations
  /\ socket.pump = "idle"
  /\ SlowSends \/ loop.pc = "receiving"
  /\ package' = [away |-> TRUE, closed |-> socket.closedForHib, promise |-> FALSE]
  /\ socket' = NewSocket
  /\ count' = [count EXCEPT !.hibernations = @ + 1]
  /\ UNCHANGED <<loop, wire, late>>

(* getActiveOrUnhibernate: a new api::WebSocket from the package.          *)
Woken ==
  [NewSocket EXCEPT !.closedOutgoing = package.closed,
                    !.isClosed = package.closed, !.ongoing = package.promise]

unhibernate ==
  /\ package.away
  /\ socket' = Woken
  /\ package' = Awake
  /\ UNCHANGED <<loop, wire, count, late>>

SendNext ==
  \/ send
  \/ close
  \/ PumpBegins
  \/ OutputLockOpens
  \/ PumpSent
  \/ sendAutoResponse
  \/ respondAsleep
  \/ ResponseSent
  \/ hibernate
  \/ unhibernate

SendSpec == SendInit /\ [][SendNext]_sendVars

-----------------------------------------------------------------------------
(* Properties.                                                             *)

WireMessages == {Message(n, c, k) : n \in 1 .. MaxMessages, c \in BOOLEAN,
                                    k \in 0 .. MaxResponses}
Responses == {Response(n) : n \in 1 .. MaxResponses}
Flags == {"ongoing", "isClosed", "closedOutgoing", "closedForHib", "outgoingAborted"}

(* The states of the model are of the declared shape; the queues of a pump *)
(* that does not run are empty.                                            *)
SendTypeOK ==
  /\ socket.pump \in {"idle", "auto", "lock", "before", "sending", "after"}
  /\ socket.current \in WireMessages \cup {NoMessage}
  /\ socket.sending \in WireMessages \cup Responses \cup {NoMessage}
  /\ socket.queued \in Int /\ socket.before \in 0 .. SizeT
  /\ \A f \in Flags : socket[f] \in BOOLEAN
  /\ socket.deque \in Seq(Responses)
  /\ socket.outgoing \in Seq([message : WireMessages, before : 0 .. SizeT])
  /\ socket.pump = "idle" => socket.outgoing = <<>> /\ socket.deque = <<>>
  /\ loop \in [pc : {"receiving", "awake", "asleep"},
               sending : Responses \cup {NoMessage}]
  /\ package \in [away : BOOLEAN, closed : BOOLEAN, promise : BOOLEAN]

(* The kj::WebSocket never has two sends under way: "we must co_await it   *)
(* here because there's a ws.send() in progress.  Otherwise there can      *)
(* occur ws.send() race problems" (web-socket.c++ 840-841).                *)
OneSendAtATime == socket.sending # NoMessage => loop.pc = "receiving"

(* The responses promised to go before the messages of the queue are in    *)
(* the deque, so that the assertion at web-socket.c++ 854 holds and the    *)
(* unsigned difference that send() takes is never negative.                *)
PromisesAreKept ==
  \/ late
  \/ /\ socket.queued <= Len(socket.deque)
     /\ socket.queued = socket.before
          + FoldLeft(LAMBDA sum, g : sum + g.before, 0, socket.outgoing)

(* Messages go out in the order they were sent, responses in the order     *)
(* they were asked for, and before every message that was sent after that: *)
(* "guaranteeing order" (web-socket.c++ 600-601).                          *)
InOrder ==
  late \/ \A i, j \in DOMAIN wire :
    i < j => IF wire[i].from = wire[j].from THEN wire[i].n < wire[j].n
             ELSE wire[i].from = "script" => wire[i].seen < wire[j].n

(* Nothing follows a close: "preventing calls to send() even after we wake *)
(* from hibernation" (web-socket.h 464-466).  It is violated: the package  *)
(* of a second hibernation says that the connection is open.               *)
NothingAfterClose == \A i \in DOMAIN wire : wire[i].close => i = Len(wire)

(* Of which one hibernation is true: the flag that makes a package know of *)
(* the close() is not restored with the WebSocket.                         *)
NothingAfterCloseOnce == count.hibernations > 1 \/ NothingAfterClose

(* One send at a time, in the order that was promised, and none after a    *)
(* close until a second hibernation: what the peer sees, however pump,     *)
(* read loop and hibernation interleave.  The order of a response that was *)
(* queued behind a late message is left out.                               *)
WireInOrder == OneSendAtATime /\ PromisesAreKept /\ InOrder /\ NothingAfterCloseOnce

Sent == {wire[i].n : i \in {k \in DOMAIN wire : wire[k].from = "script"}}

(* What JavaScript sends goes out in the end, unless it came while the     *)
(* pump was busy with the last of the responses: the pump then ends, with  *)
(* the comment "Either we were already through all our outgoing messages   *)
(* or we experienced failure/cancellation and cannot send these anyway"    *)
(* (web-socket.c++ 829-830).                                               *)
EverythingGoesOut ==
  \A n \in 1 .. MaxMessages : count.messages >= n ~> n \in Sent \/ late

=============================================================================
