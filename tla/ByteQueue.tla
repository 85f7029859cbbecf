----------------------------- MODULE ByteQueue ------------------------------
(***************************************************************************)
(* A ReadableStream of bytes that JavaScript provides: ByteQueue and its   *)
(* consumers (src/workerd/api/streams/queue.{h,c++}), one for each branch  *)
(* of a tee, and the controller with its byobRequest and its pull          *)
(* algorithm (ReadableByteStreamController, ReadableImpl and ByteReadable  *)
(* in standard.c++).                                                       *)
(*                                                                         *)
(* Bytes are numbered in the order in which the source provides them.      *)
(* Each call of JavaScript is a step: what it calls in turn (the source's  *)
(* pull() above all) it calls last, except in respond().  An assertion     *)
(* that fails ends the branch.                                             *)
(***************************************************************************)
EXTENDS Naturals, Sequences, SequencesExt, FiniteSetsExt

CONSTANTS
    Branches,        \* the consumers there may be; the first one is First
    First,
    Stores, ElementSizes, Minimums,  \* arrays, elements and minimums of reads
    Chunks,          \* the numbers of bytes a source enqueues at a time
    HighWaterMark,
    MaxBytes,        \* bound on the bytes the source provides
    MaxReads         \* bound on the calls of read()

VARIABLES
    stream,      \* ReadableImpl::state: "Queue", "Closed" or "Errored"
    consumers,   \* the ConsumerImpl of each branch
    pendingByob, \* pendingByobReadRequests, by the ids of their reads
    byobRequest, \* maybeByobRequest: the id of its read, the size of its view
    pulling, pullAgain,
    responding,  \* while respond() is in the pull() it calls: the id of its read
    provided,    \* the number of bytes provided
    requested,   \* the number of calls of read(), the id of the last
    unasked      \* bytes or a read came since pull() was called

queueVars == <<stream, consumers, pendingByob>>
pullVars == <<pulling, pullAgain, unasked>>
byteQueueVars == <<queueVars, byobRequest, pullVars, responding, provided, requested>>

NoByobRequest == [id |-> 0, view |-> 0]

(***************************************************************************)
(* state: "None" before the tee that makes the branch, "Fault" after an    *)
(* assertion failed; "Drained" and "Canceled" are both Closed.  buffer     *)
(* holds what is left of each entry, closing stands for the Close behind   *)
(* them.  Four fields are not in the code: the bytes the reader has got,   *)
(* whether a read was answered with too few, least, the atLeast of a read  *)
(* before it is filled, and exposed: the branch was in one of the cases in *)
(* which the code does not keep bytes in order.  These are an entry that   *)
(* is buffered whole after a read got part of it; an entry that is not     *)
(* whole elements of a read; respond() while bytes are queued, to a read   *)
(* that is not the first, with part of an element, or to one that is gone; *)
(* and releaseLock() while a read is filled in part.                       *)
(***************************************************************************)
UnusedConsumer == [state |-> "None", buffer |-> <<>>, closing |-> FALSE,
           queueTotalSize |-> 0, readRequests |-> <<>>,
           got |-> <<>>, short |-> FALSE, exposed |-> FALSE]

Lesser(x, y) == IF x < y THEN x ELSE y
Bytes(from, n) == [i \in 1..n |-> from + i]
Ready(cs) == {b \in Branches : cs[b].state = "Ready"}
IdsOf(c) == {c.readRequests[i].id : i \in DOMAIN c.readRequests}
isInvalidated(id, cs) == \A b \in Ready(cs) : id \notin IdsOf(cs[b])

ByteQueueInit ==
    /\ stream = "Queue"
    /\ consumers = [b \in Branches |->
                      IF b = First THEN [UnusedConsumer EXCEPT !.state = "Ready"] ELSE UnusedConsumer]
    /\ pendingByob = <<>> /\ byobRequest = NoByobRequest
    /\ pulling = (HighWaterMark > 0) /\ pullAgain = FALSE
    /\ responding = 0 /\ unasked = FALSE
    /\ provided = 0 /\ requested = 0

SomeBytes == Seq(0..MaxBytes)

(* The type invariant: no array takes more bytes than it has room for, and *)
(* minimums stay within what is left.                                      *)
ByteQueueTypeOK ==
    /\ stream \in {"Queue", "Closed", "Errored"}
    /\ pulling \in BOOLEAN /\ pullAgain \in BOOLEAN /\ unasked \in BOOLEAN
    /\ provided \in 0..MaxBytes /\ requested \in 0..MaxReads
    /\ responding \in 0..requested
    /\ pendingByob \in Seq(1..requested)
    /\ byobRequest \in [id : 0..requested, view : 0..Max(Stores)]
    /\ \A b \in Branches :
          LET c == consumers[b]
          IN /\ c.state \in {"None", "Ready", "Drained", "Canceled", "Errored", "Fault"}
             /\ c.buffer \in Seq(SomeBytes \ {<<>>}) /\ c.got \in SomeBytes
             /\ c.queueTotalSize \in Nat /\ c.closing \in BOOLEAN
             /\ \A r \in ToSet(c.readRequests) :
                   /\ r.filled \in SomeBytes /\ Len(r.filled) <= r.store
                   /\ r.atLeast \in 1..(r.store - Len(r.filled))

-----------------------------------------------------------------------------
(* ReadRequest::resolve() or resolveAsDone() of the first read.  A typed   *)
(* array shows whole elements.                                             *)
resolveFirst(c) ==
    LET r == Head(c.readRequests)
        odd == Len(r.filled) % r.elementSize
    IN [c EXCEPT !.readRequests = Tail(@),
                 !.got = @ \o SubSeq(r.filled, 1, Len(r.filled) - odd),
                 !.short = @ \/ (~c.closing /\ Len(r.filled) < r.least)]

(* The buffer without its first n bytes.                                   *)
RECURSIVE DropBytes(_, _)
DropBytes(buffer, n) ==
    IF n = 0 THEN buffer
    ELSE LET e == Head(buffer)
         IN IF Len(e) <= n THEN DropBytes(Tail(buffer), n - Len(e))
                           ELSE <<SubSeq(e, n + 1, Len(e))>> \o Tail(buffer)

(* The first read takes n bytes from the buffer.                           *)
fillFirst(c, n) ==
    [c EXCEPT !.readRequests[1].filled = @ \o SubSeq(FlattenSeq(c.buffer), 1, n),
              !.buffer = DropBytes(@, n),
              !.queueTotalSize = @ - n]

bufferData(c, bytes) == [c EXCEPT !.buffer = Append(@, bytes),
                                  !.queueTotalSize = @ + Len(bytes)]

RECURSIVE handlePush(_, _, _)

(***************************************************************************)
(* ByteQueue::handlePush() with an entry of which `rest` is not yet        *)
(* consumed: pending reads are answered as long as their minimum is met.   *)
(***************************************************************************)
handlePush(c, entry, rest) ==
    IF rest = <<>> THEN c
    ELSE IF c.readRequests = <<>> THEN bufferData(c, rest)
    ELSE LET r == Head(c.readRequests)
             d == fillFirst(c, c.queueTotalSize)
             n == Lesser(Len(rest), r.store - Len(r.filled) - c.queueTotalSize)
         IN IF c.queueTotalSize + Len(rest) < r.atLeast
              THEN [bufferData(c, entry) EXCEPT !.exposed = @ \/ rest # entry]
            ELSE IF c.queueTotalSize >= r.atLeast
              THEN [c EXCEPT !.state = "Fault"]
            ELSE handlePush(resolveFirst([d EXCEPT !.readRequests[1].filled =
                                                       @ \o SubSeq(rest, 1, n)]),
                            entry, SubSeq(rest, n + 1, Len(rest)))

(* Entries that are not whole elements of the array of some read.          *)
Ragged(entries, reads) ==
    \E e \in entries : \E r \in reads : Len(e) % r.elementSize # 0

(* ConsumerImpl::push().                                                   *)
push(c, entry) ==
    IF c.state # "Ready" THEN c
    ELSE handlePush([c EXCEPT !.exposed = @ \/ Ragged({entry}, ToSet(c.readRequests))],
                    entry, entry)

(***************************************************************************)
(* consume() of ByteQueue::handleRead(): the last read is filled entry by  *)
(* entry, each time with whole elements if there is more than one.         *)
(***************************************************************************)
RECURSIVE consume(_, _)
consume(c, amount) ==
    IF amount = 0 \/ (c.buffer = <<>> /\ c.closing) THEN c
    ELSE IF c.buffer = <<>> THEN [c EXCEPT !.state = "Fault"]
    ELSE LET last == Len(c.readRequests)
             r == c.readRequests[last]
             Whole(n) == IF n > r.elementSize THEN n - (n % r.elementSize) ELSE n
             n == Whole(Lesser(Len(Head(c.buffer)), r.store - Len(r.filled)))
             d == [c EXCEPT !.readRequests[last] =
                              [r EXCEPT !.filled = @ \o SubSeq(Head(c.buffer), 1, n),
                                        !.atLeast = IF @ > n THEN @ - n
                                                    ELSE IF @ = n THEN 1 ELSE @],
                            !.buffer = DropBytes(@, n),
                            !.queueTotalSize = @ - n]
         IN IF n < Len(Head(c.buffer)) /\ n # Whole(amount)
              THEN [d EXCEPT !.state = "Fault"]
              ELSE consume(d, Whole(amount) - n)

(* ByteQueue::handleMaybeClose(): the rest of the bytes goes to the reads  *)
(* that are pending, whatever their minimum.                               *)
RECURSIVE handleMaybeClose(_)
handleMaybeClose(c) ==
    IF c.readRequests = <<>> \/ c.queueTotalSize = 0 THEN c
    ELSE LET r == Head(c.readRequests)
         IN handleMaybeClose(resolveFirst(
                fillFirst(c, Lesser(c.queueTotalSize, r.store - Len(r.filled)))))

RECURSIVE resolveAll(_)
resolveAll(c) == IF c.readRequests = <<>> THEN c ELSE resolveAll(resolveFirst(c))

(* maybeDrainAndSetState() without an error, and with one.                 *)
maybeDrain(c) ==
    LET d == handleMaybeClose(c)
    IN IF ~c.closing \/ c.state # "Ready" THEN c
       ELSE IF d.queueTotalSize > 0 THEN d
       ELSE [resolveAll(d) EXCEPT !.state = "Drained"]

RejectReads(c) == IF c.state = "Ready" THEN [c EXCEPT !.state = "Errored",
                                                   !.readRequests = <<>>]
                                    ELSE c

(* ConsumerImpl::read() with ByteQueue::handleRead().                      *)
handleRead(c, r) ==
    LET pending == [c EXCEPT !.readRequests = Append(@, r),
                             !.exposed = @ \/ Ragged(ToSet(c.buffer), {r})]
        size == c.queueTotalSize
    IN maybeDrain(IF c.readRequests # <<>> \/ size = 0 THEN pending
                  ELSE IF size < r.atLeast THEN consume(pending, size)
                  ELSE resolveFirst(consume(pending, Lesser(size, r.store))))
-----------------------------------------------------------------------------
wantsRead(cs) == \E b \in Ready(cs) : cs[b].readRequests # <<>>
QueueSize(cs) == Max({0} \cup {cs[b].queueTotalSize : b \in Ready(cs)})

(* Whether the next state calls for the source's pull().                   *)
shouldCallPull ==
    stream' = "Queue" /\ (wantsRead(consumers') \/ QueueSize(consumers') < HighWaterMark)

(* ReadableImpl::pullIfNeeded(), after bytes were provided or a read began *)
(* to wait.                                                                *)
pullIfNeeded ==
    /\ pulling' = (pulling \/ shouldCallPull)
    /\ pullAgain' = (pullAgain \/ (shouldCallPull /\ pulling))
    /\ unasked' = (pulling \/ ~shouldCallPull)

(* ByteReadable::read(): the minimum is rounded down to whole elements.    *)
readBytes(b, store, elementSize, minimum) ==
    /\ consumers[b].state = "Ready" /\ requested < MaxReads
    /\ store % elementSize = 0 /\ minimum <= store
    /\ LET atLeast == Max({elementSize, minimum - (minimum % elementSize)})
           r == [id |-> requested + 1, store |-> store, elementSize |-> elementSize,
                 atLeast |-> atLeast, least |-> atLeast, filled |-> <<>>]
           c == handleRead(consumers[b], r)
           waits == r.id \in IdsOf(c)
       IN /\ consumers' = [consumers EXCEPT ![b] = c]
          /\ pendingByob' = IF waits /\ stream = "Queue"
                              THEN Append(pendingByob, r.id) ELSE pendingByob
          /\ UNCHANGED stream
          /\ IF waits THEN pullIfNeeded ELSE UNCHANGED pullVars
    /\ requested' = requested + 1
    /\ UNCHANGED <<byobRequest, responding, provided>>

(* ReadableByteStreamController::enqueue().                                *)
enqueue(n) ==
    /\ stream = "Queue" /\ provided + n <= MaxBytes
    /\ byobRequest = NoByobRequest \/ byobRequest.view > 0
    /\ byobRequest' = NoByobRequest
    /\ provided' = provided + n
    /\ consumers' = [b \in Branches |-> push(consumers[b], Bytes(provided, n))]
    /\ UNCHANGED <<stream, pendingByob, responding, requested>>
    /\ pullIfNeeded

(* getByobRequest() with nextPendingByobReadRequest().                     *)
getByobRequest ==
    /\ stream = "Queue" /\ byobRequest = NoByobRequest /\ pendingByob # <<>>
    /\ LET valid == {i \in DOMAIN pendingByob :
                        ~isInvalidated(pendingByob[i], consumers)}
           i == Min(valid)
           r == CHOOSE r \in UNION {ToSet(consumers[b].readRequests) :
                                      b \in Ready(consumers)} : r.id = pendingByob[i]
       IN IF valid = {}
            THEN pendingByob' = <<>> /\ UNCHANGED byobRequest
            ELSE /\ pendingByob' = SubSeq(pendingByob, i + 1, Len(pendingByob))
                 /\ byobRequest' = [id |-> r.id, view |-> r.store - Len(r.filled)]
    /\ UNCHANGED <<stream, consumers, pullVars, responding, provided, requested>>

(* The end of ByobRequest::respond(): the read is answered; bytes that     *)
(* make no whole element are pushed back.                                  *)
answerRead(c, i, entry) ==
    LET r == c.readRequests[i]
        filled == r.filled \o entry
        odd == Len(filled) % r.elementSize
    IN IF i > 1 THEN [c EXCEPT !.state = "Fault"]
       ELSE push(resolveFirst([c EXCEPT !.readRequests[1].filled =
                                            SubSeq(filled, 1, Len(filled) - odd)]),
                 SubSeq(filled, Len(entry) - odd + 1, Len(entry)))

Exposed(c, i, entry) ==
    LET r == c.readRequests[i]
        odd == (Len(r.filled) + Len(entry)) % r.elementSize
    IN [c EXCEPT !.exposed = \/ @ \/ c.buffer # <<>> \/ i > 1
                             \/ odd > 0 /\ (r.filled # <<>> \/ Len(entry) < r.atLeast)]

(* ByobRequest::respond() for the consumer of the read: the array has the  *)
(* bytes already, and the read is answered unless its minimum is not met.  *)
Responded(c, i, entry) ==
    LET d == Exposed(c, i, entry)
    IN IF Len(entry) < c.readRequests[i].atLeast
         THEN [d EXCEPT !.readRequests[i].filled = @ \o entry,
                        !.readRequests[i].atLeast = @ - Len(entry)]
         ELSE answerRead(d, i, entry)

(* ReadableStreamBYOBRequest::respond() while the stream is open.  The     *)
(* request is invalidated after the call of pull().                        *)
respond(n) ==
    /\ stream = "Queue" /\ n <= byobRequest.view /\ provided + n <= MaxBytes
    /\ \E b \in Ready(consumers) :
         \E i \in DOMAIN consumers[b].readRequests :
            LET entry == Bytes(provided, n)
                r == consumers[b].readRequests[i]
            IN /\ r.id = byobRequest.id
               /\ consumers' = [x \in Branches |->
                                  IF x = b THEN Responded(consumers[b], i, entry)
                                           ELSE push(consumers[x], entry)]
               /\ UNCHANGED <<stream, pendingByob>>
               /\ pullIfNeeded
               /\ IF n < r.atLeast
                    THEN /\ byobRequest' = [byobRequest EXCEPT !.view = @ - n]
                         /\ UNCHANGED responding
                    ELSE /\ responding' = IF unasked' THEN responding ELSE r.id
                         /\ byobRequest' = IF unasked' THEN NoByobRequest ELSE byobRequest
    /\ provided' = provided + n
    /\ UNCHANGED requested

(* pull() returns to respond().                                            *)
respondReturns ==
    /\ responding # 0 /\ responding' = 0
    /\ byobRequest' = IF byobRequest.id = responding THEN NoByobRequest ELSE byobRequest
    /\ UNCHANGED <<queueVars, pullVars, provided, requested>>

(* respond() when the read is no longer there: the view, all of it, is     *)
(* pushed to the branches.  pullIfNeeded() is called twice, by enqueue()   *)
(* and by respond(): the second call may find pull() running, and what     *)
(* pull() itself enqueued.                                                 *)
respondInvalidated(n) ==
    /\ stream = "Queue" /\ n <= byobRequest.view /\ provided + n <= MaxBytes
    /\ isInvalidated(byobRequest.id, consumers)
    /\ LET entry == Bytes(provided, n) \o [i \in 1..(byobRequest.view - n) |-> 0]
       IN consumers' = [b \in Branches |->
                          [push(consumers[b], entry) EXCEPT !.exposed = TRUE]]
    /\ byobRequest' = [byobRequest EXCEPT !.view = 0]
    /\ provided' = provided + n
    /\ UNCHANGED <<stream, pendingByob, responding, requested>>
    /\ pulling' = (pulling \/ shouldCallPull)
    /\ pullAgain' \in IF shouldCallPull THEN {TRUE, pullAgain \/ pulling} ELSE {pullAgain}
    /\ unasked' = (pulling \/ ~shouldCallPull)

(* respond(0) when the stream is no longer open.                           *)
respondClosed ==
    /\ stream # "Queue" /\ byobRequest.view > 0
    /\ byobRequest' = NoByobRequest
    /\ UNCHANGED <<queueVars, pullVars, responding, provided, requested>>

(* ReadableImpl::doError().                                                *)
doError ==
    IF stream # "Queue" THEN UNCHANGED queueVars
    ELSE /\ stream' = "Errored"
         /\ consumers' = [b \in Branches |-> RejectReads(consumers[b])]
         /\ pendingByob' = <<>>

error ==
    /\ stream = "Queue" /\ doError
    /\ UNCHANGED <<byobRequest, pullVars, responding, provided, requested>>

(* Mutant: the reads that wait are not answered.                           *)
closeControllerOnly ==
    /\ stream = "Queue"
    /\ stream' = "Closed" /\ pendingByob' = <<>>
    /\ consumers' = [b \in Branches |-> [consumers[b] EXCEPT !.closing = TRUE]]
    /\ UNCHANGED <<byobRequest, pullVars, responding, provided, requested>>

(* close() of controller, ReadableImpl and queue.  A read filled with part *)
(* of what its elements need makes it throw, or an error of the stream.    *)
isPartiallyFulfilled(id) ==
    \E b \in Ready(consumers) : \E r \in ToSet(consumers[b].readRequests) :
        r.id = id /\ r.filled # <<>> /\ r.elementSize > 1

closeController ==
    /\ stream = "Queue" /\ ~isPartiallyFulfilled(byobRequest.id)
    /\ IF pendingByob # <<>> /\ isPartiallyFulfilled(Head(pendingByob)) THEN doError
       ELSE /\ stream' = "Closed" /\ pendingByob' = <<>>
            /\ consumers' = [b \in Branches |->
                               IF b \in Ready(consumers)
                                 THEN maybeDrain([consumers[b] EXCEPT !.closing = TRUE])
                                 ELSE consumers[b]]
    /\ UNCHANGED <<byobRequest, pullVars, responding, provided, requested>>

(* Mutant: the clone begins with an empty buffer.                          *)
teeEmpty(b, d) ==
    /\ consumers[b].state = "Ready" /\ consumers[b].readRequests = <<>>
    /\ consumers[d].state = "None"
    /\ consumers' = [consumers EXCEPT ![d] =
                       [consumers[b] EXCEPT !.buffer = <<>>, !.queueTotalSize = 0]]
    /\ UNCHANGED <<stream, pendingByob, byobRequest, pullVars, responding, provided, requested>>

(* tee(): two clones take the place of a consumer that has no reads, since *)
(* the stream must not be locked.                                          *)
tee(b, d) ==
    /\ consumers[b].state = "Ready" /\ consumers[b].readRequests = <<>>
    /\ consumers[d].state = "None"
    /\ consumers' = [consumers EXCEPT ![d] = consumers[b]]
    /\ UNCHANGED <<stream, pendingByob, byobRequest, pullVars, responding, provided, requested>>

(* ReadableStreamJsController::cancel() of a branch; the last one closes   *)
(* the controller.                                                         *)
cancelBranch(b) ==
    /\ consumers[b].state = "Ready"
    /\ consumers' = [consumers EXCEPT ![b] =
                       [resolveAll([@ EXCEPT !.closing = TRUE]) EXCEPT !.state = "Canceled"]]
    /\ IF stream = "Queue" /\ Ready(consumers) = {b}
         THEN stream' = "Closed" /\ byobRequest' = NoByobRequest /\ pendingByob' = <<>>
         ELSE UNCHANGED <<stream, byobRequest, pendingByob>>
    /\ UNCHANGED <<pullVars, responding, provided, requested>>

(* releaseLock() of a reader: cancelPendingReads().                        *)
releaseReader(b) ==
    /\ consumers[b].state = "Ready" /\ consumers[b].readRequests # <<>>
    /\ consumers' = [consumers EXCEPT
                       ![b].readRequests = <<>>,
                       ![b].exposed = @ \/ \E r \in ToSet(consumers[b].readRequests) :
                                               r.filled # <<>>]
    /\ UNCHANGED <<stream, byobRequest, pendingByob, pullVars, responding, provided, requested>>

(* The promise of pull() is resolved, or rejected.                         *)
pulled ==
    /\ pulling /\ responding = 0
    /\ UNCHANGED <<queueVars, byobRequest, responding, provided, requested>>
    /\ pullAgain' = FALSE
    /\ pulling' = (pullAgain /\ shouldCallPull)
    /\ unasked' = (unasked /\ ~pulling')

pullFailed ==
    /\ pulling /\ responding = 0 /\ pulling' = FALSE
    /\ doError
    /\ UNCHANGED <<byobRequest, pullAgain, unasked, responding, provided, requested>>

ByteQueueNext ==
    \/ \E b \in Branches, s \in Stores, e \in ElementSizes, m \in Minimums :
          readBytes(b, s, e, m)
    \/ \E n \in Chunks : enqueue(n)
    \/ getByobRequest
    \/ \E n \in 1..MaxBytes : respond(n) \/ respondInvalidated(n)
    \/ respondReturns \/ respondClosed
    \/ error \/ closeController
    \/ \E b, d \in Branches : tee(b, d)
    \/ \E b \in Branches : cancelBranch(b) \/ releaseReader(b)
    \/ pulled \/ pullFailed

ByteQueueSpec == ByteQueueInit /\ [][ByteQueueNext]_byteQueueVars

-----------------------------------------------------------------------------
Numbers == Bytes(0, provided)

(* What a branch still has to show: the bytes of its pending reads and of  *)
(* its buffer.                                                             *)
ToCome(c) == FlattenSeq([i \in DOMAIN c.readRequests |-> c.readRequests[i].filled])
             \o FlattenSeq(c.buffer)

(* "Ensuring the proper order of bytes delivered to each consumer": every  *)
(* branch has got, or will get, each byte the source provided, once and in *)
(* its order, however enqueue() and respond(), tees and reads with arrays  *)
(* and minimums of their own follow each other (unless it is exposed).     *)
BytesInOrder ==
    \A b \in Branches :
        LET c == consumers[b]
        IN c.exposed \/
           CASE c.state = "Ready" -> c.got \o ToCome(c) = Numbers
             [] c.state = "Drained" -> c.got = Numbers
             [] c.state \in {"Canceled", "Errored"} -> IsPrefix(c.got, Numbers)
             [] OTHER -> TRUE

(* "Being careful to set the offset for the data that we have already      *)
(* consumed": no byte is in a branch twice.  It is violated: handlePush()  *)
(* buffers the whole entry when a second read of its loop is not filled.   *)
DeliveredOnce ==
    \A b \in Ready(consumers) :
        LET all == consumers[b].got \o ToCome(consumers[b])
        IN \A i, j \in DOMAIN all : all[i] = all[j] => i = j

(* The assertions of handlePush(), handleRead() and resolveRead() about    *)
(* the buffer and the minimum of the first read hold.                      *)
QueueAssertionsHold ==
    \A b \in Branches : consumers[b].state = "Fault" => consumers[b].exposed

(* "The read promise should not be fulfilled unless either that minimum    *)
(* number of bytes has been provided, or the stream is closed or errored", *)
(* also for reads filled bit by bit.                                       *)
MinimumIsMet == \A b \in Branches : consumers[b].short => consumers[b].exposed

(* No read is left waiting for bytes that are there: what is buffered is   *)
(* less than the first read's minimum, nothing once the stream is closed,  *)
(* and queueTotalSize is its size.                                         *)
AnsweredWhenPossible ==
    \A b \in Ready(consumers) :
        LET c == consumers[b]
        IN c.exposed \/
           /\ c.queueTotalSize = Len(FlattenSeq(c.buffer))
           /\ c.readRequests # <<>> => /\ c.queueTotalSize < Head(c.readRequests).atLeast
                                       /\ ~c.closing

(* While a read waits and pull() is not running, the source has been asked *)
(* since the last bytes and the last read came: pullAgain loses no call.   *)
PulledWhenWanted ==
    stream = "Queue" /\ wantsRead(consumers) /\ ~pulling => ~unasked

(* A read gets what it asked for when that is there, and the source is     *)
(* asked when it is not.                                                   *)
ReadsAreAnswered ==
    QueueAssertionsHold /\ MinimumIsMet /\ AnsweredWhenPossible /\ PulledWhenWanted
=============================================================================
