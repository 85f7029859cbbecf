--------------------------- MODULE WritableStream ---------------------------
(***************************************************************************)
(* A WritableStream whose sink JavaScript provides: WritableImpl, its      *)
(* owner WritableStreamJsController with the writer's lock, and the loop   *)
(* that pipes a ReadableStream into it, all in                             *)
(* src/workerd/api/streams/standard.c++.                                   *)
(*                                                                         *)
(* The state is one record, dst; the operators named after functions of    *)
(* the code take such a record and give the one after the call.  A call of *)
(* JavaScript and the settling of a promise of the sink are a step each.   *)
(* What the sink does while one of its algorithms is called comes after    *)
(* that call, which the code always makes last.  An assertion that fails   *)
(* throws.                                                                 *)
(***************************************************************************)
EXTENDS Integers, Sequences, SequencesExt, FiniteSetsExt

CONSTANTS
    OptionalAlgorithms,  \* the algorithms a sink may leave out
    ChunkSizes,               \* what the size algorithm returns
    WritableMark,        \* highWaterMark
    Listens,             \* whether the signal's listener calls controller.error()
    Prevents,            \* preventAbort, preventCancel, preventClose may be given
    MaxChunks            \* bound on the writes the stream accepts

VARIABLE dst

Outcome == {"none", "pending", "resolved", "rejected"}
NoWrite == [id |-> 0, size |-> 0]
Throws == -1
SinkAlgorithms == {"write", "close", "abort", "size"}

(***************************************************************************)
(* algorithms are those that are present; writes, closing and aborting the *)
(* promises of write(), close() and abort(); ready and closed those of the *)
(* writer that has the lock.  (One that is released keeps its own: nothing *)
(* settles a ready that was pending then.)  source.lock tells whether the  *)
(* pipe holds, has released or has canceled its source.  pipe.outcome is   *)
(* the promise of pipeTo(): "close" and "abort" mean that it waits for the *)
(* promise of close() or, to be rejected, for that of abort().  Two fields *)
(* are not in the code: the assertions that failed, and the size of the    *)
(* writes that were canceled.                                              *)
(***************************************************************************)
WritableInit ==
    \E absent \in SUBSET OptionalAlgorithms, started \in BOOLEAN :
       dst = [state |-> "Writable", started |-> started,
            algorithms |-> SinkAlgorithms \ absent,
            backpressure |-> FALSE, writeRequests |-> <<>>, amountBuffered |-> 0,
            inFlightWrite |-> NoWrite, inFlightClose |-> FALSE,
            closeRequest |-> FALSE, pendingAbort |-> "none",
            owner |-> "Controller", lock |-> "Unlocked",
            ready |-> "none", closed |-> "none",
            writes |-> <<>>, closing |-> "none", aborting |-> "none",
            source |-> [state |-> "Readable", lock |-> "none"],
            pipe |-> [phase |-> "none", write |-> 0, outcome |-> "none",
                      signal |-> FALSE, prevents |-> {}],
            failed |-> {}, canceled |-> 0]

(* The type invariant: amountBuffered, a size_t, never becomes negative.   *)
WritableTypeOK ==
    /\ dst.state \in {"Writable", "Erroring", "Errored", "Closed"}
    /\ dst.algorithms \subseteq SinkAlgorithms
    /\ dst.owner \in {"Controller", "Errored", "Closed"}
    /\ dst.lock \in {"Unlocked", "WriterLocked", "PipeLocked"}
    /\ dst.pendingAbort \in {"none", "abort", "reject"}
    /\ {dst.started, dst.backpressure} \subseteq BOOLEAN
    /\ {dst.inFlightClose, dst.closeRequest} \subseteq BOOLEAN
    /\ {dst.ready, dst.closed, dst.closing, dst.aborting} \subseteq Outcome
    /\ dst.amountBuffered \in Nat
    /\ dst.writes \in Seq(Outcome)
    /\ \A r \in ToSet(dst.writeRequests) \cup ({dst.inFlightWrite} \ {NoWrite}) :
          r.id \in DOMAIN dst.writes
    /\ dst.source.lock \in {"none", "held", "released", "canceled"}
    /\ dst.pipe.phase \in {"none", "reading", "writing", "done", "lost"}
    /\ dst.pipe.outcome \in Outcome \cup {"close", "abort"}

-----------------------------------------------------------------------------
isWritable(t) == t.state = "Writable"
WritableOrErroring(t) == t.state \in {"Writable", "Erroring"}
isCloseQueuedOrInFlight(t) == t.closeRequest \/ t.inFlightClose
Fail(t, where) == [t EXCEPT !.failed = @ \cup {where}]

(* maybeResolvePromise() and maybeRejectPromise().                         *)
SettlePromise(promise, outcome) == IF promise = "pending" THEN outcome ELSE promise

(* The owner: doClose(), doError(), maybeResolveReadyPromise() and         *)
(* maybeRejectReadyPromise().                                              *)
Unpiped(t) == IF t.lock = "PipeLocked" THEN "Unlocked" ELSE t.lock

ownerDoClose(t) ==
    [t EXCEPT !.owner = "Closed", !.lock = Unpiped(t),
              !.closed = SettlePromise(@, "resolved"),
              !.ready = SettlePromise(@, "resolved")]

ownerDoError(t) ==
    [t EXCEPT !.owner = "Errored", !.lock = Unpiped(t),
              !.closed = SettlePromise(@, "rejected"),
              !.ready = SettlePromise(@, "resolved")]

maybeResolveReadyPromise(t) == [t EXCEPT !.ready = SettlePromise(@, "resolved")]

maybeRejectReadyPromise(t) ==
    [t EXCEPT !.ready = IF t.lock = "WriterLocked" THEN "rejected" ELSE @]

(* doClose() and doError() of WritableImpl.                                *)
NothingLeft(t) ==
    /\ ~t.closeRequest /\ ~t.inFlightClose /\ t.inFlightWrite = NoWrite
    /\ t.pendingAbort = "none" /\ t.writeRequests = <<>>

doCloseImpl(t) ==
    IF ~NothingLeft(t) THEN Fail(t, "doClose")
    ELSE ownerDoClose([t EXCEPT !.state = "Closed", !.algorithms = {}])

doErrorImpl(t) ==
    IF ~NothingLeft(t) THEN Fail(t, "doError")
    ELSE ownerDoError([t EXCEPT !.algorithms = {}])

rejectCloseAndClosedPromiseIfNeeded(t) ==
    doErrorImpl([t EXCEPT !.algorithms = {}, !.closeRequest = FALSE,
                      !.closing = SettlePromise(@, "rejected"), !.pendingAbort = "none"])

(* The abort algorithm has succeeded or failed.                            *)
abortDone(t, outcome) ==
    rejectCloseAndClosedPromiseIfNeeded([t EXCEPT !.aborting = SettlePromise(@, outcome)])

(* The promises of the writes when those that are queued are rejected.     *)
QueuedRejected(t) ==
    LET queued == {r.id : r \in ToSet(t.writeRequests)}
    IN [i \in DOMAIN t.writes |-> IF i \in queued THEN "rejected" ELSE t.writes[i]]

QueuedSize(t) == FoldLeft(LAMBDA n, r : n + r.size, 0, t.writeRequests)

(* The requests are rejected, then the abort algorithm runs if abort() was *)
(* called while the stream was writable.                                   *)
finishErroring(t) ==
    LET u == [t EXCEPT !.state = "Errored", !.writeRequests = <<>>,
                       !.writes = QueuedRejected(t)]
    IN IF t.state # "Erroring" \/ t.inFlightWrite # NoWrite \/ t.inFlightClose
         THEN Fail(t, "finishErroring")
       ELSE IF t.pendingAbort = "none" THEN rejectCloseAndClosedPromiseIfNeeded(u)
       ELSE IF t.pendingAbort = "reject" THEN abortDone(u, "rejected")
       ELSE IF "abort" \notin t.algorithms THEN abortDone(u, "resolved")
       ELSE u

(* Mutant: the stream is errored whatever is in flight.                    *)
startErroringAtOnce(t) ==
    IF ~isWritable(t) THEN Fail(t, "startErroring")
    ELSE LET u == [maybeRejectReadyPromise(t) EXCEPT !.state = "Erroring"]
         IN IF t.started THEN finishErroring(u) ELSE u

startErroring(t) ==
    LET u == [maybeRejectReadyPromise(t) EXCEPT !.state = "Erroring"]
    IN IF ~isWritable(t) THEN Fail(t, "startErroring")
       ELSE IF t.inFlightWrite = NoWrite /\ ~t.inFlightClose /\ t.started
         THEN finishErroring(u)
       ELSE u

dealWithRejection(t) == IF isWritable(t) THEN startErroring(t) ELSE finishErroring(t)

(* WritableImpl::error(), called by the sink.                              *)
errorImpl(t) == IF isWritable(t) THEN startErroring([t EXCEPT !.algorithms = {}]) ELSE t

(* updateBackpressure() of WritableImpl and of the owner.                  *)
updateBackpressure(t) ==
    LET bp == WritableMark - t.amountBuffered < 0
    IN IF ~isWritable(t) \/ isCloseQueuedOrInFlight(t) THEN Fail(t, "updateBackpressure")
       ELSE IF bp = t.backpressure THEN t
       ELSE [t EXCEPT !.backpressure = bp,
                      !.ready = IF t.lock # "WriterLocked" THEN @
                                ELSE IF bp THEN "pending"
                                ELSE SettlePromise(@, "resolved")]

finishInFlightClose(t, outcome) ==
    LET u == [t EXCEPT !.algorithms = {}, !.inFlightClose = FALSE, !.closing = outcome,
                       !.aborting = IF t.pendingAbort = "none" THEN @ ELSE outcome,
                       !.pendingAbort = "none"]
    IN IF ~WritableOrErroring(t) THEN Fail(t, "finishInFlightClose")
       ELSE IF outcome = "rejected" THEN dealWithRejection(u)
       ELSE doCloseImpl(u)

-----------------------------------------------------------------------------
RECURSIVE advanceQueueIfNeeded(_)

(* The write in flight has succeeded; the queue moves on.                  *)
writeSucceeded(t) ==
    LET u == [t EXCEPT !.amountBuffered = @ - t.inFlightWrite.size,
                       !.writes[t.inFlightWrite.id] = "resolved",
                       !.inFlightWrite = NoWrite]
    IN advanceQueueIfNeeded(IF isWritable(u) /\ ~isCloseQueuedOrInFlight(u)
                              THEN updateBackpressure(u) ELSE u)

writeFailed(t) ==
    dealWithRejection([t EXCEPT !.amountBuffered = @ - t.inFlightWrite.size,
                                !.writes[t.inFlightWrite.id] = "rejected",
                                !.inFlightWrite = NoWrite])

(* maybeRunAlgorithm(): an algorithm that is absent succeeds at once.      *)
advanceQueueIfNeeded(t) ==
    IF ~t.started \/ t.inFlightWrite # NoWrite THEN t
    ELSE IF ~WritableOrErroring(t) THEN Fail(t, "advanceQueueIfNeeded")
    ELSE IF t.state = "Erroring" THEN finishErroring(t)
    ELSE IF t.writeRequests # <<>> THEN
        LET u == [t EXCEPT !.inFlightWrite = Head(t.writeRequests),
                           !.writeRequests = Tail(@)]
        IN IF "write" \in t.algorithms THEN u ELSE writeSucceeded(u)
    ELSE IF t.closeRequest THEN
        LET u == [t EXCEPT !.inFlightClose = TRUE, !.closeRequest = FALSE]
        IN IF "close" \in t.algorithms THEN u ELSE finishInFlightClose(u, "resolved")
    ELSE t

(***************************************************************************)
(* write(), with the size the size algorithm returns or Throws.  A write   *)
(* that is not accepted leaves dst.writes as it is.                        *)
(***************************************************************************)
SizesOf(t) == IF "size" \in t.algorithms THEN ChunkSizes \cup {Throws} ELSE {1}

writeImpl(t, size) ==
    IF size = Throws THEN startErroring(t)
    ELSE IF ~isWritable(t) \/ isCloseQueuedOrInFlight(t) THEN t
    ELSE LET id == Len(t.writes) + 1
         IN advanceQueueIfNeeded(updateBackpressure(
              [t EXCEPT !.writes = Append(@, "pending"),
                        !.writeRequests = Append(@, [id |-> id, size |-> size]),
                        !.amountBuffered = @ + size]))

(* close() and abort() of the owner and of WritableImpl.  A listener of    *)
(* the controller's signal may call controller.error().                    *)
closeImpl(t) ==
    IF t.owner # "Controller" THEN t
    ELSE IF ~WritableOrErroring(t) THEN Fail(t, "close")
    ELSE IF isCloseQueuedOrInFlight(t) THEN t
    ELSE LET u == [t EXCEPT !.closeRequest = TRUE, !.closing = "pending"]
         IN advanceQueueIfNeeded(IF t.backpressure /\ isWritable(t)
                                   THEN maybeResolveReadyPromise(u) ELSE u)

abortImpl(t, listens) ==
    IF t.aborting # "none" THEN t
    ELSE IF t.owner # "Controller" THEN [t EXCEPT !.aborting = "resolved"]
    ELSE LET u == IF listens THEN errorImpl(t) ELSE t
         IN CASE u.state \in {"Closed", "Errored"} -> [u EXCEPT !.aborting = "resolved"]
              [] u.state = "Erroring" -> [u EXCEPT !.aborting = "pending",
                                                   !.pendingAbort = "reject"]
              [] u.state = "Writable" ->
                     startErroring([u EXCEPT !.aborting = "pending",
                                             !.pendingAbort = "abort"])

-----------------------------------------------------------------------------
(* pipeLoop().  Every return from it ends the pipe, except for the read.   *)
Cancels(t) == "cancel" \notin t.pipe.prevents

releaseSource(t, cancels) ==
    [t EXCEPT !.source.lock = IF cancels /\ t.source.state = "Readable"
                                THEN "canceled" ELSE "released"]

releasePipeLock(t) == [t EXCEPT !.lock = Unpiped(t)]

EndPipe(t, outcome) == [t EXCEPT !.pipe.phase = "done", !.pipe.outcome = outcome]

abortByPipe(t, listens) ==
    IF "abort" \in t.pipe.prevents THEN EndPipe(t, "rejected")
    ELSE EndPipe(abortImpl(t, listens), "abort")

(* close() throws when the stream cannot be closed.                        *)
closeByPipe(t) ==
    LET u == closeImpl(t)
    IN IF "close" \in t.pipe.prevents THEN EndPipe(t, "resolved")
       ELSE EndPipe(u, IF t.closing = "none" /\ u.closing # "none" THEN "close"
                                                                  ELSE "rejected")

checkSignal(t, listens) ==
    releasePipeLock(abortByPipe(releaseSource(t, Cancels(t)), listens))

PipeLost(t) == [t EXCEPT !.pipe.phase = "lost", !.pipe.outcome = "resolved"]

pipeLoop(t, listens) ==
    LET failsFromDestination ==
            EndPipe(releaseSource(releasePipeLock(t), Cancels(t)),
                    "rejected")
        unlocked == releasePipeLock(releaseSource(t, FALSE))
    IN CASE t.lock # "PipeLocked" -> PipeLost(t)
         [] t.lock = "PipeLocked" /\ t.pipe.signal -> checkSignal(t, listens)
         [] OTHER ->
              IF t.source.state = "Errored" THEN abortByPipe(unlocked, listens)
              ELSE IF t.owner = "Errored" \/ t.state = "Erroring"
                THEN failsFromDestination
              ELSE IF t.source.state = "Closed" THEN closeByPipe(unlocked)
              ELSE IF t.owner = "Closed" THEN failsFromDestination
              ELSE [t EXCEPT !.pipe.phase = "reading"]

(* tryPipeFrom(), of a stream that nobody holds and that may have come to  *)
(* its end before: the lock and the first turn of the loop.                *)
tryPipeFrom(source, prevents, listens) ==
    /\ dst.lock = "Unlocked" /\ dst.pipe.phase = "none"
    /\ dst' = pipeLoop([dst EXCEPT !.lock = "PipeLocked",
                               !.source = [state |-> source, lock |-> "held"],
                               !.pipe.outcome = "pending", !.pipe.prevents = prevents],
                     listens)

(* The signal given to pipeTo() is aborted; the loop will notice.          *)
signalAborted ==
    /\ dst.pipe.phase \in {"reading", "writing"} /\ ~dst.pipe.signal
    /\ dst' = [dst EXCEPT !.pipe.signal = TRUE]

(* The source closes or fails; a read that is under way ends.              *)
SourceEnded(t, state) == releaseSource([t EXCEPT !.source.state = state], FALSE)

(* Mutant: the pipe does not handle a read that fails.                     *)
sourceEndsUnhandled(state, listens) ==
    /\ dst.source.lock = "held" /\ dst.source.state = "Readable"
    /\ dst' = LET t == SourceEnded(dst, state)
              IN IF dst.pipe.phase = "reading" /\ state = "Closed"
                   THEN pipeLoop(t, listens) ELSE t

sourceEnds(state, listens) ==
    /\ dst.source.lock = "held" /\ dst.source.state = "Readable"
    /\ dst' = LET t == SourceEnded(dst, state)
            IN IF dst.pipe.phase = "reading" THEN pipeLoop(t, listens) ELSE t

(* The read has brought a value, which is written.                         *)
pipeRead(size, listens) ==
    /\ dst.pipe.phase = "reading" /\ Len(dst.writes) < MaxChunks
    /\ dst' = IF dst.lock # "PipeLocked" THEN PipeLost(dst)
            ELSE IF dst.pipe.signal THEN checkSignal(dst, listens)
            ELSE LET t == IF dst.owner = "Controller" THEN writeImpl(dst, size) ELSE dst
                     id == IF Len(t.writes) > Len(dst.writes) THEN Len(t.writes) ELSE 0
                 IN [t EXCEPT !.pipe.phase = "writing", !.pipe.write = id]

(* Mutant: a write that fails does not cancel the source.                  *)
pipeWrittenUncanceled(listens) ==
    LET id == dst.pipe.write
        outcome == IF id = 0 THEN "rejected" ELSE dst.writes[id]
    IN /\ dst.pipe.phase = "writing" /\ outcome # "pending"
       /\ dst' = IF outcome = "resolved" THEN pipeLoop(dst, listens)
                 ELSE EndPipe(releaseSource(dst, FALSE), "rejected")

(* The write of the pipe has been settled; one that was not accepted is 0. *)
pipeWritten(listens) ==
    LET id == dst.pipe.write
        outcome == IF id = 0 THEN "rejected" ELSE dst.writes[id]
    IN /\ dst.pipe.phase = "writing" /\ outcome # "pending"
       /\ dst' = IF outcome = "resolved" THEN pipeLoop(dst, listens)
               ELSE EndPipe(releaseSource(dst, Cancels(dst)), "rejected")

-----------------------------------------------------------------------------
(* lockWriter() and releaseWriter(), with cancelPendingWrites().           *)
lockWriter ==
    /\ dst.lock = "Unlocked"
    /\ dst' = [dst EXCEPT
              !.lock = "WriterLocked",
              !.closed = CASE dst.owner = "Closed" -> "resolved"
                           [] dst.owner = "Errored" -> "rejected"
                           [] dst.owner = "Controller" -> "pending",
              !.ready = CASE dst.owner = "Errored" -> "rejected"
                          [] dst.owner = "Controller" /\ ~dst.started -> "pending"
                          [] OTHER -> "resolved"]

cancelPendingWrites(t) ==
    [t EXCEPT !.writeRequests = <<>>, !.writes = QueuedRejected(t),
              !.canceled = @ + QueuedSize(t)]

releaseWriter ==
    /\ dst.lock = "WriterLocked"
    /\ dst' = [IF dst.owner = "Controller" THEN cancelPendingWrites(dst) ELSE dst
               EXCEPT !.lock = "Unlocked", !.ready = "none", !.closed = "none"]

(* Calls of write(), close() and abort(); a stream that is piped into only *)
(* takes those of the pipe.                                                *)
writeWritable(size) ==
    /\ dst.lock = "WriterLocked" /\ dst.owner = "Controller"
    /\ Len(dst.writes) < MaxChunks
    /\ dst' = writeImpl(dst, size)

closeWritable ==
    /\ dst.lock # "PipeLocked"
    /\ dst' = closeImpl(dst)

abortWritable(listens) ==
    /\ dst.lock # "PipeLocked" /\ dst.aborting = "none"
    /\ dst' = abortImpl(dst, listens)

errorWritable ==
    /\ isWritable(dst)
    /\ dst' = errorImpl(dst)

(* The promises of the sink's algorithms are settled.                      *)
startSettles(succeeds) ==
    LET t == [dst EXCEPT !.started = TRUE]
    IN /\ ~dst.started
       /\ dst' = IF succeeds
                 THEN advanceQueueIfNeeded(
                          IF isWritable(dst) THEN maybeResolveReadyPromise(t) ELSE t)
                 ELSE dealWithRejection(maybeRejectReadyPromise(t))

writeSettles(succeeds) ==
    /\ dst.inFlightWrite # NoWrite
    /\ dst' = IF succeeds THEN writeSucceeded(dst) ELSE writeFailed(dst)

closeSettles(succeeds) ==
    /\ dst.inFlightClose
    /\ dst' = finishInFlightClose(dst, IF succeeds THEN "resolved" ELSE "rejected")

abortSettles(succeeds) ==
    /\ dst.state = "Errored" /\ dst.owner = "Controller"
    /\ dst' = abortDone(dst, IF succeeds THEN "resolved" ELSE "rejected")

WritableNext ==
    \/ lockWriter \/ releaseWriter \/ closeWritable \/ errorWritable \/ signalAborted
    \/ \E size \in SizesOf(dst) : writeWritable(size)
    \/ \E succeeds \in BOOLEAN :
          \/ startSettles(succeeds) \/ writeSettles(succeeds)
          \/ closeSettles(succeeds) \/ abortSettles(succeeds)
    \/ \E listens \in Listens :
          \/ abortWritable(listens) \/ pipeWritten(listens)
          \/ \E source \in {"Readable", "Closed", "Errored"}, prevents \in SUBSET Prevents :
                tryPipeFrom(source, prevents, listens)
          \/ \E state \in {"Closed", "Errored"} : sourceEnds(state, listens)
          \/ \E size \in SizesOf(dst) : pipeRead(size, listens)

WritableSpec == WritableInit /\ [][WritableNext]_dst

-----------------------------------------------------------------------------
(* Assertions of WritableImpl hold, with two exceptions: close() while the *)
(* abort algorithm runs, and a size algorithm that throws then or while    *)
(* the stream is erroring.                                                 *)
WritableAssertionsHold == dst.failed \subseteq {"close", "startErroring"}

(* No promise is forgotten: when the owner is closed or errored, all those *)
(* of write(), close(), abort() and of the writer are settled.             *)
EndSettlesAll ==
    dst.owner # "Controller" =>
        "pending" \notin {dst.closing, dst.aborting, dst.ready, dst.closed}
                          \cup ToSet(dst.writes)

(* "The close algorithm is called after the last chunk of data has been    *)
(* written": no write is pending then, and nothing is called before the    *)
(* start algorithm is done or while a write is in flight.                  *)
AlgorithmsInOrder ==
    /\ dst.inFlightClose \/ dst.state = "Closed" => "pending" \notin ToSet(dst.writes)
    /\ dst.inFlightClose \/ dst.inFlightWrite # NoWrite \/ dst.state = "Errored"
       => dst.started

(* amountBuffered, from which desiredSize and the backpressure are         *)
(* computed, is the size of the writes that are queued or in flight, and   *)
(* of those that were canceled.                                            *)
BufferedIsQueued ==
    isWritable(dst) =>
        dst.amountBuffered = dst.inFlightWrite.size + QueuedSize(dst) + dst.canceled

(* A writer that waits for ready waits for something: the start algorithm, *)
(* backpressure that writes in flight will relieve, or the end.            *)
ReadyIsAwaited ==
    dst.ready = "pending" =>
        \/ ~dst.started \/ dst.state = "Errored"
        \/ isWritable(dst) /\ dst.backpressure /\ ~isCloseQueuedOrInFlight(dst)
           /\ (dst.inFlightWrite # NoWrite \/ dst.canceled > 0)

(* What the pipe leaves behind when it ends with the lock it took: the     *)
(* source is released, and canceled when it could still be read and should *)
(* be; the stream does not stay writable after a failure, unless that was  *)
(* asked for or close() had been called before.                            *)
PipeEndsBoth ==
    dst.pipe.phase = "done" =>
        LET prevents == dst.pipe.prevents
        IN /\ dst.source.lock # "held"
           /\ (dst.source.state = "Readable" /\ "cancel" \notin prevents)
                  => dst.source.lock = "canceled"
           /\ (dst.pipe.outcome \in {"abort", "rejected"} /\ "abort" \notin prevents)
                  => ~isWritable(dst) \/ dst.closing # "none"
           /\ dst.pipe.outcome \in {"resolved", "close"} => dst.source.state = "Closed"

(* The sink sees its algorithms called in order, on a queue that is        *)
(* accounted for.                                                          *)
SinkInOrder == WritableAssertionsHold /\ AlgorithmsInOrder /\ BufferedIsQueued

(* Nothing waits for a stream or a pipe that has come to its end.          *)
EndsAreSettled == EndSettlesAll /\ ReadyIsAwaited /\ PipeEndsBoth

(* "A JavaScript promise that is resolved when the pipe operation          *)
(* completes, or is rejected if the pipe operation is aborted or errored". *)
PipeFailureIsReported == dst.pipe.outcome = "resolved" => dst.source.state = "Closed"

(* Whatever is called while the sink is at work, every promise of write(), *)
(* close() and abort() is settled in the end.                              *)
WritesSettle ==
    /\ \A i \in 1..MaxChunks :
          (i \in DOMAIN dst.writes /\ dst.writes[i] = "pending")
              ~> (i \in DOMAIN dst.writes /\ dst.writes[i] # "pending")
    /\ dst.closing = "pending" ~> dst.closing # "pending"
    /\ dst.aborting = "pending" ~> dst.aborting # "pending"

(* A pipe ends and gives up its lock, when its source ends.                *)
PipeEnds ==
    dst.pipe.outcome = "pending"
    ~> dst.pipe.phase \in {"done", "lost"} /\ dst.lock # "PipeLocked"

(* Writes settle and pipes end.                                            *)
WritesAndPipesEnd == WritesSettle /\ PipeEnds
=============================================================================
