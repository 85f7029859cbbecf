----------------------------- MODULE ActorCache -----------------------------
(***************************************************************************)
(* The write-back cache of a Durable Object's storage (ActorCache in       *)
(* src/workerd/io/actor-cache.{h,c++}), with the remote storage it reads   *)
(* from and flushes to.                                                    *)
(*                                                                         *)
(* The cache runs in one thread and can be interrupted where it waits for  *)
(* storage.  Calls to storage are not ordered among themselves: each one   *)
(* takes effect at some time between being sent and being answered, and a  *)
(* call that fails with DISCONNECTED may or may not have taken effect.     *)
(* Clean entries can be evicted at any time, as the list they are on is    *)
(* shared by all actors of an isolate.                                     *)
(***************************************************************************)
EXTENDS ActorCacheMap

CONSTANTS
    Reads,        \* the calls of get() and list() that have to ask storage
    Lists,        \* begin, end, limit and direction of each call of list()
    Unconfirmed,  \* the keys written with allowUnconfirmed
    MaxCalls,     \* bound on the calls of the application
    MaxRetries    \* MAX_RETRIES of flushImpl() and flushImplDeleteAll()

ASSUME CacheAssumption ==
    /\ \A l \in Lists : /\ l \in Keys \X (1..End) \X (Nat \ {0})
                                \X BOOLEAN
                        /\ l[1] < l[2]
    /\ Unconfirmed \subseteq UserKeys
    /\ MaxCalls \in Nat
    /\ MaxRetries \in Nat

VARIABLES
    map,             \* currentValues, with each entry's status
    deleteAllState,  \* requestedDeleteAll
    flushScheduled,
    flushScheduledWithOutputGate,
    flush,           \* the flush that is running, if any
    lastFlushFailed, \* lastFlush is rejected, and the output gate broken
    maybeTerminalException,
    disk,            \* what storage holds
    reads,           \* each read's state
    contents,        \* what the application has written: the last put() or
                     \* delete() of each key
    confirmed,       \* the keys whose last write was to hold the output gate
    exposed,         \* a read may have met one of the cases in which the
                     \* cache is known to go wrong
    calls            \* how many calls there have been

flushVars == <<deleteAllState, flushScheduled, flushScheduledWithOutputGate,
               flush, lastFlushFailed>>
ghostVars == <<contents, confirmed, calls>>
vars == <<map, flushVars, maybeTerminalException, disk, reads, ghostVars,
          exposed>>

Contents == [UserKeys -> Values \cup {ABSENT}]
NoKeys   == [k \in Keys |-> NONE]
Nothing  == [k \in UserKeys |-> ABSENT]

(* The part of what is stored from `begin` up to, not including, `end`.     *)
InRange(f, begin, end) ==
    [k \in Keys |-> IF k \in UserKeys /\ begin <= k /\ k < end
                    THEN f[k] ELSE NONE]

(* No deleteAll() is waiting to be done.  `before` is what the application *)
(* had written when deleteAll() was called.                                *)
NoDeleteAll == [requested |-> FALSE, deletedDirty |-> EmptyMap,
                before |-> Nothing]

(* No flush is running.  `target` is what storage should hold once the     *)
(* batch is written.                                                       *)
NoFlush == [phase |-> "idle", batch |-> NoKeys, upcoming |-> FALSE,
            retry |-> 0, pastReads |-> {}, gated |-> FALSE,
            target |-> Nothing]

NoRead == [op |-> "unused"]

InFlight == {r \in Reads : reads[r].op \in {"get", "list"}}

(* The states of the model are of the declared shape.                      *)
TypeOK ==
    /\ map \in Maps
    /\ deleteAllState.requested \in BOOLEAN
    /\ deleteAllState.deletedDirty \in Maps
    /\ flushScheduled \in BOOLEAN
    /\ flushScheduledWithOutputGate \in BOOLEAN
    /\ flush.phase \in {"idle", "waiting", "sent", "applied",
                        "deleteAll sent", "deleteAll applied"}
    /\ flush.retry \in 0..MaxRetries
    /\ flush.pastReads \subseteq Reads
    /\ {lastFlushFailed, maybeTerminalException, exposed} \subseteq BOOLEAN
    /\ disk \in Contents
    /\ \A r \in Reads : reads[r].op \in {"unused", "get", "list", "done"}
    /\ contents \in Contents
    /\ confirmed \subseteq UserKeys
    /\ calls \in 0..MaxCalls

Init ==
    /\ map = EmptyMap
    /\ deleteAllState = NoDeleteAll
    /\ flushScheduled = FALSE
    /\ flushScheduledWithOutputGate = FALSE
    /\ flush = NoFlush
    /\ lastFlushFailed = FALSE
    /\ maybeTerminalException = FALSE
    /\ disk \in Contents
    /\ reads = [r \in Reads |-> NoRead]
    /\ contents = disk
    /\ confirmed = {}
    /\ exposed = FALSE
    /\ calls = 0

(* The steps after which the cache may go wrong.  A deleteAll() while a     *)
(* read is in flight; a clean entry leaving the map while a deleteAll() is *)
(* still to be done; and an entry leaving the map that a running list()    *)
(* saw dirty, or has got to.                                               *)
Exposes ==
    LET gone == Entries(map) \ Entries(map')
    IN  \/ /\ deleteAllState'.requested
           /\ ~deleteAllState.requested
           /\ InFlight # {}
        \/ deleteAllState.requested /\ gone \cap Clean(map) # {}
        \/ \E r \in Reads :
              /\ reads[r].op = "list"
              /\ reads'[r].op = "list"
              /\ \/ gone \cap reads[r].dirty # {}
                 \/ reads'[r].known /\ reads'[r].begin \in gone

(* The last conjunct of every action.                                      *)
NoteExposure == exposed' = (exposed \/ Exposes)

-----------------------------------------------------------------------------
(* Scheduling flushes.                                                     *)

(* Schedule a flush after the last one, or make the output gate wait for   *)
(* the one that is scheduled.                                              *)
ensureFlushScheduled(unconfirmed) ==
    /\ flushScheduled' = TRUE
    /\ flushScheduledWithOutputGate' =
           (flushScheduledWithOutputGate \/ ~unconfirmed)

(* A storage operation after shutdown() schedules a flush, which breaks    *)
(* the output gate, and throws.                                            *)
requireNotTerminal ==
    /\ maybeTerminalException
    /\ ~lastFlushFailed
    /\ ensureFlushScheduled(FALSE)
    /\ UNCHANGED <<map, deleteAllState, flush, lastFlushFailed,
                   maybeTerminalException, disk, reads, ghostVars>>
    /\ NoteExposure

-----------------------------------------------------------------------------
(* Writes.                                                                 *)

CanWrite == ~maybeTerminalException /\ calls < MaxCalls

(* put() and delete() of one key.                                          *)
put(k, value, unconfirmed) ==
    /\ CanWrite
    /\ calls' = calls + 1
    /\ contents' = [contents EXCEPT ![k] = value]
    /\ IF NoChange(map, k, value)
       THEN UNCHANGED <<map, flushScheduled, flushScheduledWithOutputGate,
                        confirmed>>
       ELSE /\ map' = putImpl(map, k, value)
            /\ ensureFlushScheduled(unconfirmed)
            /\ confirmed' = IF unconfirmed THEN confirmed \ {k}
                                           ELSE confirmed \cup {k}
    /\ UNCHANGED <<deleteAllState, flush, lastFlushFailed,
                   maybeTerminalException, disk, reads>>
    /\ NoteExposure

(* deleteAll(): sets the dirty entries aside, and leaves a map that knows  *)
(* every key to be absent.  A second one that comes before the first is    *)
(* done is coalesced with it.                                              *)
deleteAll(unconfirmed) ==
    /\ CanWrite
    /\ calls' = calls + 1
    /\ contents' = Nothing
    /\ map' = DeletedMap
    /\ IF deleteAllState.requested
       THEN UNCHANGED <<deleteAllState, flushScheduled,
                        flushScheduledWithOutputGate, confirmed>>
       ELSE /\ deleteAllState' =
                 [requested    |-> TRUE,
                  deletedDirty |-> [k \in Keys |-> IF k \in Dirty(map)
                                                   THEN map[k] ELSE NoEntry],
                  before       |-> contents]
            /\ ensureFlushScheduled(unconfirmed)
            /\ confirmed' = IF unconfirmed THEN {} ELSE UserKeys
    /\ UNCHANGED <<flush, lastFlushFailed, maybeTerminalException, disk,
                   reads>>
    /\ NoteExposure

-----------------------------------------------------------------------------
(* Reads.  A read that the cache can answer by itself changes nothing.     *)

(* get() of a key the cache does not know.                                 *)
get(r, k) ==
    /\ ~maybeTerminalException
    /\ reads[r] = NoRead
    /\ calls < MaxCalls
    /\ calls' = calls + 1
    /\ findInCache(map, k) = UNKNOWN
    /\ reads' = [reads EXCEPT ![r] =
           [op |-> "get", key |-> k, answered |-> FALSE, data |-> NONE,
            retried |-> FALSE, expect |-> contents[k]]]
    /\ UNCHANGED <<map, flushVars, maybeTerminalException, disk, contents,
                   confirmed>>
    /\ NoteExposure

(* list() and listReverse() of a range the cache does not know all of.     *)
list(r, begin, end, limit, reverse) ==
    LET scan == IF reverse THEN listReverseScan(map, begin, end, limit)
                           ELSE listScan(map, begin, end, limit)
    IN  /\ ~maybeTerminalException
        /\ reads[r] = NoRead
        /\ calls < MaxCalls
        /\ calls' = calls + 1
        /\ ~scan.satisfied
        /\ reads' = [reads EXCEPT ![r] =
               [op |-> "list", reverse |-> reverse, begin |-> scan.begin,
                known |-> scan.known, end |-> scan.end, limit |-> limit,
                adjusted |-> scan.adjusted, cached |-> scan.cached,
                fetched |-> NoKeys, answered |-> FALSE, data |-> NoKeys,
                retried |-> FALSE, dirty |-> Dirty(map),
                expect |-> Select(InRange(contents, begin, end), limit,
                                  reverse)]]
        /\ UNCHANGED <<map, flushVars, maybeTerminalException, disk,
                       contents, confirmed>>
        /\ NoteExposure

Finished(result, expect) ==
    [op |-> "done", consistent |-> result = expect]

Count(f) == Cardinality({k \in Keys : f[k] # NONE})

(* External: storage answers a read with what it holds, a list() with the  *)
(* keys from where the list has got to, up to its limit.                   *)
StorageRead(r) ==
    /\ r \in InFlight
    /\ ~reads[r].answered
    /\ reads' = [reads EXCEPT
           ![r].answered = TRUE,
           ![r].data =
               IF reads[r].op = "get" THEN disk[reads[r].key]
               ELSE Select(InRange(disk, reads[r].begin
                                       + (IF reads[r].known THEN 1 ELSE 0),
                                 reads[r].end),
                           reads[r].adjusted - Count(reads[r].fetched),
                           reads[r].reverse)]
    /\ UNCHANGED <<map, flushVars, maybeTerminalException, disk, ghostVars>>
    /\ NoteExposure

(* getImpl() once storage has answered.                                    *)
getImpl(r) ==
    /\ r \in InFlight
    /\ reads[r].op = "get"
    /\ reads[r].answered
    /\ map' = addReadResultToCache(map, reads[r].key, reads[r].data)
    /\ reads' = [reads EXCEPT ![r] = Finished(reads[r].data, reads[r].expect)]
    /\ UNCHANGED <<flushVars, maybeTerminalException, disk, ghostVars>>
    /\ NoteExposure

(* The map once the keys of a batch of a list's results are in it.         *)
AddBatch(begin, known, data, batch) ==
    LET first == IF known \/ Min(batch) = begin THEN map
                 ELSE addReadResultToCache(map, begin, ABSENT)
    IN  FoldSet(LAMBDA k, m : addReadResultToCache(m, k, data[k]),
                first, batch)

(* The results up to now, with a new batch of them.                        *)
WithBatch(q, batch) ==
    [k \in Keys |-> IF k \in batch THEN q.data[k] ELSE q.fetched[k]]

(* A list() gets a batch of results: it is finished if they reach the      *)
(* limit or the end of the range, or else it goes on from there.           *)
AfterBatch(q, batch, begin, end) ==
    LET fetched == WithBatch(q, batch)
    IN  IF Count(fetched) >= q.adjusted \/ (q.reverse /\ begin = end)
        THEN Finished(merge(q.cached, fetched, q.limit, q.reverse), q.expect)
        ELSE [q EXCEPT !.fetched = fetched, !.begin = begin, !.end = end,
                       !.known = ~q.reverse,
                       !.data = [k \in Keys |-> IF k \in batch THEN NONE
                                                ELSE q.data[k]]]

(* ForwardListStreamImpl::values() and ReverseListStreamImpl::values(): a  *)
(* batch of results up, or down, to key `last`.                            *)
values(r, last) ==
    LET q     == reads[r]
        batch == {k \in Keys : /\ q.data[k] # NONE
                               /\ IF q.reverse THEN k >= last ELSE k <= last}
        added == AddBatch(q.begin, q.known \/ q.reverse, q.data, batch)
    IN  /\ q.op = "list"
        /\ q.answered
        /\ q.data[last] # NONE
        /\ IF q.reverse
           THEN /\ map' = markGapsEmpty(added, last, q.end)
                /\ reads' = [reads EXCEPT ![r] =
                                 AfterBatch(q, batch, q.begin, last)]
           ELSE /\ map' = markGapsEmpty(added, q.begin, last)
                /\ reads' = [reads EXCEPT ![r] =
                                 AfterBatch(q, batch, last, q.end)]
        /\ UNCHANGED <<flushVars, maybeTerminalException, disk, ghostVars>>
        /\ NoteExposure

(* ForwardListStreamImpl::end() and ReverseListStreamImpl::end(): the rest *)
(* of the range is empty.                                                  *)
end(r) ==
    LET q     == reads[r]
        first == IF q.known THEN map
                 ELSE addReadResultToCache(map, q.begin, ABSENT)
    IN  /\ q.op = "list"
        /\ q.answered
        /\ q.data = NoKeys
        /\ map' = markGapsEmpty(first, q.begin, q.end)
        /\ reads' = [reads EXCEPT ![r] =
               Finished(merge(q.cached, q.fetched, q.limit, q.reverse),
                        q.expect)]
        /\ UNCHANGED <<flushVars, maybeTerminalException, disk, ghostVars>>
        /\ NoteExposure

(* scheduleStorageRead() when the call fails: the first DISCONNECTED is    *)
(* tried again, anything else is passed on.                                *)
ReadFails(r) ==
    /\ r \in InFlight
    /\ \/ /\ ~reads[r].retried
          /\ reads' = [reads EXCEPT ![r].retried = TRUE,
                           ![r].answered = FALSE,
                           ![r].data = IF reads[r].op = "get" THEN NONE
                                                              ELSE NoKeys]
       \/ reads' = [reads EXCEPT ![r] = Finished(NONE, NONE)]
    /\ UNCHANGED <<map, flushVars, maybeTerminalException, disk, ghostVars>>
    /\ NoteExposure

(* evictIfNeeded() or evictStale(), of this cache or another one that      *)
(* shares the list of clean entries.                                       *)
evictEntry(k) ==
    /\ k \in Clean(map)
    /\ map' = evictEntries(map, {k})
    /\ UNCHANGED <<flushVars, maybeTerminalException, disk, reads, ghostVars>>
    /\ NoteExposure

-----------------------------------------------------------------------------
(* Flushes.                                                                *)

(* The flush promise is rejected: the output gate breaks.                  *)
FlushFails ==
    /\ flush' = NoFlush
    /\ lastFlushFailed' = TRUE

(* Mutant: the entries of the map are written although a deleteAll() is to *)
(* be done before.                                                         *)
FlushSourceUnordered(m, state) == m

(* The entries to flush: those that deleteAll() has set aside, if it is    *)
(* still to be done, or else all of the map.                               *)
FlushSource(m, state) ==
    IF state.requested THEN state.deletedDirty ELSE m

(* Mutant: a write is not ordered after the reads that are in flight.      *)
waitForNoReads == {}

(* The reads a write has to wait for: all that are in flight.              *)
waitForPastReads == InFlight

(* flushImpl(): build the calls that write all dirty entries, those set    *)
(* aside by deleteAll() if there are any, and wait for past reads before   *)
(* sending them.  If deleteAll() set none aside, it is its turn.           *)
flushImpl(m, state, retry, gated) ==
    LET source  == FlushSource(m, state)
        batch   == [k \in Keys |-> IF k \in Dirty(source)
                                   THEN source[k].value ELSE NONE]
        running == [phase |-> "waiting", batch |-> batch,
                    upcoming |-> state.requested, retry |-> retry,
                    pastReads |-> waitForPastReads, gated |-> gated,
                    target |-> IF state.requested THEN state.before
                                                  ELSE contents]
    IN  IF maybeTerminalException
        THEN FlushFails /\ map' = m /\ deleteAllState' = state
        ELSE /\ map' = IF state.requested THEN m ELSE countEntries(m)
             /\ deleteAllState' =
                    [state EXCEPT !.deletedDirty = countEntries(@)]
             /\ lastFlushFailed' = lastFlushFailed
             /\ flush' = CASE batch # NoKeys -> running
                           [] batch = NoKeys /\ state.requested ->
                                  [running EXCEPT !.phase = "deleteAll sent",
                                                  !.retry = 0,
                                                  !.pastReads = {},
                                                  !.target = Nothing]
                           [] OTHER -> NoFlush

(* The scheduled flush starts when the last one is done; if that failed it *)
(* never starts.                                                           *)
StartFlush ==
    /\ flushScheduled
    /\ flush.phase = "idle"
    /\ flushScheduled' = FALSE
    /\ flushScheduledWithOutputGate' = FALSE
    /\ IF lastFlushFailed
       THEN UNCHANGED <<map, deleteAllState, flush, lastFlushFailed>>
       ELSE flushImpl(map, deleteAllState, 0, flushScheduledWithOutputGate)
    /\ UNCHANGED <<maybeTerminalException, disk, reads, ghostVars>>
    /\ NoteExposure

(* waitForPastReads() is over, and the write is sent.                      *)
SendFlush ==
    /\ flush.phase = "waiting"
    /\ flush.pastReads \cap InFlight = {}
    /\ flush' = [flush EXCEPT !.phase = "sent", !.pastReads = {}]
    /\ UNCHANGED <<map, deleteAllState, flushScheduled,
                   flushScheduledWithOutputGate, lastFlushFailed,
                   maybeTerminalException, disk, reads, ghostVars>>
    /\ NoteExposure

(* External: storage performs the write, or the deleteAll().               *)
StorageWrite ==
    /\ flush.phase \in {"sent", "deleteAll sent"}
    /\ IF flush.phase = "sent"
       THEN /\ disk' = [k \in UserKeys |-> IF flush.batch[k] # NONE
                                           THEN flush.batch[k] ELSE disk[k]]
            /\ flush' = [flush EXCEPT !.phase = "applied"]
       ELSE /\ disk' = Nothing
            /\ flush' = [flush EXCEPT !.phase = "deleteAll applied"]
    /\ UNCHANGED <<map, deleteAllState, flushScheduled,
                   flushScheduledWithOutputGate, lastFlushFailed,
                   maybeTerminalException, reads, ghostVars>>
    /\ NoteExposure

(* The writes are confirmed.  What was written before a deleteAll() is     *)
(* followed by the deleteAll(); otherwise the entries that were written    *)
(* become clean, or leave the ones deleteAll() has set aside meanwhile.    *)
FlushSucceeds ==
    /\ flush.phase = "applied"
    /\ IF flush.upcoming
       THEN /\ flush' = [flush EXCEPT !.phase = "deleteAll sent",
                             !.batch = NoKeys, !.retry = 0,
                             !.target = Nothing]
            /\ UNCHANGED <<map, deleteAllState>>
       ELSE /\ flush' = NoFlush
            /\ IF deleteAllState.requested
               THEN /\ deleteAllState' = [deleteAllState EXCEPT
                            !.deletedDirty =
                                [k \in Keys |-> IF @[k].sync = "FLUSHING"
                                                THEN NoEntry ELSE @[k]]]
                    /\ UNCHANGED map
               ELSE /\ map' = markClean(map)
                    /\ UNCHANGED deleteAllState
    /\ UNCHANGED <<flushScheduled, flushScheduledWithOutputGate,
                   lastFlushFailed, maybeTerminalException, disk, reads,
                   ghostVars>>
    /\ NoteExposure

(* deleteAll() is confirmed, and what was written since is flushed.        *)
DeleteAllSucceeds ==
    /\ flush.phase = "deleteAll applied"
    /\ flushImpl(map, NoDeleteAll, 0, flush.gated)
    /\ UNCHANGED <<flushScheduled, flushScheduledWithOutputGate,
                   maybeTerminalException, disk, reads, ghostVars>>
    /\ NoteExposure

(* Mutant: DISCONNECTED is tried again without end.                        *)
FlushDisconnectedForever ==
    /\ flush.phase \in {"sent", "applied"}
    /\ flushImpl(map, deleteAllState, flush.retry + 1, flush.gated)
    /\ UNCHANGED <<flushScheduled, flushScheduledWithOutputGate,
                   maybeTerminalException, disk, reads, ghostVars>>
    /\ NoteExposure

(* The write fails, whether or not storage has performed it: DISCONNECTED  *)
(* is tried again, with all the writes there are by then, a limited number *)
(* of times.                                                               *)
FlushDisconnected ==
    /\ flush.phase \in {"sent", "applied"}
    /\ flush.retry < MaxRetries
    /\ flushImpl(map, deleteAllState, flush.retry + 1, flush.gated)
    /\ UNCHANGED <<flushScheduled, flushScheduledWithOutputGate,
                   maybeTerminalException, disk, reads, ghostVars>>
    /\ NoteExposure

(* The deleteAll() call fails with DISCONNECTED.                           *)
DeleteAllDisconnected ==
    /\ flush.phase \in {"deleteAll sent", "deleteAll applied"}
    /\ flush.retry < MaxRetries
    /\ flush' = [flush EXCEPT !.phase = "deleteAll sent", !.retry = @ + 1]
    /\ UNCHANGED <<map, deleteAllState, flushScheduled,
                   flushScheduledWithOutputGate, lastFlushFailed,
                   maybeTerminalException, disk, reads, ghostVars>>
    /\ NoteExposure

(* The call fails with another exception, or once too often.               *)
FlushBreaks ==
    /\ flush.phase \notin {"idle", "waiting"}
    /\ FlushFails
    /\ UNCHANGED <<map, deleteAllState, flushScheduled,
                   flushScheduledWithOutputGate, maybeTerminalException,
                   disk, reads, ghostVars>>
    /\ NoteExposure

(* shutdown(): flushes that are in flight go on.                           *)
shutdown ==
    /\ ~maybeTerminalException
    /\ maybeTerminalException' = TRUE
    /\ UNCHANGED <<map, flushVars, disk, reads, ghostVars>>
    /\ NoteExposure

(* evictOrOomIfNeeded() over the hard limit, in whatever operation: the    *)
(* cache is emptied, reads and the write are cancelled, though not the     *)
(* deleteAll() call, and a flush is scheduled to break the output gate.    *)
Oom ==
    /\ maybeTerminalException' = TRUE
    /\ map' = EmptyMap
    /\ reads' = [r \in Reads |-> IF r \in InFlight THEN Finished(NONE, NONE)
                                                   ELSE reads[r]]
    /\ IF flush.phase \in {"waiting", "sent", "applied"}
       THEN FlushFails ELSE UNCHANGED <<flush, lastFlushFailed>>
    /\ IF lastFlushFailed
       THEN UNCHANGED <<flushScheduled, flushScheduledWithOutputGate>>
       ELSE ensureFlushScheduled(FALSE)
    /\ UNCHANGED <<deleteAllState, disk, ghostVars>>
    /\ NoteExposure

Next ==
    \/ \E k \in UserKeys, value \in Values \cup {ABSENT} :
           put(k, value, k \in Unconfirmed)
    \/ \E u \in BOOLEAN : deleteAll(u)
    \/ \E r \in Reads, k \in UserKeys : get(r, k)
    \/ \E r \in Reads, l \in Lists : list(r, l[1], l[2], l[3], l[4])
    \/ \E r \in Reads : \/ StorageRead(r)
                        \/ getImpl(r)
                        \/ \E last \in Keys : values(r, last)
                        \/ end(r)
                        \/ ReadFails(r)
    \/ \E k \in Keys : evictEntry(k)
    \/ StartFlush \/ SendFlush \/ StorageWrite
    \/ FlushSucceeds \/ DeleteAllSucceeds
    \/ FlushDisconnected \/ DeleteAllDisconnected \/ FlushBreaks
    \/ requireNotTerminal \/ shutdown \/ Oom

Spec == Init /\ [][Next]_vars

-----------------------------------------------------------------------------
(* Properties.                                                             *)

(* What the cache says it knows of a key, from an entry or from a gap, is  *)
(* what the application last wrote.                                        *)
CacheAgrees ==
    \A k \in UserKeys : findInCache(map, k) \in {UNKNOWN, contents[k]}

(* A read that the cache answers by itself returns what was last written,  *)
(* however lists, evictions, flushes and their retries have interleaved,   *)
(* unless the cache was exposed.                                           *)
CacheIsCurrent == maybeTerminalException \/ exposed \/ CacheAgrees

(* A key that is not dirty has the value last written on disk, or is to be *)
(* deleted by the deleteAll() that is on its way: writing the dirty        *)
(* entries is all that a flush has to do.                                  *)
NothingIsLost ==
    \/ maybeTerminalException \/ exposed
    \/ \A k \in UserKeys \ Dirty(map) :
           contents[k] = IF deleteAllState.requested THEN ABSENT ELSE disk[k]

(* get(), list() and listReverse() return what was stored when they were   *)
(* called, though writes that came later may have been flushed meanwhile.  *)
ReadsAreConsistent ==
    exposed \/ \A r \in Reads : reads[r].op = "done" => reads[r].consistent

(* A write that is not on disk is part of the flush that is running, or    *)
(* one is scheduled that will write it; so is a deleteAll().               *)
PendingIsScheduled ==
    \/ lastFlushFailed
    \/ /\ \A k \in Keys :
            /\ map[k].sync = "DIRTY" => flushScheduled \/ flush.upcoming
            /\ map[k].sync = "FLUSHING" => flush.phase # "idle"
       /\ deleteAllState.requested => flushScheduled \/ flush.upcoming

(* While a write that did not ask for allowUnconfirmed is not on disk, the *)
(* output gate is locked, or broken, also when the cache was shut down or  *)
(* ran out of memory in between.  (A write that changes nothing takes no   *)
(* lock.)                                                                  *)
GateIsHeld ==
    \/ lastFlushFailed \/ exposed
    \/ flushScheduledWithOutputGate \/ flush.gated
    \/ \A k \in confirmed : disk[k] = contents[k]

(* A write is kept until it is on disk: it is dirty, a flush is on its     *)
(* way, and the output gate waits for it.                                  *)
WritesAreKept == NothingIsLost /\ PendingIsScheduled /\ GateIsHeld

(* Storage never holds anything but what the application had written at    *)
(* some time, and moves only forward: each write takes it to the contents  *)
(* as of when the flush was built, or as of just before the deleteAll().   *)
CommitsInOrder == [][disk' # disk => disk' = flush.target]_vars
=============================================================================
