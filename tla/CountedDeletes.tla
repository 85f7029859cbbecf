--------------------------- MODULE CountedDeletes ---------------------------
(***************************************************************************)
(* How ActorCache counts what delete() deletes (CountedDelete in           *)
(* src/workerd/io/actor-cache.{h,c++}).  delete() of several keys returns  *)
(* how many of them existed.  Keys that are in the cache are counted at    *)
(* once; for the others storage is asked when their deletion is flushed,   *)
(* even if the key has been written again by then.                         *)
(*                                                                         *)
(* All keys have the same value.  List operations, and so what is known of *)
(* the gaps between keys, and deleteAll() are in module ActorCache.        *)
(***************************************************************************)
EXTENDS Integers, FiniteSets, FiniteSetsExt

CONSTANTS
    CacheKeys,
    Deletes,            \* the calls of delete()
    DeletedBy(_),       \* the keys of each
    SmallBatches,       \* whether maxKeysPerRpc is 1, or else not reached
    MaxPuts,            \* bound on the calls of put()
    MaxDeleteRetries    \* MAX_RETRIES of flushImpl()

ASSUME CountedDeletesAssumption ==
    /\ \A d \in Deletes : DeletedBy(d) \subseteq CacheKeys
    /\ SmallBatches \in BOOLEAN
    /\ {MaxPuts, MaxDeleteRetries} \subseteq Nat

NoDelete == "none"

VARIABLES
    entries,      \* the cache
    countDeleted, \* of each CountedDelete
    deletes,      \* the state of each delete()
    deleteFlush,  \* the flush that is running
    gateBroken,   \* a flush has failed for good
    onDisk,       \* the keys in storage
    exists,       \* the keys as the application sees them
    existed,      \* how many of its keys existed when delete() was called
    interrupted,  \* the calls whose counting was cut short by a failure
    puts

countedVars == <<entries, countDeleted, deletes, deleteFlush, gateBroken,
                 onDisk, exists, existed, interrupted, puts>>

NotInCache == [value |-> "NONE", status |-> "NONE", counted |-> NoDelete]
Entry(value, status, counted) ==
    [value |-> value, status |-> status, counted |-> counted]

IsDirty(e) == e.status \in {"DIRTY", "FLUSHING"}
NoDeleteFlush == [phase |-> "idle"]
Waiting == {d \in Deletes : deletes[d] = "waiting"}

(* The states of the model are of the declared shape.                      *)
CountedDeletesTypeOK ==
    /\ entries \in [CacheKeys -> {NotInCache} \cup
          [value : {"PRESENT", "ABSENT"},
           status : {"CLEAN", "DIRTY", "FLUSHING"},
           counted : Deletes \cup {NoDelete}]]
    /\ countDeleted \in [Deletes -> Nat]
    /\ deletes \in [Deletes -> {"new", "waiting", "answered", "failed"}]
    /\ deleteFlush.phase \in {"idle", "single", "txn", "committed"}
    /\ gateBroken \in BOOLEAN
    /\ onDisk \subseteq CacheKeys
    /\ exists \subseteq CacheKeys
    /\ existed \in [Deletes -> Nat]
    /\ interrupted \subseteq Deletes
    /\ puts \in 0..MaxPuts

CountedDeletesInit ==
    /\ entries = [k \in CacheKeys |-> NotInCache]
    /\ countDeleted = [d \in Deletes |-> 0]
    /\ deletes = [d \in Deletes |-> "new"]
    /\ deleteFlush = NoDeleteFlush
    /\ gateBroken = FALSE
    /\ onDisk \in SUBSET CacheKeys
    /\ exists = onDisk
    /\ existed = [d \in Deletes |-> 0]
    /\ interrupted = {}
    /\ puts = 0

-----------------------------------------------------------------------------
(* The entry that takes the place of e.  One that is not written yet hands *)
(* on the delete() that is waiting for it.                                 *)
putImpl(e, value, d) ==
    IF e.value = value THEN e
    ELSE Entry(value, "DIRTY", IF e.value = "NONE" THEN d
                               ELSE IF IsDirty(e) THEN e.counted
                               ELSE NoDelete)

put(k) ==
    /\ puts < MaxPuts
    /\ ~gateBroken
    /\ puts' = puts + 1
    /\ entries' = [entries EXCEPT ![k] = putImpl(@, "PRESENT", NoDelete)]
    /\ exists' = exists \cup {k}
    /\ UNCHANGED <<countDeleted, deletes, deleteFlush, gateBroken, onDisk,
                   existed, interrupted>>

(* delete(): answered at once unless an entry keeps the CountedDelete.     *)
delete(d) ==
    /\ deletes[d] = "new"
    /\ ~gateBroken
    /\ entries' = [k \in CacheKeys |->
                      IF k \in DeletedBy(d)
                      THEN putImpl(entries[k], "ABSENT", d) ELSE entries[k]]
    /\ countDeleted' = [countDeleted EXCEPT ![d] = Cardinality(
                          {k \in DeletedBy(d) : entries[k].value = "PRESENT"})]
    /\ deletes' = [deletes EXCEPT ![d] =
                      IF \E k \in CacheKeys : entries'[k].counted = d
                      THEN "waiting" ELSE "answered"]
    /\ exists' = exists \ DeletedBy(d)
    /\ existed' = [existed EXCEPT ![d] = Cardinality(exists \cap DeletedBy(d))]
    /\ UNCHANGED <<deleteFlush, gateBroken, onDisk, interrupted, puts>>

evict(k) ==
    /\ entries[k].status = "CLEAN"
    /\ entries' = [entries EXCEPT ![k] = NotInCache]
    /\ UNCHANGED <<countDeleted, deletes, deleteFlush, gateBroken, onDisk,
                   exists, existed, interrupted, puts>>

-----------------------------------------------------------------------------
DirtyKeys == {k \in CacheKeys : IsDirty(entries[k])}

(* The keys of a flush whose deletion is to be counted, and for whom.      *)
CountedKeys(d) == {k \in DirtyKeys : entries[k].counted = d}
Counted == {d \in Waiting : CountedKeys(d) # {}}

(* The requests storage gets for one delete().                             *)
Batches(keys) == IF SmallBatches THEN {{k} : k \in keys} ELSE {keys}

Puts == {k \in DirtyKeys : entries[k].value = "PRESENT"}
MutedDeletes == {k \in DirtyKeys : /\ entries[k].value = "ABSENT"
                                   /\ entries[k].counted \notin Waiting}

(* One delete() in one batch and nothing else to write needs no            *)
(* transaction.                                                            *)
IsSingle ==
    /\ Puts = {}
    /\ MutedDeletes = {}
    /\ \E d \in Counted : /\ Counted = {d}
                          /\ Cardinality(Batches(CountedKeys(d))) = 1

(* flushImpl(): all dirty entries are being flushed; those whose delete()  *)
(* no longer waits are not counted.                                        *)
flushImplDeletes(retry) ==
    /\ deleteFlush' =
          [phase |-> IF IsSingle THEN "single" ELSE "txn", retry |-> retry,
           puts |-> Puts, deletes |-> DirtyKeys \ Puts,
           counts |-> [d \in Counted |-> Batches(CountedKeys(d))]]
    /\ entries' = [k \in CacheKeys |->
          IF k \in DirtyKeys
          THEN Entry(entries[k].value, "FLUSHING",
                     IF entries[k].counted \in Waiting
                     THEN entries[k].counted ELSE NoDelete)
          ELSE entries[k]]

StartDeleteFlush ==
    /\ deleteFlush.phase = "idle"
    /\ ~gateBroken
    /\ DirtyKeys # {}
    /\ flushImplDeletes(0)
    /\ UNCHANGED <<countDeleted, deletes, gateBroken, onDisk, exists, existed,
                   interrupted, puts>>

Stored == (onDisk \ deleteFlush.deletes) \cup deleteFlush.puts

(* flushImplUsingSingleCountedDelete(): the answer is the count.           *)
SingleCountedDelete ==
    /\ deleteFlush.phase = "single"
    /\ \E d \in DOMAIN deleteFlush.counts :
          /\ countDeleted' = [countDeleted EXCEPT ![d] =
                                 Cardinality(onDisk \cap deleteFlush.deletes)]
          /\ deletes' = [deletes EXCEPT ![d] = "answered"]
    /\ onDisk' = Stored
    /\ deleteFlush' = [deleteFlush EXCEPT !.phase = "committed"]
    /\ UNCHANGED <<entries, gateBroken, exists, existed, interrupted, puts>>

(* Mutant: the first batch's count is the answer.                          *)
joinCountedDeleteFirst(d, batch) ==
    /\ deleteFlush' = [deleteFlush EXCEPT !.counts[d] = {}]
    /\ countDeleted' = [countDeleted EXCEPT ![d] =
                           @ + Cardinality(onDisk \cap batch)]
    /\ deletes' = [deletes EXCEPT ![d] = "answered"]

(* In a transaction each batch is counted as its answer comes, and the     *)
(* last one makes the answer to delete().                                  *)
joinCountedDelete(d, batch) ==
    /\ deleteFlush' = [deleteFlush EXCEPT !.counts[d] = @ \ {batch}]
    /\ countDeleted' = [countDeleted EXCEPT ![d] =
                           @ + Cardinality(onDisk \cap batch)]
    /\ deletes' = [deletes EXCEPT ![d] =
                      IF deleteFlush.counts[d] = {batch} THEN "answered"
                      ELSE @]

BatchAnswered ==
    /\ deleteFlush.phase = "txn"
    /\ \E d \in DOMAIN deleteFlush.counts :
          \E batch \in deleteFlush.counts[d] : joinCountedDelete(d, batch)
    /\ UNCHANGED <<entries, gateBroken, onDisk, exists, existed, interrupted,
                   puts>>

Uncounted == {d \in DOMAIN deleteFlush.counts : deleteFlush.counts[d] # {}}

Commit ==
    /\ deleteFlush.phase = "txn"
    /\ Uncounted = {}
    /\ onDisk' = Stored
    /\ deleteFlush' = [deleteFlush EXCEPT !.phase = "committed"]
    /\ UNCHANGED <<entries, countDeleted, deletes, gateBroken, exists,
                   existed, interrupted, puts>>

(* The flush is over: what was not written again meanwhile is clean.       *)
DeleteFlushSucceeds ==
    /\ deleteFlush.phase = "committed"
    /\ entries' = [k \in CacheKeys |->
          IF entries[k].status = "FLUSHING"
          THEN Entry(entries[k].value, "CLEAN", NoDelete) ELSE entries[k]]
    /\ deleteFlush' = NoDeleteFlush
    /\ UNCHANGED <<countDeleted, deletes, gateBroken, onDisk, exists, existed,
                   interrupted, puts>>

(* The connection is lost.  A transaction that is not committed is undone; *)
(* the deletion sent alone may have been made.                             *)
DeleteFlushDisconnected ==
    /\ deleteFlush.phase \in {"single", "txn"}
    /\ deleteFlush.retry < MaxDeleteRetries
    /\ \/ UNCHANGED onDisk
       \/ onDisk' = Stored /\ (deleteFlush.phase = "single" \/ Uncounted = {})
    /\ interrupted' = interrupted \cup Uncounted
    /\ flushImplDeletes(deleteFlush.retry + 1)
    /\ UNCHANGED <<countDeleted, deletes, gateBroken, exists, existed, puts>>

(* A flush fails for good and the output gate breaks.  delete() throws, if *)
(* only when the actor goes away.                                          *)
DeleteFlushBreaks ==
    /\ deleteFlush.phase \in {"single", "txn"}
    /\ gateBroken' = TRUE
    /\ deletes' = [d \in Deletes |-> IF d \in Waiting THEN "failed"
                                     ELSE deletes[d]]
    /\ deleteFlush' = NoDeleteFlush
    /\ UNCHANGED <<entries, countDeleted, onDisk, exists, existed,
                   interrupted, puts>>

CountedDeletesNext ==
    \/ \E k \in CacheKeys : put(k) \/ evict(k)
    \/ \E d \in Deletes : delete(d)
    \/ StartDeleteFlush
    \/ SingleCountedDelete
    \/ BatchAnswered
    \/ Commit
    \/ DeleteFlushSucceeds
    \/ DeleteFlushDisconnected
    \/ DeleteFlushBreaks

CountedDeletesSpec == CountedDeletesInit /\ [][CountedDeletesNext]_countedVars

-----------------------------------------------------------------------------
(* delete() returns how many of its keys existed when it was called,       *)
(* whatever is written to them before they are flushed, unless the         *)
(* counting was interrupted by a lost connection.                          *)
CountIsExact ==
    \A d \in Deletes : deletes[d] = "answered" =>
        d \in interrupted \/ countDeleted[d] = existed[d]

(* The same with no exception: a comment in flushImplUsingTxn() says that  *)
(* "nothing else could be concurrently modifying our storage in a way that *)
(* makes the count different on a retry".  It is violated.                 *)
CountSurvivesRetry ==
    \A d \in Deletes : deletes[d] = "answered" =>
        countDeleted[d] = existed[d]

(* A delete() that waits has a key whose deletion is still to be flushed,  *)
(* or storage is about to answer it: the entry that replaces a dirty one   *)
(* inherits its CountedDelete.                                             *)
SomeoneCounts ==
    \A d \in Waiting : CountedKeys(d) # {}

(* The answer is exact, and there is always somebody to give it.           *)
DeletesAreCounted == CountIsExact /\ SomeoneCounts
=============================================================================
