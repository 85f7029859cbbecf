---------------------------- MODULE MemoryCache ----------------------------
(***************************************************************************)
(* The in-memory cache that the isolates of a process share                *)
(* (SharedMemoryCache in src/workerd/api/memory-cache.{h,c++}) and the     *)
(* read() of its JavaScript binding.                                       *)
(*                                                                         *)
(* `data` is what the mutex guards, apart from the table of fallbacks, and *)
(* every step below takes the mutex at most once, except where a comment   *)
(* says so.  A reader is a request, in some thread, that calls read(); the *)
(* promise it may wait for is fulfilled from other threads.  A reader sees *)
(* the time of its own I/O context, which may lag behind that of another,  *)
(* so each step takes a time from Instants.  A value is its size.          *)
(***************************************************************************)
EXTENDS Integers, Sequences, FiniteSets, Bags, SequencesExt

CONSTANTS
    MaxKey,     \* keys are 1..MaxKey: two indexes fall back on their order
    Readers,
    Uses,       \* the bindings, each a SharedMemoryCache::Use
    UseOf,      \* the binding a reader reads through
    LimitsOf,   \* the limits a binding suggests
    Sizes,      \* sizes of serialized values
    MaxInstant

Keys == 1..MaxKey
Instants == 0..MaxInstant
Never == -1     \* an expiration of kj::none

Limit(keys, value, total) ==
    [maxKeys |-> keys, maxValueSize |-> value, maxTotalValueSize |-> total]

ASSUME MemoryCacheAssumption ==
    /\ MaxKey \in Nat /\ MaxInstant \in Nat
    /\ UseOf \in [Readers -> Uses]
    /\ LimitsOf \in [Uses -> [maxKeys : Nat, maxValueSize : Nat,
                              maxTotalValueSize : Nat]]
    /\ Sizes \subseteq Nat \ {0}

VARIABLES
    data,         \* ThreadUnsafeData: the limits, the total and the entries
    inProgress,   \* the InProgress of a key: its `waiting` queue
    handingOver,  \* the waiter handleFallbackFailure() took from the queue
    uses,         \* "new", "live" or "gone" for each binding
    reader        \* what each reader does, with the key it reads

memoryCacheVars == <<data, inProgress, handingOver, uses, reader>>

-----------------------------------------------------------------------------
(* Limits.                                                                 *)
NoLimits == Limit(0, 0, 0)

Larger(a, b) == IF a > b THEN a ELSE b

MaxLimits(a, b) ==
    [f \in DOMAIN a |-> Larger(a[f], b[f])]

normalize(l) ==
    IF 0 \in {l.maxKeys, l.maxValueSize, l.maxTotalValueSize} THEN NoLimits
    ELSE IF l.maxValueSize <= l.maxTotalValueSize THEN l
    ELSE [l EXCEPT !.maxValueSize = l.maxTotalValueSize]

(* Two limits neither of which is before the other: operator< looks at the *)
(* total twice and never at the size of a value.                           *)
SameLimits(a, b) ==
    /\ a.maxTotalValueSize = b.maxTotalValueSize
    /\ a.maxKeys = b.maxKeys

EffectiveOf(suggested) ==
    FoldSet(LAMBDA l, acc : MaxLimits(acc, normalize(l)), NoLimits,
            BagToSet(suggested))

-----------------------------------------------------------------------------
(* The entries: a function from keys, with the keys from the least to the  *)
(* most recently used (the order of `liveliness`) in lru.                  *)
hasExpired(expiration, now) == expiration # Never /\ expiration < now

Present(d) == DOMAIN d.cache

Erase(d, k) ==
    [d EXCEPT !.cache = [j \in Present(d) \ {k} |-> d.cache[j]],
              !.lru = SelectSeq(d.lru, LAMBDA j : j # k),
              !.totalValueSize = @ - d.cache[k].size]

removeIfExistsWhileLocked(d, k) == IF k \in Present(d) THEN Erase(d, k) ELSE d

(* The order of the index over expirations.                                *)
ExpiresBefore(d, j, k) ==
    LET a == d.cache[j].expiration
        b == d.cache[k].expiration
    IN IF a = b THEN j < k
       ELSE a = Never \/ (b # Never /\ a < b)

FirstToExpire(d) ==
    CHOOSE k \in Present(d) :
        \A j \in Present(d) \ {k} : ExpiresBefore(d, k, j)

(* failed stands for the KJ_REQUIRE that the cache is not empty.           *)
evictNextWhileLocked(d, now) ==
    IF Present(d) = {} THEN [d EXCEPT !.failed = TRUE]
    ELSE LET k == FirstToExpire(d)
         IN IF hasExpired(d.cache[k].expiration, now) THEN Erase(d, k)
                                                      ELSE Erase(d, Head(d.lru))

RECURSIVE EvictUntil(_, _, _, _)
EvictUntil(d, keys, size, now) ==
    IF /\ ~d.failed
       /\ \/ d.totalValueSize + size > d.effectiveLimits.maxTotalValueSize
          \/ Cardinality(Present(d)) > keys
    THEN EvictUntil(evictNextWhileLocked(d, now), keys, size, now)
    ELSE d

RECURSIVE RemoveLargerThan(_, _)
RemoveLargerThan(d, size) ==
    LET large == {k \in Present(d) : d.cache[k].size > size}
    IN IF large = {} THEN d
       ELSE RemoveLargerThan(Erase(d, CHOOSE k \in large : TRUE), size)

resize(d, now) ==
    LET l == EffectiveOf(d.suggestedLimits)
        e == [d EXCEPT !.effectiveLimits = l]
    IN IF l.maxKeys = 0
       THEN [e EXCEPT !.totalValueSize = 0, !.cache = <<>>, !.lru = <<>>]
       ELSE EvictUntil(RemoveLargerThan(e, l.maxValueSize), l.maxKeys, 0, now)

suggest(d, l, now) ==
    LET known == \E m \in BagToSet(d.suggestedLimits) : SameLimits(l, m)
        e == [d EXCEPT !.suggestedLimits = @ (+) SetToBag({l})]
    IN IF known THEN e ELSE resize(e, now)

(* The multiset erases some element that is the same to it.                *)
unsuggest(d, l, now) ==
    {resize([d EXCEPT !.suggestedLimits = @ (-) SetToBag({m})], now) :
        m \in {n \in BagToSet(d.suggestedLimits) : SameLimits(l, n)}}

-----------------------------------------------------------------------------
Touch(d, k) ==
    [d EXCEPT !.lru = Append(SelectSeq(d.lru, LAMBDA j : j # k), k)]

(* getWhileLocked(): the cache afterwards; it holds k iff that is a hit.   *)
getWhileLocked(d, k, now) ==
    IF k \notin Present(d) THEN d
    ELSE IF hasExpired(d.cache[k].expiration, now) THEN Erase(d, k)
    ELSE Touch(d, k)

Insert(d, k, size, expiration) ==
    [d EXCEPT !.cache = (k :> [size |-> size, expiration |-> expiration]) @@ @,
              !.lru = Append(@, k),
              !.totalValueSize = @ + size]

(* What putWhileLocked() does with a value that may go in: it evicts until *)
(* there is room for `room` bytes.                                         *)
PutMakingRoom(d, k, size, expiration, now, room) ==
    LET e == IF k \in Present(d) THEN Erase(d, k)
             ELSE IF Cardinality(Present(d)) >= d.effectiveLimits.maxKeys
             THEN evictNextWhileLocked(d, now)
             ELSE d
    IN Insert(EvictUntil(e, MaxKey, room, now), k, size, expiration)

(* Mutant: the size does not matter for a key that is new.                 *)
putWhileLockedUnmeasured(d, k, size, expiration, now) ==
    IF size > d.effectiveLimits.maxValueSize \/ hasExpired(expiration, now)
    THEN removeIfExistsWhileLocked(d, k)
    ELSE PutMakingRoom(d, k, size, expiration, now, 0)

putWhileLocked(d, k, size, expiration, now) ==
    IF size > d.effectiveLimits.maxValueSize \/ hasExpired(expiration, now)
    THEN removeIfExistsWhileLocked(d, k)
    ELSE PutMakingRoom(d, k, size, expiration, now, size)

-----------------------------------------------------------------------------
Idle == [at |-> "idle", key |-> 0, by |-> CHOOSE u \in Uses : TRUE]

MemoryCacheInit ==
    /\ data = [suggestedLimits |-> EmptyBag, effectiveLimits |-> NoLimits,
               totalValueSize |-> 0, cache |-> <<>>, lru |-> <<>>,
               failed |-> FALSE]
    /\ inProgress = <<>>
    /\ handingOver = <<>>
    /\ uses = [u \in Uses |-> "new"]
    /\ reader = [r \in Readers |-> Idle]

(* MemoryCache's constructor takes a Use and moves it into place, and each *)
(* of the two constructors of Use suggests the limits.                     *)
CreateUse(u, now) ==
    /\ uses[u] = "new"
    /\ uses' = [uses EXCEPT ![u] = "live"]
    /\ data' = suggest(suggest(data, LimitsOf[u], now), LimitsOf[u], now)
    /\ UNCHANGED <<inProgress, handingOver, reader>>

(* A binding is destroyed with its isolate, when its requests are over. (A *)
(* callback refers to the Use that made it, which is assumed to outlive it.) *)
DestroyUse(u, now) ==
    /\ uses[u] = "live"
    /\ \A r \in Readers : reader[r].at # "idle" =>
            UseOf[r] # u /\ (reader[r].at = "fallback" => reader[r].by # u)
    /\ \A k \in DOMAIN handingOver : handingOver[k].by # u
    /\ uses' = [uses EXCEPT ![u] = "gone"]
    /\ data' \in unsuggest(data, LimitsOf[u], now)
    /\ UNCHANGED <<inProgress, handingOver, reader>>

(* read() without a fallback.                                              *)
getWithoutFallback(r, k, now) ==
    /\ reader[r].at = "idle" /\ uses[UseOf[r]] = "live"
    /\ data' = getWhileLocked(data, k, now)
    /\ UNCHANGED <<inProgress, handingOver, uses, reader>>

(* Mutant: a fallback in progress is not looked for.                       *)
getWithFallbackAlways(r, k, now) ==
    /\ reader[r].at = "idle" /\ uses[UseOf[r]] = "live"
    /\ data' = getWhileLocked(data, k, now)
    /\ IF k \in DOMAIN data'.cache THEN UNCHANGED <<inProgress, reader>>
       ELSE /\ inProgress' = (k :> <<>>) @@ inProgress
            /\ reader' = [reader EXCEPT ![r] =
                            [at |-> "fallback", key |-> k, by |-> UseOf[r]]]
    /\ UNCHANGED <<handingOver, uses>>

(* read() with a fallback: a hit, a place in the line, or a fallback.      *)
getWithFallback(r, k, now) ==
    /\ reader[r].at = "idle" /\ uses[UseOf[r]] = "live"
    /\ data' = getWhileLocked(data, k, now)
    /\ IF k \in DOMAIN data'.cache THEN UNCHANGED <<inProgress, reader>>
       ELSE /\ inProgress' = IF k \in DOMAIN inProgress
                             THEN [inProgress EXCEPT ![k] = Append(@, r)]
                             ELSE (k :> <<>>) @@ inProgress
            /\ reader' = [reader EXCEPT ![r] =
                 [at |-> IF k \in DOMAIN inProgress THEN "waiting"
                                                    ELSE "fallback",
                  key |-> k, by |-> UseOf[r]]]
    /\ UNCHANGED <<handingOver, uses>>

Without(f, k) == [j \in DOMAIN f \ {k} |-> f[j]]

(* The callback of prepareFallback() with a result: it is stored, and      *)
(* everyone in the line gets it.                                           *)
FallbackSucceeds(r, size, expiration, now) ==
    LET k == reader[r].key
    IN /\ reader[r].at = "fallback"
       /\ data' = putWhileLocked(data, k, size, expiration, now)
       /\ reader' = [q \in Readers |->
             IF q = r \/ q \in ToSet(inProgress[k]) THEN Idle ELSE reader[q]]
       /\ inProgress' = Without(inProgress, k)
       /\ UNCHANGED <<handingOver, uses>>

(* The first, locked part of handleFallbackFailure(), called on the Use    *)
(* `by`: the next in line is taken out, or the line is deleted.            *)
TakeNext(k, by) ==
    LET line == inProgress[k]
    IN IF line # <<>>
       THEN /\ handingOver' = (k :> [to |-> Head(line), by |-> by]) @@ handingOver
            /\ inProgress' = [inProgress EXCEPT ![k] = Tail(line)]
       ELSE /\ handingOver' = Without(handingOver, k)
            /\ inProgress' = Without(inProgress, k)

(* The callback with kj::none, or its destruction: the fallback threw, or  *)
(* the I/O context it was to run in was canceled.                          *)
FallbackFails(r) ==
    /\ reader[r].at = "fallback"
    /\ TakeNext(reader[r].key, reader[r].by)
    /\ reader' = [reader EXCEPT ![r] = Idle]
    /\ UNCHANGED <<data, uses>>

(* Mutant: the callback for a waiter that is gone is kept.                 *)
fulfillNextKept(k) ==
    /\ k \in DOMAIN handingOver
    /\ reader[handingOver[k].to].at # "gone"
    /\ reader' = [reader EXCEPT ![handingOver[k].to].at = "fallback",
                                ![handingOver[k].to].by = handingOver[k].by]
    /\ handingOver' = Without(handingOver, k)
    /\ UNCHANGED <<data, inProgress, uses>>

(* The second part, without the lock: the waiter gets the callback. If its *)
(* promise is gone the callback is destroyed at once, which is a failure.  *)
fulfillNext(k) ==
    LET r == handingOver[k].to
        by == handingOver[k].by
    IN /\ k \in DOMAIN handingOver
       /\ IF reader[r].at = "gone"
          THEN TakeNext(k, by) /\ reader' = [reader EXCEPT ![r] = Idle]
          ELSE /\ handingOver' = Without(handingOver, k)
               /\ reader' = [reader EXCEPT ![r].at = "fallback", ![r].by = by]
               /\ UNCHANGED inProgress
       /\ UNCHANGED <<data, uses>>

(* The I/O context of a reader is canceled while it waits: its promise is  *)
(* destroyed, its fulfiller stays in the line.                             *)
CancelWaiting(r) ==
    /\ reader[r].at = "waiting"
    /\ reader' = [reader EXCEPT ![r].at = "gone"]
    /\ UNCHANGED <<data, inProgress, handingOver, uses>>

Finish(r, now) ==
    \/ FallbackFails(r)
    \/ \E size \in Sizes, expiration \in Instants \cup {Never} :
            FallbackSucceeds(r, size, expiration, now)

MemoryCacheNext ==
    \/ \E u \in Uses, now \in Instants : CreateUse(u, now) \/ DestroyUse(u, now)
    \/ \E r \in Readers, k \in Keys, now \in Instants :
            getWithoutFallback(r, k, now) \/ getWithFallback(r, k, now)
    \/ \E r \in Readers, now \in Instants : Finish(r, now)
    \/ \E k \in Keys : fulfillNext(k)
    \/ \E r \in Readers : CancelWaiting(r)

MemoryCacheSpec == MemoryCacheInit /\ [][MemoryCacheNext]_memoryCacheVars

-----------------------------------------------------------------------------
(* A callback is handed over only for a key whose line still exists, which *)
(* handleFallbackFailure() refers to without holding the lock.             *)
MemoryCacheTypeOK ==
    /\ Present(data) \subseteq Keys
    /\ data.cache \in [Present(data) -> [size : Sizes,
                                         expiration : Instants \cup {Never}]]
    /\ DOMAIN handingOver \subseteq DOMAIN inProgress
    /\ DOMAIN inProgress \subseteq Keys
    /\ uses \in [Uses -> {"new", "live", "gone"}]
    /\ reader \in [Readers -> [at : {"idle", "waiting", "fallback", "gone"},
                               key : Keys \cup {0}, by : Uses]]

(* The total is the sum of the sizes, the index of uses has each entry     *)
(* once, and no limit is exceeded, however the limits moved.               *)
WithinLimits ==
    LET l == data.effectiveLimits
        P == Present(data)
    IN /\ ToSet(data.lru) = P /\ Len(data.lru) = Cardinality(P)
       /\ data.totalValueSize =
              FoldSet(LAMBDA k, sum : sum + data.cache[k].size, 0, P)
       /\ data.totalValueSize <= l.maxTotalValueSize
       /\ Cardinality(P) <= l.maxKeys
       /\ \A k \in P : data.cache[k].size <= l.maxValueSize

(* evictNextWhileLocked() is never called on an empty cache.               *)
EvictsSomething == ~data.failed

(* A key is in progress iff exactly one reader runs its fallback or is     *)
(* about to get it: failures, cancellations and new readers in other       *)
(* threads never start a second one, and never leave the line without one. *)
OneFallbackPerKey ==
    \A k \in Keys :
        LET running == {r \in Readers : reader[r].at = "fallback"
                                        /\ reader[r].key = k}
            next == {handingOver[j].to : j \in DOMAIN handingOver \cap {k}}
        IN Cardinality(running) + Cardinality(next) =
               IF k \in DOMAIN inProgress THEN 1 ELSE 0

(* A reader waits iff its fulfiller is in a line or on its way.            *)
WaitersAreInLine ==
    \A r \in Readers : reader[r].at = "waiting" =>
        LET k == reader[r].key
        IN \/ k \in DOMAIN inProgress /\ r \in ToSet(inProgress[k])
           \/ k \in DOMAIN handingOver /\ handingOver[k].to = r

(* Every entry is paid for, and evictions find something to evict.         *)
CacheIsBounded == WithinLimits /\ EvictsSomething

(* Whoever waits for a key waits for exactly one fallback.                 *)
FallbacksInLine == OneFallbackPerKey /\ WaitersAreInLine

LiveUses == {u \in Uses : uses[u] = "live"}


(* memory-cache.h:345 "Values with no expiration timestamp are at the very *)
(* end", so that, as memory-cache.c++:191 says, "If there is an entry that *)
(* has expired already, evict that one".  It is violated: the index has    *)
(* them at the beginning, and they hide the expired ones.                  *)
ExpiredGoFirst ==
    \A now \in Instants : Present(data) # {} =>
        LET gone == Present(data) \ Present(evictNextWhileLocked(data, now))
        IN (\E k \in Present(data) : hasExpired(data.cache[k].expiration, now))
           => \A k \in gone : hasExpired(data.cache[k].expiration, now)

(* Every read that waits for another's fallback gets the value, or its own *)
(* turn to produce one, whichever of those before it failed or went away.  *)
ReadersServed ==
    \A r \in Readers : reader[r].at = "waiting" ~> reader[r].at # "waiting"
=============================================================================
