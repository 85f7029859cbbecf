---------------------------- MODULE ActorCacheMap ----------------------------
(***************************************************************************)
(* The ordered map of an ActorCache (currentValues in                      *)
(* src/workerd/io/actor-cache.{h,c++}) and the functions that change it.   *)
(*                                                                         *)
(* Keys are numbers, in key order; 0 is the empty key, and MaxKey + 1, End,*)
(* stands for "no end key".  An entry holds a value or ABSENT or UNKNOWN,  *)
(* its sync status, and gapIsKnownEmpty, which says that no key between    *)
(* this entry and the next one exists.  The dirty list is the set of the   *)
(* dirty entries: its order matters only in that the FLUSHING ones come    *)
(* first.                                                                  *)
(***************************************************************************)
EXTENDS Integers, FiniteSets, FiniteSetsExt

CONSTANTS
    MaxKey,   \* the largest key
    Values    \* what put() may store, natural numbers from 1

ABSENT  == 0
UNKNOWN == -1
NONE    == -2    \* no entry in the map, or no value in a list of results

ASSUME MapAssumption == MaxKey \in Nat \ {0} /\ Values \subseteq Nat \ {0}

Keys     == 0..MaxKey
UserKeys == 1..MaxKey
End      == MaxKey + 1

SyncStatus == {"CLEAN", "DIRTY", "FLUSHING"}

NoEntry == [value |-> NONE, sync |-> "CLEAN", gap |-> FALSE]
Entry(value, sync, gap) == [value |-> value, sync |-> sync, gap |-> gap]

Maps == [Keys -> [value : Values \cup {ABSENT, UNKNOWN, NONE},
                  sync : SyncStatus, gap : BOOLEAN]]

EmptyMap == [k \in Keys |-> NoEntry]

-----------------------------------------------------------------------------
(* Looking at the map.                                                     *)

Entries(map) == {k \in Keys : map[k].value # NONE}
Dirty(map)   == {k \in Entries(map) : map[k].sync # "CLEAN"}
Clean(map)   == Entries(map) \ Dirty(map)
Present(map) == {k \in Keys : map[k].value \in Values}

(* The entry before key k exists and is followed by a known-empty gap.     *)
GapBefore(map, k) ==
    \E j \in Entries(map) :
        /\ j < k
        /\ map[j].gap
        /\ \A i \in Entries(map) : ~(j < i /\ i < k)

(* What the cache knows of a key.                                          *)
findInCache(map, k) ==
    IF map[k].value # NONE THEN map[k].value
    ELSE IF GapBefore(map, k) THEN ABSENT ELSE UNKNOWN

-----------------------------------------------------------------------------
(* Reading into the map.                                                   *)

(* Store what a read found, unless the map already has a value for the key *)
(* or says that it is absent.                                              *)
addReadResultToCache(map, k, value) ==
    IF \/ value = ABSENT /\ map[k].value = NONE /\ GapBefore(map, k)
       \/ map[k].value \notin {NONE, UNKNOWN}
    THEN map
    ELSE [map EXCEPT ![k] = Entry(value, "CLEAN", FALSE)]

(* The last entry before `end`, or -1.                                     *)
LastBefore(map, end) == Max({-1} \cup {k \in Entries(map) : k < end})

(* Set gapIsKnownEmpty from `begin` to `end`, put an UNKNOWN entry at the  *)
(* end if nothing marks it, and erase the clean entries without a value    *)
(* that have become redundant.                                             *)
markGapsEmpty(map, begin, end) ==
    LET last   == LastBefore(map, end)
        atEnd  == end \in Entries(map)
        inGap  == ~atEnd /\ last >= begin /\ map[last].gap
        capped == IF atEnd \/ inGap \/ end = End THEN map
                  ELSE [map EXCEPT ![end] = Entry(UNKNOWN, "CLEAN", FALSE)]
        stop   == IF inGap THEN last ELSE end
        range  == {k \in Entries(capped) : begin <= k /\ k <= stop}
        erased == {k \in range :
                     /\ k \notin Present(capped) \cup Dirty(capped)
                     /\ k # stop \/ capped[k].gap
                     /\ \/ \E j \in range : j < k
                        \/ GapBefore(capped, k)}
    IN  IF ~atEnd /\ last < begin THEN map
        ELSE [k \in Keys |->
                CASE k \in erased -> NoEntry
                  [] k \in range \ (erased \cup {stop}) ->
                         [capped[k] EXCEPT !.gap = TRUE]
                  [] OTHER -> capped[k]]

-----------------------------------------------------------------------------
(* Writing into the map.                                                   *)

(* The write would change nothing that the map knows.                      *)
NoChange(map, k, value) ==
    \/ map[k].value = value
    \/ map[k].value = NONE /\ GapBefore(map, k) /\ value = ABSENT

(* The map once a write that changes something is in it.                   *)
putImpl(map, k, value) ==
    [map EXCEPT ![k] =
        Entry(value, "DIRTY",
              IF map[k].value # NONE THEN map[k].gap ELSE GapBefore(map, k))]

(* Mutant: the entry before an evicted one keeps its known-empty gap.      *)
evictEntriesGap(map, evicted) ==
    [k \in Keys |-> IF k \in evicted THEN NoEntry ELSE map[k]]

(* Drop entries from the map; the gap before each is no longer known.      *)
evictEntries(map, evicted) ==
    [k \in Keys |->
        IF k \in evicted THEN NoEntry
        ELSE IF \E j \in evicted :
                    k < j /\ ~\E i \in Entries(map) : k < i /\ i < j
             THEN [map[k] EXCEPT !.gap = FALSE]
             ELSE map[k]]

(* What deleteAll() leaves: a negative entry at the empty key, with a      *)
(* known-empty gap up to the end of the key space.                         *)
DeletedMap == [EmptyMap EXCEPT ![0] = Entry(ABSENT, "CLEAN", TRUE)]

(* Mark the dirty entries as being written.                                *)
countEntries(map) ==
    [k \in Keys |-> IF k \in Dirty(map)
                    THEN [map[k] EXCEPT !.sync = "FLUSHING"] ELSE map[k]]

(* Mutant: entries written since the flush began become clean as well.     *)
markCleanAll(map) ==
    [k \in Keys |-> [map[k] EXCEPT !.sync = "CLEAN"]]

(* A flush succeeded: its entries are clean, or erased where the gaps      *)
(* around a negative entry say the same.                                   *)
markClean(map) ==
    [k \in Keys |->
        IF map[k].sync # "FLUSHING" THEN map[k]
        ELSE IF map[k].gap /\ map[k].value = ABSENT /\ GapBefore(map, k)
             THEN NoEntry
             ELSE [map[k] EXCEPT !.sync = "CLEAN"]]

-----------------------------------------------------------------------------
(* The scan of the cache at the start of list() and listReverse(): whether *)
(* it suffices, and if not which range storage must list, whether the      *)
(* value of the first key is known, how many results to ask for, and the   *)
(* entries found.                                                          *)

ScanResult(map, scanned, begin, end, known, adjusted, satisfied) ==
    [satisfied |-> satisfied, begin |-> begin, end |-> end, known |-> known,
     adjusted |-> adjusted,
     cached |-> [k \in Keys |-> IF k \in scanned /\ map[k].value # UNKNOWN
                                THEN map[k].value ELSE NONE]]

(* The negative entries that may cancel a key listed from storage.         *)
DirtyAbsent(map, keys) == {k \in keys \cap Dirty(map) : map[k].value = ABSENT}

(* list() scans until `limit` entries with a value are found; storage must *)
(* be listed from `begin` if nothing is known of it, or else from the      *)
(* first entry after which the gap is not known to be empty.               *)
listScan(map, begin, end, limit) ==
    LET scanned == {k \in Entries(map) :
                      /\ begin <= k /\ k < end
                      /\ Cardinality({j \in Present(map) :
                                        begin <= j /\ j < k}) < limit}
        open    == {k \in scanned : ~map[k].gap}
        unknown == begin \notin Entries(map) /\ ~GapBefore(map, begin)
        start   == IF unknown THEN begin ELSE Min(open \cup {End})
        prefix  == IF unknown THEN {}
                   ELSE {k \in scanned \cap Present(map) : k <= start}
        after   == {k \in scanned : k > start \/ unknown}
    IN  ScanResult(map, scanned, start, end,
                   ~unknown /\ start \in Keys
                            /\ map[start].value # UNKNOWN,
                   limit + Cardinality(DirtyAbsent(map, after))
                         - Cardinality(prefix),
                   start = End \/ Cardinality(prefix) >= limit)

(* listReverse() scans from the end; storage must be listed up to the last *)
(* entry whose gap before it is not known to be empty, or up to the first  *)
(* entry if nothing is known of the keys from `begin` to there.            *)
listReverseScan(map, begin, end, limit) ==
    LET scanned == {k \in Entries(map) :
                      /\ begin <= k /\ k < end
                      /\ Cardinality({j \in Present(map) :
                                        k < j /\ j < end}) < limit}
        open    == {k \in scanned : ~map[k].gap}
        unknown == /\ Cardinality(scanned \cap Present(map)) < limit
                   /\ begin \notin Entries(map)
                   /\ ~GapBefore(map, begin)
        stop    == CASE open # {} -> Min({k \in scanned : k > Max(open)}
                                         \cup {end})
                     [] open = {} /\ unknown -> Min(scanned \cup {end})
                     [] OTHER -> 0
        suffix  == {k \in scanned \cap Present(map) : k >= stop}
        before  == {k \in scanned : k < stop}
    IN  ScanResult(map, scanned, begin, stop, FALSE,
                   limit + Cardinality(DirtyAbsent(map, before))
                         - Cardinality(suffix),
                   stop = 0 \/ Cardinality(suffix) >= limit)

(* The first, or the last, `limit` keys at which f has a value.            *)
Select(f, limit, reverse) ==
    [k \in Keys |->
        IF /\ f[k] \in Values
           /\ Cardinality({j \in Keys : /\ f[j] \in Values
                                        /\ IF reverse THEN j > k ELSE j < k})
              < limit
        THEN f[k] ELSE NONE]

(* GetResultList: the entries from the cache before the ones from storage, *)
(* without the negative ones, up to the limit.                             *)
merge(cached, fetched, limit, reverse) ==
    Select([k \in Keys |-> IF cached[k] # NONE THEN cached[k]
                           ELSE fetched[k]], limit, reverse)
=============================================================================
