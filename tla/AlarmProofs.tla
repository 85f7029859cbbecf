---------------------------- MODULE AlarmProofs ----------------------------
(***************************************************************************)
(* Proofs about alarms: the alarm scheduler of the server, and the alarm   *)
(* of an actor whose storage is an ActorCache.                             *)
(***************************************************************************)
EXTENDS AlarmScheduler, ActorAlarm, TLAPS

(* Most leaves are first-order reasoning about sets and functions, which   *)
(* Zenon does best; a leaf that needs arithmetic names SMT.                *)
USE Zenon

-----------------------------------------------------------------------------
(* A new entry is well formed.                                             *)
LEMMA ScheduledEntryType ==
    ASSUME NEW time \in Times \cup {None}
    PROVE  scheduleAlarm(time) \in AlarmEntry
  BY AlarmSchedulerAssumption, SMT DEF scheduleAlarm, AlarmEntry, Times, None

LEMMA AbsentEntryType == Absent \in AlarmEntry
  BY ScheduledEntryType DEF Absent, scheduleAlarm, AlarmEntry

(* Loading the table gives well-formed entries that agree with it, and in  *)
(* which nothing runs and no retry has been counted.                       *)
LEMMA LoadedEntries ==
    ASSUME rows \in [Actors -> Times \cup {None}]
    PROVE  /\ loadAlarmsFromDb \in [Actors -> AlarmEntry]
           /\ \A a \in Actors :
                 /\ loadAlarmsFromDb[a].status \in {"ABSENT", "WAITING"}
                 /\ ~loadAlarmsFromDb[a].previousRetryCountedAgainstLimit
                 /\ loadAlarmsFromDb[a].queuedAlarm = None
                 /\ rows[a] # None =>
                       /\ loadAlarmsFromDb[a].status = "WAITING"
                       /\ loadAlarmsFromDb[a].scheduledTime = rows[a]
  <1>1. ASSUME NEW a \in Actors
        PROVE  loadAlarmsFromDb[a] \in AlarmEntry
    BY ScheduledEntryType, AbsentEntryType DEF loadAlarmsFromDb
  <1>2. loadAlarmsFromDb \in [Actors -> AlarmEntry]
    BY <1>1 DEF loadAlarmsFromDb
  <1>3. ASSUME NEW a \in Actors, rows[a] = None
        PROVE  loadAlarmsFromDb[a] = Absent
    BY <1>3 DEF loadAlarmsFromDb
  <1>4. ASSUME NEW a \in Actors, rows[a] # None
        PROVE  loadAlarmsFromDb[a] = scheduleAlarm(rows[a])
    BY <1>4 DEF loadAlarmsFromDb
  <1> QED
    BY <1>2, <1>3, <1>4, SMT DEF Absent, scheduleAlarm, None

(* setAlarm() keeps an entry well formed, and the alarm that it sets is    *)
(* the one the entry runs last.                                            *)
LEMMA EntryAfterSet ==
    ASSUME NEW e \in AlarmEntry, NEW time \in Times
    PROVE  /\ entryAfterSet(e, time) \in AlarmEntry
           /\ entryAfterSet(e, time).status # "ABSENT"
           /\ time = IF entryAfterSet(e, time).queuedAlarm # None
                     THEN entryAfterSet(e, time).queuedAlarm
                     ELSE entryAfterSet(e, time).scheduledTime
           /\ entryAfterSet(e, time).status = "STARTED" =>
                 /\ e.status = "STARTED"
                 /\ entryAfterSet(e, time).scheduledTime = e.scheduledTime
           /\ entryAfterSet(e, time).previousRetryCountedAgainstLimit =>
                 /\ e.previousRetryCountedAgainstLimit
                 /\ entryAfterSet(e, time).backoff = e.backoff
                 /\ entryAfterSet(e, time).countedRetry = e.countedRetry
  <1>1. time \in Times \cup {None} /\ time # None
    BY SMT DEF Times, None
  <1>2. CASE e.status \in {"ABSENT", "WAITING"}
    BY <1>1, <1>2, ScheduledEntryType DEF entryAfterSet, scheduleAlarm
  <1>3. CASE e.status \notin {"ABSENT", "WAITING"}
    BY <1>1, <1>3 DEF entryAfterSet, AlarmEntry
  <1> QED
    BY <1>2, <1>3

(* deleteAlarm() and the end of a run keep an entry well formed.  What is  *)
(* left was running before, or is new.                                     *)
LEMMA EntryAfterDelete ==
    ASSUME NEW e \in AlarmEntry
    PROVE  /\ entryAfterDelete(e) \in AlarmEntry
           /\ entryAfterDelete(e).status = "STARTED" =>
                 /\ e.status = "STARTED"
                 /\ entryAfterDelete(e).scheduledTime = e.scheduledTime
           /\ entryAfterDelete(e).previousRetryCountedAgainstLimit =>
                 /\ e.previousRetryCountedAgainstLimit
                 /\ entryAfterDelete(e).backoff = e.backoff
                 /\ entryAfterDelete(e).countedRetry = e.countedRetry
  <1>1. CASE e.status = "ABSENT"
    BY <1>1 DEF entryAfterDelete
  <1>2. CASE e.status = "STARTED"
    BY <1>2 DEF entryAfterDelete, AlarmEntry, None
  <1>3. CASE e.status \in {"WAITING", "FINISHED"}
    BY <1>3, ScheduledEntryType, AbsentEntryType, ZenonT(60)
    DEF entryAfterDelete, AlarmEntry, scheduleAlarm, Absent
  <1> QED
    BY <1>1, <1>2, <1>3 DEF AlarmEntry

(* A retry keeps an entry well formed as long as there are tries left, and *)
(* when it counts, the backoff has only grown by retries that count.       *)
LEMMA EntryAfterRetry ==
    ASSUME NEW e \in AlarmEntry, NEW counts \in BOOLEAN,
           e.countedRetry < RETRY_MAX_TRIES,
           e.previousRetryCountedAgainstLimit => e.backoff <= e.countedRetry
    PROVE  /\ entryAfterRetry(e, counts) \in AlarmEntry
           /\ entryAfterRetry(e, counts).status = "FINISHED"
           /\ entryAfterRetry(e, counts).scheduledTime = e.scheduledTime
           /\ entryAfterRetry(e, counts).queuedAlarm = e.queuedAlarm
           /\ entryAfterRetry(e, counts).previousRetryCountedAgainstLimit =>
                 entryAfterRetry(e, counts).backoff
                     <= entryAfterRetry(e, counts).countedRetry
  <1> DEFINE from == IF counts /\ ~e.previousRetryCountedAgainstLimit
                     THEN 0 ELSE e.backoff
             backoff == Smaller(RETRY_BACKOFF_MAX, from) + 1
             counted == IF counts THEN e.countedRetry + 1 ELSE e.countedRetry
             r == entryAfterRetry(e, counts)
  <1>1. r = [e EXCEPT !.status = "FINISHED", !.countedRetry = counted,
                      !.backoff = backoff,
                      !.previousRetryCountedAgainstLimit = counts]
    BY DEF entryAfterRetry, AlarmEntry
  <1>2. /\ e.backoff \in 0..(RETRY_BACKOFF_MAX + 1)
        /\ e.countedRetry \in 0..RETRY_MAX_TRIES
        /\ e.previousRetryCountedAgainstLimit \in BOOLEAN
    BY DEF AlarmEntry
  <1>3. counted \in 0..RETRY_MAX_TRIES
    BY <1>2, AlarmSchedulerAssumption, SMT
  <1>4. backoff \in 0..(RETRY_BACKOFF_MAX + 1) /\ backoff <= from + 1
    BY <1>2, AlarmSchedulerAssumption, SMT DEF Smaller
  <1>5. counts => from <= e.countedRetry
    BY <1>2, SMT
  <1>6. counts => backoff <= counted
    BY <1>2, <1>3, <1>4, <1>5, SMT
  <1>7. r \in AlarmEntry
    BY <1>1, <1>3, <1>4 DEF AlarmEntry
  <1>8. /\ r.status = "FINISHED" /\ r.scheduledTime = e.scheduledTime
        /\ r.queuedAlarm = e.queuedAlarm /\ r.countedRetry = counted
        /\ r.backoff = backoff /\ r.previousRetryCountedAgainstLimit = counts
    BY <1>1 DEF AlarmEntry
  <1> QED
    BY <1>6, <1>7, <1>8

(***************************************************************************)
(* The inductive invariant of the scheduler.  The three properties of      *)
(* AlarmsOnSchedule are inductive together with the type invariant: the    *)
(* backoff bound needs the types of the counters, and the others need each *)
(* other only through the entries.                                         *)
(***************************************************************************)
SchedulerInv == SchedulerTypeOK /\ AlarmsOnSchedule

LEMMA SchedulerInitInv == SchedulerInit => SchedulerInv
  <1> SUFFICES ASSUME SchedulerInit PROVE SchedulerInv
    OBVIOUS
  <1>1. rows \in [Actors -> Times \cup {None}] /\ alarms = loadAlarmsFromDb
    BY DEF SchedulerInit
  <1>2. SchedulerTypeOK
    BY <1>1, LoadedEntries, AlarmSchedulerAssumption, SMT
    DEF SchedulerInit, SchedulerTypeOK
  <1>3. AlarmsOnSchedule
    BY <1>1, LoadedEntries
    DEF AlarmsOnSchedule, StoredIsScheduled, RunsOnTime, BackoffIsOwn
  <1> QED
    BY <1>2, <1>3 DEF SchedulerInv

(* A step that changes the row and the entry of one actor, and not the     *)
(* clock, keeps the invariant when the new row and entry satisfy it.       *)
LEMMA EntryStep ==
    ASSUME SchedulerInv, NEW a \in Actors,
           NEW row \in Times \cup {None}, NEW e \in AlarmEntry,
           rows' = [rows EXCEPT ![a] = row],
           alarms' = [alarms EXCEPT ![a] = e],
           wall' = wall,
           row # None => /\ e.status # "ABSENT"
                         /\ row = IF e.queuedAlarm # None THEN e.queuedAlarm
                                                         ELSE e.scheduledTime,
           e.status = "STARTED" => wall >= e.scheduledTime,
           e.previousRetryCountedAgainstLimit => e.backoff <= e.countedRetry
    PROVE  SchedulerInv'
  <1>1. SchedulerTypeOK'
    BY DEF SchedulerInv, SchedulerTypeOK
  <1>2. \A b \in Actors : /\ rows'[b] = IF b = a THEN row ELSE rows[b]
                          /\ alarms'[b] = IF b = a THEN e ELSE alarms[b]
    BY DEF SchedulerInv, SchedulerTypeOK
  <1>3. AlarmsOnSchedule'
    BY <1>2, SMT DEF SchedulerInv, AlarmsOnSchedule, StoredIsScheduled, RunsOnTime,
                BackoffIsOwn
  <1> QED
    BY <1>1, <1>3 DEF SchedulerInv

LEMMA SchedulerStepInv == SchedulerInv /\ [SchedulerNext]_schedulerVars => SchedulerInv'
  <1> SUFFICES ASSUME SchedulerInv, [SchedulerNext]_schedulerVars
               PROVE  SchedulerInv'
    OBVIOUS
  <1>0. /\ rows \in [Actors -> Times \cup {None}]
        /\ alarms \in [Actors -> AlarmEntry]
        /\ wall \in 0..MaxTime
    BY DEF SchedulerInv, SchedulerTypeOK
  <1>S. ASSUME NEW a \in Actors
        PROVE  /\ rows[a] # None =>
                    /\ alarms[a].status # "ABSENT"
                    /\ rows[a] = IF alarms[a].queuedAlarm # None
                                 THEN alarms[a].queuedAlarm
                                 ELSE alarms[a].scheduledTime
               /\ alarms[a].status = "STARTED" => wall >= alarms[a].scheduledTime
               /\ alarms[a].previousRetryCountedAgainstLimit =>
                    alarms[a].backoff <= alarms[a].countedRetry
    BY DEF SchedulerInv, AlarmsOnSchedule, StoredIsScheduled, RunsOnTime, BackoffIsOwn
  <1>1. ASSUME NEW a \in Actors, NEW time \in Times, setAlarm(a, time)
        PROVE  SchedulerInv'
    <2> DEFINE e == entryAfterSet(alarms[a], time)
    <2>1. /\ rows' = [rows EXCEPT ![a] = time]
          /\ alarms' = [alarms EXCEPT ![a] = e]
          /\ wall' = wall
      BY <1>1 DEF setAlarm
    <2>2. alarms[a] \in AlarmEntry
      BY <1>0
    <2>3. /\ e \in AlarmEntry
          /\ e.status # "ABSENT"
          /\ time = IF e.queuedAlarm # None THEN e.queuedAlarm ELSE e.scheduledTime
          /\ e.status = "STARTED" => wall >= e.scheduledTime
          /\ e.previousRetryCountedAgainstLimit => e.backoff <= e.countedRetry
      BY <2>2, <1>S, EntryAfterSet, ZenonT(60)
    <2> HIDE DEF e
    <2> QED
      BY <2>1, <2>3, EntryStep
  <1>2. ASSUME NEW a \in Actors, deleteAlarm(a)
        PROVE  SchedulerInv'
    <2> DEFINE e == entryAfterDelete(alarms[a])
    <2>1. /\ rows' = [rows EXCEPT ![a] = None]
          /\ alarms' = [alarms EXCEPT ![a] = e]
          /\ wall' = wall
      BY <1>2 DEF deleteAlarm
    <2>2. alarms[a] \in AlarmEntry
      BY <1>0
    <2>3. /\ e \in AlarmEntry
          /\ e.status = "STARTED" => wall >= e.scheduledTime
          /\ e.previousRetryCountedAgainstLimit => e.backoff <= e.countedRetry
      BY <2>2, <1>S, EntryAfterDelete
    <2> HIDE DEF e
    <2> QED
      BY <2>1, <2>3, EntryStep
  <1>3. ASSUME NEW a \in Actors, StartAlarm(a)
        PROVE  SchedulerInv'
    <2> DEFINE e == [alarms[a] EXCEPT !.status = "STARTED"]
    <2>1. /\ rows' = [rows EXCEPT ![a] = rows[a]]
          /\ alarms' = [alarms EXCEPT ![a] = e]
          /\ wall' = wall
      BY <1>3, <1>0 DEF StartAlarm
    <2>2. alarms[a] \in AlarmEntry /\ wall >= alarms[a].scheduledTime
      BY <1>0, <1>3 DEF StartAlarm, checkTimestamp
    <2>3. /\ e \in AlarmEntry
          /\ e.status = "STARTED"
          /\ e.queuedAlarm = alarms[a].queuedAlarm
          /\ e.scheduledTime = alarms[a].scheduledTime
          /\ e.backoff = alarms[a].backoff
          /\ e.countedRetry = alarms[a].countedRetry
          /\ e.previousRetryCountedAgainstLimit
                = alarms[a].previousRetryCountedAgainstLimit
      BY <2>2 DEF AlarmEntry
    <2> HIDE DEF e
    <2> QED
      BY <2>1, <2>2, <2>3, <1>S, <1>0, EntryStep
  <1>4. ASSUME NEW a \in Actors, NEW outcome \in Outcomes(a), FinishAlarm(a, outcome)
        PROVE  SchedulerInv'
    <2>0. alarms[a] \in AlarmEntry /\ wall' = wall
      BY <1>0, <1>4 DEF FinishAlarm
    <2>1. CASE alarms[a].queuedAlarm # None
      <3> DEFINE e == scheduleAlarm(alarms[a].queuedAlarm)
      <3>1. /\ rows' = [rows EXCEPT ![a] = rows[a]]
            /\ alarms' = [alarms EXCEPT ![a] = e]
        BY <2>1, <1>4, <1>0 DEF FinishAlarm
      <3>2. e \in AlarmEntry
        BY <2>0, ScheduledEntryType DEF AlarmEntry
      <3>3. /\ e.status = "WAITING" /\ e.queuedAlarm = None
            /\ e.scheduledTime = alarms[a].queuedAlarm
            /\ ~e.previousRetryCountedAgainstLimit
        BY DEF scheduleAlarm
      <3> HIDE DEF e
      <3> QED
        BY <2>0, <2>1, <3>1, <3>2, <3>3, <1>S, <1>0, EntryStep
    <2> DEFINE gone == outcome = "done" \/ alarms[a].countedRetry >= RETRY_MAX_TRIES
    <2>2. CASE alarms[a].queuedAlarm = None /\ gone
      <3> DEFINE f == [alarms[a] EXCEPT !.status = "FINISHED"]
                 e == entryAfterDelete(f)
      <3>1. /\ rows' = [rows EXCEPT ![a] = None]
            /\ alarms' = [alarms EXCEPT ![a] = e]
        BY <2>2, <1>4 DEF FinishAlarm
      <3>2. /\ f \in AlarmEntry /\ f.status = "FINISHED"
            /\ f.backoff = alarms[a].backoff
            /\ f.countedRetry = alarms[a].countedRetry
            /\ f.previousRetryCountedAgainstLimit
                  = alarms[a].previousRetryCountedAgainstLimit
        BY <2>0 DEF AlarmEntry
      <3> HIDE DEF f
      <3>3. /\ e \in AlarmEntry
            /\ e.status # "STARTED"
            /\ e.previousRetryCountedAgainstLimit => e.backoff <= e.countedRetry
        BY <3>2, <1>S, EntryAfterDelete
      <3> HIDE DEF e
      <3> QED
        BY <2>0, <3>1, <3>3, EntryStep
    <2>3. CASE alarms[a].queuedAlarm = None /\ ~gone
      <3> DEFINE e == entryAfterRetry(alarms[a], outcome = "counted")
      <3>1. /\ rows' = [rows EXCEPT ![a] = rows[a]]
            /\ alarms' = [alarms EXCEPT ![a] = e]
            /\ alarms[a].status = "STARTED"
        BY <2>3, <1>4, <1>0 DEF FinishAlarm
      <3>2. alarms[a].countedRetry < RETRY_MAX_TRIES
        BY <2>0, <2>3, AlarmSchedulerAssumption, SMT DEF AlarmEntry
      <3>3. (outcome = "counted") \in BOOLEAN
        OBVIOUS
      <3>4. /\ e \in AlarmEntry
            /\ e.status = "FINISHED"
            /\ e.scheduledTime = alarms[a].scheduledTime
            /\ e.queuedAlarm = alarms[a].queuedAlarm
            /\ e.previousRetryCountedAgainstLimit => e.backoff <= e.countedRetry
        BY <2>0, <3>2, <3>3, <1>S, EntryAfterRetry
      <3> HIDE DEF e
      <3> QED
        BY <2>0, <3>1, <3>4, <1>S, <1>0, EntryStep
    <2> QED
      BY <2>1, <2>2, <2>3
  <1>5. CASE Restart
    <2>1. rows' = rows /\ wall' = wall /\ alarms' = loadAlarmsFromDb
      BY <1>5 DEF Restart
    <2>2. SchedulerTypeOK'
      BY <1>0, <2>1, LoadedEntries DEF SchedulerTypeOK
    <2>3. AlarmsOnSchedule'
      BY <1>0, <2>1, LoadedEntries
      DEF AlarmsOnSchedule, StoredIsScheduled, RunsOnTime, BackoffIsOwn
    <2> QED
      BY <2>2, <2>3 DEF SchedulerInv
  <1>6. CASE Tick
    <2>1. /\ wall' = wall + 1 /\ wall' \in 0..MaxTime
          /\ rows' = rows /\ alarms' = alarms
      BY <1>0, <1>6, AlarmSchedulerAssumption, SMT DEF Tick
    <2>2. SchedulerTypeOK'
      BY <1>0, <2>1 DEF SchedulerTypeOK
    <2>3. ASSUME NEW a \in Actors
          PROVE  alarms[a].scheduledTime \in Nat
      BY <1>0, AlarmSchedulerAssumption, SMT DEF AlarmEntry, Times, None
    <2>4. AlarmsOnSchedule'
      BY <1>0, <1>S, <2>1, <2>3, SMT
      DEF AlarmsOnSchedule, StoredIsScheduled, RunsOnTime, BackoffIsOwn
    <2> QED
      BY <2>2, <2>4 DEF SchedulerInv
  <1>7. CASE UNCHANGED schedulerVars
    BY <1>7 DEF schedulerVars, SchedulerInv, SchedulerTypeOK, AlarmsOnSchedule,
                StoredIsScheduled, RunsOnTime, BackoffIsOwn
  <1> QED
    BY <1>1, <1>2, <1>3, <1>4, <1>5, <1>6, <1>7 DEF SchedulerNext

(***************************************************************************)
(* The alarms in memory agree with the table, run on or after their time,  *)
(* and back off only for failures of their own, whatever the actors, the   *)
(* clock and the bounds on retries, and across restarts.                   *)
(***************************************************************************)
THEOREM AlarmsStayOnSchedule == SchedulerSpec => []AlarmsOnSchedule
  <1>1. SchedulerSpec => []SchedulerInv
    BY SchedulerInitInv, SchedulerStepInv, PTL DEF SchedulerSpec
  <1>2. SchedulerInv => AlarmsOnSchedule
    BY DEF SchedulerInv
  <1> QED
    BY <1>1, <1>2, PTL

(* Entries stay well formed: the backoff exponent and the retries that     *)
(* count stay within their limits.                                         *)
THEOREM SchedulerTypeCorrect == SchedulerSpec => []SchedulerTypeOK
  <1>1. SchedulerSpec => []SchedulerInv
    BY SchedulerInitInv, SchedulerStepInv, PTL DEF SchedulerSpec
  <1>2. SchedulerInv => SchedulerTypeOK
    BY DEF SchedulerInv
  <1> QED
    BY <1>1, <1>2, PTL

-----------------------------------------------------------------------------
(***************************************************************************)
(* The alarm of an actor.  The records that stand for the alarm time, a    *)
(* flush and a request.                                                    *)
(***************************************************************************)
KnownTimes == [kind : {"known"}, status : {"CLEAN", "DIRTY", "FLUSHING"},
               time : AlarmTimes]
DeferredDeletes == [kind : {"deferred"}, status : {"WAITING", "READY", "FLUSHING"},
                    time : Alarms, wasDeleted : {"unset", "yes", "no"}]
AlarmFlushes == [phase : {"waiting", "sent", "done"}, change : SUBSET AlarmTimes,
                 only : SUBSET AlarmTimes, retry : Nat, gated : BOOLEAN,
                 pastRead : BOOLEAN]
Stages == {"new", "pulled", "joined", "scheduled"} \cup Active \cup Ended
AlarmRequests == [stage : Stages, time : AlarmTimes, on : Requests \cup {NoRequest},
                  waits : 0..2,
                  result : {"none", "OK", "RETRY", "CANCELED", "FAILED",
                            "SCRIPT_NOT_FOUND"},
                  ours : BOOLEAN, since : SUBSET AlarmTimes,
                  lax : BOOLEAN]

(* A flush that writes has one change.  It is the alarm time that has the  *)
(* status FLUSHING, or the deletion that has it, and when the flush is     *)
(* done storage holds the one, and has answered the other.                 *)
InFlight == alarmFlush.phase \in {"waiting", "sent"}

FlushIsOfCurrent ==
    /\ InFlight => \E t \in AlarmTimes : alarmFlush.change = {t}
    /\ IsKnown /\ currentAlarmTime.status = "FLUSHING" =>
          /\ InFlight => /\ alarmFlush.change = {currentAlarmTime.time}
                         /\ alarmFlush.only = AlarmTimes
          /\ alarmFlush.phase = "done" => stored = currentAlarmTime.time
    /\ IsDeferred =>
          /\ Deleting /\ InFlight => alarmFlush.change = {NoAlarm}
          /\ ~Deleting \/ InFlight => currentAlarmTime.wasDeleted = "unset"
          /\ Deleting /\ alarmFlush.phase = "done" =>
                /\ currentAlarmTime.wasDeleted # "unset"
                /\ currentAlarmTime.wasDeleted = "yes" => stored = NoAlarm

(* Unless an outdated alarm was armed, what the cache takes for the alarm  *)
(* in storage is in storage: no write is under way, and none is sent until *)
(* an answer to getAlarm() has arrived.                                    *)
CacheIsTrue ==
    /\ InFlight => /\ currentAlarmTime.kind # "unknown"
                   /\ currentAlarmTime.status \notin {"CLEAN", "WAITING"}
    /\ alarmFlush.phase = "waiting" /\ getting # NotGetting => alarmFlush.pastRead
    /\ alarmFlush.phase = "sent" => getting = NotGetting
    /\ getting.phase = "got" => getting.time = stored
    /\ currentAlarmTime.kind # "unknown" /\ currentAlarmTime.status \in {"CLEAN", "WAITING"}
          => currentAlarmTime.time = stored

CacheShape ==
    /\ currentAlarmTime \in {UnknownAlarmTime} \cup KnownTimes \cup DeferredDeletes
    /\ scheduled \in [flush : BOOLEAN, gated : BOOLEAN]
    /\ alarmFlush \in {NoAlarmFlush} \cup AlarmFlushes
    /\ failed \in BOOLEAN /\ hasHandler \in BOOLEAN /\ outdated \in BOOLEAN
    /\ stored \in AlarmTimes
    /\ getting \in [phase : {"idle", "sent", "got"}, time : AlarmTimes]

AlarmCacheInv ==
    CacheShape /\ ChangeIsFlushed /\ FlushIsOfCurrent /\ (outdated \/ CacheIsTrue)

(* The scheduled request waits for its time, or has been dropped; a joined *)
(* request has joined one; and a request that is under way has a time.     *)
RunsShape ==
    /\ request \in [Requests -> AlarmRequests]
    /\ maybeScheduledAlarm \in Requests \cup {NoRequest}
    /\ maybeRunningAlarm \in Requests \cup {NoRequest}
    /\ events \in 0..MaxEvents

ScheduledWaits ==
    maybeScheduledAlarm # NoRequest =>
        request[maybeScheduledAlarm].stage \in {"scheduled", "dropped"}

RequestsAreTimed ==
    \A r \in Requests :
        /\ request[r].stage = "joined" => request[r].on # NoRequest
        /\ request[r].stage \notin {"new", "answered"} => request[r].time # NoAlarm

AlarmRunsInv ==
    RunsShape /\ OneRunsAtATime /\ JoinedAreServed /\ ScheduledWaits /\ RequestsAreTimed

(* While a handler runs, the deletion of its alarm waits.                  *)
HandlerHolds ==
    \A r \in Requests :
        request[r].stage = "handler" /\ IsDeferred => currentAlarmTime.status = "WAITING"

AlarmInv == AlarmCacheInv /\ AlarmRunsInv /\ HandlerHolds

-----------------------------------------------------------------------------
LEMMA NoRequestIsNone == NoRequest \notin Requests /\ NoAlarm \notin Alarms
  BY AlarmAssumption, SMT DEF NoRequest, Requests, NoAlarm

(* The cache's alarm time is unknown, known or to be deleted, and a record *)
(* of its kind.                                                            *)
LEMMA CurrentCases ==
    ASSUME CacheShape
    PROVE  \/ currentAlarmTime = UnknownAlarmTime /\ ~IsKnown /\ ~IsDeferred
           \/ currentAlarmTime \in KnownTimes /\ IsKnown /\ ~IsDeferred
           \/ currentAlarmTime \in DeferredDeletes /\ ~IsKnown /\ IsDeferred
  BY SMT DEF CacheShape, KnownTimes, DeferredDeletes, UnknownAlarmTime, IsKnown, IsDeferred

LEMMA KnownType ==
    ASSUME NEW s \in {"CLEAN", "DIRTY", "FLUSHING"}, NEW t \in AlarmTimes
    PROVE  /\ KnownAlarmTime(s, t) \in KnownTimes
           /\ KnownAlarmTime(s, t).kind = "known"
           /\ KnownAlarmTime(s, t).status = s
           /\ KnownAlarmTime(s, t).time = t
  BY DEF KnownAlarmTime, KnownTimes

LEMMA DeferredType ==
    ASSUME NEW s \in {"WAITING", "READY", "FLUSHING"}, NEW t \in Alarms
    PROVE  /\ DeferredAlarmDelete(s, t, "unset") \in DeferredDeletes
           /\ DeferredAlarmDelete(s, t, "unset").kind = "deferred"
           /\ DeferredAlarmDelete(s, t, "unset").status = s
           /\ DeferredAlarmDelete(s, t, "unset").time = t
           /\ DeferredAlarmDelete(s, t, "unset").wasDeleted = "unset"
  BY DEF DeferredAlarmDelete, DeferredDeletes

(* A flush that is not idle has all its fields.                            *)
LEMMA FlushCases ==
    ASSUME CacheShape
    PROVE  \/ alarmFlush = NoAlarmFlush /\ alarmFlush.phase = "idle"
           \/ alarmFlush \in AlarmFlushes /\ alarmFlush.phase # "idle"
  BY SMT DEF CacheShape, AlarmFlushes, NoAlarmFlush

(* A status is one of its kind's.                                          *)
LEMMA StatusCases ==
    ASSUME CacheShape
    PROVE  /\ IsKnown => /\ currentAlarmTime.status \in {"CLEAN", "DIRTY", "FLUSHING"}
                         /\ currentAlarmTime.time \in AlarmTimes
           /\ IsDeferred => /\ currentAlarmTime.status \in {"WAITING", "READY", "FLUSHING"}
                            /\ currentAlarmTime.time \in Alarms
                            /\ currentAlarmTime.time \in AlarmTimes
                            /\ currentAlarmTime.wasDeleted \in {"unset", "yes", "no"}
  BY CurrentCases DEF KnownTimes, DeferredDeletes, AlarmTimes

LEMMA NewRequestType == NewRequest \in AlarmRequests
  BY SMT DEF NewRequest, AlarmRequests, Stages, AlarmTimes, NoAlarm, NoRequest

LEMMA ActorAlarmInitInv == ActorAlarmInit => AlarmInv
  <1> SUFFICES ASSUME ActorAlarmInit PROVE AlarmInv
    OBVIOUS
  <1>1. AlarmCacheInv
    <2>1. CacheShape
      BY AlarmAssumption DEF ActorAlarmInit, CacheShape, NotScheduled, NoAlarmFlush, NotGetting,
         AlarmTimes, NoAlarm
    <2> QED
      BY <2>1 DEF ActorAlarmInit, AlarmCacheInv, ChangeIsFlushed, FlushIsOfCurrent, CacheIsTrue,
         InFlight, IsKnown, IsDeferred, UnknownAlarmTime, NoAlarmFlush, NotGetting
  <1>2. AlarmRunsInv
    <2>2. RunsShape
      BY NewRequestType, AlarmAssumption, SMT DEF ActorAlarmInit, RunsShape
    <2>3. \A r \in Requests : request[r].stage = "new"
      BY DEF ActorAlarmInit, NewRequest
    <2> QED
      BY <2>2, <2>3 DEF ActorAlarmInit, AlarmRunsInv, OneRunsAtATime, JoinedAreServed,
         ScheduledWaits, RequestsAreTimed, Active
  <1>3. HandlerHolds
    BY DEF ActorAlarmInit, HandlerHolds, IsDeferred, UnknownAlarmTime
  <1> QED
    BY <1>1, <1>2, <1>3 DEF AlarmInv

-----------------------------------------------------------------------------
(* What the cache does.                                                    *)

LEMMA SetAlarmCache ==
    ASSUME AlarmCacheInv, NEW t \in AlarmTimes, NEW u \in Unconfirmed, setAlarmTime(t, u)
    PROVE  AlarmCacheInv'
  <1> USE DEF AlarmCacheInv
  <1>0. /\ alarmFlush' = alarmFlush /\ failed' = failed /\ stored' = stored
        /\ getting' = getting /\ hasHandler' = hasHandler /\ outdated' = outdated
    BY DEF setAlarmTime
  <1>1. CASE IsKnown /\ currentAlarmTime.time = t
    <2>1. currentAlarmTime' = currentAlarmTime /\ scheduled' = scheduled
      BY <1>1 DEF setAlarmTime
    <2> QED
      BY <1>0, <2>1, SMT DEF CacheShape, ChangeIsFlushed, FlushIsOfCurrent, CacheIsTrue, InFlight,
         IsKnown, IsDeferred, Deleting
  <1>2. CASE ~(IsKnown /\ currentAlarmTime.time = t)
    <2>1. /\ currentAlarmTime' = KnownAlarmTime("DIRTY", t)
          /\ scheduled' = [flush |-> TRUE, gated |-> scheduled.gated \/ ~u]
      BY <1>2 DEF setAlarmTime, Schedule
    <2>2. u \in BOOLEAN
      BY AlarmAssumption
    <2>3. /\ currentAlarmTime' \in KnownTimes /\ currentAlarmTime'.kind = "known"
          /\ currentAlarmTime'.status = "DIRTY"
      BY <2>1, KnownType
    <2>4. scheduled' \in [flush : BOOLEAN, gated : BOOLEAN] /\ scheduled'.flush
      BY <2>1, <2>2 DEF CacheShape
    <2>5. CacheShape'
      BY <1>0, <2>3, <2>4 DEF CacheShape
    <2> QED
      BY <1>0, <2>3, <2>4, <2>5
      DEF ChangeIsFlushed, FlushIsOfCurrent, CacheIsTrue, InFlight, IsKnown, IsDeferred, Deleting
  <1> QED
    BY <1>1, <1>2

(* The reads.  An alarm that was read is the one stored.                   *)
LEMMA GetAlarmCache == ASSUME AlarmCacheInv, getAlarm PROVE AlarmCacheInv'
  <1> USE DEF AlarmCacheInv
  <1>1. /\ alarmFlush' = alarmFlush /\ failed' = failed /\ stored' = stored
        /\ currentAlarmTime' = currentAlarmTime /\ scheduled' = scheduled
        /\ hasHandler' = hasHandler /\ outdated' = outdated
        /\ currentAlarmTime.kind = "unknown"
    BY DEF getAlarm, countVars, UnknownAlarmTime
  <1>2. getting' \in [phase : {"sent"}, time : AlarmTimes]
    BY DEF getAlarm, CacheShape
  <1> QED
    BY <1>1, <1>2, ZenonT(60) DEF CacheShape, ChangeIsFlushed, FlushIsOfCurrent, CacheIsTrue, InFlight,
       IsKnown, IsDeferred, Deleting

LEMMA StorageReadsCache == ASSUME AlarmCacheInv, StorageReadsAlarm PROVE AlarmCacheInv'
  <1> USE DEF AlarmCacheInv
  <1>1. /\ alarmFlush' = alarmFlush /\ failed' = failed /\ stored' = stored
        /\ currentAlarmTime' = currentAlarmTime /\ scheduled' = scheduled
        /\ hasHandler' = hasHandler /\ outdated' = outdated
    BY DEF StorageReadsAlarm, countVars
  <1>2. /\ getting' \in [phase : {"got"}, time : AlarmTimes] /\ getting'.time = stored
        /\ getting # NotGetting
    BY SMT DEF StorageReadsAlarm, CacheShape, NotGetting
  <1> QED
    BY <1>1, <1>2, SMT DEF CacheShape, ChangeIsFlushed, FlushIsOfCurrent, CacheIsTrue, InFlight,
       IsKnown, IsDeferred, Deleting

LEMMA AnsweredCache == ASSUME AlarmCacheInv, getAlarmAnswered PROVE AlarmCacheInv'
  <1> USE DEF AlarmCacheInv
  <1>1. /\ failed' = failed /\ stored' = stored /\ scheduled' = scheduled
        /\ hasHandler' = hasHandler /\ outdated' = outdated
        /\ getting.phase = "got" /\ getting' = NotGetting /\ getting.time \in AlarmTimes
    BY DEF getAlarmAnswered, countVars, CacheShape
  <1>2. /\ alarmFlush' \in {NoAlarmFlush} \cup AlarmFlushes
        /\ alarmFlush'.phase = alarmFlush.phase
        /\ alarmFlush.phase # "idle" => /\ alarmFlush'.change = alarmFlush.change
                                        /\ alarmFlush'.only = alarmFlush.only
    BY FlushCases DEF getAlarmAnswered, AlarmFlushes
  <1>3. NotGetting \in [phase : {"idle", "sent", "got"}, time : AlarmTimes]
    BY DEF NotGetting, AlarmTimes
  <1>4. CASE currentAlarmTime = UnknownAlarmTime
    <2>1. /\ currentAlarmTime' \in KnownTimes /\ currentAlarmTime'.kind = "known"
          /\ currentAlarmTime'.status = "CLEAN" /\ currentAlarmTime'.time = getting.time
      BY <1>1, <1>4, KnownType, ZenonT(60) DEF getAlarmAnswered
    <2>2. currentAlarmTime.kind = "unknown"
      BY <1>4 DEF UnknownAlarmTime
    <2>3. CacheShape'
      BY <1>1, <1>2, <1>3, <2>1 DEF CacheShape
    <2> QED
      BY <1>1, <1>2, <2>1, <2>2, <2>3
      DEF ChangeIsFlushed, FlushIsOfCurrent, CacheIsTrue, InFlight, IsKnown, IsDeferred,
          Deleting, NotGetting
  <1>5. CASE currentAlarmTime # UnknownAlarmTime
    <2>1. currentAlarmTime' = currentAlarmTime
      BY <1>5 DEF getAlarmAnswered
    <2>2. CacheShape'
      BY <1>1, <1>2, <1>3, <2>1 DEF CacheShape
    <2> QED
      BY <1>1, <1>2, <2>1, <2>2
      DEF ChangeIsFlushed, FlushIsOfCurrent, CacheIsTrue, InFlight, IsKnown, IsDeferred,
          Deleting, NotGetting
  <1> QED
    BY <1>4, <1>5

(* What a flush finds to write.                                            *)
LEMMA ChangeCases ==
    ASSUME CacheShape
    PROVE  \/ /\ AlarmChange = {}
              /\ currentAlarmTime.kind = "unknown" \/ currentAlarmTime.status \in {"CLEAN", "WAITING"}
           \/ /\ IsKnown /\ AlarmChange = {currentAlarmTime.time} /\ ~IsDeferred
              /\ currentAlarmTime \in KnownTimes
           \/ /\ IsDeferred /\ AlarmChange = {NoAlarm} /\ ~IsKnown
              /\ currentAlarmTime \in DeferredDeletes
              /\ currentAlarmTime.status # "WAITING"
  <1>1. CASE currentAlarmTime = UnknownAlarmTime
    BY <1>1 DEF AlarmChange, IsKnown, IsDeferred, UnknownAlarmTime
  <1>2. CASE IsKnown /\ ~IsDeferred /\ currentAlarmTime \in KnownTimes
    BY <1>2 DEF AlarmChange
  <1>3. CASE IsDeferred /\ ~IsKnown /\ currentAlarmTime \in DeferredDeletes
    BY <1>3 DEF AlarmChange
  <1> QED
    BY <1>1, <1>2, <1>3, CurrentCases

(* A flush that starts, or starts over, finds what there is to write.      *)
LEMMA FlushStartsCache ==
    ASSUME AlarmCacheInv, NEW retry \in Nat, NEW gated \in BOOLEAN,
           flushImplAlarm(retry, gated),
           \/ alarmFlush.phase = "idle" /\ ~failed /\ stored' = stored
           \/ alarmFlush.phase = "sent",
           stored' \in AlarmTimes, scheduled' \in [flush : BOOLEAN, gated : BOOLEAN],
           failed' = failed, getting' = getting, hasHandler' = hasHandler,
           outdated' = outdated
    PROVE  AlarmCacheInv'
  <1> USE DEF AlarmCacheInv
  <1>1. /\ alarmFlush' =
              [phase |-> IF AlarmChange = {} THEN "done" ELSE "waiting",
               change |-> AlarmChange, only |-> AlarmTimes,
               retry |-> retry, gated |-> gated, pastRead |-> getting # NotGetting]
        /\ currentAlarmTime' = IF AlarmChange = {} THEN currentAlarmTime
                               ELSE [currentAlarmTime EXCEPT !.status = "FLUSHING"]
    BY DEF flushImplAlarm, flushImplAfter
  <1>2. AlarmChange \subseteq AlarmTimes
    BY ChangeCases, StatusCases DEF AlarmTimes
  <1>3. /\ alarmFlush' \in AlarmFlushes /\ alarmFlush'.change = AlarmChange
        /\ alarmFlush'.only = AlarmTimes
        /\ alarmFlush'.phase = IF AlarmChange = {} THEN "done" ELSE "waiting"
        /\ getting # NotGetting => alarmFlush'.pastRead
    BY <1>1, <1>2 DEF AlarmFlushes
  <1>4. CASE /\ AlarmChange = {}
             /\ currentAlarmTime.kind = "unknown" \/ currentAlarmTime.status \in {"CLEAN", "WAITING"}
    <2>1. currentAlarmTime' = currentAlarmTime /\ alarmFlush'.phase = "done"
      BY <1>1, <1>3, <1>4
    <2>2. CacheShape'
      BY <1>3, <2>1 DEF CacheShape
    <2>3. currentAlarmTime.kind = "unknown" => ~IsKnown /\ ~IsDeferred
      BY DEF IsKnown, IsDeferred
    <2> QED
      BY <1>4, <2>1, <2>2, <2>3, StatusCases
      DEF ChangeIsFlushed, FlushIsOfCurrent, CacheIsTrue, InFlight, IsKnown, IsDeferred, Deleting
  <1>5. CASE /\ IsKnown /\ AlarmChange = {currentAlarmTime.time}
             /\ currentAlarmTime \in KnownTimes
    <2>1. /\ currentAlarmTime' \in KnownTimes /\ currentAlarmTime'.kind = "known"
          /\ currentAlarmTime'.status = "FLUSHING"
          /\ currentAlarmTime'.time = currentAlarmTime.time
          /\ currentAlarmTime.time \in AlarmTimes
      BY <1>1, <1>5 DEF KnownTimes
    <2>2. CacheShape'
      BY <1>3, <2>1 DEF CacheShape
    <2>3. alarmFlush'.phase = "waiting" /\ alarmFlush'.change = {currentAlarmTime.time}
      BY <1>3, <1>5
    <2>4. ChangeIsFlushed' /\ FlushIsOfCurrent'
      BY <1>3, <2>1, <2>3 DEF ChangeIsFlushed, FlushIsOfCurrent, InFlight, IsKnown, IsDeferred,
         Deleting
    <2>5. outdated \/ CacheIsTrue'
      BY <1>3, <2>1, <2>3, SMT DEF CacheIsTrue, InFlight, NotGetting
    <2> QED
      BY <2>2, <2>4, <2>5
  <1>6. CASE /\ IsDeferred /\ AlarmChange = {NoAlarm}
             /\ currentAlarmTime \in DeferredDeletes /\ currentAlarmTime.status # "WAITING"
    <2>1. /\ currentAlarmTime' \in DeferredDeletes /\ currentAlarmTime'.kind = "deferred"
          /\ currentAlarmTime'.status = "FLUSHING"
          /\ currentAlarmTime'.wasDeleted = currentAlarmTime.wasDeleted
      BY <1>1, <1>6 DEF DeferredDeletes
    <2>2. CacheShape'
      BY <1>3, <2>1 DEF CacheShape
    <2>3. alarmFlush'.phase = "waiting" /\ alarmFlush'.change = {NoAlarm}
      BY <1>3, <1>6
    <2>4. currentAlarmTime.wasDeleted = "unset"
      BY <1>6 DEF ChangeIsFlushed, FlushIsOfCurrent, InFlight, Deleting, IsDeferred
    <2>5. ChangeIsFlushed' /\ FlushIsOfCurrent'
      BY <1>3, <2>1, <2>3, <2>4 DEF ChangeIsFlushed, FlushIsOfCurrent, InFlight, IsKnown,
         IsDeferred, Deleting, AlarmTimes
    <2>6. outdated \/ CacheIsTrue'
      BY <1>3, <2>1, <2>3, SMT DEF CacheIsTrue, InFlight, NotGetting
    <2> QED
      BY <2>2, <2>5, <2>6
  <1> QED
    BY <1>4, <1>5, <1>6, ChangeCases

(* What a flush writes is an alarm time.                                   *)
LEMMA WrittenType ==
    ASSUME AlarmCacheInv, alarmFlush.phase = "sent"
    PROVE  /\ Written \in AlarmTimes
           /\ Applies => alarmFlush.change = {Written}
           /\ ~Applies => Written = stored
  <1>1. PICK t \in AlarmTimes : alarmFlush.change = {t}
    BY DEF AlarmCacheInv, FlushIsOfCurrent, InFlight
  <1>2. (CHOOSE x \in alarmFlush.change : TRUE) = t
    BY <1>1
  <1> QED
    BY <1>1, <1>2 DEF Written, AlarmCacheInv, CacheShape

LEMMA StartFlushCache == ASSUME AlarmCacheInv, StartAlarmFlush PROVE AlarmCacheInv'
  <1>1. /\ flushImplAlarm(0, scheduled.gated) /\ alarmFlush.phase = "idle" /\ ~failed
        /\ scheduled' = NotScheduled
        /\ stored' = stored /\ failed' = failed /\ getting' = getting
        /\ hasHandler' = hasHandler /\ outdated' = outdated
    BY DEF StartAlarmFlush, countVars
  <1>2. /\ scheduled.gated \in BOOLEAN /\ stored \in AlarmTimes
        /\ NotScheduled \in [flush : BOOLEAN, gated : BOOLEAN]
    BY DEF AlarmCacheInv, CacheShape, NotScheduled
  <1> QED
    BY <1>1, <1>2, FlushStartsCache

LEMMA DisconnectedCache == ASSUME AlarmCacheInv, AlarmFlushDisconnected PROVE AlarmCacheInv'
  <1>1. /\ flushImplAlarm(alarmFlush.retry + 1, alarmFlush.gated) /\ alarmFlush.phase = "sent"
        /\ stored' \in {stored, Written} /\ scheduled' = scheduled
        /\ failed' = failed /\ getting' = getting
        /\ hasHandler' = hasHandler /\ outdated' = outdated
    BY DEF AlarmFlushDisconnected, countVars
  <1>2. alarmFlush.retry + 1 \in Nat /\ alarmFlush.gated \in BOOLEAN
    BY <1>1, FlushCases, SMT DEF AlarmCacheInv, AlarmFlushes
  <1>3. stored' \in AlarmTimes /\ scheduled' \in [flush : BOOLEAN, gated : BOOLEAN]
    BY <1>1, WrittenType DEF AlarmCacheInv, CacheShape
  <1> QED
    BY <1>1, <1>2, <1>3, FlushStartsCache

LEMMA AlarmOnlyCache == ASSUME AlarmCacheInv, flushImplAlarmOnly PROVE AlarmCacheInv'
  <1> USE DEF AlarmCacheInv
  <1> DEFINE deferred == alarmFlush.change = {NoAlarm} /\ IsDeferred
  <1>1. /\ currentAlarmTime' = currentAlarmTime /\ scheduled' = scheduled
        /\ failed' = failed /\ stored' = stored /\ getting' = getting
        /\ hasHandler' = hasHandler /\ outdated' = outdated
        /\ alarmFlush.phase = "waiting" /\ ~alarmFlush.pastRead
    BY DEF flushImplAlarmOnly, countVars
  <1>2. /\ alarmFlush' \in AlarmFlushes /\ alarmFlush'.change = alarmFlush.change
        /\ alarmFlush'.phase = IF deferred /\ ~Deleting THEN "done" ELSE "sent"
        /\ ~deferred => alarmFlush'.only = alarmFlush.only
    <2>1. alarmFlush \in AlarmFlushes
      BY <1>1, FlushCases
    <2>2. deferred => {currentAlarmTime.time} \subseteq AlarmTimes
      BY StatusCases
    <2> QED
      BY <2>1, <2>2 DEF flushImplAlarmOnly, AlarmFlushes
  <1>3. CacheShape'
    BY <1>1, <1>2 DEF CacheShape
  <1>4. ChangeIsFlushed'
    BY <1>1, <1>2 DEF ChangeIsFlushed
  <1>5. FlushIsOfCurrent'
    BY <1>1, <1>2, CurrentCases DEF FlushIsOfCurrent, InFlight, IsKnown, IsDeferred, Deleting
  <1>6. outdated \/ CacheIsTrue'
    BY <1>1, <1>2 DEF CacheIsTrue, InFlight
  <1> QED
    BY <1>1, <1>3, <1>4, <1>5, <1>6

(* Storage makes the write, and its answer says whether it deleted.        *)
LEMMA StorageWritesCache == ASSUME AlarmCacheInv, StorageWritesAlarm PROVE AlarmCacheInv'
  <1> USE DEF AlarmCacheInv
  <1>1. /\ scheduled' = scheduled /\ failed' = failed /\ getting' = getting
        /\ hasHandler' = hasHandler /\ outdated' = outdated
        /\ alarmFlush.phase = "sent" /\ stored' = Written
    BY DEF StorageWritesAlarm, countVars
  <1>2. alarmFlush' \in AlarmFlushes /\ alarmFlush'.phase = "done"
    BY <1>1, FlushCases DEF StorageWritesAlarm, AlarmFlushes
  <1>3. stored' \in AlarmTimes
    BY <1>1, WrittenType
  <1>4. CASE Deleting
    <2>1. /\ currentAlarmTime' = [currentAlarmTime EXCEPT !.wasDeleted =
                                     IF Applies THEN "yes" ELSE "no"]
          /\ currentAlarmTime \in DeferredDeletes /\ IsDeferred
      BY <1>4, CurrentCases DEF StorageWritesAlarm, SetWasDeleted, Deleting
    <2>2. /\ currentAlarmTime' \in DeferredDeletes /\ currentAlarmTime'.kind = "deferred"
          /\ currentAlarmTime'.status = "FLUSHING"
          /\ currentAlarmTime'.wasDeleted = IF Applies THEN "yes" ELSE "no"
      BY <1>4, <2>1 DEF DeferredDeletes, Deleting
    <2>3. Applies => stored' = NoAlarm
      BY <1>1, <1>4, <2>1, WrittenType DEF FlushIsOfCurrent, InFlight
    <2>4. CacheShape'
      BY <1>1, <1>2, <1>3, <2>2 DEF CacheShape
    <2>5. ChangeIsFlushed' /\ FlushIsOfCurrent'
      BY <1>2, <2>2, <2>3 DEF ChangeIsFlushed, FlushIsOfCurrent, InFlight, IsKnown, IsDeferred,
         Deleting
    <2>6. outdated \/ CacheIsTrue'
      BY <1>1, <1>2, <2>2, SMT DEF CacheIsTrue, InFlight, NotGetting
    <2> QED
      BY <1>1, <2>4, <2>5, <2>6
  <1>5. CASE ~Deleting
    <2>1. currentAlarmTime' = currentAlarmTime
      BY <1>5 DEF StorageWritesAlarm, SetWasDeleted
    <2>2. IsKnown /\ currentAlarmTime.status = "FLUSHING" => stored' = currentAlarmTime.time
      BY <1>1, WrittenType DEF FlushIsOfCurrent, InFlight, Applies, CacheShape
    <2>3. CacheShape'
      BY <1>1, <1>2, <1>3, <2>1 DEF CacheShape
    <2>4. ChangeIsFlushed'
      BY <1>1, <1>2, <2>1 DEF ChangeIsFlushed
    <2>5. FlushIsOfCurrent'
      BY <1>1, <1>2, <1>5, <2>1, <2>2
      DEF FlushIsOfCurrent, InFlight, IsKnown, IsDeferred, Deleting
    <2>6. outdated \/ CacheIsTrue'
      BY <1>1, <1>2, <2>1, SMT DEF CacheIsTrue, InFlight, NotGetting
    <2> QED
      BY <1>1, <2>3, <2>4, <2>5, <2>6
  <1> QED
    BY <1>4, <1>5

(* A flush ends.                                                           *)
LEMMA FlushSucceedsCache == ASSUME AlarmCacheInv, AlarmFlushSucceeds PROVE AlarmCacheInv'
  <1> USE DEF AlarmCacheInv
  <1>1. /\ scheduled' = scheduled /\ failed' = failed /\ getting' = getting
        /\ hasHandler' = hasHandler /\ outdated' = outdated /\ stored' = stored
        /\ alarmFlush.phase = "done" /\ alarmFlush' = NoAlarmFlush
        /\ alarmFlush'.phase = "idle"
    BY DEF AlarmFlushSucceeds, countVars, NoAlarmFlush
  <1>2. \/ currentAlarmTime' = UnknownAlarmTime
        \/ \E t \in AlarmTimes : currentAlarmTime' = KnownAlarmTime("CLEAN", t) /\ t = stored
        \/ /\ currentAlarmTime' = currentAlarmTime
           /\ ~Deleting /\ ~(IsKnown /\ currentAlarmTime.status = "FLUSHING")
    <2>1. CASE IsKnown /\ currentAlarmTime.status = "FLUSHING"
      BY <1>1, <2>1, CurrentCases, StatusCases
      DEF AlarmFlushSucceeds, FlushIsOfCurrent, Deleting
    <2>2. CASE Deleting
      <3>1. ~IsKnown /\ IsDeferred
        BY <2>2, CurrentCases DEF Deleting
      <3>2. CASE currentAlarmTime.wasDeleted = "yes"
        BY <1>1, <2>2, <3>1, <3>2 DEF AlarmFlushSucceeds, FlushIsOfCurrent, CacheShape
      <3>3. CASE currentAlarmTime.wasDeleted # "yes"
        BY <1>1, <2>2, <3>1, <3>3 DEF AlarmFlushSucceeds
      <3> QED
        BY <3>2, <3>3
    <2>3. CASE ~Deleting /\ ~(IsKnown /\ currentAlarmTime.status = "FLUSHING")
      BY <2>3 DEF AlarmFlushSucceeds
    <2> QED
      BY <2>1, <2>2, <2>3
  <1>3. CASE currentAlarmTime' = UnknownAlarmTime
    <2>1. currentAlarmTime'.kind = "unknown"
      BY <1>3 DEF UnknownAlarmTime
    <2> QED
      BY <1>1, <1>3, <2>1 DEF CacheShape, ChangeIsFlushed, FlushIsOfCurrent, CacheIsTrue,
         InFlight, IsKnown, IsDeferred, Deleting
  <1>4. CASE \E t \in AlarmTimes : currentAlarmTime' = KnownAlarmTime("CLEAN", t) /\ t = stored
    <2>1. /\ currentAlarmTime' \in KnownTimes /\ currentAlarmTime'.kind = "known"
          /\ currentAlarmTime'.status = "CLEAN" /\ currentAlarmTime'.time = stored
      BY <1>4, KnownType, SMT
    <2> QED
      BY <1>1, <2>1 DEF CacheShape, ChangeIsFlushed, FlushIsOfCurrent, CacheIsTrue,
         InFlight, IsKnown, IsDeferred, Deleting
  <1>5. CASE /\ currentAlarmTime' = currentAlarmTime
             /\ ~Deleting /\ ~(IsKnown /\ currentAlarmTime.status = "FLUSHING")
    <2>1. CacheShape'
      BY <1>1, <1>5 DEF CacheShape
    <2>2. ChangeIsFlushed'
      BY <1>1, <1>5, CurrentCases, SMT DEF ChangeIsFlushed, Deleting, UnknownAlarmTime
    <2>3. FlushIsOfCurrent'
      BY <1>1, <1>5 DEF FlushIsOfCurrent, InFlight, IsKnown, IsDeferred, Deleting
    <2>4. outdated \/ CacheIsTrue'
      BY <1>1, <1>5 DEF CacheIsTrue, InFlight
    <2> QED
      BY <1>1, <2>1, <2>2, <2>3, <2>4
  <1> QED
    BY <1>2, <1>3, <1>4, <1>5

LEMMA FlushBreaksCache == ASSUME AlarmCacheInv, AlarmFlushBreaks PROVE AlarmCacheInv'
  <1> USE DEF AlarmCacheInv
  <1>1. /\ currentAlarmTime' = currentAlarmTime /\ getting' = getting
        /\ hasHandler' = hasHandler /\ outdated' = outdated /\ failed' = TRUE
        /\ alarmFlush.phase = "sent" /\ alarmFlush' = NoAlarmFlush
        /\ alarmFlush'.phase = "idle" /\ scheduled' = NotScheduled
        /\ stored' \in {stored, Written}
    BY DEF AlarmFlushBreaks, countVars, NoAlarmFlush
  <1>2. stored' \in AlarmTimes /\ NotScheduled \in [flush : BOOLEAN, gated : BOOLEAN]
    BY <1>1, WrittenType DEF CacheShape, NotScheduled
  <1>3. CacheShape' /\ ChangeIsFlushed'
    BY <1>1, <1>2 DEF CacheShape, ChangeIsFlushed
  <1>4. FlushIsOfCurrent'
    BY <1>1 DEF FlushIsOfCurrent, InFlight, IsKnown, IsDeferred, Deleting
  <1>5. outdated \/ CacheIsTrue'
    BY <1>1, SMT DEF CacheIsTrue, InFlight, NotGetting
  <1> QED
    BY <1>1, <1>3, <1>4, <1>5

-----------------------------------------------------------------------------
(* What running an alarm does to the cache.                                *)

LEMMA SameCache ==
    ASSUME AlarmCacheInv, currentAlarmTime' = currentAlarmTime, scheduled' = scheduled,
           alarmFlush' = alarmFlush, failed' = failed, stored' = stored,
           getting' = getting, hasHandler' = hasHandler, outdated' = outdated
    PROVE  AlarmCacheInv'
  BY SMT DEF AlarmCacheInv, CacheShape, ChangeIsFlushed, FlushIsOfCurrent, CacheIsTrue, InFlight,
     IsKnown, IsDeferred, Deleting

(* A deletion that is made ready has a flush scheduled.                    *)
LEMMA ReadyCache ==
    ASSUME AlarmCacheInv, NEW t \in Alarms,
           currentAlarmTime' = DeferredAlarmDelete("READY", t, "unset"), Schedule(FALSE),
           alarmFlush' = alarmFlush, failed' = failed, stored' = stored,
           getting' = getting, hasHandler' = hasHandler, outdated' = outdated
    PROVE  AlarmCacheInv'
  <1> USE DEF AlarmCacheInv
  <1>1. /\ currentAlarmTime' \in DeferredDeletes /\ currentAlarmTime'.kind = "deferred"
        /\ currentAlarmTime'.status = "READY" /\ currentAlarmTime'.wasDeleted = "unset"
    BY DeferredType
  <1>2. scheduled' \in [flush : BOOLEAN, gated : BOOLEAN] /\ scheduled'.flush
    BY DEF Schedule, CacheShape
  <1>3. CacheShape'
    BY <1>1, <1>2 DEF CacheShape
  <1> QED
    BY <1>1, <1>2, <1>3
    DEF ChangeIsFlushed, FlushIsOfCurrent, CacheIsTrue, InFlight, IsKnown, IsDeferred, Deleting

(* An alarm is armed.  If it was up to date and no change was pending, it  *)
(* is the one stored and no write is under way.                            *)
LEMMA ArmCache ==
    ASSUME AlarmCacheInv, NEW r \in Requests, request[r].time \in Alarms, armAlarmHandler(r),
           alarmFlush' = alarmFlush, failed' = failed, stored' = stored,
           getting' = getting, hasHandler' = hasHandler
    PROVE  AlarmCacheInv'
  <1> USE DEF AlarmCacheInv
  <1>1. /\ scheduled' = scheduled /\ ~failed /\ ~IsDeferred
        /\ outdated' = (\/ outdated
                        \/ ~Superseded(r) /\ (Pending \/ ~UpToDate(r)))
    BY DEF armAlarmHandler
  <1>2. CASE Superseded(r)
    <2>1. currentAlarmTime' = currentAlarmTime
      BY <1>2 DEF armAlarmHandler
    <2>2. outdated' = outdated
      BY <1>1, <1>2 DEF CacheShape
    <2> QED
      BY <1>1, <2>1, <2>2, SameCache
  <1>3. CASE ~Superseded(r)
    <2> DEFINE t == request[r].time
    <2>1. /\ currentAlarmTime' \in DeferredDeletes /\ currentAlarmTime'.kind = "deferred"
          /\ currentAlarmTime'.status = "WAITING" /\ currentAlarmTime'.time = t
          /\ currentAlarmTime'.wasDeleted = "unset"
      <3>1. currentAlarmTime' = DeferredAlarmDelete("WAITING", t, "unset")
        BY <1>3 DEF armAlarmHandler
      <3> QED
        BY <3>1, DeferredType, SMT
    <2>2. outdated' \in BOOLEAN /\ (~outdated' => ~outdated /\ ~Pending /\ stored = t)
      BY <1>1, <1>3 DEF CacheShape, Pending, UpToDate, IsKnown
    <2>3. CacheShape'
      BY <1>1, <2>1, <2>2 DEF CacheShape
    <2>4. ChangeIsFlushed' /\ FlushIsOfCurrent'
      BY <1>1, <2>1 DEF ChangeIsFlushed, FlushIsOfCurrent, InFlight, IsKnown, IsDeferred,
         Deleting
    <2>5. ASSUME ~outdated' PROVE CacheIsTrue'
      <3>1. ~InFlight
        BY <1>1, <2>2, <2>5, CurrentCases, SMT DEF CacheIsTrue, Pending, UnknownAlarmTime
      <3> QED
        BY <2>1, <2>2, <2>5, <3>1 DEF CacheIsTrue, InFlight
    <2> QED
      BY <2>3, <2>4, <2>5
  <1> QED
    BY <1>2, <1>3

(* The deleter of a handler that has ended goes away.                      *)
LEMMA DisposeCache ==
    ASSUME AlarmCacheInv, HandlerHolds, NEW r \in Requests, request[r].stage = "handler",
           DisposeDeleter,
           alarmFlush' = alarmFlush, failed' = failed, stored' = stored,
           getting' = getting, hasHandler' = hasHandler, outdated' = outdated
    PROVE  AlarmCacheInv'
  <1>1. CASE IsDeferred
    <2>1. /\ currentAlarmTime \in DeferredDeletes /\ currentAlarmTime.status = "WAITING"
          /\ currentAlarmTime.wasDeleted = "unset" /\ currentAlarmTime.time \in Alarms
      BY <1>1, CurrentCases DEF HandlerHolds, AlarmCacheInv, FlushIsOfCurrent, Deleting,
         DeferredDeletes
    <2>2. currentAlarmTime' = DeferredAlarmDelete("READY", currentAlarmTime.time, "unset")
      BY <1>1, <2>1 DEF DisposeDeleter, DeferredAlarmDelete, DeferredDeletes
    <2>3. Schedule(FALSE)
      BY <1>1 DEF DisposeDeleter
    <2> QED
      BY <2>1, <2>2, <2>3, ReadyCache
  <1>2. CASE ~IsDeferred
    BY <1>2, SameCache DEF DisposeDeleter
  <1> QED
    BY <1>1, <1>2

(* A handler that fails leaves its alarm in storage.                       *)
LEMMA FailsCache ==
    ASSUME AlarmCacheInv, HandlerHolds, NEW r \in Requests, request[r].stage = "handler",
           HandlerFails(r),
           alarmFlush' = alarmFlush, failed' = failed, stored' = stored,
           getting' = getting, hasHandler' = hasHandler, outdated' = outdated
    PROVE  AlarmCacheInv'
  <1> USE DEF AlarmCacheInv
  <1>0. scheduled' = scheduled
    BY DEF HandlerFails
  <1>1. CASE IsDeferred
    <2>1. /\ currentAlarmTime.status = "WAITING" /\ currentAlarmTime.time \in AlarmTimes
          /\ currentAlarmTime.kind # "unknown"
      BY <1>1, StatusCases DEF HandlerHolds, IsDeferred
    <2>2. currentAlarmTime' = KnownAlarmTime("CLEAN", currentAlarmTime.time)
      BY <1>1 DEF HandlerFails
    <2>3. /\ currentAlarmTime' \in KnownTimes /\ currentAlarmTime'.kind = "known"
          /\ currentAlarmTime'.status = "CLEAN" /\ currentAlarmTime'.time = currentAlarmTime.time
      BY <2>1, <2>2, KnownType, SMT
    <2>4. CacheShape'
      BY <1>0, <2>3 DEF CacheShape
    <2> QED
      BY <1>0, <2>1, <2>3, <2>4
      DEF ChangeIsFlushed, FlushIsOfCurrent, CacheIsTrue, InFlight, IsKnown, IsDeferred, Deleting
  <1>2. CASE ~IsDeferred
    BY <1>0, <1>2, SameCache DEF HandlerFails
  <1> QED
    BY <1>1, <1>2

-----------------------------------------------------------------------------
(* The requests.                                                           *)

Results == {"none", "OK", "RETRY", "CANCELED", "FAILED", "SCRIPT_NOT_FOUND"}

(* The requests that a result is for, and what they become.                *)
IsFor(q, r) ==
    \/ q = r /\ request[q].stage # "dropped"
    \/ request[q].stage = "joined" /\ request[q].on = r

LEMMA SettledRequests ==
    ASSUME request \in [Requests -> AlarmRequests], NEW r, NEW result \in Results
    PROVE  /\ Settled(request, r, result) \in [Requests -> AlarmRequests]
           /\ \A q \in Requests : IsFor(q, r) =>
                 /\ Settled(request, r, result)[q].stage = "answered"
                 /\ Settled(request, r, result)[q].result = result
           /\ \A q \in Requests : ~IsFor(q, r) =>
                 Settled(request, r, result)[q] = request[q]
  <1> DEFINE a == [NewRequest EXCEPT !.stage = "answered", !.result = result]
  <1>1. a \in AlarmRequests /\ a.stage = "answered" /\ a.result = result
    <2>1. NewRequest \in AlarmRequests
      BY NewRequestType
    <2> QED
      BY <2>1 DEF AlarmRequests, Stages, Ended, Results
  <1> HIDE DEF a
  <1>2. Settled(request, r, result) = [q \in Requests |-> IF IsFor(q, r) THEN a ELSE request[q]]
    BY DEF Settled, IsFor, a
  <1> QED
    BY <1>1, <1>2

(* Only the running alarm's request is active.                             *)
LEMMA RunningIsActive ==
    ASSUME AlarmRunsInv
    PROVE  /\ maybeRunningAlarm # NoRequest => request[maybeRunningAlarm].stage \in Active
           /\ \A q \in Requests : request[q].stage \in Active => q = maybeRunningAlarm
           /\ \A q \in Requests : request[q] \in AlarmRequests
  <1>1. \A q \in Requests : request[q].stage \in Active <=> q \in {maybeRunningAlarm} \ {NoRequest}
    BY NoRequestIsNone DEF AlarmRunsInv, OneRunsAtATime
  <1> QED
    BY <1>1 DEF AlarmRunsInv, RunsShape

(* The converse, to show that it stays so.                                 *)
LEMMA OneActive ==
    ASSUME NEW req, NEW m \in Requests \cup {NoRequest},
           \A q \in Requests : req[q].stage \in Active <=> q = m
    PROVE  {q \in Requests : req[q].stage \in Active} = {m} \ {NoRequest}
  BY NoRequestIsNone

(* Requests that stay where they are, or go from one active stage to the   *)
(* next.                                                                   *)
LEMMA KeepRuns ==
    ASSUME AlarmRunsInv, request' \in [Requests -> AlarmRequests], events' \in 0..MaxEvents,
           maybeScheduledAlarm' = maybeScheduledAlarm, maybeRunningAlarm' = maybeRunningAlarm,
           \A q \in Requests :
              /\ request'[q].time = request[q].time /\ request'[q].on = request[q].on
              /\ \/ request'[q].stage = request[q].stage
                 \/ request'[q].stage \in Active /\ request[q].stage \in Active
    PROVE  AlarmRunsInv'
  <1> USE DEF AlarmRunsInv
  <1>0. RunsShape'
    BY DEF RunsShape
  <1>1. OneRunsAtATime'
    <2>1. \A q \in Requests : request'[q].stage \in Active <=> request[q].stage \in Active
      OBVIOUS
    <2>2. {q \in Requests : request'[q].stage \in Active}
             = {q \in Requests : request[q].stage \in Active}
      BY <2>1
    <2> QED
      BY <2>2 DEF OneRunsAtATime
  <1>2. \A q \in Requests : request'[q].stage = "joined" <=> request[q].stage = "joined"
    BY DEF Active
  <1>3. JoinedAreServed'
    <2> SUFFICES ASSUME NEW q \in Requests, request'[q].stage = "joined"
                 PROVE  /\ request'[q].on \in {maybeRunningAlarm, maybeScheduledAlarm}
                        /\ request'[request'[q].on].time = request'[q].time
      BY DEF JoinedAreServed
    <2>1. /\ request[q].on \in {maybeRunningAlarm, maybeScheduledAlarm}
          /\ request[request[q].on].time = request[q].time
          /\ request[q].on \in Requests
      BY <1>2 DEF JoinedAreServed, RequestsAreTimed, RunsShape
    <2> QED
      BY <2>1
  <1>4. ScheduledWaits'
    <2> SUFFICES ASSUME maybeScheduledAlarm # NoRequest
                 PROVE  request'[maybeScheduledAlarm].stage \in {"scheduled", "dropped"}
      BY DEF ScheduledWaits
    <2>1. /\ maybeScheduledAlarm \in Requests
          /\ request[maybeScheduledAlarm].stage \in {"scheduled", "dropped"}
      BY DEF ScheduledWaits, RunsShape
    <2> QED
      BY <2>1 DEF Active
  <1>5. RequestsAreTimed'
    BY <1>2 DEF RequestsAreTimed, Active
  <1> QED
    BY <1>0, <1>1, <1>3, <1>4, <1>5

(* The running alarm has a result: its own request and those that joined   *)
(* it are answered, and none is running.                                   *)
LEMMA AnswerRuns ==
    ASSUME AlarmRunsInv, NEW r \in Requests, request[r].stage \in Active,
           NEW result \in Results, Answer(r, result),
           maybeScheduledAlarm' = maybeScheduledAlarm, events' = events
    PROVE  /\ AlarmRunsInv'
           /\ \A q \in Requests : request'[q].stage \notin Active
  <1> USE DEF AlarmRunsInv
  <1>1. /\ request' = Settled(request, r, result) /\ maybeRunningAlarm' = NoRequest
        /\ request \in [Requests -> AlarmRequests]
    BY DEF Answer, RunsShape
  <1>2. /\ request' \in [Requests -> AlarmRequests]
        /\ \A q \in Requests : IsFor(q, r) => request'[q].stage = "answered"
        /\ \A q \in Requests : ~IsFor(q, r) => request'[q] = request[q]
    BY <1>1, SettledRequests, SMT
  <1>3. r = maybeRunningAlarm /\ IsFor(r, r)
    BY RunningIsActive DEF IsFor, Active
  <1>4. \A q \in Requests : request'[q].stage \notin Active
    BY <1>2, <1>3, RunningIsActive DEF Active
  <1>5. OneRunsAtATime'
    BY <1>1, <1>4, NoRequestIsNone DEF OneRunsAtATime
  <1>6. maybeScheduledAlarm # NoRequest =>
           /\ maybeScheduledAlarm \in Requests
           /\ request[maybeScheduledAlarm].stage \in {"scheduled", "dropped"}
           /\ ~IsFor(maybeScheduledAlarm, r)
    BY DEF ScheduledWaits, RunsShape, IsFor, Active
  <1>7. JoinedAreServed'
    <2> SUFFICES ASSUME NEW q \in Requests, request'[q].stage = "joined"
                 PROVE  /\ request'[q].on \in {maybeRunningAlarm', maybeScheduledAlarm'}
                        /\ request'[request'[q].on].time = request'[q].time
      BY DEF JoinedAreServed
    <2>1. ~IsFor(q, r) /\ request'[q] = request[q]
      BY <1>2
    <2>2. request[q].on = maybeScheduledAlarm /\ request[q].on # NoRequest
      BY <1>3, <2>1 DEF IsFor, JoinedAreServed, RequestsAreTimed
    <2>3. request'[maybeScheduledAlarm] = request[maybeScheduledAlarm]
      BY <1>2, <1>6, <2>2
    <2> QED
      BY <2>1, <2>2, <2>3, ZenonT(60) DEF JoinedAreServed
  <1>8. RunsShape' /\ ScheduledWaits' /\ RequestsAreTimed'
    BY <1>1, <1>2, <1>6 DEF RunsShape, ScheduledWaits, RequestsAreTimed
  <1> QED
    BY <1>4, <1>5, <1>7, <1>8

(* A request arrives at the alarm manager's or at the actor.               *)
LEMMA PullRuns ==
    ASSUME AlarmRunsInv, NEW r \in Requests, Pull(r), stored \in AlarmTimes
    PROVE  AlarmRunsInv' /\ \A q \in Requests : request'[q].stage = "handler" =>
                                                   request[q].stage = "handler"
  <1> USE DEF AlarmRunsInv
  <1>1. /\ request' = [request EXCEPT ![r].stage = "pulled", ![r].time = stored]
        /\ maybeScheduledAlarm' = maybeScheduledAlarm /\ maybeRunningAlarm' = maybeRunningAlarm
        /\ events' = events /\ stored # NoAlarm /\ request[r].stage = "new"
    BY SMT DEF Pull, countVars, Requests
  <1>2. /\ request' \in [Requests -> AlarmRequests]
        /\ request'[r].stage = "pulled" /\ request'[r].time = stored
        /\ \A q \in Requests : q # r => request'[q] = request[q]
    <2> DEFINE p == [request[r] EXCEPT !.stage = "pulled", !.time = stored]
    <2>1. request[r] \in AlarmRequests /\ stored \in AlarmTimes
      BY DEF RunsShape
    <2>s. "pulled" \in Stages
      BY DEF Stages
    <2>2. p \in AlarmRequests /\ p.stage = "pulled" /\ p.time = stored
      BY <2>1, <2>s DEF AlarmRequests
    <2>3. request' = [request EXCEPT ![r] = p]
      BY <1>1
    <2> HIDE DEF p
    <2> QED
      BY <2>2, <2>3 DEF RunsShape
  <1>3. \A q \in Requests : request'[q].stage \in Active <=> request[q].stage \in Active
    BY <1>1, <1>2 DEF Active
  <1>4. OneRunsAtATime'
    <2>1. {q \in Requests : request'[q].stage \in Active}
             = {q \in Requests : request[q].stage \in Active}
      BY <1>3
    <2> QED
      BY <1>1, <2>1 DEF OneRunsAtATime
  <1>5. /\ maybeScheduledAlarm # NoRequest => maybeScheduledAlarm \in Requests \ {r}
        /\ maybeRunningAlarm # NoRequest => maybeRunningAlarm \in Requests \ {r}
    BY <1>1, RunningIsActive DEF ScheduledWaits, RunsShape, Active
  <1>6. JoinedAreServed'
    BY <1>1, <1>2, <1>5, SMT DEF JoinedAreServed, RequestsAreTimed
  <1>7. RunsShape' /\ ScheduledWaits' /\ RequestsAreTimed'
    BY <1>1, <1>2, <1>5 DEF RunsShape, ScheduledWaits, RequestsAreTimed
  <1> QED
    BY <1>2, <1>4, <1>6, <1>7

LEMMA JoinRuns ==
    ASSUME AlarmRunsInv, NEW r \in Requests, runAlarm(r), SameAlarm(r) # {}
    PROVE  AlarmRunsInv' /\ \A q \in Requests : request'[q].stage = "handler" =>
                                                   request[q].stage = "handler"
  <1> USE DEF AlarmRunsInv
  <1> DEFINE on == IF maybeRunningAlarm \in SameAlarm(r)
                   THEN maybeRunningAlarm ELSE maybeScheduledAlarm
  <1>1. /\ request' = [request EXCEPT ![r].stage = "joined", ![r].on = on]
        /\ maybeScheduledAlarm' = maybeScheduledAlarm /\ maybeRunningAlarm' = maybeRunningAlarm
        /\ events' = events /\ request[r].stage = "pulled"
    BY DEF runAlarm, countVars
  <1>2. on \in SameAlarm(r) /\ on \in Requests /\ request[on].time = request[r].time
        /\ on \in {maybeRunningAlarm, maybeScheduledAlarm}
    BY DEF SameAlarm, RunsShape
  <1> HIDE DEF on
  <1>3. /\ request' \in [Requests -> AlarmRequests]
        /\ request'[r].stage = "joined" /\ request'[r].on = on
        /\ request'[r].time = request[r].time
        /\ \A q \in Requests : q # r => request'[q] = request[q]
    <2> DEFINE j == [request[r] EXCEPT !.stage = "joined", !.on = on]
    <2>1. request[r] \in AlarmRequests
      BY DEF RunsShape
    <2>s. "joined" \in Stages
      BY DEF Stages
    <2>2. j \in AlarmRequests /\ j.stage = "joined" /\ j.on = on /\ j.time = request[r].time
      BY <1>2, <2>1, <2>s DEF AlarmRequests
    <2>3. request' = [request EXCEPT ![r] = j]
      BY <1>1
    <2> HIDE DEF j
    <2> QED
      BY <2>2, <2>3 DEF RunsShape
  <1>4. OneRunsAtATime'
    <2>1. \A q \in Requests : request'[q].stage \in Active <=> request[q].stage \in Active
      BY <1>1, <1>3 DEF Active
    <2>2. {q \in Requests : request'[q].stage \in Active}
             = {q \in Requests : request[q].stage \in Active}
      BY <2>1
    <2> QED
      BY <1>1, <2>2 DEF OneRunsAtATime
  <1>5. /\ maybeScheduledAlarm # NoRequest => maybeScheduledAlarm \in Requests \ {r}
        /\ maybeRunningAlarm # NoRequest => maybeRunningAlarm \in Requests \ {r}
    BY <1>1, RunningIsActive DEF ScheduledWaits, RunsShape, Active
  <1>6. \A q \in Requests : request'[q].time = request[q].time
    BY <1>3
  <1>7. JoinedAreServed'
    <2> SUFFICES ASSUME NEW q \in Requests, request'[q].stage = "joined"
                 PROVE  /\ request'[q].on \in {maybeRunningAlarm, maybeScheduledAlarm}
                        /\ request'[request'[q].on].time = request'[q].time
      BY <1>1 DEF JoinedAreServed
    <2>1. CASE q = r
      BY <1>2, <1>3, <1>6, <2>1
    <2>2. CASE q # r
      BY <1>3, <1>6, <2>2, SMT DEF JoinedAreServed, RequestsAreTimed, RunsShape
    <2> QED
      BY <2>1, <2>2
  <1>8. RunsShape' /\ ScheduledWaits'
    BY <1>1, <1>3, <1>5 DEF RunsShape, ScheduledWaits
  <1>9. RequestsAreTimed'
    BY <1>1, <1>2, <1>3, NoRequestIsNone DEF RequestsAreTimed
  <1> QED
    BY <1>3, <1>4, <1>7, <1>8, <1>9

(* A request that takes the place of the scheduled one.                    *)
LEMMA ScheduleRuns ==
    ASSUME AlarmRunsInv, NEW r \in Requests, runAlarm(r), SameAlarm(r) = {}
    PROVE  AlarmRunsInv' /\ \A q \in Requests : request'[q].stage = "handler" =>
                                                   request[q].stage = "handler"
  <1> USE DEF AlarmRunsInv
  <1> DEFINE s == maybeScheduledAlarm
             req == Settled(request, s, "CANCELED")
  <1>1. /\ request' = [req EXCEPT ![r].stage = "scheduled"]
        /\ maybeScheduledAlarm' = r /\ maybeRunningAlarm' = maybeRunningAlarm
        /\ events' = events /\ request[r].stage = "pulled"
    BY DEF runAlarm, countVars
  <1>2. /\ req \in [Requests -> AlarmRequests]
        /\ \A q \in Requests : IsFor(q, s) => req[q].stage = "answered"
        /\ \A q \in Requests : ~IsFor(q, s) => req[q] = request[q]
    BY SettledRequests, SMT DEF RunsShape, Results
  <1>3. s # r /\ ~IsFor(r, s)
    BY <1>1, NoRequestIsNone DEF ScheduledWaits, IsFor
  <1> HIDE DEF req
  <1>4. /\ request' \in [Requests -> AlarmRequests]
        /\ request'[r].stage = "scheduled" /\ request'[r].time = request[r].time
        /\ \A q \in Requests : q # r => request'[q] = req[q]
    BY <1>1, <1>2, <1>3, SMT DEF AlarmRequests, Stages
  <1>5. \A q \in Requests : request'[q].stage \in Active <=> request[q].stage \in Active
    <2> SUFFICES ASSUME NEW q \in Requests
                 PROVE  request'[q].stage \in Active <=> request[q].stage \in Active
      OBVIOUS
    <2>1. CASE q = r
      BY <1>1, <1>4, <2>1 DEF Active
    <2>2. CASE q # r /\ IsFor(q, s)
      BY <1>2, <1>4, <2>2, NoRequestIsNone DEF Active, IsFor, ScheduledWaits
    <2>3. CASE q # r /\ ~IsFor(q, s)
      BY <1>2, <1>4, <2>3
    <2> QED
      BY <2>1, <2>2, <2>3
  <1>6. OneRunsAtATime'
    <2>1. {q \in Requests : request'[q].stage \in Active}
             = {q \in Requests : request[q].stage \in Active}
      BY <1>5
    <2> QED
      BY <1>1, <2>1 DEF OneRunsAtATime
  <1>7. maybeRunningAlarm # NoRequest => /\ maybeRunningAlarm \in Requests
                                         /\ request'[maybeRunningAlarm] = request[maybeRunningAlarm]
    <2> SUFFICES ASSUME maybeRunningAlarm # NoRequest
                 PROVE  /\ maybeRunningAlarm \in Requests
                        /\ request'[maybeRunningAlarm] = request[maybeRunningAlarm]
      OBVIOUS
    <2>1. maybeRunningAlarm \in Requests /\ request[maybeRunningAlarm].stage \in Active
      BY RunningIsActive DEF RunsShape
    <2>2. maybeRunningAlarm # r /\ ~IsFor(maybeRunningAlarm, s)
      BY <1>1, <2>1 DEF Active, IsFor, ScheduledWaits
    <2> QED
      BY <1>2, <1>4, <2>1, <2>2
  <1>8. JoinedAreServed' /\ RequestsAreTimed'
    <2> SUFFICES ASSUME NEW q \in Requests
                 PROVE  /\ request'[q].stage = "joined" =>
                              /\ request'[q].on = maybeRunningAlarm
                              /\ request'[request'[q].on].time = request'[q].time
                              /\ request'[q].on # NoRequest
                        /\ request'[q].stage \notin {"new", "answered"} =>
                              request'[q].time # NoAlarm
      BY <1>1 DEF JoinedAreServed, RequestsAreTimed
    <2>1. CASE q = r
      BY <1>1, <1>4, <2>1 DEF RequestsAreTimed
    <2>2. CASE q # r /\ IsFor(q, s)
      BY <1>2, <1>4, <2>2
    <2>3. CASE q # r /\ ~IsFor(q, s)
      <3>1. request'[q] = request[q]
        BY <1>2, <1>4, <2>3
      <3> QED
        BY <1>7, <2>3, <3>1 DEF IsFor, JoinedAreServed, RequestsAreTimed
    <2> QED
      BY <2>1, <2>2, <2>3
  <1>9. RunsShape' /\ ScheduledWaits'
    BY <1>1, <1>4 DEF RunsShape, ScheduledWaits
  <1>10. \A q \in Requests : request'[q].stage = "handler" => request[q].stage = "handler"
    BY <1>2, <1>4
  <1> QED
    BY <1>6, <1>8, <1>9, <1>10

LEMMA HandleAlarmRuns ==
    ASSUME AlarmRunsInv, NEW r \in Requests, handleAlarm(r)
    PROVE  AlarmRunsInv' /\ \A q \in Requests : request'[q].stage # "handler"
  <1> USE DEF AlarmRunsInv
  <1>1. /\ request' = [request EXCEPT ![r].stage = "starting"]
        /\ maybeScheduledAlarm' = NoRequest /\ maybeRunningAlarm' = r
        /\ maybeScheduledAlarm = r /\ maybeRunningAlarm = NoRequest
        /\ events' = events /\ request[r].stage = "scheduled"
    BY DEF handleAlarm, countVars
  <1>2. /\ request' \in [Requests -> AlarmRequests]
        /\ request'[r].stage = "starting" /\ request'[r].time = request[r].time
        /\ \A q \in Requests : q # r => request'[q] = request[q]
    BY <1>1, SMT DEF RunsShape, AlarmRequests, Stages, Active
  <1>3. \A q \in Requests : request'[q].stage \in Active <=> q = r
    BY <1>1, <1>2, RunningIsActive, NoRequestIsNone DEF Active
  <1>4. OneRunsAtATime'
    BY <1>1, <1>3, NoRequestIsNone DEF OneRunsAtATime
  <1>5. JoinedAreServed' /\ RequestsAreTimed'
    BY <1>1, <1>2, ZenonT(60) DEF JoinedAreServed, RequestsAreTimed
  <1>6. RunsShape' /\ ScheduledWaits'
    BY <1>1, <1>2 DEF RunsShape, ScheduledWaits
  <1>7. \A q \in Requests : request'[q].stage # "handler"
    BY <1>2, <1>3 DEF Active
  <1> QED
    BY <1>4, <1>5, <1>6, <1>7

(* A request is dropped.  If it runs, those that joined it are canceled.   *)
LEMMA DropRuns ==
    ASSUME AlarmRunsInv, NEW r \in Requests, DropRequest(r)
    PROVE  /\ AlarmRunsInv'
           /\ \A q \in Requests : request'[q].stage = "handler" =>
                 q # r /\ request[q].stage = "handler"
  <1> USE DEF AlarmRunsInv
  <1> DEFINE req == IF request[r].stage \in Active THEN Settled(request, r, "CANCELED")
                    ELSE request
             d == [NewRequest EXCEPT !.stage = "dropped", !.time = request[r].time]
  <1>1. /\ request' = [req EXCEPT ![r] = d]
        /\ maybeScheduledAlarm' = maybeScheduledAlarm
        /\ maybeRunningAlarm' = IF r = maybeRunningAlarm THEN NoRequest ELSE maybeRunningAlarm
        /\ events < MaxEvents /\ events' = events + 1
        /\ request[r].stage \notin {"new"} \cup Ended
    BY DEF DropRequest
  <1>2. /\ req \in [Requests -> AlarmRequests]
        /\ \A q \in Requests : q # r =>
              \/ req[q] = request[q]
              \/ request[q].stage = "joined" /\ req[q].stage = "answered"
        /\ \A q \in Requests : q # r /\ r = maybeRunningAlarm /\ request[q].stage = "joined"
              /\ request[q].on = r => req[q].stage = "answered"
    <2>1. request \in [Requests -> AlarmRequests]
      BY DEF RunsShape
    <2>2. CASE request[r].stage \in Active
      <3>1. /\ req \in [Requests -> AlarmRequests]
            /\ \A q \in Requests : IsFor(q, r) => req[q].stage = "answered"
            /\ \A q \in Requests : ~IsFor(q, r) => req[q] = request[q]
        BY <2>1, <2>2, SettledRequests, SMT DEF Results
      <3> HIDE DEF req
      <3> QED
        BY <3>1 DEF IsFor
    <2>3. CASE request[r].stage \notin Active
      <3>1. r # maybeRunningAlarm
        BY <2>3, RunningIsActive, NoRequestIsNone
      <3> QED
        BY <2>1, <2>3, <3>1
    <2> QED
      BY <2>2, <2>3
  <1>3. d \in AlarmRequests /\ d.stage = "dropped" /\ d.time = request[r].time
    <2>1. request[r].time \in AlarmTimes
      BY RunningIsActive DEF AlarmRequests
    <2> QED
      BY <2>1, NewRequestType DEF AlarmRequests, Stages, Ended
  <1> HIDE DEF req, d
  <1>4. /\ request' \in [Requests -> AlarmRequests]
        /\ request'[r].stage = "dropped" /\ request'[r].time = request[r].time
        /\ \A q \in Requests : q # r => request'[q] = req[q]
    BY <1>1, <1>2, <1>3
  <1>5. \A q \in Requests : request'[q].stage \in Active <=> q # r /\ request[q].stage \in Active
    BY <1>2, <1>4 DEF Active
  <1>6. OneRunsAtATime'
    <2>1. maybeRunningAlarm' \in Requests \cup {NoRequest}
      BY <1>1 DEF RunsShape
    <2>2. \A q \in Requests : request'[q].stage \in Active <=> q = maybeRunningAlarm'
      BY <1>1, <1>5, RunningIsActive, NoRequestIsNone
    <2> QED
      BY <2>1, <2>2, NoRequestIsNone DEF OneRunsAtATime
  <1>7. \A q \in Requests : request[q].stage \notin {"joined", "answered"} =>
           request'[q].time = request[q].time
    BY <1>2, <1>4
  <1>8. JoinedAreServed' /\ RequestsAreTimed'
    <2> SUFFICES ASSUME NEW q \in Requests
                 PROVE  /\ request'[q].stage = "joined" =>
                              /\ request'[q].on \in {maybeRunningAlarm', maybeScheduledAlarm'}
                              /\ request'[request'[q].on].time = request'[q].time
                              /\ request'[q].on # NoRequest
                        /\ request'[q].stage \notin {"new", "answered"} =>
                              request'[q].time # NoAlarm
      BY DEF JoinedAreServed, RequestsAreTimed
    <2>1. CASE q = r
      BY <1>1, <1>4, <2>1 DEF RequestsAreTimed, Ended
    <2>2. CASE q # r /\ request[q].stage = "joined" /\ req[q].stage = "answered"
      BY <1>4, <2>2
    <2>3. CASE q # r /\ req[q] = request[q]
      <3>1. request'[q] = request[q]
        BY <1>4, <2>3
      <3>2. ASSUME request[q].stage = "joined"
            PROVE  /\ request[q].on \in {maybeRunningAlarm', maybeScheduledAlarm'}
                   /\ request'[request[q].on].time = request[q].time
                   /\ request[q].on # NoRequest
        <4>1. /\ request[q].on \in {maybeRunningAlarm, maybeScheduledAlarm}
              /\ request[request[q].on].time = request[q].time
              /\ request[q].on # NoRequest
          BY <3>2 DEF JoinedAreServed, RequestsAreTimed
        <4>2. request[q].on = maybeRunningAlarm => maybeRunningAlarm # r
          BY <1>2, <2>3, <3>2
        <4>3. /\ request[q].on \in Requests
              /\ request[request[q].on].stage \notin {"joined", "answered"}
          BY <4>1, RunningIsActive DEF RunsShape, ScheduledWaits, Active
        <4> QED
          BY <1>1, <1>7, <4>1, <4>2, <4>3
      <3> QED
        BY <3>1, <3>2 DEF RequestsAreTimed
    <2> QED
      BY <1>2, <2>1, <2>2, <2>3
  <1>9. RunsShape' /\ ScheduledWaits'
    <2>1. events' \in 0..MaxEvents
      BY <1>1, AlarmAssumption, SMT DEF RunsShape
    <2>2. RunsShape'
      BY <1>1, <1>4, <2>1 DEF RunsShape
    <2>3. ScheduledWaits'
      BY <1>1, <1>2, <1>4 DEF RunsShape, ScheduledWaits
    <2> QED
      BY <2>2, <2>3
  <1>10. \A q \in Requests : request'[q].stage = "handler" =>
            q # r /\ request[q].stage = "handler"
    BY <1>2, <1>4
  <1> QED
    BY <1>6, <1>8, <1>9, <1>10

-----------------------------------------------------------------------------
(* No step leaves a handler running whose deletion may start.              *)
LEMMA HandlerKept ==
    ASSUME HandlerHolds,
           \A q \in Requests : request'[q].stage = "handler" => request[q].stage = "handler",
           IsDeferred' /\ currentAlarmTime'.status # "WAITING" =>
              IsDeferred /\ currentAlarmTime.status # "WAITING"
    PROVE  HandlerHolds'
  BY DEF HandlerHolds

(* What setAlarmTime() does to the record of a request.                    *)
LEMMA SetRequest ==
    ASSUME AlarmInv, NEW t \in AlarmTimes, NEW u \in Unconfirmed, setAlarmTime(t, u),
           NEW q \in Requests
    PROVE  /\ request'[q] \in AlarmRequests
           /\ request'[q].stage = request[q].stage /\ request'[q].time = request[q].time
           /\ request'[q].on = request[q].on /\ request'[q].waits = request[q].waits
           /\ request'[q].result = request[q].result
           /\ request[q].since \subseteq request'[q].since
           /\ request[q].stage \in Active => t \in request'[q].since
           /\ request[q].lax => request'[q].lax
           /\ request[q].stage \in Active /\ u => request'[q].lax
  <1>1. request[q] \in AlarmRequests /\ u \in BOOLEAN
    BY RunningIsActive, AlarmAssumption DEF AlarmInv
  <1>2. CASE request[q].stage \in Active
    <2>1. PICK more \in SUBSET AlarmTimes : more = request[q].since \cup {t}
      BY <1>1 DEF AlarmRequests
    <2>2. PICK lax \in BOOLEAN : lax = (request[q].lax \/ u)
      BY <1>1 DEF AlarmRequests
    <2>3. request'[q] = [request[q] EXCEPT !.since = more, !.lax = lax]
      BY <1>2, <2>1, <2>2 DEF setAlarmTime
    <2>4. request'[q] \in AlarmRequests
      BY <1>1, <2>3 DEF AlarmRequests
    <2>5. /\ request'[q].stage = request[q].stage /\ request'[q].time = request[q].time
          /\ request'[q].on = request[q].on /\ request'[q].waits = request[q].waits
          /\ request'[q].result = request[q].result
      BY <1>1, <2>3 DEF AlarmRequests
    <2>6. request'[q].since = more /\ request'[q].lax = lax
      BY <1>1, <2>3 DEF AlarmRequests
    <2>7. /\ request[q].since \subseteq request'[q].since /\ t \in request'[q].since
          /\ (request[q].lax => request'[q].lax) /\ (u => request'[q].lax)
      BY <2>1, <2>2, <2>6
    <2> QED
      BY <2>4, <2>5, <2>7
  <1>3. CASE request[q].stage \notin Active
    <2>1. request'[q] = request[q]
      BY <1>3 DEF setAlarmTime
    <2> QED
      BY <1>1, <1>3, <2>1
  <1> QED
    BY <1>2, <1>3

LEMMA SetAlarmInv ==
    ASSUME AlarmInv, NEW t \in AlarmTimes, NEW u \in Unconfirmed, setAlarmTime(t, u)
    PROVE  AlarmInv'
  <1>1. AlarmCacheInv'
    BY SetAlarmCache DEF AlarmInv
  <1>2. \A q \in Requests : /\ request'[q] \in AlarmRequests
                            /\ request'[q].time = request[q].time
                            /\ request'[q].on = request[q].on
                            /\ request'[q].stage = request[q].stage
    <2> SUFFICES ASSUME NEW q \in Requests
                 PROVE  /\ request'[q] \in AlarmRequests
                        /\ request'[q].time = request[q].time
                        /\ request'[q].on = request[q].on
                        /\ request'[q].stage = request[q].stage
      OBVIOUS
    <2> QED
      BY SetRequest
  <1>3. AlarmRunsInv'
    <2>1. request' \in [Requests -> AlarmRequests]
      <3>1. request' = [q \in Requests |-> request'[q]]
        BY DEF setAlarmTime
      <3> QED
        BY <1>2, <3>1
    <2>2. events' \in 0..MaxEvents
      <3>1. events < MaxEvents /\ events' = events + 1
        BY DEF setAlarmTime
      <3> QED
        BY <3>1, AlarmAssumption, SMT DEF AlarmInv, AlarmRunsInv, RunsShape
    <2>3. maybeScheduledAlarm' = maybeScheduledAlarm /\ maybeRunningAlarm' = maybeRunningAlarm
      BY DEF setAlarmTime
    <2> QED
      BY <1>2, <2>1, <2>2, <2>3, KeepRuns DEF AlarmInv
  <1>4. HandlerHolds'
    <2>1. currentAlarmTime' = currentAlarmTime \/ currentAlarmTime' = KnownAlarmTime("DIRTY", t)
      BY DEF setAlarmTime
    <2>2. currentAlarmTime' = currentAlarmTime \/ currentAlarmTime'.kind = "known"
      BY <2>1, KnownType, SMT
    <2> QED
      BY <1>2, <2>2, HandlerKept DEF AlarmInv, IsDeferred
  <1> QED
    BY <1>1, <1>3, <1>4 DEF AlarmInv

(* The steps that leave the requests alone.                                *)
LEMMA SameRuns ==
    ASSUME AlarmRunsInv, UNCHANGED runVars, UNCHANGED events
    PROVE  /\ AlarmRunsInv'
           /\ \A q \in Requests : request'[q] = request[q]
  BY DEF runVars, AlarmRunsInv, RunsShape, OneRunsAtATime, JoinedAreServed, ScheduledWaits,
     RequestsAreTimed

LEMMA ReadsInv ==
    ASSUME AlarmInv, getAlarm \/ StorageReadsAlarm \/ getAlarmAnswered
    PROVE  AlarmInv'
  <1>1. AlarmCacheInv'
    BY GetAlarmCache, StorageReadsCache, AnsweredCache DEF AlarmInv
  <1>2. AlarmRunsInv' /\ \A q \in Requests : request'[q] = request[q]
    BY SameRuns DEF AlarmInv, getAlarm, StorageReadsAlarm, getAlarmAnswered, countVars
  <1>3. HandlerHolds'
    <2>1. \/ currentAlarmTime' = currentAlarmTime
          \/ currentAlarmTime' = KnownAlarmTime("CLEAN", getting.time)
      BY DEF getAlarm, StorageReadsAlarm, getAlarmAnswered
    <2>2. currentAlarmTime' = currentAlarmTime \/ currentAlarmTime'.kind = "known"
      BY <2>1, SMT DEF KnownAlarmTime
    <2> QED
      BY <1>2, <2>2, HandlerKept DEF AlarmInv, IsDeferred
  <1> QED
    BY <1>1, <1>2, <1>3 DEF AlarmInv

LEMMA FlushesInv ==
    ASSUME AlarmInv,
           StartAlarmFlush \/ flushImplAlarmOnly \/ StorageWritesAlarm
              \/ AlarmFlushDisconnected \/ AlarmFlushBreaks
    PROVE  AlarmInv'
  <1>1. AlarmCacheInv'
    BY StartFlushCache, AlarmOnlyCache, StorageWritesCache, DisconnectedCache, FlushBreaksCache
    DEF AlarmInv
  <1>2. AlarmRunsInv' /\ \A q \in Requests : request'[q] = request[q]
    BY SameRuns DEF AlarmInv, StartAlarmFlush, flushImplAlarmOnly, StorageWritesAlarm,
       AlarmFlushDisconnected, AlarmFlushBreaks, countVars
  <1>3. IsDeferred' /\ currentAlarmTime'.status # "WAITING" =>
           IsDeferred /\ currentAlarmTime.status # "WAITING"
    <2>1. CacheShape
      BY DEF AlarmInv, AlarmCacheInv
    <2>2. CASE StartAlarmFlush \/ AlarmFlushDisconnected
      <3>1. currentAlarmTime' = IF AlarmChange = {} THEN currentAlarmTime
                                ELSE [currentAlarmTime EXCEPT !.status = "FLUSHING"]
        BY <2>2 DEF StartAlarmFlush, AlarmFlushDisconnected, flushImplAlarm, flushImplAfter
      <3>2. CASE AlarmChange = {}
        BY <3>1, <3>2 DEF IsDeferred
      <3>3. CASE IsKnown /\ currentAlarmTime \in KnownTimes /\ AlarmChange # {}
        <4>1. currentAlarmTime'.kind = "known"
          BY <3>1, <3>3 DEF KnownTimes
        <4> QED
          BY <4>1 DEF IsDeferred
      <3>4. CASE IsDeferred /\ currentAlarmTime.status # "WAITING"
        BY <3>4
      <3> QED
        BY <2>1, <3>2, <3>3, <3>4, ChangeCases
    <2>3. CASE StorageWritesAlarm
      <3>1. CASE Deleting
        BY <3>1 DEF Deleting
      <3>2. CASE ~Deleting
        BY <2>3, <3>2 DEF StorageWritesAlarm, SetWasDeleted, IsDeferred
      <3> QED
        BY <3>1, <3>2
    <2>4. CASE flushImplAlarmOnly \/ AlarmFlushBreaks
      BY <2>4 DEF flushImplAlarmOnly, AlarmFlushBreaks, IsDeferred
    <2> QED
      BY <2>2, <2>3, <2>4
  <1> QED
    BY <1>1, <1>2, <1>3, HandlerKept DEF AlarmInv

LEMMA FlushSucceedsInv == ASSUME AlarmInv, AlarmFlushSucceeds PROVE AlarmInv'
  <1>1. AlarmCacheInv'
    BY FlushSucceedsCache DEF AlarmInv
  <1>2. \A q \in Requests : /\ request'[q] \in AlarmRequests
                            /\ request'[q].time = request[q].time
                            /\ request'[q].on = request[q].on
                            /\ request'[q].stage = request[q].stage
    <2> SUFFICES ASSUME NEW q \in Requests
                 PROVE  /\ request'[q] \in AlarmRequests
                        /\ request'[q].time = request[q].time
                        /\ request'[q].on = request[q].on
                        /\ request'[q].stage = request[q].stage
      OBVIOUS
    <2>1. request[q] \in AlarmRequests
      BY RunningIsActive DEF AlarmInv
    <2>2. request'[q] = IF request[q].waits > 0 THEN [request[q] EXCEPT !.waits = @ - 1]
                        ELSE request[q]
      BY DEF AlarmFlushSucceeds, FlushOver
    <2> QED
      BY <2>1, <2>2, SMT DEF AlarmRequests
  <1>3. AlarmRunsInv'
    <2>1. request' \in [Requests -> AlarmRequests]
      BY <1>2 DEF AlarmFlushSucceeds, FlushOver
    <2>2. /\ maybeScheduledAlarm' = maybeScheduledAlarm
          /\ maybeRunningAlarm' = maybeRunningAlarm /\ events' = events
      BY DEF AlarmFlushSucceeds, countVars
    <2>3. events \in 0..MaxEvents
      BY DEF AlarmInv, AlarmRunsInv, RunsShape
    <2> QED
      BY <1>2, <2>1, <2>2, <2>3, KeepRuns DEF AlarmInv
  <1>4. \/ currentAlarmTime' = currentAlarmTime
        \/ currentAlarmTime' = UnknownAlarmTime
        \/ currentAlarmTime' = KnownAlarmTime("CLEAN", currentAlarmTime.time)
        \/ currentAlarmTime' = KnownAlarmTime("CLEAN", NoAlarm)
    <2>1. \/ IsKnown /\ ~Deleting
          \/ ~IsKnown
      BY CurrentCases DEF Deleting, AlarmInv, AlarmCacheInv
    <2> QED
      BY <2>1 DEF AlarmFlushSucceeds
  <1>5. currentAlarmTime' = currentAlarmTime \/ currentAlarmTime'.kind \in {"known", "unknown"}
    BY <1>4, SMT DEF KnownAlarmTime, UnknownAlarmTime
  <1>6. HandlerHolds'
    BY <1>2, <1>5, HandlerKept DEF AlarmInv, IsDeferred
  <1> QED
    BY <1>1, <1>3, <1>6 DEF AlarmInv

(* The steps that leave the cache alone.                                   *)
LEMMA UnchangedCacheInv ==
    ASSUME AlarmInv, UNCHANGED cacheVars, outdated' = outdated, AlarmRunsInv',
           \A q \in Requests : request'[q].stage = "handler" => request[q].stage = "handler"
    PROVE  AlarmInv'
  <1>1. AlarmCacheInv'
    BY SameCache DEF AlarmInv, cacheVars
  <1>2. HandlerHolds'
    BY HandlerKept DEF AlarmInv, cacheVars, IsDeferred
  <1> QED
    BY <1>1, <1>2 DEF AlarmInv

LEMMA RequestsInv ==
    ASSUME AlarmInv, NEW r \in Requests, Pull(r) \/ runAlarm(r) \/ handleAlarm(r)
    PROVE  AlarmInv'
  <1>1. stored \in AlarmTimes /\ AlarmRunsInv
    BY DEF AlarmInv, AlarmCacheInv, CacheShape
  <1>2. AlarmRunsInv' /\ \A q \in Requests : request'[q].stage = "handler" =>
                                                request[q].stage = "handler"
    BY <1>1, PullRuns, JoinRuns, ScheduleRuns, HandleAlarmRuns
  <1>3. UNCHANGED cacheVars /\ outdated' = outdated
    BY DEF Pull, runAlarm, handleAlarm, countVars
  <1> QED
    BY <1>2, <1>3, UnchangedCacheInv

(* What arming the alarm does to the record of its request.                *)
LEMMA ArmedRecord ==
    ASSUME request \in [Requests -> AlarmRequests], NEW r \in Requests, armAlarmHandler(r)
    PROVE  /\ request' \in [Requests -> AlarmRequests]
           /\ \A q \in Requests : q # r => request'[q] = request[q]
           /\ request'[r].stage = "handler" /\ request'[r].time = request[r].time
           /\ request'[r].on = request[r].on /\ request'[r].since = request[r].since
           /\ request'[r].ours = ~Superseded(r)
           /\ ~request'[r].lax => (Superseded(r) => PendingIsGated)
  <1>1. PICK ours \in BOOLEAN : ours = ~Superseded(r)
    OBVIOUS
  <1>2. PICK lax \in BOOLEAN : lax = (request[r].lax \/ (Superseded(r) /\ ~PendingIsGated))
    OBVIOUS
  <1>3. request' = [request EXCEPT ![r].stage = "handler", ![r].ours = ours, ![r].lax = lax]
    BY <1>1, <1>2 DEF armAlarmHandler
  <1>4. "handler" \in Stages /\ request[r] \in AlarmRequests
    BY DEF Stages, Active
  <1>5. request'[r] = [request[r] EXCEPT !.stage = "handler", !.ours = ours, !.lax = lax]
    BY <1>3
  <1>6. /\ request'[r] \in AlarmRequests
        /\ request'[r].stage = "handler" /\ request'[r].time = request[r].time
        /\ request'[r].on = request[r].on /\ request'[r].since = request[r].since
        /\ request'[r].ours = ours /\ request'[r].lax = lax
    BY <1>4, <1>5 DEF AlarmRequests
  <1>7. request' \in [Requests -> AlarmRequests] /\ \A q \in Requests : q # r => request'[q] = request[q]
    BY <1>3, <1>5, <1>6
  <1> QED
    BY <1>1, <1>2, <1>6, <1>7

LEMMA StartHandlerInv ==
    ASSUME AlarmInv, NEW r \in Requests, StartHandler(r)
    PROVE  AlarmInv'
  <1>1. /\ alarmFlush' = alarmFlush /\ failed' = failed /\ stored' = stored
        /\ getting' = getting /\ hasHandler' = hasHandler
        /\ maybeScheduledAlarm' = maybeScheduledAlarm /\ events' = events
        /\ request[r].stage = "starting" /\ request[r].stage \in Active
    BY DEF StartHandler, Active
  <1>2. AlarmCacheInv /\ AlarmRunsInv /\ HandlerHolds /\ events \in 0..MaxEvents
    BY DEF AlarmInv, AlarmRunsInv, RunsShape
  <1>3. request[r].time \in Alarms /\ request[r] \in AlarmRequests
    <2>1. request[r] \in AlarmRequests /\ request[r].time # NoAlarm
      BY <1>1, <1>2, RunningIsActive DEF AlarmRunsInv, RequestsAreTimed
    <2> QED
      BY <2>1 DEF AlarmRequests, AlarmTimes
  <1>4. CASE armAlarmHandler(r)
    <2>1. AlarmCacheInv'
      BY <1>1, <1>2, <1>3, <1>4, ArmCache
    <2>2. maybeRunningAlarm' = maybeRunningAlarm
      BY <1>4 DEF armAlarmHandler
    <2>3. /\ request' \in [Requests -> AlarmRequests]
          /\ \A q \in Requests : q # r => request'[q] = request[q]
          /\ request'[r].stage = "handler" /\ request'[r].time = request[r].time
          /\ request'[r].on = request[r].on
      BY <1>2, <1>4, ArmedRecord DEF AlarmRunsInv, RunsShape
    <2>4. AlarmRunsInv'
      <3>1. "handler" \in Active
        BY DEF Active
      <3> QED
        BY <1>1, <1>2, <2>2, <2>3, <3>1, KeepRuns
    <2>5. IsDeferred' => currentAlarmTime'.status = "WAITING"
      <3>1. CASE Superseded(r)
        BY <1>4, <3>1 DEF armAlarmHandler, IsDeferred
      <3>2. CASE ~Superseded(r)
        BY <1>4, <3>2 DEF armAlarmHandler, DeferredAlarmDelete
      <3> QED
        BY <3>1, <3>2
    <2> QED
      BY <2>1, <2>4, <2>5 DEF AlarmInv, HandlerHolds
  <1>5. CASE ArmWithoutHandler(r)
    <2>1. Answer(r, "SCRIPT_NOT_FOUND") /\ outdated' = outdated
      BY <1>5 DEF ArmWithoutHandler
    <2>2. AlarmRunsInv' /\ \A q \in Requests : request'[q].stage \notin Active
      BY <1>1, <1>2, <2>1, AnswerRuns DEF Results
    <2>3. AlarmCacheInv'
      <3>1. CASE Superseded(r)
        BY <1>1, <1>2, <1>5, <2>1, <3>1, SameCache DEF ArmWithoutHandler
      <3>2. CASE ~Superseded(r)
        <4>1. /\ currentAlarmTime' = DeferredAlarmDelete("READY", request[r].time, "unset")
              /\ Schedule(FALSE)
          BY <1>5, <3>2 DEF ArmWithoutHandler
        <4> QED
          BY <1>1, <1>2, <1>3, <2>1, <4>1, ReadyCache
      <3> QED
        BY <3>1, <3>2
    <2> QED
      BY <2>2, <2>3 DEF AlarmInv, HandlerHolds, Active
  <1>6. CASE NotArmed(r)
    <2>1. /\ \E result \in Results : Answer(r, result)
          /\ currentAlarmTime' = currentAlarmTime /\ scheduled' = scheduled
          /\ outdated' = outdated
      BY <1>6 DEF NotArmed, Results
    <2>2. AlarmRunsInv' /\ \A q \in Requests : request'[q].stage \notin Active
      BY <1>1, <1>2, <2>1, AnswerRuns
    <2>3. AlarmCacheInv'
      BY <1>1, <1>2, <2>1, SameCache
    <2> QED
      BY <2>2, <2>3 DEF AlarmInv, HandlerHolds, Active
  <1> QED
    BY <1>4, <1>5, <1>6 DEF StartHandler

(* How many flushes there are to wait for.                                 *)
LEMMA LocksType ==
    ASSUME CacheShape, NEW s \in [flush : BOOLEAN, gated : BOOLEAN]
    PROVE  Locks(s) \in 0..2
  BY SMT DEF Locks

LEMMA HandlerEndsInv ==
    ASSUME AlarmInv, NEW r \in Requests, HandlerEnds(r)
    PROVE  AlarmInv'
  <1>1. /\ alarmFlush' = alarmFlush /\ failed' = failed /\ stored' = stored
        /\ getting' = getting /\ hasHandler' = hasHandler /\ outdated' = outdated
        /\ maybeScheduledAlarm' = maybeScheduledAlarm /\ events' = events
        /\ maybeRunningAlarm' = maybeRunningAlarm
        /\ request[r].stage = "handler" /\ request[r].stage \in Active
    BY DEF HandlerEnds, Active, countVars
  <1>2. /\ AlarmCacheInv /\ AlarmRunsInv /\ HandlerHolds /\ events \in 0..MaxEvents
        /\ CacheShape /\ request \in [Requests -> AlarmRequests]
    BY DEF AlarmInv, AlarmCacheInv, AlarmRunsInv, RunsShape
  <1>3. AlarmCacheInv'
    <2>1. CASE HandlerSucceeds(r)
      BY <1>1, <1>2, <2>1, DisposeCache DEF HandlerSucceeds
    <2>2. CASE HandlerFails(r)
      BY <1>1, <1>2, <2>2, FailsCache
    <2> QED
      BY <2>1, <2>2 DEF HandlerEnds
  <1>4. \E result \in {"OK", "RETRY"}, n \in 0..2 :
           request' = [request EXCEPT ![r].stage = "locks", ![r].result = result,
                                      ![r].waits = n]
    <2>1. CASE HandlerSucceeds(r)
      <3>1. PICK s \in {scheduled, scheduled'} :
               request' = [request EXCEPT ![r].stage = "locks", ![r].result = "OK",
                                          ![r].waits = Locks(s)]
        BY <2>1 DEF HandlerSucceeds
      <3>2. s \in [flush : BOOLEAN, gated : BOOLEAN]
        BY <1>2, <1>3 DEF AlarmCacheInv, CacheShape
      <3>3. Locks(s) \in 0..2
        BY <1>2, <3>2, LocksType
      <3> QED
        BY <3>1, <3>3
    <2>2. CASE HandlerFails(r)
      <3>1. Locks(scheduled) \in 0..2
        BY <1>2, LocksType DEF CacheShape
      <3> QED
        BY <2>2, <3>1 DEF HandlerFails
    <2> QED
      BY <2>1, <2>2 DEF HandlerEnds
  <1>5. /\ request' \in [Requests -> AlarmRequests]
        /\ \A q \in Requests : q # r => request'[q] = request[q]
        /\ request'[r].stage = "locks" /\ request'[r].time = request[r].time
        /\ request'[r].on = request[r].on
    <2>1. PICK result \in {"OK", "RETRY"}, n \in 0..2 :
             request' = [request EXCEPT ![r].stage = "locks", ![r].result = result,
                                        ![r].waits = n]
      BY <1>4
    <2>2. request[r] \in AlarmRequests
      BY <1>2
    <2>3. "locks" \in Stages
      BY DEF Stages, Active
    <2>4. [request[r] EXCEPT !.stage = "locks", !.result = result, !.waits = n] \in AlarmRequests
      BY <2>2, <2>3 DEF AlarmRequests
    <2>5. request'[r] = [request[r] EXCEPT !.stage = "locks", !.result = result, !.waits = n]
      BY <1>2, <2>1
    <2>6. /\ request'[r].stage = "locks" /\ request'[r].time = request[r].time
          /\ request'[r].on = request[r].on
      BY <2>2, <2>5 DEF AlarmRequests
    <2> QED
      BY <1>2, <2>1, <2>4, <2>5, <2>6
  <1>6. AlarmRunsInv'
    <2>1. "locks" \in Active
      BY DEF Active
    <2> QED
      BY <1>1, <1>2, <1>5, <2>1, KeepRuns
  <1>7. HandlerHolds'
    <2>1. \A q \in Requests : request'[q].stage # "handler"
      BY <1>1, <1>2, <1>5, RunningIsActive DEF Active
    <2> QED
      BY <2>1 DEF HandlerHolds
  <1> QED
    BY <1>3, <1>6, <1>7 DEF AlarmInv

LEMMA ReleasedInv ==
    ASSUME AlarmInv, NEW r \in Requests, LocksReleased(r) \/ GateReleased(r)
    PROVE  AlarmInv'
  <1>1. /\ UNCHANGED cacheVars /\ outdated' = outdated
        /\ maybeScheduledAlarm' = maybeScheduledAlarm /\ events' = events
        /\ request[r].stage \in {"locks", "gate"} /\ request[r].stage \in Active
    BY DEF LocksReleased, GateReleased, Active, countVars
  <1>2. /\ AlarmRunsInv /\ events \in 0..MaxEvents
        /\ CacheShape /\ request \in [Requests -> AlarmRequests]
    BY DEF AlarmInv, AlarmCacheInv, AlarmRunsInv, RunsShape
  <1>3. \/ \E result \in Results : Answer(r, result)
        \/ /\ request' = [request EXCEPT ![r].stage = "gate", ![r].waits = Locks(scheduled)]
           /\ maybeRunningAlarm' = maybeRunningAlarm
    BY DEF LocksReleased, GateReleased, Results
  <1>4. CASE \E result \in Results : Answer(r, result)
    <2>1. AlarmRunsInv' /\ \A q \in Requests : request'[q].stage \notin Active
      BY <1>1, <1>2, <1>4, AnswerRuns
    <2>2. \A q \in Requests : request'[q].stage # "handler"
      BY <2>1 DEF Active
    <2> QED
      BY <1>1, <2>1, <2>2, UnchangedCacheInv
  <1>5. CASE /\ request' = [request EXCEPT ![r].stage = "gate", ![r].waits = Locks(scheduled)]
             /\ maybeRunningAlarm' = maybeRunningAlarm
    <2>1. Locks(scheduled) \in 0..2
      BY <1>2, LocksType DEF CacheShape
    <2>2. /\ request' \in [Requests -> AlarmRequests]
          /\ \A q \in Requests : q # r => request'[q] = request[q]
          /\ request'[r].stage = "gate" /\ request'[r].time = request[r].time
          /\ request'[r].on = request[r].on
      <3>1. request[r] \in AlarmRequests
        BY <1>2
      <3>2. "gate" \in Stages
        BY DEF Stages, Active
      <3>3. [request[r] EXCEPT !.stage = "gate", !.waits = Locks(scheduled)] \in AlarmRequests
        BY <2>1, <3>1, <3>2 DEF AlarmRequests
      <3>4. request'[r] = [request[r] EXCEPT !.stage = "gate", !.waits = Locks(scheduled)]
        BY <1>2, <1>5
      <3>5. /\ request'[r].stage = "gate" /\ request'[r].time = request[r].time
            /\ request'[r].on = request[r].on
        BY <3>1, <3>4 DEF AlarmRequests
      <3> QED
        BY <1>2, <1>5, <3>3, <3>4, <3>5
    <2>3. AlarmRunsInv'
      <3>1. "gate" \in Active
        BY DEF Active
      <3> QED
        BY <1>1, <1>2, <1>5, <2>2, <3>1, KeepRuns
    <2>4. \A q \in Requests : request'[q].stage = "handler" => request[q].stage = "handler"
      BY <2>2
    <2> QED
      BY <1>1, <2>3, <2>4, UnchangedCacheInv
  <1> QED
    BY <1>3, <1>4, <1>5

LEMMA DropInv == ASSUME AlarmInv, NEW r \in Requests, DropRequest(r) PROVE AlarmInv'
  <1>1. /\ alarmFlush' = alarmFlush /\ failed' = failed /\ stored' = stored
        /\ getting' = getting /\ hasHandler' = hasHandler /\ outdated' = outdated
    BY DEF DropRequest
  <1>2. AlarmCacheInv /\ AlarmRunsInv /\ HandlerHolds
    BY DEF AlarmInv
  <1>3. /\ AlarmRunsInv'
        /\ \A q \in Requests : request'[q].stage = "handler" => q # r /\ request[q].stage = "handler"
    BY <1>2, DropRuns
  <1>4. CASE request[r].stage = "handler"
    <2>1. DisposeDeleter
      BY <1>4 DEF DropRequest
    <2>2. AlarmCacheInv'
      BY <1>1, <1>2, <1>4, <2>1, DisposeCache
    <2>3. \A q \in Requests : request'[q].stage # "handler"
      BY <1>2, <1>3, <1>4, RunningIsActive DEF Active
    <2> QED
      BY <1>3, <2>2, <2>3 DEF AlarmInv, HandlerHolds
  <1>5. CASE request[r].stage # "handler"
    <2>1. currentAlarmTime' = currentAlarmTime /\ scheduled' = scheduled
      BY <1>5 DEF DropRequest
    <2> QED
      BY <1>1, <1>3, <2>1, UnchangedCacheInv DEF cacheVars
  <1> QED
    BY <1>4, <1>5

LEMMA ActorAlarmStepInv == AlarmInv /\ [ActorAlarmNext]_alarmVars => AlarmInv'
  <1> SUFFICES ASSUME AlarmInv, [ActorAlarmNext]_alarmVars PROVE AlarmInv'
    OBVIOUS
  <1>1. CASE \E t \in AlarmTimes, u \in Unconfirmed : setAlarmTime(t, u)
    BY <1>1, SetAlarmInv
  <1>2. CASE getAlarm \/ StorageReadsAlarm \/ getAlarmAnswered
    BY <1>2, ReadsInv
  <1>3. CASE StartAlarmFlush \/ flushImplAlarmOnly \/ StorageWritesAlarm
                \/ AlarmFlushDisconnected \/ AlarmFlushBreaks
    BY <1>3, FlushesInv
  <1>4. CASE AlarmFlushSucceeds
    BY <1>4, FlushSucceedsInv
  <1>5. ASSUME NEW r \in Requests,
               Pull(r) \/ runAlarm(r) \/ handleAlarm(r) \/ StartHandler(r)
                  \/ HandlerEnds(r) \/ LocksReleased(r) \/ GateReleased(r)
                  \/ DropRequest(r)
        PROVE  AlarmInv'
    BY <1>5, RequestsInv, StartHandlerInv, HandlerEndsInv, ReleasedInv, DropInv
  <1>6. CASE UNCHANGED alarmVars
    <2>1. AlarmRunsInv' /\ \A q \in Requests : request'[q] = request[q]
      BY <1>6, SameRuns DEF alarmVars, countVars, AlarmInv
    <2> QED
      BY <1>6, <2>1, UnchangedCacheInv DEF alarmVars, countVars
  <1> QED
    BY <1>1, <1>2, <1>3, <1>4, <1>5, <1>6 DEF ActorAlarmNext

(* What the actor knows of its alarm is true: a clean alarm time is the    *)
(* one stored, unless an outdated alarm was armed; a change has its flush; *)
(* a deletion has its answer; one alarm runs at a time; and requests that  *)
(* joined another wait for a result that is to come.                       *)
THEOREM AlarmStateStaysTrue == ActorAlarmSpec => []AlarmStateIsTrue
  <1>1. AlarmInv => AlarmStateIsTrue
    <2> SUFFICES ASSUME AlarmInv PROVE AlarmStateIsTrue
      OBVIOUS
    <2>1. CleanIsStored
      BY DEF AlarmInv, AlarmCacheInv, CleanIsStored, CacheIsTrue, IsKnown
    <2>2. DeletionIsAnswered
      BY DEF AlarmInv, AlarmCacheInv, DeletionIsAnswered, FlushIsOfCurrent, Deleting
    <2> QED
      BY <2>1, <2>2 DEF AlarmInv, AlarmCacheInv, AlarmRunsInv, AlarmStateIsTrue
  <1> QED
    BY <1>1, ActorAlarmInitInv, ActorAlarmStepInv, PTL DEF ActorAlarmSpec

(* The states of the alarm and of the requests to run it are of the        *)
(* declared shape.                                                         *)
THEOREM ActorAlarmTypeCorrect == ActorAlarmSpec => []ActorAlarmTypeOK
  <1>1. AlarmInv => ActorAlarmTypeOK
    <2> SUFFICES ASSUME AlarmInv PROVE ActorAlarmTypeOK
      OBVIOUS
    <2>0. CacheShape /\ RunsShape
      BY DEF AlarmInv, AlarmCacheInv, AlarmRunsInv
    <2>1. \/ currentAlarmTime = UnknownAlarmTime
          \/ \E s \in {"CLEAN", "DIRTY", "FLUSHING"}, t \in AlarmTimes :
                currentAlarmTime = KnownAlarmTime(s, t)
          \/ \E s \in {"WAITING", "READY", "FLUSHING"}, t \in Alarms,
                w \in {"unset", "yes", "no"} :
                currentAlarmTime = DeferredAlarmDelete(s, t, w)
      <3>1. CASE currentAlarmTime \in KnownTimes
        <4>1. /\ currentAlarmTime = KnownAlarmTime(currentAlarmTime.status, currentAlarmTime.time)
              /\ currentAlarmTime.status \in {"CLEAN", "DIRTY", "FLUSHING"}
              /\ currentAlarmTime.time \in AlarmTimes
          BY <3>1 DEF KnownTimes, KnownAlarmTime
        <4> QED
          BY <4>1
      <3>2. CASE currentAlarmTime \in DeferredDeletes
        <4>1. /\ currentAlarmTime = DeferredAlarmDelete(currentAlarmTime.status,
                    currentAlarmTime.time, currentAlarmTime.wasDeleted)
              /\ currentAlarmTime.status \in {"WAITING", "READY", "FLUSHING"}
              /\ currentAlarmTime.time \in Alarms
              /\ currentAlarmTime.wasDeleted \in {"unset", "yes", "no"}
          BY <3>2 DEF DeferredDeletes, DeferredAlarmDelete
        <4> QED
          BY <4>1
      <3> QED
        BY <2>0, <3>1, <3>2, CurrentCases
    <2>2. alarmFlush.phase \in {"idle", "waiting", "sent", "done"}
      BY <2>0, FlushCases DEF AlarmFlushes
    <2>3. \A r \in Requests :
             /\ request[r].stage \in {"new", "pulled", "joined", "scheduled"} \cup Active \cup Ended
             /\ request[r].time \in AlarmTimes
             /\ request[r].on \in Requests \cup {NoRequest}
             /\ request[r].waits \in 0..2
             /\ request[r].since \subseteq AlarmTimes
             /\ request[r].lax \in BOOLEAN
      BY <2>0 DEF RunsShape, AlarmRequests, Stages
    <2> QED
      BY <2>0, <2>1, <2>2, <2>3, SMT DEF ActorAlarmTypeOK, CacheShape, RunsShape
  <1> QED
    BY <1>1, ActorAlarmInitInv, ActorAlarmStepInv, PTL DEF ActorAlarmSpec

-----------------------------------------------------------------------------
(***************************************************************************)
(* Why an answer is durable.  From the time an alarm is armed, and while   *)
(* the application does not set its time T again, one of these holds:      *)
(*   - T is gone from storage, and no change that is to be written is T;   *)
(*   - the flush under way overwrites T;                                   *)
(*   - the next one does, as a change is waiting for it.                   *)
(* The output gate is locked for the flush that does it, unless the        *)
(* application opted out with allowUnconfirmed.  A run that has succeeded  *)
(* first waits for some of the locks, which need not include that one, and *)
(* then for all of them: n flushes, enough for T to be overwritten.        *)
(***************************************************************************)
IsGone(T) ==
    /\ stored # T
    /\ InFlight => T \notin alarmFlush.change
    /\ IsKnown /\ currentAlarmTime.status # "CLEAN" => currentAlarmTime.time # T

IsBeingOverwritten(T) ==
    /\ InFlight
    /\ T \notin alarmFlush.change
    /\ alarmFlush.phase = "sent" => T \in alarmFlush.only
    /\ alarmFlush.phase = "waiting" => alarmFlush.only = AlarmTimes
    /\ \/ IsKnown /\ currentAlarmTime.status # "CLEAN" /\ currentAlarmTime.time # T
       \/ Deleting /\ currentAlarmTime.time = T

WillBeOverwritten(T) ==
    \/ IsKnown /\ currentAlarmTime.status = "DIRTY" /\ currentAlarmTime.time # T
    \/ IsDeferred /\ currentAlarmTime.status = "READY" /\ currentAlarmTime.time = T

Goes(T, n) ==
    \/ IsGone(T)
    \/ IsBeingOverwritten(T) /\ n >= 1
    \/ WillBeOverwritten(T) /\ n >= IF alarmFlush.phase = "idle" THEN 1 ELSE 2

(* The output gate waits for the change that is to be written.             *)
ChangeIsGated ==
    /\ \/ IsKnown /\ currentAlarmTime.status = "DIRTY"
       \/ IsDeferred /\ currentAlarmTime.status = "READY"
       => scheduled.gated
    /\ (IsKnown \/ IsDeferred) /\ currentAlarmTime.status = "FLUSHING"
          => scheduled.gated \/ alarmFlush.gated

Secured(T) == IsGone(T) \/ (Goes(T, 2) /\ ChangeIsGated)

RequestGoes(r) ==
    ~failed /\ request[r].time \notin request[r].since /\ ~request[r].lax =>
        /\ request[r].stage = "handler" =>
              \/ IsDeferred /\ currentAlarmTime.time = request[r].time
              \/ Secured(request[r].time)
        /\ request[r].stage = "locks" /\ request[r].result = "OK" =>
              Secured(request[r].time)
        /\ request[r].stage = "gate" => Goes(request[r].time, request[r].waits)

DoneGoes == \A r \in Requests : RequestGoes(r)

(* A run that has failed leaves the alarm as it was.                       *)
FailedStays ==
    \A r \in Requests : request[r].ours /\ request[r].since = {} /\ ~outdated =>
        /\ request[r].stage = "handler" =>
              IsDeferred /\ currentAlarmTime.time = request[r].time
        /\ request[r].stage = "locks" /\ request[r].result = "RETRY" =>
              /\ IsKnown /\ currentAlarmTime.status = "CLEAN"
              /\ currentAlarmTime.time = request[r].time

(* More flushes are enough as well, and a time that goes whatever happens. *)
LEMMA GoesMore ==
    ASSUME NEW T, NEW m \in Nat, NEW n \in Nat, m <= n, Goes(T, m)
    PROVE  Goes(T, n)
  BY SMT DEF Goes

LEMMA GoesSame ==
    ASSUME NEW T, NEW n, Goes(T, n), currentAlarmTime' = currentAlarmTime,
           alarmFlush' = alarmFlush, stored' = stored
    PROVE  Goes(T, n)'
  BY DEF Goes, IsGone, IsBeingOverwritten, WillBeOverwritten, InFlight, IsKnown, IsDeferred,
     Deleting

(* Setting another time keeps T from being written.                        *)
LEMMA GoesSet ==
    ASSUME NEW T \in Alarms, NEW n \in Nat, NEW t \in AlarmTimes, NEW u \in Unconfirmed,
           setAlarmTime(t, u), t # T, CacheShape,
           Goes(T, n) \/ (n = 2 /\ IsDeferred /\ currentAlarmTime.time = T)
    PROVE  Goes(T, n)'
  <1>0. alarmFlush' = alarmFlush /\ stored' = stored
    BY DEF setAlarmTime
  <1>1. CASE IsKnown /\ currentAlarmTime.time = t
    <2>1. currentAlarmTime' = currentAlarmTime /\ Goes(T, n)
      BY <1>1, CurrentCases DEF setAlarmTime
    <2> QED
      BY <1>0, <2>1, GoesSame
  <1>2. CASE ~(IsKnown /\ currentAlarmTime.time = t)
    <2>1. /\ currentAlarmTime'.kind = "known" /\ currentAlarmTime'.status = "DIRTY"
          /\ currentAlarmTime'.time = t
      <3>1. currentAlarmTime' = KnownAlarmTime("DIRTY", t)
        BY <1>2 DEF setAlarmTime
      <3> QED
        BY <3>1, KnownType, SMT
    <2>2. WillBeOverwritten(T)'
      BY <2>1 DEF WillBeOverwritten, IsKnown
    <2>3. CASE n = 2 \/ n >= (IF alarmFlush.phase = "idle" THEN 1 ELSE 2)
      BY <1>0, <2>2, <2>3, SMT DEF Goes
    <2>4. CASE IsGone(T)
      BY <1>0, <2>1, <2>4 DEF Goes, IsGone, InFlight, IsKnown
    <2>5. CASE IsBeingOverwritten(T) /\ n >= 1
      BY <1>0, <2>1, <2>5 DEF Goes, IsBeingOverwritten, InFlight, IsKnown
    <2> QED
      BY <2>3, <2>4, <2>5 DEF Goes
  <1> QED
    BY <1>1, <1>2

LEMMA GoesAnswered ==
    ASSUME NEW T \in Alarms, NEW n \in Nat, getAlarmAnswered, CacheShape, Goes(T, n)
    PROVE  Goes(T, n)'
  <1>1. stored' = stored
    BY DEF getAlarmAnswered
  <1>2. /\ alarmFlush'.phase = alarmFlush.phase
        /\ alarmFlush.phase # "idle" => /\ alarmFlush'.change = alarmFlush.change
                                        /\ alarmFlush'.only = alarmFlush.only
    BY FlushCases DEF getAlarmAnswered, AlarmFlushes
  <1>3. CASE currentAlarmTime = UnknownAlarmTime
    <2>1. currentAlarmTime'.kind = "known" /\ currentAlarmTime'.status = "CLEAN"
      BY <1>3 DEF getAlarmAnswered, KnownAlarmTime
    <2>2. IsGone(T)
      BY <1>3 DEF Goes, IsBeingOverwritten, WillBeOverwritten, IsKnown, IsDeferred, Deleting,
         UnknownAlarmTime
    <2> QED
      BY <1>1, <1>2, <2>1, <2>2 DEF Goes, IsGone, InFlight, IsKnown
  <1>4. CASE currentAlarmTime # UnknownAlarmTime
    <2>1. currentAlarmTime' = currentAlarmTime
      BY <1>4 DEF getAlarmAnswered
    <2> QED
      BY <1>1, <1>2, <2>1 DEF Goes, IsGone, IsBeingOverwritten, WillBeOverwritten, InFlight,
         IsKnown, IsDeferred, Deleting
  <1> QED
    BY <1>3, <1>4

(* A flush that starts, or starts over, overwrites what is to go.          *)
LEMMA GoesFlushing ==
    ASSUME NEW T \in Alarms, NEW n \in Nat, NEW retry, NEW gated, flushImplAlarm(retry, gated),
           CacheShape, Goes(T, n), alarmFlush.phase \in {"idle", "sent"},
           IsGone(T) => stored' # T
    PROVE  Goes(T, n)'
  <1>1. /\ alarmFlush'.phase = IF AlarmChange = {} THEN "done" ELSE "waiting"
        /\ alarmFlush'.change = AlarmChange /\ alarmFlush'.only = AlarmTimes
        /\ currentAlarmTime' = IF AlarmChange = {} THEN currentAlarmTime
                               ELSE [currentAlarmTime EXCEPT !.status = "FLUSHING"]
    BY DEF flushImplAlarm, flushImplAfter
  <1>2. CASE /\ AlarmChange = {}
             /\ currentAlarmTime.kind = "unknown" \/ currentAlarmTime.status \in {"CLEAN", "WAITING"}
    <2>1. currentAlarmTime' = currentAlarmTime /\ alarmFlush'.phase = "done"
      BY <1>1, <1>2
    <2>2. IsGone(T)
      BY <1>2, StatusCases
      DEF Goes, IsBeingOverwritten, WillBeOverwritten, IsKnown, IsDeferred, Deleting
    <2> QED
      BY <2>1, <2>2 DEF Goes, IsGone, InFlight, IsKnown
  <1>3. CASE /\ IsKnown /\ AlarmChange = {currentAlarmTime.time} /\ ~IsDeferred
             /\ currentAlarmTime \in KnownTimes
    <2>1. /\ currentAlarmTime'.kind = "known" /\ currentAlarmTime'.status = "FLUSHING"
          /\ currentAlarmTime'.time = currentAlarmTime.time
          /\ alarmFlush'.phase = "waiting"
      BY <1>1, <1>3 DEF KnownTimes
    <2>2. currentAlarmTime.status = "CLEAN" => AlarmChange = {}
      BY <1>3 DEF AlarmChange
    <2>3. currentAlarmTime.time # T
      BY <1>3, <2>2 DEF Goes, IsGone, IsBeingOverwritten, WillBeOverwritten, Deleting
    <2>4. CASE IsGone(T)
      BY <1>1, <1>3, <2>1, <2>3, <2>4 DEF Goes, IsGone, InFlight, IsKnown
    <2>5. CASE ~IsGone(T)
      <3>1. n >= 1
        BY <2>5, SMT DEF Goes
      <3>2. IsBeingOverwritten(T)'
        BY <1>1, <1>3, <2>1, <2>3 DEF IsBeingOverwritten, InFlight, IsKnown
      <3> QED
        BY <3>1, <3>2 DEF Goes
    <2> QED
      BY <2>4, <2>5
  <1>4. CASE /\ IsDeferred /\ AlarmChange = {NoAlarm} /\ ~IsKnown
             /\ currentAlarmTime \in DeferredDeletes
    <2>1. /\ currentAlarmTime'.kind = "deferred" /\ currentAlarmTime'.status = "FLUSHING"
          /\ currentAlarmTime'.time = currentAlarmTime.time
          /\ alarmFlush'.phase = "waiting" /\ T # NoAlarm
      BY <1>1, <1>4, NoRequestIsNone DEF DeferredDeletes
    <2>2. CASE IsGone(T)
      BY <1>1, <1>4, <2>1, <2>2 DEF Goes, IsGone, InFlight, IsKnown
    <2>3. CASE ~IsGone(T)
      <3>1. n >= 1 /\ currentAlarmTime.time = T
        BY <1>4, <2>3, SMT DEF Goes, IsBeingOverwritten, WillBeOverwritten, Deleting
      <3>2. IsBeingOverwritten(T)'
        BY <1>1, <1>4, <2>1, <3>1 DEF IsBeingOverwritten, InFlight, IsKnown, Deleting, IsDeferred
      <3> QED
        BY <3>1, <3>2 DEF Goes
    <2> QED
      BY <2>2, <2>3
  <1> QED
    BY <1>2, <1>3, <1>4, ChangeCases

LEMMA GoesOnly ==
    ASSUME NEW T \in Alarms, NEW n \in Nat, flushImplAlarmOnly, CacheShape, Goes(T, n)
    PROVE  Goes(T, n)'
  <1> DEFINE deferred == alarmFlush.change = {NoAlarm} /\ IsDeferred
  <1>1. /\ currentAlarmTime' = currentAlarmTime /\ stored' = stored
        /\ alarmFlush.phase = "waiting" /\ T \in AlarmTimes
    BY DEF flushImplAlarmOnly, AlarmTimes
  <1>2. /\ alarmFlush'.change = alarmFlush.change
        /\ alarmFlush'.phase = IF deferred /\ ~Deleting THEN "done" ELSE "sent"
        /\ alarmFlush'.only = IF deferred THEN {currentAlarmTime.time} ELSE alarmFlush.only
    <2>1. alarmFlush \in AlarmFlushes
      BY <1>1, FlushCases
    <2> QED
      BY <2>1 DEF flushImplAlarmOnly, AlarmFlushes
  <1>3. CASE IsGone(T)
    BY <1>1, <1>2, <1>3 DEF Goes, IsGone, InFlight, IsKnown
  <1>4. CASE IsBeingOverwritten(T) /\ n >= 1
    <2>1. IsKnown => ~IsDeferred
      BY DEF IsKnown, IsDeferred
    <2>2. IsBeingOverwritten(T)'
      BY <1>1, <1>2, <1>4, <2>1 DEF IsBeingOverwritten, InFlight, IsKnown, IsDeferred, Deleting
    <2> QED
      BY <1>4, <2>2 DEF Goes
  <1>5. CASE WillBeOverwritten(T) /\ n >= 2
    BY <1>1, <1>2, <1>5 DEF Goes, WillBeOverwritten, IsKnown, IsDeferred
  <1> QED
    BY <1>1, <1>3, <1>4, <1>5 DEF Goes

LEMMA GoesWrites ==
    ASSUME NEW T \in Alarms, NEW n \in Nat, StorageWritesAlarm, AlarmCacheInv, Goes(T, n)
    PROVE  Goes(T, n)'
  <1>1. alarmFlush.phase = "sent" /\ stored' = Written /\ CacheShape
    BY DEF StorageWritesAlarm, AlarmCacheInv
  <1>2. alarmFlush'.phase = "done"
    BY <1>1, FlushCases DEF StorageWritesAlarm, AlarmFlushes
  <1>3. /\ currentAlarmTime'.kind = currentAlarmTime.kind
        /\ IsKnown => currentAlarmTime' = currentAlarmTime
        /\ IsDeferred => /\ currentAlarmTime'.status = currentAlarmTime.status
                         /\ currentAlarmTime'.time = currentAlarmTime.time
    BY <1>1, CurrentCases DEF StorageWritesAlarm, SetWasDeleted, Deleting, DeferredDeletes
  <1>4. CASE IsGone(T) \/ IsBeingOverwritten(T)
    <2>1. stored' # T
      BY <1>1, <1>4, WrittenType DEF IsGone, IsBeingOverwritten, InFlight, Applies
    <2>2. IsKnown /\ currentAlarmTime.status # "CLEAN" => currentAlarmTime.time # T
      BY <1>4 DEF IsGone, IsBeingOverwritten, IsKnown, Deleting, IsDeferred
    <2>3. IsGone(T)'
      BY <1>2, <1>3, <2>1, <2>2 DEF IsGone, InFlight, IsKnown
    <2> QED
      BY <2>3 DEF Goes
  <1>5. CASE WillBeOverwritten(T) /\ n >= 2
    BY <1>2, <1>3, <1>5 DEF Goes, WillBeOverwritten, IsKnown, IsDeferred
  <1> QED
    BY <1>1, <1>4, <1>5 DEF Goes

(* The end of a flush is one flush less to wait for.                       *)
LEMMA GoesSucceeds ==
    ASSUME NEW T \in Alarms, NEW n \in Nat, AlarmFlushSucceeds, AlarmCacheInv, Goes(T, n)
    PROVE  /\ n > 0 => Goes(T, n - 1)'
           /\ Goes(T, n)'
  <1>1. /\ alarmFlush.phase = "done" /\ stored' = stored /\ CacheShape
        /\ alarmFlush'.phase = "idle"
    BY DEF AlarmFlushSucceeds, AlarmCacheInv, NoAlarmFlush
  <1>2. \/ currentAlarmTime'.kind = "unknown"
        \/ currentAlarmTime'.kind = "known" /\ currentAlarmTime'.status = "CLEAN"
        \/ /\ currentAlarmTime' = currentAlarmTime
           /\ ~Deleting /\ ~(IsKnown /\ currentAlarmTime.status = "FLUSHING")
    <2>1. IsKnown => ~Deleting
      BY DEF IsKnown, IsDeferred, Deleting
    <2> QED
      BY <2>1 DEF AlarmFlushSucceeds, KnownAlarmTime, UnknownAlarmTime
  <1>3. CASE IsGone(T)
    BY <1>1, <1>2, <1>3 DEF Goes, IsGone, InFlight, IsKnown
  <1>4. CASE WillBeOverwritten(T) /\ n >= 2
    <2>1. IsKnown => ~IsDeferred
      BY DEF IsKnown, IsDeferred
    <2>2. /\ ~(IsKnown /\ currentAlarmTime.status = "FLUSHING")
          /\ ~Deleting
      BY <1>4, <2>1 DEF WillBeOverwritten, Deleting
    <2>3. currentAlarmTime' = currentAlarmTime
      BY <2>2 DEF AlarmFlushSucceeds
    <2>4. WillBeOverwritten(T)'
      BY <1>4, <2>3 DEF WillBeOverwritten, IsKnown, IsDeferred
    <2> QED
      BY <1>1, <1>4, <2>4, SMT DEF Goes
  <1> QED
    BY <1>1, <1>3, <1>4 DEF Goes, IsBeingOverwritten, InFlight

-----------------------------------------------------------------------------
LEMMA ScheduleLocks == ASSUME Schedule(FALSE) PROVE scheduled'.flush /\ scheduled'.gated
  <1>1. (scheduled.gated \/ ~FALSE) = TRUE
    OBVIOUS
  <1> QED
    BY <1>1 DEF Schedule

(* What is secured stays so, as a step lets the change go to storage and   *)
(* leaves the gate locked for it.                                          *)
LEMMA SecuredStays ==
    ASSUME NEW T, Secured(T), Goes(T, 2) => Goes(T, 2)', Goes(T, 0) => Goes(T, 0)',
           ChangeIsGated => ChangeIsGated'
    PROVE  Secured(T)'
  <1>1. CASE IsGone(T)
    <2>1. Goes(T, 0)'
      BY <1>1 DEF Goes
    <2>2. IsGone(T)'
      BY <2>1, SMT DEF Goes
    <2> QED
      BY <2>2 DEF Secured
  <1>2. CASE Goes(T, 2) /\ ChangeIsGated
    BY <1>2 DEF Secured
  <1> QED
    BY <1>1, <1>2 DEF Secured

(* A flush takes over the lock of the change it writes; one that starts    *)
(* over may write a change that the next one is locked for.                *)
LEMMA GatedFlushing ==
    ASSUME CacheShape, ChangeIsGated, NEW retry, NEW gated, flushImplAlarm(retry, gated),
           \/ scheduled.gated => gated
           \/ scheduled' = scheduled /\ gated = alarmFlush.gated,
           currentAlarmTime.kind # "unknown" /\ currentAlarmTime.status = "FLUSHING" =>
              scheduled' = scheduled /\ gated = alarmFlush.gated
    PROVE  ChangeIsGated'
  <1>1. /\ alarmFlush'.gated = gated
        /\ currentAlarmTime' = IF AlarmChange = {} THEN currentAlarmTime
                               ELSE [currentAlarmTime EXCEPT !.status = "FLUSHING"]
    BY DEF flushImplAlarm, flushImplAfter
  <1>2. CASE /\ AlarmChange = {}
             /\ currentAlarmTime.kind = "unknown" \/ currentAlarmTime.status \in {"CLEAN", "WAITING"}
    BY <1>1, <1>2 DEF ChangeIsGated, IsKnown, IsDeferred
  <1>3. CASE /\ IsKnown /\ AlarmChange # {} /\ ~IsDeferred
             /\ currentAlarmTime \in KnownTimes
    <2>1. currentAlarmTime'.kind = "known" /\ currentAlarmTime'.status = "FLUSHING"
      BY <1>1, <1>3 DEF KnownTimes, IsKnown
    <2>2. currentAlarmTime.status \in {"DIRTY", "FLUSHING"}
      BY <1>3, StatusCases DEF AlarmChange
    <2>3. currentAlarmTime.kind # "unknown"
      BY <1>3 DEF IsKnown
    <2>4. scheduled'.gated \/ gated
      BY <1>3, <2>2, <2>3 DEF ChangeIsGated
    <2> QED
      BY <1>1, <2>1, <2>4 DEF ChangeIsGated, IsKnown, IsDeferred
  <1>4. CASE /\ IsDeferred /\ ~IsKnown /\ AlarmChange # {}
             /\ currentAlarmTime \in DeferredDeletes /\ currentAlarmTime.status # "WAITING"
    <2>1. currentAlarmTime'.kind = "deferred" /\ currentAlarmTime'.status = "FLUSHING"
      BY <1>1, <1>4 DEF DeferredDeletes, IsDeferred
    <2>2. currentAlarmTime.status \in {"READY", "FLUSHING"}
      BY <1>4, StatusCases
    <2>3. currentAlarmTime.kind # "unknown"
      BY <1>4 DEF IsDeferred
    <2>4. scheduled'.gated \/ gated
      BY <1>4, <2>2, <2>3 DEF ChangeIsGated
    <2> QED
      BY <1>1, <2>1, <2>4 DEF ChangeIsGated, IsKnown, IsDeferred
  <1> QED
    BY <1>2, <1>3, <1>4, ChangeCases

LEMMA GatedSame ==
    ASSUME ChangeIsGated, currentAlarmTime' = currentAlarmTime, scheduled' = scheduled,
           alarmFlush'.gated = alarmFlush.gated
           \/ ~((IsKnown \/ IsDeferred) /\ currentAlarmTime.status = "FLUSHING")
    PROVE  ChangeIsGated'
  BY DEF ChangeIsGated, IsKnown, IsDeferred

(* A confirmed change is secured.                                          *)
LEMMA SecuredSet ==
    ASSUME NEW T \in Alarms, NEW t \in AlarmTimes, NEW u \in Unconfirmed, ~u,
           setAlarmTime(t, u), t # T, CacheShape,
           (IsDeferred /\ currentAlarmTime.time = T) \/ Secured(T)
    PROVE  Secured(T)'
  <1>0. 2 \in Nat /\ 0 \in Nat
    BY SMT
  <1>1. CASE IsKnown /\ currentAlarmTime.time = t
    <2>1. /\ currentAlarmTime' = currentAlarmTime /\ scheduled' = scheduled
          /\ alarmFlush' = alarmFlush /\ stored' = stored
      BY <1>1 DEF setAlarmTime
    <2>2. Secured(T)
      BY <1>1 DEF IsKnown, IsDeferred
    <2>3. ChangeIsGated => ChangeIsGated'
      BY <2>1, GatedSame
    <2> QED
      BY <2>1, <2>2, <2>3, GoesSame, SecuredStays
  <1>2. CASE ~(IsKnown /\ currentAlarmTime.time = t)
    <2>0. currentAlarmTime' = KnownAlarmTime("DIRTY", t) /\ Schedule(u)
      BY <1>2 DEF setAlarmTime
    <2>1. /\ currentAlarmTime'.kind = "known" /\ currentAlarmTime'.status = "DIRTY"
      BY <2>0, KnownType, SMT
    <2>2. scheduled'.gated
      <3>1. (scheduled.gated \/ ~u) = TRUE
        OBVIOUS
      <3> QED
        BY <2>0, <3>1 DEF Schedule
    <2>3. ChangeIsGated'
      BY <2>1, <2>2 DEF ChangeIsGated, IsKnown, IsDeferred
    <2>4. Goes(T, 2) \/ (IsDeferred /\ currentAlarmTime.time = T)
      BY DEF Secured, Goes
    <2>5. Goes(T, 2)'
      BY <1>0, <2>4, GoesSet
    <2> QED
      BY <2>3, <2>5 DEF Secured
  <1> QED
    BY <1>1, <1>2

LEMMA GatedStays ==
    ASSUME AlarmCacheInv, ChangeIsGated,
           getAlarm \/ StorageReadsAlarm \/ getAlarmAnswered \/ StartAlarmFlush
              \/ flushImplAlarmOnly \/ StorageWritesAlarm \/ AlarmFlushDisconnected
              \/ AlarmFlushSucceeds
    PROVE  ChangeIsGated'
  <1>0. CacheShape /\ ChangeIsFlushed
    BY DEF AlarmCacheInv
  <1>1. CASE getAlarm \/ StorageReadsAlarm
    BY <1>1, GatedSame DEF getAlarm, StorageReadsAlarm
  <1>2. CASE getAlarmAnswered
    <2>1. scheduled' = scheduled /\ alarmFlush'.gated = alarmFlush.gated
      BY <1>0, <1>2, FlushCases DEF getAlarmAnswered, AlarmFlushes
    <2>2. CASE currentAlarmTime = UnknownAlarmTime
      <3>1. currentAlarmTime'.kind = "known" /\ currentAlarmTime'.status = "CLEAN"
        BY <1>2, <2>2 DEF getAlarmAnswered, KnownAlarmTime
      <3> QED
        BY <3>1 DEF ChangeIsGated, IsKnown, IsDeferred
    <2>3. CASE currentAlarmTime # UnknownAlarmTime
      BY <1>2, <2>1, <2>3, GatedSame DEF getAlarmAnswered
    <2> QED
      BY <2>2, <2>3
  <1>3. CASE StartAlarmFlush
    <2>1. /\ flushImplAlarm(0, scheduled.gated) /\ alarmFlush.phase = "idle" /\ ~failed
      BY <1>3 DEF StartAlarmFlush
    <2>2. ~(currentAlarmTime.kind # "unknown" /\ currentAlarmTime.status = "FLUSHING")
      BY <1>0, <2>1 DEF ChangeIsFlushed
    <2> QED
      BY <1>0, <2>1, <2>2, GatedFlushing
  <1>4. CASE AlarmFlushDisconnected
    <2>1. flushImplAlarm(alarmFlush.retry + 1, alarmFlush.gated) /\ scheduled' = scheduled
      BY <1>4 DEF AlarmFlushDisconnected
    <2> QED
      BY <1>0, <2>1, GatedFlushing
  <1>5. CASE flushImplAlarmOnly
    BY <1>0, <1>5, FlushCases, GatedSame DEF flushImplAlarmOnly, AlarmFlushes
  <1>6. CASE StorageWritesAlarm
    <2>1. scheduled' = scheduled /\ alarmFlush'.gated = alarmFlush.gated
      BY <1>0, <1>6, FlushCases DEF StorageWritesAlarm, AlarmFlushes
    <2>2. /\ currentAlarmTime'.kind = currentAlarmTime.kind
          /\ (IsKnown \/ IsDeferred) => currentAlarmTime'.status = currentAlarmTime.status
      BY <1>0, <1>6, CurrentCases DEF StorageWritesAlarm, SetWasDeleted, Deleting, DeferredDeletes
    <2> QED
      BY <2>1, <2>2 DEF ChangeIsGated, IsKnown, IsDeferred
  <1>7. CASE AlarmFlushSucceeds
    <2>1. scheduled' = scheduled
      BY <1>7 DEF AlarmFlushSucceeds
    <2>2. \/ currentAlarmTime'.kind = "unknown"
          \/ currentAlarmTime'.kind = "known" /\ currentAlarmTime'.status = "CLEAN"
          \/ /\ currentAlarmTime' = currentAlarmTime
             /\ ~Deleting /\ ~(IsKnown /\ currentAlarmTime.status = "FLUSHING")
      <3>1. IsKnown => ~Deleting
        BY DEF IsKnown, IsDeferred, Deleting
      <3> QED
        BY <1>7, <3>1 DEF AlarmFlushSucceeds, KnownAlarmTime, UnknownAlarmTime
    <2>3. CASE currentAlarmTime' = currentAlarmTime /\ ~Deleting
                  /\ ~(IsKnown /\ currentAlarmTime.status = "FLUSHING")
      BY <2>1, <2>3, GatedSame DEF Deleting
    <2> QED
      BY <2>2, <2>3 DEF ChangeIsGated, IsKnown, IsDeferred
  <1> QED
    BY <1>1, <1>2, <1>3, <1>4, <1>5, <1>6, <1>7

-----------------------------------------------------------------------------
(* The request that is under way, and what it depends on.                  *)
UnderWay == {"handler", "locks", "gate"}

LEMMA UnderWayFacts ==
    ASSUME AlarmInv, NEW r \in Requests
    PROVE  /\ request[r].stage \in UnderWay =>
                 /\ request[r].time \in Alarms
                 /\ \A q \in Requests : q # r => request[q].stage \notin UnderWay
           /\ request[r].waits \in Nat /\ request[r].waits \in 0..2
           /\ CacheShape /\ AlarmCacheInv /\ AlarmRunsInv
  <1>1. AlarmRunsInv /\ CacheShape /\ AlarmCacheInv
    BY DEF AlarmInv, AlarmCacheInv
  <1>2. request[r] \in AlarmRequests
    BY <1>1, RunningIsActive
  <1>3. request[r].waits \in 0..2 /\ request[r].time \in Alarms \cup {NoAlarm}
    BY <1>2 DEF AlarmRequests, AlarmTimes
  <1>4. request[r].stage \in UnderWay => request[r].time # NoAlarm
    BY <1>1 DEF AlarmRunsInv, RequestsAreTimed, UnderWay
  <1>5. request[r].stage \in UnderWay =>
           \A q \in Requests : q # r => request[q].stage \notin UnderWay
    BY <1>1, RunningIsActive DEF Active, UnderWay
  <1> QED
    BY <1>1, <1>3, <1>4, <1>5, SMT

(* RequestGoes() of the next state, for the values the request has there.  *)
LEMMA GoesThen ==
    ASSUME NEW q \in Requests, NEW T, NEW n, request'[q].time = T, request'[q].waits = n,
           ~failed' /\ T \notin request'[q].since /\ ~request'[q].lax =>
              /\ request'[q].stage = "handler" =>
                    (IsDeferred' /\ currentAlarmTime'.time = T) \/ Secured(T)'
              /\ request'[q].stage = "locks" /\ request'[q].result = "OK" => Secured(T)'
              /\ request'[q].stage = "gate" => Goes(T, n)'
    PROVE  RequestGoes(q)'
  BY DEF RequestGoes, Secured, Goes, IsGone, IsBeingOverwritten, WillBeOverwritten

LEMMA GoingStays ==
    ASSUME NEW q \in Requests, RequestGoes(q), failed' = failed, request'[q] = request[q],
           NEW T, T = request[q].time, NEW n, n = request[q].waits,
           Secured(T) => Secured(T)', Goes(T, n) => Goes(T, n)',
           request[q].stage = "handler" /\ IsDeferred => currentAlarmTime' = currentAlarmTime
    PROVE  RequestGoes(q)'
  <1>1. ~failed /\ T \notin request[q].since /\ ~request[q].lax =>
           /\ request[q].stage = "handler" =>
                 (IsDeferred /\ currentAlarmTime.time = T) \/ Secured(T)
           /\ request[q].stage = "locks" /\ request[q].result = "OK" => Secured(T)
           /\ request[q].stage = "gate" => Goes(T, n)
    BY DEF RequestGoes
  <1>2. request'[q].time = T /\ request'[q].waits = n
    OBVIOUS
  <1>3. request'[q].stage = "handler" /\ IsDeferred /\ currentAlarmTime.time = T =>
           IsDeferred' /\ currentAlarmTime'.time = T
    BY DEF IsDeferred
  <1> QED
    BY <1>1, <1>2, <1>3, GoesThen

(* A request that is not under way owes nothing.                           *)
LEMMA GoesTrivially ==
    ASSUME NEW q \in Requests, request'[q].stage \notin UnderWay
    PROVE  RequestGoes(q)'
  BY DEF RequestGoes, UnderWay

(* The steps of the cache and of its flushes.                              *)
LEMMA CacheStepsGo ==
    ASSUME AlarmInv, DoneGoes,
           getAlarm \/ StorageReadsAlarm \/ getAlarmAnswered \/ StartAlarmFlush
              \/ flushImplAlarmOnly \/ StorageWritesAlarm \/ AlarmFlushDisconnected
              \/ AlarmFlushBreaks
    PROVE  DoneGoes'
  <1> SUFFICES ASSUME NEW q \in Requests PROVE RequestGoes(q)'
    BY DEF DoneGoes
  <1>1. request'[q] = request[q] /\ RequestGoes(q)
    BY DEF DoneGoes, getAlarm, StorageReadsAlarm, getAlarmAnswered, StartAlarmFlush,
       flushImplAlarmOnly, StorageWritesAlarm, AlarmFlushDisconnected, AlarmFlushBreaks, runVars
  <1>2. CASE request[q].stage \notin UnderWay
    BY <1>1, <1>2, GoesTrivially
  <1>3. CASE AlarmFlushBreaks
    BY <1>3 DEF AlarmFlushBreaks, RequestGoes
  <1>4. CASE request[q].stage \in UnderWay /\ ~AlarmFlushBreaks
    <2>1. PICK T \in Alarms : T = request[q].time
      BY <1>4, UnderWayFacts
    <2>2. PICK n \in 0..2 : n = request[q].waits
      BY UnderWayFacts
    <2>3. CacheShape /\ AlarmCacheInv
      BY UnderWayFacts
    <2>4. failed' = failed
      BY <1>4 DEF getAlarm, StorageReadsAlarm, getAlarmAnswered, StartAlarmFlush,
         flushImplAlarmOnly, StorageWritesAlarm, AlarmFlushDisconnected
    <2>5. ASSUME NEW m \in Nat, Goes(T, m) PROVE Goes(T, m)'
      <3>1. CASE getAlarm \/ StorageReadsAlarm
        BY <2>5, <3>1, GoesSame DEF getAlarm, StorageReadsAlarm
      <3>2. CASE getAlarmAnswered
        BY <2>3, <2>5, <3>2, GoesAnswered
      <3>3. CASE StartAlarmFlush
        <4>1. /\ flushImplAlarm(0, scheduled.gated) /\ alarmFlush.phase = "idle"
              /\ stored' = stored
          BY <3>3 DEF StartAlarmFlush
        <4> QED
          BY <2>3, <2>5, <4>1, GoesFlushing DEF IsGone
      <3>4. CASE flushImplAlarmOnly
        BY <2>3, <2>5, <3>4, GoesOnly
      <3>5. CASE StorageWritesAlarm
        BY <2>3, <2>5, <3>5, GoesWrites
      <3>6. CASE AlarmFlushDisconnected
        <4>1. /\ flushImplAlarm(alarmFlush.retry + 1, alarmFlush.gated)
              /\ alarmFlush.phase = "sent" /\ stored' \in {stored, Written}
          BY <3>6 DEF AlarmFlushDisconnected
        <4>2. IsGone(T) => stored' # T
          BY <2>3, <4>1, WrittenType DEF IsGone, InFlight
        <4> QED
          BY <2>3, <2>5, <4>1, <4>2, GoesFlushing
      <3> QED
        BY <1>4, <3>1, <3>2, <3>3, <3>4, <3>5, <3>6
    <2>6. request[q].stage = "handler" /\ IsDeferred => currentAlarmTime' = currentAlarmTime
      <3> SUFFICES ASSUME request[q].stage = "handler", IsDeferred
                   PROVE  currentAlarmTime' = currentAlarmTime
        OBVIOUS
      <3>1. currentAlarmTime.status = "WAITING" /\ ~IsKnown
        BY DEF AlarmInv, HandlerHolds, IsKnown, IsDeferred
      <3>2. AlarmChange = {} /\ ~Deleting /\ currentAlarmTime # UnknownAlarmTime
        BY <3>1, SMT DEF AlarmChange, Deleting, UnknownAlarmTime, IsDeferred
      <3> QED
        BY <1>4, <3>2 DEF getAlarm, StorageReadsAlarm, getAlarmAnswered, StartAlarmFlush,
           flushImplAlarmOnly, StorageWritesAlarm, AlarmFlushDisconnected, flushImplAlarm,
           flushImplAfter, SetWasDeleted
    <2>7. n \in Nat /\ 2 \in Nat /\ 0 \in Nat
      BY <2>2, SMT
    <2>8. ChangeIsGated => ChangeIsGated'
      BY <1>4, <2>3, GatedStays
    <2>9. Secured(T) => Secured(T)'
      BY <2>5, <2>7, <2>8, SecuredStays
    <2> QED
      BY <1>1, <2>1, <2>2, <2>4, <2>5, <2>6, <2>7, <2>9, GoingStays
  <1> QED
    BY <1>2, <1>3, <1>4

LEMMA SetAlarmGoes ==
    ASSUME AlarmInv, DoneGoes, NEW t \in AlarmTimes, NEW u \in Unconfirmed, setAlarmTime(t, u)
    PROVE  DoneGoes'
  <1> SUFFICES ASSUME NEW q \in Requests PROVE RequestGoes(q)'
    BY DEF DoneGoes
  <1>1. /\ request'[q].stage = request[q].stage /\ request'[q].time = request[q].time
        /\ request'[q].waits = request[q].waits /\ request'[q].result = request[q].result
        /\ request[q].since \subseteq request'[q].since
        /\ request[q].stage \in Active => t \in request'[q].since
        /\ request[q].lax => request'[q].lax
        /\ request[q].stage \in Active /\ u => request'[q].lax
    BY SetRequest
  <1>2. CASE request[q].stage \notin UnderWay
    BY <1>1, <1>2, GoesTrivially
  <1>3. CASE request[q].stage \in UnderWay
    <2>1. PICK T \in Alarms : T = request[q].time
      BY <1>3, UnderWayFacts
    <2>2. PICK n \in 0..2 : n = request[q].waits
      BY UnderWayFacts
    <2>3. request[q].stage \in Active
      BY <1>3 DEF UnderWay, Active
    <2>4. ASSUME ~failed', T \notin request'[q].since, ~request'[q].lax
          PROVE  /\ request'[q].stage = "handler" => Secured(T)'
                 /\ request'[q].stage = "locks" /\ request'[q].result = "OK" => Secured(T)'
                 /\ request'[q].stage = "gate" => Goes(T, n)'
      <3>1. T \notin request[q].since /\ t # T /\ ~failed /\ ~request[q].lax /\ ~u
        BY <1>1, <2>3, <2>4 DEF setAlarmTime
      <3>2. /\ request[q].stage = "handler" =>
                  (IsDeferred /\ currentAlarmTime.time = T) \/ Secured(T)
            /\ request[q].stage = "locks" /\ request[q].result = "OK" => Secured(T)
            /\ request[q].stage = "gate" => Goes(T, n)
        BY <2>1, <2>2, <3>1 DEF DoneGoes, RequestGoes
      <3>3. CacheShape /\ n \in Nat /\ 2 \in Nat /\ 0 \in Nat
        BY <2>2, UnderWayFacts
      <3>4. (IsDeferred /\ currentAlarmTime.time = T) \/ Secured(T) => Secured(T)'
        BY <3>1, <3>3, SecuredSet
      <3> QED
        BY <1>1, <3>1, <3>2, <3>3, <3>4, GoesSet
    <2> QED
      BY <1>1, <2>1, <2>2, <2>4, GoesThen
  <1> QED
    BY <1>2, <1>3

LEMMA FlushSucceedsGoes ==
    ASSUME AlarmInv, DoneGoes, AlarmFlushSucceeds
    PROVE  DoneGoes'
  <1> SUFFICES ASSUME NEW q \in Requests PROVE RequestGoes(q)'
    BY DEF DoneGoes
  <1>1. /\ request'[q].stage = request[q].stage /\ request'[q].time = request[q].time
        /\ request'[q].result = request[q].result /\ request'[q].since = request[q].since
        /\ request'[q].lax = request[q].lax
        /\ request'[q].waits = IF request[q].waits > 0 THEN request[q].waits - 1
                               ELSE request[q].waits
    <2>1. request[q] \in AlarmRequests
      BY UnderWayFacts, RunningIsActive
    <2>2. request'[q] = IF request[q].waits > 0 THEN [request[q] EXCEPT !.waits = @ - 1]
                        ELSE request[q]
      BY DEF AlarmFlushSucceeds, FlushOver
    <2> QED
      BY <2>1, <2>2 DEF AlarmRequests
  <1>2. CASE request[q].stage \notin UnderWay
    BY <1>1, <1>2, GoesTrivially
  <1>3. CASE request[q].stage \in UnderWay
    <2>1. PICK T \in Alarms : T = request[q].time
      BY <1>3, UnderWayFacts
    <2>2. PICK n \in 0..2 : n = request[q].waits
      BY UnderWayFacts
    <2>3. PICK m \in 0..2 : m = request'[q].waits /\ m = IF n > 0 THEN n - 1 ELSE n
      BY <1>1, <2>2, SMT
    <2>4. ASSUME ~failed', T \notin request'[q].since, ~request'[q].lax
          PROVE  /\ request'[q].stage = "handler" =>
                       (IsDeferred' /\ currentAlarmTime'.time = T) \/ Secured(T)'
                 /\ request'[q].stage = "locks" /\ request'[q].result = "OK" => Secured(T)'
                 /\ request'[q].stage = "gate" => Goes(T, m)'
      <3>1. T \notin request[q].since /\ ~failed /\ ~request[q].lax
        BY <1>1, <2>4 DEF AlarmFlushSucceeds
      <3>2. /\ request[q].stage = "handler" =>
                  (IsDeferred /\ currentAlarmTime.time = T) \/ Secured(T)
            /\ request[q].stage = "locks" /\ request[q].result = "OK" => Secured(T)
            /\ request[q].stage = "gate" => Goes(T, n)
        BY <2>1, <2>2, <3>1 DEF DoneGoes, RequestGoes
      <3>3. AlarmCacheInv /\ n \in Nat /\ 2 \in Nat /\ 0 \in Nat
        BY <2>2, UnderWayFacts
      <3>4. Goes(T, n) => Goes(T, m)'
        BY <2>3, <3>3, GoesSucceeds
      <3>5. Secured(T) => Secured(T)'
        <4>1. ChangeIsGated => ChangeIsGated'
          BY <3>3, GatedStays
        <4>2. (Goes(T, 2) => Goes(T, 2)') /\ (Goes(T, 0) => Goes(T, 0)')
          BY <3>3, GoesSucceeds
        <4> QED
          BY <4>1, <4>2, SecuredStays
      <3>6. request[q].stage = "handler" /\ IsDeferred => currentAlarmTime' = currentAlarmTime
        <4> SUFFICES ASSUME request[q].stage = "handler", IsDeferred
                     PROVE  currentAlarmTime' = currentAlarmTime
          OBVIOUS
        <4>1. ~Deleting /\ ~IsKnown
          BY DEF AlarmInv, HandlerHolds, IsKnown, IsDeferred, Deleting
        <4> QED
          BY <4>1 DEF AlarmFlushSucceeds
      <3> QED
        BY <1>1, <3>2, <3>4, <3>5, <3>6 DEF IsDeferred
    <2> QED
      BY <1>1, <2>1, <2>3, <2>4, GoesThen
  <1> QED
    BY <1>2, <1>3

-----------------------------------------------------------------------------
(* A time in storage, or a deletion that waits for its handler, is left    *)
(* alone by flushes and by reads.                                          *)
LEMMA SettledStays ==
    ASSUME \/ IsKnown /\ currentAlarmTime.status = "CLEAN"
           \/ IsDeferred /\ currentAlarmTime.status = "WAITING",
           getAlarm \/ StorageReadsAlarm \/ getAlarmAnswered \/ StartAlarmFlush
              \/ flushImplAlarmOnly \/ StorageWritesAlarm \/ AlarmFlushDisconnected
              \/ AlarmFlushBreaks \/ AlarmFlushSucceeds
    PROVE  currentAlarmTime' = currentAlarmTime
  <1>1. /\ ~(IsKnown /\ currentAlarmTime.status # "CLEAN")
        /\ ~(IsDeferred /\ currentAlarmTime.status # "WAITING")
        /\ currentAlarmTime # UnknownAlarmTime
        /\ ~(IsKnown /\ currentAlarmTime.status = "FLUSHING")
    BY SMT DEF IsKnown, IsDeferred, UnknownAlarmTime
  <1>2. AlarmChange = {} /\ ~Deleting
    BY <1>1 DEF AlarmChange, Deleting
  <1> QED
    BY <1>1, <1>2 DEF getAlarm, StorageReadsAlarm, getAlarmAnswered, StartAlarmFlush,
       flushImplAlarmOnly, StorageWritesAlarm, AlarmFlushDisconnected, AlarmFlushBreaks,
       AlarmFlushSucceeds, flushImplAlarm, flushImplAfter, SetWasDeleted

(* What the steps of a request do to the one that is under way.            *)
LEMMA UnderWayKept ==
    ASSUME AlarmInv, NEW r \in Requests, NEW q \in Requests,
           Pull(r) \/ runAlarm(r) \/ handleAlarm(r) \/ DropRequest(r),
           request'[q].stage \in UnderWay
    PROVE  /\ request'[q] = request[q]
           /\ DropRequest(r) => request[r].stage \notin Active
  <1>1. /\ request \in [Requests -> AlarmRequests] /\ AlarmRunsInv
        /\ \A p \in Requests : request[p] \in AlarmRequests
    BY DEF AlarmInv, AlarmRunsInv, RunsShape
  <1>2. CASE Pull(r) \/ handleAlarm(r)
    <2>1. q = r => request'[q].stage \in {"pulled", "starting"}
      BY <1>1, <1>2, SMT DEF Pull, handleAlarm, AlarmRequests
    <2>2. q # r => request'[q] = request[q]
      BY <1>1, <1>2 DEF Pull, handleAlarm
    <2>3. request[r].stage \in {"new", "scheduled"}
      BY <1>2, AlarmAssumption, SMT DEF Pull, handleAlarm, Requests
    <2> QED
      BY <2>1, <2>2, <2>3 DEF UnderWay, Active
  <1>3. CASE runAlarm(r)
    <2>1. "CANCELED" \in Results
      BY DEF Results
    <2>2. /\ Settled(request, maybeScheduledAlarm, "CANCELED") \in [Requests -> AlarmRequests]
          /\ \/ Settled(request, maybeScheduledAlarm, "CANCELED")[q] = request[q]
             \/ Settled(request, maybeScheduledAlarm, "CANCELED")[q].stage = "answered"
      BY <1>1, <2>1, SettledRequests, SMT
    <2>3. q = r => request'[q].stage \in {"joined", "scheduled"}
      BY <1>1, <1>3, <2>2, SMT DEF runAlarm, AlarmRequests
    <2>4. q # r => request'[q] = request[q] \/ request'[q].stage = "answered"
      BY <1>1, <1>3, <2>2 DEF runAlarm
    <2>5. request[r].stage \notin Active
      BY <1>3 DEF runAlarm, Active
    <2> QED
      BY <2>3, <2>4, <2>5 DEF UnderWay
  <1>4. CASE DropRequest(r)
    <2>1. "CANCELED" \in Results
      BY DEF Results
    <2>2. /\ Settled(request, r, "CANCELED") \in [Requests -> AlarmRequests]
          /\ \/ Settled(request, r, "CANCELED")[q] = request[q]
             \/ Settled(request, r, "CANCELED")[q].stage = "answered"
      BY <1>1, <2>1, SettledRequests, SMT
    <2>3. q = r => request'[q].stage = "dropped"
      BY <1>1, <1>4, <2>2 DEF DropRequest, NewRequest
    <2>4. q # r => request'[q] = request[q] \/ request'[q].stage = "answered"
      BY <1>1, <1>4, <2>2 DEF DropRequest
    <2>5. q # r /\ request'[q] = request[q]
      BY <2>3, <2>4 DEF UnderWay
    <2>6. request[r].stage \notin Active
      BY <1>1, <2>5, RunningIsActive DEF UnderWay, Active
    <2> QED
      BY <2>5, <2>6
  <1> QED
    BY <1>2, <1>3, <1>4

LEMMA AnswerEnds ==
    ASSUME AlarmInv, NEW r \in Requests, request[r].stage \in Active,
           NEW result \in Results, Answer(r, result),
           maybeScheduledAlarm' = maybeScheduledAlarm, events' = events,
           NEW q \in Requests
    PROVE  request'[q].stage \notin UnderWay
  <1>1. request'[q].stage \notin Active
    BY AnswerRuns DEF AlarmInv
  <1> QED
    BY <1>1 DEF UnderWay, Active

LEMMA ArmRequest ==
    ASSUME AlarmInv, NEW r \in Requests, StartHandler(r)
    PROVE  \/ \A q \in Requests : request'[q].stage \notin UnderWay
           \/ /\ armAlarmHandler(r)
              /\ \A q \in Requests : q # r => request'[q].stage \notin UnderWay
              /\ request'[r].stage = "handler" /\ request'[r].time = request[r].time
              /\ request'[r].since = request[r].since
              /\ request'[r].ours => ~Superseded(r)
              /\ ~request'[r].lax => (Superseded(r) => PendingIsGated)
  <1>1. /\ request[r] \in AlarmRequests /\ request \in [Requests -> AlarmRequests]
        /\ request[r].stage \in Active
        /\ maybeScheduledAlarm' = maybeScheduledAlarm /\ events' = events
    BY DEF AlarmInv, AlarmRunsInv, RunsShape, StartHandler, Active
  <1>2. CASE armAlarmHandler(r)
    <2>5. \A q \in Requests : q # r => request[q].stage \notin UnderWay
      BY <1>1, RunningIsActive DEF AlarmInv, UnderWay, Active
    <2> QED
      BY <1>1, <1>2, <2>5, ArmedRecord
  <1>3. CASE ArmWithoutHandler(r) \/ NotArmed(r)
    <2>1. \E result \in Results : Answer(r, result)
      BY <1>3 DEF ArmWithoutHandler, NotArmed, Results
    <2> QED
      BY <1>1, <2>1, AnswerEnds
  <1> QED
    BY <1>2, <1>3 DEF StartHandler

LEMMA EndRequest ==
    ASSUME AlarmInv, NEW r \in Requests, HandlerEnds(r)
    PROVE  /\ \A q \in Requests : q # r => request'[q].stage \notin UnderWay
           /\ request'[r].stage = "locks" /\ request'[r].time = request[r].time
           /\ request'[r].since = request[r].since /\ request'[r].ours = request[r].ours
           /\ request'[r].lax = request[r].lax
           /\ \/ HandlerSucceeds(r) /\ request'[r].result = "OK"
              \/ HandlerFails(r) /\ request'[r].result = "RETRY"
  <1>1. /\ request[r] \in AlarmRequests /\ request \in [Requests -> AlarmRequests]
        /\ request[r].stage \in Active
    BY DEF AlarmInv, AlarmRunsInv, RunsShape, HandlerEnds, Active
  <1>2. \A q \in Requests : q # r => request'[q] = request[q]
    BY <1>1 DEF HandlerEnds, HandlerSucceeds, HandlerFails
  <1>3. \A q \in Requests : q # r => request[q].stage \notin UnderWay
    BY <1>1, RunningIsActive DEF AlarmInv, UnderWay, Active
  <1>4. CASE HandlerSucceeds(r)
    <2>1. PICK s \in {scheduled, scheduled'} :
             request' = [request EXCEPT ![r].stage = "locks", ![r].result = "OK",
                                        ![r].waits = Locks(s)]
      BY <1>4 DEF HandlerSucceeds
    <2>2. /\ request'[r].stage = "locks" /\ request'[r].time = request[r].time
          /\ request'[r].since = request[r].since /\ request'[r].ours = request[r].ours
          /\ request'[r].lax = request[r].lax /\ request'[r].result = "OK"
      BY <1>1, <2>1 DEF AlarmRequests
    <2> QED
      BY <1>2, <1>3, <1>4, <2>2
  <1>5. CASE HandlerFails(r)
    <2>1. request'[r] = [request[r] EXCEPT !.stage = "locks", !.result = "RETRY",
                                           !.waits = Locks(scheduled)]
      BY <1>1, <1>5 DEF HandlerFails
    <2>2. /\ request'[r].stage = "locks" /\ request'[r].time = request[r].time
          /\ request'[r].since = request[r].since /\ request'[r].ours = request[r].ours
          /\ request'[r].lax = request[r].lax /\ request'[r].result = "RETRY"
      BY <1>1, <2>1 DEF AlarmRequests
    <2> QED
      BY <1>2, <1>3, <1>5, <2>2
  <1> QED
    BY <1>4, <1>5 DEF HandlerEnds

LEMMA ReleaseRequest ==
    ASSUME AlarmInv, NEW r \in Requests, LocksReleased(r) \/ GateReleased(r)
    PROVE  \/ \A q \in Requests : request'[q].stage \notin UnderWay
           \/ /\ \A q \in Requests : q # r => request'[q].stage \notin UnderWay
              /\ request'[r].stage = "gate" /\ request'[r].time = request[r].time
              /\ request'[r].since = request[r].since /\ request'[r].result = "OK"
              /\ request'[r].waits = Locks(scheduled) /\ request'[r].lax = request[r].lax
              /\ request[r].stage = "locks" /\ request[r].waits = 0 /\ ~failed
              /\ request[r].result = "OK"
  <1>1. /\ request[r] \in AlarmRequests /\ request \in [Requests -> AlarmRequests]
        /\ request[r].stage \in Active
        /\ maybeScheduledAlarm' = maybeScheduledAlarm /\ events' = events
    BY DEF AlarmInv, AlarmRunsInv, RunsShape, LocksReleased, GateReleased, Active, countVars
  <1>2. CASE /\ LocksReleased(r) /\ ~failed /\ request[r].result = "OK"
    <2>1. \A q \in Requests : q # r => request'[q] = request[q]
      BY <1>1, <1>2 DEF LocksReleased
    <2>2. \A q \in Requests : q # r => request[q].stage \notin UnderWay
      BY <1>1, RunningIsActive DEF AlarmInv, UnderWay, Active
    <2>3. request'[r] = [request[r] EXCEPT !.stage = "gate", !.waits = Locks(scheduled)]
      BY <1>1, <1>2 DEF LocksReleased
    <2>4. /\ request'[r].stage = "gate" /\ request'[r].time = request[r].time
          /\ request'[r].since = request[r].since /\ request'[r].result = request[r].result
          /\ request'[r].waits = Locks(scheduled) /\ request'[r].lax = request[r].lax
      BY <1>1, <2>3 DEF AlarmRequests
    <2>5. request[r].stage = "locks" /\ request[r].waits = 0
      BY <1>2 DEF LocksReleased
    <2> QED
      BY <1>2, <2>1, <2>2, <2>4, <2>5
  <1>3. CASE ~(LocksReleased(r) /\ ~failed /\ request[r].result = "OK")
    <2>1. \E result \in Results : Answer(r, result)
      BY <1>3 DEF LocksReleased, GateReleased, Results
    <2> QED
      BY <1>1, <2>1, AnswerEnds
  <1> QED
    BY <1>2, <1>3

(* The steps of the requests.                                              *)
LEMMA ArmedGoes ==
    ASSUME AlarmInv, NEW r \in Requests, StartHandler(r), armAlarmHandler(r),
           NEW T \in Alarms, T = request[r].time, Superseded(r) => PendingIsGated
    PROVE  (IsDeferred' /\ currentAlarmTime'.time = T) \/ Secured(T)'
  <1>1. /\ alarmFlush' = alarmFlush /\ stored' = stored /\ ~failed /\ T \in AlarmTimes
        /\ CacheShape /\ ChangeIsFlushed /\ FlushIsOfCurrent
    BY DEF StartHandler, armAlarmHandler, AlarmTimes, AlarmInv, AlarmCacheInv
  <1>2. CASE ~Superseded(r)
    <2>1. currentAlarmTime' = DeferredAlarmDelete("WAITING", T, "unset")
      BY <1>2 DEF armAlarmHandler
    <2> QED
      BY <2>1 DEF DeferredAlarmDelete, IsDeferred
  <1>3. CASE Superseded(r)
    <2>1. /\ currentAlarmTime' = currentAlarmTime /\ IsKnown
          /\ currentAlarmTime.status # "CLEAN" /\ currentAlarmTime.time # T
      BY <1>3 DEF armAlarmHandler, Superseded, Pending
    <2>2. currentAlarmTime.status \in {"DIRTY", "FLUSHING"}
      BY <1>1, <2>1, CurrentCases DEF KnownTimes
    <2>3. Goes(T, 2)
      <3>1. CASE currentAlarmTime.status = "DIRTY"
        BY <2>1, <3>1, SMT DEF Goes, WillBeOverwritten
      <3>2. CASE currentAlarmTime.status = "FLUSHING" /\ InFlight
        <4>1. alarmFlush.change = {currentAlarmTime.time} /\ alarmFlush.only = AlarmTimes
          BY <1>1, <2>1, <3>2 DEF FlushIsOfCurrent
        <4>2. IsBeingOverwritten(T)
          BY <1>1, <2>1, <3>2, <4>1 DEF IsBeingOverwritten
        <4> QED
          BY <4>2, SMT DEF Goes
      <3>3. CASE currentAlarmTime.status = "FLUSHING" /\ ~InFlight
        <4>1. alarmFlush.phase = "done"
          BY <1>1, <2>1, <3>3, FlushCases DEF ChangeIsFlushed, InFlight, AlarmFlushes, IsKnown
        <4>2. stored # T
          BY <1>1, <2>1, <3>3, <4>1 DEF FlushIsOfCurrent
        <4> QED
          BY <2>1, <3>3, <4>2 DEF Goes, IsGone
      <3> QED
        BY <2>2, <3>1, <3>2, <3>3
    <2>4. ChangeIsGated'
      <3>1. scheduled' = scheduled
        BY DEF armAlarmHandler
      <3> QED
        BY <1>1, <1>3, <2>1, <2>2, <3>1 DEF PendingIsGated, ChangeIsGated, IsKnown, IsDeferred
    <2> QED
      BY <1>1, <2>1, <2>3, <2>4, GoesSame DEF Secured
  <1> QED
    BY <1>2, <1>3

(* How many flushes hold the output gate.                                  *)
LEMMA LocksCount ==
    ASSUME NEW s
    PROVE  /\ s.gated => Locks(s) = IF alarmFlush.phase = "idle" THEN 1 ELSE 2
           /\ alarmFlush.phase # "idle" /\ alarmFlush.gated => Locks(s) >= 1
           /\ Locks(s) \in Nat
  BY SMT DEF Locks

(* When the deleter goes away the deletion is secured.                     *)
LEMMA SuccessGoes ==
    ASSUME AlarmInv, NEW r \in Requests, HandlerEnds(r), HandlerSucceeds(r),
           NEW T \in Alarms, (IsDeferred /\ currentAlarmTime.time = T) \/ Secured(T)
    PROVE  Secured(T)'
  <1>1. /\ alarmFlush' = alarmFlush /\ stored' = stored /\ CacheShape /\ DisposeDeleter
        /\ IsDeferred => currentAlarmTime.status = "WAITING"
    BY DEF HandlerEnds, HandlerSucceeds, AlarmInv, AlarmCacheInv, HandlerHolds
  <1>2. CASE IsDeferred
    <2>1. /\ currentAlarmTime'.kind = "deferred" /\ currentAlarmTime'.status = "READY"
          /\ currentAlarmTime'.time = currentAlarmTime.time /\ scheduled'.gated
          /\ ~IsKnown
      BY <1>1, <1>2, CurrentCases, ScheduleLocks DEF DisposeDeleter, DeferredDeletes, IsKnown,
         IsDeferred
    <2>2. CASE currentAlarmTime.time = T
      <3>1. WillBeOverwritten(T)'
        BY <2>1, <2>2 DEF WillBeOverwritten, IsDeferred
      <3>2. Goes(T, 2)'
        BY <3>1, SMT DEF Goes
      <3>3. ChangeIsGated'
        BY <2>1 DEF ChangeIsGated
      <3> QED
        BY <3>2, <3>3 DEF Secured
    <2>3. CASE currentAlarmTime.time # T
      <3>1. IsGone(T)
        BY <1>1, <1>2, <2>1, <2>3
        DEF Secured, Goes, IsBeingOverwritten, WillBeOverwritten, Deleting
      <3> QED
        BY <1>1, <2>1, <3>1 DEF Secured, IsGone, InFlight, IsKnown
    <2> QED
      BY <2>2, <2>3
  <1>3. CASE ~IsDeferred
    <2>1. currentAlarmTime' = currentAlarmTime /\ scheduled' = scheduled
      BY <1>1, <1>3 DEF DisposeDeleter
    <2>2. ChangeIsGated => ChangeIsGated'
      BY <1>1, <2>1, GatedSame
    <2> QED
      BY <1>1, <1>3, <2>1, <2>2, GoesSame, SecuredStays
  <1> QED
    BY <1>2, <1>3

(* What is secured goes with the locks there are, and the output gate can  *)
(* be waited for.                                                          *)
LEMMA GateGoes ==
    ASSUME CacheShape, NEW T \in Alarms, Secured(T), NEW n, n = Locks(scheduled)
    PROVE  Goes(T, n)
  <1>1. CASE IsGone(T)
    BY <1>1 DEF Goes
  <1>2. CASE IsBeingOverwritten(T) /\ ChangeIsGated
    <2>1. /\ alarmFlush.phase # "idle"
          /\ (IsKnown /\ currentAlarmTime.status # "CLEAN") \/ Deleting
      BY <1>2 DEF IsBeingOverwritten, InFlight
    <2>2. CASE scheduled.gated
      <3>1. n = 2
        BY <2>1, <2>2, LocksCount
      <3>2. n >= 1
        BY <3>1, SMT
      <3> QED
        BY <1>2, <3>2 DEF Goes
    <2>3. CASE alarmFlush.gated
      <3>1. n >= 1
        BY <2>1, <2>3, LocksCount
      <3> QED
        BY <1>2, <3>1 DEF Goes
    <2>4. scheduled.gated \/ alarmFlush.gated
      <3>1. CASE IsKnown /\ currentAlarmTime.status # "CLEAN"
        BY <1>2, <3>1, StatusCases DEF ChangeIsGated
      <3>2. CASE Deleting
        BY <1>2, <3>2 DEF ChangeIsGated, Deleting
      <3> QED
        BY <2>1, <3>1, <3>2
    <2> QED
      BY <2>2, <2>3, <2>4
  <1>3. CASE WillBeOverwritten(T) /\ ChangeIsGated
    <2>1. scheduled.gated
      BY <1>3 DEF WillBeOverwritten, ChangeIsGated
    <2>2. n = IF alarmFlush.phase = "idle" THEN 1 ELSE 2
      BY <2>1, LocksCount
    <2> QED
      BY <1>3, <2>2, SMT DEF Goes
  <1> QED
    BY <1>1, <1>2, <1>3 DEF Secured, Goes

LEMMA RequestStepsGo ==
    ASSUME AlarmInv, DoneGoes, NEW r \in Requests,
           Pull(r) \/ runAlarm(r) \/ handleAlarm(r) \/ StartHandler(r) \/ HandlerEnds(r)
              \/ LocksReleased(r) \/ GateReleased(r) \/ DropRequest(r)
    PROVE  DoneGoes'
  <1> SUFFICES ASSUME NEW q \in Requests, request'[q].stage \in UnderWay PROVE RequestGoes(q)'
    BY GoesTrivially DEF DoneGoes
  <1>0. RequestGoes(q) /\ failed' = failed /\ alarmFlush' = alarmFlush /\ stored' = stored
    BY DEF DoneGoes, Pull, runAlarm, handleAlarm, StartHandler, HandlerEnds, LocksReleased,
       GateReleased, DropRequest, cacheVars
  <1>1. CASE Pull(r) \/ runAlarm(r) \/ handleAlarm(r) \/ DropRequest(r)
    <2>1. /\ request'[q] = request[q]
          /\ DropRequest(r) => request[r].stage \notin Active
      BY <1>1, UnderWayKept
    <2>2. currentAlarmTime' = currentAlarmTime
      BY <1>1, <2>1 DEF Pull, runAlarm, handleAlarm, DropRequest, cacheVars, Active
    <2>3. PICK T : T = request[q].time
      OBVIOUS
    <2>4. PICK n : n = request[q].waits
      OBVIOUS
    <2>5. scheduled' = scheduled
      BY <1>1, <2>1 DEF Pull, runAlarm, handleAlarm, DropRequest, cacheVars, Active
    <2>6. ChangeIsGated => ChangeIsGated'
      BY <1>0, <2>2, <2>5, GatedSame
    <2>7. Secured(T) => Secured(T)'
      BY <1>0, <2>2, <2>6, GoesSame, SecuredStays
    <2> QED
      BY <1>0, <2>1, <2>2, <2>3, <2>4, <2>7, GoesSame, GoingStays
  <1>2. CASE StartHandler(r)
    <2>1. /\ q = r /\ armAlarmHandler(r) /\ request'[r].stage = "handler"
          /\ request'[r].time = request[r].time /\ request[r].time \in Alarms
          /\ ~request'[r].lax => (Superseded(r) => PendingIsGated)
      <3>1. request[r].time \in Alarms
        BY <1>2, RunningIsActive
        DEF StartHandler, AlarmInv, AlarmRunsInv, RequestsAreTimed, AlarmRequests, AlarmTimes
      <3> QED
        BY <1>2, <3>1, ArmRequest
    <2>2. PICK T \in Alarms : T = request[r].time
      BY <2>1
    <2>3. ~request'[r].lax => (IsDeferred' /\ currentAlarmTime'.time = T) \/ Secured(T)'
      BY <1>2, <2>1, <2>2, ArmedGoes
    <2> QED
      BY <2>1, <2>2, <2>3, GoesThen
  <1>3. CASE HandlerEnds(r)
    <2>1. /\ q = r /\ request'[r].stage = "locks" /\ request'[r].time = request[r].time
          /\ request'[r].since = request[r].since
          /\ request'[r].lax = request[r].lax
          /\ \/ HandlerSucceeds(r)
             \/ HandlerFails(r) /\ request'[r].result = "RETRY"
      BY <1>3, EndRequest
    <2>2. request[r].stage = "handler" /\ request[r].stage \in UnderWay
      BY <1>3 DEF HandlerEnds, UnderWay
    <2>3. PICK T \in Alarms : T = request[r].time
      BY <2>2, UnderWayFacts
    <2>4. CASE HandlerSucceeds(r)
      <3>1. PICK n : n = request'[r].waits
        OBVIOUS
      <3>2. ~failed /\ T \notin request[r].since /\ ~request[r].lax =>
               (IsDeferred /\ currentAlarmTime.time = T) \/ Secured(T)
        BY <1>0, <2>1, <2>2, <2>3 DEF RequestGoes
      <3>3. ~failed /\ T \notin request[r].since /\ ~request[r].lax => Secured(T)'
        BY <1>3, <2>4, <3>2, SuccessGoes
      <3> QED
        BY <1>0, <2>1, <2>3, <3>1, <3>3, GoesThen
    <2>5. CASE request'[r].result = "RETRY"
      BY <2>1, <2>5 DEF RequestGoes
    <2> QED
      BY <2>1, <2>4, <2>5
  <1>4. CASE LocksReleased(r) \/ GateReleased(r)
    <2>1. /\ q = r /\ request'[r].stage = "gate" /\ request'[r].time = request[r].time
          /\ request'[r].since = request[r].since /\ request'[r].lax = request[r].lax
          /\ request'[r].waits = Locks(scheduled)
          /\ request[r].stage = "locks" /\ request[r].result = "OK"
      BY <1>4, ReleaseRequest
    <2>2. PICK T \in Alarms : T = request[r].time
      BY <2>1, UnderWayFacts DEF UnderWay
    <2>3. PICK n : n = Locks(scheduled)
      OBVIOUS
    <2>4. ~failed /\ T \notin request[r].since /\ ~request[r].lax => Secured(T)
      BY <1>0, <2>1, <2>2 DEF RequestGoes
    <2>5. currentAlarmTime' = currentAlarmTime
      BY <1>4 DEF LocksReleased, GateReleased, cacheVars
    <2>6. Secured(T) => Goes(T, n)'
      BY <1>0, <2>3, <2>5, GateGoes, GoesSame DEF AlarmInv, AlarmCacheInv
    <2> QED
      BY <1>0, <2>1, <2>2, <2>3, <2>4, <2>6, GoesThen
  <1> QED
    BY <1>1, <1>2, <1>3, <1>4

-----------------------------------------------------------------------------
(* A step of the cache leaves the stages of the requests alone.            *)
LEMMA CacheKeepsRequests ==
    ASSUME AlarmInv, NEW q \in Requests,
           getAlarm \/ StorageReadsAlarm \/ getAlarmAnswered \/ StartAlarmFlush
              \/ flushImplAlarmOnly \/ StorageWritesAlarm \/ AlarmFlushDisconnected
              \/ AlarmFlushBreaks \/ AlarmFlushSucceeds
    PROVE  /\ request'[q].stage = request[q].stage /\ request'[q].time = request[q].time
           /\ request'[q].result = request[q].result /\ request'[q].since = request[q].since
           /\ request'[q].ours = request[q].ours /\ outdated' = outdated
  <1>1. request[q] \in AlarmRequests
    BY UnderWayFacts, RunningIsActive
  <1>2. CASE AlarmFlushSucceeds
    <2>1. request'[q] = IF request[q].waits > 0 THEN [request[q] EXCEPT !.waits = @ - 1]
                        ELSE request[q]
      BY <1>2 DEF AlarmFlushSucceeds, FlushOver
    <2>2. outdated' = outdated
      BY <1>2 DEF AlarmFlushSucceeds, countVars
    <2> QED
      BY <1>1, <2>1, <2>2 DEF AlarmRequests
  <1>3. CASE ~AlarmFlushSucceeds
    BY <1>3 DEF getAlarm, StorageReadsAlarm, getAlarmAnswered, StartAlarmFlush,
       flushImplAlarmOnly, StorageWritesAlarm, AlarmFlushDisconnected, AlarmFlushBreaks, runVars,
       countVars
  <1> QED
    BY <1>2, <1>3

LEMMA SetKeepsRequests ==
    ASSUME AlarmInv, NEW q \in Requests, NEW t \in AlarmTimes, NEW u \in Unconfirmed,
           setAlarmTime(t, u)
    PROVE  /\ request'[q].stage = request[q].stage /\ request'[q].result = request[q].result
           /\ request[q].stage \in Active => t \in request'[q].since
  BY SetRequest

LEMMA FailedStaysStep ==
    ASSUME AlarmInv, FailedStays, [ActorAlarmNext]_alarmVars
    PROVE  FailedStays'
  <1> SUFFICES ASSUME NEW q \in Requests, request'[q].ours, request'[q].since = {}, ~outdated'
               PROVE  /\ request'[q].stage = "handler" =>
                            IsDeferred' /\ currentAlarmTime'.time = request'[q].time
                      /\ request'[q].stage = "locks" /\ request'[q].result = "RETRY" =>
                            /\ IsKnown' /\ currentAlarmTime'.status = "CLEAN"
                            /\ currentAlarmTime'.time = request'[q].time
    BY DEF FailedStays
  <1> DEFINE Kept ==
                /\ request'[q].stage = "handler" =>
                      IsDeferred' /\ currentAlarmTime'.time = request'[q].time
                /\ request'[q].stage = "locks" /\ request'[q].result = "RETRY" =>
                      /\ IsKnown' /\ currentAlarmTime'.status = "CLEAN"
                      /\ currentAlarmTime'.time = request'[q].time
  <1>0. request[q].ours /\ request[q].since = {} /\ ~outdated =>
           /\ request[q].stage = "handler" =>
                 /\ IsDeferred /\ currentAlarmTime.time = request[q].time
                 /\ currentAlarmTime.status = "WAITING"
           /\ request[q].stage = "locks" /\ request[q].result = "RETRY" =>
                 /\ IsKnown /\ currentAlarmTime.status = "CLEAN"
                 /\ currentAlarmTime.time = request[q].time
    BY DEF FailedStays, AlarmInv, HandlerHolds
  <1>1. CASE \E t \in AlarmTimes, u \in Unconfirmed : setAlarmTime(t, u)
    BY <1>1, SetKeepsRequests DEF Active
  <1>2. CASE getAlarm \/ StorageReadsAlarm \/ getAlarmAnswered \/ StartAlarmFlush
                \/ flushImplAlarmOnly \/ StorageWritesAlarm \/ AlarmFlushDisconnected
                \/ AlarmFlushBreaks \/ AlarmFlushSucceeds
    <2>1. /\ request'[q].stage = request[q].stage /\ request'[q].time = request[q].time
          /\ request'[q].result = request[q].result
          /\ request[q].ours /\ request[q].since = {} /\ ~outdated
      BY <1>2, CacheKeepsRequests
    <2>2. request[q].stage = "handler" \/ (request[q].stage = "locks" /\ request[q].result = "RETRY")
             => currentAlarmTime' = currentAlarmTime
      BY <1>0, <1>2, <2>1, SettledStays
    <2> QED
      BY <1>0, <2>1, <2>2 DEF IsKnown, IsDeferred
  <1>3. ASSUME NEW r \in Requests,
               Pull(r) \/ runAlarm(r) \/ handleAlarm(r) \/ DropRequest(r)
        PROVE  Kept
    <2> SUFFICES ASSUME request'[q].stage \in {"handler", "locks"} PROVE Kept
      OBVIOUS
    <2>1. request'[q] = request[q] /\ (DropRequest(r) => request[r].stage \notin Active)
      BY <1>3, UnderWayKept DEF UnderWay
    <2>2. currentAlarmTime' = currentAlarmTime /\ outdated' = outdated
      BY <1>3, <2>1 DEF Pull, runAlarm, handleAlarm, DropRequest, cacheVars, countVars, Active
    <2> QED
      BY <1>0, <2>1, <2>2 DEF IsKnown, IsDeferred
  <1>4. ASSUME NEW r \in Requests, StartHandler(r)
        PROVE  Kept
    <2> SUFFICES ASSUME request'[q].stage \in {"handler", "locks"} PROVE Kept
      OBVIOUS
    <2>1. /\ q = r /\ armAlarmHandler(r) /\ ~Superseded(r) /\ request'[r].stage = "handler"
          /\ request'[r].time = request[r].time
      BY <1>4, ArmRequest DEF UnderWay
    <2>2. currentAlarmTime' = DeferredAlarmDelete("WAITING", request[r].time, "unset")
      BY <2>1 DEF armAlarmHandler
    <2> QED
      BY <2>1, <2>2 DEF DeferredAlarmDelete, IsDeferred
  <1>5. ASSUME NEW r \in Requests, HandlerEnds(r)
        PROVE  Kept
    <2> SUFFICES ASSUME request'[q].stage = "locks", request'[q].result = "RETRY" PROVE Kept
      BY <1>5, EndRequest DEF UnderWay
    <2>1. /\ q = r /\ HandlerFails(r) /\ request'[r].time = request[r].time
          /\ request'[r].since = request[r].since /\ request'[r].ours = request[r].ours
          /\ request[r].stage = "handler" /\ outdated' = outdated
      BY <1>5, EndRequest DEF UnderWay, HandlerEnds, countVars
    <2>2. IsDeferred /\ currentAlarmTime.time = request[r].time
      BY <1>0, <2>1
    <2>3. currentAlarmTime' = KnownAlarmTime("CLEAN", request[r].time)
      BY <2>1, <2>2 DEF HandlerFails
    <2> QED
      BY <2>1, <2>3 DEF KnownAlarmTime, IsKnown
  <1>6. ASSUME NEW r \in Requests, LocksReleased(r) \/ GateReleased(r)
        PROVE  Kept
    BY <1>6, ReleaseRequest DEF UnderWay
  <1>7. CASE UNCHANGED alarmVars
    BY <1>0, <1>7 DEF alarmVars, cacheVars, runVars, countVars, IsKnown, IsDeferred
  <1> QED
    BY <1>1, <1>2, <1>3, <1>4, <1>5, <1>6, <1>7 DEF ActorAlarmNext

(* Which step answers a running request, and with what.                    *)
LEMMA WhoAnswers ==
    ASSUME AlarmInv, [ActorAlarmNext]_alarmVars, NEW q \in Requests,
           request[q].stage \in Active, request'[q].stage = "answered",
           request'[q].result \in {"OK", "RETRY"}
    PROVE  \/ LocksReleased(q) /\ request'[q].result = "RETRY"
           \/ GateReleased(q) /\ request'[q].result = "OK" /\ ~failed
  <1>0. /\ request \in [Requests -> AlarmRequests] /\ AlarmRunsInv /\ "answered" \notin Active
        /\ request[q].stage # "joined" /\ request[q].stage # "answered"
    BY DEF AlarmInv, AlarmRunsInv, RunsShape, Active
  <1>1. ASSUME NEW r, NEW result \in Results,
               Settled(request, r, result)[q].stage = "answered"
        PROVE  q = r /\ Settled(request, r, result)[q].result = result
    <2>1. IsFor(q, r)
      BY <1>0, <1>1, SettledRequests, SMT
    <2> QED
      BY <1>0, <2>1, SettledRequests, SMT DEF IsFor
  <1>2. CASE \E t \in AlarmTimes, u \in Unconfirmed : setAlarmTime(t, u)
    BY <1>0, <1>2, SetKeepsRequests
  <1>3. CASE getAlarm \/ StorageReadsAlarm \/ getAlarmAnswered \/ StartAlarmFlush
                \/ flushImplAlarmOnly \/ StorageWritesAlarm \/ AlarmFlushDisconnected
                \/ AlarmFlushBreaks \/ AlarmFlushSucceeds
    BY <1>0, <1>3, CacheKeepsRequests
  <1>4. ASSUME NEW r \in Requests, Pull(r) \/ handleAlarm(r)
        PROVE  FALSE
    <2>1. q = r => request'[q].stage \in {"pulled", "starting"}
      BY <1>0, <1>4 DEF Pull, handleAlarm, AlarmRequests
    <2>2. q # r => request'[q] = request[q]
      BY <1>0, <1>4 DEF Pull, handleAlarm
    <2> QED
      BY <1>0, <2>1, <2>2
  <1>5. ASSUME NEW r \in Requests, runAlarm(r)
        PROVE  FALSE
    <2>1. q # r /\ "CANCELED" \in Results
      BY <1>5 DEF runAlarm, Active, Results
    <2>2. request'[q] = request[q] \/ request'[q] = Settled(request, maybeScheduledAlarm, "CANCELED")[q]
      BY <1>0, <1>5, <2>1, SettledRequests, SMT DEF runAlarm
    <2> QED
      BY <1>0, <1>1, <2>1, <2>2
  <1>6. ASSUME NEW r \in Requests, DropRequest(r)
        PROVE  FALSE
    <2>1. "CANCELED" \in Results
      BY DEF Results
    <2>2. /\ q = r => request'[q].stage = "dropped"
          /\ q # r => \/ request'[q] = request[q]
                      \/ request'[q] = Settled(request, r, "CANCELED")[q]
      BY <1>0, <1>6, <2>1, SettledRequests, SMT DEF DropRequest, NewRequest
    <2> QED
      BY <1>0, <1>1, <2>1, <2>2
  <1>7. ASSUME NEW r \in Requests, StartHandler(r)
        PROVE  FALSE
    <2>1. CASE armAlarmHandler(r)
      <3>1. q = r => request'[q].stage = "handler"
        BY <1>0, <2>1 DEF armAlarmHandler, AlarmRequests
      <3>2. q # r => request'[q] = request[q]
        BY <1>0, <2>1 DEF armAlarmHandler
      <3> QED
        BY <1>0, <3>1, <3>2
    <2>2. CASE ArmWithoutHandler(r) \/ NotArmed(r)
      <3>1. \E result \in {"SCRIPT_NOT_FOUND", "FAILED", "CANCELED"} :
               request' = Settled(request, r, result)
        BY <2>2 DEF ArmWithoutHandler, NotArmed, Answer
      <3> QED
        BY <1>1, <3>1 DEF Results
    <2> QED
      BY <1>7, <2>1, <2>2 DEF StartHandler
  <1>8. ASSUME NEW r \in Requests, HandlerEnds(r)
        PROVE  FALSE
    <2>1. q # r => request'[q] = request[q]
      BY <1>0, <1>8 DEF HandlerEnds, HandlerSucceeds, HandlerFails
    <2> QED
      BY <1>0, <1>8, <2>1, EndRequest
  <1>9. ASSUME NEW r \in Requests, LocksReleased(r) \/ GateReleased(r)
        PROVE  \/ LocksReleased(q) /\ request'[q].result = "RETRY"
               \/ GateReleased(q) /\ request'[q].result = "OK" /\ ~failed
    <2>1. CASE LocksReleased(r) /\ ~failed /\ request[r].result = "OK"
      <3>1. q = r => request'[q].stage = "gate"
        BY <1>0, <2>1 DEF LocksReleased, AlarmRequests
      <3>2. q # r => request'[q] = request[q]
        BY <1>0, <2>1 DEF LocksReleased
      <3> QED
        BY <1>0, <3>1, <3>2
    <2>2. CASE LocksReleased(r) /\ ~(~failed /\ request[r].result = "OK")
      <3>1. request' = Settled(request, r, "RETRY")
        BY <2>2 DEF LocksReleased, Answer
      <3> QED
        BY <1>1, <2>2, <3>1 DEF Results
    <2>3. CASE GateReleased(r)
      <3>1. request' = Settled(request, r, IF failed THEN "FAILED" ELSE "OK")
        BY <2>3 DEF GateReleased, Answer
      <3> QED
        BY <1>1, <2>3, <3>1 DEF Results
    <2> QED
      BY <1>9, <2>1, <2>2, <2>3
  <1>10. CASE UNCHANGED alarmVars
    BY <1>0, <1>10 DEF alarmVars, runVars
  <1> QED
    BY <1>2, <1>3, <1>4, <1>5, <1>6, <1>7, <1>8, <1>9, <1>10 DEF ActorAlarmNext

FailedInv == AlarmInv /\ FailedStays

LEMMA FailedInvHolds == ActorAlarmSpec => []FailedInv
  <1>1. ActorAlarmInit => FailedInv
    <2> SUFFICES ASSUME ActorAlarmInit PROVE FailedInv
      OBVIOUS
    <2>1. \A r \in Requests : request[r].stage = "new"
      BY DEF ActorAlarmInit, NewRequest
    <2> QED
      BY <2>1, ActorAlarmInitInv DEF FailedInv, FailedStays
  <1>2. FailedInv /\ [ActorAlarmNext]_alarmVars => FailedInv'
    BY ActorAlarmStepInv, FailedStaysStep DEF FailedInv
  <1> QED
    BY <1>1, <1>2, PTL DEF ActorAlarmSpec

(* An alarm whose handler failed, and that was not set anew meanwhile, is  *)
(* in storage when the failure is reported, for the alarm manager to retry *)
(* (cancelDeferredAlarmDeletion() in runAlarm()).                          *)
THEOREM FailedAlarmsAreKept == ActorAlarmSpec => FailedIsKept
  <1>1. FailedInv /\ [ActorAlarmNext]_alarmVars =>
           [\A r \in Requests :
              (/\ Answers(r, "RETRY")
               /\ request[r].result = "RETRY"
               /\ request[r].ours
               /\ request[r].since = {}
               /\ ~outdated)
                 => stored = request[r].time]_alarmVars
    <2> SUFFICES ASSUME FailedInv, [ActorAlarmNext]_alarmVars, NEW r \in Requests,
                        Answers(r, "RETRY"), request[r].result = "RETRY", request[r].ours,
                        request[r].since = {}, ~outdated
                 PROVE  stored = request[r].time
      OBVIOUS
    <2>1. request[r].stage = "locks"
      BY WhoAnswers DEF FailedInv, Answers, LocksReleased
    <2>2. IsKnown /\ currentAlarmTime.status = "CLEAN" /\ currentAlarmTime.time = request[r].time
      BY <2>1 DEF FailedInv, FailedStays
    <2>3. CacheIsTrue
      BY DEF FailedInv, AlarmInv, AlarmCacheInv
    <2> QED
      BY <2>2, <2>3 DEF CacheIsTrue, IsKnown
  <1> QED
    BY <1>1, FailedInvHolds, PTL DEF ActorAlarmSpec, FailedIsKept

DurableInv == AlarmInv /\ DoneGoes

LEMMA DurableInvHolds == ActorAlarmSpec => []DurableInv
  <1>1. ActorAlarmInit => DurableInv
    <2> SUFFICES ASSUME ActorAlarmInit PROVE DurableInv
      OBVIOUS
    <2>1. \A r \in Requests : request[r].stage = "new"
      BY DEF ActorAlarmInit, NewRequest
    <2> QED
      BY <2>1, ActorAlarmInitInv DEF DurableInv, DoneGoes, RequestGoes
  <1>2. DurableInv /\ [ActorAlarmNext]_alarmVars => DurableInv'
    <2> SUFFICES ASSUME DurableInv, [ActorAlarmNext]_alarmVars PROVE DurableInv'
      OBVIOUS
    <2>1. AlarmInv /\ DoneGoes
      BY DEF DurableInv
    <2>2. AlarmInv'
      BY <2>1, ActorAlarmStepInv
    <2>3. DoneGoes'
      <3>1. CASE UNCHANGED alarmVars
        <4> SUFFICES ASSUME NEW q \in Requests PROVE RequestGoes(q)'
          BY DEF DoneGoes
        <4>1. /\ RequestGoes(q) /\ failed' = failed /\ request'[q] = request[q]
              /\ currentAlarmTime' = currentAlarmTime /\ alarmFlush' = alarmFlush
              /\ stored' = stored /\ scheduled' = scheduled
          BY <2>1, <3>1 DEF DoneGoes, alarmVars, cacheVars, runVars
        <4>2. PICK T : T = request[q].time
          OBVIOUS
        <4>3. PICK n : n = request[q].waits
          OBVIOUS
        <4>4. ChangeIsGated => ChangeIsGated'
          BY <4>1, GatedSame
        <4>5. Secured(T) => Secured(T)'
          BY <4>1, <4>4, GoesSame, SecuredStays
        <4> QED
          BY <4>1, <4>2, <4>3, <4>5, GoesSame, GoingStays
      <3> QED
        BY <2>1, <3>1, CacheStepsGo, SetAlarmGoes, FlushSucceedsGoes, RequestStepsGo
        DEF ActorAlarmNext
    <2> QED
      BY <2>2, <2>3 DEF DurableInv
  <1> QED
    BY <1>1, <1>2, PTL DEF ActorAlarmSpec

(* The answer to a request to run an alarm is durable: an alarm reported   *)
(* as done is no longer in storage, unless the application has set its     *)
(* time again or overwritten it unconfirmed, and an alarm reported as      *)
(* failed still is.  It rests on runAlarmImpl() waiting for the output     *)
(* gate before it answers: the wait in runAlarm() may have come before the *)
(* deletion was scheduled.                                                 *)
THEOREM AnswersStayDurable == ActorAlarmSpec => AnswersAreDurable
  <1>1. DurableInv /\ [ActorAlarmNext]_alarmVars =>
           [\A r \in Requests :
              (/\ Answers(r, "OK")
               /\ request[r].time \notin request[r].since
               /\ ~request[r].lax)
                 => stored # request[r].time]_alarmVars
    <2> SUFFICES ASSUME DurableInv, [ActorAlarmNext]_alarmVars, NEW r \in Requests,
                        Answers(r, "OK"), request[r].time \notin request[r].since,
                        ~request[r].lax
                 PROVE  stored # request[r].time
      OBVIOUS
    <2>1. /\ request[r].stage = "gate" /\ ~failed /\ request[r].waits = 0
      BY WhoAnswers DEF DurableInv, Answers, GateReleased
    <2>2. Goes(request[r].time, 0)
      BY <2>1 DEF DurableInv, DoneGoes, RequestGoes
    <2> QED
      BY <2>2, SMT DEF Goes, IsGone
  <1>2. ActorAlarmSpec => DoneIsDurable
    BY <1>1, DurableInvHolds, PTL DEF ActorAlarmSpec, DoneIsDurable
  <1> QED
    BY <1>2, FailedAlarmsAreKept, PTL DEF AnswersAreDurable
=============================================================================
