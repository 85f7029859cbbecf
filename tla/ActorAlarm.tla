----------------------------- MODULE ActorAlarm -----------------------------
(***************************************************************************)
(* Running the alarms of a Durable Object whose storage is an ActorCache:  *)
(* the requests to run an alarm and how they are de-duplicated             *)
(* (WorkerEntrypoint::runAlarmImpl(), ServiceWorkerGlobalScope::runAlarm() *)
(* and Worker::Actor in src/workerd/), the time of the alarm as the cache  *)
(* keeps it, and the flushes that bring it to storage.                     *)
(*                                                                         *)
(* An alarm manager outside this code reads the alarm in storage and asks  *)
(* the actor to run it.  It may ask twice, and a request may arrive after  *)
(* the alarm has changed.  The actor is one thread; it can be interrupted  *)
(* where it waits.                                                         *)
(***************************************************************************)
EXTENDS Integers, FiniteSets

CONSTANTS
    MaxRequests,      \* how many calls of runAlarm() there are
    Alarms,            \* the times an alarm can be set to; NoAlarm is 0
    Unconfirmed,      \* the values of allowUnconfirmed the application uses
    MaxEvents,        \* bound on the calls of setAlarm() and the requests
                      \* the caller drops, together
    MaxAlarmRetries   \* MAX_RETRIES of flushImpl()

ASSUME AlarmAssumption ==
    /\ Alarms \subseteq Nat \ {0}
    /\ Unconfirmed \subseteq BOOLEAN
    /\ {MaxRequests, MaxEvents, MaxAlarmRetries} \subseteq Nat

NoAlarm   == 0
Requests  == 1..MaxRequests  \* in the order they are made
NoRequest == 0
AlarmTimes == Alarms \cup {NoAlarm}

VARIABLES
    currentAlarmTime,
    scheduled,   \* flushScheduled, and whether the output gate waits for it
    alarmFlush,  \* the flush that is running
    failed,      \* the output gate is broken
    stored,      \* the alarm in storage
    getting,     \* the getAlarm() that asks storage
    request,     \* each runAlarm()
    maybeScheduledAlarm, maybeRunningAlarm,  \* the request each belongs to
    hasHandler,  \* the worker exports an alarm handler
    outdated,    \* an alarm was armed that storage did not hold, or that
                 \* was about to be set once more
    events       \* how many calls and dropped requests there have been

cacheVars == <<currentAlarmTime, scheduled, alarmFlush, failed, stored,
               getting, hasHandler>>
runVars   == <<request, maybeScheduledAlarm, maybeRunningAlarm>>
countVars == <<outdated, events>>
alarmVars == <<cacheVars, runVars, countVars>>

UnknownAlarmTime == [kind |-> "unknown"]
KnownAlarmTime(status, time) ==
    [kind |-> "known", status |-> status, time |-> time]
DeferredAlarmDelete(status, time, wasDeleted) ==
    [kind |-> "deferred", status |-> status, time |-> time,
     wasDeleted |-> wasDeleted]

IsKnown    == currentAlarmTime.kind = "known"
IsDeferred == currentAlarmTime.kind = "deferred"
Deleting   == IsDeferred /\ currentAlarmTime.status = "FLUSHING"

NoAlarmFlush == [phase |-> "idle"]
NotGetting   == [phase |-> "idle", time |-> NoAlarm]
NotScheduled == [flush |-> FALSE, gated |-> FALSE]

(* `on` is the request whose result this one waits for, `waits` how many   *)
(* flushes it waits for, `ours` whether the cache is to delete the alarm   *)
(* once it has run, `since` the times set after it was started, and `lax`  *)
(* whether the output gate does not wait for one of them, or for the one   *)
(* that was pending then: the application may allow it (allowUnconfirmed). *)
NewRequest == [stage |-> "new", time |-> NoAlarm, on |-> NoRequest,
               waits |-> 0, result |-> "none", ours |-> FALSE, since |-> {},
               lax |-> FALSE]

Active == {"starting", "handler", "locks", "gate"}
Ended  == {"answered", "dropped"}

(* The states of the model are of the declared shape.                      *)
ActorAlarmTypeOK ==
    /\ currentAlarmTime \in {UnknownAlarmTime}
          \cup {KnownAlarmTime(s, t) :
                   s \in {"CLEAN", "DIRTY", "FLUSHING"}, t \in AlarmTimes}
          \cup {DeferredAlarmDelete(s, t, w) :
                   s \in {"WAITING", "READY", "FLUSHING"}, t \in Alarms,
                   w \in {"unset", "yes", "no"}}
    /\ scheduled \in [flush : BOOLEAN, gated : BOOLEAN]
    /\ alarmFlush.phase \in {"idle", "waiting", "sent", "done"}
    /\ {failed, hasHandler, outdated} \subseteq BOOLEAN
    /\ stored \in AlarmTimes
    /\ getting \in [phase : {"idle", "sent", "got"}, time : AlarmTimes]
    /\ \A r \in Requests :
          /\ request[r].stage \in {"new", "pulled", "joined", "scheduled"}
                                  \cup Active \cup Ended
          /\ request[r].time \in AlarmTimes
          /\ request[r].on \in Requests \cup {NoRequest}
          /\ request[r].waits \in 0..2
          /\ request[r].since \subseteq AlarmTimes
          /\ request[r].lax \in BOOLEAN
    /\ maybeScheduledAlarm \in Requests \cup {NoRequest}
    /\ maybeRunningAlarm \in Requests \cup {NoRequest}
    /\ events \in 0..MaxEvents

ActorAlarmInit ==
    /\ currentAlarmTime = UnknownAlarmTime
    /\ scheduled = NotScheduled
    /\ alarmFlush = NoAlarmFlush
    /\ failed = FALSE
    /\ stored \in AlarmTimes
    /\ getting = NotGetting
    /\ request = [r \in Requests |-> NewRequest]
    /\ maybeScheduledAlarm = NoRequest
    /\ maybeRunningAlarm = NoRequest
    /\ hasHandler \in BOOLEAN
    /\ outdated = FALSE
    /\ events = 0

-----------------------------------------------------------------------------
(* The alarm in the cache.                                                 *)

(* ensureFlushScheduled().                                                 *)
Schedule(unconfirmed) ==
    scheduled' = [flush |-> TRUE,
                  gated |-> scheduled.gated \/ ~unconfirmed]

(* The application sets or deletes the alarm.  Setting what is already     *)
(* known does nothing.                                                     *)
setAlarmTime(t, unconfirmed) ==
    /\ ~failed
    /\ events < MaxEvents
    /\ events' = events + 1
    /\ IF IsKnown /\ currentAlarmTime.time = t
       THEN UNCHANGED <<currentAlarmTime, scheduled>>
       ELSE /\ currentAlarmTime' = KnownAlarmTime("DIRTY", t)
            /\ Schedule(unconfirmed)
    /\ request' = [r \in Requests |->
                      IF request[r].stage \in Active
                      THEN [request[r] EXCEPT !.since = @ \cup {t},
                                              !.lax = @ \/ unconfirmed]
                      ELSE request[r]]
    /\ UNCHANGED <<alarmFlush, failed, stored, getting, hasHandler,
                   maybeScheduledAlarm, maybeRunningAlarm, outdated>>

(* getAlarm() when the cache does not know the alarm.                      *)
getAlarm ==
    /\ currentAlarmTime = UnknownAlarmTime
    /\ getting = NotGetting
    /\ getting' = [getting EXCEPT !.phase = "sent"]
    /\ UNCHANGED <<currentAlarmTime, scheduled, alarmFlush, failed, stored,
                   hasHandler, runVars, countVars>>

StorageReadsAlarm ==
    /\ getting.phase = "sent"
    /\ getting' = [phase |-> "got", time |-> stored]
    /\ UNCHANGED <<currentAlarmTime, scheduled, alarmFlush, failed, stored,
                   hasHandler, runVars, countVars>>

(* The answer to getAlarm() is kept if the cache still knows nothing.      *)
getAlarmAnswered ==
    /\ getting.phase = "got"
    /\ getting' = NotGetting
    /\ currentAlarmTime' =
          IF currentAlarmTime = UnknownAlarmTime
          THEN KnownAlarmTime("CLEAN", getting.time) ELSE currentAlarmTime
    /\ alarmFlush' = IF alarmFlush.phase = "waiting"
                     THEN [alarmFlush EXCEPT !.pastRead = FALSE]
                     ELSE alarmFlush
    /\ UNCHANGED <<scheduled, failed, stored, hasHandler, runVars, countVars>>

-----------------------------------------------------------------------------
(* Flushes.                                                                *)

(* What flushImpl() is to write, and the status the alarm gets.            *)
AlarmChange ==
    CASE IsKnown /\ currentAlarmTime.status # "CLEAN" ->
            {currentAlarmTime.time}
      [] IsDeferred /\ currentAlarmTime.status # "WAITING" -> {NoAlarm}
      [] OTHER -> {}

flushImplAfter(pastRead, retry, gated) ==
    /\ alarmFlush' = [phase |-> IF AlarmChange = {} THEN "done" ELSE "waiting",
                      change |-> AlarmChange, only |-> AlarmTimes,
                      retry |-> retry, gated |-> gated, pastRead |-> pastRead]
    /\ currentAlarmTime' =
          IF AlarmChange = {} THEN currentAlarmTime
          ELSE [currentAlarmTime EXCEPT !.status = "FLUSHING"]

(* Mutant: the change is written without waiting for reads.                *)
flushImplAtOnce(retry, gated) == flushImplAfter(FALSE, retry, gated)

flushImplAlarm(retry, gated) ==
    flushImplAfter(getting # NotGetting, retry, gated)

StartAlarmFlush ==
    /\ scheduled.flush
    /\ ~failed
    /\ alarmFlush.phase = "idle"
    /\ scheduled' = NotScheduled
    /\ flushImplAlarm(0, scheduled.gated)
    /\ UNCHANGED <<failed, stored, getting, hasHandler, runVars, countVars>>

(* Once earlier reads are done the request to storage is made.  A deletion *)
(* left by an alarm that ran is for that alarm's time only, and nothing is *)
(* sent if another alarm has started running.                              *)
flushImplAlarmOnly ==
    /\ alarmFlush.phase = "waiting"
    /\ ~alarmFlush.pastRead
    /\ LET deferred == alarmFlush.change = {NoAlarm} /\ IsDeferred
       IN  alarmFlush' =
              [alarmFlush EXCEPT
                  !.phase = IF deferred /\ ~Deleting THEN "done" ELSE "sent",
                  !.only  = IF deferred THEN {currentAlarmTime.time} ELSE @]
    /\ UNCHANGED <<currentAlarmTime, scheduled, failed, stored, getting,
                   hasHandler, runVars, countVars>>

Applies == stored \in alarmFlush.only
Written == IF Applies THEN CHOOSE t \in alarmFlush.change : TRUE ELSE stored

(* The answer to a deletion says whether there was that alarm.             *)
SetWasDeleted ==
    currentAlarmTime' = IF Deleting
                        THEN [currentAlarmTime EXCEPT
                                 !.wasDeleted = IF Applies THEN "yes"
                                                           ELSE "no"]
                        ELSE currentAlarmTime

StorageWritesAlarm ==
    /\ alarmFlush.phase = "sent"
    /\ stored' = Written
    /\ SetWasDeleted
    /\ alarmFlush' = [alarmFlush EXCEPT !.phase = "done"]
    /\ UNCHANGED <<scheduled, failed, getting, hasHandler, runVars,
                   countVars>>

(* One flush less for those that wait for the output gate.                 *)
FlushOver ==
    request' = [r \in Requests |->
                   IF request[r].waits > 0
                   THEN [request[r] EXCEPT !.waits = @ - 1]
                   ELSE request[r]]

(* A flush has succeeded.  If the alarm that ran was not the one in        *)
(* storage, it is not known what is.                                       *)
AlarmFlushSucceeds ==
    /\ alarmFlush.phase = "done"
    /\ alarmFlush' = NoAlarmFlush
    /\ currentAlarmTime' =
          CASE IsKnown /\ currentAlarmTime.status = "FLUSHING" ->
                  KnownAlarmTime("CLEAN", currentAlarmTime.time)
            [] Deleting ->
                  IF currentAlarmTime.wasDeleted = "yes"
                  THEN KnownAlarmTime("CLEAN", NoAlarm) ELSE UnknownAlarmTime
            [] OTHER -> currentAlarmTime
    /\ FlushOver
    /\ UNCHANGED <<scheduled, failed, stored, getting, hasHandler,
                   maybeScheduledAlarm, maybeRunningAlarm, countVars>>

(* The connection to storage is lost.  The write may have been made.       *)
AlarmFlushDisconnected ==
    /\ alarmFlush.phase = "sent"
    /\ alarmFlush.retry < MaxAlarmRetries
    /\ stored' \in {stored, Written}
    /\ UNCHANGED <<scheduled, failed, getting, hasHandler, runVars,
                   countVars>>
    /\ flushImplAlarm(alarmFlush.retry + 1, alarmFlush.gated)

(* A flush fails for good, which breaks the output gate.                   *)
AlarmFlushBreaks ==
    /\ alarmFlush.phase = "sent"
    /\ stored' \in {stored, Written}
    /\ failed' = TRUE
    /\ alarmFlush' = NoAlarmFlush
    /\ scheduled' = NotScheduled
    /\ UNCHANGED <<currentAlarmTime, getting, hasHandler, runVars, countVars>>

-----------------------------------------------------------------------------
(* Requests to run an alarm.                                               *)

(* The alarm manager reads the alarm and asks the actor to run it.         *)
Pull(r) ==
    /\ \A q \in Requests : request[q].stage = "new" <=> r <= q
    /\ stored # NoAlarm
    /\ ~failed
    /\ request' = [request EXCEPT ![r].stage = "pulled", ![r].time = stored]
    /\ UNCHANGED <<cacheVars, maybeScheduledAlarm, maybeRunningAlarm,
                   countVars>>

(* Mutant: those that joined the request are not told.                     *)
SettledAlone(req, r, result) ==
    [q \in Requests |->
        IF q = r /\ req[q].stage # "dropped"
        THEN [NewRequest EXCEPT !.stage = "answered", !.result = result]
        ELSE req[q]]

(* Resolve the result of request r: for the request itself, unless it was  *)
(* dropped, and for those that joined it.                                  *)
Settled(req, r, result) ==
    [q \in Requests |->
        IF \/ q = r /\ req[q].stage # "dropped"
           \/ req[q].stage = "joined" /\ req[q].on = r
        THEN [NewRequest EXCEPT !.stage = "answered", !.result = result]
        ELSE req[q]]

(* The requests whose alarm is this one's, running or else scheduled.      *)
SameAlarm(r) ==
    {q \in {maybeRunningAlarm, maybeScheduledAlarm} \ {NoRequest} :
        request[q].time = request[r].time}

(* A request arrives.  It waits for the result of an alarm of the same     *)
(* time, or becomes the scheduled alarm in place of the one there was.     *)
runAlarm(r) ==
    /\ request[r].stage = "pulled"
    /\ ~failed
    /\ IF SameAlarm(r) # {}
       THEN /\ request' = [request EXCEPT
                  ![r].stage = "joined",
                  ![r].on = IF maybeRunningAlarm \in SameAlarm(r)
                            THEN maybeRunningAlarm ELSE maybeScheduledAlarm]
            /\ UNCHANGED maybeScheduledAlarm
       ELSE /\ maybeScheduledAlarm' = r
            /\ request' = [Settled(request, maybeScheduledAlarm, "CANCELED")
                              EXCEPT ![r].stage = "scheduled"]
    /\ UNCHANGED <<cacheVars, maybeRunningAlarm, countVars>>

(* The scheduled alarm's time has come and no other is running.            *)
handleAlarm(r) ==
    /\ maybeScheduledAlarm = r
    /\ request[r].stage = "scheduled"
    /\ maybeRunningAlarm = NoRequest
    /\ maybeScheduledAlarm' = NoRequest
    /\ maybeRunningAlarm' = r
    /\ request' = [request EXCEPT ![r].stage = "starting"]
    /\ UNCHANGED <<cacheVars, countVars>>

Answer(r, result) ==
    /\ request' = Settled(request, r, result)
    /\ maybeRunningAlarm' = NoRequest

(* The DeferredAlarmDeleter goes away: the alarm is to be deleted, unless  *)
(* it has been set anew or the deletion was called off.                    *)
DisposeDeleter ==
    IF IsDeferred
    THEN /\ currentAlarmTime' = [currentAlarmTime EXCEPT !.status = "READY"]
         /\ Schedule(FALSE)
    ELSE UNCHANGED <<currentAlarmTime, scheduled>>

(* The run is called off when the cache knows the alarm is another one.    *)
Outdated(r) ==
    /\ IsKnown
    /\ currentAlarmTime.status = "CLEAN"
    /\ currentAlarmTime.time # request[r].time

Pending     == IsKnown /\ currentAlarmTime.status # "CLEAN"
UpToDate(r) == stored = request[r].time

(* A write for another time is pending, and is to be left alone.           *)
Superseded(r) == Pending /\ currentAlarmTime.time # request[r].time

(* The output gate waits for the flush that writes a pending change.       *)
PendingIsGated ==
    \/ scheduled.gated
    \/ currentAlarmTime.status = "FLUSHING" /\ alarmFlush.gated

(* The alarm is armed and the handler called.                              *)
armAlarmHandler(r) ==
    /\ ~failed
    /\ ~IsDeferred
    /\ ~Outdated(r)
    /\ hasHandler
    /\ currentAlarmTime' =
          IF Superseded(r) THEN currentAlarmTime
          ELSE DeferredAlarmDelete("WAITING", request[r].time, "unset")
    /\ request' = [request EXCEPT ![r].stage = "handler",
                                  ![r].ours = ~Superseded(r),
                                  ![r].lax = @ \/ (/\ Superseded(r)
                                                   /\ ~PendingIsGated)]
    /\ outdated' = (\/ outdated
                    \/ ~Superseded(r) /\ (Pending \/ ~UpToDate(r)))
    /\ UNCHANGED <<scheduled, maybeRunningAlarm>>

(* There is no handler: the alarm is armed and deleted.                    *)
ArmWithoutHandler(r) ==
    /\ ~failed
    /\ ~IsDeferred
    /\ ~Outdated(r)
    /\ ~hasHandler
    /\ IF Superseded(r) THEN UNCHANGED <<currentAlarmTime, scheduled>>
       ELSE /\ currentAlarmTime' =
                   DeferredAlarmDelete("READY", request[r].time, "unset")
            /\ Schedule(FALSE)
    /\ Answer(r, "SCRIPT_NOT_FOUND")
    /\ UNCHANGED outdated

(* No run: a known alarm of another time, or an exception from a broken    *)
(* actor or from the assertion that no deletion is pending.                *)
NotArmed(r) ==
    /\ failed \/ IsDeferred \/ Outdated(r)
    /\ Answer(r, IF failed \/ IsDeferred THEN "FAILED" ELSE "CANCELED")
    /\ UNCHANGED <<currentAlarmTime, scheduled, outdated>>

StartHandler(r) ==
    /\ request[r].stage = "starting"
    /\ armAlarmHandler(r) \/ ArmWithoutHandler(r) \/ NotArmed(r)
    /\ UNCHANGED <<alarmFlush, failed, stored, getting, hasHandler,
                   maybeScheduledAlarm, events>>

(* How many flushes the output gate is locked for, now and with the given  *)
(* flush scheduled.                                                        *)
Locks(s) ==
    LET running == IF alarmFlush.phase = "idle" THEN 0 ELSE 1
    IN  IF s.gated THEN running + 1
        ELSE IF running = 1 /\ alarmFlush.gated THEN 1 ELSE 0

(* The handler has succeeded.  The deleter goes away with the continuation *)
(* that holds it, and waitForOutputLocks() is called in the one after it:  *)
(* the wait need not be for the flush that deletes the alarm.              *)
HandlerSucceeds(r) ==
    /\ DisposeDeleter
    /\ \E s \in {scheduled, scheduled'} :
          request' = [request EXCEPT ![r].stage = "locks",
                                     ![r].result = "OK",
                                     ![r].waits = Locks(s)]

(* The handler has thrown or run out of time: cancelDeferredAlarmDeletion. *)
HandlerFails(r) ==
    /\ currentAlarmTime' =
          IF IsDeferred THEN KnownAlarmTime("CLEAN", currentAlarmTime.time)
          ELSE currentAlarmTime
    /\ request' = [request EXCEPT ![r].stage = "locks",
                                  ![r].result = "RETRY",
                                  ![r].waits = Locks(scheduled)]
    /\ UNCHANGED scheduled

HandlerEnds(r) ==
    /\ request[r].stage = "handler"
    /\ HandlerSucceeds(r) \/ HandlerFails(r)
    /\ UNCHANGED <<alarmFlush, failed, stored, getting, hasHandler,
                   maybeScheduledAlarm, maybeRunningAlarm, countVars>>

(* Mutant: a run that succeeded does not wait for the output gate again.   *)
LocksReleasedForAll(r) ==
    /\ request[r].stage = "locks"
    /\ failed \/ request[r].waits = 0
    /\ Answer(r, IF failed THEN "RETRY" ELSE request[r].result)
    /\ UNCHANGED <<cacheVars, maybeScheduledAlarm, countVars>>

(* The output locks of before are released, or the gate is broken.  A run  *)
(* that succeeded waits for those there are now: the deletion's is one.    *)
LocksReleased(r) ==
    /\ request[r].stage = "locks"
    /\ failed \/ request[r].waits = 0
    /\ IF ~failed /\ request[r].result = "OK"
       THEN /\ request' = [request EXCEPT ![r].stage = "gate",
                                          ![r].waits = Locks(scheduled)]
            /\ UNCHANGED maybeRunningAlarm
       ELSE Answer(r, "RETRY")
    /\ UNCHANGED <<cacheVars, maybeScheduledAlarm, countVars>>

GateReleased(r) ==
    /\ request[r].stage = "gate"
    /\ failed \/ request[r].waits = 0
    /\ Answer(r, IF failed THEN "FAILED" ELSE "OK")
    /\ UNCHANGED <<cacheVars, maybeScheduledAlarm, countVars>>

(* The caller drops a request.  One that is scheduled leaves its scheduled *)
(* alarm behind; one that is running cancels those that joined it, and     *)
(* its deleter goes away if the handler has been called.                   *)
DropRequest(r) ==
    /\ events < MaxEvents
    /\ request[r].stage \notin {"new"} \cup Ended
    /\ events' = events + 1
    /\ request' = [(IF request[r].stage \in Active
                    THEN Settled(request, r, "CANCELED") ELSE request)
                      EXCEPT ![r] = [NewRequest EXCEPT !.stage = "dropped",
                                                       !.time = request[r].time]]
    /\ maybeRunningAlarm' = IF r = maybeRunningAlarm THEN NoRequest
                            ELSE maybeRunningAlarm
    /\ IF request[r].stage = "handler" THEN DisposeDeleter
       ELSE UNCHANGED <<currentAlarmTime, scheduled>>
    /\ UNCHANGED <<alarmFlush, failed, stored, getting, hasHandler,
                   maybeScheduledAlarm, outdated>>

ActorAlarmNext ==
    \/ \E t \in AlarmTimes, u \in Unconfirmed : setAlarmTime(t, u)
    \/ getAlarm
    \/ StorageReadsAlarm
    \/ getAlarmAnswered
    \/ StartAlarmFlush
    \/ flushImplAlarmOnly
    \/ StorageWritesAlarm
    \/ AlarmFlushSucceeds
    \/ AlarmFlushDisconnected
    \/ AlarmFlushBreaks
    \/ \E r \in Requests :
          Pull(r) \/ runAlarm(r) \/ handleAlarm(r) \/ StartHandler(r)
             \/ HandlerEnds(r) \/ LocksReleased(r) \/ GateReleased(r)
             \/ DropRequest(r)

ActorAlarmSpec == ActorAlarmInit /\ [][ActorAlarmNext]_alarmVars

-----------------------------------------------------------------------------
(* What the cache takes to be in storage is there: a clean alarm time is   *)
(* the one stored (KnownAlarmTime::Status::CLEAN, from a read, a flush or  *)
(* a deletion that was called off), unless a run was started for an alarm  *)
(* that storage no longer held, or is to be set to once more.              *)
CleanIsStored ==
    \/ failed
    \/ outdated
    \/ (IsKnown /\ currentAlarmTime.status = "CLEAN"
           => currentAlarmTime.time = stored)

(* A change of the alarm that is still to be written has its flush: one is *)
(* scheduled for a change not yet looked at, and one is running for a      *)
(* change being written (ensureFlushScheduled() and flushImpl()).          *)
ChangeIsFlushed ==
    \/ failed
    \/ currentAlarmTime.kind = "unknown"
    \/ /\ currentAlarmTime.status \in {"DIRTY", "READY"} => scheduled.flush
       /\ currentAlarmTime.status = "FLUSHING" => alarmFlush.phase # "idle"

(* When a flush has deleted an alarm that ran, it is known whether there   *)
(* was one: the KJ_ASSERT_NONNULL of flushImpl().                          *)
DeletionIsAnswered ==
    alarmFlush.phase = "done" /\ Deleting
       => currentAlarmTime.wasDeleted # "unset"

(* At most one alarm runs at a time, and the actor knows which: the one in *)
(* maybeRunningAlarm, until its result is there.                           *)
OneRunsAtATime ==
    {r \in Requests : request[r].stage \in Active}
       = {maybeRunningAlarm} \ {NoRequest}

(* A request that has joined another waits for a result that is still to   *)
(* come: that of the running alarm or of the scheduled one, which is for   *)
(* the same time (Worker::Actor::getAlarm()).                              *)
JoinedAreServed ==
    \A r \in Requests : request[r].stage = "joined" =>
        /\ request[r].on \in {maybeRunningAlarm, maybeScheduledAlarm}
        /\ request[request[r].on].time = request[r].time

(* The alarm's state in memory is true to what is outside of it: storage,  *)
(* the flushes under way, and the requests that run or wait.               *)
AlarmStateIsTrue ==
    /\ CleanIsStored /\ ChangeIsFlushed /\ DeletionIsAnswered
    /\ OneRunsAtATime /\ JoinedAreServed

Answers(r, result) ==
    /\ request[r].stage \in Active
    /\ request'[r].stage = "answered"
    /\ request'[r].result = result

(* An alarm reported as done does not run again: by then storage no longer *)
(* has it, unless the application has set the same time again, or has      *)
(* overwritten it without waiting for confirmation (the comment in         *)
(* runAlarmImpl() on waiting for the output gate).                         *)
DoneIsDurable ==
    [][\A r \in Requests :
          (/\ Answers(r, "OK")
           /\ request[r].time \notin request[r].since
           /\ ~request[r].lax)
             => stored # request[r].time]_alarmVars

(* An alarm whose handler failed is there to be retried, unless the        *)
(* application has set another since: its deletion is called off.          *)
FailedIsKept ==
    [][\A r \in Requests :
          (/\ Answers(r, "RETRY")
           /\ request[r].result = "RETRY"
           /\ request[r].ours
           /\ request[r].since = {}
           /\ ~outdated)
             => stored = request[r].time]_alarmVars

(* The answer to a request survives a crash after it.                      *)
AnswersAreDurable == DoneIsDurable /\ FailedIsKept

(* Every request that has arrived is answered, if the caller does not drop *)
(* it, unless the request that owns the scheduled alarm was dropped (which *)
(* a TODO in runAlarmImpl() leaves open).                                  *)
RequestsAnswered ==
    \A r \in Requests :
        request[r].stage \notin {"new", "pulled"} \cup Ended
           ~> \/ request[r].stage \in Ended
              \/ /\ maybeScheduledAlarm # NoRequest
                 /\ request[maybeScheduledAlarm].stage = "dropped"
=============================================================================
