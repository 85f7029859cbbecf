--------------------------- MODULE AlarmScheduler ---------------------------
(***************************************************************************)
(* The alarm scheduler of the server (AlarmScheduler in                    *)
(* src/workerd/server/alarm-scheduler.{h,c++}): the alarms of the Durable  *)
(* Objects, kept in memory with one task each, and in a SQLite table from  *)
(* which they are loaded when the scheduler is constructed.                *)
(*                                                                         *)
(* Everything runs on one event loop.  A task is asleep (status WAITING    *)
(* before the first run, FINISHED between retries) or in runAlarm()        *)
(* (STARTED).  Meanwhile the actor, in its alarm handler or in any other   *)
(* event, calls setAlarm() and deleteAlarm().  Delays are left out: a      *)
(* timer may fire at any time, and what it does then depends on the clock. *)
(***************************************************************************)
EXTENDS Naturals

CONSTANTS
    Actors,             \* the keys of `alarms`
    Registered,         \* the actors whose namespace is in the configuration
    MaxTime,            \* bound on the clock and on scheduled times
    RETRY_MAX_TRIES,
    RETRY_BACKOFF_MAX

ASSUME AlarmSchedulerAssumption ==
    /\ Registered \subseteq Actors
    /\ MaxTime \in Nat
    /\ RETRY_MAX_TRIES \in Nat /\ RETRY_BACKOFF_MAX \in Nat

VARIABLES
    wall,      \* clock.now()
    rows,      \* _cf_ALARM: the scheduled_time of each actor, or None
    alarms     \* the ScheduledAlarm of each actor

schedulerVars == <<wall, rows, alarms>>

None == 0
Times == 1..MaxTime

AlarmEntry == [status : {"ABSENT", "WAITING", "STARTED", "FINISHED"},
               scheduledTime : Times \cup {None},
               queuedAlarm : Times \cup {None},
               previousRetryCountedAgainstLimit : BOOLEAN,
               backoff : 0..(RETRY_BACKOFF_MAX + 1),
               countedRetry : 0..RETRY_MAX_TRIES]

(* The type invariant: backoff, the exponent of the delay, and the retries *)
(* counted against the limit stay within their limits.                     *)
SchedulerTypeOK ==
    /\ wall \in 0..MaxTime
    /\ rows \in [Actors -> Times \cup {None}]
    /\ alarms \in [Actors -> AlarmEntry]

-----------------------------------------------------------------------------
(* scheduleAlarm(): a new entry with its task asleep.                      *)
scheduleAlarm(time) ==
    [status |-> "WAITING", scheduledTime |-> time, queuedAlarm |-> None,
     previousRetryCountedAgainstLimit |-> FALSE, backoff |-> 0,
     countedRetry |-> 0]

Absent == [scheduleAlarm(None) EXCEPT !.status = "ABSENT"]

(* loadAlarmsFromDb(), on a table that may hold rows.                      *)
loadAlarmsFromDb ==
    [a \in Actors |-> IF rows[a] = None THEN Absent ELSE scheduleAlarm(rows[a])]

SchedulerInit ==
    /\ wall = 0
    /\ rows \in [Actors -> Times \cup {None}]
    /\ alarms = loadAlarmsFromDb

(* Mutant: a new alarm is not queued behind the one that runs.             *)
entryAfterSetUnqueued(e, time) ==
    IF e.status \in {"ABSENT", "WAITING"} THEN scheduleAlarm(time) ELSE e

(* What setAlarm() does with the entry: an alarm that is running or that   *)
(* is being retried gets the new one queued behind it.                     *)
entryAfterSet(e, time) ==
    IF e.status \in {"ABSENT", "WAITING"} THEN scheduleAlarm(time)
    ELSE [e EXCEPT !.queuedAlarm = time]

(* What deleteAlarm() does with the entry.                                 *)
entryAfterDelete(e) ==
    CASE e.status = "ABSENT" -> e
      [] e.status = "STARTED" -> [e EXCEPT !.queuedAlarm = None]
      [] e.status \in {"WAITING", "FINISHED"} ->
             IF e.queuedAlarm # None THEN scheduleAlarm(e.queuedAlarm) ELSE Absent

(* setAlarm() and deleteAlarm(), called by the actor.                      *)
setAlarm(a, time) ==
    /\ rows' = [rows EXCEPT ![a] = time]
    /\ alarms' = [alarms EXCEPT ![a] = entryAfterSet(@, time)]
    /\ UNCHANGED wall

deleteAlarm(a) ==
    /\ rows' = [rows EXCEPT ![a] = None]
    /\ alarms' = [alarms EXCEPT ![a] = entryAfterDelete(@)]
    /\ UNCHANGED wall

(* checkTimestamp(): when the timer fires early, sleep again.              *)
checkTimestamp(e) == wall >= e.scheduledTime

(* makeAlarmTask() wakes and calls runAlarm().                             *)
StartAlarm(a) ==
    /\ alarms[a].status \in {"WAITING", "FINISHED"}
    /\ checkTimestamp(alarms[a])
    /\ alarms' = [alarms EXCEPT ![a].status = "STARTED"]
    /\ UNCHANGED <<wall, rows>>

(* The results of runAlarm(): no retry, a retry that counts against the    *)
(* limit, or one that does not.  An exception is the last; so is every run *)
(* for a namespace that is not registered.                                 *)
Outcomes(a) == IF a \in Registered THEN {"done", "counted", "uncounted"}
                                   ELSE {"uncounted"}

Smaller(x, y) == IF x < y THEN x ELSE y

(* Mutants: the retry that counts is not counted; the backoff has no limit. *)
entryAfterRetryUncounted(e, counts) ==
    [e EXCEPT !.status = "FINISHED",
              !.previousRetryCountedAgainstLimit = counts]

entryAfterRetryUnlimited(e, counts) ==
    [e EXCEPT !.status = "FINISHED",
              !.countedRetry = IF counts THEN @ + 1 ELSE @,
              !.backoff = IF counts /\ ~e.previousRetryCountedAgainstLimit
                            THEN 1 ELSE @ + 1,
              !.previousRetryCountedAgainstLimit = counts]

(* The entry with its task recreated for a retry.                          *)
entryAfterRetry(e, counts) ==
    LET reset == counts /\ ~e.previousRetryCountedAgainstLimit
    IN [e EXCEPT !.status = "FINISHED",
                 !.countedRetry = IF counts THEN @ + 1 ELSE @,
                 !.backoff = Smaller(RETRY_BACKOFF_MAX, IF reset THEN 0 ELSE @) + 1,
                 !.previousRetryCountedAgainstLimit = counts]

(***************************************************************************)
(* runAlarm() has returned: a queued alarm takes over; otherwise the alarm *)
(* is retried, or deleted when it is done or has used up its retries.      *)
(***************************************************************************)
FinishAlarm(a, outcome) ==
    LET e == alarms[a]
        gone == outcome = "done" \/ e.countedRetry >= RETRY_MAX_TRIES
    IN /\ e.status = "STARTED"
       /\ \/ /\ e.queuedAlarm # None
             /\ alarms' = [alarms EXCEPT ![a] = scheduleAlarm(e.queuedAlarm)]
             /\ UNCHANGED rows
          \/ /\ e.queuedAlarm = None /\ gone
             /\ alarms' = [alarms EXCEPT ![a] =
                              entryAfterDelete([e EXCEPT !.status = "FINISHED"])]
             /\ rows' = [rows EXCEPT ![a] = None]
          \/ /\ e.queuedAlarm = None /\ ~gone
             /\ alarms' = [alarms EXCEPT ![a] =
                              entryAfterRetry(e, outcome = "counted")]
             /\ UNCHANGED rows
       /\ UNCHANGED wall

(* The process ends, and a new scheduler is constructed on the same file.  *)
Restart ==
    /\ alarms' = loadAlarmsFromDb
    /\ UNCHANGED <<wall, rows>>

Tick ==
    /\ wall < MaxTime
    /\ wall' = wall + 1
    /\ UNCHANGED <<rows, alarms>>

SchedulerNext ==
    \/ \E a \in Actors, time \in Times : setAlarm(a, time)
    \/ \E a \in Actors : deleteAlarm(a)
    \/ \E a \in Actors : StartAlarm(a)
    \/ \E a \in Actors : \E outcome \in Outcomes(a) : FinishAlarm(a, outcome)
    \/ Restart
    \/ Tick

SchedulerSpec == SchedulerInit /\ [][SchedulerNext]_schedulerVars

-----------------------------------------------------------------------------
(* Memory follows the table: a stored alarm is the one that is queued, or, *)
(* with none queued, the one that is waiting, running or being retried.    *)
(* Nothing but this relation makes a stored alarm run before a restart.    *)
StoredIsScheduled ==
    \A a \in Actors : rows[a] # None =>
        /\ alarms[a].status # "ABSENT"
        /\ rows[a] = IF alarms[a].queuedAlarm # None THEN alarms[a].queuedAlarm
                                                    ELSE alarms[a].scheduledTime

(* "We run alarms only on or after their scheduled time", also when timers *)
(* fire early, and for retries and alarms that were queued.                *)
RunsOnTime ==
    \A a \in Actors :
        alarms[a].status = "STARTED" => wall >= alarms[a].scheduledTime

(* "User-caused retries don't have an unnecessarily high backoff time if   *)
(* they come after internal-caused retries": after a failure that counts,  *)
(* the backoff has only grown by failures that count.                      *)
BackoffIsOwn ==
    \A a \in Actors :
        alarms[a].previousRetryCountedAgainstLimit =>
            alarms[a].backoff <= alarms[a].countedRetry

(* Table, tasks and times of the alarms agree.                             *)
AlarmsOnSchedule == StoredIsScheduled /\ RunsOnTime /\ BackoffIsOwn

(* A stored alarm is run, unless it is replaced or deleted, whatever fails *)
(* and however often the process restarts.                                 *)
StoredAlarmsRun ==
    \A a \in Actors, time \in Times :
        rows[a] = time ~> \/ rows[a] # time
                          \/ /\ alarms[a].status = "STARTED"
                             /\ alarms[a].scheduledTime = time

(* An alarm of a registered namespace comes to an end: when nobody sets    *)
(* one any more, the process no longer restarts and internal errors cease, *)
(* the alarm completes or is given up after its retries.                   *)
AlarmsEnd ==
    <>[][/\ \A a \in Actors, time \in Times : ~setAlarm(a, time)
         /\ ~Restart
         /\ \A a \in Registered : ~FinishAlarm(a, "uncounted")]_schedulerVars
    => \A a \in Registered : <>(alarms[a].status = "ABSENT")

(* A stored alarm is run, and comes to an end.                             *)
AlarmsSettle == StoredAlarmsRun /\ AlarmsEnd

(* "Currently running alarms cannot be deleted within alarm() handler, but *)
(* can delete it everywhere else": deleteAlarm() leaves no alarm unless    *)
(* one is running.                                                         *)
DeletedIsGone ==
    [][\A a \in Actors :
          deleteAlarm(a) /\ alarms[a].status # "STARTED"
          => alarms'[a].status = "ABSENT"]_schedulerVars
=============================================================================
