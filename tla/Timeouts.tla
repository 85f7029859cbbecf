------------------------------ MODULE Timeouts ------------------------------
(***************************************************************************)
(* setTimeout(), setInterval() and clearTimeout() of an I/O context        *)
(* (IoContext::TimeoutManagerImpl in src/workerd/io/io-context.c++), and   *)
(* the Date.now() that goes with them.                                     *)
(*                                                                         *)
(* All of it runs on one thread.  A timer goes through three events: the   *)
(* timer task fulfills the first entry of timeoutTimes, a later event, in  *)
(* which JavaScript may run, calls the callback, and one more completes    *)
(* the promise, which removes the entry.  JavaScript sets and clears       *)
(* timers within callbacks and in other events between these steps.        *)
(***************************************************************************)
EXTENDS Naturals, Sequences, FiniteSets

CONSTANTS
    MaxId,          \* bound on the timeout ids, which are handed out in order
    Delays,
    IntervalDelays, \* delays of setInterval()
    MaxClock,        \* bound on the clock and on the times of timers
    MAX_TIMEOUTS

ASSUME TimeoutsAssumption ==
    /\ MaxId \in Nat
    /\ Delays \subseteq Nat /\ IntervalDelays \subseteq Nat
    /\ MaxClock \in Nat /\ MAX_TIMEOUTS \in Nat

VARIABLES
    clock,         \* TimerChannel::now()
    timeouts,      \* the TimeoutState of each id ever used
    timeoutTimes,  \* entries sorted by time and age; key and promise in one
    timerTask,     \* the entry it waits for, as [when, id], or NoTask
    timeoutCount   \* timeoutsStarted - timeoutsFinished

timeoutVars == <<clock, timeouts, timeoutTimes, timerTask, timeoutCount>>

Ids == 1..MaxId
NoTask == [when |-> 0, id |-> 0]
Unused == [repeat |-> FALSE, msDelay |-> 0, isCanceled |-> FALSE,
           isRunning |-> FALSE, status |-> "unused"]

Used == {id \in Ids : timeouts[id].status # "unused"}
LiveTimers == {id \in Ids : timeouts[id].status = "live" /\ ~timeouts[id].isCanceled}

(* What Date.now() returns: never more than the time of the next timer.    *)
NowFor(c, times) ==
    IF times = <<>> \/ c < times[1].when THEN c ELSE times[1].when

now == NowFor(clock, timeoutTimes)

TimeoutsInit ==
    /\ clock = 0
    /\ timeouts = [id \in Ids |-> Unused]
    /\ timeoutTimes = <<>>
    /\ timerTask = NoTask
    /\ timeoutCount = 0

-----------------------------------------------------------------------------
TaskFor(times) ==
    IF times = <<>> THEN NoTask
    ELSE [when |-> times[1].when, id |-> times[1].id]

(* resetTimerTask() is called iff there is another first entry.            *)
SetTimes(times, otherFirst) ==
    /\ timeoutTimes' = times
    /\ timerTask' = IF otherFirst THEN TaskFor(times) ELSE timerTask

(* Where setTimeoutImpl() puts an entry: after those of the same time.     *)
PlaceFor(when) ==
    1 + Cardinality({i \in DOMAIN timeoutTimes : timeoutTimes[i].when <= when})

WithEntryAt(times, p, entry) ==
    SubSeq(times, 1, p - 1) \o <<entry>> \o SubSeq(times, p, Len(times))

WithEntry(times, id, when) ==
    WithEntryAt(times, PlaceFor(when),
                [when |-> when, id |-> id, stage |-> "waiting"])

WithoutEntry(times, p) ==
    SubSeq(times, 1, p - 1) \o SubSeq(times, p + 1, Len(times))

(* Mutant: the first entry is removed without a look at the next.          *)
RemoveEntrySilently(i) ==
    SetTimes(WithoutEntry(timeoutTimes, i), FALSE)

(* The removal that is attached to the promise of an entry.                *)
RemoveEntry(i) ==
    SetTimes(WithoutEntry(timeoutTimes, i), i = 1)

StartAt(id, repeat, msDelay, when) ==
    /\ id = Cardinality(Used) + 1
    /\ when <= MaxClock
    /\ timeouts' = [timeouts EXCEPT ![id] =
           [repeat |-> repeat, msDelay |-> msDelay, isCanceled |-> FALSE,
            isRunning |-> FALSE, status |-> "live"]]
    /\ timeoutCount' = timeoutCount + 1
    /\ SetTimes(WithEntry(timeoutTimes, id, when), PlaceFor(when) = 1)
    /\ UNCHANGED clock

(* setTimeout() and setInterval(), relative to what Date.now() returns.    *)
setTimeout(id, repeat, msDelay) ==
    /\ timeoutCount < MAX_TIMEOUTS
    /\ StartAt(id, repeat, msDelay, now + msDelay)

EntryOf(id) ==
    CHOOSE i \in DOMAIN timeoutTimes :
        /\ timeoutTimes[i].id = id
        /\ timeoutTimes[i].stage \in {"waiting", "fulfilled"}

(* clearTimeout() and TimeoutState::cancel().  Unless the callback is      *)
(* running the promise is destroyed, however far it has got; the state     *)
(* stays in the map.                                                       *)
clearTimeout(id) ==
    /\ id \in LiveTimers
    /\ timeouts' = [timeouts EXCEPT ![id].isCanceled = TRUE]
    /\ timeoutCount' = timeoutCount - 1
    /\ IF timeouts[id].isRunning THEN UNCHANGED <<timeoutTimes, timerTask>>
                                 ELSE RemoveEntry(EntryOf(id))
    /\ UNCHANGED clock

(* The timer task is done: it fulfills the entry that is first.            *)
TimerFires ==
    /\ timerTask # NoTask
    /\ timerTask.when <= clock
    /\ timeoutTimes' = [timeoutTimes EXCEPT ![1].stage = "fulfilled"]
    /\ timerTask' = NoTask
    /\ UNCHANGED <<clock, timeouts, timeoutCount>>

At(i, stage) == i \in DOMAIN timeoutTimes /\ timeoutTimes[i].stage = stage

(* context.run() has the lock, and trigger() calls the callback.           *)
CallbackBegins(i) ==
    /\ At(i, "fulfilled")
    /\ \A id \in Ids : ~timeouts[id].isRunning
    /\ timeouts' = [timeouts EXCEPT ![timeoutTimes[i].id].isRunning = TRUE]
    /\ timeoutTimes' = [timeoutTimes EXCEPT ![i].stage = "running"]
    /\ UNCHANGED <<clock, timerTask, timeoutCount>>

End(i, repeats, delay) ==
    LET id == timeoutTimes[i].id
        when == now + delay
        ended == [timeoutTimes EXCEPT ![i].stage = "ended"]
    IN /\ timeouts' = [timeouts EXCEPT ![id].isRunning = FALSE,
                                       ![id].status = IF repeats THEN "live" ELSE "erased"]
       /\ repeats => when <= MaxClock
       /\ timeoutTimes' = IF repeats THEN WithEntry(ended, id, when) ELSE ended
       /\ timeoutCount' = timeoutCount -
             (IF repeats \/ timeouts[id].isCanceled THEN 0 ELSE 1)
       /\ UNCHANGED <<clock, timerTask>>

(* Mutants: an interval is set again although its callback cleared it; it  *)
(* is set again for the time that it is.                                   *)
CallbackEndsAgain(i, limitsExceeded) ==
    /\ At(i, "running")
    /\ LET state == timeouts[timeoutTimes[i].id]
       IN End(i, state.repeat /\ ~limitsExceeded, state.msDelay)

CallbackEndsAtOnce(i, limitsExceeded) ==
    /\ At(i, "running")
    /\ LET state == timeouts[timeoutTimes[i].id]
       IN End(i, state.repeat /\ ~state.isCanceled /\ ~limitsExceeded, 0)

(* The callback returns or throws.  An interval that it did not clear is   *)
(* set again, behind its old entry.  Otherwise the state is erased.        *)
CallbackEnds(i, limitsExceeded) ==
    /\ At(i, "running")
    /\ LET state == timeouts[timeoutTimes[i].id]
       IN End(i, state.repeat /\ ~state.isCanceled /\ ~limitsExceeded,
              state.msDelay)

(* The promise of the run completes.                                       *)
PromiseCompletes(i) ==
    /\ At(i, "ended")
    /\ RemoveEntry(i)
    /\ UNCHANGED <<clock, timeouts, timeoutCount>>

ClockTicks ==
    /\ clock < MaxClock
    /\ clock' = clock + 1
    /\ UNCHANGED <<timeouts, timeoutTimes, timerTask, timeoutCount>>

Places == 1..(MaxId + 1)

TimeoutsNext ==
    \/ \E id \in Ids, d \in Delays : setTimeout(id, FALSE, d)
    \/ \E id \in Ids, d \in IntervalDelays : setTimeout(id, TRUE, d)
    \/ \E id \in Ids : clearTimeout(id)
    \/ TimerFires
    \/ \E i \in Places : CallbackBegins(i)
    \/ \E i \in Places, exceeded \in BOOLEAN : CallbackEnds(i, exceeded)
    \/ \E i \in Places : PromiseCompletes(i)
    \/ ClockTicks

TimeoutsSpec == TimeoutsInit /\ [][TimeoutsNext]_timeoutVars

-----------------------------------------------------------------------------
(* The count stays within the limit of addState().                         *)
TimeoutsTypeOK ==
    /\ clock \in 0..MaxClock
    /\ timeouts \in [Ids -> [repeat : BOOLEAN, msDelay : Nat,
                             isCanceled : BOOLEAN, isRunning : BOOLEAN,
                             status : {"unused", "live", "erased"}]]
    /\ timeoutTimes \in Seq([when : 0..MaxClock, id : Ids,
           stage : {"waiting", "fulfilled", "running", "ended"}])
    /\ timerTask \in [when : 0..MaxClock, id : Ids \cup {0}]
    /\ timeoutCount \in 0..MAX_TIMEOUTS

(* No timer is missed: while there are timers the task waits for the first *)
(* of them, or the first is past waiting. (The assertion in                *)
(* resetTimerTask(), "we probably missed a timeout!".)                     *)
FirstTimerAwaited ==
    timeoutTimes # <<>> =>
        IF timeoutTimes[1].stage = "waiting"
        THEN timerTask = TaskFor(timeoutTimes)
        ELSE timerTask = NoTask

(* Callbacks run in the order of their times, and Date.now() is, within a  *)
(* callback, exactly the time it was scheduled for.                        *)
CallbackSeesItsTime ==
    \A i \in DOMAIN timeoutTimes : timeoutTimes[i].stage # "waiting" =>
        i = 1 /\ now = timeoutTimes[i].when

(* The time returned by Date.now() never goes backwards, though it is the  *)
(* clock's at some times and the first timer's at others.                  *)
TimeNeverGoesBack == [][now' >= now]_timeoutVars

(* The count that the limit is about is that of the timers that can still  *)
(* fire: those with an entry that waits, and the one whose callback runs.  *)
CountIsOfActive ==
    timeoutCount =
        Cardinality({id \in Ids :
            /\ ~timeouts[id].isCanceled
            /\ \E i \in DOMAIN timeoutTimes :
                  /\ timeoutTimes[i].id = id
                  /\ timeoutTimes[i].stage # "ended"})

(* Timers fire in order, at their time, and are counted.                   *)
TimersInOrder == FirstTimerAwaited /\ CallbackSeesItsTime /\ CountIsOfActive

(* A cleared timer never calls back again.                                 *)
ClearedStayCleared ==
    [][\A id \in Ids :
          timeouts[id].isCanceled /\ ~timeouts[id].isRunning
             => ~timeouts'[id].isRunning]_timeoutVars

(* Neither time nor clearTimeout() is ever taken back.                     *)
NothingIsTakenBack == TimeNeverGoesBack /\ ClearedStayCleared

(* An interval without a delay, the default of setInterval(), is ahead of  *)
(* the timer: it is set again for the same now(), which stays what it is.  *)
HeldUp(id) ==
    /\ id \in LiveTimers
    /\ \E z \in LiveTimers, i, j \in DOMAIN timeoutTimes :
          /\ timeouts[z].repeat /\ timeouts[z].msDelay = 0
          /\ timeoutTimes[i].id = z /\ timeoutTimes[j].id = id
          /\ timeoutTimes[i].when < timeoutTimes[j].when

(* Every timer calls back or is cleared, unless from some time on an       *)
(* interval without a delay is ahead of it for good.  Timers that are due  *)
(* with such an interval, and those behind other intervals, do run.        *)
TimersRun ==
    \A id \in Ids :
        []<>~HeldUp(id)
        => (id \in LiveTimers
               ~> (timeouts[id].isRunning \/ timeouts[id].isCanceled))
=============================================================================
