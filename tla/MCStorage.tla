----------------------------- MODULE MCStorage ------------------------------
(* Instances of the components of storage and of the streams for TLC.      *)
EXTENDS MCSubject, ActorSqlite, CountedDeletes, ActorAlarm, AlarmScheduler,
        ByteQueue, WritableStream

MCDeletedBy(d) == IF d = "d1" THEN {1, 2} ELSE {2, 3}

storageVars == <<sqliteVars, countedVars, alarmVars, schedulerVars,
                 byteQueueVars, dst>>

StorageInit ==
    /\ subject \in Subjects
    /\ SqliteInit
    /\ CountedDeletesInit
    /\ On("deletes") \/ onDisk = {}
    /\ ActorAlarmInit
    /\ On("alarm") \/ (stored = NoAlarm /\ ~hasHandler)
    /\ SchedulerInit
    /\ On("scheduler") \/ rows = [a \in Actors |-> None]
    /\ ByteQueueInit
    /\ WritableInit
    /\ On("writable") \/ (~dst.started /\ dst.algorithms = SinkAlgorithms)

GateStep ==
    /\ On("gate") /\ GateNext
    /\ UNCHANGED <<subject, storeVars, seen, countedVars, alarmVars,
                   schedulerVars, byteQueueVars, dst>>

SqliteStep ==
    /\ On("sqlite") /\ SqliteNext
    /\ UNCHANGED <<subject, countedVars, alarmVars, schedulerVars,
                   byteQueueVars, dst>>

DeletesStep ==
    /\ On("deletes") /\ CountedDeletesNext
    /\ UNCHANGED <<subject, sqliteVars, alarmVars, schedulerVars,
                   byteQueueVars, dst>>

AlarmStep ==
    /\ On("alarm") /\ ActorAlarmNext
    /\ UNCHANGED <<subject, sqliteVars, countedVars, schedulerVars,
                   byteQueueVars, dst>>

SchedulerStep ==
    /\ On("scheduler") /\ SchedulerNext
    /\ UNCHANGED <<subject, sqliteVars, countedVars, alarmVars,
                   byteQueueVars, dst>>

BytesStep ==
    /\ On("bytes") /\ ByteQueueNext
    /\ UNCHANGED <<subject, sqliteVars, countedVars, alarmVars,
                   schedulerVars, dst>>

WritableStep ==
    /\ On("writable") /\ WritableNext
    /\ UNCHANGED <<subject, sqliteVars, countedVars, alarmVars,
                   schedulerVars, byteQueueVars>>

StorageNext ==
    \/ GateStep \/ SqliteStep \/ DeletesStep
    \/ AlarmStep \/ SchedulerStep \/ BytesStep
    \/ WritableStep

StorageSpec == StorageInit /\ [][StorageNext]_<<subject, storageVars>>

(* The states of every component are of the declared shape.                *)
StorageTypeOK ==
    /\ On("gate") \/ On("sqlite") => GateTypeOK
    /\ On("sqlite") => SqliteTypeOK
    /\ On("deletes") => CountedDeletesTypeOK
    /\ On("alarm") => ActorAlarmTypeOK
    /\ On("scheduler") => SchedulerTypeOK
    /\ On("bytes") => ByteQueueTypeOK
    /\ On("writable") => WritableTypeOK

-----------------------------------------------------------------------------
(* The event loop runs every settled promise's continuation, and every     *)
(* lock ends: its promise settles, or the timeout that Worker::Actor's     *)
(* hooks add (30 seconds) fires.                                           *)
GateFairness ==
    WF_gateVars(/\ On("gate")
                /\ \/ \E k \in 1..Len(locks) :
                         Unlock(k) \/ BreakLock(k) \/ Join(k)
                   \/ \E m \in Messages : Settle(m))

(* JavaScript yields to the event loop, whose queue is first in, first     *)
(* out: an event that is ready runs, however many turns JavaScript takes   *)
(* meanwhile.  commitCallback settles or times out.                        *)
SqliteFairness ==
    /\ WF_sqliteVars(On("sqlite") /\ EndTurn)
    /\ SF_sqliteVars(On("sqlite") /\ DropRolledBack)
    /\ SF_sqliteVars(On("sqlite") /\ GateEvents)
    /\ \A k \in 1..MaxLocks :
          SF_sqliteVars(/\ On("sqlite") /\ k \in 1..Len(tasks)
                        /\ CommitTask(k) \/ CallbackDone(k) \/ CallbackFails(k))

(* The event loop runs flushes that are scheduled, storage answers, and a  *)
(* handler is given 15 minutes at most.                                    *)
AlarmFairness ==
    WF_alarmVars(/\ On("alarm")
                 /\ \/ StorageReadsAlarm \/ getAlarmAnswered
                    \/ StartAlarmFlush \/ flushImplAlarmOnly
                    \/ StorageWritesAlarm \/ AlarmFlushSucceeds
                    \/ \E r \in Requests :
                          \/ runAlarm(r) \/ handleAlarm(r) \/ StartHandler(r)
                          \/ HandlerEnds(r) \/ LocksReleased(r)
                          \/ GateReleased(r))

(* Time passes, the event loop runs timers that are due, and every run of  *)
(* an alarm ends: the handler is given 15 minutes at most.                 *)
SchedulerFairness ==
    WF_schedulerVars(/\ On("scheduler")
                     /\ \/ Tick
                        \/ \E a \in Actors :
                              \/ StartAlarm(a)
                              \/ \E o \in Outcomes(a) : FinishAlarm(a, o))

(* The promises of a sink's algorithms are settled, a source comes to an   *)
(* end, and JavaScript runs the continuations of settled promises.         *)
WritableFairness ==
    WF_dst(/\ On("writable")
           /\ \/ \E b \in BOOLEAN : \/ startSettles(b) \/ writeSettles(b)
                                    \/ closeSettles(b) \/ abortSettles(b)
              \/ \E b \in Listens : pipeWritten(b)
              \/ \E b \in Listens, end \in {"Closed", "Errored"} :
                    sourceEnds(end, b))

StorageFairSpec ==
    /\ StorageSpec
    /\ GateFairness /\ SqliteFairness /\ AlarmFairness
    /\ SchedulerFairness /\ WritableFairness
=============================================================================
