----------------------------- MODULE MCRuntime ------------------------------
(* Instances of the other components for TLC.                              *)
EXTENDS MCSubject, InputGate, Hibernation, WebSocketSend, MemoryCache, Timeouts,
        AsyncLock, TLC

CONSTANTS
    r1, r2, e1,                           \* requesters of the actor
    q1, q2, q3, u1, u2, u3,               \* readers and uses of the cache
    th1, th2, th3, t1, t2, t3, t4, i1     \* threads and their tasks

MCEventOf(r) == e1

MCUseOf == [q \in Readers |-> IF q = q1 THEN u1 ELSE u2]

MCLimitsOf ==
    [u \in Uses |-> CASE u = u1 -> Limit(1, 2, 3) [] u = u2 -> Limit(2, 1, 2)
                       [] OTHER -> Limit(2, 2, 2)]

MCThreadOf ==
    [t \in Takers |-> CASE t = t3 -> th2 [] t = t4 -> th3 [] OTHER -> th1]

runtimeVars == <<vars, hibernationVars, sendVars, memoryCacheVars,
                 timeoutVars, asyncLockVars>>

RuntimeInit ==
    /\ subject \in Subjects
    /\ Init
    /\ HibernationInit
    /\ On("hibernation") \/ isEvictable = TRUE
    /\ SendInit
    /\ MemoryCacheInit
    /\ TimeoutsInit
    /\ AsyncLockInit
    /\ On("lock") \/ task = [t \in Takers |-> [at |-> "new", isolate |-> i1]]

InputGateStep ==
    /\ On("inputGate") /\ Next
    /\ UNCHANGED <<subject, hibernationVars, sendVars, memoryCacheVars,
                   timeoutVars, asyncLockVars>>

HibernationStep ==
    /\ On("hibernation") /\ HibernationNext
    /\ UNCHANGED <<subject, vars, sendVars, memoryCacheVars, timeoutVars,
                   asyncLockVars>>

SendStep ==
    /\ On("send") /\ SendNext
    /\ UNCHANGED <<subject, vars, hibernationVars, memoryCacheVars,
                   timeoutVars, asyncLockVars>>

MemoryStep ==
    /\ On("memory") /\ MemoryCacheNext
    /\ UNCHANGED <<subject, vars, hibernationVars, sendVars, timeoutVars,
                   asyncLockVars>>

TimersStep ==
    /\ On("timers") /\ TimeoutsNext
    /\ UNCHANGED <<subject, vars, hibernationVars, sendVars, memoryCacheVars,
                   asyncLockVars>>

LockStep ==
    /\ On("lock") /\ AsyncLockNext
    /\ UNCHANGED <<subject, vars, hibernationVars, sendVars, memoryCacheVars,
                   timeoutVars>>

RuntimeNext ==
    \/ InputGateStep \/ HibernationStep \/ SendStep
    \/ MemoryStep \/ TimersStep \/ LockStep

RuntimeSpec == RuntimeInit /\ [][RuntimeNext]_<<subject, runtimeVars>>

(* The states of every component are of the declared shape.                *)
RuntimeTypeOK ==
    /\ On("inputGate") => TypeOK
    /\ On("hibernation") => HibernationTypeOK
    /\ On("send") => SendTypeOK
    /\ On("memory") => MemoryCacheTypeOK
    /\ On("timers") => TimeoutsTypeOK
    /\ On("lock") => AsyncLockTypeOK

-----------------------------------------------------------------------------
(* A continuation that runs under a Lock returns and drops it, one whose   *)
(* promise is settled runs, and a running section ends:                    *)
(* blockConcurrencyWhile() fails it after 30 seconds at the latest, and    *)
(* drops it.                                                               *)
InputGateFairness ==
    /\ WF_vars(On("inputGate") /\ \E o \in Owners : Release(o))
    /\ WF_vars(/\ On("inputGate")
               /\ \E t \in Tasks : ResumeGranted(t) \/ ResumeRejected(t))
    /\ WF_vars(/\ On("inputGate")
               /\ \E c \in Sections : Succeeded(c) \/ DestroySection(c))

(* The timers of the container fire, an isolate's lock is granted, a peer  *)
(* that has gone is noticed, and an event's handler ends.  The next event  *)
(* ends the drain() of the one before it (IncomingRequest::delivered).     *)
HibernationFairness ==
    WF_hibernationVars(/\ On("hibernation")
                       /\ \/ ShutdownTimer /\ sockets' = Kept(sockets)
                          \/ HibernateAndEvict
                          \/ \E r \in Calls :
                                \/ receiveDisconnected(r) \/ EventRuns(r)
                                \/ EventReturns(r)
                                \/ sockets[r].pc = "waiting" /\ EventDrained(r))

(* The peer reads, and the output gate opens.                              *)
SendFairness ==
    WF_sendVars(/\ On("send")
                /\ PumpBegins \/ OutputLockOpens \/ PumpSent \/ ResponseSent)

(* A fallback that has begun ends, because it produces a value, fails or   *)
(* is destroyed with its I/O context, and a callback taken out of the line *)
(* is handed over in the same function.                                    *)
MemoryCacheFairness ==
    /\ WF_memoryCacheVars(On("memory") /\ \E k \in Keys : fulfillNext(k))
    /\ \A r \in Readers :
          WF_memoryCacheVars(On("memory") /\ \E at \in Instants : Finish(r, at))

(* The event loop runs every event that is ready, and time passes.         *)
TimersFairness ==
    /\ WF_timeoutVars(On("timers") /\ ClockTicks)
    /\ WF_timeoutVars(/\ On("timers")
                      /\ \/ TimerFires
                         \/ \E i \in Places :
                               \/ CallbackBegins(i) \/ PromiseCompletes(i)
                               \/ \E e \in BOOLEAN : CallbackEnds(i, e))

(* Every thread's event loop runs what is ready, and an AsyncLock is not   *)
(* kept.                                                                   *)
LockFairness ==
    WF_asyncLockVars(/\ On("lock")
                     /\ \E t \in Takers :
                           \/ task[t].at = "retry" /\ takeAsyncLockImpl(t)
                           \/ LockTaken(t) \/ ReleaseLock(t))

RuntimeFairSpec ==
    /\ RuntimeSpec
    /\ InputGateFairness /\ HibernationFairness /\ SendFairness
    /\ MemoryCacheFairness /\ TimersFairness /\ LockFairness
=============================================================================
