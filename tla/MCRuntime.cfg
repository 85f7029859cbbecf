SPECIFICATION RuntimeSpec
CONSTANTS
    Subjects = {"inputGate", "hibernation", "send", "memory", "timers", "lock"}
    Root = Root
    Sections = {c1, c2, c3}
    Tasks = {w1, w2}
    NoGate = NoGate
    NoSection = NoSection
    r1 = r1
    r2 = r2
    e1 = e1
    Calls = {r1}
    Requesters = {r1, r2, e1}
    EventOf <- MCEventOf
    Managers = {1, 2}
    IsEvictable = {TRUE, FALSE}
    MaxMessages = 3
    MaxResponses = 3
    MaxHibernations = 2
    SlowSends = FALSE
    q1 = q1
    q2 = q2
    q3 = q3
    u1 = u1
    u2 = u2
    u3 = u3
    MaxKey = 2
    Readers = {q1, q2, q3}
    Uses = {u1, u2, u3}
    UseOf <- MCUseOf
    LimitsOf <- MCLimitsOf
    Sizes = {1, 2, 3}
    MaxInstant = 1
    MaxId = 3
    Delays = {0, 1}
    IntervalDelays = {0, 1}
    MaxClock = 3
    MAX_TIMEOUTS = 2
    th1 = th1
    th2 = th2
    th3 = th3
    t1 = t1
    t2 = t2
    t3 = t3
    t4 = t4
    i1 = i1
    Threads = {th1, th2, th3}
    Isolates = {i1, i2}
    Takers = {t1, t2, t3, t4}
    ThreadOf <- MCThreadOf
    NoIsolate = NoIsolate
CHECK_DEADLOCK FALSE
INVARIANTS
    RuntimeTypeOK
    LocksAccounted NoLostWakeup FailureBreaksRoot
    OneActorAtATime
    WireInOrder
    CacheIsBounded FallbacksInLine
    TimersInOrder
PROPERTIES
    OutsidersExcluded
    NothingLeavesEarly
    NothingIsTakenBack
    ImplementsIsolateLock
