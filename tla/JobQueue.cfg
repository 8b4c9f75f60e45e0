\* Three threads, two queues, three jobs; the lock with three threads.
CONSTANTS
    Threads = {t1, t2, t3}
    Queues = {q1, q2}
    Jobs = {j1, j2, j3}
    NoQueue = NoQueue
    NoJob = NoJob
    Lockers = {l1, l2, l3}
SPECIFICATION PartsSpec
INVARIANTS
    SerialExecution ScheduledOnce NoJobDiesWithItsQueue
    LockHolds
PROPERTIES
    ImplementsActors EveryJobRuns NoReaderPassesWriter WritersAdvance
CHECK_DEADLOCK FALSE
