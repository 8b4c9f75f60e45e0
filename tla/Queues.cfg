\* Eight classes, one in each behaviour.
\* The HTTP pool has one connection, two when submitters race.
CONSTANTS
    Producers = {p1, p2}
    Consumers = {c1, c2}
    Builds <- SomeBuilds
    Capacity = 2
    MaxPushes <- SomePushes
    SlotUsers = {t1, t2}
    SlotCount = 3
    MaxVersion = 8
    Holders = {h1, h2, h3}
    MaxRefs = 5
    Makers = {m1, m2}
    Takers = {c1, c2}
    QueueKinds = {"blocking", "chunked", "bounded"}
    MaxQueueSize = 2
    MaxBatch = 2
    MaxTasks = 6
    Writers = {w1, w2}
    MaxWrites = 2
    Reservers = {r1, r2}
    MaxTime = 2
    Delays = {0, 1, 2}
    MaxDelayed = 3
    Feeders = {p1, p2, f3}
    Blocking = {p1, p2}
    Servers = {c1, c2}
    Destroyer = destroyer
    MaxQueries = 1
    Chunk = 2
    NoQuery = noQuery
    Requests = {q1, q2}
    Idempotent = {q1}
    Links = {s1, s2}
    TaskThread = timer
    Closer = closer
    MinIdle = 1
    MaxConnections = 1
    MaxReserved = 1
    NoRequest = noRequest
    NoLink = noLink
SPECIFICATION PartsSpec
INVARIANTS
    CellHandedOver NobodySleepsForGood
    EverySlotOnce LivesWhileHeld NoTaskWaiterForgotten BufferTakenWhole TimerDoesNotOversleep
    AcceptedIsServed AnsweredOnce OneRequestPerSession
CHECK_DEADLOCK FALSE
SYMMETRY Symmetry
