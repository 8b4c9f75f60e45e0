\* One slot, two clients that borrow or two that name it, two workers, one
\* replacement; background threads that start, and ones that do not.
\* One connection to Redis that is opened up to two times, three commands.
CONSTANTS
    PoolSize = 1
    Borrowers = {c1, c2}
    Namers = {n1, n2}
    Workers = {w1, w2}
    MaxConns = 2
    Rearms = {TRUE, FALSE}
    RedisWorkers = {w1, w2}
    RedisUsers = {u1}
    Reconnector = reconnector
    MaxCommands = 3
    MaxSockets = 2
    MaxWaiting = 1
    Parts = 2
SPECIFICATION PartsSpec
INVARIANTS
    LeasesHold NothingLost CalledOnce ConnectionInOnePlace OwnReply
CHECK_DEADLOCK FALSE
SYMMETRY Symmetry
