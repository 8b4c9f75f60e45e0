\* A session with two workers, one user, messages of one and two bytes, a ring of two.
\* A core with two workers, one submitter, two requests, two closers.
CONSTANTS
    Workers = {w1, w2}
    Users = {u1}
    Opener = opener
    NoThread = nobody
    RingSize = 2
    MaxBytes = 2
    CoreWorkers = {c1, c2}
    Submitters = {s1}
    Closers = {k1, k2}
    MaxIo = 2
    Batch = 1
    Corruptible = TRUE
SPECIFICATION PartsSpec
INVARIANTS
    OneReceiveAtATime SentInOrder NoStrandedSend DestroyedAfterLastUse WorkersWoken
PROPERTIES
    CloseCompletes
CHECK_DEADLOCK FALSE
