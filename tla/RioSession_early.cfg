\* Two workers, the thread that opens the session, and a user that closes it.
CONSTANTS
    Workers = {w1, w2}
    Users = {u1}
    Opener = opener
    NoThread = nobody
    RingSize = 2
    MaxBytes = 1
SPECIFICATION SessionSpec
INVARIANT ClosedAfterLastCompletion
CHECK_DEADLOCK FALSE
