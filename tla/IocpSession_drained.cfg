SPECIFICATION Spec
CONSTANTS
    Users = {u1}
    Workers = {w1, w2}
    Messages = {m1}
    MaxSendQueue = 1
    RecvCapacity = 1
    SendFails = TRUE
    Aborts = FALSE
INVARIANTS
    DrainedIsNotified
CHECK_DEADLOCK FALSE
