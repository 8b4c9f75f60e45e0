SPECIFICATION FairSpec
CONSTANTS
    Users = {u1}
    Workers = {w1, w2}
    Messages = {m1}
    MaxSendQueue = 1
    RecvCapacity = 1
    SendFails = FALSE
    Aborts = TRUE
PROPERTIES
    ClosedIsNotified
CHECK_DEADLOCK FALSE
