SPECIFICATION Spec
CONSTANTS
    Users = {u1}
    Workers = {w1, w2}
    Messages = {m1, m2}
    MaxSendQueue = 1
    RecvCapacity = 1
    SendFails = TRUE
    Aborts = TRUE
SYMMETRY Symmetry
INVARIANTS
    NotifiedLast PendingCounted OneOfEach NoStrandedMessage SentInOrder
CHECK_DEADLOCK FALSE
