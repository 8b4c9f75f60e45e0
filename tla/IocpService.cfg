\* Three sessions, two workers; both services, with and without the limit.
\* The listener: two slots, two workers, two retry threads.
CONSTANTS
    Sessions = {s1, s2, s3}
    NoSession = NoSession
    Workers = {w1, w2}
    Limit = 1
    Kinds = {"server", "client"}
    Enforces = {TRUE, FALSE}
    Slots = {e1, e2}
    NoSlot = NoSlot
    AcceptWorkers = {a1, a2}
    Retriers = {r1, r2}
SPECIFICATION PartsSpec
INVARIANTS
    ListsAgree LimitHolds NobodyInFreedListener
PROPERTIES
    CloseReturns StopEnds
CHECK_DEADLOCK FALSE
