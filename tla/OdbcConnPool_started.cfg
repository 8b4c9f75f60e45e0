\* The pool as it is: Init() on a new object.
SPECIFICATION Spec
CONSTANTS
    PoolSize = 1
    Borrowers = {c1}
    Namers = {}
    Workers = {w1, w2}
    MaxConns = 2
    Rearms = {FALSE}
INVARIANTS
    BackgroundRuns
CHECK_DEADLOCK FALSE
