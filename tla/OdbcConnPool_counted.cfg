\* The pool as it is, with clients that also name the slot they want.
SPECIFICATION Spec
CONSTANTS
    PoolSize = 1
    Borrowers = {c1}
    Namers = {c2}
    Workers = {w1}
    MaxConns = 2
    Rearms = {FALSE}
INVARIANTS
    RefCounted
CHECK_DEADLOCK FALSE
