----------------------------- MODULE MCJobQueue -----------------------------
(* The instance of JobQueue for TLC, and beside it one of RWSpinLock: the    *)
(* two do not interact, and a behaviour is of the one that `part` names.     *)
EXTENDS JobQueue, RWSpinLock

VARIABLE part

allVars == <<part, vars, lockVars>>

PartsInit == part \in {"jobs", "lock"} /\ Init /\ LockInit

(* Bound: the application ends its posting after all but one of the jobs.    *)
LastPosted == closing' => Cardinality(fresh) = 1 /\ timer = {}

PartsNext ==
    \/ part = "jobs" /\ Next /\ UNCHANGED <<part, lockVars>> /\ LastPosted
    \/ part = "lock" /\ LockNext /\ UNCHANGED <<part, vars>>

(* FairSpec of JobQueue and LockFairSpec, each for the behaviours of its part*)
PartsFairness ==
    /\ \A t \in Threads : WF_vars(part = "jobs" /\ Progress(t))
    /\ WF_vars(part = "jobs" /\ (\E t \in Threads : WorkerPop(t)))
    /\ \A t \in Lockers : WF_lockVars(part = "lock" /\ LockProgress(t))

PartsSpec == PartsInit /\ [][PartsNext]_allVars /\ PartsFairness
=============================================================================
