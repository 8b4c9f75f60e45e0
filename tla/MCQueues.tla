------------------------------ MODULE MCQueues ------------------------------
(* Instances for TLC of the modules of Containers and Memory, and of what    *)
(* queues requests for others: the database service and the HTTP pool.  The  *)
(* classes do not use each other: a behaviour is of the one that `part`      *)
(* names, and the others stay as they begin.  Queues.cfg names two of the    *)
(* feeders, and the servers, as it does the producers and consumers: one     *)
(* permutation exchanges them in any part.                                   *)
EXTENDS MCLockFreeQueue, SlotStack, RefCountable, TaskQueue, DoubleBufferQueue, DelayedTaskQueue, AsyncSrv,
        HttpConnPool

VARIABLE part

allVars == <<part, queueVars, slotVars, refVars, queueVarsOfTask, bufferVars, delayVars, asyncVars,
             poolVars>>

PartsInit ==
    /\ part \in {"lockfree", "slots", "pointers", "tasks", "buffers", "delayed", "queries", "http"}
    /\ QueueInit /\ SlotInit /\ RefInit /\ TaskInit /\ BufferInit /\ DelayInit /\ AsyncInit /\ PoolInit
    /\ part # "lockfree" => class[1] = "MPMC"
    /\ part # "tasks" => queueKind = "blocking"

PartsNext ==
    \/ /\ part = "lockfree" /\ QueueNext
       /\ UNCHANGED <<part, slotVars, refVars, queueVarsOfTask, bufferVars, delayVars, asyncVars, poolVars>>
    \/ /\ part = "slots" /\ SlotNext
       /\ UNCHANGED <<part, queueVars, refVars, queueVarsOfTask, bufferVars, delayVars, asyncVars, poolVars>>
    \/ /\ part = "pointers" /\ RefNext
       /\ UNCHANGED <<part, queueVars, slotVars, queueVarsOfTask, bufferVars, delayVars, asyncVars, poolVars>>
    \/ /\ part = "tasks" /\ TaskNext
       /\ UNCHANGED <<part, queueVars, slotVars, refVars, bufferVars, delayVars, asyncVars, poolVars>>
    \/ /\ part = "buffers" /\ BufferNext
       /\ UNCHANGED <<part, queueVars, slotVars, refVars, queueVarsOfTask, delayVars, asyncVars, poolVars>>
    \/ /\ part = "delayed" /\ DelayNext
       /\ UNCHANGED <<part, queueVars, slotVars, refVars, queueVarsOfTask, bufferVars, asyncVars, poolVars>>
    \/ /\ part = "queries" /\ AsyncNext
       /\ UNCHANGED <<part, queueVars, slotVars, refVars, queueVarsOfTask, bufferVars, delayVars, poolVars>>
    \/ /\ part = "http" /\ PoolNext
       /\ UNCHANGED <<part, queueVars, slotVars, refVars, queueVarsOfTask, bufferVars, delayVars, asyncVars>>

PartsSpec == PartsInit /\ [][PartsNext]_allVars
=============================================================================
