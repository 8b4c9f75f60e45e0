----------------------------- MODULE TaskQueue -----------------------------
(* CBlockingTaskQueue and CChunkedBlockingQueue (UtilCore/Containers/Queue): *)
(* a queue, one mutex, and condition variables that are notified after the   *)
(* mutex is released.  A region under the mutex is one step, a notification  *)
(* another.                                                                  *)
EXTENDS Integers, FiniteSets, FiniteSetsExt

CONSTANTS
    Makers,       \* producer threads
    Takers,       \* consumer threads
    QueueKinds,   \* which of "blocking", "chunked" (unbounded), "bounded"
    MaxQueueSize, \* _maxQueueSize of a bounded chunked queue
    MaxBatch,     \* bound: items pushed by one call, or taken by one
    MaxTasks      \* bound: items pushed in a run

ASSUME TaskQueueConstants ==
    /\ Makers \intersect Takers = {} /\ IsFiniteSet(Makers) /\ IsFiniteSet(Takers)
    /\ MaxQueueSize \in Nat \ {0} /\ MaxBatch \in 1..MaxQueueSize /\ MaxTasks \in Nat
    /\ QueueKinds \subseteq {"blocking", "chunked", "bounded"}

VARIABLES
    queueKind,      \* which queue it is
    queueSize,      \* items in it
    producerDone,   \* _producerDone
    queueStopped,   \* _stopped
    emptySleepers,  \* threads asleep on _cv
    fullSleepers,   \* threads asleep on _notFullCv
    taskPc,         \* of each thread: where it is
    amount,         \* of each thread: items it pushes, or takes at most
    pushed          \* bound: items pushed

queueVarsOfTask == <<queueKind, queueSize, producerDone, queueStopped, emptySleepers, fullSleepers, taskPc,
                     amount, pushed>>
TaskThreads == Makers \union Takers

TaskInit ==
    /\ queueKind \in QueueKinds
    /\ queueSize = 0
    /\ producerDone = FALSE /\ queueStopped = FALSE
    /\ emptySleepers = {} /\ fullSleepers = {}
    /\ taskPc = [t \in TaskThreads |-> "idle"]
    /\ amount = [t \in TaskThreads |-> 0]
    /\ pushed = 0

(* The single producer of a bounded queue is the class's precondition.       *)
MayPush(p) == queueKind = "bounded" => p = CHOOSE m \in Makers : TRUE

Wakes(t, place) == taskPc' = [taskPc EXCEPT ![t] = place]

-----------------------------------------------------------------------------
Enter(t, place) ==
    /\ taskPc[t] = "idle"
    /\ \E n \in 1..MaxBatch : amount' = [amount EXCEPT ![t] = n]
    /\ Wakes(t, place)
    /\ UNCHANGED <<queueKind, queueSize, producerDone, queueStopped, emptySleepers, fullSleepers, pushed>>

EnterPush(p) == MayPush(p) /\ pushed + MaxBatch <= MaxTasks /\ Enter(p, "push")
EnterTake(c) == Enter(c, "take")

Full(p) == queueKind = "bounded" /\ ~queueStopped /\ ~producerDone /\ amount[p] > MaxQueueSize - queueSize

(* Push() and PushBatch(), past the wait.  A batch that could never fit is   *)
(* refused before and is not among the amounts.                              *)
PushItems(p) ==
    /\ taskPc[p] = "push" /\ ~Full(p)
    /\ IF queueStopped \/ producerDone
         THEN Wakes(p, "idle") /\ UNCHANGED <<queueSize, pushed>>
         ELSE /\ queueSize' = queueSize + amount[p]
              /\ pushed' = pushed + amount[p]
              /\ \/ amount[p] = 1 /\ Wakes(p, "notifyOne")
                 \/ (amount[p] > 1 \/ queueKind # "blocking") /\ Wakes(p, "notifyAll")
    /\ UNCHANGED <<queueKind, producerDone, queueStopped, emptySleepers, fullSleepers, amount>>

PushSleeps(p) ==
    /\ taskPc[p] = "push" /\ Full(p)
    /\ fullSleepers' = fullSleepers \union {p}
    /\ Wakes(p, "asleep")
    /\ UNCHANGED <<queueKind, queueSize, producerDone, queueStopped, emptySleepers, amount, pushed>>

(* Pop() and PopChunk(), past the wait.                                      *)
Ready == queueStopped \/ queueSize > 0 \/ producerDone

TakeItems(c) ==
    /\ taskPc[c] = "take" /\ Ready
    /\ IF queueStopped \/ queueSize = 0
         THEN Wakes(c, "idle") /\ UNCHANGED queueSize
         ELSE /\ queueSize' = queueSize - (IF queueKind = "blocking" THEN 1 ELSE Min({amount[c], queueSize}))
              /\ Wakes(c, IF queueKind = "bounded" THEN "notifyRoom" ELSE "idle")
    /\ UNCHANGED <<queueKind, producerDone, queueStopped, emptySleepers, fullSleepers, amount, pushed>>

TakeSleeps(c) ==
    /\ taskPc[c] = "take" /\ ~Ready
    /\ emptySleepers' = emptySleepers \union {c}
    /\ Wakes(c, "asleep")
    /\ UNCHANGED <<queueKind, queueSize, producerDone, queueStopped, fullSleepers, amount, pushed>>

(* A sleeper that is notified takes the mutex and tests again.               *)
Woken(t, sleepers) ==
    taskPc' = [u \in TaskThreads |-> IF u = t THEN "idle"
                                     ELSE IF u \in sleepers THEN IF u \in Makers THEN "push" ELSE "take"
                                     ELSE taskPc[u]]

NotifyOneTaker(t) ==
    /\ taskPc[t] = "notifyOne"
    /\ \E s \in SUBSET emptySleepers :
         /\ Cardinality(s) = Min({1, Cardinality(emptySleepers)})
         /\ emptySleepers' = emptySleepers \ s
         /\ Woken(t, s)
    /\ UNCHANGED <<queueKind, queueSize, producerDone, queueStopped, fullSleepers, amount, pushed>>

(* Mutant: one thread is woken, however many items there are.                *)
NotifyOneOfTakers(t) ==
    /\ taskPc[t] = "notifyAll"
    /\ \E s \in SUBSET emptySleepers :
         /\ Cardinality(s) = Min({1, Cardinality(emptySleepers)})
         /\ emptySleepers' = emptySleepers \ s
         /\ Woken(t, s)
    /\ UNCHANGED <<queueKind, queueSize, producerDone, queueStopped, fullSleepers, amount, pushed>>

NotifyTakers(t) ==
    /\ taskPc[t] = "notifyAll"
    /\ emptySleepers' = {}
    /\ Woken(t, emptySleepers)
    /\ UNCHANGED <<queueKind, queueSize, producerDone, queueStopped, fullSleepers, amount, pushed>>

NotifyRoom(t) ==
    /\ taskPc[t] = "notifyRoom"
    /\ \E s \in SUBSET fullSleepers :
         /\ Cardinality(s) = Min({1, Cardinality(fullSleepers)})
         /\ fullSleepers' = fullSleepers \ s
         /\ Woken(t, s)
    /\ UNCHANGED <<queueKind, queueSize, producerDone, queueStopped, emptySleepers, amount, pushed>>

NotifyEveryone(t) ==
    /\ taskPc[t] = "notifyEnd"
    /\ emptySleepers' = {} /\ fullSleepers' = {}
    /\ Woken(t, emptySleepers \union fullSleepers)
    /\ UNCHANGED <<queueKind, queueSize, producerDone, queueStopped, amount, pushed>>

SetProducerDone(p) ==
    /\ taskPc[p] = "idle" /\ ~producerDone
    /\ producerDone' = TRUE
    /\ Wakes(p, "notifyEnd")
    /\ UNCHANGED <<queueKind, queueSize, queueStopped, emptySleepers, fullSleepers, amount, pushed>>

StopQueue(t) ==
    /\ taskPc[t] = "idle" /\ ~queueStopped
    /\ queueStopped' = TRUE
    /\ Wakes(t, "notifyEnd")
    /\ UNCHANGED <<queueKind, queueSize, producerDone, emptySleepers, fullSleepers, amount, pushed>>

TaskNext ==
    \/ \E p \in Makers : EnterPush(p) \/ PushItems(p) \/ PushSleeps(p) \/ SetProducerDone(p)
    \/ \E c \in Takers : EnterTake(c) \/ TakeItems(c) \/ TakeSleeps(c)
    \/ \E t \in TaskThreads :
         NotifyOneTaker(t) \/ NotifyTakers(t) \/ NotifyRoom(t) \/ NotifyEveryone(t) \/ StopQueue(t)

TaskSpec == TaskInit /\ [][TaskNext]_queueVarsOfTask

-----------------------------------------------------------------------------
(* When every thread has come to rest, none of those that sleep had a reason *)
(* to go on: no notification went to a thread that could not use it while    *)
(* another could.                                                            *)
NoTaskWaiterForgotten ==
    (\A t \in TaskThreads : taskPc[t] \in {"idle", "asleep"})
      => /\ emptySleepers # {} => ~Ready
         /\ \A p \in fullSleepers : Full(p)

=============================================================================
