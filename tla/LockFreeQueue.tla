--------------------------- MODULE LockFreeQueue ---------------------------
(* The bounded queues of UtilCore/Containers/Queue: MPMCLockFreeQueue,       *)
(* MPSCLockFreeQueue, SPMCLockFreeQueue and SPSCLockFreeQueue.  The four     *)
(* classes are put together from the same steps in different orders; a side  *)
(* with one thread stores its position where the other classes compare and   *)
(* swap it.                                                                  *)
(*                                                                           *)
(* A step is one access to shared memory.  Memory is either sequentially     *)
(* consistent or that of x86: a plain store waits in the store buffer of its *)
(* thread, a locked instruction (fetch_add, compare_exchange, a mutex) waits *)
(* for the buffer of its thread to drain.  A release store is plain there.   *)
(*                                                                           *)
(* An item is the number of the position it was pushed at.                   *)
EXTENDS Integers, Sequences, FiniteSetsExt

CONSTANTS
    Producers, Consumers,
    Builds,      \* the classes to be looked at, each with "plain" or "buffered" memory
    Capacity,    \* cells of the ring
    MaxPushes    \* bound: calls of Push(), with either memory

Nobody == "nobody"

ASSUME QueueConstants ==
    /\ Builds \subseteq {"MPMC", "MPSC", "SPMC", "SPSC"} \X {"plain", "buffered"}
    /\ Capacity \in Nat \ {0, 1}
    /\ MaxPushes \in [{"plain", "buffered"} -> Nat]
    /\ Producers # {} /\ Consumers # {} /\ Producers \intersect Consumers = {}
    /\ IsFiniteSet(Producers) /\ IsFiniteSet(Consumers) /\ Nobody \notin Producers \union Consumers

NoItem == -1
QueueThreads == Producers \union Consumers
Cells == 0 .. Capacity - 1

Enqueue == <<"m_EnqueuePos", 0>>
Dequeue == <<"m_DequeuePos", 0>>
Sequence(p) == <<"Sequence", p % Capacity>>
Data(p) == <<"Data", p % Capacity>>
Locations == {Enqueue, Dequeue} \union ({"Sequence", "Data"} \X Cells)

VARIABLES
    class,       \* the class, and whether stores are buffered
    team,        \* the threads that use the queue: one alone on an "S" side
    memory,      \* the positions and the cells
    storeBuffer, \* of each thread: stores that are not in memory yet
    closed,      \* m_Closed
    enqueuedAtClose,  \* history: m_EnqueuePos when Close() closed the queue
    closing,     \* what Close() has still to do
    waiting,     \* m_WaitingPoppers of "notEmpty", m_WaitingPushers of "notFull"
    mutex,       \* owners of m_NotEmptyMutex, m_NotFullMutex
    place,       \* of each thread: where it is
    position,    \* of each thread: its local pos
    seenEnqueue, \* of each thread: m_EnqueuePos, read for a test of the size
    patient,     \* threads past their spinning, in the loop that sleeps
    pushes       \* calls of Push() left

queueVars == <<class, team, memory, storeBuffer, closed, enqueuedAtClose, closing, waiting, mutex, place,
               position, seenEnqueue, patient, pushes>>
sharedVars == <<class, team, closed, enqueuedAtClose, closing, pushes>>

Teams(c) ==
    {t \in SUBSET QueueThreads :
        /\ IF c \in {"SPMC", "SPSC"} THEN \E p \in Producers : t \intersect Producers = {p} ELSE Producers \subseteq t
        /\ IF c \in {"MPSC", "SPSC"} THEN \E d \in Consumers : t \intersect Consumers = {d} ELSE Consumers \subseteq t}

QueueInit ==
    /\ class \in Builds
    /\ team \in Teams(class[1])
    /\ memory = [l \in Locations |-> CASE l[1] = "Sequence" -> l[2]
                                       [] l[1] = "Data"     -> NoItem
                                       [] OTHER             -> 0]
    /\ storeBuffer = [t \in QueueThreads |-> <<>>]
    /\ closed = FALSE
    /\ enqueuedAtClose = 0
    /\ closing = <<>>
    /\ waiting = [c \in {"notEmpty", "notFull"} |-> 0]
    /\ mutex = [c \in {"notEmpty", "notFull"} |-> Nobody]
    /\ place = [t \in QueueThreads |-> "idle"]
    /\ position = [t \in QueueThreads |-> 0]
    /\ seenEnqueue = [t \in QueueThreads |-> 0]
    /\ patient = {}
    /\ pushes = MaxPushes[class[2]]

-----------------------------------------------------------------------------
(* Memory.                                                                   *)

Pending(t, l) == {i \in DOMAIN storeBuffer[t] : storeBuffer[t][i][1] = l}
Load(t, l) == IF Pending(t, l) = {} THEN memory[l] ELSE storeBuffer[t][Max(Pending(t, l))][2]

Store(t, l, v) ==
    IF class[2] = "buffered"
    THEN storeBuffer' = [storeBuffer EXCEPT ![t] = Append(@, <<l, v>>)] /\ UNCHANGED memory
    ELSE memory' = [memory EXCEPT ![l] = v] /\ UNCHANGED storeBuffer

Drained(t) == storeBuffer[t] = <<>>

Flush(t) ==
    /\ storeBuffer[t] # <<>>
    /\ memory' = [memory EXCEPT ![Head(storeBuffer[t])[1]] = Head(storeBuffer[t])[2]]
    /\ storeBuffer' = [storeBuffer EXCEPT ![t] = Tail(@)]
    /\ UNCHANGED <<sharedVars, waiting, mutex, place, position, seenEnqueue, patient>>

Advance(t, next) == place' = [place EXCEPT ![t] = next]

(* Locals that are dead where t goes are set back: the call is over, or its  *)
(* try is.                                                                   *)
Settle(t, next) ==
    /\ Advance(t, next)
    /\ position' = IF next \in {"failed", "notify", "idle"} THEN [position EXCEPT ![t] = 0] ELSE position
    /\ seenEnqueue' = [seenEnqueue EXCEPT ![t] = 0]
    /\ patient' = IF next \in {"notify", "idle", "ended"} THEN patient \ {t} ELSE patient

(* A step that only moves t.                                                 *)
Only(t, next) ==
    /\ Settle(t, next)
    /\ UNCHANGED <<sharedVars, memory, storeBuffer, waiting, mutex>>

-----------------------------------------------------------------------------
(* The steps of EmplacePush() and TryPop().                                  *)

(* Local pos: the position the thread is going to use.                       *)
LoadPosition(t, from, l, next) ==
    /\ place[t] = from
    /\ position' = [position EXCEPT ![t] = Load(t, l)]
    /\ Advance(t, next)
    /\ UNCHANGED <<sharedVars, memory, storeBuffer, waiting, mutex, seenEnqueue, patient>>

(* The cell's sequence number against the one that makes the cell ready.     *)
TestSequence(t, ready, onEqual, onLess, onMore) ==
    /\ place[t] = "slot"
    /\ LET sequence == Load(t, Sequence(position[t])) IN
       Only(t, CASE sequence = ready -> onEqual [] sequence < ready -> onLess [] OTHER -> onMore)

(* compare_exchange on a position: a failure loads it.                       *)
Claim(t, l, next, onFailure) ==
    /\ place[t] = "claim"
    /\ Drained(t)
    /\ IF memory[l] = position[t]
       THEN /\ memory' = [memory EXCEPT ![l] = @ + 1]
            /\ Advance(t, next)
            /\ UNCHANGED position
       ELSE /\ position' = [position EXCEPT ![t] = memory[l]]
            /\ Advance(t, onFailure)
            /\ UNCHANGED memory
    /\ UNCHANGED <<sharedVars, storeBuffer, waiting, mutex, seenEnqueue, patient>>

(* A plain store.                                                            *)
Write(t, from, l, v, next) ==
    /\ place[t] = from
    /\ Store(t, l, v)
    /\ Settle(t, next)
    /\ UNCHANGED <<sharedVars, waiting, mutex>>

(* The item is constructed in the cell, or moved out of it and destroyed.    *)
Construct(p, next) == Write(p, "construct", Data(position[p]), position[p], next)
Destroy(c, next) == Write(c, "take", Data(position[c]), NoItem, next)

Publish(t, v, next) == Write(t, "publish", Sequence(position[t]), v, next)

(* Mutant: no notification when the counter of waiting threads shows one.    *)
NotifyOneTooFew(t, c) == place[t] = "notify" /\ Only(t, IF waiting[c] <= 1 THEN "idle" ELSE "wake")

(* NotifyNotEmpty(), NotifyNotFull(): nothing if nobody waits; else one of   *)
(* the sleeping threads is woken under the mutex.                            *)
TestWaiting(t, c) == place[t] = "notify" /\ Only(t, IF waiting[c] = 0 THEN "idle" ELSE "wake")

Sleepers(c) == {t \in IF c = "notEmpty" THEN Consumers ELSE Producers : place[t] = "asleep"}

NotifyOne(t, c) ==
    /\ place[t] = "wake"
    /\ mutex[c] = Nobody /\ Drained(t)
    /\ \/ Sleepers(c) = {} /\ Advance(t, "idle")
       \/ \E s \in Sleepers(c) : place' = [place EXCEPT ![t] = "idle", ![s] = "woken"]
    /\ UNCHANGED <<sharedVars, memory, storeBuffer, waiting, mutex, position, seenEnqueue, patient>>

Notify(t, c) == TestWaiting(t, c) \/ NotifyOne(t, c)

-----------------------------------------------------------------------------
(* Sleeping, the same in Push() and in Pop().  The size is read as two       *)
(* positions, one after the other.                                           *)

LoadSize(t, from, next) ==
    /\ place[t] = from
    /\ seenEnqueue' = [seenEnqueue EXCEPT ![t] = Load(t, Enqueue)]
    /\ Advance(t, next)
    /\ UNCHANGED <<sharedVars, memory, storeBuffer, waiting, mutex, position, patient>>

SizeApprox(t) ==
    LET dequeue == Load(t, Dequeue) IN
    IF seenEnqueue[t] >= dequeue THEN seenEnqueue[t] - dequeue ELSE 0

IsEmptyApprox(t) == SizeApprox(t) = 0
IsFullApprox(t) == SizeApprox(t) >= Capacity

(* The thread spins on, or is past its last spin: from then on it sleeps.    *)
Retry(t, again) ==
    \/ t \notin patient /\ Only(t, again)
    \/ /\ Advance(t, "lock")
       /\ patient' = patient \union {t}
       /\ UNCHANGED <<sharedVars, memory, storeBuffer, waiting, mutex, position, seenEnqueue>>

Lock(t, from, c, next) ==
    /\ place[t] = from
    /\ mutex[c] = Nobody /\ Drained(t)
    /\ mutex' = [mutex EXCEPT ![c] = t]
    /\ Advance(t, next)
    /\ UNCHANGED <<sharedVars, memory, storeBuffer, waiting, position, seenEnqueue, patient>>

Unlock(t, c, next) ==
    /\ mutex' = [mutex EXCEPT ![c] = Nobody]
    /\ Settle(t, next)
    /\ UNCHANGED <<sharedVars, memory, storeBuffer, waiting>>

Count(t, c) ==
    /\ place[t] = "count"
    /\ waiting' = [waiting EXCEPT ![c] = @ + 1]
    /\ Advance(t, "predicate")
    /\ UNCHANGED <<sharedVars, memory, storeBuffer, mutex, position, seenEnqueue, patient>>

Uncount(t, c, next) ==
    /\ place[t] = "uncount"
    /\ waiting' = [waiting EXCEPT ![c] = @ - 1]
    /\ mutex' = [mutex EXCEPT ![c] = Nobody]
    /\ Advance(t, next)
    /\ UNCHANGED <<sharedVars, memory, storeBuffer, position, seenEnqueue, patient>>

(* wait(): the predicate is tested under the mutex, before each sleep and    *)
(* after it.                                                                 *)
Wait(t, c, satisfied) ==
    \/ closed /\ place[t] = "predicate" /\ Only(t, "uncount")
    \/ ~closed /\ LoadSize(t, "predicate", "predicateSize")
    \/ place[t] = "predicateSize" /\ satisfied /\ Only(t, "uncount")
    \/ place[t] = "predicateSize" /\ ~satisfied /\ Unlock(t, c, "asleep")
    \/ Lock(t, "woken", c, "predicate")

-----------------------------------------------------------------------------
(* Push(), once EmplacePush() has failed; or TryPush(), which gives up.      *)
SleepInPush(p) ==
    \/ place[p] = "failed" /\ closed /\ Only(p, "idle")
    \/ place[p] = "failed" /\ p \notin patient /\ Only(p, "idle")
    \/ place[p] = "failed" /\ ~closed /\ Retry(p, "enter")
    \/ Lock(p, "lock", "notFull", "locked")
    \/ place[p] = "locked" /\ closed /\ Unlock(p, "notFull", "idle")
    \/ place[p] = "locked" /\ ~closed /\ Only(p, "count")
    \/ Count(p, "notFull")
    \/ Wait(p, "notFull", ~IsFullApprox(p))
    \/ Uncount(p, "notFull", "enter")

(* IsClosed(), then the load of m_EnqueuePos.                                *)
StartPush(p, next) ==
    \/ /\ place[p] = "idle" /\ pushes > 0
       /\ pushes' = pushes - 1
       /\ Advance(p, "enter")
       /\ UNCHANGED <<class, team, memory, storeBuffer, closed, enqueuedAtClose, closing, waiting, mutex,
                      position, seenEnqueue, patient>>
    \/ place[p] = "enter" /\ closed /\ Only(p, "idle")
    \/ ~closed /\ LoadPosition(p, "enter", Enqueue, next)

(* The loop of the classes with several producers tests IsClosed() as well.  *)
TestClosedAgain(p) == place[p] = "again" /\ Only(p, IF closed THEN "idle" ELSE "slot")

MPMCPush(p) ==
    /\ class[1] = "MPMC"
    /\ \/ StartPush(p, "slot")
       \/ TestSequence(p, position[p], "claim", "failed", "reload")
       \/ LoadPosition(p, "reload", Enqueue, "again")
       \/ TestClosedAgain(p)
       \/ Claim(p, Enqueue, "construct", "again")
       \/ Construct(p, "publish")
       \/ Publish(p, position[p] + 1, "notify")

MPSCPush(p) ==
    /\ class[1] = "MPSC"
    /\ \/ StartPush(p, "again")
       \/ TestClosedAgain(p)
       \/ TestSequence(p, position[p], "claim", "failed", "reload")
       \/ LoadPosition(p, "reload", Enqueue, "again")
       \/ Claim(p, Enqueue, "construct", "again")
       \/ Construct(p, "publish")
       \/ Publish(p, position[p] + 1, "notify")

(* One producer: m_EnqueuePos moves on before the cell is published.         *)
SPMCPush(p) ==
    /\ class[1] = "SPMC"
    /\ \/ StartPush(p, "slot")
       \/ TestSequence(p, position[p], "construct", "failed", "failed")
       \/ Construct(p, "raise")
       \/ Write(p, "raise", Enqueue, position[p] + 1, "publish")
       \/ Publish(p, position[p] + 1, "notify")

(* No sequence numbers: the positions alone say which cells are in use.      *)
SPSCPush(p) ==
    /\ class[1] = "SPSC"
    /\ \/ StartPush(p, "slot")
       \/ place[p] = "slot" /\ Only(p, IF position[p] - Load(p, Dequeue) >= Capacity THEN "failed" ELSE "construct")
       \/ Construct(p, "raise")
       \/ Write(p, "raise", Enqueue, position[p] + 1, "notify")

Push(p) ==
    /\ p \in team
    /\ MPMCPush(p) \/ MPSCPush(p) \/ SPMCPush(p) \/ SPSCPush(p) \/ SleepInPush(p) \/ Notify(p, "notEmpty")

-----------------------------------------------------------------------------
(* Pop(), once TryPop() has failed.  It returns false when the queue is      *)
(* closed and then found empty.  The test comes before the sleep, in the     *)
(* mutex, and after each try.                                                *)
SleepInPop(c) ==
    \/ place[c] = "failed" /\ closed /\ Only(c, "closed")
    \/ place[c] = "failed" /\ ~closed /\ Retry(c, "load")
    \/ LoadSize(c, "closed", "closedSize")
    \/ place[c] = "closedSize" /\ IsEmptyApprox(c) /\ Only(c, "ended")
    \/ place[c] = "closedSize" /\ ~IsEmptyApprox(c) /\ Retry(c, "load")
    \/ Lock(c, "lock", "notEmpty", "locked")
    \/ place[c] = "locked" /\ ~closed /\ Only(c, "count")
    \/ closed /\ LoadSize(c, "locked", "lockedSize")
    \/ place[c] = "lockedSize" /\ IsEmptyApprox(c) /\ Unlock(c, "notEmpty", "ended")
    \/ place[c] = "lockedSize" /\ ~IsEmptyApprox(c) /\ Only(c, "count")
    \/ Count(c, "notEmpty")
    \/ Wait(c, "notEmpty", ~IsEmptyApprox(c))
    \/ Uncount(c, "notEmpty", "load")

StartPop(c) ==
    \/ place[c] = "idle" /\ Only(c, "load")
    \/ LoadPosition(c, "load", Dequeue, "slot")

MPMCPop(c) ==
    /\ class[1] = "MPMC"
    /\ \/ StartPop(c)
       \/ TestSequence(c, position[c] + 1, "claim", "failed", "load")
       \/ Claim(c, Dequeue, "take", "slot")
       \/ Destroy(c, "publish")
       \/ Publish(c, position[c] + Capacity, "notify")

SPMCPop(c) ==
    /\ class[1] = "SPMC"
    /\ \/ StartPop(c)
       \/ TestSequence(c, position[c] + 1, "claim", "failed", "load")
       \/ Claim(c, Dequeue, "take", "slot")
       \/ Destroy(c, "publish")
       \/ Publish(c, position[c] + Capacity, "notify")

(* One consumer: m_DequeuePos moves on before the item is taken.             *)
MPSCPop(c) ==
    /\ class[1] = "MPSC"
    /\ \/ StartPop(c)
       \/ TestSequence(c, position[c] + 1, "raise", "failed", "failed")
       \/ Write(c, "raise", Dequeue, position[c] + 1, "take")
       \/ Destroy(c, "publish")
       \/ Publish(c, position[c] + Capacity, "notify")

(* Mutant: the position moves on before the item is taken.                   *)
SPSCPopEarly(c) ==
    /\ class[1] = "SPSC"
    /\ \/ StartPop(c)
       \/ place[c] = "slot" /\ Only(c, IF position[c] = Load(c, Enqueue) THEN "failed" ELSE "raise")
       \/ Write(c, "raise", Dequeue, position[c] + 1, "take")
       \/ Destroy(c, "notify")

SPSCPop(c) ==
    /\ class[1] = "SPSC"
    /\ \/ StartPop(c)
       \/ place[c] = "slot" /\ Only(c, IF position[c] = Load(c, Enqueue) THEN "failed" ELSE "take")
       \/ Destroy(c, "raise")
       \/ Write(c, "raise", Dequeue, position[c] + 1, "notify")

Pop(c) ==
    /\ c \in team
    /\ MPMCPop(c) \/ SPMCPop(c) \/ MPSCPop(c) \/ SPSCPop(c) \/ SleepInPop(c) \/ Notify(c, "notFull")

-----------------------------------------------------------------------------
(* Close(), called by a thread that does nothing else; later calls return.   *)
Close ==
    /\ ~closed
    /\ closed' = TRUE
    /\ enqueuedAtClose' = memory[Enqueue]
    /\ closing' = <<"notEmpty", "notFull">>
    /\ UNCHANGED <<class, team, memory, storeBuffer, waiting, mutex, place, position, seenEnqueue, patient, pushes>>

NotifyAll ==
    /\ closing # <<>>
    /\ mutex[Head(closing)] = Nobody
    /\ closing' = Tail(closing)
    /\ place' = [t \in QueueThreads |-> IF t \in Sleepers(Head(closing)) THEN "woken" ELSE place[t]]
    /\ UNCHANGED <<class, team, memory, storeBuffer, closed, enqueuedAtClose, waiting, mutex, position,
                   seenEnqueue, patient, pushes>>

QueueNext ==
    \/ \E p \in Producers : Push(p)
    \/ \E c \in Consumers : Pop(c)
    \/ \E t \in QueueThreads : Flush(t)
    \/ Close
    \/ NotifyAll

QueueSpec == QueueInit /\ [][QueueNext]_queueVars

-----------------------------------------------------------------------------
(* Properties.                                                               *)

(* Threads between the claim of a cell and the store that hands it over.     *)
InCell == {t \in QueueThreads : place[t] \in {"construct", "take", "raise", "publish"}}

(* A cell has one thread at a time; a producer finds it empty, and the       *)
(* consumer of a position finds the item that was pushed at it.  So every    *)
(* item is taken once, in the order of the positions.  A Pop() that returned *)
(* false left nothing in the queue that was pushed before Close().           *)
CellHandedOver ==
    /\ \A t, u \in InCell : t # u => position[t] % Capacity # position[u] % Capacity
    /\ \A p \in Producers : place[p] = "construct" => Load(p, Data(position[p])) = NoItem
    /\ \A c \in Consumers : place[c] = "take" => Load(c, Data(position[c])) = position[c]
    /\ \A c \in Consumers : place[c] = "ended" => Load(c, Dequeue) >= enqueuedAtClose

(* When every thread is asleep or out of the queue, a sleeping consumer has  *)
(* nothing to take, a sleeping producer has no room, and nobody sleeps in a  *)
(* closed queue: the test of the waiting counter outside the mutex loses no  *)
(* wake-up.                                                                  *)
AtRest ==
    /\ closing = <<>>
    /\ \A t \in QueueThreads : place[t] \in {"idle", "asleep", "ended"} /\ storeBuffer[t] = <<>>

NobodySleepsForGood ==
    AtRest =>
        /\ closed => \A t \in QueueThreads : place[t] # "asleep"
        /\ Sleepers("notEmpty") # {} => memory[Enqueue] = memory[Dequeue]
        /\ Sleepers("notFull") # {} => memory[Enqueue] - memory[Dequeue] = Capacity

=============================================================================
