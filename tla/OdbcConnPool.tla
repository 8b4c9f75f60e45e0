---------------------------- MODULE OdbcConnPool ----------------------------
(* COdbcConnPool (UtilCore/DB): slots that each hold a connection, lent by   *)
(* reference count, and replaced when broken by background threads: a health *)
(* check finds the broken slots, workers reconnect them, and a delayed queue *)
(* brings failed attempts back.  The MySQL and ADO pools have this design.   *)
(*                                                                           *)
(* A step is the code between two accesses to an atomic; a region under a    *)
(* mutex or slot lock is one step, and so is the notify_one after it.  Times *)
(* are left out: a delay, a scan interval or a wait may end at any moment.   *)
EXTENDS Integers, Sequences, FiniteSets, SequencesExt

CONSTANTS
    PoolSize,      \* _nMaxPoolSize
    Borrowers,     \* threads that borrow a connection with an OdbcConnGuard
    Namers,        \* threads that ask for a slot by name, with GetOdbcConn(nType)
    Workers,       \* threads of _reconnectWorkerMgr
    MaxConns,      \* bound: connections ever opened
    Rearms         \* values of rearms, see there: {FALSE} is the code as it is

ASSUME SizeAssumption == PoolSize \in Nat \ {0} /\ MaxConns \in Nat /\ MaxConns >= PoolSize
ASSUME ThreadsAssumption ==
    /\ (Borrowers \union Namers) \intersect Workers = {}
    /\ {"health", "delayed"} \intersect (Borrowers \union Namers \union Workers) = {}
ASSUME ClientsFinite == IsFiniteSet(Borrowers \union Namers)
ASSUME RearmsAssumption == Rearms \subseteq BOOLEAN

Slots == 1 .. PoolSize
Conns == 1 .. MaxConns
NoConn == 0
NoSlot == 0
Clients == Borrowers \union Namers
Background == {"health", "delayed"} \union Workers
Threads == Clients \union Background
Managers == {"health", "delayed", "workers"}
ManagerOf(t) == IF t \in Workers THEN "workers" ELSE t

VARIABLES
    conn,           \* _pOdbcConns
    ref,            \* _pRefCount
    reconnecting,   \* _pReconnecting
    failing,        \* _pRetryFailCount > 0
    inFree,         \* _pInFreeSlotQueue
    freeQueue,      \* _freeSlotQueue
    pending,        \* _reconnectPendingSlots
    delayed,        \* how many tasks of the slot _delayedTaskQueue holds
    quarantine,     \* _quarantineQueue, as <<connection, slot>>
    status,         \* the connection objects; "forced": deleted though in use
    phase,          \* where the owner is: Init(), use, destructor
    shuttingDown,   \* CThreadManager::_bShuttingDown of each manager
    delayedStopped, \* CDelayedTaskQueue::_stopped
    rearms,         \* a stopped manager and delayed queue can start again
    pc, slot, ptr,  \* of each thread: place, slot index, connection read
    made,           \* pNewConn of a worker
    ok,             \* bStillConnected of a client
    timedOut        \* history: slots for which a wait of a worker timed out

slotVars == <<conn, ref, reconnecting, failing, inFree>>
queues == <<freeQueue, pending, delayed, quarantine>>
owner == <<phase, shuttingDown, delayedStopped, rearms>>
locals == <<slot, ptr, made, ok>>
vars == <<slotVars, queues, status, owner, pc, locals, timedOut>>

Init ==
    /\ conn = [s \in Slots |-> NoConn]
    /\ ref = [s \in Slots |-> 0]
    /\ reconnecting = [s \in Slots |-> FALSE]
    /\ failing = [s \in Slots |-> FALSE]
    /\ inFree = [s \in Slots |-> FALSE]
    /\ freeQueue = <<>>
    /\ pending = <<>>
    /\ delayed = [s \in Slots |-> 0]
    /\ quarantine = {}
    /\ status = [c \in Conns |-> "fresh"]
    /\ phase = "new"
    /\ shuttingDown = [m \in Managers |-> FALSE]
    /\ delayedStopped = FALSE
    /\ rearms \in Rearms
    /\ pc = [t \in Threads |-> IF t \in Clients THEN "idle" ELSE "off"]
    /\ slot = [t \in Threads |-> NoSlot]
    /\ ptr = [t \in Threads |-> NoConn]
    /\ made = [t \in Threads |-> NoConn]
    /\ ok = [t \in Threads |-> FALSE]
    /\ timedOut = {}

-----------------------------------------------------------------------------
Goto(t, label) == pc' = [pc EXCEPT ![t] = label]

(* The thread goes to label and its locals end there.                        *)
Leave(t, label) ==
    /\ Goto(t, label)
    /\ slot' = [slot EXCEPT ![t] = NoSlot]
    /\ ptr' = [ptr EXCEPT ![t] = NoConn]
    /\ made' = [made EXCEPT ![t] = NoConn]
    /\ ok' = [ok EXCEPT ![t] = FALSE]

(* The new connection object, if the bound allows another one.               *)
Fresh(c) == status[c] = "fresh" /\ \A d \in Conns : status[d] = "fresh" => c <= d

Connected(c) == c # NoConn /\ status[c] = "open"

(* What IsConnected() of the connection the thread has read may return: a    *)
(* deleted object returns anything.                                          *)
Sees(t) ==
    IF ptr[t] # NoConn /\ status[ptr[t]] \in {"deleted", "forced"} THEN BOOLEAN
    ELSE {Connected(ptr[t])}

(* The load of _pOdbcConns[nType].                                           *)
LoadConn(t, next) ==
    /\ ptr' = [ptr EXCEPT ![t] = conn[slot[t]]]
    /\ Goto(t, next)
    /\ UNCHANGED <<slotVars, queues, status, owner, slot, made, ok, timedOut>>

(* EnqueueReconnect(): the push, and notify_one, which wakes one of the      *)
(* workers asleep.  The mutex is taken by a worker between its test and wait.*)
MutexFree == \A w \in Workers : pc[w] # "Sleep"

EnqueueReconnect(t, label) ==
    LET asleep == {w \in Workers : pc[w] = "Asleep"}
    IN  /\ MutexFree
        /\ pending' = Append(pending, slot[t])
        /\ \/ asleep = {} /\ pc' = [pc EXCEPT ![t] = label]
           \/ \E w \in asleep : pc' = [pc EXCEPT ![t] = label, ![w] = "Wait"]
        /\ slot' = [slot EXCEPT ![t] = IF label = "DelayedWait" THEN NoSlot ELSE @]
        /\ ptr' = [ptr EXCEPT ![t] = NoConn]

-----------------------------------------------------------------------------
(* EnqueueFreeSlot(): the exchange of the flag, then the push.  A client     *)
(* returns afterwards; a worker goes on to OnReconnectSucceeded().           *)
Resume(t) ==
    IF t \in Clients THEN Leave(t, "idle")
    ELSE /\ Goto(t, "Succeed") /\ UNCHANGED locals

EnqueueFlag(t) ==
    /\ pc[t] = "EnqueueFlag"
    /\ IF inFree[slot[t]]
       THEN Resume(t) /\ UNCHANGED inFree
       ELSE /\ inFree' = [inFree EXCEPT ![slot[t]] = TRUE]
            /\ Goto(t, "EnqueuePush")
            /\ UNCHANGED locals
    /\ UNCHANGED <<conn, ref, reconnecting, failing, queues, status, owner, timedOut>>

EnqueuePush(t) ==
    /\ pc[t] = "EnqueuePush"
    /\ freeQueue' = Append(freeQueue, slot[t])
    /\ Resume(t)
    /\ UNCHANGED <<slotVars, pending, delayed, quarantine, status, owner, timedOut>>

-----------------------------------------------------------------------------
(* A client constructs an OdbcConnGuard: PopFreeSlotIndex() begins.          *)
Borrow(c) ==
    /\ c \in Borrowers
    /\ phase = "run"
    /\ pc[c] = "idle"
    /\ Goto(c, "PopFront")
    /\ UNCHANGED <<slotVars, queues, status, owner, locals, timedOut>>

PopFront(c) ==
    /\ pc[c] = "PopFront"
    /\ \/ /\ freeQueue = <<>>
          /\ Leave(c, "idle")
          /\ UNCHANGED freeQueue
       \/ /\ freeQueue # <<>>
          /\ slot' = [slot EXCEPT ![c] = Head(freeQueue)]
          /\ freeQueue' = Tail(freeQueue)
          /\ Goto(c, "PopUnflag")
          /\ UNCHANGED <<ptr, made, ok>>
    /\ UNCHANGED <<slotVars, pending, delayed, quarantine, status, owner, timedOut>>

PopUnflag(c) ==
    /\ pc[c] = "PopUnflag"
    /\ inFree' = [inFree EXCEPT ![slot[c]] = FALSE]
    /\ Goto(c, "PopCas")
    /\ UNCHANGED <<conn, ref, reconnecting, failing, queues, status, owner, locals, timedOut>>

PopCas(c) ==
    /\ pc[c] = "PopCas"
    /\ IF ref[slot[c]] = 0
       THEN /\ ref' = [ref EXCEPT ![slot[c]] = 1]
            /\ Goto(c, "PopLoad")
            /\ UNCHANGED locals
       ELSE Leave(c, "PopFront") /\ UNCHANGED ref
    /\ UNCHANGED <<conn, reconnecting, failing, inFree, queues, status, owner, timedOut>>

PopLoad(c) == pc[c] = "PopLoad" /\ LoadConn(c, "PopCheck")

PopCheck(c) ==
    /\ pc[c] = "PopCheck"
    /\ \E connected \in Sees(c) : Goto(c, IF connected THEN "GuardLoad" ELSE "PopUndo")
    /\ UNCHANGED <<slotVars, queues, status, owner, locals, timedOut>>

(* The reference is given back with a store of zero.                         *)
PopUndo(c) ==
    /\ pc[c] = "PopUndo"
    /\ ref' = [ref EXCEPT ![slot[c]] = 0]
    /\ Leave(c, "PopFront")
    /\ UNCHANGED <<conn, reconnecting, failing, inFree, queues, status, owner, timedOut>>

(* The guard reads the connection once more, and keeps it.                   *)
GuardLoad(c) == pc[c] = "GuardLoad" /\ LoadConn(c, "use")

-----------------------------------------------------------------------------
(* GetOdbcConn(nType).                                                       *)
GetOdbcConn(c, s) ==
    /\ c \in Namers
    /\ phase = "run"
    /\ pc[c] = "idle"
    /\ ref' = [ref EXCEPT ![s] = @ + 1]
    /\ slot' = [slot EXCEPT ![c] = s]
    /\ Goto(c, "GetLoad")
    /\ UNCHANGED <<conn, reconnecting, failing, inFree, queues, status, owner, ptr, made, ok,
                   timedOut>>

GetLoad(c) == pc[c] = "GetLoad" /\ LoadConn(c, "GetCheck")

GetCheck(c) ==
    /\ pc[c] = "GetCheck"
    /\ \E connected \in Sees(c) : Goto(c, IF connected THEN "use" ELSE "GetUndo")
    /\ UNCHANGED <<slotVars, queues, status, owner, locals, timedOut>>

GetUndo(c) ==
    /\ pc[c] = "GetUndo"
    /\ ref' = [ref EXCEPT ![slot[c]] = @ - 1]
    /\ Leave(c, "idle")
    /\ UNCHANGED <<conn, reconnecting, failing, inFree, queues, status, owner, timedOut>>

-----------------------------------------------------------------------------
(* ReleaseOdbcConn(nType): the current connection of the slot is looked at   *)
(* before the reference is given back.                                       *)
ReleaseLoad(c) == pc[c] = "use" /\ LoadConn(c, "ReleaseCheck")

ReleaseCheck(c) ==
    /\ pc[c] = "ReleaseCheck"
    /\ \E connected \in Sees(c) : ok' = [ok EXCEPT ![c] = connected]
    /\ Goto(c, "ReleaseSub")
    /\ UNCHANGED <<slotVars, queues, status, owner, slot, ptr, made, timedOut>>

ReleaseSub(c) ==
    /\ pc[c] = "ReleaseSub"
    /\ ref' = [ref EXCEPT ![slot[c]] = @ - 1]
    /\ IF ref[slot[c]] = 1 /\ ok[c]
       THEN Goto(c, "EnqueueFlag") /\ UNCHANGED locals
       ELSE Leave(c, "idle")
    /\ UNCHANGED <<conn, reconnecting, failing, inFree, queues, status, owner, timedOut>>

-----------------------------------------------------------------------------
(* ReconnectWorkerLoop(): the condition variable.  The predicate is tested   *)
(* under the mutex, which is given up when the worker is asleep.             *)
Stopping == phase \in {"stopWorkers", "closed"}

WorkerWait(w) ==
    /\ pc[w] = "Wait"
    /\ MutexFree
    /\ \/ /\ pending = <<>> /\ ~Stopping
          /\ Goto(w, "Sleep")
          /\ UNCHANGED <<pending, slot>>
       \/ /\ pending = <<>> /\ Stopping
          /\ Goto(w, "ended")
          /\ UNCHANGED <<pending, slot>>
       \/ /\ pending # <<>>
          /\ slot' = [slot EXCEPT ![w] = Head(pending)]
          /\ pending' = Tail(pending)
          /\ Goto(w, "CheckRef")
    /\ UNCHANGED <<slotVars, freeQueue, delayed, quarantine, status, owner, ptr, made, ok,
                   timedOut>>

WorkerSleep(w) ==
    /\ pc[w] = "Sleep"
    /\ Goto(w, "Asleep")
    /\ UNCHANGED <<slotVars, queues, status, owner, locals, timedOut>>

CheckRef(w) ==
    /\ pc[w] = "CheckRef"
    /\ Goto(w, IF ref[slot[w]] > 0 THEN "Unmark" ELSE "Reconnect")
    /\ UNCHANGED <<slotVars, queues, status, owner, locals, timedOut>>

(* TryReconnect(): a new connection, or none.                                *)
Reconnect(w) ==
    /\ pc[w] = "Reconnect"
    /\ \/ /\ Goto(w, "Retry")
          /\ UNCHANGED <<status, made>>
       \/ \E c \in Conns :
            /\ Fresh(c)
            /\ status' = [status EXCEPT ![c] = "open"]
            /\ made' = [made EXCEPT ![w] = c]
            /\ Goto(w, "ApplyCheck")
    /\ UNCHANGED <<slotVars, queues, owner, slot, ptr, ok, timedOut>>

(* OnReconnectFailed(): the failure is counted and a retry is reserved,      *)
(* which a stopped delayed queue refuses.                                    *)
Retry(w) ==
    /\ pc[w] = "Retry"
    /\ failing' = [failing EXCEPT ![slot[w]] = TRUE]
    /\ delayed' = [delayed EXCEPT ![slot[w]] = IF delayedStopped THEN @ ELSE @ + 1]
    /\ Goto(w, "Unmark")
    /\ UNCHANGED <<conn, ref, reconnecting, inFree, freeQueue, pending, quarantine, status,
                   owner, locals, timedOut>>

Unmark(w) ==
    /\ pc[w] = "Unmark"
    /\ reconnecting' = [reconnecting EXCEPT ![slot[w]] = FALSE]
    /\ Leave(w, "Wait")
    /\ UNCHANGED <<conn, ref, failing, inFree, queues, status, owner, timedOut>>

(* ApplyReconnectedConn().                                                   *)
ApplyCheck(w) ==
    /\ pc[w] = "ApplyCheck"
    /\ IF ref[slot[w]] > 0
       THEN /\ status' = [status EXCEPT ![made[w]] = "deleted"]
            /\ made' = [made EXCEPT ![w] = NoConn]
            /\ Goto(w, "Succeed")
       ELSE Goto(w, "Swap") /\ UNCHANGED <<status, made>>
    /\ UNCHANGED <<slotVars, queues, owner, slot, ptr, ok, timedOut>>

Swap(w) ==
    /\ pc[w] = "Swap"
    /\ ptr' = [ptr EXCEPT ![w] = conn[slot[w]]]
    /\ conn' = [conn EXCEPT ![slot[w]] = made[w]]
    /\ made' = [made EXCEPT ![w] = NoConn]
    /\ Goto(w, IF conn[slot[w]] = NoConn THEN "EnqueueFlag" ELSE "AwaitUnused")
    /\ UNCHANGED <<ref, reconnecting, failing, inFree, queues, status, owner, slot, ok, timedOut>>

(* Mutant: the old connection is deleted without waiting for its borrower.   *)
AwaitNobody(w) ==
    /\ pc[w] = "AwaitUnused"
    /\ Goto(w, "DeleteOld")
    /\ UNCHANGED <<slotVars, queues, status, owner, locals, timedOut>>

AwaitUnused(w) ==
    /\ pc[w] = "AwaitUnused"
    /\ ref[slot[w]] <= 0
    /\ Goto(w, "DeleteOld")
    /\ UNCHANGED <<slotVars, queues, status, owner, locals, timedOut>>

(* The wait takes too long: the old connection goes to the quarantine.       *)
AwaitTimeout(w) ==
    /\ pc[w] = "AwaitUnused"
    /\ ref[slot[w]] > 0
    /\ quarantine' = quarantine \union {<<ptr[w], slot[w]>>}
    /\ ptr' = [ptr EXCEPT ![w] = NoConn]
    /\ timedOut' = timedOut \union {slot[w]}
    /\ Goto(w, "Succeed")
    /\ UNCHANGED <<slotVars, freeQueue, pending, delayed, status, owner, slot, made, ok>>

(* Mutant: the slot with the new connection is not put in the free queue.    *)
DeleteOldOnly(w) ==
    /\ pc[w] = "DeleteOld"
    /\ status' = [status EXCEPT ![ptr[w]] = "deleted"]
    /\ ptr' = [ptr EXCEPT ![w] = NoConn]
    /\ Goto(w, "Succeed")
    /\ UNCHANGED <<slotVars, queues, owner, slot, made, ok, timedOut>>

DeleteOld(w) ==
    /\ pc[w] = "DeleteOld"
    /\ status' = [status EXCEPT ![ptr[w]] = "deleted"]
    /\ ptr' = [ptr EXCEPT ![w] = NoConn]
    /\ Goto(w, "EnqueueFlag")
    /\ UNCHANGED <<slotVars, queues, owner, slot, made, ok, timedOut>>

(* OnReconnectSucceeded(), whatever ApplyReconnectedConn() has done.         *)
Succeed(w) ==
    /\ pc[w] = "Succeed"
    /\ failing' = [failing EXCEPT ![slot[w]] = FALSE]
    /\ Goto(w, "Unmark")
    /\ UNCHANGED <<conn, ref, reconnecting, inFree, queues, status, owner, locals, timedOut>>

-----------------------------------------------------------------------------
(* The task ScheduleRetry() reserved, run by ProcessExpiredTasks().          *)
Due(s) ==
    /\ pc["delayed"] = "DelayedWait"
    /\ ~delayedStopped
    /\ delayed[s] > 0
    /\ delayed' = [delayed EXCEPT ![s] = @ - 1]
    /\ slot' = [slot EXCEPT !["delayed"] = s]
    /\ Goto("delayed", "DueLoad")
    /\ UNCHANGED <<slotVars, freeQueue, pending, quarantine, status, owner, ptr, made, ok, timedOut>>

DueLoad == pc["delayed"] = "DueLoad" /\ LoadConn("delayed", "DueRef")

DueRef ==
    /\ pc["delayed"] = "DueRef"
    /\ Goto("delayed", IF ref[slot["delayed"]] = 0 THEN "DueCheck" ELSE "DueDrop")
    /\ UNCHANGED <<slotVars, queues, status, owner, locals, timedOut>>

DueCheck ==
    /\ pc["delayed"] = "DueCheck"
    /\ \E connected \in Sees("delayed") :
         Goto("delayed", IF connected THEN "DueDrop" ELSE "DueEnqueue")
    /\ UNCHANGED <<slotVars, queues, status, owner, locals, timedOut>>

DueEnqueue ==
    /\ pc["delayed"] = "DueEnqueue"
    /\ EnqueueReconnect("delayed", "DelayedWait")
    /\ UNCHANGED <<slotVars, freeQueue, delayed, quarantine, status, owner, made, ok, timedOut>>

DueDrop ==
    /\ pc["delayed"] = "DueDrop"
    /\ reconnecting' = [reconnecting EXCEPT ![slot["delayed"]] = FALSE]
    /\ Leave("delayed", "DelayedWait")
    /\ UNCHANGED <<conn, ref, failing, inFree, queues, status, owner, timedOut>>

DelayedEnd ==
    /\ pc["delayed"] = "DelayedWait"
    /\ delayedStopped
    /\ Goto("delayed", "ended")
    /\ UNCHANGED <<slotVars, queues, status, owner, locals, timedOut>>

-----------------------------------------------------------------------------
(* HealthCheckLoop(): the quarantine first, then each slot in turn.          *)
HealthStopped == phase \notin {"new", "run"}

(* A quarantined connection is deleted when its slot has no reference; those *)
(* that have stayed for FORCE_CLEANUP_TIMEOUT_MS (old) are deleted anyway.   *)
Unused == {q \in quarantine : ref[q[2]] = 0}

Purge ==
    /\ pc["health"] = "HealthWait"
    /\ \/ /\ HealthStopped
          /\ Goto("health", "ended")
          /\ UNCHANGED <<quarantine, status, slot>>
       \/ /\ ~HealthStopped
          /\ \E old \in SUBSET (quarantine \ Unused) :
               /\ quarantine' = quarantine \ (Unused \union old)
               /\ status' = [c \in Conns |->
                    IF \E q \in Unused : q[1] = c THEN "deleted"
                    ELSE IF \E q \in old : q[1] = c THEN "forced" ELSE status[c]]
          /\ slot' = [slot EXCEPT !["health"] = 1]
          /\ Goto("health", "ScanRef")
    /\ UNCHANGED <<slotVars, freeQueue, pending, delayed, owner, ptr, made, ok, timedOut>>

(* The loop goes on with the next slot, or sleeps before the next round.     *)
NextSlot ==
    IF slot["health"] < PoolSize
    THEN /\ slot' = [slot EXCEPT !["health"] = @ + 1]
         /\ ptr' = [ptr EXCEPT !["health"] = NoConn]
         /\ Goto("health", "ScanRef")
         /\ UNCHANGED <<made, ok>>
    ELSE Leave("health", "HealthWait")

ScanRef ==
    /\ pc["health"] = "ScanRef"
    /\ \/ /\ HealthStopped
          /\ Leave("health", "HealthWait")
       \/ /\ ~HealthStopped
          /\ ref[slot["health"]] > 0
          /\ NextSlot
       \/ /\ ~HealthStopped
          /\ ref[slot["health"]] <= 0
          /\ Goto("health", "ScanLoad")
          /\ UNCHANGED locals
    /\ UNCHANGED <<slotVars, queues, status, owner, timedOut>>

ScanLoad == pc["health"] = "ScanLoad" /\ LoadConn("health", "ScanCheck")

ScanCheck ==
    /\ pc["health"] = "ScanCheck"
    /\ \E connected \in Sees("health") :
         IF connected THEN NextSlot ELSE Goto("health", "ScanMark") /\ UNCHANGED locals
    /\ UNCHANGED <<slotVars, queues, status, owner, timedOut>>

ScanMark ==
    /\ pc["health"] = "ScanMark"
    /\ IF reconnecting[slot["health"]]
       THEN NextSlot /\ UNCHANGED reconnecting
       ELSE /\ reconnecting' = [reconnecting EXCEPT ![slot["health"]] = TRUE]
            /\ Goto("health", "ScanFail")
            /\ UNCHANGED locals
    /\ UNCHANGED <<conn, ref, failing, inFree, queues, status, owner, timedOut>>

ScanFail ==
    /\ pc["health"] = "ScanFail"
    /\ Goto("health", IF failing[slot["health"]] THEN "ScanUnmark" ELSE "ScanEnqueue")
    /\ UNCHANGED <<slotVars, queues, status, owner, locals, timedOut>>

ScanEnqueue ==
    /\ pc["health"] = "ScanEnqueue"
    /\ EnqueueReconnect("health", "ScanNext")
    /\ UNCHANGED <<slotVars, freeQueue, delayed, quarantine, status, owner, made, ok, timedOut>>

ScanUnmark ==
    /\ pc["health"] = "ScanUnmark"
    /\ reconnecting' = [reconnecting EXCEPT ![slot["health"]] = FALSE]
    /\ NextSlot
    /\ UNCHANGED <<conn, ref, failing, inFree, queues, status, owner, timedOut>>

ScanNext ==
    /\ pc["health"] = "ScanNext"
    /\ NextSlot
    /\ UNCHANGED <<slotVars, queues, status, owner, timedOut>>

-----------------------------------------------------------------------------
(* CThreadManager: JoinThreads() raises the flag before it joins, and        *)
(* CreateThread() refuses while it is up.  Only a manager that rearms lowers *)
(* it again, with ResetShutdown(), which no pool calls.                      *)
JoinFlag(flags, m) == [flags EXCEPT ![m] = ~rearms]
CreateThread(flags, t) == ~flags[ManagerOf(t)]

FirstLabel(t) ==
    CASE t = "health" -> "HealthWait"
      [] t = "delayed" -> "DelayedWait"
      [] t \in Workers -> "Wait"

(* Init(), before anyone else knows the pool: the three groups of threads are*)
(* stopped, the slots are filled in order, and the threads are created.  When*)
(* a connection fails, Clear() undoes what is there.                         *)
InitPool ==
    /\ phase = "new"
    /\ LET flags == JoinFlag(JoinFlag(JoinFlag(shuttingDown, "health"), "delayed"), "workers")
       IN  /\ shuttingDown' = flags
           /\ delayedStopped' = ~rearms
           /\ \/ /\ phase' = "run"
                 /\ conn' = [s \in Slots |-> s]
                 /\ status' = [c \in Conns |-> IF c \in Slots THEN "open" ELSE "fresh"]
                 /\ inFree' = [s \in Slots |-> TRUE]
                 /\ freeQueue' = [s \in Slots |-> s]
                 /\ pc' = [t \in Threads |->
                             IF t \in Background /\ CreateThread(flags, t)
                             THEN FirstLabel(t) ELSE pc[t]]
              \/ /\ phase' = "closed"
                 /\ UNCHANGED <<conn, status, inFree, freeQueue, pc>>
    /\ UNCHANGED <<ref, reconnecting, failing, pending, delayed, quarantine, rearms, locals, timedOut>>

Ended(threads) == \A t \in threads : pc[t] \in {"off", "ended"}

(* The destructor, when no client is left: the health check, the delayed     *)
(* queue and the workers are told to stop and joined in turn, then Clear().  *)
StopHealth ==
    /\ phase = "run"
    /\ \A c \in Clients : pc[c] = "idle"
    /\ phase' = "stopHealth"
    /\ UNCHANGED <<slotVars, queues, status, shuttingDown, delayedStopped, rearms, pc, locals, timedOut>>

StopDelayed ==
    /\ phase = "stopHealth"
    /\ Ended({"health"})
    /\ phase' = "stopDelayed"
    /\ shuttingDown' = JoinFlag(shuttingDown, "health")
    /\ delayedStopped' = TRUE
    /\ UNCHANGED <<slotVars, queues, status, rearms, pc, locals, timedOut>>

(* The flag is stored without the mutex, then notify_all.                    *)
StopWorkers ==
    /\ phase = "stopDelayed"
    /\ Ended({"delayed"})
    /\ phase' = "stopWorkers"
    /\ shuttingDown' = JoinFlag(shuttingDown, "delayed")
    /\ pc' = [t \in Threads |-> IF pc[t] = "Asleep" THEN "Wait" ELSE pc[t]]
    /\ UNCHANGED <<slotVars, queues, status, delayedStopped, rearms, locals, timedOut>>

(* Clear() deletes what slots and quarantine hold, unless its count is not   *)
(* zero: a slot's is waited for, in vain when every client is gone, and the  *)
(* quarantine is where such a connection goes and is abandoned.              *)
Held(c) == c \in Range(conn) \/ \E q \in quarantine : q[1] = c
Leaked(c) ==
    \/ \E s \in Slots : conn[s] = c /\ ref[s] > 0
    \/ \E q \in quarantine : q[1] = c /\ ref[q[2]] # 0

Clear ==
    /\ phase = "stopWorkers"
    /\ Ended(Workers)
    /\ phase' = "closed"
    /\ shuttingDown' = JoinFlag(shuttingDown, "workers")
    /\ freeQueue' = <<>>
    /\ inFree' = [s \in Slots |-> FALSE]
    /\ status' = [c \in Conns |->
          IF Leaked(c) THEN "abandoned" ELSE IF Held(c) THEN "deleted" ELSE status[c]]
    /\ conn' = [s \in Slots |-> NoConn]
    /\ quarantine' = {}
    /\ UNCHANGED <<ref, reconnecting, failing, pending, delayed, delayedStopped, rearms, pc,
                   locals, timedOut>>

(* The network: a connection is lost.                                        *)
Break(c) ==
    /\ status[c] = "open"
    /\ status' = [status EXCEPT ![c] = "broken"]
    /\ UNCHANGED <<slotVars, queues, owner, pc, locals, timedOut>>

-----------------------------------------------------------------------------
Client(c) ==
    \/ PopFront(c) \/ PopUnflag(c) \/ PopCas(c) \/ PopLoad(c) \/ PopCheck(c) \/ PopUndo(c)
    \/ GuardLoad(c) \/ GetLoad(c) \/ GetCheck(c) \/ GetUndo(c)
    \/ ReleaseLoad(c) \/ ReleaseCheck(c) \/ ReleaseSub(c)

Worker(w) ==
    \/ WorkerWait(w) \/ WorkerSleep(w) \/ CheckRef(w) \/ Reconnect(w) \/ Retry(w) \/ Unmark(w)
    \/ ApplyCheck(w) \/ Swap(w) \/ AwaitUnused(w) \/ AwaitTimeout(w) \/ DeleteOld(w) \/ Succeed(w)

DelayedLoop ==
    (\E s \in Slots : Due(s)) \/ DueLoad \/ DueRef \/ DueCheck \/ DueEnqueue \/ DueDrop \/ DelayedEnd

HealthLoop ==
    \/ Purge \/ ScanRef \/ ScanLoad \/ ScanCheck \/ ScanMark \/ ScanFail
    \/ ScanEnqueue \/ ScanUnmark \/ ScanNext

Next ==
    \/ \E c \in Clients : Borrow(c) \/ Client(c) \/ \E s \in Slots : GetOdbcConn(c, s)
    \/ \E w \in Workers : Worker(w)
    \/ \E t \in Clients \union Workers : EnqueueFlag(t) \/ EnqueuePush(t)
    \/ DelayedLoop \/ HealthLoop
    \/ InitPool \/ StopHealth \/ StopDelayed \/ StopWorkers \/ Clear
    \/ \E c \in Conns : Break(c)

Spec == Init /\ [][Next]_vars

-----------------------------------------------------------------------------
ClientLabels ==
    {"idle", "PopFront", "PopUnflag", "PopCas", "PopLoad", "PopCheck", "PopUndo", "GuardLoad",
     "use", "GetLoad", "GetCheck", "GetUndo", "ReleaseCheck", "ReleaseSub", "EnqueueFlag",
     "EnqueuePush"}
WorkerLabels ==
    {"Wait", "Sleep", "Asleep", "CheckRef", "Reconnect", "Retry", "Unmark", "ApplyCheck", "Swap",
     "AwaitUnused", "DeleteOld", "EnqueueFlag", "EnqueuePush", "Succeed"}
LoopLabels ==
    {"DelayedWait", "DueLoad", "DueRef", "DueCheck", "DueEnqueue", "DueDrop", "HealthWait",
     "ScanRef", "ScanLoad", "ScanCheck", "ScanMark", "ScanFail", "ScanEnqueue", "ScanUnmark",
     "ScanNext"}

TypeOK ==
    /\ conn \in [Slots -> Conns \union {NoConn}]
    /\ ref \in [Slots -> Int]
    /\ reconnecting \in [Slots -> BOOLEAN]
    /\ failing \in [Slots -> BOOLEAN]
    /\ inFree \in [Slots -> BOOLEAN]
    /\ freeQueue \in Seq(Slots)
    /\ pending \in Seq(Slots)
    /\ delayed \in [Slots -> Nat]
    /\ quarantine \subseteq (Conns \X Slots)
    /\ status \in [Conns -> {"fresh", "open", "broken", "deleted", "forced", "abandoned"}]
    /\ phase \in {"new", "run", "stopHealth", "stopDelayed", "stopWorkers", "closed"}
    /\ shuttingDown \in [Managers -> BOOLEAN]
    /\ delayedStopped \in BOOLEAN
    /\ rearms \in BOOLEAN
    /\ pc \in [Threads -> ClientLabels \union WorkerLabels \union LoopLabels \union {"off", "ended"}]
    /\ slot \in [Threads -> Slots \union {NoSlot}]
    /\ ptr \in [Threads -> Conns \union {NoConn}]
    /\ made \in [Threads -> Conns \union {NoConn}]
    /\ ok \in [Threads -> BOOLEAN]
    /\ timedOut \subseteq Slots

(* The clients whose reference _pRefCount[s] counts.                         *)
Referrers(s) ==
    {c \in Clients :
        /\ slot[c] = s
        /\ pc[c] \in {"PopLoad", "PopCheck", "PopUndo", "GuardLoad", "use", "GetLoad", "GetCheck",
                      "GetUndo", "ReleaseCheck", "ReleaseSub"}}

(* The reference count of a slot is the number of clients that refer to it:  *)
(* none is lost when a pop, a release and an explicit request meet.          *)
RefCounted == \A s \in Slots : ref[s] = Cardinality(Referrers(s))

(* A pooled connection is lent to one borrower at a time, even while a       *)
(* worker puts its slot into the free queue again, the reference counts are  *)
(* exact, and no client touches a connection that a worker or the health     *)
(* check deleted, however the slot is swapped under it - with the exception  *)
(* of one the health check has deleted in use, because it stayed too long in *)
(* the quarantine (FORCE_CLEANUP_TIMEOUT_MS, ten minutes).                   *)
Holding(c) == pc[c] \in {"use", "ReleaseCheck", "ReleaseSub"}

LeasesHold ==
    /\ RefCounted
    /\ \A c, d \in Borrowers : c # d /\ Holding(c) /\ Holding(d) => slot[c] # slot[d]
    /\ \A c \in Clients :
         pc[c] \in {"PopCheck", "GetCheck", "use", "ReleaseCheck"}
         => status[ptr[c]] \in {"open", "broken", "forced"}

(* A slot has at most one place in the free queue, or a thread on its way to *)
(* putting it there, and the flag says so.                                   *)
FreeQueueUnique ==
    \A s \in Slots :
        Cardinality({i \in DOMAIN freeQueue : freeQueue[i] = s})
        + Cardinality({t \in Threads : slot[t] = s /\ pc[t] \in {"EnqueuePush", "PopUnflag"}})
          = IF inFree[s] THEN 1 ELSE 0

(* Every connection object has exactly one owner - a slot, the worker that   *)
(* made it, the worker that replaced it, or the quarantine - until it is     *)
(* deleted, or abandoned by Clear() because its count is not zero: before    *)
(* that none leaks, and none is deleted twice.                               *)
Owners(c) ==
    {<<"slot", s>> : s \in {x \in Slots : conn[x] = c}}
    \union {<<"made", w>> : w \in {x \in Workers : made[x] = c}}
    \union {<<"old", w>> : w \in {x \in Workers : ptr[x] = c}}
    \union {<<"quarantine", q>> : q \in {x \in quarantine : x[1] = c}}

OwnedOnce ==
    \A c \in Conns :
        /\ Cardinality(Owners(c)) = IF status[c] \in {"open", "broken"} THEN 1 ELSE 0
        /\ status[c] = "abandoned" => phase = "closed"

(* A connected slot that nobody refers to can be borrowed: it is in the free *)
(* queue or a thread is about to put it there or to take it - unless a worker*)
(* timed out on it.                                                          *)
NoLostSlot ==
    \A s \in Slots \ timedOut :
        phase = "run" /\ Connected(conn[s]) /\ ref[s] = 0
        => \/ s \in Range(freeQueue)
           \/ \E t \in Clients : slot[t] = s /\ pc[t] \in {"PopUnflag", "PopCas", "EnqueueFlag", "EnqueuePush"}
           \/ \E w \in Workers : slot[w] = s /\ pc[w] \in {"AwaitUnused", "DeleteOld", "EnqueueFlag", "EnqueuePush"}

(* Clear() finds every count at zero and abandons no connection.             *)
NoneAbandoned == \A c \in Conns : status[c] # "abandoned"

(* No slot and no connection is lost or kept twice, whatever order returns,  *)
(* replacements, time-outs and retries come in, and at the end all that is   *)
(* left is deleted.                                                          *)
NothingLost == FreeQueueUnique /\ OwnedOnce /\ NoLostSlot /\ NoneAbandoned

(* Documented of Init(): a pool in use has its health check, its delayed     *)
(* queue and its reconnect workers.                                          *)
BackgroundRuns ==
    phase = "run" => \A t \in Background : pc[t] # "off"
=============================================================================
