------------------------------ MODULE RioCore ------------------------------
(* CRioCore (UtilCore/Network/RIO): workers that drain two completion queues *)
(* and sleep on one IOCP, submissions from any thread, and a shutdown that   *)
(* closes the door, wakes and joins the workers, drains what is outstanding  *)
(* and destroys the queues.                                                  *)
(*                                                                           *)
(* Regions under a completion queue's mutex, the lifecycle lock or the       *)
(* exclusive submission lock are steps; SubmitIo() holds the submission lock *)
(* shared between its test and its return.                                   *)
EXTENDS Integers, FiniteSets, FiniteSetsExt

CONSTANTS
    CoreWorkers,   \* worker threads
    Submitters,    \* other threads that submit I/O
    Closers,       \* threads that call RequestStop() and Shutdown()
    MaxIo,         \* bound: I/O requests in a run
    Batch,         \* kBatchSize
    Corruptible    \* whether a completion queue may be found corrupt

ASSUME RioCoreConstants == MaxIo \in Nat /\ Batch \in Nat \ {0} /\ Corruptible \in BOOLEAN

(* StartWorkers() makes at least one worker, whatever it is asked for.       *)
ASSUME RioCoreThreads ==
    /\ IsFiniteSet(CoreWorkers) /\ CoreWorkers # {} /\ IsFiniteSet(Submitters)
    /\ CoreWorkers \intersect Submitters = {}
    /\ (CoreWorkers \union Submitters) \intersect Closers = {}
    /\ "starter" \notin CoreWorkers \union Submitters \union Closers

Queues == {"recv", "send"}

VARIABLES
    coreState,        \* _state
    corrupt,          \* _receiveCqCorrupted / _sendCqCorrupted
    workerRunning,    \* _workerRunning
    shutdownRuns,     \* _shutdownInProgress
    shutdownDone,     \* _shutdownDone
    destroyed,        \* the queues and the IOCP handle are closed
    outstanding,      \* _outstandingIo
    submitting,       \* threads inside SubmitIo(), holding _submissionMutex shared
    counted,          \* those of them that have raised the count
    issued,           \* history: requests handed to the kernel
    kernel,           \* of each queue: requests the kernel has not completed
    done,             \* of each queue: completions in it
    armed,            \* of each queue: RIONotify() is registered
    packets,          \* packets in the IOCP: "stop", "recv", "send"
    pc,               \* of each thread: where it is
    batch             \* of each worker: results it has still to dispatch

flagVars == <<coreState, corrupt, workerRunning>>
lifeVars == <<shutdownRuns, shutdownDone, destroyed>>
ioVarsOfCore == <<outstanding, submitting, counted, issued, kernel>>
queueVars == <<done, armed>>
coreVars == <<flagVars, lifeVars, ioVarsOfCore, queueVars, packets, pc, batch>>

CoreThreads == CoreWorkers \union Submitters \union Closers \union {"starter"}
Total(f) == f["recv"] + f["send"]

CoreInit ==
    /\ coreState = "Running" /\ corrupt = FALSE
    /\ workerRunning = TRUE
    /\ shutdownRuns = FALSE /\ shutdownDone = FALSE /\ destroyed = FALSE
    /\ outstanding = 0 /\ submitting = {} /\ counted = {} /\ issued = 0
    /\ kernel = [q \in Queues |-> 0]
    /\ done = [q \in Queues |-> 0]
    /\ armed = [q \in Queues |-> FALSE]
    /\ packets = [p \in {"stop", "recv", "send"} |-> 0]
    /\ pc = [t \in CoreThreads |-> IF t \in CoreWorkers THEN "none"
                                   ELSE IF t = "starter" THEN "start" ELSE "idle"]
    /\ batch = [w \in CoreWorkers |-> 0]

Move(t, place) == pc' = [pc EXCEPT ![t] = place]
Created == {w \in CoreWorkers : pc[w] # "none"}
Joined  == \A w \in CoreWorkers : pc[w] \in {"none", "gone"}

(* WakeWorkers(): one stop packet per worker, behind the packets queued.     *)
WakeWorkers(queued, n) == packets' = [queued EXCEPT !["stop"] = @ + n]

(* MarkFaulted(true, ..) after a corrupt queue.                              *)
MarkFaulted(queued) ==
    /\ corrupt' = TRUE
    /\ coreState' = IF coreState \in {"Running", "Stopping"} THEN "Faulted" ELSE coreState
    /\ WakeWorkers(queued, Cardinality(CoreWorkers))

-----------------------------------------------------------------------------
(* StartWorkers(); the service submits and stops only when it has returned.  *)

StartWorker(w) ==
    /\ pc["starter"] = "start" /\ pc[w] = "none"
    /\ Move(w, "loop")
    /\ UNCHANGED <<flagVars, lifeVars, ioVarsOfCore, queueVars, packets, batch>>

Started ==
    /\ pc["starter"] = "start" /\ Created = CoreWorkers
    /\ Move("starter", "idle")
    /\ UNCHANGED <<flagVars, lifeVars, ioVarsOfCore, queueVars, packets, batch>>

(* A thread cannot be created: those that were are woken ...                 *)
StartFails ==
    /\ pc["starter"] = "start" /\ Created # CoreWorkers
    /\ coreState' = "Stopping"
    /\ WakeWorkers(packets, Cardinality(Created))
    /\ Move("starter", "joinStarted")
    /\ UNCHANGED <<corrupt, workerRunning, lifeVars, ioVarsOfCore, queueVars, batch>>

(* ... and joined.                                                           *)
StartFailed ==
    /\ pc["starter"] = "joinStarted" /\ Joined
    /\ coreState' = "Initialized"
    /\ workerRunning' = FALSE
    /\ Move("starter", "idle")
    /\ UNCHANGED <<corrupt, lifeVars, ioVarsOfCore, queueVars, packets, batch>>

-----------------------------------------------------------------------------
(* SubmitIo(): the test, the count, the request.                             *)
SubmitTest(t) ==
    /\ t \notin submitting
    /\ pc["starter"] = "idle"
    /\ coreState = "Running"
    /\ issued < MaxIo
    /\ submitting' = submitting \union {t}
    /\ UNCHANGED <<flagVars, lifeVars, outstanding, counted, issued, kernel, queueVars, packets, pc, batch>>

SubmitCount(t) ==
    /\ t \in submitting \ counted
    /\ counted' = counted \union {t}
    /\ outstanding' = outstanding + 1
    /\ UNCHANGED <<flagVars, lifeVars, submitting, issued, kernel, queueVars, packets, pc, batch>>

SubmitEnd(t, q) ==
    /\ t \in counted
    /\ submitting' = submitting \ {t} /\ counted' = counted \ {t}
    /\ issued' = issued + 1
    /\ kernel' = [kernel EXCEPT ![q] = @ + 1]
    /\ UNCHANGED <<flagVars, lifeVars, outstanding, queueVars, packets, pc, batch>>

SubmitFails(t) ==
    /\ t \in counted
    /\ submitting' = submitting \ {t} /\ counted' = counted \ {t}
    /\ outstanding' = outstanding - 1
    /\ issued' = issued + 1
    /\ UNCHANGED <<flagVars, lifeVars, kernel, queueVars, packets, pc, batch>>

(* The kernel completes a request, and fires the notification if registered. *)
Complete(q) ==
    /\ kernel[q] > 0
    /\ kernel' = [kernel EXCEPT ![q] = @ - 1]
    /\ done' = [done EXCEPT ![q] = @ + 1]
    /\ armed' = [armed EXCEPT ![q] = FALSE]
    /\ packets' = IF armed[q] THEN [packets EXCEPT ![q] = @ + 1] ELSE packets
    /\ UNCHANGED <<flagVars, lifeVars, outstanding, submitting, counted, issued, pc, batch>>

-----------------------------------------------------------------------------
(* A worker: while( Running ) DispatchBatch(Wait).  The last one to leave    *)
(* says so.                                                                  *)

WorkerLoop(w) ==
    /\ pc[w] = "loop"
    /\ Move(w, IF coreState = "Running" THEN "drainRecv" ELSE "gone")
    /\ workerRunning' = (workerRunning /\ \E v \in CoreWorkers : pc'[v] \notin {"none", "gone"})
    /\ UNCHANGED <<coreState, corrupt, lifeVars, ioVarsOfCore, queueVars, packets, batch>>

(* DrainCompletionQueue(): what is there, at most a batch of it, and on to   *)
(* DispatchResults(); or on to "next" if there is nothing.                   *)
DrainOr(w, q, next) ==
    LET n == Min({done[q], Batch}) IN
    /\ done' = [done EXCEPT ![q] = @ - n]
    /\ batch' = [batch EXCEPT ![w] = n]
    /\ Move(w, IF n > 0 THEN "dispatch" ELSE next)

(* The two early drains.                                                     *)
DrainFirst(w) ==
    /\ \/ pc[w] = "drainRecv" /\ DrainOr(w, "recv", "drainSend")
       \/ pc[w] = "drainSend" /\ DrainOr(w, "send", "test")
    /\ UNCHANGED <<flagVars, lifeVars, ioVarsOfCore, armed, packets>>

(* Mutant: the queue is not drained again once the notification is asked for.*)
NotifyOnly(w) ==
    \E q \in Queues :
      /\ pc[w] = IF q = "recv" THEN "notifyRecv" ELSE "notifySend"
      /\ armed' = [armed EXCEPT ![q] = done[q] = 0]
      /\ Move(w, IF q = "recv" THEN "notifySend" ELSE "testAgain")
      /\ UNCHANGED <<flagVars, lifeVars, ioVarsOfCore, done, packets, batch>>

(* RIONotify() registers one notification; with completions in the queue it  *)
(* may fire at once.  The queue is drained again under the same lock.        *)
NotifyAndDrain(w) ==
    \E q \in Queues :
      /\ pc[w] = IF q = "recv" THEN "notifyRecv" ELSE "notifySend"
      /\ \/ armed' = [armed EXCEPT ![q] = TRUE] /\ UNCHANGED packets
         \/ done[q] > 0 /\ ~armed[q] /\ packets' = [packets EXCEPT ![q] = @ + 1] /\ UNCHANGED armed
      /\ DrainOr(w, q, IF q = "recv" THEN "notifySend" ELSE "testAgain")
      /\ UNCHANGED <<flagVars, lifeVars, ioVarsOfCore>>

(* Any of them, or the one after the sleep, may find the queue corrupt, and  *)
(* the worker ends its turn.                                                 *)
DrainFails(w) ==
    /\ Corruptible
    /\ \/ pc[w] \in {"drainRecv", "drainSend", "notifyRecv", "notifySend"} /\ MarkFaulted(packets)
       \/ \E q \in Queues :
            pc[w] = "wait" /\ packets[q] > 0 /\ MarkFaulted([packets EXCEPT ![q] = @ - 1])
    /\ Move(w, "loop")
    /\ UNCHANGED <<workerRunning, lifeVars, ioVarsOfCore, queueVars, batch>>

(* The two tests for the end, before notifying and before sleeping.          *)
TestStopped(w) ==
    /\ pc[w] \in {"test", "testAgain"}
    /\ IF coreState \in {"Stopping", "Faulted"} /\ outstanding = 0
         THEN /\ Move(w, "loop")
              /\ coreState' = IF coreState = "Stopping" THEN "Stopped" ELSE coreState
         ELSE Move(w, IF pc[w] = "test" THEN "notifyRecv" ELSE "wait") /\ UNCHANGED coreState
    /\ UNCHANGED <<corrupt, workerRunning, lifeVars, ioVarsOfCore, queueVars, packets, batch>>

(* GetQueuedCompletionStatus(INFINITE).                                      *)
TakeStopPacket(w) ==
    /\ pc[w] = "wait" /\ packets["stop"] > 0
    /\ packets' = [packets EXCEPT !["stop"] = @ - 1]
    /\ coreState' = IF coreState = "Stopping" /\ outstanding = 0 THEN "Stopped" ELSE coreState
    /\ Move(w, "loop")
    /\ UNCHANGED <<corrupt, workerRunning, lifeVars, ioVarsOfCore, queueVars, batch>>

TakeQueuePacket(w) ==
    \E q \in Queues :
      /\ pc[w] = "wait" /\ packets[q] > 0
      /\ packets' = [packets EXCEPT ![q] = @ - 1]
      /\ DrainOr(w, q, "loop")
      /\ UNCHANGED <<flagVars, lifeVars, ioVarsOfCore, armed>>

(* ProcessRioResult(): the callback, which may submit, and the count last.   *)
DispatchSubmits(w) ==
    /\ pc[w] = "dispatch"
    /\ SubmitTest(w)

ResultDispatched(w) ==
    /\ pc[w] = "dispatch" /\ w \notin submitting
    /\ outstanding' = outstanding - 1
    /\ IF corrupt \/ batch[w] = 1
         THEN Move(w, "loop") /\ batch' = [batch EXCEPT ![w] = 0]
         ELSE UNCHANGED pc /\ batch' = [batch EXCEPT ![w] = @ - 1]
    /\ UNCHANGED <<flagVars, lifeVars, submitting, counted, issued, kernel, queueVars, packets>>

Work(w) ==
    \/ WorkerLoop(w) \/ DrainFirst(w) \/ NotifyAndDrain(w) \/ TestStopped(w)
    \/ TakeStopPacket(w) \/ TakeQueuePacket(w) \/ ResultDispatched(w)

(* Mutant: the submissions under way are not waited for.                     *)
StopAtOnce ==
    /\ coreState' = IF coreState \in {"Running", "Initialized"} THEN "Stopping" ELSE coreState
    /\ IF coreState' \in {"Stopping", "Faulted"} /\ workerRunning
         THEN WakeWorkers(packets, Cardinality(CoreWorkers))
         ELSE UNCHANGED packets

-----------------------------------------------------------------------------
(* StopInternal(), under the lifecycle lock and the exclusive submission     *)
(* lock: no SubmitIo() is under way.                                         *)
StopInternal ==
    /\ submitting = {}
    /\ coreState' = IF coreState \in {"Running", "Initialized"} THEN "Stopping" ELSE coreState
    /\ IF coreState' \in {"Stopping", "Faulted"} /\ workerRunning
         THEN WakeWorkers(packets, Cardinality(CoreWorkers))
         ELSE UNCHANGED packets

RequestStop(k) ==
    /\ pc[k] = "idle" /\ pc["starter"] = "idle"
    /\ coreState \in {"Running", "Initialized"}
    /\ StopInternal
    /\ UNCHANGED <<corrupt, workerRunning, lifeVars, ioVarsOfCore, queueVars, pc, batch>>

(* Shutdown(): the first caller does it, the others wait for it.             *)
Shutdown(k) ==
    /\ pc[k] = "idle" /\ pc["starter"] = "idle"
    /\ ~shutdownDone
    /\ IF shutdownRuns
         THEN Move(k, "awaitOther") /\ UNCHANGED <<coreState, packets, shutdownRuns>>
         ELSE Move(k, "join") /\ shutdownRuns' = TRUE /\ StopInternal
    /\ UNCHANGED <<corrupt, workerRunning, shutdownDone, destroyed, ioVarsOfCore, queueVars, batch>>

AwaitOther(k) ==
    /\ pc[k] = "awaitOther"
    /\ shutdownDone \/ ~shutdownRuns
    /\ Move(k, "idle")
    /\ UNCHANGED <<flagVars, lifeVars, ioVarsOfCore, queueVars, packets, batch>>

JoinWorkers(k) ==
    /\ pc[k] = "join" /\ Joined
    /\ workerRunning' = FALSE
    /\ Move(k, "drain")
    /\ UNCHANGED <<coreState, corrupt, lifeVars, ioVarsOfCore, queueVars, packets, batch>>

(* One turn of the drain loop dispatches in this thread; submissions from    *)
(* the callbacks are refused.                                                *)
DrainOnce(k) ==
    /\ pc[k] = "drain" /\ outstanding > 0 /\ ~corrupt
    /\ \E q \in Queues :
         LET n == Min({done[q], Batch}) IN
         /\ n > 0
         /\ done' = [done EXCEPT ![q] = @ - n]
         /\ outstanding' = outstanding - n
    /\ UNCHANGED <<flagVars, lifeVars, submitting, counted, issued, kernel, armed, packets,
                   pc, batch>>

(* Nothing is outstanding, a queue is corrupt, or the timeout has passed.    *)
DrainEnds(k) ==
    /\ pc[k] = "drain"
    /\ Move(k, "destroy")
    /\ UNCHANGED <<flagVars, lifeVars, ioVarsOfCore, queueVars, packets, batch>>

DestroyResources(k) ==
    /\ pc[k] = "destroy"
    /\ destroyed' = (outstanding = 0)
    /\ Move(k, "finish")
    /\ UNCHANGED <<flagVars, shutdownRuns, shutdownDone, ioVarsOfCore, queueVars, packets, batch>>

FinishShutdown(k) ==
    /\ pc[k] = "finish"
    /\ coreState' = IF destroyed THEN "Closed" ELSE IF corrupt THEN "Faulted" ELSE "Stopping"
    /\ shutdownDone' = destroyed
    /\ shutdownRuns' = FALSE
    /\ Move(k, "idle")
    /\ UNCHANGED <<corrupt, workerRunning, destroyed, ioVarsOfCore, queueVars, packets, batch>>

ShutdownStep(k) ==
    AwaitOther(k) \/ JoinWorkers(k) \/ DrainOnce(k) \/ DrainEnds(k) \/ DestroyResources(k) \/ FinishShutdown(k)

-----------------------------------------------------------------------------
SubmitStep(t) == SubmitCount(t) \/ SubmitFails(t) \/ \E q \in Queues : SubmitEnd(t, q)
StartStep == (\E w \in CoreWorkers : StartWorker(w)) \/ Started \/ StartFails \/ StartFailed

CoreNext ==
    \/ StartStep
    \/ \E s \in Submitters : SubmitTest(s)
    \/ \E t \in Submitters \union CoreWorkers : SubmitStep(t)
    \/ \E q \in Queues : Complete(q)
    \/ \E w \in CoreWorkers : Work(w) \/ DrainFails(w) \/ DispatchSubmits(w)
    \/ \E k \in Closers : RequestStop(k) \/ Shutdown(k) \/ ShutdownStep(k)

CoreSpec == CoreInit /\ [][CoreNext]_coreVars

-----------------------------------------------------------------------------
(* The results that workers have taken and not dispatched.                   *)
InBatches == Cardinality({p \in CoreWorkers \X (1..Batch) : p[2] <= batch[p[1]]})

(* The count is exact: a request is counted from before it is submitted      *)
(* until its completion has been dispatched, wherever it is in between; a    *)
(* batch that a corrupt queue cut short is lost for the count.               *)
OutstandingCounted ==
    ~corrupt => outstanding = Cardinality(counted) + Total(kernel) + Total(done) + InBatches

(* The queues are destroyed when no request is with the kernel, nobody is in *)
(* SubmitIo(), and no worker is left to drain or to dispatch; afterwards no  *)
(* request is submitted.  The count that decides this is exact throughout.   *)
DestroyedAfterLastUse ==
    /\ OutstandingCounted
    /\ destroyed => submitting = {} /\ Total(kernel) = 0 /\ Total(done) = 0 /\ Joined

(* No completion is left in a queue while all workers of a running core are  *)
(* asleep: the notification a worker registered before it slept, of whatever *)
(* queue, has put a packet into the IOCP that wakes one of them.  And the    *)
(* threads a Shutdown() waits for all come to an end: every worker that is   *)
(* not on its way out has a stop packet of its own to wake up by, whoever    *)
(* else stopped, failed or took packets before.                              *)
WorkersWoken ==
    /\ coreState = "Running" /\ (\A w \in CoreWorkers : pc[w] = "wait") /\ Total(done) > 0
         => \E q \in Queues : done[q] > 0 /\ packets[q] > 0
    /\ shutdownRuns =>
         Cardinality({w \in CoreWorkers : pc[w] \notin {"none", "loop", "gone"}}) <= packets["stop"]

=============================================================================
