------------------------------ MODULE JobQueue ------------------------------
(* CJobQueue, CGlobalQueue and CJobTimer (UtilCore/Job): a set of threads    *)
(* that post jobs to job queues, run them, and pass the queues that still    *)
(* have work through the global queue.                                       *)
(*                                                                           *)
(* CSpinLockQueue makes its Push, TryPop and PopAll atomic, and _jobCount is *)
(* an atomic: the steps below are the code between two such accesses.        *)
(* A thread has at most one call of Push or ClearJobs in progress (opPc), and*)
(* that call may be nested in the job of an Execute() (execPc).              *)
EXTENDS Integers, Sequences, FiniteSets, SequencesExt

CONSTANTS
    Threads,   \* every thread posts, and every thread may serve the global queue
    Queues,    \* CJobQueue objects
    Jobs,      \* CJob objects; each of them is posted at most once
    NoQueue, NoJob

ASSUME ThreadsAssumption == IsFiniteSet(Threads)
ASSUME QueuesAssumption == NoQueue \notin Queues
ASSUME JobsAssumption == NoJob \notin Jobs

VARIABLES
    jobs,          \* _jobs: the queued jobs of each queue
    jobCount,      \* _jobCount
    owned,         \* the application still holds a reference to the queue
    global,        \* CGlobalQueue::_jobQueues
    timer,         \* CJobTimer::_items: <<queue, job>>, order of the ticks left out
    distributing,  \* CJobTimer::_distributing
    inDistribute,  \* the thread is past the exchange in Distribute()
    due,           \* the items Distribute() has popped and not yet handed over
    opPc,          \* where the thread is in Push() or ClearJobs()
    opQueue, opJob, opOnly,   \* the arguments of that call
    wasZero,       \* prevCount == 0
    owe,           \* jobs.size() in ClearJobs()
    execPc,        \* where the thread is in Execute()
    current,       \* LCurrentJobQueue
    batch,         \* the jobs vector of Execute(), from the one to run next
    taken,         \* jobCount in Execute(): the size that vector had
    fresh,         \* jobs that have not been created
    closing,       \* the application posts nothing any more
    finished,      \* history: jobs that have been executed
    cleared,       \* history: jobs that ClearJobs() discarded
    expired        \* history: jobs dropped by Distribute(), their queue was gone

jobVars == <<jobs, jobCount>>
timerVars == <<timer, distributing, inDistribute, due>>
opVars == <<opPc, opQueue, opJob, opOnly, wasZero, owe>>
execVars == <<execPc, current, batch, taken>>
history == <<finished, cleared, expired>>
vars == <<jobVars, owned, global, timerVars, opVars, execVars, fresh, closing, history>>

Init ==
    /\ jobs = [q \in Queues |-> <<>>]
    /\ jobCount = [q \in Queues |-> 0]
    /\ owned = [q \in Queues |-> TRUE]
    /\ global = <<>>
    /\ timer = {}
    /\ distributing = FALSE
    /\ inDistribute = [t \in Threads |-> FALSE]
    /\ due = [t \in Threads |-> <<>>]
    /\ opPc = [t \in Threads |-> "idle"]
    /\ opQueue = [t \in Threads |-> NoQueue]
    /\ opJob = [t \in Threads |-> NoJob]
    /\ opOnly = [t \in Threads |-> FALSE]
    /\ wasZero = [t \in Threads |-> FALSE]
    /\ owe = [t \in Threads |-> 0]
    /\ execPc = [t \in Threads |-> "idle"]
    /\ current = [t \in Threads |-> NoQueue]
    /\ batch = [t \in Threads |-> <<>>]
    /\ taken = [t \in Threads |-> 0]
    /\ fresh = Jobs
    /\ closing = FALSE
    /\ finished = {}
    /\ cleared = {}
    /\ expired = {}

-----------------------------------------------------------------------------
(* Some shared_ptr to the queue exists: weak_ptr::lock() succeeds.           *)
Alive(q) ==
    \/ owned[q]
    \/ q \in Range(global)
    \/ \E t \in Threads : current[t] = q \/ (opPc[t] # "idle" /\ opQueue[t] = q)

(* The thread runs application code: its own, or the body of a job.          *)
InUserCode(t) ==
    /\ opPc[t] = "idle"
    /\ ~inDistribute[t]
    /\ execPc[t] \in {"idle", "job"}

CanReach(t, q) == owned[q] \/ current[t] = q

(* The call returns: its arguments and locals are gone.                      *)
Return(t) ==
    /\ opPc' = [opPc EXCEPT ![t] = "idle"]
    /\ opQueue' = [opQueue EXCEPT ![t] = NoQueue]
    /\ opJob' = [opJob EXCEPT ![t] = NoJob]
    /\ opOnly' = [opOnly EXCEPT ![t] = FALSE]
    /\ wasZero' = [wasZero EXCEPT ![t] = FALSE]
    /\ owe' = [owe EXCEPT ![t] = 0]

(* Mutant: the queue is taken for idle when its list is empty.               *)
PushCountByList(t, q, j, only) ==
    /\ wasZero' = [wasZero EXCEPT ![t] = (jobs[q] = <<>>)]
    /\ jobCount' = [jobCount EXCEPT ![q] = @ + 1]
    /\ opPc' = [opPc EXCEPT ![t] = "enqueue"]
    /\ opQueue' = [opQueue EXCEPT ![t] = q]
    /\ opJob' = [opJob EXCEPT ![t] = j]
    /\ opOnly' = [opOnly EXCEPT ![t] = only]
    /\ UNCHANGED <<jobs, owe>>

(* Push(), first line: fetch_add returns the number of jobs before this one. *)
PushCount(t, q, j, only) ==
    /\ wasZero' = [wasZero EXCEPT ![t] = (jobCount[q] = 0)]
    /\ jobCount' = [jobCount EXCEPT ![q] = @ + 1]
    /\ opPc' = [opPc EXCEPT ![t] = "enqueue"]
    /\ opQueue' = [opQueue EXCEPT ![t] = q]
    /\ opJob' = [opJob EXCEPT ![t] = j]
    /\ opOnly' = [opOnly EXCEPT ![t] = only]
    /\ UNCHANGED <<jobs, owe>>

DoAsync(t, q) ==
    /\ InUserCode(t) /\ ~closing
    /\ CanReach(t, q)
    /\ \E j \in fresh :
          /\ fresh' = fresh \ {j}
          /\ PushCount(t, q, j, FALSE)
    /\ UNCHANGED <<owned, global, timerVars, execVars, closing, history>>

PushEnqueue(t) ==
    /\ opPc[t] = "enqueue"
    /\ jobs' = [jobs EXCEPT ![opQueue[t]] = Append(@, opJob[t])]
    /\ IF wasZero[t]
       THEN /\ opPc' = [opPc EXCEPT ![t] = "schedule"]
            /\ UNCHANGED <<opQueue, opJob, opOnly, wasZero, owe>>
       ELSE Return(t)
    /\ UNCHANGED <<jobCount, owned, global, timerVars, execVars, fresh, closing,
                   history>>

(* The first job of an idle queue, posted outside any Execute(): run it here.*)
PushExecute(t) ==
    /\ opPc[t] = "schedule"
    /\ current[t] = NoQueue /\ ~opOnly[t]
    /\ Return(t)
    /\ current' = [current EXCEPT ![t] = opQueue[t]]
    /\ execPc' = [execPc EXCEPT ![t] = "pop"]
    /\ UNCHANGED <<jobVars, owned, global, timerVars, batch, taken, fresh,
                   closing, history>>

PushGlobal(t) ==
    /\ opPc[t] = "schedule"
    /\ current[t] # NoQueue \/ opOnly[t]
    /\ Return(t)
    /\ global' = Append(global, opQueue[t])
    /\ UNCHANGED <<jobVars, owned, timerVars, execVars, fresh, closing, history>>

-----------------------------------------------------------------------------
(* Mutant: the jobs come out newest first.                                   *)
ExecutePopAllReversed(t) ==
    /\ execPc[t] = "pop"
    /\ batch' = [batch EXCEPT ![t] = Reverse(jobs[current[t]])]
    /\ taken' = [taken EXCEPT ![t] = Len(jobs[current[t]])]
    /\ jobs' = [jobs EXCEPT ![current[t]] = <<>>]
    /\ execPc' = [execPc EXCEPT ![t] = "next"]
    /\ UNCHANGED <<jobCount, owned, global, timerVars, opVars, current, fresh,
                   closing, history>>

(* Execute(): PopAll, the jobs one by one, then fetch_sub and the time test. *)
ExecutePopAll(t) ==
    /\ execPc[t] = "pop"
    /\ batch' = [batch EXCEPT ![t] = jobs[current[t]]]
    /\ taken' = [taken EXCEPT ![t] = Len(jobs[current[t]])]
    /\ jobs' = [jobs EXCEPT ![current[t]] = <<>>]
    /\ execPc' = [execPc EXCEPT ![t] = "next"]
    /\ UNCHANGED <<jobCount, owned, global, timerVars, opVars, current, fresh,
                   closing, history>>

ExecuteStartJob(t) ==
    /\ execPc[t] = "next" /\ batch[t] # <<>>
    /\ execPc' = [execPc EXCEPT ![t] = "job"]
    /\ UNCHANGED <<jobVars, owned, global, timerVars, opVars, current, batch,
                   taken, fresh, closing, history>>

ExecuteEndJob(t) ==
    /\ execPc[t] = "job" /\ opPc[t] = "idle"
    /\ finished' = finished \union {Head(batch[t])}
    /\ batch' = [batch EXCEPT ![t] = Tail(@)]
    /\ execPc' = [execPc EXCEPT ![t] = "next"]
    /\ UNCHANGED <<jobVars, owned, global, timerVars, opVars, current, taken,
                   fresh, closing, cleared, expired>>

(* Mutant: Execute() ends when the list is empty, whatever the count says.   *)
ExecuteSettleByList(t) ==
    /\ execPc[t] = "next" /\ batch[t] = <<>>
    /\ jobCount' = [jobCount EXCEPT ![current[t]] = @ - taken[t]]
    /\ taken' = [taken EXCEPT ![t] = 0]
    /\ IF jobs[current[t]] = <<>>
       THEN /\ current' = [current EXCEPT ![t] = NoQueue]
            /\ execPc' = [execPc EXCEPT ![t] = "idle"]
       ELSE /\ execPc' = [execPc EXCEPT ![t] = "time"]
            /\ UNCHANGED current
    /\ UNCHANGED <<jobs, owned, global, timerVars, opVars, batch, fresh, closing,
                   history>>

ExecuteSettle(t) ==
    /\ execPc[t] = "next" /\ batch[t] = <<>>
    /\ jobCount' = [jobCount EXCEPT ![current[t]] = @ - taken[t]]
    /\ taken' = [taken EXCEPT ![t] = 0]
    /\ IF jobCount[current[t]] = taken[t]
       THEN /\ current' = [current EXCEPT ![t] = NoQueue]
            /\ execPc' = [execPc EXCEPT ![t] = "idle"]
       ELSE /\ execPc' = [execPc EXCEPT ![t] = "time"]
            /\ UNCHANGED current
    /\ UNCHANGED <<jobs, owned, global, timerVars, opVars, batch, fresh, closing,
                   history>>

(* The 10 ms are not over: the while loop goes round.                        *)
ExecuteAgain(t) ==
    /\ execPc[t] = "time"
    /\ execPc' = [execPc EXCEPT ![t] = "pop"]
    /\ UNCHANGED <<jobVars, owned, global, timerVars, opVars, current, batch,
                   taken, fresh, closing, history>>

(* Mutant: the queue is not handed back when the time is over.               *)
ExecuteYieldDropped(t) ==
    /\ execPc[t] = "time"
    /\ current' = [current EXCEPT ![t] = NoQueue]
    /\ execPc' = [execPc EXCEPT ![t] = "idle"]
    /\ UNCHANGED <<jobVars, owned, global, timerVars, opVars, batch, taken, fresh,
                   closing, history>>

(* They are over: the queue goes back to the global queue.                   *)
ExecuteYield(t) ==
    /\ execPc[t] = "time"
    /\ global' = Append(global, current[t])
    /\ current' = [current EXCEPT ![t] = NoQueue]
    /\ execPc' = [execPc EXCEPT ![t] = "idle"]
    /\ UNCHANGED <<jobVars, owned, timerVars, opVars, batch, taken, fresh,
                   closing, history>>

(* A worker takes a queue from CGlobalQueue and calls its Execute().         *)
WorkerPop(t) ==
    /\ execPc[t] = "idle" /\ opPc[t] = "idle" /\ ~inDistribute[t]
    /\ global # <<>>
    /\ current' = [current EXCEPT ![t] = Head(global)]
    /\ execPc' = [execPc EXCEPT ![t] = "pop"]
    /\ global' = Tail(global)
    /\ UNCHANGED <<jobVars, owned, timerVars, opVars, batch, taken, fresh,
                   closing, history>>

-----------------------------------------------------------------------------
(* The application goes down: no Push of a new job, from a timer or a caller.*)
EndPosting ==
    /\ ~closing /\ ~distributing
    /\ closing' = TRUE
    /\ UNCHANGED <<jobVars, owned, global, timerVars, opVars, execVars, fresh,
                   history>>

(* ClearJobs(), called where its note allows it: in a job of the same queue, *)
(* or by any thread once there is no new Push.  The queue may then be run by *)
(* another thread, be on its way to the global queue, or wait there.         *)
ClearPopAll(t, q) ==
    /\ InUserCode(t)
    /\ CanReach(t, q)
    /\ current[t] = q \/ closing
    /\ jobs[q] # <<>>
    /\ cleared' = cleared \union Range(jobs[q])
    /\ owe' = [owe EXCEPT ![t] = Len(jobs[q])]
    /\ opQueue' = [opQueue EXCEPT ![t] = q]
    /\ jobs' = [jobs EXCEPT ![q] = <<>>]
    /\ opPc' = [opPc EXCEPT ![t] = "uncount"]
    /\ UNCHANGED <<jobCount, owned, global, timerVars, opJob, opOnly, wasZero,
                   execVars, fresh, closing, finished, expired>>

ClearUncount(t) ==
    /\ opPc[t] = "uncount"
    /\ jobCount' = [jobCount EXCEPT ![opQueue[t]] = @ - owe[t]]
    /\ Return(t)
    /\ UNCHANGED <<jobs, owned, global, timerVars, execVars, fresh, closing,
                   history>>

-----------------------------------------------------------------------------
(* CJobTimer.  Which of the reserved items are due is left open.             *)
DoTimer(t, q) ==
    /\ InUserCode(t) /\ ~closing
    /\ CanReach(t, q)
    /\ \E j \in fresh :
          /\ fresh' = fresh \ {j}
          /\ timer' = timer \union {<<q, j>>}
    /\ UNCHANGED <<jobVars, owned, global, distributing, inDistribute, due,
                   opVars, execVars, closing, history>>

Distribute(t) ==
    /\ execPc[t] = "idle" /\ opPc[t] = "idle" /\ ~inDistribute[t]
    /\ ~distributing /\ ~closing
    /\ distributing' = TRUE
    /\ inDistribute' = [inDistribute EXCEPT ![t] = TRUE]
    /\ \E items \in SUBSET timer : \E order \in SetToSeqs(items) :
          /\ timer' = timer \ items
          /\ due' = [due EXCEPT ![t] = order]
    /\ UNCHANGED <<jobVars, owned, global, opVars, execVars, fresh, closing,
                   history>>

DistributePush(t) ==
    /\ inDistribute[t] /\ opPc[t] = "idle"
    /\ due[t] # <<>>
    /\ LET q == Head(due[t])[1]
           j == Head(due[t])[2]
       IN  IF Alive(q)
           THEN PushCount(t, q, j, TRUE) /\ UNCHANGED expired
           ELSE expired' = expired \union {j} /\ UNCHANGED <<jobVars, opVars>>
    /\ due' = [due EXCEPT ![t] = Tail(@)]
    /\ UNCHANGED <<owned, global, timer, distributing, inDistribute, execVars,
                   fresh, closing, finished, cleared>>

DistributeEnd(t) ==
    /\ inDistribute[t] /\ opPc[t] = "idle"
    /\ due[t] = <<>>
    /\ inDistribute' = [inDistribute EXCEPT ![t] = FALSE]
    /\ distributing' = FALSE
    /\ UNCHANGED <<jobVars, owned, global, timer, due, opVars, execVars, fresh,
                   closing, history>>

(* The application drops its last reference to the queue.                    *)
Release(q) ==
    /\ owned[q]
    /\ owned' = [owned EXCEPT ![q] = FALSE]
    /\ UNCHANGED <<jobVars, global, timerVars, opVars, execVars, fresh, closing,
                   history>>

-----------------------------------------------------------------------------
(* The steps of a call that has been entered; the rest is up to the caller.  *)
Progress(t) ==
    \/ PushEnqueue(t) \/ PushExecute(t) \/ PushGlobal(t)
    \/ ExecutePopAll(t) \/ ExecuteStartJob(t) \/ ExecuteEndJob(t)
    \/ ExecuteSettle(t) \/ ExecuteAgain(t) \/ ExecuteYield(t)
    \/ ClearUncount(t) \/ DistributePush(t) \/ DistributeEnd(t)

Next ==
    \/ \E t \in Threads :
          \/ Progress(t)
          \/ WorkerPop(t)
          \/ Distribute(t)
          \/ \E q \in Queues : DoAsync(t, q) \/ DoTimer(t, q) \/ ClearPopAll(t, q)
    \/ \E q \in Queues : Release(q)
    \/ EndPosting

Spec == Init /\ [][Next]_vars

(* Threads are scheduled, jobs return, and the workers keep serving the      *)
(* global queue; nobody is obliged to post, clear or run the timer.          *)
FairSpec ==
    /\ Spec
    /\ \A t \in Threads : WF_vars(Progress(t))
    /\ WF_vars(\E t \in Threads : WorkerPop(t))

-----------------------------------------------------------------------------
TypeOK ==
    /\ jobs \in [Queues -> Seq(Jobs)]
    /\ jobCount \in [Queues -> Nat]
    /\ owned \in [Queues -> BOOLEAN]
    /\ global \in Seq(Queues)
    /\ timer \in SUBSET (Queues \X Jobs)
    /\ distributing \in BOOLEAN
    /\ inDistribute \in [Threads -> BOOLEAN]
    /\ due \in [Threads -> Seq(Queues \X Jobs)]
    /\ opPc \in [Threads -> {"idle", "enqueue", "schedule", "uncount"}]
    /\ opQueue \in [Threads -> Queues \union {NoQueue}]
    /\ opJob \in [Threads -> Jobs \union {NoJob}]
    /\ opOnly \in [Threads -> BOOLEAN]
    /\ wasZero \in [Threads -> BOOLEAN]
    /\ owe \in [Threads -> Nat]
    /\ execPc \in [Threads -> {"idle", "pop", "next", "job", "time"}]
    /\ current \in [Threads -> Queues \union {NoQueue}]
    /\ batch \in [Threads -> Seq(Jobs)]
    /\ taken \in [Threads -> Nat]
    /\ fresh \in SUBSET Jobs
    /\ closing \in BOOLEAN
    /\ finished \in SUBSET Jobs
    /\ cleared \in SUBSET Jobs
    /\ expired \in SUBSET Jobs

(* The jobs of one queue are never run by two threads at the same time.      *)
SerialExecution ==
    \A t, u \in Threads :
        current[t] = current[u] /\ current[t] # NoQueue => t = u

(* The thread that found the count at zero and has yet to schedule q.        *)
Scheduling(t, q) ==
    /\ opPc[t] \in {"enqueue", "schedule"}
    /\ wasZero[t]
    /\ opQueue[t] = q

Holders(q) ==
    {<<"push", t>> : t \in {u \in Threads : Scheduling(u, q)}}
    \union {<<"exec", t>> : t \in {u \in Threads : current[u] = q}}
    \union {<<"global", i>> : i \in {k \in DOMAIN global : global[k] = q}}

(* A queue is never scheduled twice - by the pusher about to do it, in the   *)
(* global queue, or by the thread that executes it - and with a positive     *)
(* count it is scheduled.  With a count of zero it is not, except when other *)
(* threads may clear it: then a queue already scheduled can come up empty.   *)
ScheduledOnce ==
    \A q \in Queues :
        /\ Cardinality(Holders(q)) <= 1
        /\ jobCount[q] > 0 => Holders(q) # {}
        /\ jobCount[q] = 0 /\ ~closing => Holders(q) = {}

(* A queue that still holds jobs cannot be destroyed under them.             *)
NoJobDiesWithItsQueue ==
    \A q \in Queues : jobs[q] # <<>> => Alive(q)

(* Every job that Push() or Distribute() has taken on is run in the end,     *)
(* unless it is cleared or its queue is gone when the timer hands it over;   *)
(* and the turn to distribute is always given back.                          *)
TakenOn(j) == j \notin fresh /\ \A item \in timer : item[2] # j

EveryJobRuns ==
    /\ \A j \in Jobs : TakenOn(j) ~> j \in finished \union cleared \union expired
    /\ distributing ~> ~distributing

(* The refinement: what is queued or taken out is the mailbox, less the job  *)
(* that is running.                                                          *)
Executor(q) == {t \in Threads : current[t] = q}

RunningJob(q) ==
    LET busy == {t \in Executor(q) : execPc[t] = "job"}
    IN  IF busy = {} THEN NoJob ELSE Head(batch[CHOOSE t \in busy : TRUE])

Waiting(q) ==
    LET Rest(t) == IF execPc[t] = "job" THEN Tail(batch[t]) ELSE batch[t]
    IN  (IF Executor(q) = {} THEN <<>> ELSE Rest(CHOOSE t \in Executor(q) : TRUE))
        \o jobs[q]

Actors == INSTANCE SerialActors WITH
    mailbox <- [q \in Queues |-> Waiting(q)],
    running <- [q \in Queues |-> RunningJob(q)]

(* Each queue behaves as a serial actor: one job at a time, in posting order,*)
(* none of them lost or run twice, whichever threads serve it.               *)
ImplementsActors == Actors!Spec
=============================================================================
