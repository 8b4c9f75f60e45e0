# Verification of CPP_Library

TLA+ models of the concurrent parts of CPP_Library (`src/`), checked with TLC
and, where a result should hold for every number of threads, queues or jobs,
proved with TLAPS. The library is a Windows server toolkit: job queues,
threads and locks, queues, memory pools, an IOCP and a RIO network layer,
database and Redis clients, and many stateless utilities.

## 1. Inventory

For each part: state, operations, what is hard, what makes it correct.

**Job queues** (`UtilCore/Job`). Each `CJobQueue` has a list `_jobs` and an atomic
`_jobCount`; there are one `CGlobalQueue`, one `CJobTimer` and a thread-local current queue. Any thread
pushes; the thread that makes the count leave zero runs the queue itself or
hands it to the global queue, from which workers take it. Hard: counting and
listing a job are two steps, execution nests in a push, the last reference to a
queue may be gone. Correct when one thread at a time runs a queue, in posting
order, and every queue with work is scheduled exactly once.

**IOCP session** (`UtilCore/Network/IOCP/IocpSession.*`). `_state`, the
pending I/O count, the close reason, the send queue and
its `_sendRegistered` flag, the receive ring, the owner reference of each event.
Workers and application threads meet in `Send`, `Disconnect`, `Abort`, the
completion handlers and four callbacks. Hard: a close in the middle of anything, immediate
failures, completions in any order. Correct when `OnDisconnected()` comes once and last,
I/O is counted exactly, one send is in flight and messages keep their order.

**IOCP service** (`NetService`, `IocpService`, `IocpListener`, `IocpSessionManager`,
`IocpWorkerPool`, `IocpCore`). Two session lists and a counter, accept slots with retries on detached
threads, timers, workers. Hard: close against accepts that arrive, a retry thread that outlives the
listener. Correct when both lists agree, the limit
holds, everybody is told to go, close and stop end, and nobody touches a freed listener.

**RIO network** (`UtilCore/Network/RIO`). The same contracts over Registered I/O: a core with two completion
queues, workers, a submission lock and an outstanding count; sessions with a ring and an overflow queue. Hard:
edge-triggered notifications, a shutdown that drains and destroys, a close that ends in the hook of
the last completion.

**Locks and threads** (`UtilCore/Thread`). `RWSpinLock` packs readers, waiting
writers and the writer bit in a word; `CThreadManager` keeps threads and a shutdown
flag; `CDeadLockProfiler` a graph of lock order.

**Connection pools** (`UtilCore/DB/OdbcConnPool.*`, and the MySQL and ADO twins).
Per slot a connection, a reference count and flags; the free queue, the reconnect queue, the quarantine and three
groups of background threads. Hard: lending, replacing and deleting one connection
from three kinds of threads. Correct when nobody uses a deleted connection (but for one that was deleted in use
on purpose, after ten minutes), a slot is lent to one borrower, and none is lost or leaked.

**Containers** (`UtilCore/Containers`, `UtilCore/Memory`). Condition-variable queues
(blocking, chunked, delayed), a double buffer, four lock-free rings with a blocking layer, a versioned
slot stack, counted pointers, memory pools, clustered maps. Correct when nothing is lost or
handed out twice, nobody sleeps while there is something to do, close releases everyone.

**Redis client** (`UtilCore/Redis`). Per connection a socket, one pending callback, the buffers being sent and those
that wait for `_sendEvent`, the parser, a count of outstanding I/O; per pool the free, broken and pending queues and a
reconnect thread. Hard: a reply, a failed send and a `Disconnect` all want the one callback, from which the connection is
lent again at once; events are used again by the next connection. Correct when each command is answered once and with its own
reply, and the connection is in one place.

**HTTP client** (`UtilCore/Network/HTTP`). Per host a pool: idle sessions, pending requests, connected sessions, a timer thread; per session
a `CHttpClientCore` with the one request it awaits the response of. Hard: a response during the send, a failed send, a time-out, the end of the
session, a retry and `Close()` all want the one callback, from which the session goes on to the next request. Correct when every request is
answered once and no two share a connection.

**Asynchronous database services** (`UtilCore/DB/*AsyncSrv.*`). Per service a queue of requests, worker threads that take a chunk each, a counter of
what is outstanding, waiting producers. Hard: time-outs push a request again while the service stops. Correct when what was accepted is served,
what was not is given back, the counter agrees, and nobody is left asleep.

**The rest**: SQL helpers, text, files, images, cryptography, system information,
teaching data structures, generated COM wrappers: sequential or stateless.

`PROJECT.json` lists every part with its status, and under `hazards` the places where the code is hard to
test, each with the properties that watch it.

## 2. Modules

| module | models | relation |
|---|---|---|
| `SerialActors` | what a job queue promises: actors that run jobs one at a time, in order | abstract specification |
| `JobQueue` | `CJobQueue`, `CGlobalQueue`, `CJobTimer` | implements `SerialActors` |
| `RWSpinLock` | `RWSpinLock` | |
| `IocpSession_proofs`, `HttpConnPool_proofs` | inductive invariants and theorems | extend the module of the same name |
| `Rio_proofs` | the same for `RioCore` and `RioSession` | two parts |
| `JobQueue_proofs` | the same for `JobQueue`, `RWSpinLock` and `AsyncSrv`, and the refinement of `SerialActors` | three parts |
| `Pools_proofs` | the same for `OdbcConnPool` and `RedisClient` | three parts: the ODBC pool, the places of commands and connection, the replies |
| `IocpService_proofs` | the same for `IocpService` and `IocpListener` | two invariants |
| `Containers_proofs` | the same for `RefCountable`, `TaskQueue`, `DoubleBufferQueue`, `DelayedTaskQueue`, `SlotStack`, `LockFreeQueue` | a section for each, two for the last |
| `CallStacks` | lemmas about threads with call stacks: how a call, a return or a step inside a frame moves the number of frames with a label | no state; for the proofs of the two sessions and of `RedisClient` |
| `IocpSession` | `CIocpSession`, with the dispatch of its completions | |
| `IocpService` | both services, session lists and manager, worker pool | sessions are a few states |
| `IocpListener` | `CIocpListener` and who holds it | |
| `RioCore` | `CRioCore` | |
| `RioSession` | `CRioSession`, `CRioObject` | any worker dispatches any completion |
| `LockFreeQueue` | the SPSC, SPMC, MPSC and MPMC queues and their blocking layer | memory is a parameter |
| `SlotStack`, `RefCountable` | `CLockFreeSlotStack`; `RefCountable`, `TSharedPtr`, `TWeakPtr` | |
| `TaskQueue` | `CBlockingTaskQueue`, `CChunkedBlockingQueue` | |
| `DoubleBufferQueue`, `DelayedTaskQueue` | the classes of those names | |
| `OdbcConnPool` | `COdbcConnPool`, `OdbcConnGuard`, with what it uses of `CThreadManager` and `CDelayedTaskQueue` | |
| `RedisClient` | `CRedisClient`, and the lending and reconnecting of `CRedisConnectionPool` | one connection |
| `HttpConnPool` | `CHttpConnPoolT` with the `CHttpClientCore` of its sessions | relies on what `IocpSession` checks |
| `AsyncSrv` | `COdbcAsyncSrv` and its push helpers | `CChunkedSwapQueue` is a sequence |
| `MC...` | instances for TLC: definitions of constants, symmetry, composites | extend the modules they name |

`MCJobQueue`, `MCIocpService`, `MCRio`, `MCQueues` and `MCPools` hold several components that do not
interact. A variable `part`, chosen at the start, says which of them a behaviour is
about; the others keep their initial state, and the fairness of each holds for its part. So one run asks the questions of
several small components, and the number of states is the sum, not the product.

### JobQueue

A step is the code between two accesses to something shared. `CSpinLockQueue` holds its lock over each
of `Push`, `TryPop`, `PopAll`, so those are atomic. A thread has at most one call of `Push` or `ClearJobs`
in progress (`opPc`), and that call may be nested in a job of `Execute` (`execPc`), as in the code. `Push` is
`PushCount` (the `fetch_add`), `PushEnqueue`, then `PushExecute` or `PushGlobal` if the count was zero.
`Execute` is `ExecutePopAll`, `ExecuteStartJob`/`ExecuteEndJob` per job, `ExecuteSettle` (the
`fetch_sub` and the test), `ExecuteAgain` or `ExecuteYield` (the time is up: back to the global queue).
`Distribute` pops the due items and hands each over to its queue if the weak reference still
locks. Application references are `owned`; a caller keeps the
reference through which it calls until the call returns, which is how `std::shared_ptr` is used at the call sites.
The order of ticks is left out: any subset of the timer's items may be due. The worker
loop that takes queues from the global queue is not in `src/`; `WorkerPop` is what it has to do.
`ImplementsActors` is a refinement: what is in the executor's batch and in `_jobs` together is the mailbox.

`ClearJobs` is `ClearPopAll` and `ClearUncount`. Its note (`JobQueue.cpp:66-68`) allows it in a job of the queue itself, or, with no new `Push`, at shutdown. `EndPosting` is
the moment from which the application posts nothing and runs no timer (`closing`); calls under way go on. From then any thread that can reach a queue may clear it: one that another thread
executes, that a pusher is about to schedule, or that waits in the global queue. So a queue already scheduled may come up with a count of zero, and `ExecuteSettle` and a clearing thread
subtract from the count at the same time. Hence what `ScheduledOnce` says: at most one holder and, with a positive count, one, always; with a count of zero none, before `closing`.

### RWSpinLock

The 32-bit word is a record of its three fields, each with its width (15 bits of readers, 16 of writers,
one bit); a step is one access to the word, every operation is there, and the compare-exchange may find the word changed.

### IocpSession

`stack[t]` holds the calls thread `t` is in, innermost first, under the names of the source's functions;
a nested call from a callback (`Send`, `Disconnect`) pushes a frame. A step is the code between two
accesses to an atomic, two Winsock calls or two callbacks; a region under the session's lock
is one step. `posted` are the operations the system owes a completion for; `Complete` delivers one of
them, with data, zero bytes or an error, to a worker. `ConnectEx`, `WSARecv`,
`DisconnectEx` and `WSASend` may fail at once, completions may fail, the send queue and the receive ring may be full.
`owners` is the set of events whose `owner` reference is set, which is what keeps the session alive. Winsock's
contract (one completion per accepted operation, none for one that failed at once) is external.

### IocpService, IocpListener

`list` and `active` are the service's session list and `_activeSessionCount`, `manager` the session manager's. A step is a locked
region or an access to an atomic: an accept is `AcceptCount`, `AcceptReject` or `AcceptNumber`, `AddSession`,
`AcceptMap`, `ProcessConnect`; a disconnect is `NotifyPlace`, `RemoveSession`, `UncountSession`, `ReleaseSession`; close goes through
`phase` in the order of `CIocpServerService::Close`, with the two snapshots, `Disconnect` and `Abort` of each session, and then
the workers, which are woken (`CloseStopWorkers`) and joined (`CloseJoinWorkers`); packets in the IOCP are not modelled there. A session is what the
service sees of it: a few states, whether it was notified, what its last completion does. Reaping walks the clusters and idle sweeps disconnect beside all that.

`CIocpListener` is a module of its own: accept slots move between the system, workers and retry threads (`slotAt`); `Holders` are the strong references, and
the last one to go runs the destructor, which may be a retry thread (`life`, `self`).

### RioCore, RioSession

`RioCore` has the two completion queues as `done` (completions not taken), `armed` (a notification is registered) and `packets` in the
IOCP; a worker drains, re-arms with `RIONotify`, drains again, and sleeps. Submitters hold the
shared lock, `StopInternal` the exclusive one; a corrupt queue (`DrainFails`) is a fault that may happen at
any drain. `Shutdown` is called by several threads. `RioSession` is the session over some core that
dispatches on any worker: `ioLock` is the request-queue lock, `ioCount` the outstanding count, `ring` and `overflow` hold numbered bytes
so that their order can be stated; `overflow` is the bytes of the messages that wait, the last of each marked, because only whole messages move to the ring. The service's lists, the listener and the buffer pools are not in it.

### LockFreeQueue

A step is one load, store or compare-exchange, of the class that `class` names; the blocking layer (`SleepInPush`, `SleepInPop`, `Notify`, `Close`) is shared as
it is in the source. `class[2]` is the memory: `plain` is sequentially consistent; `buffered` gives each thread a
store buffer that `Flush` empties in order and a compare-exchange or a mutex drains, which is what x86 does. Weaker orders of the C++ model (acquire/release reordering that x86 forbids) are not
covered: the library is built for Windows on x86.

### The other containers

`SlotStack`: head and version are one word, the index links another; `MaxVersion` bounds the version; `freeSlots` is a history variable, the slots in the order
in which they were given back, which the links must agree with. `RefCountable`: the object and its control block die apart; `Holders` are
threads with strong or weak pointers. `TaskQueue`: the mutex is a step, a condition variable a set of sleepers and what has been
notified. `DoubleBufferQueue`: the index, the writers counted in each buffer, the swap. `DelayedTaskQueue`: times are small numbers, `Tick` is the clock; tasks with the same time leave in any order.

### OdbcConnPool

Borrowers construct an `OdbcConnGuard` (`Borrow`, `Pop...`, `GuardLoad`, then `use`) and destroy it (`Release...`,
`Enqueue...`); namers call `GetOdbcConn(nType)` (`Get...`). A step is one access to an atomic or one locked
region. The background threads are `Worker` (`ReconnectWorkerLoop` with
`ApplyReconnectedConn`; `WorkerSleep` is the moment between the test and the wait), `DelayedLoop`
(`ProcessExpiredTasks` running the task of `ScheduleRetry`) and `HealthLoop`. Connections are numbered in
the order they are opened; `MaxConns` bounds them, after which `TryReconnect` fails. `Break` is the network. Delays and
time-outs may end at any moment. The owner's thread goes through `phase`: `InitPool` is one step
because nobody else knows the pool; the destructor joins one group after another, when clients are gone (`~COdbcAsyncSrv` joins them first).

Whether the background threads exist is decided by `CThreadManager`: `JoinFlag` and `CreateThread` carry its `_bShuttingDown`
through `Init()`. In this code that flag is never lowered again and no thread starts, which is the violated run
`OdbcConnPool_started`. `Rearms` lets the same model also describe the pool with managers that can start again: `{FALSE}`
is the code as it is, `TRUE` is what `CIocpWorkerPool::Stop` gets by calling `ResetShutdown()`; the passing run starts in either,
so that the loops, which are in the source, are examined as well.

The health check deletes a quarantined connection when its slot has no reference (`Unused`), and after `FORCE_CLEANUP_TIMEOUT_MS` in any case (`OdbcConnPool.cpp:454`). Time is left out, so
`Purge` may do the latter to any of them in any round. Such a connection is `forced`: a client may still have it, and `LeasesHold` states that exception; a connection deleted in any other way is never
a client's. What a deleted object answers to `IsConnected()` is anything (`Sees`). `Clear` deletes what slots and quarantine hold, but abandons a connection whose count is not zero
(`Leaked`, `abandoned`). `NothingLost` says that this does not happen with clients of one kind; with both kinds the count may have become -1 (`OdbcConnPool_counted`).

### RedisClient

One connection of the pool. `frames[t]` is where thread `t` is and where its callers go on. A region under `_commandLock`, `_recvLock` or the
pool's `_lock` is one step; `Disconnect` is three: `Exchange` of the socket, `CleanupSocketAndParser`, `Drain` of what is in flight. `SendCommand` is one
(`SendRefused`, `SendLater`, `SendNow`, `SendFails`): a `Disconnect` that takes the socket in the middle of it drains only afterwards, so the outcomes
are those of an exchange just before or just after. Callbacks run outside the locks: the command's own, then `PushConnection` (`PushBroken`,
`PushToWaiting`, `PushFree`). `recvs` and `sends` are the requests posted with `_recvEvent` and `_sendEvent`, `pendingIo` the client's count of
them. `Lend` and `Wait` are the pool's `SendCommand`; `ExpirePendingCommands`, `DisconnectStalledClients` and `ReconnectLoop` belong to the reconnect thread,
with time left open. `Connect` opens connection `opened + 1` and may end with a SELECT, whose answer it awaits. The server answers
each complete command once, in order (`Transmit`), and either side may close (`PeerCloses`). A reply arrives whole or in two pieces: `parser` says whose unfinished reply
is held; the rest of a reply whose beginning was dropped is a protocol error, and bytes that are put behind another connection's are taken for a foreign reply. A
command is sent in up to `Parts` pieces. AUTH is a SELECT of another name; the push callback of subscribers is left out.

### HttpConnPool

A request is with one thread, one session or the pending queue. A step is a region under the pool's `_lock` or a core's `m_lock` with the calls that
follow it, up to the next region another thread could come before: `Submit` is `SubmitClosed`, `SubmitIdle` or `SubmitQueued` with `ConnectOneMore`; `BeginRequest`
is `Begin`, `SendBytes`, and what it finds afterwards (`Sent`, `SentAnswered`, `SentTold`, `SentFailed`); the completion handler is `RetryFailed`, or `Discard` or
`Reuse`, then `DispatchNext` or `BecomeIdle`. `FeedComplete`, `CheckTimeout` and `OnSessionDisconnected` are the others that may take the callback. `ScanTimeouts` copies the sessions
and checks them one by one, without the lock. `thread[t]` is where a submitter, a session's worker, the timer or the closing thread is. A session is
what `IocpSession` promises of it: callbacks follow each other, `OnDisconnected()` is the last, and then the service forgets it; `IsConnected()` may be stale as soon as it is read.
`Close()` follows the source, with the service admitting sessions again when its own close is over (`NetService.cpp:105`). Time is the set `late`; back-off delays are left out
(a reserved reconnection may run at any time, `MaxReserved` bounds how many are reserved), and so are TLS, the bytes of the parser, and the manager of several hosts.

### AsyncSrv

Feeders push one request each, blocking or not; `FindsRoom` is apart from `PushNew`, as the room a producer found is not kept for it. A worker is in `Pop` (`PopLocal`, `SwapChunk` and `NotifyFeeders`,
`PopSleeps`, `PopNothing`) or in `Action` (`Handled`, `HandlerTimedOut` with `PushRetry` or `RetryDropped`). `hungry` and `crowded` are the threads asleep on the two condition variables; a notification
is a step of its own because the code makes it after the unlock. The destructor is `Stop`, `WakeAll`, `Join`, `FlushRemainingTasks`. A push that comes after the destructor has ended would be a use
of a destroyed object and is the caller's to avoid; here such a feeder is refused.

## 3. Runs

| run | question | instance |
|---|---|---|
| `JobQueue` | exclusion, single scheduling, no job lost with its queue, refinement, every job runs; the lock's exclusion, counts, preference, progress | 3 threads, 2 queues, 3 jobs; 3 lockers |
| `IocpSession_safety` | last notice, I/O counts, one send and receive, send order | 1 caller, 2 workers, 2 messages, every failure |
| `IocpSession_live` | a closing session is notified | 1 caller, 2 workers, 1 message, no immediate send failure |
| `IocpService` | lists agree, limit, close and stop end, no use of a freed listener | 3 sessions, 2 workers, limit 1; 2 accept slots, 2 workers, 2 retry threads |
| `Rio` | session: one receive, order, nothing stranded, closed once; core: no completion or worker left, nothing destroyed in use | 2 workers, 1 user, a ring of two bytes; 2 core workers, 1 submitter, 2 requests, 2 closers |
| `Queues` | the containers; the database service serves what it accepts; the HTTP pool answers each request once, one request per connection | see `Queues.cfg`; HTTP: 2 requests (one that may be retried), 2 sessions, 1 to be kept, 1 allowed |
| `Pools` | ODBC: exclusive leases, exact counts, no deleted connection used but after a forced clean-up, none leaked, no slot lost; Redis: each command answered once and with its own reply, the connection in one place | 1 slot, 2 borrowers or 2 namers, 2 workers, 2 connections; 2 workers, 1 user, 3 commands, 2 connections, 1 place to wait |
| `IocpSession_drained`, `RioSession_early`, `LockFreeQueue_buffered`, `OdbcConnPool_started`, `OdbcConnPool_counted` | violated, see section 4 | |

Bounds. Jobs, messages, pushes and requests are created a bounded number of times, which bounds every counter. Two queues and three
threads are enough for a thread to run one queue, feed a second one from a job and be raced by a third. The application ends its posting when one job is left unmade and the timer is empty (`LastPosted`), so two jobs are there to be cleared. Two workers and a caller
cover a receive, a send and a user call at once; one message fills the send queue, one
packet the ring. Three sessions with a limit of one let one be refused while another is being
replaced. Capacity two with three pushes wraps the rings; with store buffers two pushes do, because the reordering does not need a full queue. Three slots in the stack are what a stale
`next` needs; `MaxVersion` stops a behaviour after eight exchanges. One pool slot is where borrowers meet: slots share only
the queues, whose order no property depends on. Two connections allow one replacement. Two requests on two sessions let one be retried, timed out or refused while the other takes its connection; the second session appears when submitters race past the limit of one, or to replace the first. Three feeders with room for one request and chunks of two let a producer sleep, a chunk hold two, and a retry meet the stop. Two Redis connections allow a stale completion or byte
of the first to meet the second; three commands let one be in flight, one wait and one be refused. For more of them the properties are proved (section 5). Symmetry is used only in runs without temporal properties.
`CHECK_DEADLOCK FALSE` where the system may end: all jobs done, the session closed.

Fairness. Threads are scheduled, and callbacks and jobs return (`WF` on the steps of calls that were entered). Someone keeps
serving the global queue (`WF` on `WorkerPop`), which the library leaves to its user. A connected peer owes nothing; once a session is closing,
`DisconnectEx`, `shutdown` or the closed socket makes the system complete what is posted (`WF` in those states only). Nobody is obliged to post, clear,
disconnect, or call `Distribute`; a call that has begun goes on. That the core's shutdown and the sleepers of the queues come to an end is stated as invariants instead
(`WorkersWoken`, `NobodySleepsForGood`, `NoTaskWaiterForgotten`, `AcceptedIsServed`): a state where everybody waits and nothing that would
wake them is under way is what must not be, and this needs no assumption about scheduling.

## 4. What the violated runs show

* `IocpSession_drained`: `RegisterSend` gives its count back with a bare `fetch_sub` when `WSASend` fails on the spot (`IocpSession.cpp:585`),
  without the check that every other give-back makes. If a `Disconnect` and the completion of `DisconnectEx` fall between the count and its return, the session is drained and never notified.
  This is why `IocpSession_live` runs with `SendFails = FALSE`.
* `RioSession_early`: `OnIoCountReachedZero` closes the session if the state is Closing when it looks, but does not look at the count again. The completion of one send
  brings the count to 0 before the opener has posted the initial receive; the opener posts it and a user calls `Close` before the hook looks, and the hook closes the socket with the receive in flight (`RioSession.cpp:431` against `:338`).
* `LockFreeQueue_buffered`: on x86 the producer of the SPSC queue may read the waiting counter before its item is visible, and the consumer sleeps beside an item (`SPSCLockFreeQueue.h:458`); MPSC and SPMC have it
  on the side one thread owns. MPMC does not, because the positions a sleeper tests are moved by compare-exchanges.
* `OdbcConnPool_started`: `Init()` joins the three thread managers first; that raises their shutdown flags, which nobody lowers, and the threads it
  then asks for are refused. The pool works until connections break and never repairs one. The MySQL and ADO pools do the same.
* `OdbcConnPool_counted`: the roll-back in `PopFreeSlotIndex` stores zero and wipes out a reference that `GetOdbcConn` has taken meanwhile; the count ends at -1.
  This is why `Pools.cfg` has borrowers and namers apart.

Read in the code and not checked: `CRioServiceHelper::StopCore` shuts the core down before it resets the receive buffers (`RioServiceHelper.cpp:88`, `:96`), the other order than
the comment of `RioBuffer.cpp:219-240`; the RIO accept callback closes the client socket after a failed `Init()` whose session
closes it too (`RioService.cpp:109-114`); `MarkFaulted` changes the core's state without the submission lock; a RIO session
whose `OnConnected()` disconnects is listed after it was reported closed (`RioService.cpp:119`). With repaired thread managers TLC finds in `OdbcConnPool` that the health check may ask a deleted connection
(`:494`), a retry dropped while the slot is in use leaves the slot to nobody (`:389`), the workers' stop flag is stored
without their mutex (`:668`), and a slot may stay out of the free queue after a time-out (why `NoLostSlot` excludes `timedOut`).

In the HTTP pool: a send that fails without a disconnect (no memory for its buffer, or an error of `SSL_write`) while the response has already come is answered with that response, and `OnRequestComplete` then
keeps the connection, on which part of the request is missing, although `HttpClientCore.h:122` leaves it to the caller to discard it. `TryGrow` (`HttpConnPool.h:596`) counts the sessions and makes
one in two steps, so submitters at once exceed `_maxConnections`, which `:584-589` says cannot happen, and one that is late makes a session after `Close()`, which then stays connecting because no worker
is left. A reconnection whose delay ends before the service has forgotten the lost session counts it (`:573`) and does nothing: with `minIdle` of zero or one, what is pending waits for the next submission or its time-out.

In `RedisClient`, TLC finds with three connections that one request at a time per event (`EventFree`) can fail: when a send is to go on and `DoSend` fails,
`Dispatch` gives its I/O count back (`RedisClient.cpp:813`, `:837`) before it calls `Disconnect(SendFailed)` (`:845`), where the other paths count down last
(`:731-736`). The pool may by then have reopened the client, so what this late `Disconnect` drains, once it has the lock (`:454`), is of the next connection or the one after: it takes the
command in flight there and clears its send buffers, and the command lent next posts a second send with `_sendEvent`. It need not even have taken another connection's socket: with four connections TLC finds one that
exchanges its own, is overtaken by the reconnection, and drains then. `strayed` records that a `Disconnect(SendFailed)` drained while the client was connected again;
`OwnReply` is stated, and proved, for everything else. Read and not checked:
`DispatchOnClient` reads the pool's generation after the lock under which the connection was lent (`RedisConnectionPool.cpp:429` against `:275`);
`DisconnectStalledClients` may cut a connection whose stalled command has been answered and replaced in between.

## 5. Proofs

`JobQueue_proofs`, for every finite set of threads and any queues and jobs. `SerialExecution` is not inductive: that the executor is alone
depends on who scheduled the queue. The invariant `IInv` adds `LocalOK` (what a program counter says of its locals),
`CountOK` (the count exceeds the listed and about-to-be-listed jobs by exactly what its executor has taken and not
settled, `Surplus`, and what threads have cleared and not yet subtracted, `Owing`), `AtMostOneHolder` (pusher, global queue and executor exclude one another) and `HeldIffCounted` (somebody holds the queue
if the count is positive, and, before `closing`, only if). From it: `TypeCorrect`, `Serial`, `OncePerQueue`, `JobsKeepTheirQueue`.

The refinement, `JobQueuesAreActors`, is proved step by step. `ExecutedMailbox` and `IdleMailbox` say what the mapped mailbox is when some thread executes the queue and when none does; then
`PushEnqueue` is `Post`, `ExecuteStartJob` is `Start`, `ExecuteEndJob` is `Finish`, `ClearPopAll` is `Clear`, and every other step, `PopAll` and the hand-over of a queue included, leaves all mailboxes
as they are. That `Post` puts in a job that is in no mailbox needs a second invariant, `OnceOK`: a job that has not reached a queue is in one place, and one that has never does again (`PostedOnce`).

The same module's second part is about the lock, for every set of fewer than 2^15 threads. The invariant (`LockInv`) says the word's fields are the cardinalities
of the sets of threads whose contributions are in it. From it: `Exclusion` and `Counts`, together `LockHoldsAlways`,
`NoOverflow` (no field spills into the next) and the action property `WriterPreference`.

Its third part is about the asynchronous database services, for any finite sets of feeders and workers, any capacity and chunk, and at least one worker. `AsyncInv` says: a request that was accepted and is not over is in the shared queue, a worker's chunk or a worker's
hands, once (`PresentPlaced`, `PlacedApart`); a worker leaves only when its chunk is empty and the queue is, after the stop, from when on nothing enters (`PlacesOK`), so what the destructor finds after the join
is nothing (`StopOK`); `outstanding` is the number of the requests there and on their way in; and whoever sleeps over work or room has somebody awake who will see to it (`SomeoneSees`). From it: `AcceptedIsServedAlways`.

`IocpSession_proofs`, for every finite sets of users and workers and any number of messages. A thread's state is a stack of frames, and what the
session's counters count are frames and pending operations, so the proof counts them: `Work(L)` is the number of frames with a label in `L`, on all stacks, plus the
posted operations in `L`. Every action takes one label away and puts zero, one or two in its place (`Gone`, `Turned`, `New`, `Called`; the lemmas
`Returns`, `GoesOn`, `Calls`, `Enters` say which, from `CallStacks`), and the invariant `IInv` is arithmetic about such numbers:

* `CountOK`: `_pendingIoCount` is `Work` of the places that hold a count;
* `OwnersOK`: at most one operation of each kind is posted or about to be, and while it is the event has its owner;
* `PhaseOK`, `FailOK`, `NoticeOK`: which work may exist before the connection, while connected, and after the close; who may still notify;
* `SenderOK`: nobody sends while `_sendRegistered` is clear, and while it is set on a connected session somebody sends or is about to close it;
* `ClearOK`: the send queue is cleared on a connected session only by the thread that has it in its `Disconnect`;
* `OrderOK`: sent, taken and queued messages are the accepted ones in order.

None of the five checked invariants is inductive alone: that the notice is last needs the exact count, the count needs the owners, the sender needs the phase. From
`IInv`: `TypeCorrect`, `PendingCountedHolds`, `NotifiedLastHolds`, `OneOfEachHolds`, `NoStrandedMessageHolds`, `SentInOrderHolds`. The failed send that
`IocpSession_drained` is about does not contradict them: it ends without the notice, which is a question of progress.

`Rio_proofs`, its part about the session, for every finite sets of workers and users, every size of the ring and any number of messages. Frames are counted in the same way
(`Moved`, with `Returns`, `GoesOn`, `Calls`, `Begins`, `Handles`), and the bytes are numbered in the order of the `Send()` calls, so that a queue is right if it
counts up from where it should (`Numbered`; `NumberedJoin`, `NumberedPart`). `IInv` says

* `LockOK`, `ReceiveOK`: one thread is in a region of `_ioSubmitLock`; the opening, the receive that is posted and the completion that is handled are one at a time;
* `PhaseOK`: what has not begun before the session is active, and that a sender which holds the lock found it active;
* `SenderOK`, `UnsendOK`: one thread or one request sends, `_isSending` is set while it does, and with bytes in the ring there is such a sender or
  someone about to close; `_isSending` is cleared after a failed request only by a thread that closes the session first;
* `FitOK`: every message that waits fits into an empty ring, so bytes wait only while the ring has some;
* `QueuesOK`, `BytesOK`: wire, ring and overflow queue hold consecutive bytes, but for what the kernel has sent and the session has not yet taken out of the ring.

From it: `TypeCorrect`, `OneReceiveAtATimeHolds`, `SentInOrderHolds`, `NoStrandedSendHolds`. It also shows that `FlushNothing`, the path of a sender that finds the ring empty, is never
taken (`FlushNothingStep`): a defensive branch of `FlushSendInternal`. `ClosedAfterLastCompletion` is not among the theorems, as `RioSession_early` refutes it.

`Rio_proofs`, its part about the core, for every finite sets of workers and submitters, any closers and any size of a batch. `CoreInv` says

* `IoCounted`: the count is at least what is in flight - requests counted on their way in, with the kernel, completed, or in a worker's batch - and exactly that unless a queue was found
  corrupt. That it never falls below is what an orderly shutdown rests on;
* `DoorClosed`, `NobodyLeft`: from the join on nobody is in `SubmitIo()` and nobody gets in, and behind it no worker is left;
* `EnoughStops`: a core that no longer runs has a stop packet for every worker that has not seen the state yet. A worker that takes a stop packet goes back to its loop, where it sees the state, so the inequality survives every step; it is
  `Stop()`, the fault of a worker and `Shutdown()` itself that must each post one for every thread;
* `Armed`: a queue no worker will look into before it sleeps has a packet under way, or is empty and registered for a notification. The order - drain both queues, register, look once more - is what keeps it.

From it: `CoreInductive`, `CoreDestroyedAfterLastUse`, `CoreWorkersWoken`.

`Containers_proofs`, one argument for each:

* `LivesWhileHeldAlways` (any finite set of holders): each count is the number of its pointers, and the strong ones together hold one of the weak count, until the thread that
  dropped the last has deleted the object (`RefCounts`); at most one thread deletes, and only after the last pointer (`Deletions`).
* `NoTaskWaiterIsForgotten` (any finite sets of makers and takers): tasks left for a sleeping taker are no more than the threads on their way to wake or to take, unless someone is about to wake everybody (`TakersOK`);
  a sleeping maker finds no room, or someone is about to tell it of some (`MakersOK`).
* `BufferAlwaysTakenWhole` (any finite set of writers): `inFlight` counts who is in a buffer, and who is in the old one came there before the swap or is about to leave it (`WritersOK`);
  what was taken, the old buffer and the new one are in that order for each writer, with nothing skipped (`ItemsOK`).
* `TimerNeverOversleeps` (any reservers and delays): a sleeping timer that should go on has a reserver about to notify it.
* `EverySlotIsOnce` (any number of slots and threads): a thread's copy of the head is older than the head, or equals it, and then the link it read is still the link (`CopiesOK`): this is what the version is for.
* `CellHandedOverAlways` (the four lock-free queues, with and without store buffers, any threads, any capacity from 2). `QueueView` is the part of the state that the cells depend on. A thread *owns* a position from
  its claim until the store that hands the cell over - the sequence number, or in the SPSC queue the position - is in memory, so also while that store waits and the thread has gone on (`OwnsNow`, `OwnsStill`).
  `OwnedOnce`: an owned position is available to its side (`Avail`, what memory says), and one thread's. `BuffersOK`: only the three stores of a push or a pop wait, an item's always before the one that hands it
  over: the order of the buffer is all the code needs of a release store. `ClaimsOK`: positions owned lie behind the counter, and a thread about to compare and swap the current position saw its cell ready, and it still is.
  `FrontsOK`: the positions that the one thread of a side stores rise, and in the SPSC queue those between memory and its own view are still its own. `ItemsWhole`: a cell that a side may take has what that side expects
  until one of its threads has touched it. `EndsOK` is the argument for a closed `Pop()`. A store is shown in two moves, into the buffer (`ItemKeeps`, `RaiseKeeps`, `HandKeeps`) and from there to memory (`FlushKeeps`); on
  sequentially consistent memory both are one step (`StoreKeeps`).
* `NobodySleepsForGoodAlways` (the same queues, where a position is in memory before its thread looks for sleepers: the hypothesis `Builds \subseteq PromptBuilds`, all four classes on sequentially consistent memory and
  MPMC on x86. In the other builds it fails, which `LockFreeQueue_buffered` shows). `WakeInv` adds to the invariant above `WakersOK`: beside a sleeper there are no more items, or no more
  room, than *movers*, threads that have made such an offer and will still look for a sleeper (`Past`), or that will look for an offer before they sleep (`Looks`). `SizesOK` is about a consumer that will sleep by what it read of the positions: the
  items that came since are at most the producers that have still to ring, and those wait for the mutex it holds. `MutexOK` and `WaitingOK` say that the counter is exact, so that the test outside the mutex sees 0 only while nobody sleeps or
  is about to without another look. `PatientOK`: only a patient producer gets to the mutex. `ToldOK`: who has not heard of `Close()` is one to whom it has still to call. `BoundsOK`: how far positions and published sequence numbers can be.

`IocpService_proofs`, for every finite set of sessions, any workers and any limit, and for any accept slots and finite sets of workers and retry threads.

* The service. `CountOK` says whom `_activeSessionCount` counts: the sessions that have a number and are not notified, and those some thread has just counted or not yet uncounted (`IsCounted`).
  `AcceptIs` and `SessionIs` say what a thread's place in an accept or a notification tells of its session, and who must be at work for a session that is in one list and not in the other;
  `AloneOK` that one thread accepts a session and one notifies. None of `ListsAgree` and `LimitHolds` is inductive alone: the count is exact only with the places of all threads, and
  a session may leave the list only because `AloneOK` says nobody else is about to enter it. The count's part concerns servers: a client counts in other places. From it: `ListsAgreeHolds`, `LimitHoldsAlways`.
* The listener. `PlacesOK`: where each thread may be, and that only a holder of a reference is inside the code, apart from the destructor's. `SlotsOK`: a slot is in one place, and until `Stop()` in some place.
  `PendingOK`: `_pendingRetries` is the number of threads about to start a retry thread plus that of the retry threads that have not finished. `LifeOK`: once the last reference is dropped nobody is inside but
  the one thread that runs the destructor, and the counted retry threads wait or finish. A step of one thread is `Hop`, and `HopStep` says what has to be shown of that thread only. From it:
  `ListenerTypeCorrect`, `NobodyInFreedListenerHolds`. That the destructor waits until `_pendingRetries` is 0, and the exactness of `PendingOK`, is what makes the last hold.

`Pools_proofs`, for every finite set of clients, any workers, slots and number of connections. `PoolInv` holds whoever the clients are:

* `Phases`: clients run only in a pool in use, and workers only between `Init()` and `Clear()`;
* `FreeOnce`: a slot's flag is up exactly while the slot is in the free queue or with the one thread between flag and queue;
* `OwnersOK`: what slots, workers and the quarantine have is not deleted, not had twice, and is every connection there is;
* `AbandonedLast`: a connection is abandoned in a closed pool only.

From it: `PoolKeepsItsOwn`, with `FreeQueueUnique` and `OwnedOnce`. `LeaseInv` needs that all clients are guards or all name their slot (`OneKind`), as `OdbcConnPool_counted` refutes it for both at once:

* `Counted`: the counts are exact, and with guards only a slot has one of them, which is why the roll-back may store zero;
* `ReadersSafe`: what a client has read is in its slot, or was replaced there and is kept because the count is not zero, or has been deleted by force after a wait that timed out (`Forced`);
* `Offered`: a connected slot nobody refers to is in the queue or in somebody's hands. A client that gives a slot back without queueing it has read a broken connection; if the slot is connected all
  the same it was replaced (`BrokenReplaced`), so the worker that replaced it will queue it, or has timed out.

From it: `LeasesHoldOfOneKind`, `NothingLostOfOneKind` (whose `NoneAbandoned` holds because the counts are exact and zero when the clients have left), of the pools whose managers start again and of those whose do not. The steps that do not matter to a conjunct are treated at once (`Aside`, `WorkersStill`, `RefsStill`, `OffersStill`).

The same module's second part is about `RedisClient`, for every finite sets of workers and users and any number of commands, connections, waiting commands and parts. A thread's frames are counted as in the
sessions (`At`), and `RedisInv` says

* `CommandsOnce`: of each command, the entries in the pool's queue, the client's pending callback, the frames that will call or register it (`With`) and its answer are together one once it is issued, and none before;
* `SelectsFresh`: nobody has the SELECT of a connection that is not yet opened or not yet registered; that one thread at a time registers follows from the next;
* `OneConnection`: the free and broken entries, the client with a user's command and the frames that lend, return or reopen the connection are together one.

A step either concerns neither (`Unconcerned`), hands a command between client and thread (`Passed`), moves the connection only (`Moved`), or is shown by itself: the callback is called for the first time because
`CommandsOnce` leaves no room for an answer beside the frame that calls it. From it: `CalledOnceAlways`, `ConnectionInOnePlaceAlways`.

Whose reply a command gets rests on which request is posted for what. `ReplyInv` says, beside `RedisInv`,

* `IoOK`: the I/O count is what is posted plus the workers that have still to give theirs back (`Uncounting`); a worker's frames of a completion stand on that one (`StacksIn`); one receive is posted, about to be
  posted, or about to be registered; all that is posted is of the connection opened last, and who will drain for it as counted I/O finds the socket closed;
* `SendOK`: one send is posted, with what is left of the command being sent;
* `MatchOK`: at most one reply is expected, be it unsent, on the server, received or still to be sent for, and it is that of the command that has the callback; none is, on an open connection without one;
* `NoForeign`: nobody has been, or is about to be, told another's reply.

The last three hold unless `strayed`. They need `IoOK` because the connection is opened only at a count of zero: then no worker is inside a completion (`NoCompletion`), so nothing received, posted or drained for the last connection
reaches the new one. The one path that is not counted is the `Disconnect(SendFailed)` of section 4, and the proof is what showed that the exception has to be taken at its drain, not at its exchange. From it: `ReplyInductive`, `OwnReplyAlways`.

`HttpConnPool_proofs`, for every set of requests, of links and of threads (nothing is counted, so none need be finite). `HttpInv` treats a request and a session as things somebody has:

* `RequestsOnce`: a request is with one thread that has still to send, queue or answer it (`Carries`), or awaited by one session, or once in the queue, and nowhere else; its callback
  has been called once exactly when it is in none of the three;
* `SessionsOnce`: a session is with one thread that is about to use it or to give it back (`Has`), or once in the idle list, or awaits a response to what was sent (`Awaits`), or is not yet up; no two of these;
* `SendersOK`: `m_sendInProgress` is set exactly while a thread is in the send; a session that still awaits has the request its sender sends, and it awaits only until it has been told of its end;
* `ThreadsOK`, `LinksOK`: where a thread may be and with what, which sessions are in the list of the connected;
* `ClosingOK`: what `Close()` has left behind: no queue, no session that workers would still have to serve.

`AnsweredOnce` needs both halves: a session's end answers its request only because no thread has the session at that time, and a response is not taken by the sender's failure path because of `SendersOK`.
From it: `HttpInductive`, `AnsweredOnceAlways`, `OneRequestPerSessionAlways`.

The proofs use only the modules' named assumptions on constants: sets of threads that are counted are finite, which threads are, disjoint where two roles share a
program counter, and not empty where the code makes at least one (the workers of `RioCore` and of `AsyncSrv`).

All else is model-checked only. Outside the prover's reach, and left to TLC throughout: liveness and `ENABLED` (`CloseIsNotified`, `EveryJobRuns` and the like), induction over data (what a recursive definition
computes), and `RECURSIVE` operators. Every invariant the passing runs check is stated by a theorem. `NobodySleepsForGood` is proved where it holds; three of the four classes lose wake-ups on x86. The type
invariants that are in no run's list hold in the runs' instances, and the proved ones are restated, as strong as the proofs need, in the proof modules.

## 6. Plan

1. Several Redis connections with `Clear()` and generations, the subscriber; memory pools; liveness of the HTTP pool.
2. `TimerHeap`, `CRecvBuffer` and `CRingBuffer` as pure operators checked against reference definitions.

## 7. Not modelled

`PROJECT.json` names every part. The map covers the lines of the concurrent core; most of the repository's lines are SQL, driver and schema code,
parsers, text, file, image, cryptography and system utilities, generated COM wrappers and test programs: straight-line code without state that several actors share or that
outlives a call, where a TLA+ definition would repeat the source. Teaching data structures and byte-level parsers are sequential; clustered maps hold one lock
per call. `CThreadManager` and the lock profiler, the MySQL and ADO pools (twins of the ODBC pool), `SetReconnectConfig` and a second `Init()` are left out. That a request of the HTTP pool is answered in the end is not checked: it needs that the peer answers, that time passes and that sockets can be made.
