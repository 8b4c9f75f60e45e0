------------------------------ MODULE AsyncSrv ------------------------------
(* COdbcAsyncSrv with the helpers that push to it (UtilCore/DB): workers     *)
(* take requests from one queue a chunk at a time, a request that times out  *)
(* is queued once more, and the destructor stops and joins the workers       *)
(* before it looks at what is left.  CMySQLAsyncSrv and CAdoAsyncSrv do the  *)
(* same.  A region under _mutex is one step, a notification another.         *)
EXTENDS Integers, FiniteSets, SequencesExt

CONSTANTS
    Feeders,      \* threads that push; the one request of each has its name
    Blocking,     \* those of them that use PushDBAsyncRequestBlocking()
    Servers,      \* the worker threads
    Destroyer,    \* the thread that destroys the service
    MaxQueries,   \* maxQueueCapacity
    Chunk,        \* requests a worker takes at a time (64)
    NoQuery

ASSUME AsyncSrvConstants ==
    /\ Blocking \subseteq Feeders /\ Feeders \intersect Servers = {}
    /\ Destroyer \notin Feeders \union Servers /\ NoQuery \notin Feeders
    /\ MaxQueries \in Nat \ {0} /\ Chunk \in Nat \ {0}

(* InitOdbc() makes a worker for each core if it is not told how many.       *)
ASSUME AsyncSrvThreads == IsFiniteSet(Feeders) /\ IsFiniteSet(Servers) /\ Servers # {}

VARIABLES
    queries,      \* _queueDBAsyncRq
    localQueue,   \* of each worker
    query,        \* of each worker: the request it has in its hands
    stopThread,   \* _bStopThread
    outstanding,  \* _nOutstandingRequests
    hungry,       \* threads asleep on _cva
    crowded,      \* threads asleep on _cvProducer
    spot,        \* of each thread: where it is
    retried,      \* requests with bReTry
    fate          \* history: none, refused, served, dropped

asyncVars == <<queries, localQueue, query, stopThread, outstanding, hungry, crowded, spot, retried, fate>>

AsyncInit ==
    /\ queries = <<>>
    /\ localQueue = [w \in Servers |-> <<>>]
    /\ query = [w \in Servers |-> NoQuery]
    /\ stopThread = FALSE /\ outstanding = 0
    /\ hungry = {} /\ crowded = {}
    /\ spot = [t \in Feeders \union Servers \union {Destroyer} |->
                  IF t \in Servers THEN "pop" ELSE "begin"]
    /\ retried = {}
    /\ fate = [r \in Feeders |-> "none"]

MovesTo(t, p) == spot' = [spot EXCEPT ![t] = p]

-----------------------------------------------------------------------------
(* A request pushed with no wait is refused by a full queue; the other kind  *)
(* sleeps in WaitPushCapacity().  Room that was found is not kept: several   *)
(* may find it before the first pushes.                                      *)
HasRoom == Len(queries) < MaxQueries

FindsRoom(f) ==
    /\ spot[f] = "begin"
    /\ HasRoom \/ (f \in Blocking /\ stopThread)
    /\ MovesTo(f, "push")
    /\ outstanding' = outstanding + 1
    /\ UNCHANGED <<queries, localQueue, query, stopThread, hungry, crowded, retried, fate>>

RefusedFull(f) ==
    /\ spot[f] = "begin" /\ f \notin Blocking /\ ~HasRoom
    /\ MovesTo(f, "end")
    /\ fate' = [fate EXCEPT ![f] = "refused"]
    /\ UNCHANGED <<queries, localQueue, query, stopThread, outstanding, hungry, crowded, retried>>

WaitPushCapacity(f) ==
    /\ spot[f] = "begin" /\ f \in Blocking /\ ~HasRoom /\ ~stopThread
    /\ crowded' = crowded \union {f}
    /\ MovesTo(f, "asleep")
    /\ UNCHANGED <<queries, localQueue, query, stopThread, outstanding, hungry, retried, fate>>

(* Push(), of a new request and of one that timed out.                       *)
PushNew(f) ==
    /\ spot[f] = "push"
    /\ IF stopThread
       THEN MovesTo(f, "undo") /\ UNCHANGED queries
       ELSE MovesTo(f, "notify") /\ queries' = Append(queries, f)
    /\ UNCHANGED <<localQueue, query, stopThread, outstanding, hungry, crowded, retried, fate>>

RefusedStopped(f) ==
    /\ spot[f] = "undo"
    /\ outstanding' = outstanding - 1
    /\ fate' = [fate EXCEPT ![f] = "refused"]
    /\ MovesTo(f, "end")
    /\ UNCHANGED <<queries, localQueue, query, stopThread, hungry, crowded, retried>>

(* notify_one(): a worker that is woken tests again.                         *)
NotifyServer(t) ==
    /\ spot[t] = "notify"
    /\ \E woken \in IF hungry = {} THEN {{}} ELSE {{w} : w \in hungry} :
         /\ hungry' = hungry \ woken
         /\ spot' = [u \in DOMAIN spot |->
                        IF u \in woken \union (Servers \intersect {t}) THEN "pop"
                        ELSE IF u = t THEN "end" ELSE spot[u]]
    /\ UNCHANGED <<queries, localQueue, query, stopThread, outstanding, crowded, retried, fate>>

-----------------------------------------------------------------------------
(* Pop(): first what the worker has of its own.                              *)
PopLocal(w) ==
    /\ spot[w] = "pop" /\ localQueue[w] # <<>>
    /\ query' = [query EXCEPT ![w] = Head(localQueue[w])]
    /\ localQueue' = [localQueue EXCEPT ![w] = Tail(@)]
    /\ MovesTo(w, "handle")
    /\ UNCHANGED <<queries, stopThread, outstanding, hungry, crowded, retried, fate>>

PopSleeps(w) ==
    /\ spot[w] = "pop" /\ localQueue[w] = <<>> /\ queries = <<>> /\ ~stopThread
    /\ hungry' = hungry \union {w}
    /\ MovesTo(w, "asleep")
    /\ UNCHANGED <<queries, localQueue, query, stopThread, outstanding, crowded, retried, fate>>

(* Mutant: a stopped worker leaves what is still queued.                     *)
PopStops(w) ==
    /\ spot[w] = "pop" /\ stopThread
    /\ MovesTo(w, "exited")
    /\ UNCHANGED <<queries, localQueue, query, stopThread, outstanding, hungry, crowded, retried, fate>>

PopNothing(w) ==
    /\ spot[w] = "pop" /\ localQueue[w] = <<>> /\ queries = <<>> /\ stopThread
    /\ MovesTo(w, "exited")
    /\ UNCHANGED <<queries, localQueue, query, stopThread, outstanding, hungry, crowded, retried, fate>>

SwapChunk(w) ==
    /\ spot[w] = "pop" /\ localQueue[w] = <<>> /\ queries # <<>>
    /\ LET n == IF Len(queries) < Chunk THEN Len(queries) ELSE Chunk
       IN /\ localQueue' = [localQueue EXCEPT ![w] = SubSeq(queries, 1, n)]
          /\ queries' = SubSeq(queries, n + 1, Len(queries))
    /\ MovesTo(w, "room")
    /\ UNCHANGED <<query, stopThread, outstanding, hungry, crowded, retried, fate>>

NotifyFeeders(w) ==
    /\ spot[w] = "room"
    /\ crowded' = {}
    /\ spot' = [u \in DOMAIN spot |->
                   IF u \in crowded THEN "begin" ELSE IF u = w THEN "pop" ELSE spot[u]]
    /\ UNCHANGED <<queries, localQueue, query, stopThread, outstanding, hungry, retried, fate>>

(* Action(): a request is over once it has been handled, well or badly, or   *)
(* nobody handles its kind; its first time-out has it pushed again.          *)
Over(w, as) ==
    /\ fate' = [fate EXCEPT ![query[w]] = as]
    /\ outstanding' = outstanding - 1
    /\ query' = [query EXCEPT ![w] = NoQuery]
    /\ MovesTo(w, "pop")

Handled(w) ==
    /\ spot[w] = "handle" /\ Over(w, "served")
    /\ UNCHANGED <<queries, localQueue, stopThread, hungry, crowded, retried>>

HandlerTimedOut(w) ==
    /\ spot[w] = "handle" /\ query[w] \notin retried
    /\ retried' = retried \union {query[w]}
    /\ MovesTo(w, "retry")
    /\ UNCHANGED <<queries, localQueue, query, stopThread, outstanding, hungry, crowded, fate>>

PushRetry(w) ==
    /\ spot[w] = "retry" /\ ~stopThread
    /\ queries' = Append(queries, query[w])
    /\ query' = [query EXCEPT ![w] = NoQuery]
    /\ MovesTo(w, "notify")
    /\ UNCHANGED <<localQueue, stopThread, outstanding, hungry, crowded, retried, fate>>

RetryDropped(w) ==
    /\ spot[w] = "retry" /\ stopThread /\ Over(w, "dropped")
    /\ UNCHANGED <<queries, localQueue, stopThread, hungry, crowded, retried>>

-----------------------------------------------------------------------------
(* The destructor: Stop(), Join(), FlushRemainingTasks().                    *)
Stop ==
    /\ spot[Destroyer] = "begin" /\ stopThread' = TRUE
    /\ MovesTo(Destroyer, "wake")
    /\ UNCHANGED <<queries, localQueue, query, outstanding, hungry, crowded, retried, fate>>

WakeAll ==
    /\ spot[Destroyer] = "wake"
    /\ hungry' = {} /\ crowded' = {}
    /\ spot' = [u \in DOMAIN spot |->
                   IF u \in hungry THEN "pop" ELSE IF u \in crowded THEN "begin"
                   ELSE IF u = Destroyer THEN "join" ELSE spot[u]]
    /\ UNCHANGED <<queries, localQueue, query, stopThread, outstanding, retried, fate>>

Join ==
    /\ spot[Destroyer] = "join" /\ \A w \in Servers : spot[w] = "exited"
    /\ MovesTo(Destroyer, "flush")
    /\ UNCHANGED <<queries, localQueue, query, stopThread, outstanding, hungry, crowded, retried, fate>>

FlushRemainingTasks ==
    /\ spot[Destroyer] = "flush"
    /\ queries' = <<>>
    /\ fate' = [r \in Feeders |-> IF r \in ToSet(queries) THEN "served" ELSE fate[r]]
    /\ outstanding' = outstanding - Len(queries)
    /\ MovesTo(Destroyer, "end")
    /\ UNCHANGED <<localQueue, query, stopThread, hungry, crowded, retried>>

AsyncNext ==
    \/ \E f \in Feeders :
         \/ FindsRoom(f) \/ RefusedFull(f) \/ WaitPushCapacity(f) \/ PushNew(f) \/ RefusedStopped(f)
    \/ \E w \in Servers :
         \/ PopLocal(w) \/ PopSleeps(w) \/ PopNothing(w) \/ SwapChunk(w) \/ NotifyFeeders(w)
         \/ Handled(w) \/ HandlerTimedOut(w) \/ PushRetry(w) \/ RetryDropped(w)
    \/ \E t \in Feeders \union Servers : NotifyServer(t)
    \/ Stop \/ WakeAll \/ Join \/ FlushRemainingTasks

AsyncSpec == AsyncInit /\ [][AsyncNext]_asyncVars

-----------------------------------------------------------------------------
InChunks(r) ==
    {p \in Servers \X (1..Chunk) : p[2] <= Len(localQueue[p[1]]) /\ localQueue[p[1]][p[2]] = r}
Inside(r) ==
    Cardinality({i \in DOMAIN queries : queries[i] = r}) + Cardinality(InChunks(r))
    + Cardinality({w \in Servers : query[w] = r})

(* An accepted request is handled once, twice if it times out, and nothing   *)
(* is lost between the shared queue, the chunks the workers hold and the     *)
(* retries when the service stops: the counter of outstanding requests is    *)
(* what is inside, the workers leave nothing to the flush, and nobody is     *)
(* left asleep who has work, or room, with no one awake who sees to it.      *)
AcceptedIsServed ==
    /\ \A r \in Feeders :
         Inside(r) = IF fate[r] = "none" /\ spot[r] \in {"notify", "end"} THEN 1 ELSE 0
    /\ outstanding = Cardinality({r \in Feeders : Inside(r) = 1 \/ spot[r] \in {"push", "undo"}})
    /\ spot[Destroyer] \in {"flush", "end"} => \A r \in Feeders : Inside(r) = 0
    /\ hungry # {} /\ (queries # <<>> \/ stopThread) =>
         \/ spot[Destroyer] = "wake"
         \/ \E t \in Feeders \union Servers : spot[t] \in {"notify", "pop", "room", "handle", "retry"}
    /\ crowded # {} /\ (HasRoom \/ stopThread) =>
         spot[Destroyer] = "wake" \/ \E w \in Servers : spot[w] = "room"
=============================================================================
