---------------------------- MODULE Pools_proofs ----------------------------
(* Proofs about OdbcConnPool and RedisClient.                                *)
(*                                                                           *)
(* In OdbcConnPool the slots, the free queue and the owners of the           *)
(* connections are right whoever the clients are (PoolInv).  The counts, and *)
(* what rests on them, are right when all clients are of one kind            *)
(* (LeaseInv): guards and GetOdbcConn() on the same slot break the count,    *)
(* see the run OdbcConnPool_counted.                                         *)
(*                                                                           *)
(* Each conjunct has its step.  Where few actions matter to it the others    *)
(* are of one sort - Aside, WorkersStill, RefsStill, OffersStill - and are   *)
(* treated at once.                                                          *)
(*                                                                           *)
(* Then RedisClient: a command, and the connection of the pool, are in one   *)
(* place, counted (RedisInv); a step moves them from place to place.         *)
(* Last, whose reply a command gets: what is posted and counted, and that    *)
(* one reply at a time is expected (ReplyInv).                               *)
EXTENDS OdbcConnPool, RedisClient, CallStacks, FiniteSetTheorems, TLAPS

Labels == ClientLabels \union WorkerLabels \union LoopLabels \union {"off", "ended"}

(* A thread at one of these labels has no slot in hand.                      *)
Resting == {"idle", "PopFront", "Wait", "Sleep", "Asleep", "DelayedWait", "HealthWait", "off", "ended"}
(* Labels of an OdbcConnGuard only.                                          *)
PopLabels == {"PopFront", "PopUnflag", "PopCas", "PopLoad", "PopCheck", "PopUndo", "GuardLoad"}
(* The client's reference is in the count of its slot; it has read the       *)
(* connection of the slot.                                                   *)
Refers(c) == pc[c] \in {"PopLoad", "PopCheck", "PopUndo", "GuardLoad", "use", "GetLoad", "GetCheck",
                        "GetUndo", "ReleaseCheck", "ReleaseSub"}
Reads(c) == Refers(c) /\ pc[c] \notin {"PopLoad", "GetLoad"}
(* Who puts slots into the free queue.                                       *)
Putters == Clients \union Workers
Live(k) == status[k] \in {"open", "broken"}
(* The flag of the thread's slot is up and the slot not in the free queue.   *)
Enqueues(t) == pc[t] \in {"EnqueuePush", "PopUnflag"}
Queued(s) == \E i \in DOMAIN freeQueue : freeQueue[i] = s

(* Where each kind of thread can be; outside Resting it has a slot.          *)
ClientsOK == \A c \in Clients : pc[c] \in ClientLabels /\ (pc[c] \in PopLabels => c \in Borrowers)
WorkersOK == \A w \in Workers : pc[w] \in WorkerLabels \union {"off", "ended"}
LoopsOK ==
    /\ pc["delayed"] \in LoopLabels \union {"off", "ended"}
    /\ pc["health"] \in LoopLabels \union {"off", "ended"}
PlacesOK == \A t \in Threads : pc[t] \notin Resting => slot[t] \in Slots

ThreadsOK == ClientsOK /\ WorkersOK /\ LoopsOK /\ PlacesOK

(* Clients run only in a pool in use, workers only between Init() and        *)
(* Clear(); until then no connection exists, and meanwhile each slot has one.*)
Phases ==
    /\ phase # "run" => \A c \in Clients : pc[c] = "idle"
    /\ phase \in {"new", "closed"} => \A w \in Workers : pc[w] \in {"off", "ended"}
    /\ phase = "new" => \A k \in Conns : status[k] = "fresh"
    /\ phase \notin {"new", "closed"} => \A s \in Slots : conn[s] # NoConn

OneReferrer == \A c, d \in Clients : Refers(c) /\ Refers(d) /\ slot[c] = slot[d] => c = d

(* The counts are exact, and a guard has its slot for itself: PopUndo may    *)
(* then store zero.                                                          *)
Counted ==
    /\ RefCounted
    /\ Namers = {} => OneReferrer

(* A slot is in the free queue once or with one thread, and the flag is up.  *)
FreeOnce ==
    /\ \A i, j \in DOMAIN freeQueue : freeQueue[i] = freeQueue[j] => i = j
    /\ \A t, u \in Putters : Enqueues(t) /\ Enqueues(u) /\ slot[t] = slot[u] => t = u
    /\ \A t \in Putters : Enqueues(t) => ~Queued(slot[t])
    /\ \A s \in Slots : inFree[s] <=> Queued(s) \/ \E t \in Putters : Enqueues(t) /\ slot[t] = s

(* When a worker has a new and an old connection in hand.                    *)
WorkersHave ==
    /\ \A w \in Workers : made[w] # NoConn <=> pc[w] \in {"ApplyCheck", "Swap"}
    /\ \A w \in Workers : ptr[w] # NoConn <=> pc[w] \in {"AwaitUnused", "DeleteOld"}

(* What slots, workers and the quarantine have is not deleted, is not had    *)
(* twice, and is every connection there is.                                  *)
OwnersLive ==
    /\ \A s \in Slots : conn[s] # NoConn => Live(conn[s])
    /\ \A w \in Workers : made[w] # NoConn => Live(made[w])
    /\ \A w \in Workers : ptr[w] # NoConn => Live(ptr[w])
    /\ \A q \in quarantine : Live(q[1])

OwnersDiffer ==
    /\ \A s, r \in Slots : conn[s] = conn[r] => s = r \/ conn[s] = NoConn
    /\ \A w, v \in Workers : made[w] = made[v] => w = v \/ made[w] = NoConn
    /\ \A w, v \in Workers : ptr[w] = ptr[v] => w = v \/ ptr[w] = NoConn
    /\ \A q, r \in quarantine : q[1] = r[1] => q = r
    /\ \A s \in Slots, w \in Workers : conn[s] # NoConn => conn[s] # made[w] /\ conn[s] # ptr[w]
    /\ \A w, v \in Workers : made[w] # NoConn => made[w] # ptr[v]
    /\ \A q \in quarantine : /\ \A s \in Slots : q[1] # conn[s]
                             /\ \A w \in Workers : q[1] # made[w] /\ q[1] # ptr[w]

Owned(k) ==
    \/ \E s \in Slots : conn[s] = k
    \/ \E w \in Workers : made[w] = k \/ ptr[w] = k
    \/ \E q \in quarantine : q[1] = k

AllOwned == \A k \in Conns : Live(k) => Owned(k)

QuarantinedSlots == \A q \in quarantine : q[2] \in timedOut

OwnersOK == WorkersHave /\ OwnersLive /\ OwnersDiffer /\ AllOwned /\ QuarantinedSlots

(* The connection was replaced in the slot and not deleted yet.              *)
Replaced(k, s) ==
    \/ \E w \in Workers : pc[w] = "AwaitUnused" /\ slot[w] = s /\ ptr[w] = k
    \/ <<k, s>> \in quarantine

(* It stayed too long in the quarantine and was deleted in use.              *)
Forced(k, s) == status[k] = "forced" /\ s \in timedOut
Dead(k) == status[k] \in {"broken", "forced"}

(* What a client has read is in its slot, or was replaced and is kept, or was*)
(* deleted by force; a client that gives its reference back for good has read*)
(* one that is broken or deleted.                                            *)
ReadersSafe == \A c \in Clients : Reads(c) =>
    /\ ptr[c] # NoConn
    /\ conn[slot[c]] = ptr[c] \/ Replaced(ptr[c], slot[c]) \/ Forced(ptr[c], slot[c])
    /\ pc[c] \in {"PopUndo", "GetUndo"} => Dead(ptr[c])
    /\ pc[c] = "ReleaseSub" => ok[c] \/ Dead(ptr[c])

(* The thread that has the slot in hand will put it into the free queue, or  *)
(* has just taken it from there to refer to it.                              *)
OfferLabels == {"PopUnflag", "PopCas", "EnqueueFlag", "EnqueuePush", "AwaitUnused", "DeleteOld"}
Offers(t, s) == slot[t] = s /\ pc[t] \in OfferLabels

Offered ==
  \A s \in Slots \ timedOut :
    phase = "run" /\ Connected(conn[s]) /\ ref[s] = 0
    => Queued(s) \/ \E t \in Putters : Offers(t, s)

(* Only Clear() abandons connections.                                        *)
AbandonedLast == \A k \in Conns : status[k] = "abandoned" => phase = "closed"

PoolInv == TypeOK /\ ThreadsOK /\ Phases /\ FreeOnce /\ OwnersOK /\ AbandonedLast
LeaseInv == Counted /\ ReadersSafe /\ Offered /\ NoneAbandoned

(* The clients of the pool are of one kind.                                  *)
OneKind == Borrowers = {} \/ Namers = {}

-----------------------------------------------------------------------------

(* Clients, workers and the two loops are different threads.                 *)
LEMMA IsThread ==
  /\ Clients \subseteq Threads /\ Workers \subseteq Threads
  /\ "health" \in Threads /\ "delayed" \in Threads
  /\ \A c \in Clients, w \in Workers : c # w
  /\ \A t \in Clients \union Workers : t # "health" /\ t # "delayed"
  BY ThreadsAssumption DEF Threads, Clients, Background

(* A thread that does not rest has a slot.                                   *)
LEMMA SlotOf ==
  ASSUME ThreadsOK, NEW t \in Threads, pc[t] \notin Resting
  PROVE  slot[t] \in Slots
  BY IsThread DEF ThreadsOK, PlacesOK

(* A step of the delayed queue or of the health check's scan: no client and  *)
(* no worker moves, but a worker that is woken.                              *)
Aside ==
  /\ UNCHANGED <<conn, ref, inFree, freeQueue, quarantine, status, phase, timedOut>>
  /\ \A t \in Putters :
       /\ slot'[t] = slot[t] /\ ptr'[t] = ptr[t] /\ made'[t] = made[t] /\ ok'[t] = ok[t]
       /\ pc'[t] = pc[t] \/ (t \in Workers /\ pc[t] = "Asleep" /\ pc'[t] = "Wait")

(* No step of the loops but Purge reaches further.                           *)
LEMMA LoopsAside == ASSUME TypeOK, DelayedLoop \/ (HealthLoop /\ ~Purge) PROVE Aside
<1>1. pc \in [Threads -> Labels] /\ slot \in [Threads -> Slots \union {NoSlot}]
      /\ ptr \in [Threads -> Conns \union {NoConn}] /\ made \in [Threads -> Conns \union {NoConn}]
      /\ ok \in [Threads -> BOOLEAN]
  BY DEF TypeOK, Labels
<1>2. ASSUME NEW s \in Slots, Due(s) PROVE Aside
  BY <1>1, <1>2, IsThread DEF Aside, Putters, Goto, Leave, LoadConn, slotVars, queues, owner,
    locals, Due
<1>3. CASE DueLoad
  BY <1>1, <1>3, IsThread DEF Aside, Putters, Goto, Leave, LoadConn, slotVars, queues, owner,
    locals, DueLoad
<1>4. CASE DueRef
  BY <1>1, <1>4, IsThread DEF Aside, Putters, Goto, Leave, LoadConn, slotVars, queues, owner,
    locals, DueRef
<1>5. CASE DueCheck
  BY <1>1, <1>5, IsThread DEF Aside, Putters, Goto, Leave, LoadConn, slotVars, queues, owner,
    locals, DueCheck, Sees, Connected
<1>6. CASE DueEnqueue
  BY <1>1, <1>6, IsThread DEF Aside, Putters, Goto, Leave, LoadConn, slotVars, queues, owner,
    locals, DueEnqueue, EnqueueReconnect
<1>7. CASE DueDrop
  BY <1>1, <1>7, IsThread DEF Aside, Putters, Goto, Leave, LoadConn, slotVars, queues, owner,
    locals, DueDrop
<1>8. CASE DelayedEnd
  BY <1>1, <1>8, IsThread DEF Aside, Putters, Goto, Leave, LoadConn, slotVars, queues, owner,
    locals, DelayedEnd
<1>9. CASE ScanRef
  BY <1>1, <1>9, IsThread DEF Aside, Putters, Goto, Leave, LoadConn, slotVars, queues, owner,
    locals, ScanRef, HealthStopped, NextSlot
<1>10. CASE ScanLoad
  BY <1>1, <1>10, IsThread DEF Aside, Putters, Goto, Leave, LoadConn, slotVars, queues,
    owner, locals, ScanLoad
<1>11. CASE ScanCheck
  BY <1>1, <1>11, IsThread DEF Aside, Putters, Goto, Leave, LoadConn, slotVars, queues,
    owner, locals, ScanCheck, NextSlot, Sees, Connected
<1>12. CASE ScanMark
  BY <1>1, <1>12, IsThread DEF Aside, Putters, Goto, Leave, LoadConn, slotVars, queues,
    owner, locals, ScanMark, NextSlot
<1>13. CASE ScanFail
  BY <1>1, <1>13, IsThread DEF Aside, Putters, Goto, Leave, LoadConn, slotVars, queues,
    owner, locals, ScanFail
<1>14. CASE ScanEnqueue
  BY <1>1, <1>14, IsThread DEF Aside, Putters, Goto, Leave, LoadConn, slotVars, queues,
    owner, locals, ScanEnqueue, EnqueueReconnect
<1>15. CASE ScanUnmark
  BY <1>1, <1>15, IsThread DEF Aside, Putters, Goto, Leave, LoadConn, slotVars, queues,
    owner, locals, ScanUnmark, NextSlot
<1>16. CASE ScanNext
  BY <1>1, <1>16, IsThread DEF Aside, Putters, Goto, Leave, LoadConn, slotVars, queues,
    owner, locals, ScanNext, NextSlot
<1>. QED BY <1>2, <1>3, <1>4, <1>5, <1>6, <1>7, <1>8, <1>9, <1>10, <1>11, <1>12, <1>13,
  <1>14, <1>15, <1>16 DEF DelayedLoop, HealthLoop

-----------------------------------------------------------------------------

(* TypeOK, in parts.                                                         *)
SlotsTyped ==
  /\ conn \in [Slots -> Conns \union {NoConn}] /\ ref \in [Slots -> Int]
  /\ reconnecting \in [Slots -> BOOLEAN] /\ failing \in [Slots -> BOOLEAN]
  /\ inFree \in [Slots -> BOOLEAN] /\ timedOut \subseteq Slots

QueuesTyped ==
  /\ freeQueue \in Seq(Slots) /\ pending \in Seq(Slots)
  /\ delayed \in [Slots -> Nat] /\ quarantine \subseteq (Conns \X Slots)

OwnerTyped ==
  /\ status \in [Conns -> {"fresh", "open", "broken", "deleted", "forced", "abandoned"}]
  /\ phase \in {"new", "run", "stopHealth", "stopDelayed", "stopWorkers", "closed"}
  /\ shuttingDown \in [Managers -> BOOLEAN]
  /\ delayedStopped \in BOOLEAN /\ rearms \in BOOLEAN

LocalsTyped ==
  /\ slot \in [Threads -> Slots \union {NoSlot}]
  /\ ptr \in [Threads -> Conns \union {NoConn}] /\ made \in [Threads -> Conns \union {NoConn}]
  /\ ok \in [Threads -> BOOLEAN]

(* What is taken from a queue of slots.                                      *)
LEMMA HeadTail ==
  ASSUME NEW q \in Seq(Slots), q # <<>>
  PROVE  Head(q) \in Slots /\ Tail(q) \in Seq(Slots)
  OBVIOUS

(* The health check's next slot is a slot, or it rests.                      *)
LEMMA NextSlotTyped ==
  ASSUME LocalsTyped, slot["health"] \in Slots,
         locals' = locals \/ NextSlot \/ Leave("health", "HealthWait")
  PROVE  LocalsTyped'
<1>1. CASE locals' = locals
  BY <1>1 DEF LocalsTyped, locals
<1>2. CASE Leave("health", "HealthWait")
  BY <1>2 DEF LocalsTyped, Leave
<1>3. CASE slot["health"] < PoolSize /\ NextSlot
  <2>1. slot["health"] + 1 \in Slots
    BY <1>3, SizeAssumption DEF Slots
  <2>. QED BY <1>3, <2>1 DEF LocalsTyped, NextSlot
<1>. QED BY <1>1, <1>2, <1>3 DEF NextSlot

LEMMA NextSlotPlaced ==
  ASSUME pc \in [Threads -> Labels], slot \in [Threads -> Slots \union {NoSlot}],
         slot["health"] \in Slots,
         locals' = locals \/ NextSlot \/ Leave("health", "HealthWait")
  PROVE  pc'["health"] \notin Resting => slot'["health"] \in Slots
<1>1. CASE locals' = locals
  BY <1>1 DEF locals
<1>2. CASE Leave("health", "HealthWait")
  BY <1>2, IsThread DEF Leave, Goto, Resting
<1>3. CASE slot["health"] < PoolSize /\ NextSlot
  <2>1. slot["health"] + 1 \in Slots
    BY <1>3, SizeAssumption DEF Slots
  <2>. QED BY <1>3, <2>1, IsThread DEF NextSlot
<1>. QED BY <1>1, <1>2, <1>3 DEF NextSlot

(* Each part of TypeOK is kept.                                              *)
LEMMA SlotsTypedStep ==
  ASSUME TypeOK, ThreadsOK, Next
  PROVE  SlotsTyped'
<1>1. SlotsTyped
  BY DEF TypeOK, SlotsTyped
<1>2. ASSUME NEW c \in Clients, Borrow(c) \/ PopFront(c) \/ PopLoad(c) \/ PopCheck(c) \/
  GuardLoad(c) \/ GetLoad(c) \/ GetCheck(c) \/ ReleaseLoad(c) \/ ReleaseCheck(c)
      PROVE SlotsTyped'
  <2>1. slotVars' = slotVars /\ timedOut' = timedOut
    BY <1>2 DEF Borrow, PopFront, PopLoad, PopCheck, GuardLoad, GetLoad, GetCheck,
      ReleaseLoad, ReleaseCheck, Sees, Connected, LoadConn
  <2>. QED BY <1>1, <2>1 DEF SlotsTyped, slotVars
<1>3. ASSUME NEW t \in Clients \union Workers, EnqueuePush(t)
      PROVE SlotsTyped'
  <2>1. slotVars' = slotVars /\ timedOut' = timedOut
    BY <1>3 DEF EnqueuePush, Resume, LoadConn
  <2>. QED BY <1>1, <2>1 DEF SlotsTyped, slotVars
<1>4. ASSUME NEW w \in Workers, WorkerWait(w) \/ WorkerSleep(w) \/ CheckRef(w) \/
  Reconnect(w) \/ ApplyCheck(w) \/ AwaitUnused(w) \/ DeleteOld(w)
      PROVE SlotsTyped'
  <2>1. slotVars' = slotVars /\ timedOut' = timedOut
    BY <1>4 DEF WorkerWait, WorkerSleep, CheckRef, Reconnect, ApplyCheck, AwaitUnused,
      DeleteOld, Fresh, LoadConn
  <2>. QED BY <1>1, <2>1 DEF SlotsTyped, slotVars
<1>5. CASE Purge \/ StopHealth \/ StopDelayed \/ StopWorkers \/ DueLoad \/ DueRef \/ DueCheck
  \/ DueEnqueue \/ DelayedEnd \/ ScanRef \/ ScanLoad \/ ScanCheck
  <2>1. slotVars' = slotVars /\ timedOut' = timedOut
    BY <1>5 DEF Purge, StopHealth, StopDelayed, StopWorkers, DueLoad, DueRef, DueCheck,
      DueEnqueue, DelayedEnd, ScanRef, ScanLoad, ScanCheck, HealthStopped, JoinFlag,
      Managers, Ended, Sees, Connected, EnqueueReconnect, NextSlot, LoadConn
  <2>. QED BY <1>1, <2>1 DEF SlotsTyped, slotVars
<1>6. CASE ScanFail \/ ScanEnqueue \/ ScanNext
  <2>1. slotVars' = slotVars /\ timedOut' = timedOut
    BY <1>6 DEF ScanFail, ScanEnqueue, ScanNext, EnqueueReconnect, NextSlot, LoadConn
  <2>. QED BY <1>1, <2>1 DEF SlotsTyped, slotVars
<1>7. ASSUME NEW k \in Conns, Break(k)
      PROVE SlotsTyped'
  <2>1. slotVars' = slotVars /\ timedOut' = timedOut
    BY <1>7 DEF Break, LoadConn
  <2>. QED BY <1>1, <2>1 DEF SlotsTyped, slotVars
<1>8. ASSUME NEW s \in Slots, Due(s)
      PROVE SlotsTyped'
  <2>1. slotVars' = slotVars /\ timedOut' = timedOut
    BY <1>8 DEF Due, LoadConn
  <2>. QED BY <1>1, <2>1 DEF SlotsTyped, slotVars
<1>9. ASSUME NEW t \in Clients \union Workers, EnqueueFlag(t)
      PROVE SlotsTyped'
  <2>1. slot[t] \in Slots
    BY <1>9, SlotOf, IsThread DEF EnqueueFlag, Resting
  <2>. QED BY <1>1, <1>9, <2>1, IsThread DEF EnqueueFlag, Resume, SlotsTyped, slotVars,
    queues, owner, locals, Goto, Leave, LoadConn
<1>10. ASSUME NEW c \in Clients, PopUnflag(c)
      PROVE SlotsTyped'
  <2>1. slot[c] \in Slots
    BY <1>10, SlotOf, IsThread DEF PopUnflag, Resting
  <2>. QED BY <1>1, <1>10, <2>1, IsThread DEF PopUnflag, SlotsTyped, slotVars, queues, owner,
    locals, Goto, Leave, LoadConn
<1>11. ASSUME NEW c \in Clients, PopCas(c)
      PROVE SlotsTyped'
  <2>1. slot[c] \in Slots
    BY <1>11, SlotOf, IsThread DEF PopCas, Resting
  <2>. QED BY <1>1, <1>11, <2>1, IsThread DEF PopCas, SlotsTyped, slotVars, queues, owner,
    locals, Goto, Leave, LoadConn
<1>12. ASSUME NEW c \in Clients, PopUndo(c)
      PROVE SlotsTyped'
  <2>1. slot[c] \in Slots
    BY <1>12, SlotOf, IsThread DEF PopUndo, Resting
  <2>. QED BY <1>1, <1>12, <2>1, IsThread DEF PopUndo, SlotsTyped, slotVars, queues, owner,
    locals, Goto, Leave, LoadConn
<1>13. ASSUME NEW c \in Clients, NEW s \in Slots, GetOdbcConn(c, s)
      PROVE SlotsTyped'
  BY <1>1, <1>13, IsThread DEF GetOdbcConn, SlotsTyped, slotVars, queues, owner, locals,
    Goto, Leave, LoadConn
<1>14. ASSUME NEW c \in Clients, GetUndo(c)
      PROVE SlotsTyped'
  <2>1. slot[c] \in Slots
    BY <1>14, SlotOf, IsThread DEF GetUndo, Resting
  <2>. QED BY <1>1, <1>14, <2>1, IsThread DEF GetUndo, SlotsTyped, slotVars, queues, owner,
    locals, Goto, Leave, LoadConn
<1>15. ASSUME NEW c \in Clients, ReleaseSub(c)
      PROVE SlotsTyped'
  <2>1. slot[c] \in Slots
    BY <1>15, SlotOf, IsThread DEF ReleaseSub, Resting
  <2>. QED BY <1>1, <1>15, <2>1, IsThread DEF ReleaseSub, SlotsTyped, slotVars, queues,
    owner, locals, Goto, Leave, LoadConn
<1>16. ASSUME NEW w \in Workers, Retry(w)
      PROVE SlotsTyped'
  <2>1. slot[w] \in Slots
    BY <1>16, SlotOf, IsThread DEF Retry, Resting
  <2>. QED BY <1>1, <1>16, <2>1, IsThread DEF Retry, SlotsTyped, slotVars, queues, owner,
    locals, Goto, Leave, LoadConn
<1>17. ASSUME NEW w \in Workers, Unmark(w)
      PROVE SlotsTyped'
  <2>1. slot[w] \in Slots
    BY <1>17, SlotOf, IsThread DEF Unmark, Resting
  <2>. QED BY <1>1, <1>17, <2>1, IsThread DEF Unmark, SlotsTyped, slotVars, queues, owner,
    locals, Goto, Leave, LoadConn
<1>18. ASSUME NEW w \in Workers, Swap(w)
      PROVE SlotsTyped'
  <2>1. slot[w] \in Slots
    BY <1>18, SlotOf, IsThread DEF Swap, Resting
  <2>2. made[w] \in Conns \union {NoConn}
    BY IsThread DEF TypeOK
  <2>. QED BY <1>1, <1>18, <2>1, <2>2 DEF Swap, slotVars, SlotsTyped
<1>19. ASSUME NEW w \in Workers, AwaitTimeout(w)
      PROVE SlotsTyped'
  <2>1. slot[w] \in Slots
    BY <1>19, SlotOf, IsThread DEF AwaitTimeout, Resting
  <2>. QED BY <1>1, <1>19, <2>1, IsThread DEF AwaitTimeout, SlotsTyped, slotVars, queues,
    owner, locals, Goto, Leave, LoadConn
<1>20. ASSUME NEW w \in Workers, Succeed(w)
      PROVE SlotsTyped'
  <2>1. slot[w] \in Slots
    BY <1>20, SlotOf, IsThread DEF Succeed, Resting
  <2>. QED BY <1>1, <1>20, <2>1, IsThread DEF Succeed, SlotsTyped, slotVars, queues, owner,
    locals, Goto, Leave, LoadConn
<1>21. CASE DueDrop
  <2>1. slot["delayed"] \in Slots
    BY <1>21, SlotOf, IsThread DEF DueDrop, Resting
  <2>. QED BY <1>1, <1>21, <2>1, IsThread DEF DueDrop, SlotsTyped, slotVars, queues, owner,
    locals, Goto, Leave, LoadConn
<1>22. CASE ScanMark
  <2>1. slot["health"] \in Slots
    BY <1>22, SlotOf, IsThread DEF ScanMark, Resting
  <2>. QED BY <1>1, <1>22, <2>1, IsThread DEF ScanMark, NextSlot, SlotsTyped, slotVars,
    queues, owner, locals, Goto, Leave, LoadConn
<1>23. CASE ScanUnmark
  <2>1. slot["health"] \in Slots
    BY <1>23, SlotOf, IsThread DEF ScanUnmark, Resting
  <2>. QED BY <1>1, <1>23, <2>1, IsThread DEF ScanUnmark, NextSlot, SlotsTyped, slotVars,
    queues, owner, locals, Goto, Leave, LoadConn
<1>24. CASE InitPool
  <2>1. Slots \subseteq Conns
    BY SizeAssumption DEF Slots, Conns
  <2>2. /\ conn' = [s \in Slots |-> s] \/ conn' = conn
        /\ inFree' = [s \in Slots |-> TRUE] \/ inFree' = inFree
    BY <1>24 DEF InitPool
  <2>3. UNCHANGED <<ref, reconnecting, failing, timedOut>>
    BY <1>24 DEF InitPool
  <2>. QED BY <1>1, <2>1, <2>2, <2>3 DEF SlotsTyped
<1>25. CASE Clear
  BY <1>1, <1>25, IsThread DEF Clear, JoinFlag, Managers, Ended, SlotsTyped, slotVars,
    queues, owner, locals, Goto, Leave, LoadConn
<1>. QED BY <1>2, <1>3, <1>4, <1>5, <1>6, <1>7, <1>8, <1>9, <1>10, <1>11, <1>12, <1>13,
  <1>14, <1>15, <1>16, <1>17, <1>18, <1>19, <1>20, <1>21, <1>22, <1>23, <1>24, <1>25 DEF
  Next, Client, Worker, DelayedLoop, HealthLoop

LEMMA QueuesTypedStep ==
  ASSUME TypeOK, ThreadsOK, WorkersHave, Next
  PROVE  QueuesTyped'
<1>1. QueuesTyped
  BY DEF TypeOK, QueuesTyped
<1>2. ASSUME NEW c \in Clients, Borrow(c) \/ PopUnflag(c) \/ PopCas(c) \/ PopLoad(c) \/
  PopCheck(c) \/ PopUndo(c) \/ GuardLoad(c) \/ GetLoad(c) \/ GetCheck(c) \/ GetUndo(c) \/
  ReleaseLoad(c) \/ ReleaseCheck(c)
      PROVE QueuesTyped'
  <2>1. queues' = queues
    BY <1>2 DEF Borrow, PopUnflag, PopCas, PopLoad, PopCheck, PopUndo, GuardLoad, GetLoad,
      GetCheck, GetUndo, ReleaseLoad, ReleaseCheck, Sees, Connected, LoadConn
  <2>. QED BY <1>1, <2>1 DEF QueuesTyped, queues
<1>3. ASSUME NEW c \in Clients, ReleaseSub(c)
      PROVE QueuesTyped'
  <2>1. queues' = queues
    BY <1>3 DEF ReleaseSub, LoadConn
  <2>. QED BY <1>1, <2>1 DEF QueuesTyped, queues
<1>4. ASSUME NEW c \in Clients, NEW s \in Slots, GetOdbcConn(c, s)
      PROVE QueuesTyped'
  <2>1. queues' = queues
    BY <1>4 DEF GetOdbcConn, LoadConn
  <2>. QED BY <1>1, <2>1 DEF QueuesTyped, queues
<1>5. ASSUME NEW t \in Clients \union Workers, EnqueueFlag(t)
      PROVE QueuesTyped'
  <2>1. queues' = queues
    BY <1>5 DEF EnqueueFlag, Resume, LoadConn
  <2>. QED BY <1>1, <2>1 DEF QueuesTyped, queues
<1>6. ASSUME NEW w \in Workers, WorkerSleep(w) \/ CheckRef(w) \/ Reconnect(w) \/ Unmark(w) \/
  ApplyCheck(w) \/ Swap(w) \/ AwaitUnused(w) \/ DeleteOld(w) \/ Succeed(w)
      PROVE QueuesTyped'
  <2>1. queues' = queues
    BY <1>6 DEF WorkerSleep, CheckRef, Reconnect, Unmark, ApplyCheck, Swap, AwaitUnused,
      DeleteOld, Succeed, Fresh, LoadConn
  <2>. QED BY <1>1, <2>1 DEF QueuesTyped, queues
<1>7. CASE StopHealth \/ StopDelayed \/ StopWorkers \/ DueLoad \/ DueRef \/ DueCheck \/
  DueDrop \/ DelayedEnd \/ ScanRef \/ ScanLoad \/ ScanCheck \/ ScanMark
  <2>1. queues' = queues
    BY <1>7 DEF StopHealth, StopDelayed, StopWorkers, DueLoad, DueRef, DueCheck, DueDrop,
      DelayedEnd, ScanRef, ScanLoad, ScanCheck, ScanMark, JoinFlag, Managers, Ended,
      Sees, Connected, HealthStopped, NextSlot, LoadConn
  <2>. QED BY <1>1, <2>1 DEF QueuesTyped, queues
<1>8. CASE ScanFail \/ ScanUnmark \/ ScanNext
  <2>1. queues' = queues
    BY <1>8 DEF ScanFail, ScanUnmark, ScanNext, NextSlot, LoadConn
  <2>. QED BY <1>1, <2>1 DEF QueuesTyped, queues
<1>9. ASSUME NEW k \in Conns, Break(k)
      PROVE QueuesTyped'
  <2>1. queues' = queues
    BY <1>9 DEF Break, LoadConn
  <2>. QED BY <1>1, <2>1 DEF QueuesTyped, queues
<1>10. ASSUME NEW t \in Clients \union Workers, EnqueuePush(t)
      PROVE QueuesTyped'
  <2>1. slot[t] \in Slots
    BY <1>10, SlotOf, IsThread DEF EnqueuePush, Resting
  <2>. QED BY <1>1, <1>10, <2>1, IsThread DEF EnqueuePush, Resume, QueuesTyped, slotVars,
    queues, owner, locals, Goto, Leave, LoadConn
<1>11. ASSUME NEW c \in Clients, PopFront(c)
      PROVE QueuesTyped'
  <2>1. UNCHANGED <<pending, delayed, quarantine>>
    BY <1>11 DEF PopFront
  <2>2. freeQueue' = freeQueue \/ (freeQueue # <<>> /\ freeQueue' = Tail(freeQueue))
    BY <1>11 DEF PopFront
  <2>. QED BY <1>1, <2>1, <2>2, HeadTail DEF QueuesTyped
<1>12. ASSUME NEW w \in Workers, WorkerWait(w)
      PROVE QueuesTyped'
  <2>1. UNCHANGED <<freeQueue, delayed, quarantine>>
    BY <1>12 DEF WorkerWait
  <2>2. pending' = pending \/ (pending # <<>> /\ pending' = Tail(pending))
    BY <1>12 DEF WorkerWait
  <2>. QED BY <1>1, <2>1, <2>2, HeadTail DEF QueuesTyped
<1>13. ASSUME NEW w \in Workers, Retry(w)
      PROVE QueuesTyped'
  <2>1. slot[w] \in Slots
    BY <1>13, SlotOf, IsThread DEF Retry, Resting
  <2>. QED BY <1>1, <1>13, <2>1, IsThread DEF Retry, QueuesTyped, slotVars, queues, owner,
    locals, Goto, Leave, LoadConn
<1>14. ASSUME NEW w \in Workers, AwaitTimeout(w)
      PROVE QueuesTyped'
  <2>1. slot[w] \in Slots
    BY <1>14, SlotOf, IsThread DEF AwaitTimeout, Resting
  <2>2. ptr[w] \in Conns
    BY <1>14, IsThread DEF TypeOK, WorkersHave, AwaitTimeout
  <2>. QED BY <1>1, <1>14, <2>1, <2>2 DEF AwaitTimeout, queues, QueuesTyped
<1>15. ASSUME NEW s \in Slots, Due(s)
      PROVE QueuesTyped'
  BY <1>1, <1>15, IsThread DEF Due, QueuesTyped, slotVars, queues, owner, locals, Goto,
    Leave, LoadConn
<1>16. CASE DueEnqueue
  <2>1. slot["delayed"] \in Slots
    BY <1>16, SlotOf, IsThread DEF DueEnqueue, Resting
  <2>. QED BY <1>1, <1>16, <2>1, IsThread DEF DueEnqueue, EnqueueReconnect, QueuesTyped,
    slotVars, queues, owner, locals, Goto, Leave, LoadConn
<1>17. CASE ScanEnqueue
  <2>1. slot["health"] \in Slots
    BY <1>17, SlotOf, IsThread DEF ScanEnqueue, Resting
  <2>. QED BY <1>1, <1>17, <2>1, IsThread DEF ScanEnqueue, EnqueueReconnect, QueuesTyped,
    slotVars, queues, owner, locals, Goto, Leave, LoadConn
<1>18. CASE Purge
  BY <1>1, <1>18, IsThread DEF Purge, HealthStopped, QueuesTyped, slotVars, queues, owner,
    locals, Goto, Leave, LoadConn
<1>19. CASE InitPool
  <2>1. freeQueue' = freeQueue \/ freeQueue' = [s \in Slots |-> s]
    BY <1>19 DEF InitPool
  <2>2. [s \in Slots |-> s] \in Seq(Slots)
    BY SizeAssumption DEF Slots
  <2>3. UNCHANGED <<pending, delayed, quarantine>>
    BY <1>19 DEF InitPool
  <2>. QED BY <1>1, <2>1, <2>2, <2>3 DEF QueuesTyped
<1>20. CASE Clear
  BY <1>1, <1>20, IsThread DEF Clear, JoinFlag, Managers, Ended, QueuesTyped, slotVars,
    queues, owner, locals, Goto, Leave, LoadConn
<1>. QED BY <1>2, <1>3, <1>4, <1>5, <1>6, <1>7, <1>8, <1>9, <1>10, <1>11, <1>12, <1>13,
  <1>14, <1>15, <1>16, <1>17, <1>18, <1>19, <1>20 DEF Next, Client, Worker, DelayedLoop,
  HealthLoop

LEMMA OwnerTypedStep ==
  ASSUME TypeOK, ThreadsOK, Next
  PROVE  OwnerTyped'
<1>1. OwnerTyped
  BY DEF TypeOK, OwnerTyped
<1>2. ASSUME NEW c \in Clients, Borrow(c) \/ PopFront(c) \/ PopUnflag(c) \/ PopCas(c) \/
  PopLoad(c) \/ PopCheck(c) \/ PopUndo(c) \/ GuardLoad(c) \/ GetLoad(c) \/ GetCheck(c) \/
  GetUndo(c) \/ ReleaseLoad(c)
      PROVE OwnerTyped'
  <2>1. status' = status /\ owner' = owner
    BY <1>2 DEF Borrow, PopFront, PopUnflag, PopCas, PopLoad, PopCheck, PopUndo, GuardLoad,
      GetLoad, GetCheck, GetUndo, ReleaseLoad, Sees, Connected, LoadConn
  <2>. QED BY <1>1, <2>1 DEF OwnerTyped, owner
<1>3. ASSUME NEW c \in Clients, ReleaseCheck(c) \/ ReleaseSub(c)
      PROVE OwnerTyped'
  <2>1. status' = status /\ owner' = owner
    BY <1>3 DEF ReleaseCheck, ReleaseSub, Sees, Connected, LoadConn
  <2>. QED BY <1>1, <2>1 DEF OwnerTyped, owner
<1>4. ASSUME NEW c \in Clients, NEW s \in Slots, GetOdbcConn(c, s)
      PROVE OwnerTyped'
  <2>1. status' = status /\ owner' = owner
    BY <1>4 DEF GetOdbcConn, LoadConn
  <2>. QED BY <1>1, <2>1 DEF OwnerTyped, owner
<1>5. ASSUME NEW t \in Clients \union Workers, EnqueueFlag(t) \/ EnqueuePush(t)
      PROVE OwnerTyped'
  <2>1. status' = status /\ owner' = owner
    BY <1>5 DEF EnqueueFlag, EnqueuePush, Resume, LoadConn
  <2>. QED BY <1>1, <2>1 DEF OwnerTyped, owner
<1>6. ASSUME NEW w \in Workers, WorkerWait(w) \/ WorkerSleep(w) \/ CheckRef(w) \/ Retry(w) \/
  Unmark(w) \/ Swap(w) \/ AwaitUnused(w) \/ AwaitTimeout(w) \/ Succeed(w)
      PROVE OwnerTyped'
  <2>1. status' = status /\ owner' = owner
    BY <1>6 DEF WorkerWait, WorkerSleep, CheckRef, Retry, Unmark, Swap, AwaitUnused,
      AwaitTimeout, Succeed, LoadConn
  <2>. QED BY <1>1, <2>1 DEF OwnerTyped, owner
<1>7. ASSUME NEW s \in Slots, Due(s)
      PROVE OwnerTyped'
  <2>1. status' = status /\ owner' = owner
    BY <1>7 DEF Due, LoadConn
  <2>. QED BY <1>1, <2>1 DEF OwnerTyped, owner
<1>8. CASE DueLoad \/ DueRef \/ DueCheck \/ DueEnqueue \/ DueDrop \/ DelayedEnd \/ ScanRef \/
  ScanLoad \/ ScanCheck \/ ScanMark \/ ScanFail \/ ScanEnqueue
  <2>1. status' = status /\ owner' = owner
    BY <1>8 DEF DueLoad, DueRef, DueCheck, DueEnqueue, DueDrop, DelayedEnd, ScanRef,
      ScanLoad, ScanCheck, ScanMark, ScanFail, ScanEnqueue, Sees, Connected,
      EnqueueReconnect, HealthStopped, NextSlot, LoadConn
  <2>. QED BY <1>1, <2>1 DEF OwnerTyped, owner
<1>9. CASE ScanUnmark \/ ScanNext
  <2>1. status' = status /\ owner' = owner
    BY <1>9 DEF ScanUnmark, ScanNext, NextSlot, LoadConn
  <2>. QED BY <1>1, <2>1 DEF OwnerTyped, owner
<1>10. ASSUME NEW w \in Workers, Reconnect(w)
      PROVE OwnerTyped'
  <2>1. \/ status' = status
        \/ \E k \in Conns : status' = [status EXCEPT ![k] = "open"]
    BY <1>10 DEF Reconnect
  <2>2. UNCHANGED owner
    BY <1>10 DEF Reconnect
  <2>. QED BY <1>1, <2>1, <2>2 DEF OwnerTyped, owner
<1>11. ASSUME NEW w \in Workers, ApplyCheck(w)
      PROVE OwnerTyped'
  <2>1. slot[w] \in Slots
    BY <1>11, SlotOf, IsThread DEF ApplyCheck, Resting
  <2>. QED BY <1>1, <1>11, <2>1, IsThread DEF ApplyCheck, OwnerTyped, slotVars, queues,
    owner, locals, Goto, Leave, LoadConn
<1>12. ASSUME NEW w \in Workers, DeleteOld(w)
      PROVE OwnerTyped'
  <2>1. slot[w] \in Slots
    BY <1>12, SlotOf, IsThread DEF DeleteOld, Resting
  <2>. QED BY <1>1, <1>12, <2>1, IsThread DEF DeleteOld, OwnerTyped, slotVars, queues, owner,
    locals, Goto, Leave, LoadConn
<1>13. CASE Purge
  <2>1. \/ status' = status
        \/ \A k \in Conns : status'[k] = status[k] \/ status'[k] \in {"deleted", "forced"}
    BY <1>13 DEF Purge
  <2>2. status' = status \/ status' = [k \in Conns |-> status'[k]]
    BY <1>13 DEF Purge
  <2>3. UNCHANGED owner
    BY <1>13 DEF Purge
  <2>. QED BY <1>1, <2>1, <2>2, <2>3 DEF OwnerTyped, owner
<1>14. CASE InitPool
  <2>1. status' = status \/ status' = [k \in Conns |-> IF k \in Slots THEN "open" ELSE "fresh"]
    BY <1>14 DEF InitPool
  <2>2. phase' \in {"run", "closed"} /\ delayedStopped' = ~rearms /\ rearms' = rearms
    BY <1>14 DEF InitPool
  <2>3. shuttingDown' = JoinFlag(JoinFlag(JoinFlag(shuttingDown, "health"), "delayed"), "workers")
    BY <1>14 DEF InitPool
  <2>4. \A f \in [Managers -> BOOLEAN] : \A m : JoinFlag(f, m) \in [Managers -> BOOLEAN]
    BY <1>1 DEF JoinFlag, OwnerTyped
  <2>. QED BY <1>1, <2>1, <2>2, <2>3, <2>4 DEF OwnerTyped
<1>15. CASE StopHealth
  BY <1>1, <1>15, IsThread DEF StopHealth, OwnerTyped, slotVars, queues, owner, locals, Goto,
    Leave, LoadConn
<1>16. CASE StopDelayed
  BY <1>1, <1>16, IsThread DEF StopDelayed, JoinFlag, Managers, Ended, OwnerTyped, slotVars,
    queues, owner, locals, Goto, Leave, LoadConn
<1>17. CASE StopWorkers
  BY <1>1, <1>17, IsThread DEF StopWorkers, JoinFlag, Managers, Ended, OwnerTyped, slotVars,
    queues, owner, locals, Goto, Leave, LoadConn
<1>18. CASE Clear
  BY <1>1, <1>18, IsThread DEF Clear, JoinFlag, Managers, Ended, OwnerTyped, slotVars,
    queues, owner, locals, Goto, Leave, LoadConn
<1>19. ASSUME NEW k \in Conns, Break(k)
      PROVE OwnerTyped'
  BY <1>1, <1>19, IsThread DEF Break, OwnerTyped, slotVars, queues, owner, locals, Goto,
    Leave, LoadConn
<1>. QED BY <1>2, <1>3, <1>4, <1>5, <1>6, <1>7, <1>8, <1>9, <1>10, <1>11, <1>12, <1>13,
  <1>14, <1>15, <1>16, <1>17, <1>18, <1>19 DEF Next, Client, Worker, DelayedLoop, HealthLoop

LEMMA PcTypedStep ==
  ASSUME TypeOK, ThreadsOK, Next
  PROVE  (pc \in [Threads -> Labels])'
<1>1. pc \in [Threads -> Labels]
  BY DEF TypeOK, Labels
<1>2. /\ ClientLabels \subseteq Labels /\ WorkerLabels \subseteq Labels
      /\ LoopLabels \subseteq Labels /\ {"off", "ended"} \subseteq Labels
  BY DEF Labels
<1>3. ASSUME NEW c \in Clients, Borrow(c) \/ PopFront(c) \/ PopUnflag(c)
      PROVE (pc \in [Threads -> Labels])'
  BY <1>1, <1>2, <1>3, IsThread DEF Borrow, PopFront, PopUnflag, ClientLabels, WorkerLabels,
    LoopLabels, Goto, Leave, LoadConn, slotVars, queues, owner, locals
<1>4. ASSUME NEW c \in Clients, PopCas(c) \/ PopLoad(c) \/ PopCheck(c)
      PROVE (pc \in [Threads -> Labels])'
  BY <1>1, <1>2, <1>4, IsThread DEF PopCas, PopLoad, PopCheck, Sees, Connected,
    ClientLabels, WorkerLabels, LoopLabels, Goto, Leave, LoadConn, slotVars, queues, owner,
    locals
<1>5. ASSUME NEW c \in Clients, PopUndo(c) \/ GuardLoad(c) \/ GetLoad(c)
      PROVE (pc \in [Threads -> Labels])'
  BY <1>1, <1>2, <1>5, IsThread DEF PopUndo, GuardLoad, GetLoad, ClientLabels, WorkerLabels,
    LoopLabels, Goto, Leave, LoadConn, slotVars, queues, owner, locals
<1>6. ASSUME NEW c \in Clients, GetCheck(c) \/ GetUndo(c) \/ ReleaseLoad(c)
      PROVE (pc \in [Threads -> Labels])'
  BY <1>1, <1>2, <1>6, IsThread DEF GetCheck, GetUndo, ReleaseLoad, Sees, Connected,
    ClientLabels, WorkerLabels, LoopLabels, Goto, Leave, LoadConn, slotVars, queues, owner,
    locals
<1>7. ASSUME NEW c \in Clients, ReleaseCheck(c) \/ ReleaseSub(c)
      PROVE (pc \in [Threads -> Labels])'
  BY <1>1, <1>2, <1>7, IsThread DEF ReleaseCheck, ReleaseSub, Sees, Connected,
    ClientLabels, WorkerLabels, LoopLabels, Goto, Leave, LoadConn, slotVars, queues, owner,
    locals
<1>8. ASSUME NEW c \in Clients, NEW s \in Slots, GetOdbcConn(c, s)
      PROVE (pc \in [Threads -> Labels])'
  BY <1>1, <1>2, <1>8, IsThread DEF GetOdbcConn, ClientLabels, WorkerLabels, LoopLabels,
    Goto, Leave, LoadConn, slotVars, queues, owner, locals
<1>9. ASSUME NEW t \in Clients \union Workers, EnqueueFlag(t) \/ EnqueuePush(t)
      PROVE (pc \in [Threads -> Labels])'
  BY <1>1, <1>2, <1>9, IsThread DEF EnqueueFlag, EnqueuePush, Resume, ClientLabels,
    WorkerLabels, LoopLabels, Goto, Leave, LoadConn, slotVars, queues, owner, locals
<1>10. ASSUME NEW w \in Workers, WorkerWait(w) \/ WorkerSleep(w) \/ CheckRef(w)
      PROVE (pc \in [Threads -> Labels])'
  BY <1>1, <1>2, <1>10, IsThread DEF WorkerWait, WorkerSleep, CheckRef, ClientLabels,
    WorkerLabels, LoopLabels, Goto, Leave, LoadConn, slotVars, queues, owner, locals
<1>11. ASSUME NEW w \in Workers, Reconnect(w) \/ Retry(w) \/ Unmark(w)
      PROVE (pc \in [Threads -> Labels])'
  BY <1>1, <1>2, <1>11, IsThread DEF Reconnect, Retry, Unmark, Fresh, ClientLabels,
    WorkerLabels, LoopLabels, Goto, Leave, LoadConn, slotVars, queues, owner, locals
<1>12. ASSUME NEW w \in Workers, ApplyCheck(w) \/ Swap(w) \/ AwaitUnused(w)
      PROVE (pc \in [Threads -> Labels])'
  BY <1>1, <1>2, <1>12, IsThread DEF ApplyCheck, Swap, AwaitUnused, ClientLabels,
    WorkerLabels, LoopLabels, Goto, Leave, LoadConn, slotVars, queues, owner, locals
<1>13. ASSUME NEW w \in Workers, AwaitTimeout(w) \/ DeleteOld(w) \/ Succeed(w)
      PROVE (pc \in [Threads -> Labels])'
  BY <1>1, <1>2, <1>13, IsThread DEF AwaitTimeout, DeleteOld, Succeed, ClientLabels,
    WorkerLabels, LoopLabels, Goto, Leave, LoadConn, slotVars, queues, owner, locals
<1>14. CASE Purge \/ StopHealth \/ StopDelayed
  BY <1>1, <1>2, <1>14, IsThread DEF Purge, StopHealth, StopDelayed, HealthStopped, JoinFlag,
    Managers, Ended, ClientLabels, WorkerLabels, LoopLabels, Goto, Leave, LoadConn, slotVars,
    queues, owner, locals
<1>15. CASE StopWorkers \/ Clear \/ DueLoad
  BY <1>1, <1>2, <1>15, IsThread DEF StopWorkers, Clear, DueLoad, JoinFlag, Managers, Ended,
    ClientLabels, WorkerLabels, LoopLabels, Goto, Leave, LoadConn, slotVars, queues, owner,
    locals
<1>16. CASE DueRef \/ DueCheck \/ DueEnqueue
  BY <1>1, <1>2, <1>16, IsThread DEF DueRef, DueCheck, DueEnqueue, Sees, Connected,
    EnqueueReconnect, ClientLabels, WorkerLabels, LoopLabels, Goto, Leave, LoadConn,
    slotVars, queues, owner, locals
<1>17. CASE DueDrop \/ DelayedEnd \/ ScanRef
  BY <1>1, <1>2, <1>17, IsThread DEF DueDrop, DelayedEnd, ScanRef, HealthStopped, NextSlot,
    ClientLabels, WorkerLabels, LoopLabels, Goto, Leave, LoadConn, slotVars, queues, owner,
    locals
<1>18. CASE ScanLoad \/ ScanCheck \/ ScanMark
  BY <1>1, <1>2, <1>18, IsThread DEF ScanLoad, ScanCheck, ScanMark, NextSlot, Sees,
    Connected, ClientLabels, WorkerLabels, LoopLabels, Goto, Leave, LoadConn, slotVars,
    queues, owner, locals
<1>19. CASE ScanFail \/ ScanEnqueue \/ ScanUnmark
  BY <1>1, <1>2, <1>19, IsThread DEF ScanFail, ScanEnqueue, ScanUnmark, EnqueueReconnect,
    NextSlot, ClientLabels, WorkerLabels, LoopLabels, Goto, Leave, LoadConn, slotVars,
    queues, owner, locals
<1>20. CASE ScanNext
  <2>1. slot["health"] \in Slots
    BY <1>20, SlotOf, IsThread DEF ScanNext, Resting
  <2>. QED BY <1>1, <1>2, <1>20, <2>1, IsThread DEF ScanNext, NextSlot, ClientLabels,
    WorkerLabels, LoopLabels, Goto, Leave, LoadConn, slotVars, queues, owner, locals
<1>21. ASSUME NEW k \in Conns, Break(k)
      PROVE (pc \in [Threads -> Labels])'
  BY <1>1, <1>2, <1>21, IsThread DEF Break, ClientLabels, WorkerLabels, LoopLabels, Goto,
    Leave, LoadConn, slotVars, queues, owner, locals
<1>22. ASSUME NEW s \in Slots, Due(s)
      PROVE (pc \in [Threads -> Labels])'
  BY <1>1, <1>2, <1>22, IsThread DEF Due, ClientLabels, WorkerLabels, LoopLabels, Goto,
    Leave, LoadConn, slotVars, queues, owner, locals
<1>23. CASE InitPool
  <2>1. \A t \in Background : FirstLabel(t) \in Labels
    BY <1>2 DEF FirstLabel, Background, WorkerLabels, LoopLabels
  <2>2. \/ pc' = pc
        \/ \E F : pc' = [t \in Threads |-> IF t \in Background /\ CreateThread(F, t)
                                           THEN FirstLabel(t) ELSE pc[t]]
    BY <1>23 DEF InitPool
  <2>. QED BY <1>1, <2>1, <2>2
<1>. QED BY <1>3, <1>4, <1>5, <1>6, <1>7, <1>8, <1>9, <1>10, <1>11, <1>12, <1>13, <1>14,
  <1>15, <1>16, <1>17, <1>18, <1>19, <1>20, <1>21, <1>22, <1>23 DEF Next, Client, Worker,
  DelayedLoop, HealthLoop

LEMMA LocalsTypedStep ==
  ASSUME TypeOK, ThreadsOK, Next
  PROVE  LocalsTyped'
<1>1. LocalsTyped
  BY DEF TypeOK, LocalsTyped
<1>2. /\ freeQueue \in Seq(Slots) /\ pending \in Seq(Slots)
      /\ conn \in [Slots -> Conns \union {NoConn}]
  BY DEF TypeOK
<1>3. ASSUME NEW c \in Clients, Borrow(c) \/ PopUnflag(c) \/ PopCheck(c) \/ GetCheck(c)
      PROVE LocalsTyped'
  <2>1. locals' = locals
    BY <1>3 DEF Borrow, PopUnflag, PopCheck, GetCheck, Sees, Connected, LoadConn
  <2>. QED BY <1>1, <2>1 DEF LocalsTyped, locals
<1>4. ASSUME NEW w \in Workers, WorkerSleep(w) \/ CheckRef(w) \/ Retry(w) \/ AwaitUnused(w)
  \/ Succeed(w)
      PROVE LocalsTyped'
  <2>1. locals' = locals
    BY <1>4 DEF WorkerSleep, CheckRef, Retry, AwaitUnused, Succeed, LoadConn
  <2>. QED BY <1>1, <2>1 DEF LocalsTyped, locals
<1>5. CASE StopHealth \/ StopDelayed \/ StopWorkers \/ Clear \/ DueRef \/ DueCheck \/
  DelayedEnd \/ ScanFail
  <2>1. locals' = locals
    BY <1>5 DEF StopHealth, StopDelayed, StopWorkers, Clear, DueRef, DueCheck, DelayedEnd,
      ScanFail, JoinFlag, Managers, Ended, Sees, Connected, LoadConn
  <2>. QED BY <1>1, <2>1 DEF LocalsTyped, locals
<1>6. ASSUME NEW k \in Conns, Break(k)
      PROVE LocalsTyped'
  <2>1. locals' = locals
    BY <1>6 DEF Break, LoadConn
  <2>. QED BY <1>1, <2>1 DEF LocalsTyped, locals
<1>7. ASSUME NEW c \in Clients, PopFront(c)
      PROVE LocalsTyped'
  <2>1. \/ Leave(c, "idle")
        \/ /\ freeQueue # <<>> /\ slot' = [slot EXCEPT ![c] = Head(freeQueue)]
           /\ UNCHANGED <<ptr, made, ok>>
    BY <1>7 DEF PopFront
  <2>. QED BY <1>1, <1>2, <2>1, HeadTail DEF LocalsTyped, Leave
<1>8. ASSUME NEW c \in Clients, PopCas(c)
      PROVE LocalsTyped'
  <2>1. slot[c] \in Slots
    BY <1>8, SlotOf, IsThread DEF PopCas, Resting
  <2>. QED BY <1>1, <1>2, <1>8, <2>1, IsThread DEF PopCas, LocalsTyped, slotVars, queues,
    owner, locals, Goto, Leave, LoadConn
<1>9. ASSUME NEW c \in Clients, PopLoad(c)
      PROVE LocalsTyped'
  <2>1. slot[c] \in Slots
    BY <1>9, SlotOf, IsThread DEF PopLoad, Resting
  <2>. QED BY <1>1, <1>2, <1>9, <2>1, IsThread DEF PopLoad, LocalsTyped, slotVars, queues,
    owner, locals, Goto, Leave, LoadConn
<1>10. ASSUME NEW c \in Clients, GuardLoad(c)
      PROVE LocalsTyped'
  <2>1. slot[c] \in Slots
    BY <1>10, SlotOf, IsThread DEF GuardLoad, Resting
  <2>. QED BY <1>1, <1>2, <1>10, <2>1, IsThread DEF GuardLoad, LocalsTyped, slotVars, queues,
    owner, locals, Goto, Leave, LoadConn
<1>11. ASSUME NEW c \in Clients, NEW s \in Slots, GetOdbcConn(c, s)
      PROVE LocalsTyped'
  BY <1>1, <1>2, <1>11, IsThread DEF GetOdbcConn, LocalsTyped, slotVars, queues, owner,
    locals, Goto, Leave, LoadConn
<1>12. ASSUME NEW c \in Clients, GetLoad(c)
      PROVE LocalsTyped'
  <2>1. slot[c] \in Slots
    BY <1>12, SlotOf, IsThread DEF GetLoad, Resting
  <2>. QED BY <1>1, <1>2, <1>12, <2>1, IsThread DEF GetLoad, LocalsTyped, slotVars, queues,
    owner, locals, Goto, Leave, LoadConn
<1>13. ASSUME NEW c \in Clients, ReleaseLoad(c)
      PROVE LocalsTyped'
  <2>1. slot[c] \in Slots
    BY <1>13, SlotOf, IsThread DEF ReleaseLoad, Resting
  <2>. QED BY <1>1, <1>2, <1>13, <2>1, IsThread DEF ReleaseLoad, LocalsTyped, slotVars,
    queues, owner, locals, Goto, Leave, LoadConn
<1>14. ASSUME NEW c \in Clients, ReleaseCheck(c)
      PROVE LocalsTyped'
  <2>1. slot[c] \in Slots
    BY <1>14, SlotOf, IsThread DEF ReleaseCheck, Resting
  <2>. QED BY <1>1, <1>2, <1>14, <2>1, IsThread DEF ReleaseCheck, Sees, Connected,
    LocalsTyped, slotVars, queues, owner, locals, Goto, Leave, LoadConn
<1>15. ASSUME NEW c \in Clients, ReleaseSub(c)
      PROVE LocalsTyped'
  <2>1. slot[c] \in Slots
    BY <1>15, SlotOf, IsThread DEF ReleaseSub, Resting
  <2>. QED BY <1>1, <1>2, <1>15, <2>1, IsThread DEF ReleaseSub, LocalsTyped, slotVars,
    queues, owner, locals, Goto, Leave, LoadConn
<1>16. ASSUME NEW t \in Clients \union Workers, EnqueueFlag(t)
      PROVE LocalsTyped'
  <2>1. slot[t] \in Slots
    BY <1>16, SlotOf, IsThread DEF EnqueueFlag, Resting
  <2>. QED BY <1>1, <1>2, <1>16, <2>1, IsThread DEF EnqueueFlag, Resume, LocalsTyped,
    slotVars, queues, owner, locals, Goto, Leave, LoadConn
<1>17. ASSUME NEW t \in Clients \union Workers, EnqueuePush(t)
      PROVE LocalsTyped'
  <2>1. slot[t] \in Slots
    BY <1>17, SlotOf, IsThread DEF EnqueuePush, Resting
  <2>. QED BY <1>1, <1>2, <1>17, <2>1, IsThread DEF EnqueuePush, Resume, LocalsTyped,
    slotVars, queues, owner, locals, Goto, Leave, LoadConn
<1>18. ASSUME NEW w \in Workers, WorkerWait(w)
      PROVE LocalsTyped'
  BY <1>1, <1>2, <1>18, IsThread DEF WorkerWait, LocalsTyped, slotVars, queues, owner,
    locals, Goto, Leave, LoadConn
<1>19. ASSUME NEW w \in Workers, Reconnect(w)
      PROVE LocalsTyped'
  <2>1. slot[w] \in Slots
    BY <1>19, SlotOf, IsThread DEF Reconnect, Resting
  <2>. QED BY <1>1, <1>2, <1>19, <2>1, IsThread DEF Reconnect, Fresh, LocalsTyped, slotVars,
    queues, owner, locals, Goto, Leave, LoadConn
<1>20. ASSUME NEW w \in Workers, ApplyCheck(w)
      PROVE LocalsTyped'
  <2>1. slot[w] \in Slots
    BY <1>20, SlotOf, IsThread DEF ApplyCheck, Resting
  <2>. QED BY <1>1, <1>2, <1>20, <2>1, IsThread DEF ApplyCheck, LocalsTyped, slotVars,
    queues, owner, locals, Goto, Leave, LoadConn
<1>21. ASSUME NEW w \in Workers, Swap(w)
      PROVE LocalsTyped'
  <2>1. slot[w] \in Slots
    BY <1>21, SlotOf, IsThread DEF Swap, Resting
  <2>. QED BY <1>1, <1>2, <1>21, <2>1, IsThread DEF Swap, LocalsTyped, slotVars, queues,
    owner, locals, Goto, Leave, LoadConn
<1>22. ASSUME NEW s \in Slots, Due(s)
      PROVE LocalsTyped'
  BY <1>1, <1>2, <1>22, IsThread DEF Due, LocalsTyped, slotVars, queues, owner, locals, Goto,
    Leave, LoadConn
<1>23. CASE DueLoad
  <2>1. slot["delayed"] \in Slots
    BY <1>23, SlotOf, IsThread DEF DueLoad, Resting
  <2>. QED BY <1>1, <1>2, <1>23, <2>1, IsThread DEF DueLoad, LocalsTyped, slotVars, queues,
    owner, locals, Goto, Leave, LoadConn
<1>24. CASE DueEnqueue
  <2>1. slot["delayed"] \in Slots
    BY <1>24, SlotOf, IsThread DEF DueEnqueue, Resting
  <2>. QED BY <1>1, <1>2, <1>24, <2>1, IsThread DEF DueEnqueue, EnqueueReconnect,
    LocalsTyped, slotVars, queues, owner, locals, Goto, Leave, LoadConn
<1>25. CASE ScanLoad
  <2>1. slot["health"] \in Slots
    BY <1>25, SlotOf, IsThread DEF ScanLoad, Resting
  <2>. QED BY <1>1, <1>2, <1>25, <2>1, IsThread DEF ScanLoad, LocalsTyped, slotVars, queues,
    owner, locals, Goto, Leave, LoadConn
<1>26. CASE ScanEnqueue
  <2>1. slot["health"] \in Slots
    BY <1>26, SlotOf, IsThread DEF ScanEnqueue, Resting
  <2>. QED BY <1>1, <1>2, <1>26, <2>1, IsThread DEF ScanEnqueue, EnqueueReconnect,
    LocalsTyped, slotVars, queues, owner, locals, Goto, Leave, LoadConn
<1>27. CASE ScanRef
  <2>1. slot["health"] \in Slots
    BY <1>27, SlotOf, IsThread DEF ScanRef, Resting
  <2>2. locals' = locals \/ NextSlot \/ Leave("health", "HealthWait")
    BY <1>27 DEF ScanRef
  <2>. QED BY <1>1, <2>1, <2>2, NextSlotTyped
<1>28. CASE ScanCheck
  <2>1. slot["health"] \in Slots
    BY <1>28, SlotOf, IsThread DEF ScanCheck, Resting
  <2>2. locals' = locals \/ NextSlot \/ Leave("health", "HealthWait")
    BY <1>28 DEF ScanCheck
  <2>. QED BY <1>1, <2>1, <2>2, NextSlotTyped
<1>29. CASE ScanMark
  <2>1. slot["health"] \in Slots
    BY <1>29, SlotOf, IsThread DEF ScanMark, Resting
  <2>2. locals' = locals \/ NextSlot \/ Leave("health", "HealthWait")
    BY <1>29 DEF ScanMark
  <2>. QED BY <1>1, <2>1, <2>2, NextSlotTyped
<1>30. CASE ScanUnmark
  <2>1. slot["health"] \in Slots
    BY <1>30, SlotOf, IsThread DEF ScanUnmark, Resting
  <2>2. locals' = locals \/ NextSlot \/ Leave("health", "HealthWait")
    BY <1>30 DEF ScanUnmark
  <2>. QED BY <1>1, <2>1, <2>2, NextSlotTyped
<1>31. CASE ScanNext
  <2>1. slot["health"] \in Slots
    BY <1>31, SlotOf, IsThread DEF ScanNext, Resting
  <2>2. locals' = locals \/ NextSlot \/ Leave("health", "HealthWait")
    BY <1>31 DEF ScanNext
  <2>. QED BY <1>1, <2>1, <2>2, NextSlotTyped
<1>32. CASE Purge
  <2>1. slot' = slot \/ slot' = [slot EXCEPT !["health"] = 1]
    BY <1>32 DEF Purge
  <2>2. UNCHANGED <<ptr, made, ok>> /\ 1 \in Slots
    BY <1>32, SizeAssumption DEF Purge, Slots
  <2>. QED BY <1>1, <2>1, <2>2 DEF LocalsTyped
<1>33. ASSUME NEW w \in Workers, Unmark(w)
      PROVE LocalsTyped'
  <2>1. slot[w] \in Slots
    BY <1>33, SlotOf, IsThread DEF Unmark, Resting
  <2>. QED BY <1>1, <1>2, <1>33, <2>1, IsThread DEF Unmark, LocalsTyped, slotVars, queues,
    owner, locals, Goto, Leave, LoadConn
<1>34. ASSUME NEW c \in Clients, PopUndo(c)
      PROVE LocalsTyped'
  <2>1. slot[c] \in Slots
    BY <1>34, SlotOf, IsThread DEF PopUndo, Resting
  <2>. QED BY <1>1, <1>2, <1>34, <2>1, IsThread DEF PopUndo, LocalsTyped, slotVars, queues,
    owner, locals, Goto, Leave, LoadConn
<1>35. ASSUME NEW c \in Clients, GetUndo(c)
      PROVE LocalsTyped'
  <2>1. slot[c] \in Slots
    BY <1>35, SlotOf, IsThread DEF GetUndo, Resting
  <2>. QED BY <1>1, <1>2, <1>35, <2>1, IsThread DEF GetUndo, LocalsTyped, slotVars, queues,
    owner, locals, Goto, Leave, LoadConn
<1>36. ASSUME NEW w \in Workers, AwaitTimeout(w)
      PROVE LocalsTyped'
  <2>1. slot[w] \in Slots
    BY <1>36, SlotOf, IsThread DEF AwaitTimeout, Resting
  <2>. QED BY <1>1, <1>2, <1>36, <2>1, IsThread DEF AwaitTimeout, LocalsTyped, slotVars,
    queues, owner, locals, Goto, Leave, LoadConn
<1>37. ASSUME NEW w \in Workers, DeleteOld(w)
      PROVE LocalsTyped'
  <2>1. slot[w] \in Slots
    BY <1>37, SlotOf, IsThread DEF DeleteOld, Resting
  <2>. QED BY <1>1, <1>2, <1>37, <2>1, IsThread DEF DeleteOld, LocalsTyped, slotVars, queues,
    owner, locals, Goto, Leave, LoadConn
<1>38. CASE DueDrop
  <2>1. slot["delayed"] \in Slots
    BY <1>38, SlotOf, IsThread DEF DueDrop, Resting
  <2>. QED BY <1>1, <1>2, <1>38, <2>1, IsThread DEF DueDrop, LocalsTyped, slotVars, queues,
    owner, locals, Goto, Leave, LoadConn
<1>39. CASE InitPool
  BY <1>1, <1>2, <1>39, IsThread DEF InitPool, FirstLabel, CreateThread, JoinFlag, ManagerOf,
    Managers, LocalsTyped, slotVars, queues, owner, locals, Goto, Leave, LoadConn
<1>. QED BY <1>3, <1>4, <1>5, <1>6, <1>7, <1>8, <1>9, <1>10, <1>11, <1>12, <1>13, <1>14,
  <1>15, <1>16, <1>17, <1>18, <1>19, <1>20, <1>21, <1>22, <1>23, <1>24, <1>25, <1>26, <1>27,
  <1>28, <1>29, <1>30, <1>31, <1>32, <1>33, <1>34, <1>35, <1>36, <1>37, <1>38, <1>39 DEF
  Next, Client, Worker, DelayedLoop, HealthLoop

-----------------------------------------------------------------------------

(* Where the threads are.                                                    *)
LEMMA ClientsOKStep ==
  ASSUME TypeOK, ThreadsOK, Next
  PROVE  ClientsOK'
<1>1. pc \in [Threads -> Labels]
  BY DEF TypeOK, Labels
<1>2. ClientsOK
  BY DEF ThreadsOK
<1>3. ASSUME NEW c \in Clients, Borrow(c) \/ PopFront(c) \/ PopUnflag(c) \/ PopCas(c)
      PROVE ClientsOK'
  BY <1>1, <1>2, <1>3, IsThread DEF Borrow, PopFront, PopUnflag, PopCas, ClientsOK,
    ClientLabels, PopLabels, Goto, Leave, LoadConn, slotVars, queues, owner, locals
<1>4. ASSUME NEW c \in Clients, PopLoad(c) \/ PopCheck(c) \/ PopUndo(c) \/ GuardLoad(c)
      PROVE ClientsOK'
  BY <1>1, <1>2, <1>4, IsThread DEF PopLoad, PopCheck, PopUndo, GuardLoad, Sees,
    Connected, ClientsOK, ClientLabels, PopLabels, Goto, Leave, LoadConn, slotVars, queues,
    owner, locals
<1>5. ASSUME NEW c \in Clients, GetLoad(c) \/ GetCheck(c) \/ GetUndo(c) \/ ReleaseLoad(c)
      PROVE ClientsOK'
  BY <1>1, <1>2, <1>5, IsThread DEF GetLoad, GetCheck, GetUndo, ReleaseLoad, Sees,
    Connected, ClientsOK, ClientLabels, PopLabels, Goto, Leave, LoadConn, slotVars, queues,
    owner, locals
<1>6. ASSUME NEW c \in Clients, ReleaseCheck(c) \/ ReleaseSub(c)
      PROVE ClientsOK'
  BY <1>1, <1>2, <1>6, IsThread DEF ReleaseCheck, ReleaseSub, Sees, Connected,
    ClientsOK, ClientLabels, PopLabels, Goto, Leave, LoadConn, slotVars, queues, owner,
    locals
<1>7. ASSUME NEW c \in Clients, NEW s \in Slots, GetOdbcConn(c, s)
      PROVE ClientsOK'
  BY <1>1, <1>2, <1>7, IsThread DEF GetOdbcConn, ClientsOK, ClientLabels, PopLabels, Goto,
    Leave, LoadConn, slotVars, queues, owner, locals
<1>8. ASSUME NEW t \in Clients \union Workers, EnqueueFlag(t) \/ EnqueuePush(t)
      PROVE ClientsOK'
  BY <1>1, <1>2, <1>8, IsThread DEF EnqueueFlag, EnqueuePush, Resume, ClientsOK,
    ClientLabels, PopLabels, Goto, Leave, LoadConn, slotVars, queues, owner, locals
<1>9. ASSUME NEW w \in Workers, WorkerWait(w) \/ WorkerSleep(w) \/ CheckRef(w) \/
  Reconnect(w)
      PROVE ClientsOK'
  BY <1>1, <1>2, <1>9, IsThread DEF WorkerWait, WorkerSleep, CheckRef, Reconnect, Fresh,
    ClientsOK, ClientLabels, PopLabels, Goto, Leave, LoadConn, slotVars, queues, owner,
    locals
<1>10. ASSUME NEW w \in Workers, Retry(w) \/ Unmark(w) \/ ApplyCheck(w) \/ Swap(w)
      PROVE ClientsOK'
  BY <1>1, <1>2, <1>10, IsThread DEF Retry, Unmark, ApplyCheck, Swap, ClientsOK,
    ClientLabels, PopLabels, Goto, Leave, LoadConn, slotVars, queues, owner, locals
<1>11. ASSUME NEW w \in Workers, AwaitUnused(w) \/ AwaitTimeout(w) \/ DeleteOld(w) \/
  Succeed(w)
      PROVE ClientsOK'
  BY <1>1, <1>2, <1>11, IsThread DEF AwaitUnused, AwaitTimeout, DeleteOld, Succeed,
    ClientsOK, ClientLabels, PopLabels, Goto, Leave, LoadConn, slotVars, queues, owner,
    locals
<1>12. CASE Purge \/ StopHealth \/ StopDelayed \/ StopWorkers
  BY <1>1, <1>2, <1>12, IsThread DEF Purge, StopHealth, StopDelayed, StopWorkers,
    HealthStopped, JoinFlag, Managers, Ended, ClientsOK, ClientLabels, PopLabels, Goto,
    Leave, LoadConn, slotVars, queues, owner, locals
<1>13. CASE Clear \/ DueLoad \/ DueRef \/ DueCheck
  BY <1>1, <1>2, <1>13, IsThread DEF Clear, DueLoad, DueRef, DueCheck, JoinFlag, Managers,
    Ended, Sees, Connected, ClientsOK, ClientLabels, PopLabels, Goto, Leave,
    LoadConn, slotVars, queues, owner, locals
<1>14. CASE DueEnqueue \/ DueDrop \/ DelayedEnd \/ ScanRef
  BY <1>1, <1>2, <1>14, IsThread DEF DueEnqueue, DueDrop, DelayedEnd, ScanRef,
    EnqueueReconnect, HealthStopped, NextSlot, ClientsOK, ClientLabels, PopLabels, Goto,
    Leave, LoadConn, slotVars, queues, owner, locals
<1>15. CASE ScanLoad \/ ScanCheck \/ ScanMark \/ ScanFail
  BY <1>1, <1>2, <1>15, IsThread DEF ScanLoad, ScanCheck, ScanMark, ScanFail, NextSlot,
    Sees, Connected, ClientsOK, ClientLabels, PopLabels, Goto, Leave, LoadConn,
    slotVars, queues, owner, locals
<1>16. CASE ScanEnqueue \/ ScanUnmark \/ ScanNext
  BY <1>1, <1>2, <1>16, IsThread DEF ScanEnqueue, ScanUnmark, ScanNext, EnqueueReconnect,
    NextSlot, ClientsOK, ClientLabels, PopLabels, Goto, Leave, LoadConn, slotVars, queues,
    owner, locals
<1>17. ASSUME NEW k \in Conns, Break(k)
      PROVE ClientsOK'
  BY <1>1, <1>2, <1>17, IsThread DEF Break, ClientsOK, ClientLabels, PopLabels, Goto, Leave,
    LoadConn, slotVars, queues, owner, locals
<1>18. ASSUME NEW s \in Slots, Due(s)
      PROVE ClientsOK'
  BY <1>1, <1>2, <1>18, IsThread DEF Due, ClientsOK, ClientLabels, PopLabels, Goto, Leave,
    LoadConn, slotVars, queues, owner, locals
<1>19. CASE InitPool
  <2>1. \/ pc' = pc
        \/ \E F : pc' = [t \in Threads |-> IF t \in Background /\ CreateThread(F, t)
                                           THEN FirstLabel(t) ELSE pc[t]]
    BY <1>19 DEF InitPool
  <2>2. \A c \in Clients : c \notin Background
    BY ThreadsAssumption DEF Background, Clients
  <2>. QED BY <1>1, <1>2, <2>1, <2>2, IsThread DEF ClientsOK
<1>. QED BY <1>3, <1>4, <1>5, <1>6, <1>7, <1>8, <1>9, <1>10, <1>11, <1>12, <1>13, <1>14,
  <1>15, <1>16, <1>17, <1>18, <1>19 DEF Next, Client, Worker, DelayedLoop, HealthLoop

LEMMA WorkersOKStep ==
  ASSUME TypeOK, ThreadsOK, Next
  PROVE  WorkersOK'
<1>1. pc \in [Threads -> Labels]
  BY DEF TypeOK, Labels
<1>2. WorkersOK
  BY DEF ThreadsOK
<1>3. ASSUME NEW c \in Clients, Borrow(c) \/ PopFront(c) \/ PopUnflag(c) \/ PopCas(c)
      PROVE WorkersOK'
  BY <1>1, <1>2, <1>3, IsThread DEF Borrow, PopFront, PopUnflag, PopCas, WorkersOK,
    WorkerLabels, Goto, Leave, LoadConn, slotVars, queues, owner, locals
<1>4. ASSUME NEW c \in Clients, PopLoad(c) \/ PopCheck(c) \/ PopUndo(c) \/ GuardLoad(c)
      PROVE WorkersOK'
  BY <1>1, <1>2, <1>4, IsThread DEF PopLoad, PopCheck, PopUndo, GuardLoad, Sees,
    Connected, WorkersOK, WorkerLabels, Goto, Leave, LoadConn, slotVars, queues, owner,
    locals
<1>5. ASSUME NEW c \in Clients, GetLoad(c) \/ GetCheck(c) \/ GetUndo(c) \/ ReleaseLoad(c)
      PROVE WorkersOK'
  BY <1>1, <1>2, <1>5, IsThread DEF GetLoad, GetCheck, GetUndo, ReleaseLoad, Sees,
    Connected, WorkersOK, WorkerLabels, Goto, Leave, LoadConn, slotVars, queues, owner,
    locals
<1>6. ASSUME NEW c \in Clients, ReleaseCheck(c) \/ ReleaseSub(c)
      PROVE WorkersOK'
  BY <1>1, <1>2, <1>6, IsThread DEF ReleaseCheck, ReleaseSub, Sees, Connected,
    WorkersOK, WorkerLabels, Goto, Leave, LoadConn, slotVars, queues, owner, locals
<1>7. ASSUME NEW c \in Clients, NEW s \in Slots, GetOdbcConn(c, s)
      PROVE WorkersOK'
  BY <1>1, <1>2, <1>7, IsThread DEF GetOdbcConn, WorkersOK, WorkerLabels, Goto, Leave,
    LoadConn, slotVars, queues, owner, locals
<1>8. ASSUME NEW t \in Clients \union Workers, EnqueueFlag(t) \/ EnqueuePush(t)
      PROVE WorkersOK'
  BY <1>1, <1>2, <1>8, IsThread DEF EnqueueFlag, EnqueuePush, Resume, WorkersOK,
    WorkerLabels, Goto, Leave, LoadConn, slotVars, queues, owner, locals
<1>9. ASSUME NEW w \in Workers, WorkerWait(w) \/ WorkerSleep(w) \/ CheckRef(w) \/
  Reconnect(w)
      PROVE WorkersOK'
  BY <1>1, <1>2, <1>9, IsThread DEF WorkerWait, WorkerSleep, CheckRef, Reconnect, Fresh,
    WorkersOK, WorkerLabels, Goto, Leave, LoadConn, slotVars, queues, owner, locals
<1>10. ASSUME NEW w \in Workers, Retry(w) \/ Unmark(w) \/ ApplyCheck(w) \/ Swap(w)
      PROVE WorkersOK'
  BY <1>1, <1>2, <1>10, IsThread DEF Retry, Unmark, ApplyCheck, Swap, WorkersOK,
    WorkerLabels, Goto, Leave, LoadConn, slotVars, queues, owner, locals
<1>11. ASSUME NEW w \in Workers, AwaitUnused(w) \/ AwaitTimeout(w) \/ DeleteOld(w) \/
  Succeed(w)
      PROVE WorkersOK'
  BY <1>1, <1>2, <1>11, IsThread DEF AwaitUnused, AwaitTimeout, DeleteOld, Succeed,
    WorkersOK, WorkerLabels, Goto, Leave, LoadConn, slotVars, queues, owner, locals
<1>12. CASE Purge \/ StopHealth \/ StopDelayed \/ StopWorkers
  BY <1>1, <1>2, <1>12, IsThread DEF Purge, StopHealth, StopDelayed, StopWorkers,
    HealthStopped, JoinFlag, Managers, Ended, WorkersOK, WorkerLabels, Goto, Leave, LoadConn,
    slotVars, queues, owner, locals
<1>13. CASE Clear \/ DueLoad \/ DueRef \/ DueCheck
  BY <1>1, <1>2, <1>13, IsThread DEF Clear, DueLoad, DueRef, DueCheck, JoinFlag, Managers,
    Ended, Sees, Connected, WorkersOK, WorkerLabels, Goto, Leave, LoadConn,
    slotVars, queues, owner, locals
<1>14. CASE DueEnqueue \/ DueDrop \/ DelayedEnd \/ ScanRef
  BY <1>1, <1>2, <1>14, IsThread DEF DueEnqueue, DueDrop, DelayedEnd, ScanRef,
    EnqueueReconnect, HealthStopped, NextSlot, WorkersOK, WorkerLabels, Goto, Leave,
    LoadConn, slotVars, queues, owner, locals
<1>15. CASE ScanLoad \/ ScanCheck \/ ScanMark \/ ScanFail
  BY <1>1, <1>2, <1>15, IsThread DEF ScanLoad, ScanCheck, ScanMark, ScanFail, NextSlot,
    Sees, Connected, WorkersOK, WorkerLabels, Goto, Leave, LoadConn, slotVars,
    queues, owner, locals
<1>16. CASE ScanEnqueue \/ ScanUnmark \/ ScanNext
  BY <1>1, <1>2, <1>16, IsThread DEF ScanEnqueue, ScanUnmark, ScanNext, EnqueueReconnect,
    NextSlot, WorkersOK, WorkerLabels, Goto, Leave, LoadConn, slotVars, queues, owner, locals
<1>17. ASSUME NEW k \in Conns, Break(k)
      PROVE WorkersOK'
  BY <1>1, <1>2, <1>17, IsThread DEF Break, WorkersOK, WorkerLabels, Goto, Leave, LoadConn,
    slotVars, queues, owner, locals
<1>18. ASSUME NEW s \in Slots, Due(s)
      PROVE WorkersOK'
  BY <1>1, <1>2, <1>18, IsThread DEF Due, WorkersOK, WorkerLabels, Goto, Leave, LoadConn,
    slotVars, queues, owner, locals
<1>19. CASE InitPool
  <2>1. \/ pc' = pc
        \/ \E F : pc' = [t \in Threads |-> IF t \in Background /\ CreateThread(F, t)
                                           THEN FirstLabel(t) ELSE pc[t]]
    BY <1>19 DEF InitPool
  <2>2. \A w \in Workers : FirstLabel(w) = "Wait"
    BY IsThread DEF FirstLabel
  <2>. QED BY <1>1, <1>2, <2>1, <2>2, IsThread DEF WorkersOK, WorkerLabels
<1>. QED BY <1>3, <1>4, <1>5, <1>6, <1>7, <1>8, <1>9, <1>10, <1>11, <1>12, <1>13, <1>14,
  <1>15, <1>16, <1>17, <1>18, <1>19 DEF Next, Client, Worker, DelayedLoop, HealthLoop

LEMMA LoopsOKStep ==
  ASSUME TypeOK, ThreadsOK, Next
  PROVE  LoopsOK'
<1>1. pc \in [Threads -> Labels]
  BY DEF TypeOK, Labels
<1>2. LoopsOK
  BY DEF ThreadsOK
<1>3. ASSUME NEW c \in Clients, Borrow(c) \/ PopFront(c) \/ PopUnflag(c) \/ PopCas(c)
      PROVE LoopsOK'
  BY <1>1, <1>2, <1>3, IsThread DEF Borrow, PopFront, PopUnflag, PopCas, LoopsOK, LoopLabels,
    Goto, Leave, LoadConn, slotVars, queues, owner, locals
<1>4. ASSUME NEW c \in Clients, PopLoad(c) \/ PopCheck(c) \/ PopUndo(c) \/ GuardLoad(c)
      PROVE LoopsOK'
  BY <1>1, <1>2, <1>4, IsThread DEF PopLoad, PopCheck, PopUndo, GuardLoad, Sees,
    Connected, LoopsOK, LoopLabels, Goto, Leave, LoadConn, slotVars, queues, owner, locals
<1>5. ASSUME NEW c \in Clients, GetLoad(c) \/ GetCheck(c) \/ GetUndo(c) \/ ReleaseLoad(c)
      PROVE LoopsOK'
  BY <1>1, <1>2, <1>5, IsThread DEF GetLoad, GetCheck, GetUndo, ReleaseLoad, Sees,
    Connected, LoopsOK, LoopLabels, Goto, Leave, LoadConn, slotVars, queues, owner, locals
<1>6. ASSUME NEW c \in Clients, ReleaseCheck(c) \/ ReleaseSub(c)
      PROVE LoopsOK'
  BY <1>1, <1>2, <1>6, IsThread DEF ReleaseCheck, ReleaseSub, Sees, Connected,
    LoopsOK, LoopLabels, Goto, Leave, LoadConn, slotVars, queues, owner, locals
<1>7. ASSUME NEW c \in Clients, NEW s \in Slots, GetOdbcConn(c, s)
      PROVE LoopsOK'
  BY <1>1, <1>2, <1>7, IsThread DEF GetOdbcConn, LoopsOK, LoopLabels, Goto, Leave, LoadConn,
    slotVars, queues, owner, locals
<1>8. ASSUME NEW t \in Clients \union Workers, EnqueueFlag(t) \/ EnqueuePush(t)
      PROVE LoopsOK'
  BY <1>1, <1>2, <1>8, IsThread DEF EnqueueFlag, EnqueuePush, Resume, LoopsOK, LoopLabels,
    Goto, Leave, LoadConn, slotVars, queues, owner, locals
<1>9. ASSUME NEW w \in Workers, WorkerWait(w) \/ WorkerSleep(w) \/ CheckRef(w) \/
  Reconnect(w)
      PROVE LoopsOK'
  BY <1>1, <1>2, <1>9, IsThread DEF WorkerWait, WorkerSleep, CheckRef, Reconnect, Fresh,
    LoopsOK, LoopLabels, Goto, Leave, LoadConn, slotVars, queues, owner, locals
<1>10. ASSUME NEW w \in Workers, Retry(w) \/ Unmark(w) \/ ApplyCheck(w) \/ Swap(w)
      PROVE LoopsOK'
  BY <1>1, <1>2, <1>10, IsThread DEF Retry, Unmark, ApplyCheck, Swap, LoopsOK, LoopLabels,
    Goto, Leave, LoadConn, slotVars, queues, owner, locals
<1>11. ASSUME NEW w \in Workers, AwaitUnused(w) \/ AwaitTimeout(w) \/ DeleteOld(w) \/
  Succeed(w)
      PROVE LoopsOK'
  BY <1>1, <1>2, <1>11, IsThread DEF AwaitUnused, AwaitTimeout, DeleteOld, Succeed, LoopsOK,
    LoopLabels, Goto, Leave, LoadConn, slotVars, queues, owner, locals
<1>12. CASE Purge \/ StopHealth \/ StopDelayed \/ StopWorkers
  BY <1>1, <1>2, <1>12, IsThread DEF Purge, StopHealth, StopDelayed, StopWorkers,
    HealthStopped, JoinFlag, Managers, Ended, LoopsOK, LoopLabels, Goto, Leave, LoadConn,
    slotVars, queues, owner, locals
<1>13. CASE Clear \/ DueLoad \/ DueRef \/ DueCheck
  BY <1>1, <1>2, <1>13, IsThread DEF Clear, DueLoad, DueRef, DueCheck, JoinFlag, Managers,
    Ended, Sees, Connected, LoopsOK, LoopLabels, Goto, Leave, LoadConn, slotVars,
    queues, owner, locals
<1>14. CASE DueEnqueue \/ DueDrop \/ DelayedEnd \/ ScanRef
  BY <1>1, <1>2, <1>14, IsThread DEF DueEnqueue, DueDrop, DelayedEnd, ScanRef,
    EnqueueReconnect, HealthStopped, NextSlot, LoopsOK, LoopLabels, Goto, Leave, LoadConn,
    slotVars, queues, owner, locals
<1>15. CASE ScanLoad \/ ScanCheck \/ ScanMark \/ ScanFail
  BY <1>1, <1>2, <1>15, IsThread DEF ScanLoad, ScanCheck, ScanMark, ScanFail, NextSlot,
    Sees, Connected, LoopsOK, LoopLabels, Goto, Leave, LoadConn, slotVars, queues,
    owner, locals
<1>16. CASE ScanEnqueue \/ ScanUnmark \/ ScanNext
  BY <1>1, <1>2, <1>16, IsThread DEF ScanEnqueue, ScanUnmark, ScanNext, EnqueueReconnect,
    NextSlot, LoopsOK, LoopLabels, Goto, Leave, LoadConn, slotVars, queues, owner, locals
<1>17. ASSUME NEW k \in Conns, Break(k)
      PROVE LoopsOK'
  BY <1>1, <1>2, <1>17, IsThread DEF Break, LoopsOK, LoopLabels, Goto, Leave, LoadConn,
    slotVars, queues, owner, locals
<1>18. ASSUME NEW s \in Slots, Due(s)
      PROVE LoopsOK'
  BY <1>1, <1>2, <1>18, IsThread DEF Due, LoopsOK, LoopLabels, Goto, Leave, LoadConn,
    slotVars, queues, owner, locals
<1>19. CASE InitPool
  <2>1. \/ pc' = pc
        \/ \E F : pc' = [t \in Threads |-> IF t \in Background /\ CreateThread(F, t)
                                           THEN FirstLabel(t) ELSE pc[t]]
    BY <1>19 DEF InitPool
  <2>2. FirstLabel("health") = "HealthWait" /\ FirstLabel("delayed") = "DelayedWait"
    BY IsThread DEF FirstLabel
  <2>3. \A t \in Threads : pc'[t] = pc[t] \/ pc'[t] = FirstLabel(t)
    BY <2>1
  <2>. QED BY <1>2, <2>2, <2>3, IsThread DEF LoopsOK, LoopLabels
<1>. QED BY <1>3, <1>4, <1>5, <1>6, <1>7, <1>8, <1>9, <1>10, <1>11, <1>12, <1>13, <1>14,
  <1>15, <1>16, <1>17, <1>18, <1>19 DEF Next, Client, Worker, DelayedLoop, HealthLoop

LEMMA PlacesOKStep ==
  ASSUME TypeOK, ThreadsOK, Next
  PROVE  PlacesOK'
<1>1. pc \in [Threads -> Labels]
  BY DEF TypeOK, Labels
<1>2. PlacesOK
  BY DEF ThreadsOK
<1>3. slot \in [Threads -> Slots \union {NoSlot}]
  BY DEF TypeOK
<1>4. freeQueue \in Seq(Slots) /\ pending \in Seq(Slots)
  BY DEF TypeOK
<1>5. ASSUME NEW c \in Clients, Borrow(c) \/ PopFront(c) \/ PopUnflag(c) \/ PopCas(c)
      PROVE PlacesOK'
  BY <1>1, <1>2, <1>3, <1>4, <1>5, IsThread DEF Borrow, PopFront, PopUnflag, PopCas,
    PlacesOK, Resting, Goto, Leave, LoadConn, slotVars, queues, owner, locals
<1>6. ASSUME NEW c \in Clients, PopLoad(c) \/ PopCheck(c) \/ PopUndo(c) \/ GuardLoad(c)
      PROVE PlacesOK'
  BY <1>1, <1>2, <1>3, <1>4, <1>6, IsThread DEF PopLoad, PopCheck, PopUndo, GuardLoad,
    Sees, Connected, PlacesOK, Resting, Goto, Leave, LoadConn, slotVars, queues,
    owner, locals
<1>7. ASSUME NEW c \in Clients, GetLoad(c) \/ GetCheck(c) \/ GetUndo(c) \/ ReleaseLoad(c)
      PROVE PlacesOK'
  BY <1>1, <1>2, <1>3, <1>4, <1>7, IsThread DEF GetLoad, GetCheck, GetUndo, ReleaseLoad,
    Sees, Connected, PlacesOK, Resting, Goto, Leave, LoadConn, slotVars, queues,
    owner, locals
<1>8. ASSUME NEW c \in Clients, ReleaseCheck(c) \/ ReleaseSub(c)
      PROVE PlacesOK'
  BY <1>1, <1>2, <1>3, <1>4, <1>8, IsThread DEF ReleaseCheck, ReleaseSub, Sees,
    Connected, PlacesOK, Resting, Goto, Leave, LoadConn, slotVars, queues, owner, locals
<1>9. ASSUME NEW c \in Clients, NEW s \in Slots, GetOdbcConn(c, s)
      PROVE PlacesOK'
  BY <1>1, <1>2, <1>3, <1>4, <1>9, IsThread DEF GetOdbcConn, PlacesOK, Resting, Goto, Leave,
    LoadConn, slotVars, queues, owner, locals
<1>10. ASSUME NEW t \in Clients \union Workers, EnqueueFlag(t) \/ EnqueuePush(t)
      PROVE PlacesOK'
  BY <1>1, <1>2, <1>3, <1>4, <1>10, IsThread DEF EnqueueFlag, EnqueuePush, Resume, PlacesOK,
    Resting, Goto, Leave, LoadConn, slotVars, queues, owner, locals
<1>11. ASSUME NEW w \in Workers, WorkerWait(w) \/ WorkerSleep(w) \/ CheckRef(w) \/
  Reconnect(w)
      PROVE PlacesOK'
  BY <1>1, <1>2, <1>3, <1>4, <1>11, IsThread DEF WorkerWait, WorkerSleep, CheckRef,
    Reconnect, Fresh, PlacesOK, Resting, Goto, Leave, LoadConn, slotVars, queues, owner,
    locals
<1>12. ASSUME NEW w \in Workers, Retry(w) \/ Unmark(w) \/ ApplyCheck(w) \/ Swap(w)
      PROVE PlacesOK'
  BY <1>1, <1>2, <1>3, <1>4, <1>12, IsThread DEF Retry, Unmark, ApplyCheck, Swap, PlacesOK,
    Resting, Goto, Leave, LoadConn, slotVars, queues, owner, locals
<1>13. ASSUME NEW w \in Workers, AwaitUnused(w) \/ AwaitTimeout(w) \/ DeleteOld(w) \/
  Succeed(w)
      PROVE PlacesOK'
  BY <1>1, <1>2, <1>3, <1>4, <1>13, IsThread DEF AwaitUnused, AwaitTimeout, DeleteOld,
    Succeed, PlacesOK, Resting, Goto, Leave, LoadConn, slotVars, queues, owner, locals
<1>14. CASE StopHealth \/ StopDelayed \/ StopWorkers \/ Clear
  BY <1>1, <1>2, <1>3, <1>4, <1>14, IsThread DEF StopHealth, StopDelayed, StopWorkers, Clear,
    JoinFlag, Managers, Ended, PlacesOK, Resting, Goto, Leave, LoadConn, slotVars, queues,
    owner, locals
<1>15. CASE DueLoad \/ DueRef \/ DueCheck \/ DueEnqueue
  BY <1>1, <1>2, <1>3, <1>4, <1>15, IsThread DEF DueLoad, DueRef, DueCheck, DueEnqueue,
    Sees, Connected, EnqueueReconnect, PlacesOK, Resting, Goto, Leave, LoadConn,
    slotVars, queues, owner, locals
<1>16. CASE DueDrop \/ DelayedEnd \/ ScanLoad \/ ScanFail
  BY <1>1, <1>2, <1>3, <1>4, <1>16, IsThread DEF DueDrop, DelayedEnd, ScanLoad, ScanFail,
    PlacesOK, Resting, Goto, Leave, LoadConn, slotVars, queues, owner, locals
<1>17. CASE ScanEnqueue
  <2>1. slot["health"] \in Slots
    BY <1>17, SlotOf, IsThread DEF ScanEnqueue, Resting
  <2>. QED BY <1>1, <1>2, <1>3, <1>4, <1>17, <2>1, IsThread DEF ScanEnqueue,
    EnqueueReconnect, PlacesOK, Resting, Goto, Leave, LoadConn, slotVars, queues, owner,
    locals
<1>18. ASSUME NEW k \in Conns, Break(k)
      PROVE PlacesOK'
  BY <1>1, <1>2, <1>3, <1>4, <1>18, IsThread DEF Break, PlacesOK, Resting, Goto, Leave,
    LoadConn, slotVars, queues, owner, locals
<1>19. ASSUME NEW s \in Slots, Due(s)
      PROVE PlacesOK'
  BY <1>1, <1>2, <1>3, <1>4, <1>19, IsThread DEF Due, PlacesOK, Resting, Goto, Leave,
    LoadConn, slotVars, queues, owner, locals
<1>20. CASE ScanRef
  <2>1. slot["health"] \in Slots
    BY <1>20, SlotOf, IsThread DEF ScanRef, Resting
  <2>2. \A t \in Threads : t # "health" => pc'[t] = pc[t] /\ slot'[t] = slot[t]
    BY <1>20, <1>1, <1>3 DEF ScanRef, NextSlot, Leave, Goto, locals
  <2>3. locals' = locals \/ NextSlot \/ Leave("health", "HealthWait")
    BY <1>20 DEF ScanRef
  <2>4. pc'["health"] \notin Resting => slot'["health"] \in Slots
    BY <1>1, <1>3, <2>1, <2>3, NextSlotPlaced
  <2>. QED BY <1>2, <2>2, <2>4 DEF PlacesOK
<1>21. CASE ScanCheck
  <2>1. slot["health"] \in Slots
    BY <1>21, SlotOf, IsThread DEF ScanCheck, Resting
  <2>2. \A t \in Threads : t # "health" => pc'[t] = pc[t] /\ slot'[t] = slot[t]
    BY <1>21, <1>1, <1>3 DEF ScanCheck, NextSlot, Leave, Goto, locals
  <2>3. locals' = locals \/ NextSlot \/ Leave("health", "HealthWait")
    BY <1>21 DEF ScanCheck
  <2>4. pc'["health"] \notin Resting => slot'["health"] \in Slots
    BY <1>1, <1>3, <2>1, <2>3, NextSlotPlaced
  <2>. QED BY <1>2, <2>2, <2>4 DEF PlacesOK
<1>22. CASE ScanMark
  <2>1. slot["health"] \in Slots
    BY <1>22, SlotOf, IsThread DEF ScanMark, Resting
  <2>2. \A t \in Threads : t # "health" => pc'[t] = pc[t] /\ slot'[t] = slot[t]
    BY <1>22, <1>1, <1>3 DEF ScanMark, NextSlot, Leave, Goto, locals
  <2>3. locals' = locals \/ NextSlot \/ Leave("health", "HealthWait")
    BY <1>22 DEF ScanMark
  <2>4. pc'["health"] \notin Resting => slot'["health"] \in Slots
    BY <1>1, <1>3, <2>1, <2>3, NextSlotPlaced
  <2>. QED BY <1>2, <2>2, <2>4 DEF PlacesOK
<1>23. CASE ScanUnmark
  <2>1. slot["health"] \in Slots
    BY <1>23, SlotOf, IsThread DEF ScanUnmark, Resting
  <2>2. \A t \in Threads : t # "health" => pc'[t] = pc[t] /\ slot'[t] = slot[t]
    BY <1>23, <1>1, <1>3 DEF ScanUnmark, NextSlot, Leave, Goto, locals
  <2>3. locals' = locals \/ NextSlot \/ Leave("health", "HealthWait")
    BY <1>23 DEF ScanUnmark
  <2>4. pc'["health"] \notin Resting => slot'["health"] \in Slots
    BY <1>1, <1>3, <2>1, <2>3, NextSlotPlaced
  <2>. QED BY <1>2, <2>2, <2>4 DEF PlacesOK
<1>24. CASE ScanNext
  <2>1. slot["health"] \in Slots
    BY <1>24, SlotOf, IsThread DEF ScanNext, Resting
  <2>2. \A t \in Threads : t # "health" => pc'[t] = pc[t] /\ slot'[t] = slot[t]
    BY <1>24, <1>1, <1>3 DEF ScanNext, NextSlot, Leave, Goto, locals
  <2>3. locals' = locals \/ NextSlot \/ Leave("health", "HealthWait")
    BY <1>24 DEF ScanNext
  <2>4. pc'["health"] \notin Resting => slot'["health"] \in Slots
    BY <1>1, <1>3, <2>1, <2>3, NextSlotPlaced
  <2>. QED BY <1>2, <2>2, <2>4 DEF PlacesOK
<1>25. CASE Purge
  <2>1. 1 \in Slots
    BY SizeAssumption DEF Slots
  <2>2. /\ \A t \in Threads : t # "health" => pc'[t] = pc[t] /\ slot'[t] = slot[t]
        /\ pc'["health"] \in Resting \/ slot'["health"] = 1
    BY <1>25, <1>1, <1>3, IsThread DEF Purge, Goto, Resting
  <2>. QED BY <1>2, <2>1, <2>2 DEF PlacesOK
<1>26. CASE InitPool
  <2>1. \/ pc' = pc
        \/ \E F : pc' = [t \in Threads |-> IF t \in Background /\ CreateThread(F, t)
                                           THEN FirstLabel(t) ELSE pc[t]]
    BY <1>26 DEF InitPool
  <2>2. \A t \in Background : FirstLabel(t) \in Resting
    BY DEF FirstLabel, Background, Resting
  <2>3. slot' = slot
    BY <1>26 DEF InitPool, locals
  <2>. QED BY <1>1, <1>2, <2>1, <2>2, <2>3 DEF PlacesOK
<1>. QED BY <1>5, <1>6, <1>7, <1>8, <1>9, <1>10, <1>11, <1>12, <1>13, <1>14, <1>15, <1>16,
  <1>17, <1>18, <1>19, <1>20, <1>21, <1>22, <1>23, <1>24, <1>25, <1>26 DEF Next, Client,
  Worker, DelayedLoop, HealthLoop

-----------------------------------------------------------------------------

(* What Purge deletes leaves the quarantine.                                 *)
LEMMA PurgeStatus ==
  ASSUME Purge, status \in [Conns -> {"fresh", "open", "broken", "deleted", "forced", "abandoned"}]
  PROVE  /\ quarantine' \subseteq quarantine
         /\ \A k \in Conns : status'[k] = status[k] \/ \E q \in quarantine \ quarantine' : q[1] = k
<1>1. CASE HealthStopped
  BY <1>1 DEF Purge
<1>2. CASE ~HealthStopped
  <2>1. PICK old \in SUBSET (quarantine \ Unused) :
          /\ quarantine' = quarantine \ (Unused \union old)
          /\ status' = [k \in Conns |->
               IF \E q \in Unused : q[1] = k THEN "deleted"
               ELSE IF \E q \in old : q[1] = k THEN "forced" ELSE status[k]]
    BY <1>2 DEF Purge
  <2>. QED BY <2>1 DEF Unused
<1>. QED BY <1>1, <1>2

(* The phases of the pool.  The destructor waits for the workers: then none  *)
(* of them has a connection in hand.                                         *)
LEMMA PhasesStep ==
  ASSUME TypeOK, ThreadsOK, Phases, WorkersHave, OwnersLive, Next
  PROVE  Phases'
<1>1. /\ pc \in [Threads -> Labels]
      /\ status \in [Conns -> {"fresh", "open", "broken", "deleted", "forced", "abandoned"}]
      /\ conn \in [Slots -> Conns \union {NoConn}]
  BY DEF TypeOK, Labels
<1>2. Phases /\ WorkersHave /\ OwnersLive
  OBVIOUS
<1>3. ASSUME NEW c \in Clients, Borrow(c) \/ PopFront(c) \/ PopUnflag(c) \/ PopCas(c)
      PROVE Phases'
  BY <1>1, <1>2, <1>3, IsThread DEF Borrow, PopFront, PopUnflag, PopCas, Phases, WorkersHave,
    OwnersLive, Live, Goto, Leave, LoadConn, slotVars, queues, owner, locals
<1>4. ASSUME NEW c \in Clients, PopLoad(c) \/ PopCheck(c) \/ PopUndo(c) \/ GuardLoad(c)
      PROVE Phases'
  BY <1>1, <1>2, <1>4, IsThread DEF PopLoad, PopCheck, PopUndo, GuardLoad, Sees,
    Connected, Phases, WorkersHave, OwnersLive, Live, Goto, Leave, LoadConn, slotVars,
    queues, owner, locals
<1>5. ASSUME NEW c \in Clients, GetLoad(c) \/ GetCheck(c) \/ GetUndo(c) \/ ReleaseLoad(c)
      PROVE Phases'
  BY <1>1, <1>2, <1>5, IsThread DEF GetLoad, GetCheck, GetUndo, ReleaseLoad, Sees,
    Connected, Phases, WorkersHave, OwnersLive, Live, Goto, Leave, LoadConn, slotVars,
    queues, owner, locals
<1>6. ASSUME NEW c \in Clients, ReleaseCheck(c) \/ ReleaseSub(c)
      PROVE Phases'
  BY <1>1, <1>2, <1>6, IsThread DEF ReleaseCheck, ReleaseSub, Sees, Connected,
    Phases, WorkersHave, OwnersLive, Live, Goto, Leave, LoadConn, slotVars, queues, owner,
    locals
<1>7. ASSUME NEW c \in Clients, NEW s \in Slots, GetOdbcConn(c, s)
      PROVE Phases'
  BY <1>1, <1>2, <1>7, IsThread DEF GetOdbcConn, Phases, WorkersHave, OwnersLive, Live, Goto,
    Leave, LoadConn, slotVars, queues, owner, locals
<1>8. ASSUME NEW t \in Clients \union Workers, EnqueueFlag(t) \/ EnqueuePush(t)
      PROVE Phases'
  BY <1>1, <1>2, <1>8, IsThread DEF EnqueueFlag, EnqueuePush, Resume, Phases, WorkersHave,
    OwnersLive, Live, Goto, Leave, LoadConn, slotVars, queues, owner, locals
<1>9. ASSUME NEW w \in Workers, WorkerWait(w) \/ WorkerSleep(w) \/ CheckRef(w) \/
  Reconnect(w)
      PROVE Phases'
  BY <1>1, <1>2, <1>9, IsThread DEF WorkerWait, WorkerSleep, CheckRef, Reconnect, Fresh,
    Phases, WorkersHave, OwnersLive, Live, Goto, Leave, LoadConn, slotVars, queues, owner,
    locals
<1>10. ASSUME NEW w \in Workers, Retry(w) \/ Unmark(w) \/ ApplyCheck(w) \/ Swap(w)
      PROVE Phases'
  BY <1>1, <1>2, <1>10, IsThread DEF Retry, Unmark, ApplyCheck, Swap, Phases, WorkersHave,
    OwnersLive, Live, Goto, Leave, LoadConn, slotVars, queues, owner, locals
<1>11. ASSUME NEW w \in Workers, AwaitUnused(w) \/ AwaitTimeout(w) \/ DeleteOld(w) \/
  Succeed(w)
      PROVE Phases'
  BY <1>1, <1>2, <1>11, IsThread DEF AwaitUnused, AwaitTimeout, DeleteOld, Succeed, Phases,
    WorkersHave, OwnersLive, Live, Goto, Leave, LoadConn, slotVars, queues, owner, locals
<1>12. CASE StopHealth \/ StopDelayed \/ StopWorkers
  BY <1>1, <1>2, <1>12, IsThread DEF StopHealth, StopDelayed, StopWorkers,
    HealthStopped, JoinFlag, Managers, Ended, Phases, WorkersHave, OwnersLive, Live, Goto,
    Leave, LoadConn, slotVars, queues, owner, locals
<1>17. CASE Purge
  <2>1. /\ UNCHANGED <<conn, phase>> /\ \A t \in Threads \ {"health"} : pc'[t] = pc[t]
    BY <1>1, <1>17, IsThread DEF Purge, Goto, slotVars, owner
  <2>2. ASSUME phase = "new", NEW k \in Conns PROVE status'[k] = "fresh"
    <3>1. quarantine = {}
      <4>1. \A q \in quarantine : q[1] \in Conns /\ Live(q[1])
        BY <1>2 DEF OwnersLive, TypeOK
      <4>. QED BY <1>2, <2>2, <4>1 DEF Live, Phases
    <3>. QED BY <1>1, <1>2, <1>17, <2>2, <3>1, PurgeStatus DEF Phases
  <2>. QED BY <1>2, <2>1, <2>2, IsThread DEF Phases
<1>13. CASE Clear
  BY <1>1, <1>2, <1>13, IsThread DEF Clear, JoinFlag, Managers, Ended, Phases, WorkersHave,
    OwnersLive, Live, Goto, Leave, LoadConn, slotVars, queues, owner, locals
<1>14. ASSUME NEW k \in Conns, Break(k)
      PROVE Phases'
  BY <1>1, <1>2, <1>14, IsThread DEF Break, Phases, WorkersHave, OwnersLive, Live, Goto,
    Leave, LoadConn, slotVars, queues, owner, locals
<1>15. CASE InitPool
  <2>1. phase = "new" /\ phase' \in {"run", "closed"}
    BY <1>15 DEF InitPool
  <2>2. phase' = "closed" => conn' = conn /\ pc' = pc
    BY <1>15 DEF InitPool
  <2>3. phase' = "run" => conn' = [s \in Slots |-> s]
    BY <1>15 DEF InitPool
  <2>4. \A s \in Slots : s # NoConn
    BY DEF Slots, NoConn
  <2>. QED BY <1>2, <2>1, <2>2, <2>3, <2>4 DEF Phases
<1>16. CASE Aside
  <2>1. UNCHANGED <<phase, status, conn>>
    BY <1>16 DEF Aside
  <2>2. \A t \in Putters : pc'[t] = pc[t] \/ (t \in Workers /\ pc[t] = "Asleep" /\ pc'[t] = "Wait")
    BY <1>16 DEF Aside
  <2>. QED BY <1>1, <1>2, <2>1, <2>2, IsThread DEF Phases, Putters
<1>. QED BY <1>3, <1>4, <1>5, <1>6, <1>7, <1>8, <1>9, <1>10, <1>11, <1>12, <1>13, <1>14,
  <1>15, <1>16, <1>17, LoopsAside DEF Next, Client, Worker

-----------------------------------------------------------------------------

(* A pop takes the slot from the queue before it lowers the flag, and who    *)
(* puts a slot back raises the flag before the push.                         *)
LEMMA FreeOnceStep ==
  ASSUME TypeOK, ThreadsOK, Phases, FreeOnce, Next
  PROVE  FreeOnce'
<1>1. /\ pc \in [Threads -> Labels]
      /\ slot \in [Threads -> Slots \union {NoSlot}]
      /\ freeQueue \in Seq(Slots)
      /\ inFree \in [Slots -> BOOLEAN]
  BY DEF TypeOK, Labels
<1>2. FreeOnce /\ Phases
  OBVIOUS
<1>3. ASSUME NEW c \in Clients, Borrow(c) \/ PopCas(c) \/ PopLoad(c) \/ PopCheck(c)
      PROVE FreeOnce'
  BY <1>1, <1>2, <1>3, IsThread DEF Borrow, PopCas, PopLoad, PopCheck, Sees,
    Connected, FreeOnce, Phases, Enqueues, Queued, Putters, Goto, Leave, LoadConn, slotVars,
    queues, owner, locals
<1>4. ASSUME NEW c \in Clients, PopUndo(c) \/ GuardLoad(c) \/ GetLoad(c) \/ GetCheck(c)
      PROVE FreeOnce'
  BY <1>1, <1>2, <1>4, IsThread DEF PopUndo, GuardLoad, GetLoad, GetCheck, Sees,
    Connected, FreeOnce, Phases, Enqueues, Queued, Putters, Goto, Leave, LoadConn, slotVars,
    queues, owner, locals
<1>5. ASSUME NEW c \in Clients, GetUndo(c) \/ ReleaseLoad(c) \/ ReleaseCheck(c) \/
  ReleaseSub(c)
      PROVE FreeOnce'
  BY <1>1, <1>2, <1>5, IsThread DEF GetUndo, ReleaseLoad, ReleaseCheck, ReleaseSub,
    Sees, Connected, FreeOnce, Phases, Enqueues, Queued, Putters, Goto, Leave,
    LoadConn, slotVars, queues, owner, locals
<1>6. ASSUME NEW c \in Clients, NEW s \in Slots, GetOdbcConn(c, s)
      PROVE FreeOnce'
  BY <1>1, <1>2, <1>6, IsThread DEF GetOdbcConn, FreeOnce, Phases, Enqueues, Queued, Putters,
    Goto, Leave, LoadConn, slotVars, queues, owner, locals
<1>7. ASSUME NEW w \in Workers, WorkerWait(w) \/ WorkerSleep(w) \/ CheckRef(w) \/
  Reconnect(w)
      PROVE FreeOnce'
  BY <1>1, <1>2, <1>7, IsThread DEF WorkerWait, WorkerSleep, CheckRef, Reconnect, Fresh,
    FreeOnce, Phases, Enqueues, Queued, Putters, Goto, Leave, LoadConn, slotVars, queues,
    owner, locals
<1>8. ASSUME NEW w \in Workers, Retry(w) \/ Unmark(w) \/ ApplyCheck(w) \/ Swap(w)
      PROVE FreeOnce'
  BY <1>1, <1>2, <1>8, IsThread DEF Retry, Unmark, ApplyCheck, Swap, FreeOnce, Phases,
    Enqueues, Queued, Putters, Goto, Leave, LoadConn, slotVars, queues, owner, locals
<1>9. ASSUME NEW w \in Workers, AwaitUnused(w) \/ AwaitTimeout(w) \/ DeleteOld(w) \/
  Succeed(w)
      PROVE FreeOnce'
  BY <1>1, <1>2, <1>9, IsThread DEF AwaitUnused, AwaitTimeout, DeleteOld, Succeed, FreeOnce,
    Phases, Enqueues, Queued, Putters, Goto, Leave, LoadConn, slotVars, queues, owner, locals
<1>10. CASE Purge \/ StopHealth \/ StopDelayed \/ StopWorkers
  BY <1>1, <1>2, <1>10, IsThread DEF Purge, StopHealth, StopDelayed, StopWorkers,
    HealthStopped, JoinFlag, Managers, Ended, FreeOnce, Phases, Enqueues, Queued, Putters,
    Goto, Leave, LoadConn, slotVars, queues, owner, locals
<1>11. ASSUME NEW k \in Conns, Break(k)
      PROVE FreeOnce'
  BY <1>1, <1>2, <1>11, IsThread DEF Break, FreeOnce, Phases, Enqueues, Queued, Putters, Goto,
    Leave, LoadConn, slotVars, queues, owner, locals
<1>12. ASSUME NEW c \in Clients, PopFront(c)
      PROVE FreeOnce'
  <2>1. CASE freeQueue = <<>>
    BY <1>1, <1>2, <1>12, <2>1, IsThread DEF PopFront, Leave, Goto, slotVars, FreeOnce, Enqueues,
      Queued, Putters
  <2>2. CASE freeQueue # <<>>
    <3>1. /\ \A i \in DOMAIN freeQueue : i = 1 \/ i - 1 \in DOMAIN Tail(freeQueue)
          /\ \A i \in DOMAIN Tail(freeQueue) :
               i + 1 \in DOMAIN freeQueue /\ Tail(freeQueue)[i] = freeQueue[i + 1]
          /\ 1 \in DOMAIN freeQueue /\ Head(freeQueue) = freeQueue[1]
          /\ DOMAIN freeQueue \subseteq Int /\ DOMAIN Tail(freeQueue) \subseteq Nat
      BY <1>1, <2>2
    <3>2. /\ freeQueue' = Tail(freeQueue) /\ slot'[c] = Head(freeQueue) /\ pc'[c] = "PopUnflag"
          /\ \A t \in Putters \ {c} : pc'[t] = pc[t] /\ slot'[t] = slot[t]
          /\ inFree' = inFree /\ pc[c] = "PopFront" /\ c \in Putters
      BY <1>1, <1>12, <2>2, IsThread DEF PopFront, Goto, slotVars, Putters
    <3>3. \A s \in Slots : Queued(s) <=> s = Head(freeQueue) \/ Queued(s)'
      <4> TAKE s \in Slots
      <4>1. \A i \in DOMAIN freeQueue : i # 1 => freeQueue[i] = Tail(freeQueue)[i - 1]
        BY <1>1, <2>2, <3>1
      <4>. QED BY <3>1, <3>2, <4>1 DEF Queued
    <3>4. \A i, j \in DOMAIN freeQueue' : freeQueue'[i] = freeQueue'[j] => i = j
      BY <1>2, <3>1, <3>2 DEF FreeOnce
    <3>5. \A i \in DOMAIN freeQueue' : freeQueue'[i] # Head(freeQueue)
      BY <1>2, <3>1, <3>2 DEF FreeOnce
    <3>6. Head(freeQueue) \in Slots /\ Queued(Head(freeQueue))
      BY <1>1, <2>2, <3>1 DEF Queued
    <3>7. \A t \in Putters : Enqueues(t) => slot[t] \in Slots
      BY IsThread DEF ThreadsOK, PlacesOK, Enqueues, Resting, Putters
    <3>8. \A t \in Putters : Enqueues(t)' <=> t = c \/ Enqueues(t)
      BY <3>2 DEF Enqueues
    <3>9. ~Enqueues(c)
      BY <3>2 DEF Enqueues
    <3>10. \A t \in Putters \ {c} : Enqueues(t) => ~Queued(slot[t]) /\ slot[t] # Head(freeQueue)
      BY <1>2, <3>6 DEF FreeOnce
    <3>11. \A t \in Putters : Enqueues(t)' => \E s \in Slots : slot'[t] = s /\ ~Queued(s)'
      <4> TAKE t \in Putters
      <4>1. CASE t = c
        BY <3>2, <3>5, <3>6, <4>1 DEF Queued
      <4>2. CASE t # c
        BY <3>2, <3>3, <3>7, <3>8, <3>10, <4>2
      <4>. QED BY <4>1, <4>2
    <3>12. \A t, u \in Putters : Enqueues(t)' /\ Enqueues(u)' /\ slot'[t] = slot'[u] => t = u
      BY <1>2, <3>2, <3>8, <3>10 DEF FreeOnce
    <3>13. \A s \in Slots : inFree'[s] <=> Queued(s)' \/ \E t \in Putters : Enqueues(t)' /\ slot'[t] = s
      BY <1>2, <3>2, <3>3, <3>6, <3>8, <3>9 DEF FreeOnce
    <3>14. \A t \in Putters : Enqueues(t)' => ~Queued(slot[t])'
      BY <3>11 DEF Queued
    <3>. QED BY <3>4, <3>12, <3>13, <3>14 DEF FreeOnce
  <2>. QED BY <2>1, <2>2
<1>13. ASSUME NEW c \in Clients, PopUnflag(c)
      PROVE FreeOnce'
  <2>1. slot[c] \in Slots
    BY <1>13, SlotOf, IsThread DEF PopUnflag, Resting
  <2>. QED BY <1>1, <1>2, <1>13, <2>1, IsThread DEF PopUnflag, FreeOnce, Phases, Enqueues,
    Queued, Putters, Goto, Leave, LoadConn, slotVars, queues, owner, locals
<1>14. ASSUME NEW t \in Clients \union Workers, EnqueueFlag(t)
      PROVE FreeOnce'
  <2>1. slot[t] \in Slots
    BY <1>14, SlotOf, IsThread DEF EnqueueFlag, Resting
  <2>. QED BY <1>1, <1>2, <1>14, <2>1, IsThread DEF EnqueueFlag, Resume, FreeOnce, Phases,
    Enqueues, Queued, Putters, Goto, Leave, LoadConn, slotVars, queues, owner, locals
<1>15. ASSUME NEW t \in Clients \union Workers, EnqueuePush(t)
      PROVE FreeOnce'
  <2>1. slot[t] \in Slots
    BY <1>15, SlotOf, IsThread DEF EnqueuePush, Resting
  <2>. QED BY <1>1, <1>2, <1>15, <2>1, IsThread DEF EnqueuePush, Resume, FreeOnce, Phases,
    Enqueues, Queued, Putters, Goto, Leave, LoadConn, slotVars, queues, owner, locals
<1>16. CASE InitPool
  <2>1. phase = "new" /\ slot' = slot
    BY <1>16 DEF InitPool, locals
  <2>2. \A t \in Putters : ~Enqueues(t) /\ ~Enqueues(t)'
    <3>1. \A t \in Putters : pc[t] \in {"idle", "off", "ended"}
      BY <1>2, <2>1 DEF Phases, Putters
    <3>2. \A t \in Putters : pc'[t] = pc[t] \/ (t \in Workers /\ pc'[t] = FirstLabel(t))
      BY <1>1, <1>16, IsThread, ThreadsAssumption DEF InitPool, Putters, Background, Clients
    <3>3. \A w \in Workers : FirstLabel(w) = "Wait"
      BY IsThread DEF FirstLabel
    <3>. QED BY <3>1, <3>2, <3>3 DEF Enqueues
  <2>3. CASE phase' = "run"
    <3>1. freeQueue' = [s \in Slots |-> s] /\ inFree' = [s \in Slots |-> TRUE]
      BY <1>16, <2>3 DEF InitPool
    <3>. QED BY <2>2, <3>1 DEF FreeOnce, Queued
  <2>4. CASE phase' # "run"
    BY <1>2, <1>16, <2>1, <2>2, <2>4 DEF InitPool, FreeOnce, Queued
  <2>. QED BY <2>3, <2>4
<1>17. CASE Clear
  <2>1. \A t \in Putters : ~Enqueues(t)'
    BY <1>2, <1>17 DEF Clear, Ended, Phases, Enqueues, Putters, Clients
  <2>2. freeQueue' = <<>> /\ inFree' = [s \in Slots |-> FALSE]
    BY <1>17 DEF Clear
  <2>. QED BY <2>1, <2>2 DEF FreeOnce, Queued
<1>18. CASE Aside
  <2>1. /\ UNCHANGED <<freeQueue, inFree>>
        /\ \A t \in Putters : slot'[t] = slot[t] /\ (Enqueues(t)' <=> Enqueues(t))
    BY <1>18 DEF Aside, Enqueues
  <2>. QED BY <1>2, <2>1 DEF FreeOnce, Queued
<1>. QED BY <1>3, <1>4, <1>5, <1>6, <1>7, <1>8, <1>9, <1>10, <1>11, <1>12, <1>13, <1>14,
  <1>15, <1>16, <1>17, <1>18, LoopsAside DEF Next, Client, Worker

-----------------------------------------------------------------------------

(* A step that moves no connection between its owners.                       *)
WorkersStill ==
  /\ UNCHANGED <<conn, quarantine, status, timedOut>>
  /\ \A w \in Workers :
       /\ made'[w] = made[w] /\ ptr'[w] = ptr[w]
       /\ pc'[w] \in {"ApplyCheck", "Swap"} <=> pc[w] \in {"ApplyCheck", "Swap"}
       /\ pc'[w] \in {"AwaitUnused", "DeleteOld"} <=> pc[w] \in {"AwaitUnused", "DeleteOld"}

(* The other steps.                                                          *)
Hands ==
  \/ \E w \in Workers : Reconnect(w) \/ ApplyCheck(w) \/ Swap(w) \/ AwaitTimeout(w) \/ DeleteOld(w)
  \/ Purge \/ InitPool \/ Clear \/ \E k \in Conns : Break(k)

(* Every step is of one of these sorts.                                      *)
LEMMA OwnersStill ==
  ASSUME TypeOK, Phases, WorkersHave, Next
  PROVE  WorkersStill \/ Hands
<1>1. /\ pc \in [Threads -> Labels]
      /\ ptr \in [Threads -> Conns \union {NoConn}]
      /\ made \in [Threads -> Conns \union {NoConn}]
      /\ conn \in [Slots -> Conns \union {NoConn}]
  BY DEF TypeOK, Labels
<1>2. WorkersHave /\ Phases
  OBVIOUS
<1>3. ASSUME NEW c \in Clients, Borrow(c) \/ PopFront(c) \/ PopUnflag(c) \/ PopCas(c)
      PROVE WorkersStill \/ Hands
  BY <1>1, <1>2, <1>3, IsThread DEF Borrow, PopFront, PopUnflag, PopCas, WorkersStill,
    WorkersHave, Phases, Goto, Leave, LoadConn, slotVars, queues, owner, locals
<1>4. ASSUME NEW c \in Clients, PopLoad(c) \/ PopCheck(c) \/ PopUndo(c) \/ GuardLoad(c)
      PROVE WorkersStill \/ Hands
  BY <1>1, <1>2, <1>4, IsThread DEF PopLoad, PopCheck, PopUndo, GuardLoad, Sees,
    Connected, WorkersStill, WorkersHave, Phases, Goto, Leave, LoadConn, slotVars, queues,
    owner, locals
<1>5. ASSUME NEW c \in Clients, GetLoad(c) \/ GetCheck(c) \/ GetUndo(c) \/ ReleaseLoad(c)
      PROVE WorkersStill \/ Hands
  BY <1>1, <1>2, <1>5, IsThread DEF GetLoad, GetCheck, GetUndo, ReleaseLoad, Sees,
    Connected, WorkersStill, WorkersHave, Phases, Goto, Leave, LoadConn, slotVars, queues,
    owner, locals
<1>6. ASSUME NEW c \in Clients, ReleaseCheck(c) \/ ReleaseSub(c)
      PROVE WorkersStill \/ Hands
  BY <1>1, <1>2, <1>6, IsThread DEF ReleaseCheck, ReleaseSub, Sees, Connected,
    WorkersStill, WorkersHave, Phases, Goto, Leave, LoadConn, slotVars, queues, owner, locals
<1>7. ASSUME NEW c \in Clients, NEW s \in Slots, GetOdbcConn(c, s)
      PROVE WorkersStill \/ Hands
  BY <1>1, <1>2, <1>7, IsThread DEF GetOdbcConn, WorkersStill, WorkersHave, Phases, Goto,
    Leave, LoadConn, slotVars, queues, owner, locals
<1>8. ASSUME NEW t \in Clients \union Workers, EnqueueFlag(t) \/ EnqueuePush(t)
      PROVE WorkersStill \/ Hands
  BY <1>1, <1>2, <1>8, IsThread DEF EnqueueFlag, EnqueuePush, Resume, WorkersStill,
    WorkersHave, Phases, Goto, Leave, LoadConn, slotVars, queues, owner, locals
<1>9. ASSUME NEW w \in Workers, WorkerWait(w) \/ WorkerSleep(w) \/ CheckRef(w) \/ Retry(w)
      PROVE WorkersStill \/ Hands
  BY <1>1, <1>2, <1>9, IsThread DEF WorkerWait, WorkerSleep, CheckRef, Retry, WorkersStill,
    WorkersHave, Phases, Goto, Leave, LoadConn, slotVars, queues, owner, locals
<1>10. ASSUME NEW w \in Workers, Unmark(w) \/ AwaitUnused(w) \/ Succeed(w)
      PROVE WorkersStill \/ Hands
  BY <1>1, <1>2, <1>10, IsThread DEF Unmark, AwaitUnused, Succeed, WorkersStill, WorkersHave,
    Phases, Goto, Leave, LoadConn, slotVars, queues, owner, locals
<1>11. CASE StopHealth \/ StopDelayed \/ StopWorkers
  BY <1>1, <1>2, <1>11, IsThread DEF StopHealth, StopDelayed, StopWorkers, JoinFlag,
    Managers, Ended, WorkersStill, WorkersHave, Phases, Goto, Leave, LoadConn, slotVars,
    queues, owner, locals
<1>12. ASSUME NEW w \in Workers, Reconnect(w)
      PROVE WorkersStill \/ Hands
  BY <1>12 DEF Hands
<1>13. ASSUME NEW w \in Workers, ApplyCheck(w)
      PROVE WorkersStill \/ Hands
  BY <1>13 DEF Hands
<1>14. ASSUME NEW w \in Workers, Swap(w)
      PROVE WorkersStill \/ Hands
  BY <1>14 DEF Hands
<1>15. ASSUME NEW w \in Workers, AwaitTimeout(w)
      PROVE WorkersStill \/ Hands
  BY <1>15 DEF Hands
<1>16. ASSUME NEW w \in Workers, DeleteOld(w)
      PROVE WorkersStill \/ Hands
  BY <1>16 DEF Hands
<1>17. CASE Purge
  BY <1>17 DEF Hands
<1>18. CASE InitPool
  BY <1>18 DEF Hands
<1>19. CASE Clear
  BY <1>19 DEF Hands
<1>20. ASSUME NEW k \in Conns, Break(k)
      PROVE WorkersStill \/ Hands
  BY <1>20 DEF Hands
<1>21. CASE Aside
  BY <1>21, IsThread DEF Aside, WorkersStill, Putters
<1>. QED BY <1>3, <1>4, <1>5, <1>6, <1>7, <1>8, <1>9, <1>10, <1>11, <1>12, <1>13, <1>14,
  <1>15, <1>16, <1>17, <1>18, <1>19, <1>20, <1>21, LoopsAside DEF Next, Client, Worker

(* A connection goes from the worker that made it to the slot, from the slot *)
(* to the worker that replaced it, and from there to the quarantine.         *)
LEMMA OwnersStep ==
  ASSUME TypeOK, ThreadsOK, Phases, OwnersOK, Next
  PROVE  OwnersOK'
<1>1. /\ pc \in [Threads -> Labels]
      /\ ptr \in [Threads -> Conns \union {NoConn}]
      /\ made \in [Threads -> Conns \union {NoConn}]
      /\ conn \in [Slots -> Conns \union {NoConn}]
      /\ status \in [Conns -> {"fresh", "open", "broken", "deleted", "forced", "abandoned"}]
      /\ quarantine \subseteq (Conns \X Slots)
      /\ slot \in [Threads -> Slots \union {NoSlot}]
  BY DEF TypeOK, Labels
<1>2. /\ Phases /\ WorkersHave /\ OwnersLive /\ OwnersDiffer /\ AllOwned
      /\ QuarantinedSlots
  BY DEF OwnersOK
<1>3. CASE WorkersStill
  BY <1>2, <1>3 DEF WorkersStill, OwnersOK, WorkersHave, OwnersLive, OwnersDiffer, AllOwned,
    Owned, Live, QuarantinedSlots
<1>4. ASSUME NEW w \in Workers, Reconnect(w) PROVE OwnersOK'
  <2>1. slot[w] \in Slots
    BY <1>4, SlotOf, IsThread DEF Reconnect, Resting
  <2>2. WorkersHave'
    <3>1. \A k \in Conns : k # NoConn
      BY DEF Conns, NoConn
    <3>. QED BY <1>1, <1>2, <1>4, <3>1, IsThread DEF Reconnect, WorkersHave, Goto
  <2>3. OwnersLive'
    BY <1>1, <1>2, <1>4, <2>1, IsThread DEF Reconnect, Fresh, WorkersHave, OwnersLive,
      OwnersDiffer, Live, Phases, Goto, Leave, slotVars, queues, owner, locals
  <2>4. OwnersDiffer'
    BY <1>1, <1>2, <1>4, <2>1, IsThread DEF Reconnect, Fresh, WorkersHave, OwnersLive,
      OwnersDiffer, Live, Phases, Goto, Leave, slotVars, queues, owner, locals
  <2>5. AllOwned'
    BY <1>1, <1>2, <1>4, <2>1, IsThread DEF Reconnect, Fresh, WorkersHave, OwnersLive,
      OwnersDiffer, AllOwned, Owned, Live, Phases, Goto, Leave, slotVars, queues, owner,
      locals
  <2>6. QuarantinedSlots'
    BY <1>1, <1>2, <1>4, <2>1, IsThread DEF Reconnect, Fresh, QuarantinedSlots, Goto, Leave,
      slotVars, queues, owner, locals
  <2>. QED BY <2>2, <2>3, <2>4, <2>5, <2>6 DEF OwnersOK
<1>5. ASSUME NEW w \in Workers, ApplyCheck(w) PROVE OwnersOK'
  <2>1. slot[w] \in Slots
    BY <1>5, SlotOf, IsThread DEF ApplyCheck, Resting
  <2>2. WorkersHave'
    BY <1>1, <1>2, <1>5, <2>1, IsThread DEF ApplyCheck, WorkersHave, Phases, Goto, Leave,
      slotVars, queues, owner, locals
  <2>3. OwnersLive'
    BY <1>1, <1>2, <1>5, <2>1, IsThread DEF ApplyCheck, WorkersHave, OwnersLive,
      OwnersDiffer, Live, Phases, Goto, Leave, slotVars, queues, owner, locals
  <2>4. OwnersDiffer'
    BY <1>1, <1>2, <1>5, <2>1, IsThread DEF ApplyCheck, WorkersHave, OwnersLive,
      OwnersDiffer, Live, Phases, Goto, Leave, slotVars, queues, owner, locals
  <2>5. AllOwned'
    BY <1>1, <1>2, <1>5, <2>1, IsThread DEF ApplyCheck, WorkersHave, OwnersLive,
      OwnersDiffer, AllOwned, Owned, Live, Phases, Goto, Leave, slotVars, queues, owner,
      locals
  <2>6. QuarantinedSlots'
    BY <1>1, <1>2, <1>5, <2>1, IsThread DEF ApplyCheck, QuarantinedSlots, Goto, Leave,
      slotVars, queues, owner, locals
  <2>. QED BY <2>2, <2>3, <2>4, <2>5, <2>6 DEF OwnersOK
<1>6. ASSUME NEW w \in Workers, Swap(w) PROVE OwnersOK'
  <2>1. slot[w] \in Slots
    BY <1>6, SlotOf, IsThread DEF Swap, Resting
  <2>2. WorkersHave'
    BY <1>1, <1>2, <1>6, <2>1, IsThread DEF Swap, WorkersHave, Phases, Goto, Leave, slotVars,
      queues, owner, locals
  <2>3. OwnersLive'
    BY <1>1, <1>2, <1>6, <2>1, IsThread DEF Swap, WorkersHave, OwnersLive, OwnersDiffer,
      Live, Phases, Goto, Leave, slotVars, queues, owner, locals
  <2>4. OwnersDiffer'
    BY <1>1, <1>2, <1>6, <2>1, IsThread DEF Swap, WorkersHave, OwnersLive, OwnersDiffer,
      Live, Phases, Goto, Leave, slotVars, queues, owner, locals
  <2>5. AllOwned'
    BY <1>1, <1>2, <1>6, <2>1, IsThread DEF Swap, WorkersHave, OwnersLive, OwnersDiffer,
      AllOwned, Owned, Live, Phases, Goto, Leave, slotVars, queues, owner, locals
  <2>6. QuarantinedSlots'
    BY <1>1, <1>2, <1>6, <2>1, IsThread DEF Swap, QuarantinedSlots, Goto, Leave, slotVars,
      queues, owner, locals
  <2>. QED BY <2>2, <2>3, <2>4, <2>5, <2>6 DEF OwnersOK
<1>7. ASSUME NEW w \in Workers, AwaitTimeout(w) PROVE OwnersOK'
  <2>1. slot[w] \in Slots
    BY <1>7, SlotOf, IsThread DEF AwaitTimeout, Resting
  <2>2. WorkersHave'
    BY <1>1, <1>2, <1>7, <2>1, IsThread DEF AwaitTimeout, WorkersHave, Phases, Goto, Leave,
      slotVars, queues, owner, locals
  <2>3. OwnersLive'
    BY <1>1, <1>2, <1>7, <2>1, IsThread DEF AwaitTimeout, WorkersHave, OwnersLive,
      OwnersDiffer, Live, Phases, Goto, Leave, slotVars, queues, owner, locals
  <2>4. OwnersDiffer'
    BY <1>1, <1>2, <1>7, <2>1, IsThread DEF AwaitTimeout, WorkersHave, OwnersLive,
      OwnersDiffer, Live, Phases, Goto, Leave, slotVars, queues, owner, locals
  <2>5. AllOwned'
    <3>1. /\ status' = status /\ conn' = conn /\ made' = made
          /\ quarantine' = quarantine \union {<<ptr[w], slot[w]>>}
          /\ \A v \in Workers : v = w \/ ptr'[v] = ptr[v]
      BY <1>1, <1>7, IsThread DEF AwaitTimeout, slotVars
    <3>2. \A k : Owned(k) => Owned(k)' \/ ptr[w] = k
      BY <3>1 DEF Owned
    <3>3. <<ptr[w], slot[w]>> \in quarantine' /\ <<ptr[w], slot[w]>>[1] = ptr[w]
      BY <3>1
    <3>4. \A k : ptr[w] = k => Owned(k)'
      BY <3>3 DEF Owned
    <3>. QED BY <1>2, <3>1, <3>2, <3>4 DEF AllOwned, Live
  <2>6. QuarantinedSlots'
    BY <1>1, <1>2, <1>7, <2>1, IsThread DEF AwaitTimeout, QuarantinedSlots, Goto, Leave,
      slotVars, queues, owner, locals
  <2>. QED BY <2>2, <2>3, <2>4, <2>5, <2>6 DEF OwnersOK
<1>8. ASSUME NEW w \in Workers, DeleteOld(w) PROVE OwnersOK'
  <2>1. slot[w] \in Slots
    BY <1>8, SlotOf, IsThread DEF DeleteOld, Resting
  <2>2. WorkersHave'
    BY <1>1, <1>2, <1>8, <2>1, IsThread DEF DeleteOld, WorkersHave, Phases, Goto, Leave,
      slotVars, queues, owner, locals
  <2>3. OwnersLive'
    BY <1>1, <1>2, <1>8, <2>1, IsThread DEF DeleteOld, WorkersHave, OwnersLive, OwnersDiffer,
      Live, Phases, Goto, Leave, slotVars, queues, owner, locals
  <2>4. OwnersDiffer'
    BY <1>1, <1>2, <1>8, <2>1, IsThread DEF DeleteOld, WorkersHave, OwnersLive, OwnersDiffer,
      Live, Phases, Goto, Leave, slotVars, queues, owner, locals
  <2>5. AllOwned'
    BY <1>1, <1>2, <1>8, <2>1, IsThread DEF DeleteOld, WorkersHave, OwnersLive, OwnersDiffer,
      AllOwned, Owned, Live, Phases, Goto, Leave, slotVars, queues, owner, locals
  <2>6. QuarantinedSlots'
    BY <1>1, <1>2, <1>8, <2>1, IsThread DEF DeleteOld, QuarantinedSlots, Goto, Leave,
      slotVars, queues, owner, locals
  <2>. QED BY <2>2, <2>3, <2>4, <2>5, <2>6 DEF OwnersOK
<1>9. CASE Purge
  <2>1. WorkersHave'
    BY <1>1, <1>2, <1>9, IsThread DEF Purge, HealthStopped, WorkersHave, Phases, Goto, Leave,
      slotVars, queues, owner, locals
  <2>2. OwnersLive'
    <3>1. /\ quarantine' \subseteq quarantine /\ UNCHANGED <<conn, ptr, made>>
          /\ \A k \in Conns : status'[k] = status[k] \/ \E q \in quarantine \ quarantine' : q[1] = k
      BY <1>1, <1>9, PurgeStatus DEF Purge, slotVars
    <3>. QED BY <1>1, <1>2, <3>1, IsThread DEF OwnersLive, OwnersDiffer, Live
  <2>3. OwnersDiffer'
    BY <1>1, <1>2, <1>9, IsThread DEF Purge, HealthStopped, WorkersHave, OwnersLive,
      OwnersDiffer, Live, Phases, Goto, Leave, slotVars, queues, owner, locals
  <2>4. AllOwned'
    BY <1>1, <1>2, <1>9, IsThread DEF Purge, HealthStopped, WorkersHave, OwnersLive,
      OwnersDiffer, AllOwned, Owned, Live, Phases, Goto, Leave, slotVars, queues, owner,
      locals
  <2>5. QuarantinedSlots'
    BY <1>1, <1>2, <1>9, IsThread DEF Purge, HealthStopped, QuarantinedSlots, Goto, Leave,
      slotVars, queues, owner, locals
  <2>. QED BY <2>1, <2>2, <2>3, <2>4, <2>5 DEF OwnersOK
<1>10. CASE InitPool
  <2>1. WorkersHave'
    BY <1>1, <1>2, <1>10, IsThread DEF InitPool, FirstLabel, CreateThread, JoinFlag,
      ManagerOf, Managers, WorkersHave, Phases, Goto, Leave, slotVars, queues, owner, locals
  <2>2. OwnersLive'
    <3>1. phase = "new" /\ UNCHANGED <<made, ptr, quarantine>>
      BY <1>10 DEF InitPool, locals
    <3>2. /\ \A w \in Workers : made[w] = NoConn /\ ptr[w] = NoConn
          /\ quarantine = {}
      <4>1. \A w \in Workers : made[w] = NoConn /\ ptr[w] = NoConn
        BY <1>2, <3>1 DEF Phases, WorkersHave
      <4>2. \A q \in quarantine : q[1] \in Conns
        BY <1>1
      <4>3. \A k \in Conns : ~Live(k)
        BY <1>2, <3>1 DEF Phases, Live
      <4>. QED BY <1>2, <4>1, <4>2, <4>3 DEF OwnersLive
    <3>3. \/ conn' = conn /\ status' = status
          \/ /\ conn' = [s \in Slots |-> s]
             /\ status' = [k \in Conns |-> IF k \in Slots THEN "open" ELSE "fresh"]
      BY <1>10 DEF InitPool
    <3>4. Slots \subseteq Conns
      BY SizeAssumption DEF Slots, Conns
    <3>. QED BY <1>2, <3>1, <3>2, <3>3, <3>4 DEF OwnersLive, Live
  <2>3. OwnersDiffer'
    BY <1>1, <1>2, <1>10, IsThread DEF InitPool, FirstLabel, CreateThread, JoinFlag,
      ManagerOf, Managers, WorkersHave, OwnersLive, OwnersDiffer, Live, Phases, Goto, Leave,
      slotVars, queues, owner, locals
  <2>4. AllOwned'
    BY <1>1, <1>2, <1>10, IsThread DEF InitPool, FirstLabel, CreateThread, JoinFlag,
      ManagerOf, Managers, WorkersHave, OwnersLive, OwnersDiffer, AllOwned, Owned, Live,
      Phases, Goto, Leave, slotVars, queues, owner, locals
  <2>5. QuarantinedSlots'
    BY <1>1, <1>2, <1>10, IsThread DEF InitPool, FirstLabel, CreateThread, JoinFlag,
      ManagerOf, Managers, QuarantinedSlots, Goto, Leave, slotVars, queues, owner, locals
  <2>. QED BY <2>1, <2>2, <2>3, <2>4, <2>5 DEF OwnersOK
<1>11. CASE Clear
  <2>1. WorkersHave'
    BY <1>1, <1>2, <1>11, IsThread DEF Clear, JoinFlag, Managers, Ended, WorkersHave, Phases,
      Goto, Leave, slotVars, queues, owner, locals
  <2>2. OwnersLive'
    BY <1>1, <1>2, <1>11, IsThread DEF Clear, JoinFlag, Managers, Ended, WorkersHave,
      OwnersLive, OwnersDiffer, Live, Phases, Goto, Leave, slotVars, queues, owner, locals
  <2>3. OwnersDiffer'
    BY <1>1, <1>2, <1>11, IsThread DEF Clear, JoinFlag, Managers, Ended, WorkersHave,
      OwnersLive, OwnersDiffer, Live, Phases, Goto, Leave, slotVars, queues, owner, locals
  <2>4. AllOwned'
    <3>1. \A w \in Workers : made[w] = NoConn /\ ptr[w] = NoConn
      BY <1>2, <1>11 DEF Clear, Ended, WorkersHave
    <3>2. status' = [k \in Conns |->
            IF Leaked(k) THEN "abandoned" ELSE IF Held(k) THEN "deleted" ELSE status[k]]
      BY <1>11 DEF Clear
    <3>3. ASSUME NEW k \in Conns, Live(k)' PROVE FALSE
      <4>1. k \notin Range(conn) /\ ~(\E q \in quarantine : q[1] = k) /\ Live(k)
        BY <1>1, <3>2, <3>3 DEF Live, Held
      <4>2. \A s \in Slots : conn[s] # k
        BY <1>1, <4>1 DEF Range
      <4>3. k # NoConn
        BY DEF Conns, NoConn
      <4>. QED BY <1>2, <3>1, <4>1, <4>2, <4>3 DEF AllOwned, Owned
    <3>. QED BY <3>3 DEF AllOwned
  <2>5. QuarantinedSlots'
    BY <1>1, <1>2, <1>11, IsThread DEF Clear, JoinFlag, Managers, Ended, QuarantinedSlots,
      Goto, Leave, slotVars, queues, owner, locals
  <2>. QED BY <2>1, <2>2, <2>3, <2>4, <2>5 DEF OwnersOK
<1>12. ASSUME NEW k \in Conns, Break(k) PROVE OwnersOK'
  <2>1. WorkersHave'
    BY <1>1, <1>2, <1>12, IsThread DEF Break, WorkersHave, Phases, Goto, Leave, slotVars,
      queues, owner, locals
  <2>2. OwnersLive'
    BY <1>1, <1>2, <1>12, IsThread DEF Break, WorkersHave, OwnersLive, OwnersDiffer, Live,
      Phases, Goto, Leave, slotVars, queues, owner, locals
  <2>3. OwnersDiffer'
    BY <1>1, <1>2, <1>12, IsThread DEF Break, WorkersHave, OwnersLive, OwnersDiffer, Live,
      Phases, Goto, Leave, slotVars, queues, owner, locals
  <2>4. AllOwned'
    BY <1>1, <1>2, <1>12, IsThread DEF Break, WorkersHave, OwnersLive, OwnersDiffer,
      AllOwned, Owned, Live, Phases, Goto, Leave, slotVars, queues, owner, locals
  <2>5. QuarantinedSlots'
    BY <1>1, <1>2, <1>12, IsThread DEF Break, QuarantinedSlots, Goto, Leave, slotVars,
      queues, owner, locals
  <2>. QED BY <2>1, <2>2, <2>3, <2>4, <2>5 DEF OwnersOK
<1>. QED BY <1>3, <1>4, <1>5, <1>6, <1>7, <1>8, <1>9, <1>10, <1>11, <1>12, OwnersStill DEF
  OwnersOK, Hands

-----------------------------------------------------------------------------

(* A step that takes no reference and gives none back.                       *)
RefsStill ==
  /\ ref' = ref
  /\ \A c \in Clients : (Refers(c)' <=> Refers(c)) /\ (Refers(c) => slot'[c] = slot[c])

(* The other steps.                                                          *)
Refs == \E c \in Clients :
  \/ PopCas(c) \/ PopUndo(c) \/ GetUndo(c) \/ ReleaseSub(c) \/ \E s \in Slots : GetOdbcConn(c, s)

(* Every step is of one of these sorts.                                      *)
LEMMA RefsStillStep ==
  ASSUME TypeOK, ThreadsOK, Next
  PROVE  RefsStill \/ Refs
<1>1. /\ pc \in [Threads -> Labels]
      /\ slot \in [Threads -> Slots \union {NoSlot}]
      /\ ref \in [Slots -> Int]
  BY DEF TypeOK, Labels
<1>2. ASSUME NEW c \in Clients, Borrow(c) \/ PopFront(c) \/ PopUnflag(c) \/ PopLoad(c)
      PROVE RefsStill \/ Refs
  BY <1>1, <1>2, IsThread DEF Borrow, PopFront, PopUnflag, PopLoad, RefsStill, Refers, Goto,
    Leave, LoadConn, slotVars, queues, owner, locals
<1>3. ASSUME NEW c \in Clients, PopCheck(c) \/ GuardLoad(c) \/ GetLoad(c) \/ GetCheck(c)
      PROVE RefsStill \/ Refs
  BY <1>1, <1>3, IsThread DEF PopCheck, GuardLoad, GetLoad, GetCheck, Sees,
    Connected, RefsStill, Refers, Goto, Leave, LoadConn, slotVars, queues, owner, locals
<1>4. ASSUME NEW c \in Clients, ReleaseLoad(c) \/ ReleaseCheck(c)
      PROVE RefsStill \/ Refs
  BY <1>1, <1>4, IsThread DEF ReleaseLoad, ReleaseCheck, Sees, Connected, RefsStill,
    Refers, Goto, Leave, LoadConn, slotVars, queues, owner, locals
<1>5. ASSUME NEW t \in Clients \union Workers, EnqueueFlag(t) \/ EnqueuePush(t)
      PROVE RefsStill \/ Refs
  BY <1>1, <1>5, IsThread DEF EnqueueFlag, EnqueuePush, Resume, RefsStill, Refers, Goto,
    Leave, LoadConn, slotVars, queues, owner, locals
<1>6. ASSUME NEW w \in Workers, WorkerWait(w) \/ WorkerSleep(w) \/ CheckRef(w) \/
  Reconnect(w)
      PROVE RefsStill \/ Refs
  BY <1>1, <1>6, IsThread DEF WorkerWait, WorkerSleep, CheckRef, Reconnect, Fresh, RefsStill,
    Refers, Goto, Leave, LoadConn, slotVars, queues, owner, locals
<1>7. ASSUME NEW w \in Workers, Retry(w) \/ Unmark(w) \/ ApplyCheck(w) \/ Swap(w)
      PROVE RefsStill \/ Refs
  BY <1>1, <1>7, IsThread DEF Retry, Unmark, ApplyCheck, Swap, RefsStill, Refers, Goto,
    Leave, LoadConn, slotVars, queues, owner, locals
<1>8. ASSUME NEW w \in Workers, AwaitUnused(w) \/ AwaitTimeout(w) \/ DeleteOld(w) \/
  Succeed(w)
      PROVE RefsStill \/ Refs
  BY <1>1, <1>8, IsThread DEF AwaitUnused, AwaitTimeout, DeleteOld, Succeed, RefsStill,
    Refers, Goto, Leave, LoadConn, slotVars, queues, owner, locals
<1>9. CASE Purge \/ StopHealth \/ StopDelayed \/ StopWorkers
  BY <1>1, <1>9, IsThread DEF Purge, StopHealth, StopDelayed, StopWorkers, HealthStopped,
    JoinFlag, Managers, Ended, RefsStill, Refers, Goto, Leave, LoadConn, slotVars, queues,
    owner, locals
<1>10. CASE Clear
  BY <1>1, <1>10, IsThread DEF Clear, JoinFlag, Managers, Ended, RefsStill, Refers, Goto,
    Leave, LoadConn, slotVars, queues, owner, locals
<1>11. ASSUME NEW k \in Conns, Break(k)
      PROVE RefsStill \/ Refs
  BY <1>1, <1>11, IsThread DEF Break, RefsStill, Refers, Goto, Leave, LoadConn, slotVars,
    queues, owner, locals
<1>12. ASSUME NEW c \in Clients, PopCas(c)
      PROVE RefsStill \/ Refs
  BY <1>12 DEF Refs
<1>13. ASSUME NEW c \in Clients, PopUndo(c)
      PROVE RefsStill \/ Refs
  BY <1>13 DEF Refs
<1>14. ASSUME NEW c \in Clients, NEW s \in Slots, GetOdbcConn(c, s)
      PROVE RefsStill \/ Refs
  BY <1>14 DEF Refs
<1>15. ASSUME NEW c \in Clients, GetUndo(c)
      PROVE RefsStill \/ Refs
  BY <1>15 DEF Refs
<1>16. ASSUME NEW c \in Clients, ReleaseSub(c)
      PROVE RefsStill \/ Refs
  BY <1>16 DEF Refs
<1>17. CASE InitPool
  <2>1. ref' = ref /\ slot' = slot
    BY <1>17 DEF InitPool, locals
  <2>2. \A c \in Clients : pc'[c] = pc[c]
    BY <1>1, <1>17, IsThread, ThreadsAssumption DEF InitPool, Background, Clients
  <2>. QED BY <2>1, <2>2 DEF RefsStill, Refers
<1>18. CASE Aside
  BY <1>18, IsThread DEF Aside, RefsStill, Refers, Putters
<1>. QED BY <1>2, <1>3, <1>4, <1>5, <1>6, <1>7, <1>8, <1>9, <1>10, <1>11, <1>12, <1>13,
  <1>14, <1>15, <1>16, <1>17, <1>18, LoopsAside DEF Next, Client, Worker

(* Whom a count counts, by the label only.                                   *)
LEMMA ReferrersAre == \A s : Referrers(s) = {c \in Clients : slot[c] = s /\ Refers(c)}
  BY DEF Referrers, Refers

LEMMA ReferrersAreNext == \A s : Referrers(s)' = {c \in Clients : slot'[c] = s /\ Refers(c)'}
  BY DEF Referrers, Refers

LEMMA ReferrersFinite == \A s : IsFiniteSet(Referrers(s)) /\ Cardinality(Referrers(s)) \in Nat
  BY ClientsFinite, FS_Subset, FS_CardinalityType DEF Referrers, Clients

(* A client takes a reference, and gives it back.                            *)
(* One client more refers to a slot, and one less.                           *)
LEMMA Joins ==
  ASSUME RefCounted, ref \in [Slots -> Int], NEW c \in Clients, NEW s \in Slots,
         ~Refers(c), Refers(c)', slot'[c] = s, ref' = [ref EXCEPT ![s] = @ + 1],
         \A d \in Clients \ {c} : slot'[d] = slot[d] /\ (Refers(d)' <=> Refers(d))
  PROVE  RefCounted'
<1>1. c \notin Referrers(s) /\ \A r \in Slots : c \notin Referrers(r)
  BY ReferrersAre
<1>2. Referrers(s)' = Referrers(s) \union {c}
  BY ReferrersAre, ReferrersAreNext
<1>3. \A r \in Slots \ {s} : Referrers(r)' = Referrers(r)
  BY ReferrersAre, ReferrersAreNext, <1>1
<1>4. Cardinality(Referrers(s) \union {c}) = Cardinality(Referrers(s)) + 1
  BY <1>1, ReferrersFinite, FS_AddElement
<1>5. ref[s] = Cardinality(Referrers(s)) /\ ref'[s] = ref[s] + 1
  BY DEF RefCounted
<1>6. \A r \in Slots \ {s} : ref'[r] = Cardinality(Referrers(r))
  BY DEF RefCounted
<1>7. ref'[s] = Cardinality(Referrers(s)')
  BY <1>2, <1>4, <1>5
<1>8. \A r \in Slots : ref'[r] = Cardinality(Referrers(r)')
  BY <1>3, <1>6, <1>7
<1>. QED BY <1>8 DEF RefCounted

LEMMA LetsGo ==
  ASSUME RefCounted, ref \in [Slots -> Int], NEW c \in Clients, NEW s \in Slots,
         Refers(c), ~Refers(c)', slot[c] = s, ref' = [ref EXCEPT ![s] = @ - 1],
         \A d \in Clients \ {c} : slot'[d] = slot[d] /\ (Refers(d)' <=> Refers(d))
  PROVE  RefCounted'
<1>1. c \in Referrers(s) /\ \A r \in Slots : r # s => c \notin Referrers(r)
  BY ReferrersAre
<1>2. Referrers(s)' = Referrers(s) \ {c}
  BY ReferrersAre, ReferrersAreNext
<1>3. \A r \in Slots \ {s} : Referrers(r)' = Referrers(r)
  BY ReferrersAre, ReferrersAreNext, <1>1
<1>4. Cardinality(Referrers(s) \ {c}) = Cardinality(Referrers(s)) - 1
  BY <1>1, ReferrersFinite, FS_RemoveElement
<1>5. ref[s] = Cardinality(Referrers(s)) /\ ref'[s] = ref[s] - 1
  BY DEF RefCounted
<1>6. \A r \in Slots \ {s} : ref'[r] = Cardinality(Referrers(r))
  BY DEF RefCounted
<1>7. ref'[s] = Cardinality(Referrers(s)')
  BY <1>2, <1>4, <1>5
<1>8. \A r \in Slots : ref'[r] = Cardinality(Referrers(r)')
  BY <1>3, <1>6, <1>7
<1>. QED BY <1>8 DEF RefCounted

(* A slot without a count has no client that refers to it, and with one it   *)
(* has one.                                                                  *)
(* What an exact count says of the clients.                                  *)
LEMMA CountMeans ==
  ASSUME RefCounted, NEW s \in Slots
  PROVE  /\ ref[s] \in Nat
         /\ ref[s] = 0 <=> \A c \in Clients : Refers(c) => slot[c] # s
         /\ \A c \in Clients : Refers(c) /\ slot[c] = s /\ ref[s] = 1
              => \A d \in Clients : Refers(d) /\ slot[d] = s => d = c
         /\ \A c \in Clients :
              /\ Refers(c) /\ slot[c] = s
              /\ \A d \in Clients : Refers(d) /\ slot[d] = s => d = c
              => ref[s] = 1
<1>1. ref[s] = Cardinality(Referrers(s)) /\ ref[s] \in Nat
  BY ReferrersFinite DEF RefCounted
<1>2. ref[s] = 0 <=> Referrers(s) = {}
  BY <1>1, ReferrersFinite, FS_EmptySet
<1>3. ref[s] = 0 <=> \A c \in Clients : Refers(c) => slot[c] # s
  BY <1>2, ReferrersAre
<1>4. ASSUME NEW c \in Clients, Refers(c), slot[c] = s, ref[s] = 1,
             NEW d \in Clients, Refers(d), slot[d] = s
      PROVE  d = c
  <2>1. c \in Referrers(s) /\ d \in Referrers(s)
    BY <1>4, ReferrersAre
  <2>2. /\ IsFiniteSet(Referrers(s) \ {c})
        /\ Cardinality(Referrers(s) \ {c}) = Cardinality(Referrers(s)) - 1
    BY <2>1, ReferrersFinite, FS_RemoveElement
  <2>4. Cardinality(Referrers(s) \ {c}) = 0
    BY <1>1, <1>4, <2>2
  <2>3. Referrers(s) \ {c} = {}
    BY <2>2, <2>4, FS_EmptySet
  <2>. QED BY <2>1, <2>3
<1>5. ASSUME NEW c \in Clients, Refers(c), slot[c] = s,
             \A d \in Clients : Refers(d) /\ slot[d] = s => d = c
      PROVE  ref[s] = 1
  <2>1. Referrers(s) = {c}
    BY <1>5, ReferrersAre
  <2>. QED BY <1>1, <2>1, FS_Singleton
<1>. QED BY <1>1, <1>3, <1>4, <1>5

(* The counts stay exact.  A guard that finds no connected slot stores zero: *)
(* with guards only the count was one, its own.                              *)
LEMMA CountedStep ==
  ASSUME OneKind, TypeOK, ThreadsOK, Counted, Next
  PROVE  Counted'
<1>1. /\ pc \in [Threads -> Labels] /\ slot \in [Threads -> Slots \union {NoSlot}]
      /\ ref \in [Slots -> Int]
  BY DEF TypeOK, Labels
<1>2. RefCounted /\ (Namers = {} => OneReferrer)
  BY DEF Counted, OneReferrer
<1>3. CASE RefsStill
  <2>1. \A s : Referrers(s)' = Referrers(s)
    BY <1>3, ReferrersAre, ReferrersAreNext DEF RefsStill
  <2>2. ref' = ref
    BY <1>3 DEF RefsStill
  <2>3. RefCounted'
    BY <1>2, <2>1, <2>2 DEF RefCounted
  <2>. QED BY <1>2, <1>3, <2>3 DEF Counted, OneReferrer, RefsStill
<1>4. ASSUME NEW c \in Clients, PopCas(c) PROVE Counted'
  <2>1. slot[c] \in Slots
    BY <1>4, SlotOf, IsThread DEF PopCas, Resting
  <2>2. CASE ref[slot[c]] # 0
    <3>1. /\ ref' = ref /\ ~Refers(c) /\ ~Refers(c)'
          /\ \A d \in Clients \ {c} : slot'[d] = slot[d] /\ (Refers(d)' <=> Refers(d))
      BY <1>1, <1>4, <2>2, IsThread DEF PopCas, Leave, Goto, Refers, slotVars
    <3>2. \A s : Referrers(s)' = Referrers(s)
      BY <3>1, ReferrersAre, ReferrersAreNext
    <3>3. RefCounted'
      BY <1>2, <3>1, <3>2 DEF RefCounted
    <3>. QED BY <1>2, <3>1, <3>3 DEF Counted, OneReferrer
  <2>3. CASE ref[slot[c]] = 0
    <3>1. /\ ~Refers(c) /\ Refers(c)' /\ slot' = slot
          /\ \A d \in Clients \ {c} : Refers(d)' <=> Refers(d)
          /\ ref' = [ref EXCEPT ![slot[c]] = 1]
      BY <1>1, <1>4, <2>3, IsThread DEF PopCas, Goto, Refers, locals
    <3>2. ref' = [ref EXCEPT ![slot[c]] = @ + 1]
      BY <2>3, <3>1
    <3>3. PICK s \in Slots : s = slot[c]
      BY <2>1
    <3>4. RefCounted'
      BY <1>1, <1>2, <3>1, <3>2, <3>3, Joins
    <3>5. \A d \in Clients : Refers(d) => slot[d] # slot[c]
      BY <1>2, <2>1, <2>3, CountMeans
    <3>. QED BY <1>2, <3>1, <3>4, <3>5 DEF Counted, OneReferrer
  <2>. QED BY <2>2, <2>3
<1>5. ASSUME NEW c \in Clients, PopUndo(c) PROVE Counted'
  <2>1. slot[c] \in Slots
    BY <1>5, SlotOf, IsThread DEF PopUndo, Resting
  <2>2. Namers = {}
    BY <1>5 DEF OneKind, PopUndo, ThreadsOK, ClientsOK, PopLabels
  <2>3. /\ Refers(c) /\ ~Refers(c)' /\ ref' = [ref EXCEPT ![slot[c]] = 0]
        /\ \A d \in Clients \ {c} : slot'[d] = slot[d] /\ (Refers(d)' <=> Refers(d))
    BY <1>1, <1>5, IsThread DEF PopUndo, Leave, Goto, Refers
  <2>4. ref[slot[c]] = 1
    BY <1>2, <2>1, <2>2, <2>3, CountMeans DEF OneReferrer
  <2>5. ref' = [ref EXCEPT ![slot[c]] = @ - 1]
    BY <2>3, <2>4
  <2>6. PICK s \in Slots : s = slot[c]
    BY <2>1
  <2>7. RefCounted'
    BY <1>1, <1>2, <2>3, <2>5, <2>6, LetsGo
  <2>. QED BY <1>2, <2>3, <2>7 DEF Counted, OneReferrer
<1>6. ASSUME NEW c \in Clients, NEW s \in Slots, GetOdbcConn(c, s) PROVE Counted'
  <2>1. /\ ~Refers(c) /\ Refers(c)' /\ ref' = [ref EXCEPT ![s] = @ + 1] /\ slot'[c] = s
        /\ \A d \in Clients \ {c} : slot'[d] = slot[d] /\ (Refers(d)' <=> Refers(d))
    BY <1>1, <1>6, IsThread DEF GetOdbcConn, Goto, Refers
  <2>2. RefCounted'
    BY <1>1, <1>2, <2>1, Joins
  <2>. QED BY <1>6, <2>2 DEF Counted, GetOdbcConn
<1>7. ASSUME NEW c \in Clients, GetUndo(c) \/ ReleaseSub(c) PROVE Counted'
  <2>1. slot[c] \in Slots
    BY <1>7, SlotOf, IsThread DEF GetUndo, ReleaseSub, Resting
  <2>2. /\ Refers(c) /\ ~Refers(c)' /\ ref' = [ref EXCEPT ![slot[c]] = @ - 1]
        /\ \A d \in Clients \ {c} : slot'[d] = slot[d] /\ (Refers(d)' <=> Refers(d))
    BY <1>1, <1>7, IsThread DEF GetUndo, ReleaseSub, Leave, Goto, Refers, locals
  <2>3. PICK s \in Slots : s = slot[c]
    BY <2>1
  <2>4. RefCounted'
    BY <1>1, <1>2, <2>2, <2>3, LetsGo
  <2>. QED BY <1>2, <2>2, <2>4 DEF Counted, OneReferrer
<1>. QED BY <1>3, <1>4, <1>5, <1>6, <1>7, RefsStillStep DEF Refs

-----------------------------------------------------------------------------

(* What a client has read is not deleted, unless by force: nobody deletes a  *)
(* connection in a slot, and a replaced one is kept while the slot is        *)
(* referred to.                                                              *)
LEMMA ReadersLive ==
  ASSUME TypeOK, ThreadsOK, OwnersOK, ReadersSafe, NEW c \in Clients, Reads(c)
  PROVE  ptr[c] \in Conns /\ (Live(ptr[c]) \/ Forced(ptr[c], slot[c]))
<1>1. ptr[c] \in Conns
  BY IsThread DEF TypeOK, ReadersSafe
<1>2. /\ ptr[c] # NoConn
      /\ conn[slot[c]] = ptr[c] \/ Replaced(ptr[c], slot[c]) \/ Forced(ptr[c], slot[c])
  BY DEF ReadersSafe
<1>3. CASE conn[slot[c]] = ptr[c]
  <2>1. slot[c] \in Slots
    <3>1. pc[c] \notin Resting
      BY DEF Reads, Refers, Resting
    <3>. QED BY <3>1, SlotOf, IsThread
  <2>. QED BY <1>1, <1>2, <1>3, <2>1 DEF OwnersOK, OwnersLive
<1>4. CASE Replaced(ptr[c], slot[c])
  BY <1>1, <1>2, <1>4 DEF OwnersOK, OwnersLive, WorkersHave, Replaced
<1>. QED BY <1>1, <1>2, <1>3, <1>4

(* A client that finds its connection lost has a broken or a deleted one.    *)
LEMMA SeesDead ==
  ASSUME TypeOK, ThreadsOK, OwnersOK, ReadersSafe, NEW c \in Clients, Reads(c), NEW seen \in Sees(c)
  PROVE  seen \in BOOLEAN /\ (seen = TRUE \/ Dead(ptr[c]))
<1>1. ptr[c] \in Conns /\ ptr[c] # NoConn /\ (Live(ptr[c]) \/ Forced(ptr[c], slot[c]))
  BY ReadersLive DEF ReadersSafe
<1>2. CASE status[ptr[c]] = "forced"
  BY <1>1, <1>2 DEF Sees, Dead
<1>3. CASE status[ptr[c]] # "forced"
  <2>1. Live(ptr[c])
    BY <1>1, <1>3 DEF Forced
  <2>2. Sees(c) = {Connected(ptr[c])}
    BY <2>1 DEF Sees, Live
  <2>. QED BY <1>1, <2>1, <2>2 DEF Connected, Live, Dead
<1>. QED BY <1>2, <1>3

(* The worker waits until the count is zero; Purge deletes what nobody refers*)
(* to, or by force.                                                          *)
LEMMA ReadersSafeStep ==
  ASSUME OneKind, TypeOK, ThreadsOK, Phases, Counted, OwnersOK, ReadersSafe, Next
  PROVE  ReadersSafe'
<1>1. /\ pc \in [Threads -> Labels]
      /\ ptr \in [Threads -> Conns \union {NoConn}]
      /\ made \in [Threads -> Conns \union {NoConn}]
      /\ conn \in [Slots -> Conns \union {NoConn}]
      /\ status \in [Conns -> {"fresh", "open", "broken", "deleted", "forced", "abandoned"}]
      /\ quarantine \subseteq (Conns \X Slots) /\ timedOut \subseteq Slots
      /\ slot \in [Threads -> Slots \union {NoSlot}]
      /\ ok \in [Threads -> BOOLEAN]
  BY DEF TypeOK, Labels
<1>2. /\ ReadersSafe /\ Phases /\ WorkersHave
      /\ OwnersLive /\ OwnersDiffer
  BY DEF OwnersOK
<1>3. ASSUME NEW c \in Clients, Borrow(c) \/ PopFront(c)
      PROVE ReadersSafe'
  BY <1>1, <1>2, <1>3, IsThread DEF Borrow, PopFront, ReadersSafe, Forced, Dead, Reads, Refers, Replaced,
    OwnersLive, OwnersDiffer, WorkersHave, Live, Phases, Goto, Leave, LoadConn, slotVars,
    queues, owner, locals
<1>4. ASSUME NEW c \in Clients, PopUnflag(c) \/ PopCas(c)
      PROVE ReadersSafe'
  BY <1>1, <1>2, <1>4, IsThread DEF PopUnflag, PopCas, ReadersSafe, Forced, Dead, Reads, Refers, Replaced,
    OwnersLive, OwnersDiffer, WorkersHave, Live, Phases, Goto, Leave, LoadConn, slotVars,
    queues, owner, locals
<1>5. ASSUME NEW c \in Clients, ReleaseSub(c)
      PROVE ReadersSafe'
  <2>1. slot[c] \in Slots
    BY <1>5, SlotOf, IsThread DEF ReleaseSub, Resting
  <2>. QED BY <1>1, <1>2, <1>5, <2>1, IsThread DEF ReleaseSub, ReadersSafe, Forced, Dead, Reads, Refers,
    Replaced, OwnersLive, OwnersDiffer, WorkersHave, Live, Phases, Goto, Leave, LoadConn,
    slotVars, queues, owner, locals
<1>6. ASSUME NEW c \in Clients, NEW s \in Slots, GetOdbcConn(c, s)
      PROVE ReadersSafe'
  BY <1>1, <1>2, <1>6, IsThread DEF GetOdbcConn, ReadersSafe, Forced, Dead, Reads, Refers, Replaced,
    OwnersLive, OwnersDiffer, WorkersHave, Live, Phases, Goto, Leave, LoadConn, slotVars,
    queues, owner, locals
<1>7. ASSUME NEW t \in Clients \union Workers, EnqueueFlag(t) \/ EnqueuePush(t)
      PROVE ReadersSafe'
  BY <1>1, <1>2, <1>7, IsThread DEF EnqueueFlag, EnqueuePush, Resume, ReadersSafe, Forced, Dead, Reads,
    Refers, Replaced, OwnersLive, OwnersDiffer, WorkersHave, Live, Phases, Goto, Leave,
    LoadConn, slotVars, queues, owner, locals
<1>8. ASSUME NEW w \in Workers, WorkerWait(w) \/ WorkerSleep(w)
      PROVE ReadersSafe'
  BY <1>1, <1>2, <1>8, IsThread DEF WorkerWait, WorkerSleep, ReadersSafe, Forced, Dead, Reads, Refers,
    Replaced, OwnersLive, OwnersDiffer, WorkersHave, Live, Phases, Goto, Leave, LoadConn,
    slotVars, queues, owner, locals
<1>9. ASSUME NEW w \in Workers, CheckRef(w) \/ Reconnect(w)
      PROVE ReadersSafe'
  BY <1>1, <1>2, <1>9, IsThread DEF CheckRef, Reconnect, Fresh, ReadersSafe, Forced, Dead, Reads, Refers,
    Replaced, OwnersLive, OwnersDiffer, WorkersHave, Live, Phases, Goto, Leave, LoadConn,
    slotVars, queues, owner, locals
<1>10. ASSUME NEW w \in Workers, Retry(w) \/ Unmark(w)
      PROVE ReadersSafe'
  BY <1>1, <1>2, <1>10, IsThread DEF Retry, Unmark, ReadersSafe, Forced, Dead, Reads, Refers, Replaced,
    OwnersLive, OwnersDiffer, WorkersHave, Live, Phases, Goto, Leave, LoadConn, slotVars,
    queues, owner, locals
<1>11. ASSUME NEW w \in Workers, Succeed(w)
      PROVE ReadersSafe'
  <2>1. slot[w] \in Slots
    BY <1>11, SlotOf, IsThread DEF Succeed, Resting
  <2>. QED BY <1>1, <1>2, <1>11, <2>1, IsThread DEF Succeed, ReadersSafe, Forced, Dead, Reads, Refers,
    Replaced, OwnersLive, OwnersDiffer, WorkersHave, Live, Phases, Goto, Leave, LoadConn,
    slotVars, queues, owner, locals
<1>12. CASE StopHealth \/ StopDelayed
  BY <1>1, <1>2, <1>12, IsThread DEF StopHealth, StopDelayed, JoinFlag, Managers, Ended,
    ReadersSafe, Forced, Dead, Reads, Refers, Replaced, OwnersLive, OwnersDiffer, WorkersHave, Live,
    Phases, Goto, Leave, LoadConn, slotVars, queues, owner, locals
<1>13. CASE StopWorkers
  BY <1>1, <1>2, <1>13, IsThread DEF StopWorkers, JoinFlag, Managers, Ended, ReadersSafe, Forced, Dead,
    Reads, Refers, Replaced, OwnersLive, OwnersDiffer, WorkersHave, Live, Phases, Goto,
    Leave, LoadConn, slotVars, queues, owner, locals
<1>14. ASSUME NEW k \in Conns, Break(k)
      PROVE ReadersSafe'
  BY <1>1, <1>2, <1>14, IsThread DEF Break, ReadersSafe, Forced, Dead, Reads, Refers, Replaced, OwnersLive,
    OwnersDiffer, WorkersHave, Live, Phases, Goto, Leave, LoadConn, slotVars, queues, owner,
    locals
<1>15. ASSUME NEW c \in Clients, PopLoad(c)
      PROVE ReadersSafe'
  <2>1. slot[c] \in Slots
    BY <1>15, SlotOf, IsThread DEF PopLoad, Resting
  <2>2. conn[slot[c]] # NoConn
    BY <1>2, <1>15, <2>1 DEF PopLoad, Phases
  <2>3. /\ ptr' = [ptr EXCEPT ![c] = conn[slot[c]]] /\ slot' = slot /\ ok' = ok
        /\ UNCHANGED <<conn, quarantine, status, timedOut>>
        /\ pc'[c] \in {"PopCheck", "use", "GetCheck", "ReleaseCheck"}
        /\ \A t \in Threads \ {c} : pc'[t] = pc[t]
    BY <1>1, <1>15, IsThread DEF PopLoad, LoadConn, Goto, slotVars, queues
  <2>4. \A k, s : Replaced(k, s)' <=> Replaced(k, s)
    BY <2>3, IsThread DEF Replaced
  <2>. QED BY <1>1, <1>2, <2>1, <2>2, <2>3, <2>4, IsThread DEF ReadersSafe, Forced, Dead, Reads, Refers
<1>16. ASSUME NEW c \in Clients, GuardLoad(c)
      PROVE ReadersSafe'
  <2>1. slot[c] \in Slots
    BY <1>16, SlotOf, IsThread DEF GuardLoad, Resting
  <2>2. conn[slot[c]] # NoConn
    BY <1>2, <1>16, <2>1 DEF GuardLoad, Phases
  <2>3. /\ ptr' = [ptr EXCEPT ![c] = conn[slot[c]]] /\ slot' = slot /\ ok' = ok
        /\ UNCHANGED <<conn, quarantine, status, timedOut>>
        /\ pc'[c] \in {"PopCheck", "use", "GetCheck", "ReleaseCheck"}
        /\ \A t \in Threads \ {c} : pc'[t] = pc[t]
    BY <1>1, <1>16, IsThread DEF GuardLoad, LoadConn, Goto, slotVars, queues
  <2>4. \A k, s : Replaced(k, s)' <=> Replaced(k, s)
    BY <2>3, IsThread DEF Replaced
  <2>. QED BY <1>1, <1>2, <2>1, <2>2, <2>3, <2>4, IsThread DEF ReadersSafe, Forced, Dead, Reads, Refers
<1>17. ASSUME NEW c \in Clients, GetLoad(c)
      PROVE ReadersSafe'
  <2>1. slot[c] \in Slots
    BY <1>17, SlotOf, IsThread DEF GetLoad, Resting
  <2>2. conn[slot[c]] # NoConn
    BY <1>2, <1>17, <2>1 DEF GetLoad, Phases
  <2>3. /\ ptr' = [ptr EXCEPT ![c] = conn[slot[c]]] /\ slot' = slot /\ ok' = ok
        /\ UNCHANGED <<conn, quarantine, status, timedOut>>
        /\ pc'[c] \in {"PopCheck", "use", "GetCheck", "ReleaseCheck"}
        /\ \A t \in Threads \ {c} : pc'[t] = pc[t]
    BY <1>1, <1>17, IsThread DEF GetLoad, LoadConn, Goto, slotVars, queues
  <2>4. \A k, s : Replaced(k, s)' <=> Replaced(k, s)
    BY <2>3, IsThread DEF Replaced
  <2>. QED BY <1>1, <1>2, <2>1, <2>2, <2>3, <2>4, IsThread DEF ReadersSafe, Forced, Dead, Reads, Refers
<1>18. ASSUME NEW c \in Clients, ReleaseLoad(c)
      PROVE ReadersSafe'
  <2>1. slot[c] \in Slots
    BY <1>18, SlotOf, IsThread DEF ReleaseLoad, Resting
  <2>2. conn[slot[c]] # NoConn
    BY <1>2, <1>18, <2>1 DEF ReleaseLoad, Phases
  <2>3. /\ ptr' = [ptr EXCEPT ![c] = conn[slot[c]]] /\ slot' = slot /\ ok' = ok
        /\ UNCHANGED <<conn, quarantine, status, timedOut>>
        /\ pc'[c] \in {"PopCheck", "use", "GetCheck", "ReleaseCheck"}
        /\ \A t \in Threads \ {c} : pc'[t] = pc[t]
    BY <1>1, <1>18, IsThread DEF ReleaseLoad, LoadConn, Goto, slotVars, queues
  <2>4. \A k, s : Replaced(k, s)' <=> Replaced(k, s)
    BY <2>3, IsThread DEF Replaced
  <2>. QED BY <1>1, <1>2, <2>1, <2>2, <2>3, <2>4, IsThread DEF ReadersSafe, Forced, Dead, Reads, Refers
<1>19. ASSUME NEW c \in Clients, PopCheck(c)
      PROVE ReadersSafe'
  <2>1. PICK seen \in Sees(c) :
               pc' = [pc EXCEPT ![c] = IF seen THEN "GuardLoad" ELSE "PopUndo"]
    BY <1>19 DEF PopCheck, Goto
  <2>2. pc[c] = "PopCheck" /\ seen \in BOOLEAN /\ (seen = TRUE \/ Dead(ptr[c]))
    BY <1>19, SeesDead DEF PopCheck, Reads, Refers
  <2>3. /\ UNCHANGED <<ptr, slot, ok, conn, quarantine, status, timedOut>>
        /\ pc'[c] = "GuardLoad" \/ (pc'[c] = "PopUndo" /\ Dead(ptr[c]))
        /\ \A t \in Threads \ {c} : pc'[t] = pc[t]
    BY <1>1, <1>19, <2>1, <2>2, IsThread DEF PopCheck, slotVars, queues, locals
  <2>4. \A k, s : Replaced(k, s)' <=> Replaced(k, s)
    BY <2>3, IsThread DEF Replaced
  <2>. QED BY <1>1, <1>2, <2>1, <2>2, <2>3, <2>4, IsThread DEF ReadersSafe, Forced, Dead, Reads, Refers
<1>20. ASSUME NEW c \in Clients, GetCheck(c)
      PROVE ReadersSafe'
  <2>1. PICK seen \in Sees(c) :
               pc' = [pc EXCEPT ![c] = IF seen THEN "use" ELSE "GetUndo"]
    BY <1>20 DEF GetCheck, Goto
  <2>2. pc[c] = "GetCheck" /\ seen \in BOOLEAN /\ (seen = TRUE \/ Dead(ptr[c]))
    BY <1>20, SeesDead DEF GetCheck, Reads, Refers
  <2>3. /\ UNCHANGED <<ptr, slot, ok, conn, quarantine, status, timedOut>>
        /\ pc'[c] = "use" \/ (pc'[c] = "GetUndo" /\ Dead(ptr[c]))
        /\ \A t \in Threads \ {c} : pc'[t] = pc[t]
    BY <1>1, <1>20, <2>1, <2>2, IsThread DEF GetCheck, slotVars, queues, locals
  <2>4. \A k, s : Replaced(k, s)' <=> Replaced(k, s)
    BY <2>3, IsThread DEF Replaced
  <2>. QED BY <1>1, <1>2, <2>1, <2>2, <2>3, <2>4, IsThread DEF ReadersSafe, Forced, Dead, Reads, Refers
<1>21. ASSUME NEW c \in Clients, PopUndo(c)
      PROVE ReadersSafe'
  <2>1. /\ UNCHANGED <<conn, quarantine, status, timedOut>> /\ pc'[c] \in {"PopFront", "idle"}
        /\ \A t \in Threads \ {c} : pc'[t] = pc[t] /\ ptr'[t] = ptr[t] /\ slot'[t] = slot[t] /\ ok'[t] = ok[t]
    BY <1>1, <1>21, IsThread DEF PopUndo, Leave, Goto, slotVars, queues
  <2>2. \A k, s : Replaced(k, s)' <=> Replaced(k, s)
    BY <2>1, IsThread DEF Replaced
  <2>. QED BY <1>1, <1>2, <2>1, <2>2, IsThread DEF ReadersSafe, Forced, Dead, Reads, Refers
<1>22. ASSUME NEW c \in Clients, GetUndo(c)
      PROVE ReadersSafe'
  <2>1. /\ UNCHANGED <<conn, quarantine, status, timedOut>> /\ pc'[c] \in {"PopFront", "idle"}
        /\ \A t \in Threads \ {c} : pc'[t] = pc[t] /\ ptr'[t] = ptr[t] /\ slot'[t] = slot[t] /\ ok'[t] = ok[t]
    BY <1>1, <1>22, IsThread DEF GetUndo, Leave, Goto, slotVars, queues
  <2>2. \A k, s : Replaced(k, s)' <=> Replaced(k, s)
    BY <2>1, IsThread DEF Replaced
  <2>. QED BY <1>1, <1>2, <2>1, <2>2, IsThread DEF ReadersSafe, Forced, Dead, Reads, Refers
<1>23. ASSUME NEW w \in Workers, Swap(w)
      PROVE ReadersSafe'
  <2>1. slot[w] \in Slots
    BY <1>23, SlotOf, IsThread DEF Swap, Resting
  <2>2. /\ pc[w] = "Swap" /\ ptr' = [ptr EXCEPT ![w] = conn[slot[w]]]
        /\ conn' = [conn EXCEPT ![slot[w]] = made[w]]
        /\ UNCHANGED <<slot, ok, quarantine, status, timedOut>>
        /\ conn[slot[w]] # NoConn => pc'[w] = "AwaitUnused"
        /\ \A t \in Threads \ {w} : pc'[t] = pc[t]
    BY <1>1, <1>23, <2>1, IsThread DEF Swap, Goto, queues
  <2>3. \A c \in Clients : pc'[c] = pc[c] /\ ptr'[c] = ptr[c]
    BY <1>1, <2>2, IsThread
  <2>4. \A k, s : Replaced(k, s) => Replaced(k, s)'
    BY <1>1, <2>2, IsThread DEF Replaced
  <2>5. ASSUME NEW k, NEW s, k = conn[slot[w]], s = slot[w], k # NoConn
        PROVE  Replaced(k, s)'
    <3>1. pc'[w] = "AwaitUnused" /\ slot'[w] = s /\ ptr'[w] = k
      BY <1>1, <2>2, <2>5, IsThread
    <3>. QED BY <3>1 DEF Replaced
  <2>6. ASSUME NEW c \in Clients, Reads(c)
        PROVE  \A k, s : k = ptr[c] /\ s = slot[c] => conn'[s] = k \/ Replaced(k, s)' \/ Forced(k, s)'
    <3>1. slot[c] \in Slots
      <4>1. pc[c] \notin Resting
        BY <2>6 DEF Reads, Refers, Resting
      <4>. QED BY <4>1, SlotOf, IsThread
    <3>2. /\ ptr[c] # NoConn
          /\ conn[slot[c]] = ptr[c] \/ Replaced(ptr[c], slot[c]) \/ Forced(ptr[c], slot[c])
      BY <1>2, <2>6 DEF ReadersSafe
    <3>3. CASE Forced(ptr[c], slot[c])
      BY <2>2, <3>3 DEF Forced
    <3>4. CASE slot[c] = slot[w] /\ ~Forced(ptr[c], slot[c])
      BY <2>4, <2>5, <3>2, <3>4
    <3>5. CASE slot[c] # slot[w] /\ ~Forced(ptr[c], slot[c])
      BY <1>1, <2>2, <2>4, <3>1, <3>2, <3>5
    <3>. QED BY <3>3, <3>4, <3>5
  <2>7. \A c \in Clients : Reads(c)' => Reads(c)
    BY <2>3 DEF Reads, Refers
  <2>8. \A k : Dead(k)' <=> Dead(k)
    BY <2>2 DEF Dead
  <2>. QED BY <1>2, <2>2, <2>3, <2>6, <2>7, <2>8 DEF ReadersSafe
<1>24. ASSUME NEW w \in Workers, AwaitTimeout(w)
      PROVE ReadersSafe'
  <2>1. /\ quarantine' = quarantine \union {<<ptr[w], slot[w]>>}
        /\ ptr' = [ptr EXCEPT ![w] = NoConn]
        /\ timedOut \subseteq timedOut' /\ UNCHANGED <<slot, ok, conn, status>>
        /\ \A t \in Threads \ {w} : pc'[t] = pc[t]
    BY <1>1, <1>24, IsThread DEF AwaitTimeout, Goto, slotVars
  <2>2. \A c \in Clients : pc'[c] = pc[c] /\ ptr'[c] = ptr[c]
    BY <1>1, <2>1, IsThread
  <2>3. ASSUME NEW k, NEW s, Replaced(k, s) PROVE Replaced(k, s)'
    BY <1>1, <2>1, <2>3, IsThread DEF Replaced
  <2>. QED BY <1>2, <2>1, <2>2, <2>3 DEF ReadersSafe, Forced, Dead, Reads, Refers
<1>25. ASSUME NEW c \in Clients, ReleaseCheck(c)
      PROVE ReadersSafe'
  <2>1. PICK seen \in Sees(c) : ok' = [ok EXCEPT ![c] = seen]
    BY <1>25 DEF ReleaseCheck
  <2>2. pc[c] = "ReleaseCheck" /\ seen \in BOOLEAN /\ (seen = TRUE \/ Dead(ptr[c]))
    BY <1>25, SeesDead DEF ReleaseCheck, Reads, Refers
  <2>3. /\ UNCHANGED <<ptr, slot, conn, quarantine, status, timedOut>>
        /\ ok'[c] \/ Dead(ptr[c])
        /\ \A d \in Clients \ {c} : ok'[d] = ok[d] /\ pc'[d] = pc[d]
        /\ pc'[c] = "ReleaseSub" /\ \A w \in Workers : pc'[w] = pc[w]
    BY <1>1, <1>25, <2>1, <2>2, IsThread DEF ReleaseCheck, Goto, slotVars, queues
  <2>. QED BY <1>2, <2>2, <2>3 DEF ReadersSafe, Forced, Dead, Reads, Refers, Replaced
<1>26. ASSUME NEW w \in Workers, ApplyCheck(w)
      PROVE ReadersSafe'
  <2>1. CASE ref[slot[w]] > 0
    <3>1. /\ status' = [status EXCEPT ![made[w]] = "deleted"]
          /\ UNCHANGED <<ptr, slot, conn, quarantine, ok, timedOut>>
          /\ pc[w] = "ApplyCheck" /\ pc'[w] # "AwaitUnused"
          /\ \A t \in Threads \ {w} : pc'[t] = pc[t]
      BY <1>1, <1>26, <2>1, IsThread DEF ApplyCheck, Goto, slotVars, queues
    <3>2. \A c \in Clients : Reads(c) => ptr[c] # made[w]
      <4> SUFFICES ASSUME NEW c \in Clients, Reads(c) PROVE ptr[c] # made[w]
        OBVIOUS
      <4>1. slot[c] \in Slots
        <5>1. pc[c] \notin Resting
          BY DEF Reads, Refers, Resting
        <5>. QED BY <5>1, SlotOf, IsThread
      <4>2. /\ ptr[c] # NoConn
            /\ conn[slot[c]] = ptr[c] \/ Replaced(ptr[c], slot[c]) \/ Forced(ptr[c], slot[c])
        BY <1>2 DEF ReadersSafe
      <4>. QED BY <1>2, <3>1, <4>1, <4>2 DEF OwnersDiffer, OwnersLive, WorkersHave, Live, Replaced, Forced
    <3>3. \A c \in Clients : pc'[c] = pc[c]
      BY <3>1, IsThread
    <3>4. \A k, s : Replaced(k, s)' <=> Replaced(k, s)
      BY <3>1, IsThread DEF Replaced
    <3>. QED BY <1>1, <1>2, <3>1, <3>2, <3>3, <3>4, IsThread DEF ReadersSafe, Forced, Dead, Reads, Refers
  <2>2. CASE ~(ref[slot[w]] > 0)
    BY <1>1, <1>2, <1>26, <2>2, IsThread DEF ApplyCheck, Goto, slotVars, queues, ReadersSafe, Forced, Dead,
      Reads, Refers, Replaced
  <2>. QED BY <2>1, <2>2
<1>27. ASSUME NEW w \in Workers, AwaitUnused(w)
      PROVE ReadersSafe'
  <2>1. slot[w] \in Slots
    BY <1>27, SlotOf, IsThread DEF AwaitUnused, Resting
  <2>2. \A c \in Clients : Reads(c) => slot[c] # slot[w]
    <3>1. ref[slot[w]] \in Nat /\ ref[slot[w]] <= 0
      BY <1>27, <2>1, CountMeans DEF AwaitUnused, Counted
    <3>2. ref[slot[w]] = 0
      BY <3>1
    <3>. QED BY <2>1, <3>2, CountMeans DEF Counted, Reads
  <2>3. /\ UNCHANGED <<conn, quarantine, status, ptr, slot, ok, timedOut>>
        /\ \A t \in Threads \ {w} : pc'[t] = pc[t]
    BY <1>1, <1>27, IsThread DEF AwaitUnused, Goto, slotVars, queues, locals
  <2>4. \A c \in Clients : pc'[c] = pc[c]
    BY <2>3, IsThread
  <2>5. \A k, s : s # slot[w] => (Replaced(k, s) => Replaced(k, s)')
    BY <2>3, IsThread DEF Replaced
  <2>. QED BY <1>2, <2>2, <2>3, <2>4, <2>5 DEF ReadersSafe, Forced, Dead, Reads, Refers
<1>28. ASSUME NEW w \in Workers, DeleteOld(w)
      PROVE ReadersSafe'
  <2>1. /\ status' = [status EXCEPT ![ptr[w]] = "deleted"]
        /\ UNCHANGED <<slot, conn, quarantine, ok, timedOut>>
        /\ pc[w] = "DeleteOld" /\ pc'[w] # "AwaitUnused"
        /\ \A t \in Threads \ {w} : pc'[t] = pc[t] /\ ptr'[t] = ptr[t]
    BY <1>1, <1>28, IsThread DEF DeleteOld, Goto, slotVars, queues
  <2>2. \A c \in Clients : Reads(c) => ptr[c] # ptr[w]
    <3> SUFFICES ASSUME NEW c \in Clients, Reads(c) PROVE ptr[c] # ptr[w]
      OBVIOUS
    <3>1. slot[c] \in Slots
      <4>1. pc[c] \notin Resting
        BY DEF Reads, Refers, Resting
      <4>. QED BY <4>1, SlotOf, IsThread
    <3>2. /\ ptr[c] # NoConn
          /\ conn[slot[c]] = ptr[c] \/ Replaced(ptr[c], slot[c]) \/ Forced(ptr[c], slot[c])
      BY <1>2 DEF ReadersSafe
    <3>. QED BY <1>2, <2>1, <3>1, <3>2 DEF OwnersDiffer, OwnersLive, WorkersHave, Live, Replaced, Forced
  <2>3. \A c \in Clients : pc'[c] = pc[c] /\ ptr'[c] = ptr[c]
    BY <2>1, IsThread
  <2>4. \A k, s : Replaced(k, s) => Replaced(k, s)'
    BY <2>1, IsThread DEF Replaced
  <2>. QED BY <1>1, <1>2, <2>1, <2>2, <2>3, <2>4, IsThread DEF ReadersSafe, Forced, Dead, Reads, Refers
<1>29. CASE Purge
  <2>1. /\ UNCHANGED <<conn, ptr, ok, ref, timedOut>>
        /\ \A t \in Threads \ {"health"} : pc'[t] = pc[t] /\ slot'[t] = slot[t]
        /\ \A k \in Conns : \/ status'[k] = status[k]
                            \/ \E q \in quarantine : q[1] = k /\ (ref[q[2]] = 0 \/ status'[k] = "forced")
        /\ \A q \in quarantine : q \in quarantine' \/ ref[q[2]] = 0 \/ status'[q[1]] = "forced"
    <3>1. CASE HealthStopped
      BY <1>1, <1>29, <3>1, IsThread DEF Purge, Goto, slotVars
    <3>2. CASE ~HealthStopped
      <4>1. PICK old \in SUBSET (quarantine \ Unused) :
              /\ quarantine' = quarantine \ (Unused \union old)
              /\ status' = [k \in Conns |->
                   IF \E q \in Unused : q[1] = k THEN "deleted"
                   ELSE IF \E q \in old : q[1] = k THEN "forced" ELSE status[k]]
        BY <1>29, <3>2 DEF Purge
      <4>2. ASSUME NEW q \in quarantine
            PROVE  q \in quarantine' \/ ref[q[2]] = 0 \/ status'[q[1]] = "forced"
        <5>1. CASE q \in old
          <6>1. \A r \in Unused : r[1] # q[1]
            BY <1>2, <4>1, <5>1 DEF OwnersDiffer, Unused
          <6>2. q[1] \in Conns
            BY <1>1
          <6>. QED BY <4>1, <5>1, <6>1, <6>2
        <5>. QED BY <4>1, <5>1 DEF Unused
      <4>3. ASSUME NEW k \in Conns
            PROVE  \/ status'[k] = status[k]
                   \/ \E q \in quarantine : q[1] = k /\ (ref[q[2]] = 0 \/ status'[k] = "forced")
        BY <4>1 DEF Unused
      <4>. QED BY <1>1, <1>29, <3>2, <4>2, <4>3, IsThread DEF Purge, Goto, slotVars
    <3>. QED BY <3>1, <3>2
  <2>2. \A t \in Putters : pc'[t] = pc[t] /\ slot'[t] = slot[t]
    BY <2>1, IsThread DEF Putters
  <2>3. ASSUME NEW c \in Clients, Reads(c)
        PROVE  /\ Replaced(ptr[c], slot[c]) => Replaced(ptr[c], slot[c])' \/ Forced(ptr[c], slot[c])'
               /\ status'[ptr[c]] \in {status[ptr[c]], "forced"}
    <3>1. slot[c] \in Slots
      <4>1. pc[c] \notin Resting
        BY <2>3 DEF Reads, Refers, Resting
      <4>. QED BY <4>1, SlotOf, IsThread
    <3>2. ref[slot[c]] # 0
      BY <2>3, <3>1, CountMeans DEF Counted, Reads
    <3>3. /\ ptr[c] # NoConn
          /\ conn[slot[c]] = ptr[c] \/ Replaced(ptr[c], slot[c]) \/ Forced(ptr[c], slot[c])
      BY <1>2, <2>3 DEF ReadersSafe
    <3>4. Replaced(ptr[c], slot[c]) => Replaced(ptr[c], slot[c])' \/ Forced(ptr[c], slot[c])'
      <4>1. CASE <<ptr[c], slot[c]>> \in quarantine
        <5>1. slot[c] \in timedOut
          BY <4>1 DEF OwnersOK, QuarantinedSlots
        <5>2. <<ptr[c], slot[c]>> \in quarantine' \/ status'[ptr[c]] = "forced"
          BY <2>1, <3>2, <4>1
        <5>. QED BY <2>1, <2>2, <5>1, <5>2 DEF Replaced, Forced, Putters
      <4>2. CASE <<ptr[c], slot[c]>> \notin quarantine
        BY <2>1, <2>2, <4>2 DEF Replaced, Putters
      <4>. QED BY <4>1, <4>2
    <3>5. \A q \in quarantine : q[1] = ptr[c] => q[2] = slot[c]
      BY <1>2, <3>1, <3>3 DEF OwnersDiffer, OwnersLive, Live, Replaced, Forced
    <3>6. ptr[c] \in Conns
      BY <2>3, ReadersLive
    <3>. QED BY <2>1, <3>2, <3>4, <3>5, <3>6
  <2>. QED BY <1>2, <2>1, <2>2, <2>3 DEF ReadersSafe, Forced, Dead, Reads, Refers, Putters
<1>30. CASE InitPool
  <2>1. \A c \in Clients : pc[c] = "idle" /\ pc'[c] = pc[c]
    BY <1>1, <1>2, <1>30, IsThread, ThreadsAssumption DEF InitPool, Phases, Background, Clients
  <2>. QED BY <2>1 DEF ReadersSafe, Forced, Dead, Reads, Refers
<1>31. CASE Clear
  <2>1. \A c \in Clients : pc[c] = "idle" /\ pc'[c] = pc[c]
    BY <1>2, <1>31 DEF Clear, Phases
  <2>. QED BY <2>1 DEF ReadersSafe, Forced, Dead, Reads, Refers
<1>32. CASE Aside
  <2>1. /\ UNCHANGED <<conn, quarantine, status, timedOut>>
        /\ \A c \in Clients : pc'[c] = pc[c] /\ ptr'[c] = ptr[c] /\ slot'[c] = slot[c] /\ ok'[c] = ok[c]
        /\ \A w \in Workers : ptr'[w] = ptr[w] /\ slot'[w] = slot[w]
                              /\ (pc[w] = "AwaitUnused" => pc'[w] = "AwaitUnused")
    BY <1>32, IsThread DEF Aside, Putters
  <2>2. \A k, s : Replaced(k, s) => Replaced(k, s)'
    BY <2>1 DEF Replaced
  <2>. QED BY <1>2, <2>1, <2>2 DEF ReadersSafe, Forced, Dead, Reads, Refers
<1>. QED BY <1>3, <1>4, <1>5, <1>6, <1>7, <1>8, <1>9, <1>10, <1>11, <1>12, <1>13, <1>14,
  <1>15, <1>16, <1>17, <1>18, <1>19, <1>20, <1>21, <1>22, <1>23, <1>24, <1>25, <1>26, <1>27,
  <1>28, <1>29, <1>30, <1>31, <1>32, LoopsAside DEF Next, Client, Worker

-----------------------------------------------------------------------------

(* A step that takes no slot away and connects none.                         *)
OffersStill ==
  \/ phase' # "run"
  \/ /\ UNCHANGED <<conn, ref, freeQueue, timedOut, phase>>
     /\ \A k \in Conns : status'[k] = "open" => status[k] = "open"
     /\ \A t \in Putters : pc[t] \in OfferLabels => pc'[t] \in OfferLabels /\ slot'[t] = slot[t]

(* The other steps.                                                          *)
Offering ==
  \/ \E c \in Clients :
       \/ PopFront(c) \/ PopCas(c) \/ PopUndo(c) \/ GetUndo(c) \/ ReleaseSub(c)
       \/ \E s \in Slots : GetOdbcConn(c, s)
  \/ \E t \in Putters : EnqueueFlag(t) \/ EnqueuePush(t)
  \/ \E w \in Workers : Reconnect(w) \/ Swap(w) \/ AwaitTimeout(w)
  \/ InitPool

(* Every step is of one of these sorts.                                      *)
LEMMA OffersStillStep ==
  ASSUME TypeOK, ThreadsOK, Phases, Next
  PROVE  OffersStill \/ Offering
<1>1. /\ pc \in [Threads -> Labels]
      /\ slot \in [Threads -> Slots \union {NoSlot}]
      /\ status \in [Conns -> {"fresh", "open", "broken", "deleted", "forced", "abandoned"}]
  BY DEF TypeOK, Labels
<1>2. Phases
  OBVIOUS
<1>3. ASSUME NEW c \in Clients, Borrow(c) \/ PopUnflag(c) \/ PopLoad(c) \/ PopCheck(c)
      PROVE OffersStill \/ Offering
  BY <1>1, <1>2, <1>3, IsThread DEF Borrow, PopUnflag, PopLoad, PopCheck, Sees,
    Connected, OffersStill, OfferLabels, Putters, Goto, Leave, LoadConn, slotVars, queues,
    owner, locals
<1>4. ASSUME NEW c \in Clients, GuardLoad(c) \/ GetLoad(c) \/ GetCheck(c) \/ ReleaseLoad(c)
      PROVE OffersStill \/ Offering
  BY <1>1, <1>2, <1>4, IsThread DEF GuardLoad, GetLoad, GetCheck, ReleaseLoad, Sees,
    Connected, OffersStill, OfferLabels, Putters, Goto, Leave, LoadConn, slotVars, queues,
    owner, locals
<1>5. ASSUME NEW c \in Clients, ReleaseCheck(c)
      PROVE OffersStill \/ Offering
  <2>1. slot[c] \in Slots
    BY <1>5, SlotOf, IsThread DEF ReleaseCheck, Resting
  <2>. QED BY <1>1, <1>2, <1>5, <2>1, IsThread DEF ReleaseCheck, Sees, Connected,
    OffersStill, OfferLabels, Putters, Goto, Leave, LoadConn, slotVars, queues, owner, locals
<1>6. ASSUME NEW w \in Workers, WorkerWait(w) \/ WorkerSleep(w) \/ CheckRef(w) \/ Retry(w)
      PROVE OffersStill \/ Offering
  BY <1>1, <1>2, <1>6, IsThread DEF WorkerWait, WorkerSleep, CheckRef, Retry, OffersStill,
    OfferLabels, Putters, Goto, Leave, LoadConn, slotVars, queues, owner, locals
<1>7. ASSUME NEW w \in Workers, Unmark(w) \/ ApplyCheck(w) \/ AwaitUnused(w) \/ DeleteOld(w)
      PROVE OffersStill \/ Offering
  BY <1>1, <1>2, <1>7, IsThread DEF Unmark, ApplyCheck, AwaitUnused, DeleteOld, OffersStill,
    OfferLabels, Putters, Goto, Leave, LoadConn, slotVars, queues, owner, locals
<1>8. ASSUME NEW w \in Workers, Succeed(w)
      PROVE OffersStill \/ Offering
  <2>1. slot[w] \in Slots
    BY <1>8, SlotOf, IsThread DEF Succeed, Resting
  <2>. QED BY <1>1, <1>2, <1>8, <2>1, IsThread DEF Succeed, OffersStill, OfferLabels,
    Putters, Goto, Leave, LoadConn, slotVars, queues, owner, locals
<1>9. CASE StopHealth \/ StopDelayed \/ StopWorkers
  BY <1>1, <1>2, <1>9, IsThread DEF StopHealth, StopDelayed, StopWorkers, JoinFlag, Managers,
    Ended, OffersStill, OfferLabels, Putters, Goto, Leave, LoadConn, slotVars, queues, owner,
    locals
<1>10. ASSUME NEW k \in Conns, Break(k)
      PROVE OffersStill \/ Offering
  BY <1>1, <1>2, <1>10, IsThread DEF Break, OffersStill, OfferLabels, Putters, Goto, Leave,
    LoadConn, slotVars, queues, owner, locals
<1>11. ASSUME NEW c \in Clients, PopFront(c)
      PROVE OffersStill \/ Offering
  BY <1>11 DEF Offering, Putters
<1>12. ASSUME NEW c \in Clients, PopCas(c)
      PROVE OffersStill \/ Offering
  BY <1>12 DEF Offering, Putters
<1>13. ASSUME NEW c \in Clients, PopUndo(c)
      PROVE OffersStill \/ Offering
  BY <1>13 DEF Offering, Putters
<1>14. ASSUME NEW c \in Clients, NEW s \in Slots, GetOdbcConn(c, s)
      PROVE OffersStill \/ Offering
  BY <1>14 DEF Offering, Putters
<1>15. ASSUME NEW c \in Clients, GetUndo(c)
      PROVE OffersStill \/ Offering
  BY <1>15 DEF Offering, Putters
<1>16. ASSUME NEW c \in Clients, ReleaseSub(c)
      PROVE OffersStill \/ Offering
  BY <1>16 DEF Offering, Putters
<1>17. ASSUME NEW t \in Clients \union Workers, EnqueueFlag(t)
      PROVE OffersStill \/ Offering
  BY <1>17 DEF Offering, Putters
<1>18. ASSUME NEW t \in Clients \union Workers, EnqueuePush(t)
      PROVE OffersStill \/ Offering
  BY <1>18 DEF Offering, Putters
<1>19. ASSUME NEW w \in Workers, Reconnect(w)
      PROVE OffersStill \/ Offering
  BY <1>19 DEF Offering, Putters
<1>20. ASSUME NEW w \in Workers, Swap(w)
      PROVE OffersStill \/ Offering
  BY <1>20 DEF Offering, Putters
<1>21. ASSUME NEW w \in Workers, AwaitTimeout(w)
      PROVE OffersStill \/ Offering
  BY <1>21 DEF Offering, Putters
<1>22. CASE InitPool
  BY <1>22 DEF Offering, Putters
<1>23. CASE Purge
  <2>1. /\ UNCHANGED <<conn, ref, freeQueue, timedOut, phase>>
        /\ \A t \in Threads \ {"health"} : pc'[t] = pc[t] /\ slot'[t] = slot[t]
        /\ \A k \in Conns : status'[k] = "open" => status[k] = "open"
    BY <1>1, <1>23, IsThread DEF Purge, Goto, slotVars, owner
  <2>. QED BY <2>1, IsThread DEF OffersStill, OfferLabels, Putters
<1>24. CASE Clear
  <2>1. /\ UNCHANGED <<ref, timedOut>> /\ phase' = "closed"
    BY <1>24 DEF Clear
  <2>. QED BY <2>1 DEF OffersStill
<1>25. CASE Aside
  <2>1. UNCHANGED <<conn, ref, freeQueue, timedOut, phase, status>>
    BY <1>25 DEF Aside
  <2>. QED BY <1>25, <2>1 DEF Aside, OffersStill, OfferLabels
<1>. QED BY <1>3, <1>4, <1>5, <1>6, <1>7, <1>8, <1>9, <1>10, <1>11, <1>12, <1>13, <1>14,
  <1>15, <1>16, <1>17, <1>18, <1>19, <1>20, <1>21, <1>22, <1>23, <1>24, <1>25, LoopsAside DEF
  Next, Client, Worker

(* A lost connection that a client has read is no longer in its slot when    *)
(* the slot is connected: a worker waits with the old one, or has timed out. *)
LEMMA BrokenReplaced ==
  ASSUME TypeOK, ThreadsOK, OwnersOK, ReadersSafe, NEW c \in Clients, Reads(c),
         Dead(ptr[c]), Connected(conn[slot[c]]), slot[c] \notin timedOut
  PROVE  \E w \in Workers : Offers(w, slot[c])
<1>1. conn[slot[c]] # ptr[c]
  BY DEF Connected, Dead
<1>2. Replaced(ptr[c], slot[c])
  BY <1>1 DEF ReadersSafe, Forced
<1>3. <<ptr[c], slot[c]>> \notin quarantine
  BY DEF OwnersOK, QuarantinedSlots
<1>. QED BY <1>2, <1>3 DEF Replaced, Offers, OfferLabels

(* A connected slot that nobody refers to stays in the free queue or in      *)
(* somebody's hands, or a worker's wait on it has timed out.                 *)
LEMMA OfferedStep ==
  ASSUME TypeOK, ThreadsOK, Phases, Counted, FreeOnce, OwnersOK, ReadersSafe, Offered, Next
  PROVE  Offered'
<1>1. /\ pc \in [Threads -> Labels] /\ slot \in [Threads -> Slots \union {NoSlot}]
      /\ conn \in [Slots -> Conns \union {NoConn}] /\ ref \in [Slots -> Int]
      /\ freeQueue \in Seq(Slots)
      /\ status \in [Conns -> {"fresh", "open", "broken", "deleted", "forced", "abandoned"}]
  BY DEF TypeOK, Labels
<1>2. \A s \in Slots \ timedOut :
         phase = "run" /\ Connected(conn[s]) /\ ref[s] = 0
         => Queued(s) \/ \E t \in Putters : Offers(t, s)
  BY DEF Offered
<1>3. CASE OffersStill
  <2>1. CASE phase' # "run"
    BY <2>1 DEF Offered
  <2>2. CASE phase' = "run"
    <3>1. /\ UNCHANGED <<conn, ref, freeQueue>> /\ timedOut \subseteq timedOut' /\ phase = "run"
          /\ \A k \in Conns : status'[k] = "open" => status[k] = "open"
          /\ \A t \in Putters, s \in Slots : Offers(t, s) => Offers(t, s)'
      BY <1>3, <2>2 DEF OffersStill, Offers
    <3>2. \A s \in Slots : Connected(conn[s])' => Connected(conn[s])
      BY <1>1, <3>1 DEF Connected
    <3>. QED BY <1>2, <3>1, <3>2 DEF Offered, Queued
  <2>. QED BY <2>1, <2>2
<1>4. ASSUME NEW c \in Clients, PopFront(c) PROVE Offered'
  <2>1. CASE freeQueue = <<>>
    <3>1. /\ UNCHANGED <<conn, ref, freeQueue, timedOut, phase, status>> /\ ~(pc[c] \in OfferLabels)
          /\ \A t \in Threads \ {c} : pc'[t] = pc[t] /\ slot'[t] = slot[t]
      BY <1>1, <1>4, <2>1, IsThread DEF PopFront, Leave, Goto, slotVars, owner, OfferLabels
    <3>. QED BY <1>2, <3>1, IsThread DEF Offered, Queued, Offers, Connected, Putters
  <2>2. CASE freeQueue # <<>>
    <3>1. /\ UNCHANGED <<conn, ref, timedOut, phase, status>> /\ ~(pc[c] \in OfferLabels)
          /\ \A t \in Threads \ {c} : pc'[t] = pc[t] /\ slot'[t] = slot[t]
          /\ slot'[c] = Head(freeQueue) /\ freeQueue' = Tail(freeQueue) /\ pc'[c] \in OfferLabels
      BY <1>1, <1>4, <2>2, IsThread DEF PopFront, Goto, slotVars, owner, OfferLabels
    <3>2. \A i \in DOMAIN freeQueue : i = 1 \/ (i - 1 \in DOMAIN Tail(freeQueue)
                                               /\ freeQueue[i] = Tail(freeQueue)[i - 1])
      BY <1>1, <2>2
    <3>3. Head(freeQueue) = freeQueue[1]
      BY <1>1, <2>2
    <3>4. \A s \in Slots : Queued(s) => Queued(s)' \/ s = Head(freeQueue)
      BY <3>1, <3>2, <3>3 DEF Queued
    <3>5. \A t \in Putters, s \in Slots : Offers(t, s) => Offers(t, s)'
      BY <3>1, IsThread DEF Offers, Putters
    <3>6. \A s \in Slots : s = Head(freeQueue) => Offers(c, s)'
      BY <3>1 DEF Offers
    <3>. QED BY <1>2, <3>1, <3>4, <3>5, <3>6 DEF Offered, Connected, Putters
  <2>. QED BY <2>1, <2>2
<1>5. ASSUME NEW c \in Clients, PopCas(c) PROVE Offered'
  <2>1. slot[c] \in Slots
    BY <1>5, SlotOf, IsThread DEF PopCas, Resting
  <2>2. /\ UNCHANGED <<conn, freeQueue, timedOut, phase, status>>
        /\ \A t \in Threads \ {c} : pc'[t] = pc[t] /\ slot'[t] = slot[t]
        /\ ref'[slot[c]] # 0 /\ \A s \in Slots \ {slot[c]} : ref'[s] = ref[s]
    BY <1>1, <1>5, <2>1, IsThread DEF PopCas, Leave, Goto, slotVars, queues, owner, locals
  <2>3. \A t \in Putters, s \in Slots \ {slot[c]} : Offers(t, s) => Offers(t, s)'
    BY <2>2, IsThread DEF Offers, Putters
  <2>. QED BY <1>2, <2>2, <2>3 DEF Offered, Queued, Connected
<1>6. ASSUME NEW c \in Clients, PopUndo(c) \/ GetUndo(c) \/ ReleaseSub(c) PROVE Offered'
  <2>1. slot[c] \in Slots
    BY <1>6, SlotOf, IsThread DEF PopUndo, GetUndo, ReleaseSub, Resting
  <2>2. /\ UNCHANGED <<conn, freeQueue, timedOut, phase, status>>
        /\ \A t \in Threads \ {c} : pc'[t] = pc[t] /\ slot'[t] = slot[t]
        /\ \A s \in Slots \ {slot[c]} : ref'[s] = ref[s]
        /\ Reads(c) /\ pc[c] \notin OfferLabels
    BY <1>1, <1>6, <2>1, IsThread DEF PopUndo, GetUndo, ReleaseSub, Leave, Goto, slotVars, queues,
      owner, locals, Reads, Refers, OfferLabels
  <2>3. \A t \in Putters, s \in Slots : Offers(t, s) => Offers(t, s)'
    BY <2>2, IsThread DEF Offers, Putters
  <2>4. ASSUME ref'[slot[c]] = 0, Connected(conn[slot[c]]), slot[c] \notin timedOut
        PROVE  \E t \in Putters : Offers(t, slot[c]) \/ (t = c /\ slot'[c] = slot[c] /\ pc'[c] \in OfferLabels)
    <3>1. CASE Dead(ptr[c])
      BY <2>2, <2>4, <3>1, BrokenReplaced DEF Putters
    <3>2. CASE ~Dead(ptr[c])
      <4>1. pc[c] = "ReleaseSub" /\ ok[c]
        BY <1>6, <2>2, <3>2 DEF ReadersSafe, PopUndo, GetUndo, ReleaseSub
      <4>2. ref[slot[c]] = 1
        BY <1>1, <1>6, <2>1, <2>4, <4>1 DEF PopUndo, GetUndo, ReleaseSub
      <4>3. slot'[c] = slot[c] /\ pc'[c] = "EnqueueFlag"
        BY <1>1, <1>6, <4>1, <4>2, IsThread DEF PopUndo, GetUndo, ReleaseSub, Goto, locals
      <4>. QED BY <4>3 DEF OfferLabels, Putters
    <3>. QED BY <3>1, <3>2
  <2>5. ASSUME NEW s \in Slots, s = slot[c], ref'[s] = 0, Connected(conn[s]), s \notin timedOut
        PROVE  \E t \in Putters : Offers(t, s)'
    BY <2>3, <2>4, <2>5, <2>1 DEF Offers
  <2>. QED BY <1>2, <2>2, <2>3, <2>5 DEF Offered, Queued, Connected
<1>7. ASSUME NEW c \in Clients, NEW r \in Slots, GetOdbcConn(c, r) PROVE Offered'
  <2>1. ref[r] \in Nat
    BY CountMeans DEF Counted
  <2>2. /\ UNCHANGED <<conn, freeQueue, timedOut, phase, status>>
        /\ \A t \in Threads \ {c} : pc'[t] = pc[t] /\ slot'[t] = slot[t]
        /\ ref'[r] # 0 /\ \A s \in Slots \ {r} : ref'[s] = ref[s]
        /\ pc[c] \notin OfferLabels
    BY <1>1, <1>7, <2>1, IsThread DEF GetOdbcConn, Goto, queues, owner, OfferLabels
  <2>3. \A t \in Putters, s \in Slots : Offers(t, s) => Offers(t, s)'
    BY <2>2, IsThread DEF Offers, Putters
  <2>. QED BY <1>2, <2>2, <2>3 DEF Offered, Queued, Connected
<1>8. ASSUME NEW u \in Putters, EnqueueFlag(u) PROVE Offered'
  <2>1. slot[u] \in Slots
    BY <1>8, SlotOf, IsThread DEF EnqueueFlag, Resting, Putters
  <2>2. /\ UNCHANGED <<conn, ref, freeQueue, timedOut, phase, status>>
        /\ \A t \in Threads \ {u} : pc'[t] = pc[t] /\ slot'[t] = slot[t]
        /\ pc[u] = "EnqueueFlag"
        /\ ~inFree[slot[u]] => slot'[u] = slot[u] /\ pc'[u] = "EnqueuePush"
    BY <1>1, <1>8, IsThread DEF EnqueueFlag, Resume, Leave, Goto, queues, owner, locals, Putters
  <2>3. inFree[slot[u]] => Queued(slot[u]) \/ \E t \in Putters : Enqueues(t) /\ slot[t] = slot[u]
    BY <2>1 DEF FreeOnce
  <2>4. \A t \in Putters : Enqueues(t) => t # u /\ pc[t] \in OfferLabels
    BY <2>2 DEF Enqueues, OfferLabels
  <2>5. \A t \in Putters \ {u}, s \in Slots : Offers(t, s) => Offers(t, s)'
    BY <2>2, IsThread DEF Offers, Putters
  <2>6. ASSUME NEW s \in Slots, s = slot[u]
        PROVE  Queued(s) \/ \E t \in Putters : Offers(t, s)'
    <3>1. CASE inFree[s]
      <4>1. \A t \in Putters \ {u} : Enqueues(t) /\ slot[t] = s => Offers(t, s)
        BY <2>4 DEF Offers
      <4>. QED BY <2>3, <2>4, <2>5, <2>6, <3>1, <4>1
    <3>2. CASE ~inFree[s]
      BY <2>2, <2>6, <3>2 DEF Offers, OfferLabels
    <3>. QED BY <3>1, <3>2
  <2>7. \A s \in Slots : Offers(u, s) => s = slot[u]
    BY DEF Offers
  <2>. QED BY <1>2, <2>2, <2>5, <2>6, <2>7 DEF Offered, Queued, Connected
<1>9. ASSUME NEW u \in Putters, EnqueuePush(u) PROVE Offered'
  <2>1. slot[u] \in Slots
    BY <1>9, SlotOf, IsThread DEF EnqueuePush, Resting, Putters
  <2>2. /\ UNCHANGED <<conn, ref, timedOut, phase, status>>
        /\ \A t \in Threads \ {u} : pc'[t] = pc[t] /\ slot'[t] = slot[t]
        /\ freeQueue' = Append(freeQueue, slot[u])
    BY <1>1, <1>9, IsThread DEF EnqueuePush, Resume, Leave, Goto, slotVars, owner, locals, Putters
  <2>3. /\ \A i \in DOMAIN freeQueue : i \in DOMAIN freeQueue' /\ freeQueue'[i] = freeQueue[i]
        /\ \E i \in DOMAIN freeQueue' : freeQueue'[i] = slot[u]
    <3>1. Len(freeQueue') = Len(freeQueue) + 1 /\ freeQueue'[Len(freeQueue) + 1] = slot[u]
      BY <1>1, <2>1, <2>2
    <3>2. DOMAIN freeQueue = 1 .. Len(freeQueue) /\ Len(freeQueue) \in Nat
      BY <1>1
    <3>3. DOMAIN freeQueue' = 1 .. Len(freeQueue) + 1
      BY <1>1, <2>1, <2>2
    <3>4. \A i \in 1 .. Len(freeQueue) : freeQueue'[i] = freeQueue[i]
      BY <1>1, <2>1, <2>2
    <3>. QED BY <3>1, <3>2, <3>3, <3>4
  <2>8. \A s \in Slots : Queued(s) \/ s = slot[u] => Queued(s)'
    BY <2>3 DEF Queued
  <2>4. \A t \in Putters \ {u}, s \in Slots : Offers(t, s) => Offers(t, s)'
    BY <2>2, IsThread DEF Offers, Putters
  <2>5. \A s \in Slots : Offers(u, s) => s = slot[u]
    BY DEF Offers
  <2>. QED BY <1>2, <2>2, <2>8, <2>4, <2>5 DEF Offered, Connected
<1>10. ASSUME NEW w \in Workers, Reconnect(w) PROVE Offered'
  <2>1. /\ UNCHANGED <<conn, ref, freeQueue, timedOut, phase>>
        /\ \A t \in Threads \ {w} : pc'[t] = pc[t] /\ slot'[t] = slot[t]
        /\ pc[w] \notin OfferLabels
        /\ \A k \in Conns : status'[k] = status[k] \/ status[k] = "fresh"
    BY <1>1, <1>10, IsThread DEF Reconnect, Fresh, Goto, slotVars, queues, owner, OfferLabels
  <2>2. \A t \in Putters, s \in Slots : Offers(t, s) => Offers(t, s)'
    BY <2>1, IsThread DEF Offers, Putters
  <2>3. \A s \in Slots : Connected(conn[s])' => Connected(conn[s])
    BY <1>1, <2>1 DEF Connected, OwnersOK, OwnersLive, Live
  <2>. QED BY <1>2, <2>1, <2>2, <2>3 DEF Offered, Queued
<1>11. ASSUME NEW w \in Workers, Swap(w) PROVE Offered'
  <2>1. slot[w] \in Slots
    BY <1>11, SlotOf, IsThread DEF Swap, Resting
  <2>2. /\ UNCHANGED <<ref, freeQueue, timedOut, phase, status, slot>>
        /\ \A t \in Threads \ {w} : pc'[t] = pc[t]
        /\ pc[w] \notin OfferLabels /\ pc'[w] \in OfferLabels
        /\ \A s \in Slots \ {slot[w]} : conn'[s] = conn[s]
    BY <1>1, <1>11, <2>1, IsThread DEF Swap, Goto, queues, owner, OfferLabels
  <2>3. \A t \in Putters, s \in Slots : Offers(t, s) \/ (t = w /\ s = slot[w]) => Offers(t, s)'
    BY <2>2, IsThread DEF Offers, Putters
  <2>. QED BY <1>2, <2>2, <2>3 DEF Offered, Queued, Connected, Putters
<1>12. ASSUME NEW w \in Workers, AwaitTimeout(w) PROVE Offered'
  <2>1. /\ UNCHANGED <<conn, ref, freeQueue, phase, status, slot>>
        /\ \A t \in Threads \ {w} : pc'[t] = pc[t]
        /\ timedOut' = timedOut \union {slot[w]}
    BY <1>1, <1>12, IsThread DEF AwaitTimeout, Goto, slotVars, owner
  <2>2. \A t \in Putters, s \in Slots \ {slot[w]} : Offers(t, s) => Offers(t, s)'
    BY <2>1, IsThread DEF Offers, Putters
  <2>. QED BY <1>2, <2>1, <2>2 DEF Offered, Queued, Connected
<1>13. CASE InitPool
  <2>1. CASE phase' = "run"
    <3>1. freeQueue' = [s \in Slots |-> s]
      BY <1>13, <2>1 DEF InitPool
    <3>. QED BY <3>1 DEF Offered, Queued
  <2>. QED BY <2>1 DEF Offered
<1>. QED BY <1>3, <1>4, <1>5, <1>6, <1>7, <1>8, <1>9, <1>10, <1>11, <1>12, <1>13,
      OffersStillStep DEF Offering, Putters

-----------------------------------------------------------------------------

(* No step but Clear() abandons a connection, and a closed pool stays closed.*)
LEMMA OnlyClearAbandons ==
  ASSUME TypeOK, Next, ~Clear
  PROVE  /\ \A k \in Conns : status'[k] = "abandoned" => status[k] = "abandoned"
         /\ phase = "closed" => phase' = "closed"
<1>. DEFINE Kept == /\ \A k \in Conns : status'[k] = "abandoned" => status[k] = "abandoned"
                    /\ phase = "closed" => phase' = "closed"
<1>1. status \in [Conns -> {"fresh", "open", "broken", "deleted", "forced", "abandoned"}]
  BY DEF TypeOK
<1>2. ASSUME NEW c \in Clients, Client(c) \/ Borrow(c) \/ \E r \in Slots : GetOdbcConn(c, r) PROVE Kept
  BY <1>2 DEF Client, Borrow, PopFront, PopUnflag, PopCas, PopLoad, PopCheck, PopUndo, GuardLoad,
    GetOdbcConn, GetLoad, GetCheck, GetUndo, ReleaseLoad, ReleaseCheck, ReleaseSub, LoadConn, owner
<1>3. ASSUME NEW w \in Workers, Worker(w) PROVE Kept
  BY <1>1, <1>3 DEF Worker, WorkerWait, WorkerSleep, CheckRef, Reconnect, Retry, Unmark,
    ApplyCheck, Swap, AwaitUnused, AwaitTimeout, DeleteOld, Succeed, owner
<1>4. ASSUME NEW t \in Clients \union Workers, EnqueueFlag(t) \/ EnqueuePush(t) PROVE Kept
  BY <1>4 DEF EnqueueFlag, EnqueuePush, owner
<1>5. CASE Purge
  BY <1>1, <1>5 DEF Purge, owner
<1>6. CASE InitPool \/ StopHealth \/ StopDelayed \/ StopWorkers
  BY <1>1, <1>6 DEF InitPool, StopHealth, StopDelayed, StopWorkers
<1>7. ASSUME NEW k \in Conns, Break(k) PROVE Kept
  BY <1>1, <1>7 DEF Break, owner
<1>8. CASE Aside
  BY <1>8 DEF Aside
<1>. QED BY <1>2, <1>3, <1>4, <1>5, <1>6, <1>7, <1>8, LoopsAside DEF Next

LEMMA AbandonedLastStep == ASSUME TypeOK, AbandonedLast, Next PROVE AbandonedLast'
<1>1. CASE Clear
  BY <1>1 DEF Clear, AbandonedLast
<1>2. CASE ~Clear
  BY <1>2, OnlyClearAbandons DEF AbandonedLast
<1>. QED BY <1>1, <1>2

(* When the counts are exact Clear() finds them all at zero.                 *)
LEMMA NoneAbandonedStep ==
  ASSUME TypeOK, Phases, Counted, NoneAbandoned, Next PROVE NoneAbandoned'
<1>1. CASE Clear
  <2>1. \A c \in Clients : ~Refers(c)
    BY <1>1 DEF Clear, Phases, Refers
  <2>2. \A r \in Slots : ref[r] = 0
    BY <2>1, ReferrersAre, FS_EmptySet DEF Counted, RefCounted
  <2>3. \A k \in Conns : ~Leaked(k)
    BY <2>2 DEF Leaked, TypeOK
  <2>. QED BY <1>1, <2>3 DEF Clear, NoneAbandoned
<1>2. CASE ~Clear
  BY <1>2, OnlyClearAbandons DEF NoneAbandoned
<1>. QED BY <1>1, <1>2

-----------------------------------------------------------------------------

(* The initial states.                                                       *)
LEMMA PoolInit == ASSUME Init PROVE PoolInv /\ LeaseInv
<1>1. /\ \A t \in Threads : pc[t] \in {"idle", "off"} /\ pc[t] \in Labels
      /\ \A c \in Clients : pc[c] = "idle"
      /\ \A t \in Threads \ Clients : pc[t] = "off"
  BY IsThread DEF Init, Labels, ClientLabels
<1>2. TypeOK
  <2>1. pc \in [Threads -> ClientLabels \union WorkerLabels \union LoopLabels \union {"off", "ended"}]
    BY <1>1 DEF Init, Labels
  <2>2. SlotsTyped /\ QueuesTyped
    BY DEF Init, SlotsTyped, QueuesTyped
  <2>3. OwnerTyped /\ LocalsTyped
    BY RearmsAssumption DEF Init, OwnerTyped, LocalsTyped
  <2>. QED BY <2>1, <2>2, <2>3 DEF TypeOK, SlotsTyped, QueuesTyped, OwnerTyped, LocalsTyped
<1>3. ThreadsOK
  BY <1>1, IsThread, ThreadsAssumption DEF ThreadsOK, ClientsOK, WorkersOK, LoopsOK,
    PlacesOK, Resting, ClientLabels,
    PopLabels, Clients
<1>4. Phases
  BY <1>1, IsThread DEF Init, Phases
<1>5. FreeOnce
  BY <1>1, IsThread DEF Init, FreeOnce, Queued, Enqueues, Putters
<1>6. OwnersOK
  BY <1>1, IsThread DEF Init, OwnersOK, WorkersHave, OwnersLive, OwnersDiffer, AllOwned, Owned, Live,
    QuarantinedSlots
<1>7. \A c \in Clients : ~Refers(c)
  BY <1>1 DEF Refers
<1>8. Counted
  <2>1. \A s : Referrers(s) = {}
    BY <1>7, ReferrersAre
  <2>. QED BY <1>7, <2>1, FS_EmptySet DEF Init, Counted, RefCounted, OneReferrer
<1>9. ReadersSafe
  BY <1>7 DEF ReadersSafe, Reads
<1>10. Offered
  BY DEF Init, Offered
<1>11. AbandonedLast /\ NoneAbandoned
  BY DEF Init, AbandonedLast, NoneAbandoned
<1>. QED BY <1>2, <1>3, <1>4, <1>5, <1>6, <1>8, <1>9, <1>10, <1>11 DEF PoolInv, LeaseInv

(* A step, whoever the clients are.                                          *)
LEMMA PoolStep == ASSUME PoolInv, Next PROVE PoolInv'
<1>1. TypeOK /\ ThreadsOK /\ Phases /\ FreeOnce /\ OwnersOK /\ AbandonedLast
  BY DEF PoolInv
<1>2. WorkersHave /\ OwnersLive
  BY <1>1 DEF OwnersOK
<1>3. TypeOK'
  <2>1. SlotsTyped' /\ QueuesTyped' /\ OwnerTyped' /\ (pc \in [Threads -> Labels])' /\ LocalsTyped'
    BY <1>1, <1>2, SlotsTypedStep, QueuesTypedStep, OwnerTypedStep, PcTypedStep, LocalsTypedStep
  <2>. QED BY <2>1 DEF TypeOK, SlotsTyped, QueuesTyped, OwnerTyped, LocalsTyped, Labels
<1>4. ThreadsOK'
  BY <1>1, ClientsOKStep, WorkersOKStep, LoopsOKStep, PlacesOKStep DEF ThreadsOK
<1>5. Phases' /\ FreeOnce' /\ OwnersOK' /\ AbandonedLast'
  BY <1>1, <1>2, PhasesStep, FreeOnceStep, OwnersStep, AbandonedLastStep
<1>. QED BY <1>3, <1>4, <1>5 DEF PoolInv

(* A step, when the clients are of one kind.                                 *)
LEMMA LeaseStep == ASSUME OneKind, PoolInv, LeaseInv, Next PROVE LeaseInv'
  BY CountedStep, ReadersSafeStep, OfferedStep, NoneAbandonedStep DEF PoolInv, LeaseInv

LEMMA PoolStutter == ASSUME UNCHANGED vars PROVE (PoolInv => PoolInv') /\ (LeaseInv => LeaseInv')
<1>1. /\ UNCHANGED <<conn, ref, reconnecting, failing, inFree, freeQueue, pending, delayed>>
      /\ UNCHANGED <<quarantine, status, phase, shuttingDown, delayedStopped, rearms>>
      /\ UNCHANGED <<pc, slot, ptr, made, ok, timedOut>>
  BY DEF vars, slotVars, queues, owner, locals
<1>2. TypeOK => TypeOK'
  BY <1>1 DEF TypeOK
<1>3. ThreadsOK => ThreadsOK'
  BY <1>1 DEF ThreadsOK, ClientsOK, WorkersOK, LoopsOK, PlacesOK
<1>4. Phases => Phases'
  BY <1>1 DEF Phases
<1>5. FreeOnce => FreeOnce'
  BY <1>1 DEF FreeOnce, Queued, Enqueues
<1>6. OwnersOK => OwnersOK'
  BY <1>1 DEF OwnersOK, WorkersHave, OwnersLive, OwnersDiffer, AllOwned, Owned, Live, QuarantinedSlots
<1>7. Counted => Counted'
  BY <1>1 DEF Counted, RefCounted, Referrers, OneReferrer, Refers
<1>8. ReadersSafe => ReadersSafe'
  BY <1>1 DEF ReadersSafe, Forced, Dead, Reads, Refers, Replaced
<1>9. Offered => Offered'
  BY <1>1 DEF Offered, Connected, Queued, Offers
<1>10. (AbandonedLast => AbandonedLast') /\ (NoneAbandoned => NoneAbandoned')
  BY <1>1 DEF AbandonedLast, NoneAbandoned
<1>. QED BY <1>2, <1>3, <1>4, <1>5, <1>6, <1>7, <1>8, <1>9, <1>10 DEF PoolInv, LeaseInv

(* A set without two elements is counted at once.                            *)
LEMMA AtMostOne ==
  ASSUME NEW S, \A x, y \in S : x = y
  PROVE  Cardinality(S) = IF S = {} THEN 0 ELSE 1
<1>1. CASE S = {}
  BY <1>1, FS_EmptySet
<1>2. CASE S # {}
  <2>1. PICK x \in S : TRUE
    BY <1>2
  <2>2. S = {x}
    BY <2>1
  <2>. QED BY <1>2, <2>2, FS_Singleton
<1>. QED BY <1>1, <1>2

(* The flag and the free queue agree, in numbers.                            *)
LEMMA FreeQueueUniqueFollows == ASSUME PoolInv PROVE FreeQueueUnique
<1> SUFFICES ASSUME NEW s \in Slots
             PROVE  Cardinality({i \in DOMAIN freeQueue : freeQueue[i] = s})
                    + Cardinality({t \in Threads : slot[t] = s /\ pc[t] \in {"EnqueuePush", "PopUnflag"}})
                      = IF inFree[s] THEN 1 ELSE 0
  BY DEF FreeQueueUnique
<1> DEFINE places == {i \in DOMAIN freeQueue : freeQueue[i] = s}
           carriers == {t \in Threads : slot[t] = s /\ pc[t] \in {"EnqueuePush", "PopUnflag"}}
<1>1. FreeOnce /\ ThreadsOK
  BY DEF PoolInv
<1>2. carriers = {t \in Putters : slot[t] = s /\ Enqueues(t)}
  BY <1>1, IsThread DEF Putters, Enqueues, ThreadsOK, LoopsOK, LoopLabels, Threads, Background
<1>3. \A i, j \in places : i = j
  BY <1>1 DEF FreeOnce
<1>4. \A t, u \in carriers : t = u
  BY <1>1, <1>2 DEF FreeOnce
<1>5. places = {} \/ carriers = {}
  BY <1>1, <1>2 DEF FreeOnce, Queued
<1>6. inFree[s] <=> places # {} \/ carriers # {}
  BY <1>1, <1>2 DEF FreeOnce, Queued
<1>7. Cardinality(places) = IF places = {} THEN 0 ELSE 1
  BY <1>3, AtMostOne
<1>8. Cardinality(carriers) = IF carriers = {} THEN 0 ELSE 1
  BY <1>4, AtMostOne
<1>9. Cardinality(places) + Cardinality(carriers) = IF inFree[s] THEN 1 ELSE 0
  BY <1>5, <1>6, <1>7, <1>8
<1>. QED BY <1>9

(* Every connection object has one owner while it is there, in numbers.      *)
LEMMA OwnedOnceFollows == ASSUME PoolInv PROVE OwnedOnce
<1> SUFFICES ASSUME NEW k \in Conns
             PROVE  Cardinality(Owners(k)) = IF status[k] \in {"open", "broken"} THEN 1 ELSE 0
  BY DEF OwnedOnce, PoolInv, AbandonedLast
<1>1. OwnersLive /\ OwnersDiffer /\ AllOwned
  BY DEF PoolInv, OwnersOK
<1>2. k # NoConn
  BY SizeAssumption DEF Conns, NoConn
<1>3. Owned(k) <=> Live(k)
  BY <1>1, <1>2 DEF OwnersLive, AllOwned, Owned
<1>4. Owned(k) <=> Owners(k) # {}
  BY DEF Owned, Owners
<1>5. ASSUME NEW x \in Owners(k), NEW y \in Owners(k) PROVE x = y
  <2>1. \A z \in Owners(k) :
          \/ \E s \in Slots : z = <<"slot", s>> /\ conn[s] = k
          \/ \E w \in Workers : z = <<"made", w>> /\ made[w] = k
          \/ \E w \in Workers : z = <<"old", w>> /\ ptr[w] = k
          \/ \E q \in quarantine : z = <<"quarantine", q>> /\ q[1] = k
    BY DEF Owners
  <2>2. \/ \E s \in Slots : x = <<"slot", s>> /\ conn[s] = k
        \/ \E w \in Workers : x = <<"made", w>> /\ made[w] = k
        \/ \E w \in Workers : x = <<"old", w>> /\ ptr[w] = k
        \/ \E q \in quarantine : x = <<"quarantine", q>> /\ q[1] = k
    BY <2>1
  <2>3. \/ \E s \in Slots : y = <<"slot", s>> /\ conn[s] = k
        \/ \E w \in Workers : y = <<"made", w>> /\ made[w] = k
        \/ \E w \in Workers : y = <<"old", w>> /\ ptr[w] = k
        \/ \E q \in quarantine : y = <<"quarantine", q>> /\ q[1] = k
    BY <2>1
  <2>. QED BY <1>1, <1>2, <2>2, <2>3 DEF OwnersDiffer
<1>6. Cardinality(Owners(k)) = IF Owners(k) = {} THEN 0 ELSE 1
  BY <1>5, AtMostOne
<1>. QED BY <1>3, <1>4, <1>6 DEF Live

(* What holds whoever the clients are, and whatever the counts have become:  *)
(* the pool is well typed, the free queue has a slot at most once and its    *)
(* flag says so, and every connection has exactly one owner until it is      *)
(* deleted, or abandoned by Clear() for its count, which only Clear() does.  *)
THEOREM PoolKeepsItsOwn == Spec => [](TypeOK /\ FreeQueueUnique /\ OwnedOnce)
<1>1. Init => PoolInv
  BY PoolInit
<1>2. PoolInv /\ [Next]_vars => PoolInv'
  BY PoolStep, PoolStutter
<1>3. PoolInv => TypeOK /\ FreeQueueUnique /\ OwnedOnce
  BY FreeQueueUniqueFollows, OwnedOnceFollows DEF PoolInv
<1>. QED BY <1>1, <1>2, <1>3, PTL DEF Spec

(* The invariant is inductive when the clients are of one kind.              *)
THEOREM PoolInductive == ASSUME OneKind PROVE Spec => [](PoolInv /\ LeaseInv)
<1>1. Init => PoolInv /\ LeaseInv
  BY PoolInit
<1>2. PoolInv /\ LeaseInv /\ [Next]_vars => PoolInv' /\ LeaseInv'
  BY PoolStep, LeaseStep, PoolStutter
<1>. QED BY <1>1, <1>2, PTL DEF Spec

(* Among clients of one kind the counts are exact, two guards never have the *)
(* same slot, and no client touches a connection that a worker or the health *)
(* check has deleted, but for one that was deleted in use because it had     *)
(* stayed too long in the quarantine.                                        *)
THEOREM LeasesHoldOfOneKind == ASSUME OneKind PROVE Spec => []LeasesHold
<1>1. PoolInv /\ LeaseInv => LeasesHold
  <2> SUFFICES ASSUME PoolInv, LeaseInv PROVE LeasesHold
    OBVIOUS
  <2>1. RefCounted
    BY DEF LeaseInv, Counted
  <2>2. ASSUME NEW c \in Borrowers, NEW d \in Borrowers, c # d, Holding(c), Holding(d)
        PROVE  slot[c] # slot[d]
    <3>1. Namers = {}
      BY DEF OneKind
    <3>2. Refers(c) /\ Refers(d)
      BY <2>2 DEF Holding, Refers
    <3>. QED BY <2>2, <3>1, <3>2 DEF LeaseInv, Counted, OneReferrer, Clients
  <2>3. ASSUME NEW c \in Clients, pc[c] \in {"PopCheck", "GetCheck", "use", "ReleaseCheck"}
        PROVE  status[ptr[c]] \in {"open", "broken", "forced"}
    <3>1. Reads(c)
      BY <2>3 DEF Reads, Refers
    <3>. QED BY <3>1, ReadersLive DEF PoolInv, LeaseInv, Live, Forced
  <2>. QED BY <2>1, <2>2, <2>3 DEF LeasesHold
<1>. QED BY <1>1, PoolInductive, PTL

(* Among clients of one kind no slot and no connection is lost or kept twice,*)
(* whatever order returns, replacements, time-outs and retries come in, and  *)
(* Clear() leaves no connection undeleted.                                   *)
THEOREM NothingLostOfOneKind == ASSUME OneKind PROVE Spec => []NothingLost
<1>1. PoolInv /\ LeaseInv => NothingLost
  <2> SUFFICES ASSUME PoolInv, LeaseInv PROVE NothingLost
    OBVIOUS
  <2>1. NoLostSlot
    <3> SUFFICES ASSUME NEW s \in Slots \ timedOut, phase = "run", Connected(conn[s]), ref[s] = 0
                 PROVE  \/ s \in Range(freeQueue)
                        \/ \E t \in Clients : slot[t] = s
                             /\ pc[t] \in {"PopUnflag", "PopCas", "EnqueueFlag", "EnqueuePush"}
                        \/ \E w \in Workers : slot[w] = s
                             /\ pc[w] \in {"AwaitUnused", "DeleteOld", "EnqueueFlag", "EnqueuePush"}
      BY DEF NoLostSlot
    <3>1. Queued(s) \/ \E t \in Putters : Offers(t, s)
      BY DEF LeaseInv, Offered
    <3>2. Queued(s) => s \in Range(freeQueue)
      BY DEF Queued, Range
    <3>3. ASSUME NEW c \in Clients, Offers(c, s)
          PROVE  pc[c] \in {"PopUnflag", "PopCas", "EnqueueFlag", "EnqueuePush"} /\ slot[c] = s
      BY <3>3 DEF PoolInv, ThreadsOK, ClientsOK, ClientLabels, Offers, OfferLabels
    <3>4. ASSUME NEW w \in Workers, Offers(w, s)
          PROVE  pc[w] \in {"AwaitUnused", "DeleteOld", "EnqueueFlag", "EnqueuePush"} /\ slot[w] = s
      BY <3>4 DEF PoolInv, ThreadsOK, WorkersOK, WorkerLabels, Offers, OfferLabels
    <3>. QED BY <3>1, <3>2, <3>3, <3>4 DEF Putters
  <2>. QED BY <2>1, FreeQueueUniqueFollows, OwnedOnceFollows DEF NothingLost, LeaseInv
<1>. QED BY <1>1, PoolInductive, PTL

-----------------------------------------------------------------------------
(* RedisClient: the commands and the connection of a Redis pool.  The frames *)
(* a thread can have, and what the variables hold ...                        *)
AllCommands == 1..(MaxCommands + MaxSockets)
RedisFrames ==
    ({"exchange", "cleanup", "drain", "receipt"} \X Nat)
    \union ({"push", "connect", "register", "giveBack", "post", "uncount"} \X {0})
    \union ({"send"} \X AllCommands) \union ({"expired"} \X Commands)
    \union ({"await"} \X {SelectOf(k) : k \in Sockets})
    \union ({"callback"} \X (AllCommands \X Told))

SendRequests == [socket : Sockets, command : Nat, left : Nat, sent : Nat]
Replies == [command : Nat, begun : BOOLEAN]

RedisTypeOK ==
    /\ selects \in BOOLEAN /\ strayed \in BOOLEAN
    /\ opened \in Sockets /\ socket \in {0, opened} /\ parser \in Nat
    /\ recvs \in Seq(Sockets) /\ pendingIo \in Int
    /\ sends \in Seq(SendRequests)
    /\ callback \in {0} \union AllCommands
    /\ sending \in [command : Nat, left : Nat] /\ nextSend \in Nat
    /\ replies \in [Sockets -> Seq(Replies)]
    /\ free \in Nat /\ broken \in Nat
    /\ issued \in 0..MaxCommands
    /\ waiting \in Seq(Commands)
    /\ answer \in [AllCommands -> {"none", "refused", "twice"} \union Told]
    /\ frames \in Stacks(RedisThreads, RedisFrames)

(* ... who has a command, counted, and that an answered one is with nobody;  *)
(* the SELECT of a connection begins with it ...                             *)
Copies(s, c) == Cardinality({i \in DOMAIN s : s[i] = c})
At(places) == CountOf(frames, places)
With(c) == Copies(waiting, c) + (IF callback = c THEN 1 ELSE 0) + At(Carries(c))
Answered(c) == IF answer[c] = "none" THEN 0 ELSE 1

CommandOnce(c) ==
    /\ answer[c] # "twice"
    /\ c \in Commands => With(c) + Answered(c) = IF c <= issued THEN 1 ELSE 0
    /\ c \notin Commands => With(c) + Answered(c) <= 1
CommandsOnce == \A c \in AllCommands : CommandOnce(c)

Registering == At({"register"} \X {0})
SelectsFresh ==
    \A k \in Sockets : k > opened \/ (k = opened /\ Registering > 0) =>
        With(SelectOf(k)) + Answered(SelectOf(k)) = 0

(* ... and the places of the connection, counted.                            *)
Connections == free + broken + (IF callback \in Commands THEN 1 ELSE 0) + At(HasConnection)
OneConnection == Connections = 1 /\ (free > 0 => waiting = <<>>)

RedisInv == RedisTypeOK /\ CommandsOnce /\ SelectsFresh /\ OneConnection

-----------------------------------------------------------------------------
(* What a queue holds of a command, counted.                                 *)
LEMMA QueueOps ==
  ASSUME NEW S, NEW s \in Seq(S)
  PROVE  /\ s # <<>> => Head(s) \in S /\ Tail(s) \in Seq(S)
         /\ \A x \in S : Append(s, x) \in Seq(S) /\ (s # <<>> => <<x>> \o Tail(s) \in Seq(S))
         /\ \A i \in 1..Len(s) : s[i] \in S /\ \A x \in S : [s EXCEPT ![i] = x] \in Seq(S)
  OBVIOUS

LEMMA CopiesType ==
  ASSUME NEW S, NEW s \in Seq(S), NEW c
  PROVE  /\ IsFiniteSet({i \in DOMAIN s : s[i] = c}) /\ Copies(s, c) \in Nat
         /\ s = <<>> => Copies(s, c) = 0
<1>1. DOMAIN s = 1..Len(s) /\ Len(s) \in Nat /\ (s = <<>> => DOMAIN s = {})
  OBVIOUS
<1>2. IsFiniteSet({i \in DOMAIN s : s[i] = c})
  <2>1. IsFiniteSet(1..Len(s))
    BY <1>1, FS_Interval
  <2>2. {i \in DOMAIN s : s[i] = c} \subseteq 1..Len(s)
    BY <1>1
  <2>. QED BY ONLY <2>1, <2>2, FS_Subset
<1>. QED BY <1>1, <1>2, FS_CardinalityType, FS_EmptySet DEF Copies

LEMMA CopiesAppend ==
  ASSUME NEW S, NEW s \in Seq(S), NEW x \in S, NEW c
  PROVE  Copies(Append(s, x), c) = Copies(s, c) + (IF x = c THEN 1 ELSE 0)
<1> DEFINE A == {i \in DOMAIN s : s[i] = c}
           B == {i \in DOMAIN Append(s, x) : Append(s, x)[i] = c}
           n == Len(s) + 1
<1>1. /\ DOMAIN s = 1..Len(s) /\ Len(s) \in Nat /\ DOMAIN Append(s, x) = 1..n
      /\ Append(s, x)[n] = x /\ \A i \in 1..Len(s) : Append(s, x)[i] = s[i]
  OBVIOUS
<1>2. n \notin A /\ B = IF x = c THEN A \union {n} ELSE A
  BY <1>1
<1>3. IsFiniteSet(A) /\ Cardinality(A) \in Nat
  BY CopiesType DEF Copies
<1>. HIDE DEF A, B, n
<1>4. Cardinality(B) = Cardinality(A) + (IF x = c THEN 1 ELSE 0)
  <2>1. CASE x = c
    <3>1. Cardinality(A \union {n}) = Cardinality(A) + 1
      BY ONLY <1>2, <1>3, FS_AddElement
    <3>. QED BY <1>2, <2>1, <3>1
  <2>2. CASE x # c
    BY <1>2, <1>3, <2>2
  <2>. QED BY <2>1, <2>2
<1>. QED BY <1>4 DEF Copies, A, B

LEMMA CopiesTail ==
  ASSUME NEW S, NEW s \in Seq(S), s # <<>>, NEW c
  PROVE  /\ Copies(Tail(s), c) = Copies(s, c) - (IF Head(s) = c THEN 1 ELSE 0)
         /\ Tail(s) \in Seq(S) /\ Head(s) \in S /\ Copies(Tail(s), c) \in Nat
<1> DEFINE A == {i \in DOMAIN Tail(s) : Tail(s)[i] = c}
           B == {i \in DOMAIN s : s[i] = c}
           shift == [i \in A |-> i + 1]
<1>1. /\ Tail(s) \in Seq(S) /\ Head(s) \in S /\ Head(s) = s[1] /\ Len(s) \in Nat \ {0}
      /\ DOMAIN s = 1..Len(s) /\ DOMAIN Tail(s) = 1..(Len(s) - 1)
      /\ \A i \in 1..(Len(s) - 1) : Tail(s)[i] = s[i + 1]
  OBVIOUS
<1>2. IsFiniteSet(A) /\ Cardinality(A) \in Nat /\ IsFiniteSet(B) /\ Cardinality(B) \in Nat
  <2>1. IsFiniteSet(A) /\ Cardinality(A) \in Nat
    BY <1>1, CopiesType DEF Copies
  <2>2. IsFiniteSet(B) /\ Cardinality(B) \in Nat
    BY CopiesType DEF Copies
  <2>. QED BY ONLY <2>1, <2>2
<1>3. IsFiniteSet(B \ {1}) /\ Cardinality(B \ {1}) = Cardinality(B) - (IF Head(s) = c THEN 1 ELSE 0)
  <2>1. 1 \in B <=> Head(s) = c
    BY <1>1
  <2>. HIDE DEF B
  <2>2. IsFiniteSet(B \ {1}) /\ Cardinality(B \ {1}) = IF 1 \in B THEN Cardinality(B) - 1 ELSE Cardinality(B)
    BY <1>2, FS_RemoveElement
  <2>. QED BY <1>2, <2>1, <2>2
<1>4. shift \in Bijection(A, B \ {1})
  <2>1. shift \in [A -> B \ {1}]
    BY <1>1
  <2>2. \A i, j \in A : shift[i] = shift[j] => i = j
    BY <1>1
  <2>3. ASSUME NEW j \in B \ {1} PROVE \E i \in A : shift[i] = j
    <3>1. j - 1 \in 1..(Len(s) - 1) /\ (j - 1) + 1 = j
      BY <1>1
    <3>2. Tail(s)[j - 1] = s[j]
      BY <1>1, <3>1
    <3>3. j - 1 \in A /\ shift[j - 1] = j
      BY <1>1, <3>1, <3>2
    <3>. QED BY <3>3
  <2>. HIDE DEF A, B, shift
  <2>. QED BY <2>1, <2>2, <2>3 DEF Bijection, Injection, Surjection, IsInjective
<1>5. Cardinality(A) = Cardinality(B \ {1})
  <2>. HIDE DEF A, B, shift
  <2>. QED BY <1>2, <1>3, <1>4, FS_Bijection DEF ExistsBijection
<1>. HIDE DEF A, B
<1>. QED BY <1>1, <1>2, <1>3, <1>5 DEF Copies, A, B

-----------------------------------------------------------------------------
(* Where a frame counts.                                                     *)
LEMMA FrameHits ==
  ASSUME NEW f \in RedisFrames
  PROVE  /\ f = <<f[1], f[2]>>
         /\ \A c : Hits(f, Carries(c)) = IF \/ f[1] \in {"send", "expired"} /\ f[2] = c
                                            \/ f[1] = "callback" /\ f[2][1] = c
                                         THEN 1 ELSE 0
         /\ Hits(f, HasConnection) = IF \/ f[1] \in {"push", "connect", "register", "await", "giveBack"}
                                        \/ f[1] = "send" /\ f[2] \in Commands
                                        \/ f[1] = "callback" /\ f[2][1] \in Commands
                                     THEN 1 ELSE 0
         /\ Hits(f, {"register"} \X {0}) = IF f[1] = "register" THEN 1 ELSE 0
<1>1. f = <<f[1], f[2]>>
  BY DEF RedisFrames
<1>2. ASSUME NEW c
      PROVE  f \in Carries(c) <=> \/ f[1] \in {"send", "expired"} /\ f[2] = c
                                  \/ f[1] = "callback" /\ f[2][1] = c
  BY DEF RedisFrames, Carries
<1>3. f \in HasConnection <=> \/ f[1] \in {"push", "connect", "register", "await", "giveBack"}
                              \/ f[1] = "send" /\ f[2] \in Commands
                              \/ f[1] = "callback" /\ f[2][1] \in Commands
  BY DEF RedisFrames, HasConnection
<1>4. f \in {"register"} \X {0} <=> f[1] = "register"
  BY DEF RedisFrames
<1>. QED BY <1>1, <1>2, <1>3, <1>4 DEF Hits

LEMMA ThreadsFinite == IsFiniteSet(RedisThreads)
  BY RedisThreadsFinite, FS_Union, FS_Singleton DEF RedisThreads

LEMMA AtType == ASSUME RedisTypeOK PROVE \A L : At(L) \in Nat
  BY ThreadsFinite, CountType DEF RedisTypeOK, At

LEMMA TwoCalls ==
  ASSUME NEW S, NEW s \in Seq(S), NEW a \in S, NEW b \in S
  PROVE  <<a, b>> \o s = <<a>> \o (<<b>> \o s)
<1>1. /\ <<a, b>> \in Seq(S) /\ <<b>> \in Seq(S) /\ <<a>> \in Seq(S) /\ <<b>> \o s \in Seq(S)
      /\ Len(<<b>> \o s) = Len(s) + 1 /\ Len(s) \in Nat
  OBVIOUS
<1> DEFINE x == <<a, b>> \o s
           y == <<a>> \o (<<b>> \o s)
<1>2. /\ x \in Seq(S) /\ Len(x) = Len(s) + 2 /\ x[1] = a /\ x[2] = b
      /\ \A i \in 3..(Len(s) + 2) : x[i] = s[i - 2]
  BY <1>1
<1>3. /\ y \in Seq(S) /\ Len(y) = Len(s) + 2 /\ y[1] = a /\ y[2] = b
      /\ \A i \in 3..(Len(s) + 2) : y[i] = s[i - 2]
  <2>1. /\ y \in Seq(S) /\ Len(y) = Len(s) + 2 /\ y[1] = a
        /\ \A i \in 2..(Len(s) + 2) : y[i] = (<<b>> \o s)[i - 1]
    BY <1>1
  <2>2. (<<b>> \o s)[1] = b /\ \A i \in 2..(Len(s) + 1) : (<<b>> \o s)[i] = s[i - 1]
    BY <1>1
  <2>3. \A i \in 3..(Len(s) + 2) : i - 1 \in 2..(Len(s) + 1) /\ (i - 1) - 1 = i - 2 /\ i \in 2..(Len(s) + 2)
    BY <1>1
  <2>4. 2 \in 2..(Len(s) + 2) /\ 2 - 1 = 1
    BY <1>1
  <2>. HIDE DEF y
  <2>. QED BY <2>1, <2>2, <2>3, <2>4
<1>. HIDE DEF x, y
<1>4. \A i \in 1..(Len(s) + 2) : x[i] = y[i]
  BY <1>1, <1>2, <1>3
<1>5. x = [i \in 1..(Len(s) + 2) |-> x[i]] /\ y = [i \in 1..(Len(s) + 2) |-> y[i]]
  BY <1>2, <1>3
<1>6. x = y
  BY <1>4, <1>5
<1>. QED BY <1>6 DEF x, y

LEMMA ThreeCalls ==
  ASSUME NEW a, NEW b, NEW c
  PROVE  <<a>> \o <<b>> = <<a, b>> /\ <<a, b>> \o <<c>> = <<a, b, c>>
<1> DEFINE S == {a, b, c}
<1>1. /\ <<a>> \in Seq(S) /\ <<b>> \in Seq(S) /\ <<c>> \in Seq(S) /\ <<a, b>> \in Seq(S) /\ <<a, b, c>> \in Seq(S)
      /\ Len(<<a>>) = 1 /\ Len(<<b>>) = 1 /\ Len(<<c>>) = 1 /\ Len(<<a, b>>) = 2 /\ Len(<<a, b, c>>) = 3
  OBVIOUS
<1>. HIDE DEF S
<1> DEFINE x == <<a>> \o <<b>>
           y == <<a, b>> \o <<c>>
           z == <<a, b, c>>
<1>2. x \in Seq(S) /\ Len(x) = 2 /\ x[1] = a /\ x[2] = b
  BY <1>1
<1>3. y \in Seq(S) /\ Len(y) = 3 /\ y[1] = a /\ y[2] = b /\ y[3] = c
  BY <1>1
<1>4. z \in Seq(S) /\ Len(z) = 3 /\ z[1] = a /\ z[2] = b /\ z[3] = c
  BY <1>1
<1>5. x = <<a, b>>
  <2>. HIDE DEF x
  <2>. QED BY <1>1, <1>2
<1>6. y = z
  <2>. HIDE DEF y, z
  <2>1. y = [i \in 1..3 |-> y[i]] /\ z = [i \in 1..3 |-> z[i]]
    BY <1>3, <1>4
  <2>2. \A i \in 1..3 : y[i] = z[i]
    BY <1>3, <1>4
  <2>. QED BY <2>1, <2>2
<1>. QED BY <1>5, <1>6

(* A thread goes on, with up to two calls.                                   *)
LEMMA Proceeds ==
  ASSUME RedisTypeOK, NEW t \in RedisThreads, frames[t] # <<>>,
         NEW a \in RedisFrames, NEW b \in RedisFrames
  PROVE  LET h == Head(frames[t]) IN
         /\ h \in RedisFrames /\ \A L : At(L) >= Hits(h, L)
         /\ Proceed(t, <<>>) =>
              /\ frames' \in Stacks(RedisThreads, RedisFrames)
              /\ \A L : At(L)' = At(L) - Hits(h, L)
         /\ Proceed(t, <<a>>) =>
              /\ frames' \in Stacks(RedisThreads, RedisFrames)
              /\ \A L : At(L)' = At(L) - Hits(h, L) + Hits(a, L)
         /\ Proceed(t, <<a, b>>) =>
              /\ frames' \in Stacks(RedisThreads, RedisFrames)
              /\ \A L : At(L)' = At(L) - Hits(h, L) + Hits(b, L) + Hits(a, L)
<1>1. /\ frames \in Stacks(RedisThreads, RedisFrames)
      /\ frames[t] \in Seq(RedisFrames) /\ Tail(frames[t]) \in Seq(RedisFrames)
      /\ Head(frames[t]) \in RedisFrames
  BY DEF RedisTypeOK, Stacks
<1>2. \A L : At(L) >= Hits(Head(frames[t]), L)
  BY <1>1, ThreadsFinite, CountAtLeastTop DEF At
<1>3. ASSUME Proceed(t, <<>>) PROVE frames' = Popped(frames, t)
  BY <1>1, <1>3 DEF Proceed, Popped
<1>4. ASSUME Proceed(t, <<a>>) PROVE frames' = Pushed(Popped(frames, t), t, a)
  BY <1>1, <1>4 DEF Proceed, Popped, Pushed, Stacks
<1>5. ASSUME Proceed(t, <<a, b>>) PROVE frames' = Pushed(Pushed(Popped(frames, t), t, b), t, a)
  <2>1. <<a, b>> \o Tail(frames[t]) = <<a>> \o (<<b>> \o Tail(frames[t]))
    BY <1>1, TwoCalls
  <2>. QED BY <1>1, <1>5, <2>1 DEF Proceed, Popped, Pushed, Stacks
<1>. QED BY <1>1, <1>2, <1>3, <1>4, <1>5, ThreadsFinite, PopCount, ReplaceCount, CallCount DEF At

(* The same for one way to go on: the frame is left, replaced, or replaced   *)
(* by two.                                                                   *)
LEMMA ProceedsBack ==
  ASSUME RedisTypeOK, NEW t \in RedisThreads, frames[t] # <<>>, NEW h, h = Head(frames[t]), Proceed(t, <<>>)
  PROVE  frames' \in Stacks(RedisThreads, RedisFrames) /\ \A L : At(L)' = At(L) - Hits(h, L)
<1>1. PICK a : a = <<"push", 0>>
  OBVIOUS
<1>2. a \in RedisFrames
  BY <1>1 DEF RedisFrames
<1>. QED BY <1>2, Proceeds

LEMMA ProceedsTo ==
  ASSUME RedisTypeOK, NEW t \in RedisThreads, frames[t] # <<>>, NEW h, h = Head(frames[t]),
         NEW a \in RedisFrames, Proceed(t, <<a>>)
  PROVE  frames' \in Stacks(RedisThreads, RedisFrames) /\ \A L : At(L)' = At(L) - Hits(h, L) + Hits(a, L)
BY Proceeds

LEMMA ProceedsToTwo ==
  ASSUME RedisTypeOK, NEW t \in RedisThreads, frames[t] # <<>>, NEW h, h = Head(frames[t]),
         NEW a \in RedisFrames, NEW b \in RedisFrames, Proceed(t, <<a, b>>)
  PROVE  /\ frames' \in Stacks(RedisThreads, RedisFrames)
         /\ \A L : At(L)' = At(L) - Hits(h, L) + Hits(b, L) + Hits(a, L)
<1>1. /\ frames' \in Stacks(RedisThreads, RedisFrames)
      /\ \A L : At(L)' = At(L) - Hits(Head(frames[t]), L) + Hits(b, L) + Hits(a, L)
  BY ONLY RedisTypeOK, t \in RedisThreads, frames[t] # <<>>, a \in RedisFrames, b \in RedisFrames,
          Proceed(t, <<a, b>>), Proceeds
<1>. QED BY <1>1

(* An idle thread begins.                                                    *)
LEMMA Begins ==
  ASSUME RedisTypeOK, NEW t \in RedisThreads, frames[t] = <<>>,
         NEW a \in RedisFrames, NEW b \in RedisFrames, NEW d \in RedisFrames
  PROVE  /\ Begin(t, <<a>>) =>
              /\ frames' \in Stacks(RedisThreads, RedisFrames)
              /\ \A L : At(L)' = At(L) + Hits(a, L)
         /\ Begin(t, <<a, b>>) =>
              /\ frames' \in Stacks(RedisThreads, RedisFrames)
              /\ \A L : At(L)' = At(L) + Hits(b, L) + Hits(a, L)
         /\ Begin(t, <<a, b, d>>) =>
              /\ frames' \in Stacks(RedisThreads, RedisFrames)
              /\ \A L : At(L)' = At(L) + Hits(d, L) + Hits(b, L) + Hits(a, L)
<1>1. frames \in Stacks(RedisThreads, RedisFrames) /\ IsFiniteSet(RedisThreads)
  BY ThreadsFinite DEF RedisTypeOK
<1> DEFINE one(x) == Pushed(frames, t, x)
           two(x, y) == Pushed(one(y), t, x)
           three(x, y, z) == Pushed(two(y, z), t, x)
<1>2. \A x \in RedisFrames : /\ one(x) \in Stacks(RedisThreads, RedisFrames)
                             /\ \A L : CountOf(one(x), L) = At(L) + Hits(x, L)
  BY <1>1, PushCount DEF At
<1>3. \A x, y \in RedisFrames : /\ two(x, y) \in Stacks(RedisThreads, RedisFrames)
                                /\ \A L : CountOf(two(x, y), L) = At(L) + Hits(y, L) + Hits(x, L)
  BY <1>1, <1>2, PushCount
<1>4. \A x, y, z \in RedisFrames :
         /\ three(x, y, z) \in Stacks(RedisThreads, RedisFrames)
         /\ \A L : CountOf(three(x, y, z), L) = At(L) + Hits(z, L) + Hits(y, L) + Hits(x, L)
  BY <1>1, <1>3, PushCount
<1>5. frames \in [RedisThreads -> Seq(RedisFrames)] /\ t \in RedisThreads
  BY <1>1 DEF Stacks
<1>6. one(a) = [frames EXCEPT ![t] = <<a>>]
  BY <1>5 DEF Pushed
<1>7. two(a, b) = [frames EXCEPT ![t] = <<a, b>>]
  BY <1>5 DEF Pushed
<1>8. three(a, b, d) = [frames EXCEPT ![t] = <<a, b, d>>]
  BY <1>5 DEF Pushed
<1>. HIDE DEF one, two, three
<1>9. ASSUME Begin(t, <<a>>)
      PROVE  frames' \in Stacks(RedisThreads, RedisFrames) /\ \A L : At(L)' = At(L) + Hits(a, L)
  <2>1. frames' = one(a)
    BY <1>6, <1>9 DEF Begin
  <2>. QED BY <1>2, <2>1 DEF At
<1>10. ASSUME Begin(t, <<a, b>>)
       PROVE  /\ frames' \in Stacks(RedisThreads, RedisFrames)
              /\ \A L : At(L)' = At(L) + Hits(b, L) + Hits(a, L)
  <2>1. frames' = two(a, b)
    BY <1>7, <1>10 DEF Begin
  <2>. QED BY <1>3, <2>1 DEF At
<1>11. ASSUME Begin(t, <<a, b, d>>)
       PROVE  /\ frames' \in Stacks(RedisThreads, RedisFrames)
              /\ \A L : At(L)' = At(L) + Hits(d, L) + Hits(b, L) + Hits(a, L)
  <2>1. frames' = three(a, b, d)
    BY <1>8, <1>11 DEF Begin
  <2>. QED BY <1>4, <2>1 DEF At
<1>. QED BY <1>9, <1>10, <1>11

-----------------------------------------------------------------------------
(* A step that hands commands and the connection on keeps the counts.        *)
LEMMA HandedOn ==
  ASSUME RedisInv, issued' = issued, opened' = opened, Registering' > 0 => Registering > 0,
         \A c \in AllCommands : With(c)' + Answered(c)' = With(c) + Answered(c) /\ answer'[c] # "twice",
         Connections' = Connections, free' > 0 => waiting' = <<>>
  PROVE  CommandsOnce' /\ SelectsFresh' /\ OneConnection'
<1>2. CommandsOnce'
  BY DEF RedisInv, CommandsOnce, CommandOnce
<1>3. SelectsFresh'
  <2>1. \A k \in Sockets : SelectOf(k) \in AllCommands
    BY RedisConstants DEF Sockets, SelectOf, AllCommands
  <2>2. ASSUME NEW k \in Sockets, k > opened' \/ (k = opened' /\ Registering' > 0)
        PROVE  k > opened \/ (k = opened /\ Registering > 0)
    BY <2>2
  <2>. QED BY <2>1, <2>2 DEF RedisInv, SelectsFresh
<1>4. OneConnection'
  BY DEF RedisInv, OneConnection
<1>. QED BY <1>2, <1>3, <1>4

(* Frames that have neither a command nor the connection.                    *)
SilentPlaces == {"exchange", "cleanup", "drain", "receipt", "post", "uncount"}
Silent(f) == f \in RedisFrames /\ f[1] \in SilentPlaces

LEMMA SilentHits ==
  ASSUME NEW f, Silent(f)
  PROVE  /\ f \in RedisFrames /\ \A c : Hits(f, Carries(c)) = 0
         /\ Hits(f, HasConnection) = 0 /\ Hits(f, {"register"} \X {0}) = 0
  BY FrameHits DEF Silent, SilentPlaces

(* A step of the connection that concerns no command.                        *)
LEMMA Unconcerned ==
  ASSUME RedisInv, UNCHANGED <<callback, free, broken, waiting, issued, answer, opened>>,
         NEW t \in RedisThreads, NEW a, NEW b, NEW d, Silent(a), Silent(b), Silent(d),
         \/ frames' = frames
         \/ /\ frames[t] # <<>> /\ Silent(Head(frames[t]))
            /\ Proceed(t, <<>>) \/ Proceed(t, <<a>>) \/ Proceed(t, <<a, b>>)
         \/ frames[t] = <<>> /\ (Begin(t, <<a>>) \/ Begin(t, <<a, b>>) \/ Begin(t, <<a, b, d>>))
  PROVE  CommandsOnce' /\ SelectsFresh' /\ OneConnection' /\ frames' \in Stacks(RedisThreads, RedisFrames)
<1>. USE DEF RedisInv
<1>1. /\ frames' \in Stacks(RedisThreads, RedisFrames)
      /\ \A c : At(Carries(c))' = At(Carries(c))
      /\ At(HasConnection)' = At(HasConnection)
      /\ At({"register"} \X {0})' = At({"register"} \X {0})
  <2>0. \A L : At(L) \in Nat
    BY AtType
  <2>1. CASE frames' = frames
    BY <2>1 DEF RedisTypeOK, At
  <2>2. CASE /\ frames[t] # <<>> /\ Silent(Head(frames[t]))
             /\ Proceed(t, <<>>) \/ Proceed(t, <<a>>) \/ Proceed(t, <<a, b>>)
    BY <2>0, <2>2, SilentHits, Proceeds
  <2>3. CASE frames[t] = <<>> /\ (Begin(t, <<a>>) \/ Begin(t, <<a, b>>) \/ Begin(t, <<a, b, d>>))
    BY <2>0, <2>3, SilentHits, Begins
  <2>. QED BY <2>1, <2>2, <2>3
<1>2. /\ \A c \in AllCommands : /\ With(c)' + Answered(c)' = With(c) + Answered(c)
                                /\ answer'[c] # "twice"
  BY <1>1 DEF With, Answered, CommandsOnce, CommandOnce, Copies
<1>3. Connections' = Connections /\ Registering' = Registering /\ Registering \in Nat
  BY <1>1, AtType DEF Connections, Registering
<1>4. free' > 0 => waiting' = <<>>
  BY DEF OneConnection
<1>. QED BY <1>1, <1>2, <1>3, <1>4, HandedOn

LEMMA SilentFrames ==
  /\ \A k \in Nat : Silent(<<"exchange", k>>) /\ Silent(<<"cleanup", k>>)
                      /\ Silent(<<"drain", k>>) /\ Silent(<<"receipt", k>>)
  /\ Silent(<<"post", 0>>) /\ Silent(<<"uncount", 0>>)
  BY DEF Silent, SilentPlaces, RedisFrames

LEMMA InPlace ==
  ASSUME RedisTypeOK, NEW t \in RedisThreads, NEW place, In(t, place)
  PROVE  /\ frames[t] # <<>> /\ Head(frames[t]) \in RedisFrames
         /\ Head(frames[t]) = <<place, Argument(t)>>
  BY FrameHits DEF In, Argument, RedisTypeOK, Stacks

(* The socket is closed, or the connection served.                           *)
LEMMA ExchangeStep ==
  ASSUME RedisInv, NEW t \in RedisThreads, Exchange(t) \/ CleanupSocketAndParser(t)
  PROVE  RedisInv'
<1>. USE DEF RedisInv
<1>1. /\ frames[t] # <<>> /\ Silent(Head(frames[t]))
  BY InPlace DEF Exchange, CleanupSocketAndParser, Silent, SilentPlaces
<1>2. socket \in Nat
  BY DEF RedisTypeOK, Sockets
<1>3. CASE Exchange(t)
  <2>0. Argument(t) \in Nat
    BY <1>3, InPlace DEF Exchange, RedisFrames
  <2>1. /\ Proceed(t, <<>>) \/ Proceed(t, <<<<"cleanup", socket>>, <<"drain", Argument(t)>>>>)
        /\ socket' = 0
        /\ UNCHANGED <<selects, opened, down, parser, ioState, commandState, replies, poolState, answer, strayed>>
    BY <1>3 DEF Exchange
  <2>2. CommandsOnce' /\ SelectsFresh' /\ OneConnection' /\ frames' \in Stacks(RedisThreads, RedisFrames)
    BY <1>1, <1>2, <2>0, <2>1, SilentFrames, Unconcerned DEF commandState, poolState
  <2>. QED BY <2>1, <2>2 DEF RedisTypeOK, ioState, commandState, poolState
<1>4. CASE CleanupSocketAndParser(t)
  <2>1. /\ Proceed(t, <<>>) /\ parser' = 0
        /\ UNCHANGED <<selects, socket, opened, ioState, commandState, replies, poolState, answer, strayed>>
    BY <1>4 DEF CleanupSocketAndParser
  <2>2. CommandsOnce' /\ SelectsFresh' /\ OneConnection' /\ frames' \in Stacks(RedisThreads, RedisFrames)
    BY <1>1, <2>1, SilentFrames, Unconcerned DEF commandState, poolState
  <2>. QED BY <2>1, <2>2 DEF RedisTypeOK, ioState, commandState, poolState
<1>. QED BY <1>3, <1>4

LEMMA SilentSteps ==
  ASSUME RedisInv, NEW t \in RedisThreads,
         DisconnectStalledClients(t) \/ RecvZero(t) \/ RegisterRecv(t) \/ RegisterRecvFails(t)
         \/ Uncount(t) \/ SendZero(t)
  PROVE  RedisInv'
<1>. USE DEF RedisInv
<1> DEFINE Rest == CommandsOnce' /\ SelectsFresh' /\ OneConnection' /\ frames' \in Stacks(RedisThreads, RedisFrames)
<1>1. CASE DisconnectStalledClients(t)
  <2>1. /\ frames[t] = <<>> /\ Begin(t, <<<<"exchange", 0>>>>)
        /\ UNCHANGED <<selects, socket, opened, down, parser, ioState, commandState, replies, poolState, answer, strayed>>
    BY <1>1 DEF DisconnectStalledClients, Idle
  <2>2. Rest
    BY <2>1, SilentFrames, Unconcerned DEF commandState, poolState
  <2>. QED BY <2>1, <2>2 DEF RedisTypeOK, ioState, commandState, poolState
<1>2. CASE RecvZero(t)
  <2>1. /\ frames[t] = <<>> /\ Begin(t, <<<<"exchange", 0>>, <<"uncount", 0>>>>)
        /\ recvs # <<>> /\ recvs' = Tail(recvs)
        /\ UNCHANGED <<selects, socket, opened, down, parser, sends, pendingIo, commandState, replies, poolState, answer, strayed>>
    BY <1>2 DEF RecvZero, Idle
  <2>2. Rest
    BY <2>1, SilentFrames, Unconcerned DEF commandState, poolState
  <2>. QED BY <2>1, <2>2 DEF RedisTypeOK, commandState, poolState
<1>3. CASE RegisterRecv(t)
  <2>1. /\ In(t, "post") /\ Proceed(t, <<>>) /\ socket # 0
        /\ recvs' = Append(recvs, socket) /\ pendingIo' = pendingIo + 1
        /\ UNCHANGED <<selects, socket, opened, down, parser, sends, commandState, replies, poolState, answer, strayed>>
    BY <1>3 DEF RegisterRecv
  <2>2. frames[t] # <<>> /\ Silent(Head(frames[t]))
    BY <2>1, InPlace DEF Silent, SilentPlaces
  <2>3. Rest
    BY <2>1, <2>2, SilentFrames, Unconcerned DEF commandState, poolState
  <2>. QED BY <2>1, <2>3 DEF RedisTypeOK, commandState, poolState
<1>4. CASE RegisterRecvFails(t)
  <2>1. /\ In(t, "post") /\ Proceed(t, <<<<"exchange", 0>>>>)
        /\ UNCHANGED <<selects, socket, opened, down, parser, ioState, commandState, replies, poolState, answer, strayed>>
    BY <1>4 DEF RegisterRecvFails
  <2>2. frames[t] # <<>> /\ Silent(Head(frames[t]))
    BY <2>1, InPlace DEF Silent, SilentPlaces
  <2>3. Rest
    BY <2>1, <2>2, SilentFrames, Unconcerned DEF commandState, poolState
  <2>. QED BY <2>1, <2>3 DEF RedisTypeOK, ioState, commandState, poolState
<1>5. CASE Uncount(t)
  <2>1. /\ In(t, "uncount") /\ Proceed(t, <<>>) /\ pendingIo' = pendingIo - 1
        /\ UNCHANGED <<selects, socket, opened, down, parser, recvs, sends, commandState, replies, poolState, answer, strayed>>
    BY <1>5 DEF Uncount
  <2>2. frames[t] # <<>> /\ Silent(Head(frames[t]))
    BY <2>1, InPlace DEF Silent, SilentPlaces
  <2>3. Rest
    BY <2>1, <2>2, SilentFrames, Unconcerned DEF commandState, poolState
  <2>. QED BY <2>1, <2>3 DEF RedisTypeOK, commandState, poolState
<1>6. CASE SendZero(t)
  <2>1. /\ frames[t] = <<>> /\ Begin(t, <<<<"exchange", 0>>, <<"uncount", 0>>>>)
        /\ sends # <<>> /\ sends' = Tail(sends)
        /\ UNCHANGED <<selects, socket, opened, down, parser, recvs, pendingIo, commandState, replies, poolState, answer, strayed>>
    BY <1>6 DEF SendZero, Idle
  <2>2. Rest
    BY <2>1, SilentFrames, Unconcerned DEF commandState, poolState
  <2>. QED BY <2>1, <2>2 DEF RedisTypeOK, commandState, poolState
<1>. QED BY <1>1, <1>2, <1>3, <1>4, <1>5, <1>6

(* A reply, or a part of one, is read.                                       *)
LEMMA ProcessRecvStep ==
  ASSUME RedisInv, NEW w \in RedisThreads, ProcessRecv(w)
  PROVE  RedisInv'
<1>. USE DEF RedisInv
<1>1. PICK k : k = Head(recvs)
  OBVIOUS
<1>2. PICK reply : reply = Head(replies[k])
  OBVIOUS
<1>3. PICK piece \in {"rest", "whole", "first"} :
        /\ frames[w] = <<>> /\ recvs # <<>> /\ replies[k] # <<>> /\ recvs' = Tail(recvs)
        /\ replies' = [replies EXCEPT ![k] =
             IF piece = "first" THEN <<[reply EXCEPT !.begun = TRUE]>> \o Tail(@) ELSE Tail(@)]
        /\ parser' = IF piece = "first" /\ parser \in {0, k} THEN k ELSE 0
        /\ Begin(w, Receipts(k, reply.command, piece) \o <<<<"uncount", 0>>>>)
        /\ UNCHANGED <<selects, socket, opened, down, sends, pendingIo, commandState, poolState, answer, strayed>>
  BY <1>1, <1>2 DEF ProcessRecv, Idle
<1>4. /\ k \in Sockets /\ k \in Nat /\ recvs' \in Seq(Sockets)
      /\ replies[k] \in Seq(Replies) /\ reply \in Replies
  <2>1. recvs \in Seq(Sockets) /\ replies \in [Sockets -> Seq(Replies)]
    BY DEF RedisTypeOK
  <2>2. k \in Sockets /\ recvs' \in Seq(Sockets)
    BY <1>1, <1>3, <2>1, QueueOps
  <2>3. replies[k] \in Seq(Replies) /\ reply \in Replies
    BY <1>2, <1>3, <2>1, <2>2, QueueOps
  <2>. QED BY <2>2, <2>3 DEF Sockets
<1>5. /\ Tail(replies[k]) \in Seq(Replies)
      /\ [reply EXCEPT !.begun = TRUE] \in Replies
  BY <1>3, <1>4, QueueOps DEF Replies
<1>6. /\ Tail(replies[k]) \in Seq(Replies)
      /\ <<[reply EXCEPT !.begun = TRUE]>> \o Tail(replies[k]) \in Seq(Replies)
  BY <1>3, <1>4, <1>5, QueueOps
<1>7. replies' \in [Sockets -> Seq(Replies)] /\ parser' \in Nat
  BY <1>3, <1>4, <1>6 DEF RedisTypeOK
<1>8. \E a, b, d : /\ Silent(a) /\ Silent(b) /\ Silent(d)
                   /\ Begin(w, <<a, b>>) \/ Begin(w, <<a, b, d>>)
  <2> DEFINE u == <<"uncount", 0>>
             p == <<"post", 0>>
             x == <<"exchange", 0>>
             r(n) == <<"receipt", n>>
  <2>1. reply.command \in Nat
    BY <1>4 DEF Replies
  <2>2. \/ Receipts(k, reply.command, piece) \o <<u>> = <<r(0), p, u>>
        \/ Receipts(k, reply.command, piece) \o <<u>> = <<x, u>>
        \/ Receipts(k, reply.command, piece) \o <<u>> = <<p, u>>
        \/ Receipts(k, reply.command, piece) \o <<u>> = <<r(reply.command), p, u>>
    <3>3. \/ Receipts(k, reply.command, piece) = <<r(0), p>>
          \/ Receipts(k, reply.command, piece) = <<x>>
          \/ Receipts(k, reply.command, piece) = <<p>>
          \/ Receipts(k, reply.command, piece) = <<r(reply.command), p>>
      BY DEF Receipts
    <3>. HIDE DEF u, p, x, r
    <3>4. <<r(0), p>> \o <<u>> = <<r(0), p, u>> /\ <<x>> \o <<u>> = <<x, u>>
      BY ThreeCalls
    <3>5. <<p>> \o <<u>> = <<p, u>> /\ <<r(reply.command), p>> \o <<u>> = <<r(reply.command), p, u>>
      BY ThreeCalls
    <3>. QED BY <3>3, <3>4, <3>5
  <2>3. Silent(u) /\ Silent(p) /\ Silent(x) /\ Silent(r(0)) /\ Silent(r(reply.command))
    BY <2>1, SilentFrames
  <2>. HIDE DEF u, p, x, r
  <2>4. \/ Begin(w, <<r(0), p, u>>) \/ Begin(w, <<x, u>>)
        \/ Begin(w, <<p, u>>) \/ Begin(w, <<r(reply.command), p, u>>)
    BY <1>3, <2>2 DEF u
  <2>. QED BY <2>3, <2>4
<1>9. CommandsOnce' /\ SelectsFresh' /\ OneConnection' /\ frames' \in Stacks(RedisThreads, RedisFrames)
  BY <1>3, <1>8, Unconcerned DEF commandState, poolState
<1>. QED BY <1>3, <1>4, <1>7, <1>9 DEF RedisTypeOK, commandState, poolState

(* A send has ended, or goes on.                                             *)
LEMMA SendEndsStep ==
  ASSUME RedisInv, NEW w \in RedisThreads, SendEnds(w)
  PROVE  RedisInv'
<1>. USE DEF RedisInv
<1>1. /\ sends # <<>> /\ sends' = Tail(sends) /\ pendingIo' = pendingIo - 1 /\ sending' = Nothing
      /\ UNCHANGED <<selects, socket, opened, down, parser, recvs, callback, nextSend, replies, poolState,
                     answer, strayed, frames>>
  BY DEF SendEnds
<1>2. CommandsOnce' /\ SelectsFresh' /\ OneConnection' /\ frames' \in Stacks(RedisThreads, RedisFrames)
  BY <1>1, SilentFrames, Unconcerned DEF poolState
<1>. QED BY <1>1, <1>2 DEF RedisTypeOK, poolState, Nothing

LEMMA SendGoesOnStep ==
  ASSUME RedisInv, NEW w \in RedisThreads, SendGoesOn(w)
  PROVE  RedisInv'
<1>. USE DEF RedisInv
<1>1. PICK more : more = ToSend(Head(sends).sent)
  OBVIOUS
<1>2. /\ frames[w] = <<>> /\ sends # <<>> /\ Head(sends).sent > 0
      /\ sending' = more /\ nextSend' \in {nextSend, 0}
      /\ \/ /\ socket # 0
            /\ sends' = Append(Tail(sends), Posted(more.command, more.left))
            /\ UNCHANGED <<pendingIo, frames>>
         \/ /\ sends' = Tail(sends) /\ pendingIo' = pendingIo - 1
            /\ Begin(w, <<<<"exchange", Head(sends).socket>>>>)
      /\ UNCHANGED <<selects, socket, opened, down, parser, recvs, callback, replies, poolState, answer, strayed>>
  BY <1>1 DEF SendGoesOn, Idle
<1>3. /\ Head(sends) \in SendRequests
      /\ Tail(sends) \in Seq(SendRequests)
  BY <1>2, QueueOps DEF RedisTypeOK
<1>4. Head(sends).socket \in Nat /\ Head(sends).sent \in Nat
  BY <1>3 DEF Sockets, SendRequests
<1>5. more \in [command : Nat, left : Nat]
  <2>1. /\ sending \in [command : Nat, left : Nat] /\ Nothing \in [command : Nat, left : Nat]
        /\ nextSend \in Nat /\ Parts \in Nat
    BY RedisConstants DEF RedisTypeOK, Nothing
  <2> DEFINE n == Head(sends).sent
  <2>2. sending.left > n => [sending EXCEPT !.left = @ - n] \in [command : Nat, left : Nat]
    BY <1>4, <2>1
  <2>3. [command |-> nextSend, left |-> Parts] \in [command : Nat, left : Nat]
    BY <2>1
  <2>. HIDE DEF n
  <2>. QED BY <1>1, <2>1, <2>2, <2>3 DEF ToSend, n
<1>6. socket # 0 => /\ Posted(more.command, more.left) \in SendRequests
                    /\ Append(Tail(sends), Posted(more.command, more.left))
                         \in Seq(SendRequests)
  <2>1. socket # 0 => socket \in Sockets
    BY DEF RedisTypeOK
  <2>2. socket # 0 => Posted(more.command, more.left) \in SendRequests
    BY <1>5, <2>1 DEF Posted, SendRequests
  <2>. QED BY <1>3, <2>2, QueueOps
<1>7. CommandsOnce' /\ SelectsFresh' /\ OneConnection' /\ frames' \in Stacks(RedisThreads, RedisFrames)
  BY <1>2, <1>4, SilentFrames, Unconcerned DEF poolState
<1>8. sends' \in Seq(SendRequests) /\ pendingIo' \in Int
      /\ nextSend' \in Nat
  <2>1. pendingIo \in Int /\ nextSend \in Nat
    BY DEF RedisTypeOK
  <2>2. sends' \in Seq(SendRequests)
    BY <1>2, <1>3, <1>6
  <2>. QED BY <1>2, <2>1, <2>2
<1>. QED BY <1>2, <1>5, <1>7, <1>8 DEF RedisTypeOK, poolState

(* The network.                                                              *)
LEMMA NetworkSteps ==
  ASSUME RedisInv, Transmit \/ PeerCloses
  PROVE  RedisInv'
<1>. USE DEF RedisInv
<1>1. /\ UNCHANGED <<selects, socket, opened, parser, recvs, pendingIo, commandState, poolState, answer, strayed, frames>>
      /\ sends' \in Seq(SendRequests)
      /\ replies' \in [Sockets -> Seq(Replies)]
  <2>1. CASE PeerCloses
    BY <2>1 DEF PeerCloses, RedisTypeOK, ioState
  <2>2. CASE Transmit
    <3>0. PICK i \in 1..Len(sends) :
            \E n \in 1..sends[i].left :
              /\ sends' = [sends EXCEPT ![i].sent = n]
              /\ replies' = IF n < sends[i].left THEN replies
                            ELSE [replies EXCEPT ![sends[i].socket] =
                                    Append(@, [command |-> sends[i].command, begun |-> FALSE])]
              /\ UNCHANGED <<selects, socket, opened, down, parser, recvs, pendingIo, commandState, poolState,
                             answer, strayed, frames>>
      BY <2>2 DEF Transmit
    <3>1. PICK n \in 1..sends[i].left :
              /\ sends' = [sends EXCEPT ![i].sent = n]
              /\ replies' = IF n < sends[i].left THEN replies
                            ELSE [replies EXCEPT ![sends[i].socket] =
                                    Append(@, [command |-> sends[i].command, begun |-> FALSE])]
              /\ UNCHANGED <<selects, socket, opened, down, parser, recvs, pendingIo, commandState, poolState,
                             answer, strayed, frames>>
      BY <3>0
    <3>2. sends[i] \in SendRequests /\ i \in DOMAIN sends
      BY QueueOps DEF RedisTypeOK
    <3>3. n \in Nat
      BY <3>2 DEF SendRequests
    <3>4. [sends[i] EXCEPT !.sent = n] \in SendRequests
      BY <3>2, <3>3 DEF SendRequests
    <3>5. sends' \in Seq(SendRequests)
      <4>1. sends' = [sends EXCEPT ![i] = [sends[i] EXCEPT !.sent = n]]
        BY <3>1
      <4>. QED BY <3>2, <3>4, <4>1, QueueOps DEF RedisTypeOK
    <3>6. [command |-> sends[i].command, begun |-> FALSE] \in Replies
      BY <3>2 DEF SendRequests, Replies
    <3>7. replies' \in [Sockets -> Seq(Replies)]
      <4>1. replies \in [Sockets -> Seq(Replies)] /\ sends[i].socket \in Sockets
        BY <3>2 DEF RedisTypeOK, SendRequests
      <4>2. Append(replies[sends[i].socket], [command |-> sends[i].command, begun |-> FALSE]) \in Seq(Replies)
        BY <3>6, <4>1, QueueOps
      <4>. QED BY <3>1, <4>1, <4>2
    <3>. QED BY <3>1, <3>5, <3>7
  <2>. QED BY <2>1, <2>2
<1>2. CommandsOnce' /\ SelectsFresh' /\ OneConnection' /\ frames' \in Stacks(RedisThreads, RedisFrames)
  <2>1. Reconnector \in RedisThreads
    BY DEF RedisThreads
  <2>. QED BY <1>1, <2>1, SilentFrames, Unconcerned DEF poolState, commandState
<1>. QED BY <1>1, <1>2 DEF RedisTypeOK, poolState, commandState

-----------------------------------------------------------------------------
(* A command is taken from the client, kept back, or left with it.           *)
LEMMA Passed ==
  ASSUME RedisInv, UNCHANGED <<free, broken, waiting, issued, answer, opened>>,
         NEW t \in RedisThreads, frames[t] # <<>>, NEW h \in RedisFrames, h = Head(frames[t]),
         NEW c \in AllCommands, NEW how \in Told,
         \/ /\ callback = c /\ callback' = 0 /\ Silent(h)
            /\ Proceed(t, <<<<"callback", <<c, how>>>>>>)
         \/ callback' = callback /\ h = <<"send", c>> /\ Proceed(t, <<<<"callback", <<c, how>>>>>>)
         \/ callback = 0 /\ callback' = c /\ h = <<"send", c>> /\ Proceed(t, <<>>)
  PROVE  CommandsOnce' /\ SelectsFresh' /\ OneConnection' /\ frames' \in Stacks(RedisThreads, RedisFrames)
<1>. USE DEF RedisInv
<1>1. PICK f : f = <<"callback", <<c, how>>>>
  OBVIOUS
<1>2. f \in RedisFrames /\ f[1] = "callback" /\ f[2][1] = c /\ 0 \notin AllCommands /\ 0 \notin Commands
  BY <1>1 DEF RedisFrames, AllCommands, Commands
<1>3. /\ \A x : Hits(f, Carries(x)) = IF x = c THEN 1 ELSE 0
      /\ Hits(f, HasConnection) = IF c \in Commands THEN 1 ELSE 0
      /\ Hits(f, {"register"} \X {0}) = 0
  BY <1>2, FrameHits
<1>4. h = <<"send", c>> => /\ \A x : Hits(h, Carries(x)) = IF x = c THEN 1 ELSE 0
                           /\ Hits(h, HasConnection) = IF c \in Commands THEN 1 ELSE 0
                           /\ Hits(h, {"register"} \X {0}) = 0
  BY FrameHits
<1>5. Silent(h) => /\ \A x : Hits(h, Carries(x)) = 0
                   /\ Hits(h, HasConnection) = 0 /\ Hits(h, {"register"} \X {0}) = 0
  BY SilentHits
<1>6. /\ \A L : At(L) \in Nat
      /\ Proceed(t, <<>>) => /\ frames' \in Stacks(RedisThreads, RedisFrames)
                             /\ \A L : At(L)' = At(L) - Hits(h, L)
      /\ Proceed(t, <<f>>) => /\ frames' \in Stacks(RedisThreads, RedisFrames)
                              /\ \A L : At(L)' = At(L) - Hits(h, L) + Hits(f, L)
  BY <1>2, AtType, Proceeds
<1>7. \/ callback = c /\ callback' = 0 /\ Silent(h) /\ Proceed(t, <<f>>)
      \/ callback' = callback /\ h = <<"send", c>> /\ Proceed(t, <<f>>)
      \/ callback = 0 /\ callback' = c /\ h = <<"send", c>> /\ Proceed(t, <<>>)
  BY <1>1
<1>8. /\ frames' \in Stacks(RedisThreads, RedisFrames)
      /\ \A x \in AllCommands : (IF callback' = x THEN 1 ELSE 0) + At(Carries(x))'
                                 = (IF callback = x THEN 1 ELSE 0) + At(Carries(x))
      /\ (IF callback' \in Commands THEN 1 ELSE 0) + At(HasConnection)'
          = (IF callback \in Commands THEN 1 ELSE 0) + At(HasConnection)
      /\ Registering' = Registering
  <2>1. CASE callback = c /\ callback' = 0 /\ Silent(h) /\ Proceed(t, <<f>>)
    BY <1>2, <1>3, <1>5, <1>6, <2>1 DEF Registering
  <2>2. CASE callback' = callback /\ h = <<"send", c>> /\ Proceed(t, <<f>>)
    BY <1>3, <1>4, <1>6, <2>2 DEF Registering
  <2>3. CASE callback = 0 /\ callback' = c /\ h = <<"send", c>> /\ Proceed(t, <<>>)
    BY <1>2, <1>4, <1>6, <2>3 DEF Registering
  <2>. QED BY <1>7, <2>1, <2>2, <2>3
<1>9. \A x \in AllCommands : /\ With(x)' + Answered(x)' = With(x) + Answered(x)
                             /\ answer'[x] # "twice"
  <2>1. \A x \in AllCommands : Copies(waiting, x) \in Nat /\ At(Carries(x))' \in Nat /\ At(Carries(x)) \in Nat
    <3>1. \A L : At(L) \in Nat /\ Hits(h, L) \in Nat
      BY <1>6 DEF Hits
    <3>2. \A x : CountOf(frames', Carries(x)) \in Nat
      BY <1>8, ThreadsFinite, CountType
    <3>3. \A x : Copies(waiting, x) \in Nat
      BY CopiesType DEF RedisTypeOK
    <3>. QED BY <3>1, <3>2, <3>3 DEF At
  <2>. QED BY <1>8, <2>1 DEF With, Answered, CommandsOnce, CommandOnce, Copies
<1>10. Connections' = Connections
  <2>1. free \in Nat /\ broken \in Nat /\ At(HasConnection) \in Nat /\ At(HasConnection)' \in Nat
    <3>1. CountOf(frames', HasConnection) \in Nat
      BY <1>8, ThreadsFinite, CountType
    <3>. QED BY <1>6, <3>1 DEF RedisTypeOK, At
  <2>. QED BY <1>8, <2>1 DEF Connections
<1>11. free' > 0 => waiting' = <<>>
  BY DEF OneConnection
<1>. QED BY <1>8, <1>9, <1>10, <1>11, HandedOn

(* The connection alone moves.                                               *)
LEMMA Moved ==
  ASSUME RedisInv, UNCHANGED <<callback, waiting, issued, answer, opened>>,
         \A c : At(Carries(c))' = At(Carries(c)), Registering' > 0 => Registering > 0,
         Connections' = Connections, free' > 0 => waiting = <<>>
  PROVE  CommandsOnce' /\ SelectsFresh' /\ OneConnection'
<1>1. \A c \in AllCommands : With(c)' + Answered(c)' = With(c) + Answered(c) /\ answer'[c] # "twice"
  BY DEF RedisInv, CommandsOnce, CommandOnce, With, Answered, Copies
<1>. QED BY <1>1, HandedOn

(* The client takes a command, or gives its callback back.                   *)
LEMMA TakenSteps ==
  ASSUME RedisInv, NEW t \in RedisThreads, Drain(t) \/ OnReceiptResponse(t)
  PROVE  RedisInv'
<1>. USE DEF RedisInv
<1>1. /\ frames[t] # <<>> /\ Head(frames[t]) \in RedisFrames /\ Silent(Head(frames[t]))
  BY InPlace DEF Drain, OnReceiptResponse, Silent, SilentPlaces
<1>2. /\ callback' = 0 /\ sending' \in {sending, Nothing} /\ nextSend' \in {nextSend, 0}
      /\ UNCHANGED <<selects, socket, opened, parser, ioState, replies, poolState, answer>>
      /\ strayed' \in BOOLEAN
      /\ IF callback = 0 THEN Proceed(t, <<>>)
         ELSE \E how \in Told : Proceed(t, <<<<"callback", <<callback, how>>>>>>)
  BY DEF Drain, OnReceiptResponse, Failing, Error, Told, RedisTypeOK
<1>3. CommandsOnce' /\ SelectsFresh' /\ OneConnection' /\ frames' \in Stacks(RedisThreads, RedisFrames)
  <2>1. CASE callback = 0
    BY <1>1, <1>2, <2>1, SilentFrames, Unconcerned DEF poolState
  <2>2. CASE callback # 0
    <3>1. callback \in AllCommands
      BY <2>2 DEF RedisTypeOK
    <3>2. PICK how \in Told : Proceed(t, <<<<"callback", <<callback, how>>>>>>)
      BY <1>2, <2>2
    <3>. QED BY <1>1, <1>2, <3>1, <3>2, Passed DEF poolState
  <2>. QED BY <2>1, <2>2
<1>4. sending' \in [command : Nat, left : Nat] /\ nextSend' \in Nat
  BY <1>2 DEF RedisTypeOK, Nothing
<1>. QED BY <1>2, <1>3, <1>4 DEF RedisTypeOK, ioState, poolState

LEMMA SendSteps ==
  ASSUME RedisInv, NEW t \in RedisThreads, ClientSend(t)
  PROVE  RedisInv'
<1>. USE DEF RedisInv
<1>1. PICK c : c = Argument(t)
  OBVIOUS
<1>2. /\ frames[t] # <<>> /\ Head(frames[t]) \in RedisFrames /\ Head(frames[t]) = <<"send", c>>
  BY <1>1, InPlace DEF ClientSend, SendRefused, SendLater, SendNow, SendFails
<1>3. c \in AllCommands /\ c \in Nat
  BY <1>2, RedisConstants DEF RedisFrames, AllCommands
<1>4. /\ UNCHANGED <<free, broken, waiting, issued, answer, opened, selects, strayed, recvs, replies>>
      /\ socket' \in {socket, 0} /\ parser' \in {parser, 0}
      /\ nextSend' \in {nextSend, c}
      /\ sending' \in {sending, [command |-> c, left |-> Parts]}
      /\ pendingIo' \in {pendingIo, pendingIo + 1}
      /\ sends' = sends \/ (socket # 0 /\ sends' = Append(sends, Posted(c, Parts)))
      /\ \/ callback' = callback /\ Proceed(t, <<<<"callback", <<c, "error">>>>>>)
         \/ callback = 0 /\ callback' = c /\ Proceed(t, <<>>)
  BY <1>1 DEF ClientSend, SendRefused, SendLater, SendNow, SendFails, Error, ioState, commandState, poolState
<1>5. CommandsOnce' /\ SelectsFresh' /\ OneConnection' /\ frames' \in Stacks(RedisThreads, RedisFrames)
  BY <1>2, <1>3, <1>4, Passed DEF Told
<1>6. sends' \in Seq(SendRequests)
  <2>1. socket # 0 => Posted(c, Parts) \in SendRequests
    BY <1>3, RedisConstants DEF RedisTypeOK, Posted, SendRequests
  <2>2. sends \in Seq(SendRequests)
    BY DEF RedisTypeOK
  <2>3. socket # 0 => Append(sends, Posted(c, Parts)) \in Seq(SendRequests)
    BY <2>1, <2>2, QueueOps
  <2>. QED BY <1>4, <2>2, <2>3
<1>7. sending' \in [command : Nat, left : Nat]
  BY <1>3, <1>4, RedisConstants DEF RedisTypeOK
<1>8. /\ pendingIo' \in Int /\ nextSend' \in Nat /\ parser' \in Nat
      /\ socket' \in {0, opened} /\ callback' \in {0} \union AllCommands
  BY <1>3, <1>4 DEF RedisTypeOK
<1>. QED BY <1>4, <1>5, <1>6, <1>7, <1>8 DEF RedisTypeOK

(* The pool is given the connection back, and lends it.                      *)
Bare(f) == f \in RedisFrames /\ f[1] \notin {"send", "expired", "callback"}

LEMMA BareHits ==
  ASSUME NEW f, Bare(f)
  PROVE  /\ f \in RedisFrames /\ \A c : Hits(f, Carries(c)) = 0
         /\ Hits(f, HasConnection) = IF f[1] \in {"push", "connect", "register", "await", "giveBack"} THEN 1 ELSE 0
         /\ Hits(f, {"register"} \X {0}) = IF f[1] = "register" THEN 1 ELSE 0
  BY FrameHits DEF Bare

LEMMA PushSteps ==
  ASSUME RedisInv, NEW t \in RedisThreads, PushBroken(t) \/ PushFree(t) \/ GiveBack(t)
  PROVE  RedisInv'
<1>. USE DEF RedisInv
<1>1. PICK h : h = Head(frames[t])
  OBVIOUS
<1>2. /\ frames[t] # <<>> /\ Bare(h) /\ h[1] \in {"push", "giveBack"}
      /\ Proceed(t, <<>>)
      /\ UNCHANGED <<selects, socket, opened, down, parser, ioState, commandState, replies, waiting,
                     issued, answer, strayed>>
      /\ \/ free' = free /\ broken' = broken + 1
         \/ free' = free + 1 /\ broken' = broken /\ waiting = <<>>
  BY <1>1, InPlace DEF PushBroken, PushFree, GiveBack, Bare
<1>3. /\ \A c : Hits(h, Carries(c)) = 0
      /\ Hits(h, HasConnection) = 1 /\ Hits(h, {"register"} \X {0}) = 0
  BY <1>2, BareHits
<1>4. /\ frames' \in Stacks(RedisThreads, RedisFrames)
      /\ \A L : At(L) \in Nat /\ At(L)' = At(L) - Hits(h, L)
  <2>1. <<"drain", 0>> \in RedisFrames
    BY DEF RedisFrames
  <2>. QED BY <1>1, <1>2, <2>1, AtType, Proceeds
<1>5. free \in Nat /\ broken \in Nat /\ free' \in Nat /\ broken' \in Nat
  BY <1>2 DEF RedisTypeOK
<1>6. Connections' = Connections
  <2>1. At(HasConnection)' = At(HasConnection) - 1 /\ At(HasConnection) \in Nat
    BY <1>3, <1>4
  <2>2. callback' = callback
    BY <1>2 DEF commandState
  <2>3. CASE free' = free /\ broken' = broken + 1
    BY <1>5, <2>1, <2>2, <2>3 DEF Connections
  <2>4. CASE free' = free + 1 /\ broken' = broken
    BY <1>5, <2>1, <2>2, <2>4 DEF Connections
  <2>. QED BY <1>2, <2>3, <2>4
<1>7. (\A c : At(Carries(c))' = At(Carries(c))) /\ Registering' = Registering
  BY <1>3, <1>4 DEF Registering
<1>8. free' > 0 => waiting = <<>>
  BY <1>2 DEF OneConnection
<1>9. CommandsOnce' /\ SelectsFresh' /\ OneConnection'
  BY <1>2, <1>6, <1>7, <1>8, Moved DEF commandState
<1>. QED BY <1>2, <1>4, <1>5, <1>9 DEF RedisTypeOK, ioState, commandState

LEMMA PushToWaitingStep ==
  ASSUME RedisInv, NEW t \in RedisThreads, PushToWaiting(t)
  PROVE  RedisInv'
<1>. USE DEF RedisInv
<1>1. PICK h : h = Head(frames[t])
  OBVIOUS
<1>2. PICK c : c = Head(waiting)
  OBVIOUS
<1>3. PICK f : f = <<"send", c>>
  OBVIOUS
<1>4. /\ frames[t] # <<>> /\ Bare(h) /\ h[1] = "push"
      /\ waiting # <<>> /\ waiting' = Tail(waiting)
      /\ Proceed(t, <<f>>)
      /\ UNCHANGED <<selects, socket, opened, down, parser, ioState, commandState, replies, free, broken,
                     issued, answer, strayed>>
  BY <1>1, <1>2, <1>3, InPlace DEF PushToWaiting, Bare
<1>5. waiting \in Seq(Commands) /\ waiting' \in Seq(Commands) /\ c \in Commands
  BY <1>2, <1>4 DEF RedisTypeOK
<1>6. f \in RedisFrames /\ f[1] = "send" /\ f[2] = c
  BY <1>3, <1>5, RedisConstants DEF RedisFrames, Commands, AllCommands
<1>7. /\ \A x : Hits(h, Carries(x)) = 0
      /\ Hits(h, HasConnection) = 1 /\ Hits(h, {"register"} \X {0}) = 0
      /\ \A x : Hits(f, Carries(x)) = IF x = c THEN 1 ELSE 0
      /\ Hits(f, HasConnection) = 1 /\ Hits(f, {"register"} \X {0}) = 0
  BY <1>4, <1>5, <1>6, BareHits, FrameHits
<1>8. /\ frames' \in Stacks(RedisThreads, RedisFrames)
      /\ \A L : At(L) \in Nat /\ At(L)' = At(L) - Hits(h, L) + Hits(f, L)
  BY <1>1, <1>4, <1>6, AtType, Proceeds
<1>9. \A x : /\ Copies(waiting, x) \in Nat
             /\ Copies(waiting', x) = Copies(waiting, x) - (IF c = x THEN 1 ELSE 0)
  BY <1>2, <1>4, <1>5, CopiesType, CopiesTail
<1>10. \A x \in AllCommands : With(x)' + Answered(x)' = With(x) + Answered(x) /\ answer'[x] # "twice"
  <2>1. \A x \in AllCommands : With(x)' = Copies(waiting', x) + (IF callback' = x THEN 1 ELSE 0) + At(Carries(x))'
    BY DEF With, Copies
  <2>2. \A x : At(Carries(x)) \in Nat /\ At(Carries(x))' = At(Carries(x)) + (IF x = c THEN 1 ELSE 0)
    BY <1>7, <1>8
  <2>3. callback' = callback /\ answer' = answer
    BY <1>4 DEF commandState
  <2>4. \A x \in AllCommands : With(x)' = With(x)
    BY <1>9, <2>1, <2>2, <2>3 DEF With
  <2>. QED BY <2>3, <2>4 DEF Answered, CommandsOnce, CommandOnce
<1>11. Connections' = Connections /\ Registering' = Registering
  BY <1>4, <1>7, <1>8 DEF Connections, Registering, commandState
<1>12. free' > 0 => waiting' = <<>>
  BY <1>4 DEF OneConnection
<1>13. CommandsOnce' /\ SelectsFresh' /\ OneConnection'
  BY <1>4, <1>10, <1>11, <1>12, HandedOn
<1>. QED BY <1>4, <1>5, <1>8, <1>13 DEF RedisTypeOK, ioState, commandState

LEMMA LendStep ==
  ASSUME RedisInv, NEW u \in RedisThreads, Lend(u)
  PROVE  RedisInv'
<1>. USE DEF RedisInv
<1>1. PICK c : c = issued + 1
  OBVIOUS
<1>2. PICK f : f = <<"send", c>>
  OBVIOUS
<1>3. /\ frames[u] = <<>> /\ issued < MaxCommands /\ free > 0
      /\ issued' = c /\ free' = free - 1 /\ Begin(u, <<f>>)
      /\ UNCHANGED <<selects, socket, opened, down, parser, ioState, commandState, replies, broken, waiting,
                     answer, strayed>>
  BY <1>1, <1>2 DEF Lend, Idle
<1>4. issued \in 0..MaxCommands /\ MaxCommands \in Nat /\ c \in Commands /\ c \in AllCommands
  BY <1>1, <1>3, RedisConstants DEF RedisTypeOK, Commands, AllCommands
<1>5. f \in RedisFrames /\ f[1] = "send" /\ f[2] = c
  BY <1>2, <1>4 DEF RedisFrames
<1>6. /\ \A x : Hits(f, Carries(x)) = IF x = c THEN 1 ELSE 0
      /\ Hits(f, HasConnection) = 1 /\ Hits(f, {"register"} \X {0}) = 0
  BY <1>4, <1>5, FrameHits
<1>7. /\ frames' \in Stacks(RedisThreads, RedisFrames)
      /\ \A L : At(L) \in Nat /\ At(L)' = At(L) + Hits(f, L)
  BY <1>3, <1>5, AtType, Begins
<1>8. \A x : Copies(waiting, x) \in Nat
  BY CopiesType DEF RedisTypeOK
<1>9. ASSUME NEW x \in AllCommands
      PROVE  With(x)' = With(x) + (IF x = c THEN 1 ELSE 0) /\ Answered(x)' = Answered(x)
             /\ With(x) \in Nat /\ Answered(x) \in {0, 1}
  <2>1. At(Carries(x)) \in Nat /\ At(Carries(x))' = At(Carries(x)) + (IF x = c THEN 1 ELSE 0)
    BY <1>6, <1>7
  <2>2. callback' = callback /\ answer' = answer /\ Copies(waiting, x)' = Copies(waiting, x)
    BY <1>3 DEF commandState, Copies
  <2>. QED BY <1>8, <2>1, <2>2 DEF With, Answered
<1>10. CommandsOnce'
  <2>. SUFFICES ASSUME NEW x \in AllCommands PROVE CommandOnce(x)'
    BY DEF CommandsOnce
  <2>1. CommandOnce(x)
    BY DEF CommandsOnce
  <2>. QED BY <1>1, <1>3, <1>4, <1>9, <2>1 DEF CommandOnce, AllCommands
<1>11. SelectsFresh'
  <2>1. Registering' = Registering /\ opened' = opened
    BY <1>3, <1>6, <1>7 DEF Registering
  <2>2. \A k \in Sockets : SelectOf(k) \in AllCommands /\ SelectOf(k) # c
    BY <1>4, RedisConstants DEF Sockets, SelectOf, AllCommands, Commands
  <2>3. ASSUME NEW k \in Sockets, k > opened' \/ (k = opened' /\ Registering' > 0)
        PROVE  With(SelectOf(k))' + Answered(SelectOf(k))' = 0
    <3>1. With(SelectOf(k)) + Answered(SelectOf(k)) = 0
      BY <2>1, <2>3 DEF SelectsFresh
    <3>. QED BY <1>9, <2>2, <3>1
  <2>. QED BY <2>3 DEF SelectsFresh
<1>12. OneConnection' /\ free' \in Nat
  <2>1. free \in Nat /\ broken \in Nat
    BY DEF RedisTypeOK
  <2>. QED BY <1>3, <1>6, <1>7, <2>1 DEF OneConnection, Connections, commandState
<1>. QED BY <1>3, <1>4, <1>7, <1>10, <1>11, <1>12 DEF RedisTypeOK, ioState, commandState, Commands

(* Without a connection, the command waits or is refused.                    *)
LEMMA WaitStep ==
  ASSUME RedisInv, NEW u \in RedisThreads, Wait(u)
  PROVE  RedisInv'
<1>. USE DEF RedisInv
<1>1. PICK c : c = issued + 1
  OBVIOUS
<1>2. /\ issued < MaxCommands /\ issued' = c /\ free' = 0 /\ broken' = broken + free
      /\ \/ waiting' = Append(waiting, c) /\ answer' = answer
         \/ answer' = [answer EXCEPT ![c] = "refused"] /\ waiting' = waiting
      /\ UNCHANGED <<selects, socket, opened, down, parser, ioState, commandState, replies, strayed, frames>>
  BY <1>1 DEF Wait
<1>3. issued \in 0..MaxCommands /\ MaxCommands \in Nat /\ c \in Commands /\ c \in AllCommands
  BY <1>1, <1>2, RedisConstants DEF RedisTypeOK, Commands, AllCommands
<1>4. waiting \in Seq(Commands) /\ waiting' \in Seq(Commands)
  <2>1. waiting \in Seq(Commands)
    BY DEF RedisTypeOK
  <2>2. Append(waiting, c) \in Seq(Commands)
    BY <1>3, <2>1, QueueOps
  <2>. QED BY <1>2, <2>1, <2>2
<1>5. With(c) = 0 /\ answer[c] = "none"
  <2>1. CommandOnce(c) /\ ~(c <= issued)
    BY <1>1, <1>3 DEF CommandsOnce
  <2>2. With(c) + Answered(c) = 0
    BY <1>3, <2>1 DEF CommandOnce
  <2>3. Copies(waiting, c) \in Nat /\ At(Carries(c)) \in Nat
    BY <1>4, CopiesType, AtType
  <2>4. With(c) \in Nat
    BY <2>3 DEF With
  <2>. QED BY <2>2, <2>4 DEF Answered
<1>6. ASSUME NEW x \in AllCommands
      PROVE  /\ With(x)' + Answered(x)' = With(x) + Answered(x) + (IF x = c THEN 1 ELSE 0)
             /\ answer'[x] # "twice" /\ With(x) + Answered(x) \in Nat
  <2>1. /\ Copies(waiting, x) \in Nat /\ At(Carries(x)) \in Nat /\ Answered(x) \in {0, 1}
        /\ At(Carries(x))' = At(Carries(x)) /\ callback' = callback
    BY <1>2, <1>4, CopiesType, AtType DEF At, Answered, commandState
  <2>2. With(x) \in Nat /\ With(x)' = Copies(waiting', x) + (IF callback' = x THEN 1 ELSE 0) + At(Carries(x))'
    BY <2>1 DEF With, Copies
  <2>3. answer[x] # "twice" /\ answer \in [AllCommands -> {"none", "refused", "twice"} \union Told]
    BY DEF CommandsOnce, CommandOnce, RedisTypeOK
  <2>4. CASE waiting' = Append(waiting, c) /\ answer' = answer
    <3>1. Copies(waiting', x) = Copies(waiting, x) + (IF c = x THEN 1 ELSE 0)
      BY <1>3, <1>4, <2>4, CopiesAppend
    <3>. QED BY <2>1, <2>2, <2>3, <2>4, <3>1 DEF With, Answered
  <2>5. CASE answer' = [answer EXCEPT ![c] = "refused"] /\ waiting' = waiting
    <3>1. /\ answer'[x] = (IF x = c THEN "refused" ELSE answer[x])
      BY <1>3, <2>3, <2>5
    <3>2. With(x)' = With(x)
      BY <2>1, <2>2, <2>5 DEF With
    <3>. QED BY <1>5, <2>1, <2>2, <2>3, <3>1, <3>2 DEF Answered
  <2>. QED BY <1>2, <2>4, <2>5
<1>7. CommandsOnce'
  <2>. SUFFICES ASSUME NEW x \in AllCommands PROVE CommandOnce(x)'
    BY DEF CommandsOnce
  <2>1. CommandOnce(x)
    BY DEF CommandsOnce
  <2>. QED BY <1>1, <1>2, <1>3, <1>6, <2>1 DEF CommandOnce, AllCommands
<1>8. SelectsFresh'
  <2>1. Registering' = Registering /\ opened' = opened
    BY <1>2 DEF Registering, At
  <2>2. \A k \in Sockets : SelectOf(k) \in AllCommands /\ SelectOf(k) # c
    BY <1>3, RedisConstants DEF Sockets, SelectOf, AllCommands, Commands
  <2>3. ASSUME NEW k \in Sockets, k > opened' \/ (k = opened' /\ Registering' > 0)
        PROVE  With(SelectOf(k))' + Answered(SelectOf(k))' = 0
    <3>1. With(SelectOf(k)) + Answered(SelectOf(k)) = 0
      BY <2>1, <2>3 DEF SelectsFresh
    <3>. QED BY <1>6, <2>2, <3>1
  <2>. QED BY <2>3 DEF SelectsFresh
<1>9. OneConnection' /\ free' \in Nat /\ broken' \in Nat
  <2>1. free \in Nat /\ broken \in Nat /\ At(HasConnection) \in Nat /\ At(HasConnection)' = At(HasConnection)
    BY <1>2, AtType DEF RedisTypeOK, At
  <2>. QED BY <1>2, <2>1 DEF OneConnection, Connections, commandState
<1>10. answer' \in [AllCommands -> {"none", "refused", "twice"} \union Told]
  BY <1>2 DEF RedisTypeOK
<1>. QED BY <1>2, <1>3, <1>4, <1>7, <1>8, <1>9, <1>10 DEF RedisTypeOK, ioState, commandState, Commands

(* The oldest waiting command expires.                                       *)
LEMMA ExpireStep ==
  ASSUME RedisInv, NEW r \in RedisThreads, ExpirePendingCommands(r)
  PROVE  RedisInv'
<1>. USE DEF RedisInv
<1>1. PICK c : c = Head(waiting)
  OBVIOUS
<1>2. PICK f : f = <<"expired", c>>
  OBVIOUS
<1>3. /\ frames[r] = <<>> /\ waiting # <<>> /\ waiting' = Tail(waiting) /\ Begin(r, <<f>>)
      /\ UNCHANGED <<selects, socket, opened, down, parser, ioState, commandState, replies, free, broken,
                     issued, answer, strayed>>
  BY <1>1, <1>2 DEF ExpirePendingCommands, Idle
<1>4. waiting \in Seq(Commands) /\ waiting' \in Seq(Commands) /\ c \in Commands
  BY <1>1, <1>3 DEF RedisTypeOK
<1>5. f \in RedisFrames /\ f[1] = "expired" /\ f[2] = c
  BY <1>2, <1>4 DEF RedisFrames
<1>6. /\ \A x : Hits(f, Carries(x)) = IF x = c THEN 1 ELSE 0
      /\ Hits(f, HasConnection) = 0 /\ Hits(f, {"register"} \X {0}) = 0
  BY <1>5, FrameHits
<1>7. /\ frames' \in Stacks(RedisThreads, RedisFrames)
      /\ \A L : At(L) \in Nat /\ At(L)' = At(L) + Hits(f, L)
  BY <1>3, <1>5, AtType, Begins
<1>8. \A x : /\ Copies(waiting, x) \in Nat
             /\ Copies(waiting', x) = Copies(waiting, x) - (IF c = x THEN 1 ELSE 0)
  BY <1>1, <1>3, <1>4, CopiesType, CopiesTail
<1>9. \A x \in AllCommands : With(x)' + Answered(x)' = With(x) + Answered(x) /\ answer'[x] # "twice"
  <2>1. \A x \in AllCommands : With(x)' = Copies(waiting', x) + (IF callback' = x THEN 1 ELSE 0) + At(Carries(x))'
    BY DEF With, Copies
  <2>2. \A x : At(Carries(x)) \in Nat /\ At(Carries(x))' = At(Carries(x)) + (IF x = c THEN 1 ELSE 0)
    BY <1>6, <1>7
  <2>3. callback' = callback /\ answer' = answer
    BY <1>3 DEF commandState
  <2>4. \A x \in AllCommands : With(x)' = With(x)
    BY <1>8, <2>1, <2>2, <2>3 DEF With
  <2>. QED BY <2>3, <2>4 DEF Answered, CommandsOnce, CommandOnce
<1>10. Connections' = Connections /\ Registering' = Registering
  BY <1>3, <1>6, <1>7 DEF Connections, Registering, commandState
<1>11. free' > 0 => waiting' = <<>>
  BY <1>3 DEF OneConnection
<1>12. CommandsOnce' /\ SelectsFresh' /\ OneConnection'
  BY <1>3, <1>9, <1>10, <1>11, HandedOn
<1>. QED BY <1>3, <1>4, <1>7, <1>12 DEF RedisTypeOK, ioState, commandState

(* A thread that has a command answers it, for the first time.               *)
LEMMA AnswerSteps ==
  ASSUME RedisInv, NEW t \in RedisThreads, Callback(t) \/ Expired(t)
  PROVE  RedisInv'
<1>. USE DEF RedisInv
<1>1. PICK h : h = Head(frames[t])
  OBVIOUS
<1>2. PICK p : p = <<"push", 0>>
  OBVIOUS
<1>3. PICK c \in AllCommands :
      \E how \in Told :
        /\ frames[t] # <<>> /\ h \in RedisFrames
        /\ \/ h[1] = "callback" /\ h[2][1] = c /\ Proceed(t, IF c \in Commands THEN <<p>> ELSE <<>>)
           \/ h[1] = "expired" /\ h[2] = c /\ Proceed(t, <<>>)
        /\ answer' = [answer EXCEPT ![c] = IF @ = "none" THEN how ELSE "twice"]
        /\ UNCHANGED <<selects, socket, opened, down, parser, ioState, commandState, replies, poolState, strayed>>
  <2>1. CASE Callback(t)
    <3>1. h = <<"callback", Argument(t)>> /\ h \in RedisFrames /\ frames[t] # <<>>
      BY <1>1, <2>1, InPlace DEF Callback
    <3>2. Argument(t) \in AllCommands \X Told
      BY <3>1 DEF RedisFrames
    <3>. QED BY <1>2, <2>1, <3>1, <3>2 DEF Callback
  <2>2. CASE Expired(t)
    <3>1. h = <<"expired", Argument(t)>> /\ h \in RedisFrames /\ frames[t] # <<>>
      BY <1>1, <2>2, InPlace DEF Expired
    <3>2. Argument(t) \in AllCommands
      BY <3>1, RedisConstants DEF RedisFrames, Commands, AllCommands
    <3>. QED BY <2>2, <3>1, <3>2 DEF Expired, Told
  <2>. QED BY <2>1, <2>2
<1>4. PICK how \in Told :
        /\ frames[t] # <<>> /\ h \in RedisFrames
        /\ \/ h[1] = "callback" /\ h[2][1] = c /\ Proceed(t, IF c \in Commands THEN <<p>> ELSE <<>>)
           \/ h[1] = "expired" /\ h[2] = c /\ Proceed(t, <<>>)
        /\ answer' = [answer EXCEPT ![c] = IF @ = "none" THEN how ELSE "twice"]
        /\ UNCHANGED <<selects, socket, opened, down, parser, ioState, commandState, replies, poolState, strayed>>
  BY <1>3
<1>5. /\ \A x : Hits(h, Carries(x)) = IF x = c THEN 1 ELSE 0
      /\ Hits(h, HasConnection) = IF h[1] = "callback" /\ c \in Commands THEN 1 ELSE 0
      /\ Hits(h, {"register"} \X {0}) = 0
  BY <1>4, FrameHits
<1>6. /\ p \in RedisFrames /\ \A x : Hits(p, Carries(x)) = 0
      /\ Hits(p, HasConnection) = 1 /\ Hits(p, {"register"} \X {0}) = 0
  <2>1. p \in RedisFrames /\ p[1] = "push"
    BY <1>2 DEF RedisFrames
  <2>. QED BY <2>1, FrameHits
<1>7. /\ \A L : At(L) \in Nat /\ At(L) >= Hits(h, L)
      /\ Proceed(t, <<>>) => /\ frames' \in Stacks(RedisThreads, RedisFrames)
                             /\ \A L : At(L)' = At(L) - Hits(h, L)
      /\ Proceed(t, <<p>>) => /\ frames' \in Stacks(RedisThreads, RedisFrames)
                              /\ \A L : At(L)' = At(L) - Hits(h, L) + Hits(p, L)
  BY <1>1, <1>4, <1>6, AtType, Proceeds
<1>8. /\ frames' \in Stacks(RedisThreads, RedisFrames)
      /\ \A x : At(Carries(x)) \in Nat /\ At(Carries(x))' = At(Carries(x)) - (IF x = c THEN 1 ELSE 0)
      /\ At(HasConnection)' = At(HasConnection) /\ Registering' = Registering
  BY <1>4, <1>5, <1>6, <1>7 DEF Registering
<1>9. answer[c] = "none"
  <2>1. At(Carries(c)) \in Nat /\ At(Carries(c)) >= 1 /\ Copies(waiting, c) \in Nat
    BY <1>5, <1>7, CopiesType DEF RedisTypeOK
  <2>2. With(c) >= 1 /\ With(c) \in Nat
    BY <2>1 DEF With
  <2>3. With(c) + Answered(c) <= 1
    BY <2>2, RedisConstants DEF CommandsOnce, CommandOnce, RedisTypeOK, AllCommands
  <2>. QED BY <2>2, <2>3 DEF Answered
<1>10. ASSUME NEW x \in AllCommands
       PROVE  With(x)' + Answered(x)' = With(x) + Answered(x) /\ answer'[x] # "twice"
  <2>1. answer[x] # "twice" /\ answer \in [AllCommands -> {"none", "refused", "twice"} \union Told]
    BY DEF CommandsOnce, CommandOnce, RedisTypeOK
  <2>2. answer'[x] = IF x = c THEN how ELSE answer[x]
    BY <1>4, <1>9, <2>1
  <2>3. Copies(waiting, x) \in Nat /\ Copies(waiting, x)' = Copies(waiting, x) /\ callback' = callback
    <3>1. waiting \in Seq(Commands)
      BY DEF RedisTypeOK
    <3>2. waiting' = waiting /\ callback' = callback
      BY <1>4 DEF poolState, commandState
    <3>. QED BY <3>1, <3>2, CopiesType DEF Copies
  <2>4. With(x)' = With(x) - (IF x = c THEN 1 ELSE 0) /\ With(x) \in Nat
    BY <1>8, <2>3 DEF With
  <2>5. Answered(x)' = Answered(x) + (IF x = c THEN 1 ELSE 0) /\ Answered(x) \in {0, 1}
    BY <1>9, <2>2 DEF Answered, Told
  <2>. QED BY <2>1, <2>2, <2>4, <2>5 DEF Told
<1>11. Connections' = Connections
  BY <1>4, <1>8 DEF Connections, commandState, poolState
<1>12. free' > 0 => waiting' = <<>>
  BY <1>4 DEF OneConnection, poolState
<1>13. CommandsOnce' /\ SelectsFresh' /\ OneConnection'
  BY <1>4, <1>8, <1>10, <1>11, <1>12, HandedOn DEF poolState
<1>14. answer' \in [AllCommands -> {"none", "refused", "twice"} \union Told]
  BY <1>4 DEF RedisTypeOK
<1>. QED BY <1>4, <1>8, <1>13, <1>14 DEF RedisTypeOK, ioState, commandState, poolState

(* The reconnect thread: frames without a command take turns.                *)
LEMMA ReconnectSteps ==
  ASSUME RedisInv, NEW r \in RedisThreads,
         TakeBroken(r) \/ ConnectFails(r) \/ FirstRecvFails(r) \/ Selected(r)
  PROVE  RedisInv'
<1>. USE DEF RedisInv
<1>1. PICK x : x = <<"exchange", 0>>
  OBVIOUS
<1>2. PICK g : g = <<"giveBack", 0>>
  OBVIOUS
<1>3. PICK p : p = <<"push", 0>>
  OBVIOUS
<1>4. PICK n : n = <<"connect", 0>>
  OBVIOUS
<1>5. /\ Bare(x) /\ Bare(g) /\ Bare(p) /\ Bare(n)
      /\ x[1] = "exchange" /\ g[1] = "giveBack" /\ p[1] = "push" /\ n[1] = "connect"
  BY <1>1, <1>2, <1>3, <1>4 DEF Bare, RedisFrames
<1>6. /\ \A f \in {x, g, p, n} : /\ f \in RedisFrames /\ \A c : Hits(f, Carries(c)) = 0
                                /\ Hits(f, {"register"} \X {0}) = 0
      /\ Hits(x, HasConnection) = 0 /\ Hits(g, HasConnection) = 1 /\ Hits(p, HasConnection) = 1
      /\ Hits(n, HasConnection) = 1
  BY <1>5, BareHits
<1>7. \A L : At(L) \in Nat
  BY AtType
<1>8. /\ UNCHANGED <<selects, socket, opened, down, parser, ioState, commandState, replies, free, waiting,
                     issued, answer, strayed>>
      /\ broken' \in Nat /\ frames' \in Stacks(RedisThreads, RedisFrames)
      /\ \A c : At(Carries(c))' = At(Carries(c))
      /\ broken' + At(HasConnection)' = broken + At(HasConnection)
      /\ Registering' > 0 => Registering > 0
  <2>1. CASE TakeBroken(r)
    <3>1. /\ frames[r] = <<>> /\ broken > 0 /\ broken' = broken - 1 /\ Begin(r, <<n>>)
          /\ UNCHANGED <<selects, socket, opened, down, parser, ioState, commandState, replies, free, waiting,
                         issued, answer, strayed>>
      BY <1>4, <2>1 DEF TakeBroken, Idle
    <3>2. frames' \in Stacks(RedisThreads, RedisFrames) /\ \A L : At(L)' = At(L) + Hits(n, L)
      BY <1>6, <3>1, Begins
    <3>3. broken \in Nat
      BY DEF RedisTypeOK
    <3>. QED BY <1>6, <1>7, <3>1, <3>2, <3>3 DEF Registering
  <2>2. CASE ConnectFails(r) \/ FirstRecvFails(r) \/ Selected(r)
    <3>1. PICK h : h = Head(frames[r])
      OBVIOUS
    <3>2. /\ frames[r] # <<>> /\ Bare(h) /\ h[1] \in {"connect", "register", "await"}
          /\ Proceed(r, <<g>>) \/ Proceed(r, <<p>>) \/ Proceed(r, <<x, g>>)
          /\ UNCHANGED <<selects, socket, opened, down, parser, ioState, commandState, replies, poolState,
                         answer, strayed>>
      BY <1>1, <1>2, <1>3, <2>2, <3>1, InPlace DEF ConnectFails, FirstRecvFails, Selected, Bare
    <3>3. /\ (\A c : Hits(h, Carries(c)) = 0) /\ Hits(h, HasConnection) = 1
          /\ Hits(h, {"register"} \X {0}) \in {0, 1}
      BY <3>2, BareHits
    <3>4. /\ Proceed(r, <<g>>) => /\ frames' \in Stacks(RedisThreads, RedisFrames)
                                  /\ \A L : At(L)' = At(L) - Hits(h, L) + Hits(g, L)
          /\ Proceed(r, <<p>>) => /\ frames' \in Stacks(RedisThreads, RedisFrames)
                                  /\ \A L : At(L)' = At(L) - Hits(h, L) + Hits(p, L)
          /\ Proceed(r, <<x, g>>) => /\ frames' \in Stacks(RedisThreads, RedisFrames)
                                     /\ \A L : At(L)' = At(L) - Hits(h, L) + Hits(g, L) + Hits(x, L)
      <4>1. x \in RedisFrames /\ g \in RedisFrames /\ p \in RedisFrames
        BY <1>6
      <4>2. RedisTypeOK /\ frames[r] # <<>> /\ h = Head(frames[r])
        BY <3>1, <3>2
      <4>3. Proceed(r, <<g>>) => /\ frames' \in Stacks(RedisThreads, RedisFrames)
                                 /\ \A L : At(L)' = At(L) - Hits(h, L) + Hits(g, L)
        BY <4>1, <4>2, ProceedsTo
      <4>4. Proceed(r, <<p>>) => /\ frames' \in Stacks(RedisThreads, RedisFrames)
                                 /\ \A L : At(L)' = At(L) - Hits(h, L) + Hits(p, L)
        BY <4>1, <4>2, ProceedsTo
      <4>5. Proceed(r, <<x, g>>) => /\ frames' \in Stacks(RedisThreads, RedisFrames)
                                    /\ \A L : At(L)' = At(L) - Hits(h, L) + Hits(g, L) + Hits(x, L)
        BY <4>1, <4>2, ProceedsToTwo
      <4>. QED BY ONLY <4>3, <4>4, <4>5
    <3>5. /\ frames' \in Stacks(RedisThreads, RedisFrames)
          /\ \A c : At(Carries(c))' = At(Carries(c))
          /\ At(HasConnection)' = At(HasConnection)
          /\ At({"register"} \X {0})' = At({"register"} \X {0}) - Hits(h, {"register"} \X {0})
      BY <1>6, <1>7, <3>2, <3>3, <3>4
    <3>6. broken' = broken /\ broken \in Nat
      BY <3>2 DEF RedisTypeOK, poolState
    <3>7. Registering' > 0 => Registering > 0
      BY <1>7, <3>3, <3>5 DEF Registering
    <3>. QED BY <3>2, <3>5, <3>6, <3>7 DEF poolState
  <2>. QED BY <2>1, <2>2
<1>9. Connections' = Connections
  <2>1. free \in Nat /\ broken \in Nat /\ At(HasConnection) \in Nat
    BY <1>7 DEF RedisTypeOK
  <2>2. CountOf(frames', HasConnection) \in Nat
    BY <1>8, ThreadsFinite, CountType
  <2>. QED BY <1>8, <2>1, <2>2 DEF Connections, commandState, At
<1>10. free' > 0 => waiting = <<>>
  BY <1>8 DEF OneConnection
<1>11. CommandsOnce' /\ SelectsFresh' /\ OneConnection'
  BY <1>8, <1>9, <1>10, Moved DEF commandState
<1>. QED BY <1>8, <1>11 DEF RedisTypeOK, ioState, commandState

(* The connection is opened by the thread that has it: the SELECT of the new *)
(* connection has not been sent.                                             *)
LEMMA ConnectStep ==
  ASSUME RedisInv, NEW r \in RedisThreads, Connect(r)
  PROVE  RedisInv'
<1>. USE DEF RedisInv
<1>1. PICK h : h = Head(frames[r])
  OBVIOUS
<1>2. PICK g : g = <<"register", 0>>
  OBVIOUS
<1>3. /\ frames[r] # <<>> /\ Bare(h) /\ h[1] = "connect" /\ opened < MaxSockets /\ Proceed(r, <<g>>)
      /\ parser' = 0 /\ opened' = opened + 1 /\ socket' = opened + 1
      /\ UNCHANGED <<selects, down, ioState, commandState, replies, poolState, answer, strayed>>
  BY <1>1, <1>2, InPlace DEF Connect, Bare
<1>4. Bare(g) /\ g \in RedisFrames /\ g[1] = "register"
  BY <1>2 DEF Bare, RedisFrames
<1>5. /\ \A c : Hits(h, Carries(c)) = 0 /\ Hits(g, Carries(c)) = 0
      /\ Hits(h, HasConnection) = 1 /\ Hits(g, HasConnection) = 1
  BY <1>3, <1>4, BareHits
<1>6. /\ frames' \in Stacks(RedisThreads, RedisFrames)
      /\ \A L : At(L) \in Nat /\ At(L)' = At(L) - Hits(h, L) + Hits(g, L)
  BY <1>1, <1>3, <1>4, AtType, Proceeds
<1>7. /\ \A c : At(Carries(c))' = At(Carries(c))
      /\ At(HasConnection)' = At(HasConnection)
  BY <1>5, <1>6
<1>8. \A c : With(c)' = With(c) /\ Answered(c)' = Answered(c)
  BY <1>3, <1>7 DEF With, Answered, Copies, poolState, commandState
<1>9. CommandsOnce'
  BY <1>3, <1>8 DEF CommandsOnce, CommandOnce, poolState
<1>10. opened \in Sockets /\ MaxSockets \in Nat /\ opened' \in Sockets
  BY <1>3, RedisConstants DEF RedisTypeOK, Sockets
<1>11. SelectsFresh'
  <2>1. ASSUME NEW k \in Sockets, k > opened' \/ k = opened'
        PROVE  k > opened
    BY <1>3, <1>10, <2>1 DEF Sockets
  <2>. QED BY <1>8, <2>1 DEF SelectsFresh
<1>12. OneConnection'
  BY <1>3, <1>7 DEF OneConnection, Connections, poolState, commandState
<1>. QED BY <1>3, <1>6, <1>9, <1>10, <1>11, <1>12 DEF RedisTypeOK, ioState, commandState, poolState

(* Its first receive is posted, then its SELECT is sent or it is given back. *)
LEMMA FirstRecvStep ==
  ASSUME RedisInv, NEW r \in RedisThreads, FirstRecv(r)
  PROVE  RedisInv'
<1>. USE DEF RedisInv
<1>1. PICK h : h = Head(frames[r])
  OBVIOUS
<1>2. PICK p : p = <<"push", 0>>
  OBVIOUS
<1>3. PICK c : c = SelectOf(socket)
  OBVIOUS
<1>4. PICK s : s = <<"send", c>>
  OBVIOUS
<1>5. PICK a : a = <<"await", c>>
  OBVIOUS
<1>6. /\ frames[r] # <<>> /\ Bare(h) /\ h[1] = "register" /\ socket # 0
      /\ recvs' = Append(recvs, socket) /\ pendingIo' = pendingIo + 1
      /\ Proceed(r, <<p>>) \/ Proceed(r, <<s, a>>)
      /\ UNCHANGED <<selects, socket, opened, down, parser, sends, commandState, replies, poolState,
                     answer, strayed>>
  BY <1>1, <1>2, <1>3, <1>4, <1>5, InPlace DEF FirstRecv, Bare
<1>7. socket = opened /\ opened \in Sockets /\ MaxCommands \in Nat /\ MaxSockets \in Nat
  BY <1>6, RedisConstants DEF RedisTypeOK
<1>8. c \in AllCommands /\ c \notin Commands
  BY <1>3, <1>7 DEF Sockets, SelectOf, AllCommands, Commands
<1>9. /\ p \in RedisFrames /\ s \in RedisFrames /\ a \in RedisFrames
      /\ p[1] = "push" /\ s[1] = "send" /\ s[2] = c /\ a[1] = "await"
  BY <1>2, <1>3, <1>4, <1>5, <1>7, <1>8 DEF RedisFrames
<1>10. /\ \A x : Hits(h, Carries(x)) = 0 /\ Hits(p, Carries(x)) = 0 /\ Hits(a, Carries(x)) = 0
                 /\ Hits(s, Carries(x)) = IF x = c THEN 1 ELSE 0
       /\ Hits(h, HasConnection) = 1 /\ Hits(p, HasConnection) = 1 /\ Hits(a, HasConnection) = 1
       /\ Hits(s, HasConnection) = 0
       /\ Hits(h, {"register"} \X {0}) = 1 /\ Hits(p, {"register"} \X {0}) = 0
       /\ Hits(s, {"register"} \X {0}) = 0 /\ Hits(a, {"register"} \X {0}) = 0
  BY <1>6, <1>8, <1>9, BareHits, FrameHits
<1>11. /\ \A L : At(L) \in Nat /\ At(L) >= Hits(h, L)
       /\ Proceed(r, <<p>>) => /\ frames' \in Stacks(RedisThreads, RedisFrames)
                               /\ \A L : At(L)' = At(L) - Hits(h, L) + Hits(p, L)
       /\ Proceed(r, <<s, a>>) => /\ frames' \in Stacks(RedisThreads, RedisFrames)
                                  /\ \A L : At(L)' = At(L) - Hits(h, L) + Hits(a, L) + Hits(s, L)
  <2>1. Proceed(r, <<p>>) => /\ frames' \in Stacks(RedisThreads, RedisFrames)
                             /\ \A L : At(L)' = At(L) - Hits(h, L) + Hits(p, L)
    BY <1>1, <1>6, <1>9, Proceeds
  <2>2. Proceed(r, <<s, a>>) => /\ frames' \in Stacks(RedisThreads, RedisFrames)
                                /\ \A L : At(L)' = At(L) - Hits(h, L) + Hits(a, L) + Hits(s, L)
    <3>1. RedisTypeOK /\ frames[r] # <<>> /\ h = Head(frames[r]) /\ s \in RedisFrames /\ a \in RedisFrames
      BY <1>1, <1>6, <1>9
    <3>. HIDE DEF RedisInv
    <3>. QED BY <3>1, ProceedsToTwo
  <2>3. \A L : At(L) >= Hits(h, L)
    BY <1>1, <1>6, <1>9, Proceeds
  <2>. QED BY <2>1, <2>2, <2>3, AtType
<1>12. /\ frames' \in Stacks(RedisThreads, RedisFrames)
       /\ At(HasConnection)' = At(HasConnection)
       /\ Registering' = Registering - 1 /\ Registering \in Nat \ {0}
       /\ \/ \A x : At(Carries(x))' = At(Carries(x))
          \/ \A x : At(Carries(x))' = At(Carries(x)) + (IF x = c THEN 1 ELSE 0)
  BY <1>6, <1>10, <1>11 DEF Registering
<1>13. Registering' = 0
  <2>1. {"register"} \X {0} \subseteq HasConnection
    BY DEF HasConnection
  <2>2. Registering <= At(HasConnection)
    BY <2>1, ThreadsFinite, CountMonotone DEF Registering, At, RedisTypeOK
  <2>3. At(HasConnection) \in Nat /\ At(HasConnection) <= 1
    BY <1>11 DEF OneConnection, Connections, RedisTypeOK
  <2>. QED BY <1>12, <2>2, <2>3
<1>14. With(c) + Answered(c) = 0
  BY <1>3, <1>7, <1>12 DEF SelectsFresh
<1>15. ASSUME NEW x \in AllCommands
       PROVE  /\ With(x)' + Answered(x)' \in {With(x) + Answered(x), With(x) + Answered(x) + (IF x = c THEN 1 ELSE 0)}
              /\ answer' = answer /\ With(x) + Answered(x) \in Nat
  <2>1. waiting' = waiting /\ callback' = callback /\ answer' = answer
    BY <1>6 DEF poolState, commandState
  <2>2. waiting \in Seq(Commands)
    BY DEF RedisTypeOK
  <2>3. Copies(waiting, x)' = Copies(waiting, x) /\ Copies(waiting, x) \in Nat
    BY <2>1, <2>2, CopiesType DEF Copies
  <2>4. At(Carries(x)) \in Nat /\ At(Carries(x))' \in {At(Carries(x)), At(Carries(x)) + (IF x = c THEN 1 ELSE 0)}
    BY <1>11, <1>12
  <2>5. Answered(x)' = Answered(x) /\ Answered(x) \in {0, 1}
    BY <2>1 DEF Answered
  <2>. QED BY <2>1, <2>3, <2>4, <2>5 DEF With
<1>16. CommandsOnce'
  <2>. SUFFICES ASSUME NEW x \in AllCommands PROVE CommandOnce(x)'
    BY DEF CommandsOnce
  <2>1. CommandOnce(x)
    BY DEF CommandsOnce
  <2>2. issued' = issued
    BY <1>6 DEF poolState
  <2>3. CASE x = c
    BY <1>8, <1>14, <1>15, <2>1, <2>3 DEF CommandOnce
  <2>4. CASE x # c
    BY <1>15, <2>1, <2>2, <2>4 DEF CommandOnce
  <2>. QED BY <2>3, <2>4
<1>17. SelectsFresh'
  <2>1. ASSUME NEW k \in Sockets, k > opened
        PROVE  SelectOf(k) \in AllCommands /\ SelectOf(k) # c
    BY <1>3, <1>7, <2>1 DEF Sockets, SelectOf, AllCommands
  <2>2. ASSUME NEW k \in Sockets, k > opened' \/ (k = opened' /\ Registering' > 0)
        PROVE  With(SelectOf(k))' + Answered(SelectOf(k))' = 0
    <3>1. k > opened
      BY <1>6, <1>13, <2>2
    <3>2. With(SelectOf(k)) + Answered(SelectOf(k)) = 0
      BY <3>1 DEF SelectsFresh
    <3>. QED BY <1>15, <2>1, <3>1, <3>2
  <2>. QED BY <2>2 DEF SelectsFresh
<1>18. OneConnection'
  BY <1>6, <1>12 DEF OneConnection, Connections, poolState, commandState
<1>19. recvs' \in Seq(Sockets)
  BY <1>6, <1>7 DEF RedisTypeOK
<1>. QED BY <1>6, <1>12, <1>16, <1>17, <1>18, <1>19 DEF RedisTypeOK, commandState, poolState

-----------------------------------------------------------------------------
(* One connection is open and idle.                                          *)
LEMMA RedisStarts == ASSUME RedisInit PROVE RedisInv
<1>. USE RedisConstants DEF RedisInit
<1>1. \A L : At(L) = 0
  <2>1. frames = [t \in RedisThreads |-> <<>>]
    OBVIOUS
  <2>. QED BY <2>1, ThreadsFinite, NoFrames DEF At
<1>2. frames \in Stacks(RedisThreads, RedisFrames)
  BY DEF Stacks
<1>3. answer = [c \in AllCommands |-> "none"] /\ waiting = <<>> /\ callback = 0
  BY DEF AllCommands
<1>4. recvs \in Seq(Sockets) /\ waiting \in Seq(Commands)
  BY DEF Sockets
<1>5. sends \in Seq(SendRequests)
  OBVIOUS
<1>6. replies \in [Sockets -> Seq(Replies)]
  OBVIOUS
<1>7. RedisTypeOK
  <2>1. /\ selects \in BOOLEAN /\ strayed \in BOOLEAN
        /\ opened \in Sockets /\ socket \in {0, opened} /\ parser \in Nat /\ pendingIo \in Int
        /\ callback \in {0} \union AllCommands
    <3>1. MaxSockets \in Nat \ {0} /\ opened = 1 /\ socket = 1
      OBVIOUS
    <3>2. 1 \in Sockets
      BY <3>1 DEF Sockets
    <3>3. selects \in BOOLEAN /\ strayed \in BOOLEAN
      OBVIOUS
    <3>4. parser \in Nat /\ pendingIo \in Int /\ callback \in {0} \union AllCommands
      BY <1>3
    <3>. QED BY <3>1, <3>2, <3>3, <3>4
  <2>2. sending \in [command : Nat, left : Nat] /\ nextSend \in Nat
    BY DEF Nothing
  <2>3. free \in Nat /\ broken \in Nat /\ issued \in 0..MaxCommands
    OBVIOUS
  <2>4. answer \in [AllCommands -> {"none", "refused", "twice"} \union Told]
    BY <1>3
  <2>. QED BY <1>2, <1>4, <1>5, <1>6, <2>1, <2>2, <2>3, <2>4 DEF RedisTypeOK
<1>8. \A c \in AllCommands : With(c) = 0 /\ Answered(c) = 0 /\ answer[c] = "none"
  <2>1. \A c : Copies(waiting, c) = 0
    BY <1>3, <1>4, CopiesType
  <2>2. \A c \in AllCommands : callback # c
    BY <1>3 DEF AllCommands
  <2>. QED BY <1>1, <1>3, <2>1, <2>2 DEF With, Answered
<1>9. CommandsOnce
  <2>1. ASSUME NEW c \in AllCommands PROVE c \in Nat \ {0} /\ issued = 0 /\ ~(c <= issued)
    BY DEF AllCommands
  <2>2. ASSUME NEW c \in AllCommands PROVE CommandOnce(c)
    <3>1. With(c) + Answered(c) = 0 /\ answer[c] # "twice"
      BY <1>8
    <3>. QED BY <2>1, <3>1 DEF CommandOnce
  <2>. QED BY <2>2 DEF CommandsOnce
<1>10. SelectsFresh
  <2>1. \A k \in Sockets : SelectOf(k) \in AllCommands
    BY DEF Sockets, SelectOf, AllCommands
  <2>. QED BY <1>8, <2>1 DEF SelectsFresh
<1>11. OneConnection
  <2>1. callback \notin Commands
    BY <1>3 DEF Commands
  <2>. QED BY <1>1, <1>3, <2>1 DEF OneConnection, Connections
<1>. QED BY <1>7, <1>9, <1>10, <1>11 DEF RedisInv

LEMMA RedisSteps == ASSUME RedisInv, RedisNext PROVE RedisInv'
<1>1. RedisUsers \subseteq RedisThreads /\ RedisWorkers \subseteq RedisThreads /\ Reconnector \in RedisThreads
  BY DEF RedisThreads
<1>2. ASSUME NEW t \in RedisThreads, Disconnect(t) \/ ClientSend(t) \/ Callback(t) \/ PushConnection(t)
      PROVE  RedisInv'
  BY <1>2, ExchangeStep, TakenSteps, SendSteps, AnswerSteps, PushSteps, PushToWaitingStep
     DEF Disconnect, PushConnection
<1>3. ASSUME NEW u \in RedisUsers, Lend(u) \/ Wait(u)
      PROVE  RedisInv'
  BY <1>1, <1>3, LendStep, WaitStep
<1>4. ASSUME NEW w \in RedisWorkers, Dispatch(w)
      PROVE  RedisInv'
  BY <1>1, <1>4, ProcessRecvStep, SilentSteps, TakenSteps, SendEndsStep, SendGoesOnStep DEF Dispatch
<1>5. CASE \/ ExpirePendingCommands(Reconnector) \/ Expired(Reconnector)
           \/ DisconnectStalledClients(Reconnector) \/ ReconnectLoop(Reconnector)
  BY <1>1, <1>5, ExpireStep, AnswerSteps, SilentSteps, ReconnectSteps, ConnectStep, FirstRecvStep, PushSteps
     DEF ReconnectLoop
<1>. QED BY <1>2, <1>3, <1>4, <1>5, NetworkSteps DEF RedisNext

LEMMA RedisStutters == ASSUME RedisInv, UNCHANGED redisVars PROVE RedisInv'
<1>1. UNCHANGED <<selects, socket, opened, down, parser, recvs, sends, pendingIo, callback, sending, nextSend,
                  replies, free, broken, waiting, issued, answer, strayed, frames>>
  BY DEF redisVars, ioState, commandState, poolState
<1>2. RedisTypeOK'
  BY <1>1 DEF RedisInv, RedisTypeOK
<1>3. \A L : At(L)' = At(L)
  BY <1>1 DEF At
<1>4. \A c : With(c)' = With(c) /\ Answered(c)' = Answered(c)
  BY <1>1, <1>3 DEF With, Answered, Copies
<1>. QED BY <1>1, <1>2, <1>3, <1>4
         DEF RedisInv, CommandsOnce, CommandOnce, SelectsFresh, Registering, OneConnection, Connections

(* RedisClient: whatever replies, disconnects, failed sends and time-outs    *)
(* do, a command is in one place until it is answered and in none after, and *)
(* the connection is always in one.                                          *)
THEOREM RedisInductive == RedisSpec => []RedisInv
<1>1. RedisInit => RedisInv
  BY RedisStarts
<1>2. RedisInv /\ [RedisNext]_redisVars => RedisInv'
  BY RedisSteps, RedisStutters
<1>. QED BY <1>1, <1>2, PTL DEF RedisSpec

LEMMA FramesCounted == ASSUME RedisTypeOK PROVE \A L : HowMany(L) = At(L)
<1>1. DOMAIN frames = RedisThreads
  BY DEF RedisTypeOK, Stacks
<1>. QED BY <1>1 DEF HowMany, At, CountOf, FramesOf

(* The callback of a command is called once.                                 *)
THEOREM CalledOnceAlways == RedisSpec => []CalledOnce
<1>1. RedisInv => CalledOnce
  <2>. SUFFICES ASSUME RedisInv PROVE CalledOnce
    OBVIOUS
  <2>1. DOMAIN answer = AllCommands /\ issued \in 0..MaxCommands /\ waiting \in Seq(Commands)
    BY DEF RedisInv, RedisTypeOK
  <2>2. ASSUME NEW c \in 1..issued
        PROVE  Unanswered(c) = IF answer[c] = "none" THEN 1 ELSE 0
    <3>1. c \in AllCommands /\ c \in Commands /\ c <= issued
      BY <2>1, RedisConstants DEF AllCommands, Commands
    <3>2. With(c) + Answered(c) = 1
      BY <3>1 DEF RedisInv, CommandsOnce, CommandOnce
    <3>3. Unanswered(c) = With(c)
      BY FramesCounted DEF RedisInv, Unanswered, With, Copies
    <3>4. Copies(waiting, c) \in Nat /\ At(Carries(c)) \in Nat
      BY <2>1, CopiesType, AtType DEF RedisInv
    <3>5. With(c) \in Nat
      BY <3>4 DEF With
    <3>. QED BY <3>2, <3>3, <3>5 DEF Answered
  <2>3. \A c \in DOMAIN answer : answer[c] # "twice"
    BY <2>1 DEF RedisInv, CommandsOnce, CommandOnce
  <2>. QED BY <2>2, <2>3 DEF CalledOnce
<1>. QED BY <1>1, RedisInductive, PTL

(* The connection is in one place, and not free while a command waits.       *)
THEOREM ConnectionInOnePlaceAlways == RedisSpec => []ConnectionInOnePlace
<1>1. RedisInv => ConnectionInOnePlace
  BY FramesCounted DEF RedisInv, OneConnection, Connections, ConnectionInOnePlace
<1>. QED BY <1>1, RedisInductive, PTL

-----------------------------------------------------------------------------
(* RedisClient: whose reply a reply is.  A worker that handles a completion  *)
(* takes it out of the count last; until then its frames above may post the  *)
(* next receive or close the connection.                                     *)
Outermost == {"uncount", "connect", "register"} \X {0}
Uncounting == {"uncount"} \X {0}
Posting == {"post"} \X {0}
Receiving == {"receipt"} \X Nat
Draining == {<<"drain", 0>>}
Exchanging == {<<"exchange", 0>>}
OfCompletion == Receiving \union Posting \union Draining \union Exchanging
Foreign == {"callback"} \X (AllCommands \X {"foreign"})

StacksIn(stk) ==
    \A t \in RedisThreads, d \in Nat :
        /\ <<t, d>> \in FramesOf(stk, Outermost) => d = 1
        /\ <<t, d>> \in FramesOf(stk, OfCompletion) => t = Reconnector \/ <<t, 1>> \in FramesOf(stk, Uncounting)

(* The count is exact, so that a connection is opened only when nothing of   *)
(* the last one is left: what is posted is of the present one, and who is    *)
(* about to drain for it finds it closed.                                    *)
IoOK ==
    /\ StacksIn(frames)
    /\ pendingIo = Len(recvs) + Len(sends) + At(Uncounting)
    /\ Len(recvs) + At(Posting) + Registering <= 1
    /\ \A i \in 1..Len(recvs) : recvs[i] = opened
    /\ \A i \in 1..Len(sends) : sends[i].socket = opened
    /\ parser \in {0, opened}
    /\ \A k \in Sockets : k > opened => replies[k] = <<>>
    /\ At(Draining) > 0 => socket = 0

(* One send at a time is posted, and it is of the command being sent.        *)
SendOK ==
    /\ Len(sends) <= 1
    /\ sends # <<>> =>
         /\ socket # 0 => sending # Nothing
         /\ sending # Nothing => sending = [command |-> sends[1].command, left |-> sends[1].left]
         /\ sends[1].left > 0 /\ sends[1].sent <= sends[1].left

(* A reply that is sent for, on its way, or received is one at a time, and   *)
(* it is the reply to the command that has the callback, if one has.         *)
Unsent == IF sends # <<>> /\ sends[1].sent < sends[1].left THEN 1 ELSE 0
Expected == Len(replies[opened]) + At(Receiving) + Unsent + (IF nextSend = 0 THEN 0 ELSE 1)

MatchOK ==
    /\ Expected <= 1
    /\ callback = 0 /\ socket # 0 => Expected = 0
    /\ nextSend \in {0, callback}
    /\ \A i \in 1..Len(replies[opened]) : callback \in {0, replies[opened][i].command}
    /\ \A c \in Nat : At({<<"receipt", c>>}) > 0 => callback \in {0, c}
    /\ Unsent = 1 => callback \in {0, sends[1].command}

NoForeign == At(Foreign) = 0 /\ \A c \in DOMAIN answer : answer[c] # "foreign"

ReplyInv == IoOK /\ (strayed \/ (SendOK /\ MatchOK /\ NoForeign))

-----------------------------------------------------------------------------
(* Which of these a frame is.                                                *)
LEMMA ReplyHits ==
  ASSUME NEW f \in RedisFrames
  PROVE  /\ Hits(f, Uncounting) = IF f[1] = "uncount" THEN 1 ELSE 0
         /\ Hits(f, Posting) = IF f[1] = "post" THEN 1 ELSE 0
         /\ Hits(f, {"register"} \X {0}) = IF f[1] = "register" THEN 1 ELSE 0
         /\ Hits(f, Receiving) = IF f[1] = "receipt" THEN 1 ELSE 0
         /\ Hits(f, Draining) = IF f[1] = "drain" /\ f[2] = 0 THEN 1 ELSE 0
         /\ \A c \in Nat : Hits(f, {<<"receipt", c>>}) = IF f[1] = "receipt" /\ f[2] = c THEN 1 ELSE 0
         /\ Hits(f, Foreign) = IF f[1] = "callback" /\ f[2][2] = "foreign" THEN 1 ELSE 0
         /\ f \in Outermost <=> f[1] \in {"uncount", "connect", "register"}
         /\ f \in OfCompletion <=> (f[1] \in {"receipt", "post"} \/ (f[1] \in {"drain", "exchange"} /\ f[2] = 0))
<1>1. f = <<f[1], f[2]>>
  BY FrameHits
<1>2. f \in Uncounting <=> f[1] = "uncount"
  BY DEF RedisFrames, Uncounting
<1>3. f \in Posting <=> f[1] = "post"
  BY DEF RedisFrames, Posting
<1>4. f \in {"register"} \X {0} <=> f[1] = "register"
  BY DEF RedisFrames
<1>5. f \in Receiving <=> f[1] = "receipt"
  BY DEF RedisFrames, Receiving
<1>6. f \in Draining <=> f[1] = "drain" /\ f[2] = 0
  BY <1>1 DEF Draining
<1>7. \A c \in Nat : f \in {<<"receipt", c>>} <=> f[1] = "receipt" /\ f[2] = c
  BY <1>1
<1>8. f \in Foreign <=> f[1] = "callback" /\ f[2][2] = "foreign"
  BY DEF RedisFrames, Foreign, Told
<1>9. f \in Outermost <=> f[1] \in {"uncount", "connect", "register"}
  BY DEF RedisFrames, Outermost
<1>10. f \in OfCompletion <=> (f[1] \in {"receipt", "post"} \/ (f[1] \in {"drain", "exchange"} /\ f[2] = 0))
  <2>1. f \in Exchanging <=> f[1] = "exchange" /\ f[2] = 0
    BY <1>1 DEF Exchanging
  <2>2. f \in OfCompletion <=> f \in Receiving \/ f \in Posting \/ f \in Draining \/ f \in Exchanging
    BY DEF OfCompletion
  <2>. QED BY ONLY <1>3, <1>5, <1>6, <2>1, <2>2
<1>. QED BY <1>2, <1>3, <1>4, <1>5, <1>6, <1>7, <1>8, <1>9, <1>10 DEF Hits

LEMMA EmptyIs == ASSUME NEW S, NEW s \in Seq(S), Len(s) = 0 PROVE s = <<>>
  OBVIOUS

(* A stack keeps its form when its innermost call returns ...                *)
LEMMA FormReturns ==
  ASSUME NEW S, NEW stk \in Stacks(RedisThreads, S), StacksIn(stk), NEW t \in RedisThreads, stk[t] # <<>>
  PROVE  StacksIn(Popped(stk, t))
<1>1. \A L : FramesOf(Popped(stk, t), L) = FramesOf(stk, L) \ {<<t, Len(stk[t])>>}
  BY PopFrames
<1>2. SUFFICES ASSUME NEW u \in RedisThreads, NEW d \in Nat
               PROVE  /\ <<u, d>> \in FramesOf(Popped(stk, t), Outermost) => d = 1
                      /\ <<u, d>> \in FramesOf(Popped(stk, t), OfCompletion)
                           => u = Reconnector \/ <<u, 1>> \in FramesOf(Popped(stk, t), Uncounting)
  BY DEF StacksIn
<1>3. /\ <<u, d>> \in FramesOf(stk, Outermost) => d = 1
      /\ <<u, d>> \in FramesOf(stk, OfCompletion) => u = Reconnector \/ <<u, 1>> \in FramesOf(stk, Uncounting)
  BY DEF StacksIn
<1>4. <<u, d>> \in FramesOf(stk, OfCompletion) => d \in 1..Len(stk[u]) /\ Len(stk[u]) \in Nat
  BY FrameIs DEF Stacks
<1>5. <<u, d>> \in FramesOf(Popped(stk, t), OfCompletion) => <<u, 1>> # <<t, Len(stk[t])>>
  <2>. SUFFICES ASSUME <<u, d>> \in FramesOf(Popped(stk, t), OfCompletion), u = t, 1 = Len(stk[t]) PROVE FALSE
    OBVIOUS
  <2>1. <<u, d>> \in FramesOf(stk, OfCompletion) /\ <<u, d>> # <<t, Len(stk[t])>>
    BY <1>1
  <2>2. d \in 1..1
    BY <1>4, <2>1
  <2>3. d = 1
    BY ONLY <2>2
  <2>. QED BY <2>1, <2>3
<1>. QED BY <1>1, <1>3, <1>5

(* ... and when it makes a call.                                             *)
LEMMA FormCalls ==
  ASSUME NEW S, NEW stk \in Stacks(RedisThreads, S), StacksIn(stk), NEW t \in RedisThreads, NEW a \in S,
         a \in Outermost => stk[t] = <<>>,
         a \in OfCompletion => t = Reconnector \/ <<t, 1>> \in FramesOf(stk, Uncounting)
  PROVE  /\ StacksIn(Pushed(stk, t, a))
         /\ <<t, 1>> \in FramesOf(stk, Uncounting) => <<t, 1>> \in FramesOf(Pushed(stk, t, a), Uncounting)
         /\ stk[t] = <<>> /\ a \in Uncounting => <<t, 1>> \in FramesOf(Pushed(stk, t, a), Uncounting)
<1>1. \A L : FramesOf(Pushed(stk, t, a), L)
               = FramesOf(stk, L) \union (IF a \in L THEN {<<t, Len(stk[t]) + 1>>} ELSE {})
  BY PushFrames
<1>2. stk[t] = <<>> => Len(stk[t]) + 1 = 1
  BY DEF Stacks
<1>3. ASSUME NEW u \in RedisThreads, NEW d \in Nat
      PROVE  /\ <<u, d>> \in FramesOf(Pushed(stk, t, a), Outermost) => d = 1
             /\ <<u, d>> \in FramesOf(Pushed(stk, t, a), OfCompletion)
                  => u = Reconnector \/ <<u, 1>> \in FramesOf(Pushed(stk, t, a), Uncounting)
  <2>1. /\ <<u, d>> \in FramesOf(stk, Outermost) => d = 1
        /\ <<u, d>> \in FramesOf(stk, OfCompletion) => u = Reconnector \/ <<u, 1>> \in FramesOf(stk, Uncounting)
    BY DEF StacksIn
  <2>. QED BY <1>1, <1>2, <2>1
<1>. QED BY <1>1, <1>2, <1>3 DEF StacksIn

(* The innermost call goes on with up to two others.  What it may call that  *)
(* belongs to a completion belongs to the same one.                          *)
Fits(t, h, f) ==
    /\ f \in RedisFrames
    /\ f \in OfCompletion => h \in OfCompletion \/ t = Reconnector

LEMMA FormProceeds ==
  ASSUME RedisTypeOK, StacksIn(frames), NEW t \in RedisThreads, frames[t] # <<>>, NEW a, NEW b,
         Fits(t, Head(frames[t]), a), Fits(t, Head(frames[t]), b),
         \/ Proceed(t, <<>>)
         \/ Proceed(t, <<a>>) /\ (a \in Outermost => Head(frames[t]) \in Outermost)
         \/ Proceed(t, <<a, b>>) /\ a \notin Outermost /\ b \notin Outermost
  PROVE  StacksIn(frames')
<1> DEFINE stk == Popped(frames, t)
           h == Head(frames[t])
           n == Len(frames[t])
<1>1. /\ frames \in Stacks(RedisThreads, RedisFrames)
      /\ frames[t] \in Seq(RedisFrames) /\ Tail(frames[t]) \in Seq(RedisFrames)
      /\ h \in RedisFrames /\ a \in RedisFrames /\ b \in RedisFrames
      /\ n \in Nat \ {0} /\ stk[t] = Tail(frames[t]) /\ stk \in Stacks(RedisThreads, RedisFrames)
  BY DEF RedisTypeOK, Stacks, Fits, Popped
<1>2. StacksIn(stk)
  BY <1>1, FormReturns
<1>3. \A L : FramesOf(stk, L) = FramesOf(frames, L) \ {<<t, n>>}
  BY <1>1, PopFrames
<1>4. \A L : <<t, n>> \in FramesOf(frames, L) <=> h \in L
  BY <1>1, TopFrame
<1>5. h \in Outermost => stk[t] = <<>>
  <2>1. h \in Outermost => n = 1
    BY <1>1, <1>4 DEF StacksIn
  <2>2. n = 1 => Len(Tail(frames[t])) = 0
    BY <1>1
  <2>3. Len(Tail(frames[t])) = 0 => Tail(frames[t]) = <<>>
    BY <1>1, EmptyIs
  <2>4. stk[t] = Tail(frames[t])
    BY <1>1
  <2>. QED BY ONLY <2>1, <2>2, <2>3, <2>4
<1>6. h \in OfCompletion => t = Reconnector \/ <<t, 1>> \in FramesOf(stk, Uncounting)
  <2>1. h \in OfCompletion => h \notin Uncounting
    BY DEF OfCompletion, Uncounting, Receiving, Posting, Draining, Exchanging
  <2>2. h \in OfCompletion => t = Reconnector \/ <<t, 1>> \in FramesOf(frames, Uncounting)
    BY <1>1, <1>4 DEF StacksIn
  <2>3. h \in OfCompletion /\ <<t, 1>> \in FramesOf(frames, Uncounting) => n # 1
    BY <1>4, <2>1
  <2>. QED BY <1>3, <2>2, <2>3
<1>7. \A f : Fits(t, h, f) /\ f \in OfCompletion => t = Reconnector \/ <<t, 1>> \in FramesOf(stk, Uncounting)
  BY <1>6 DEF Fits
<1>8. CASE Proceed(t, <<>>)
  <2>1. frames' = stk
    BY <1>1, <1>8 DEF Proceed, Popped
  <2>. QED BY <1>2, <2>1
<1>9. CASE Proceed(t, <<a>>) /\ (a \in Outermost => h \in Outermost)
  <2>1. frames' = Pushed(stk, t, a)
    BY <1>1, <1>9 DEF Proceed, Popped, Pushed, Stacks
  <2>. HIDE DEF stk, h
  <2>2. StacksIn(Pushed(stk, t, a))
    BY <1>1, <1>2, <1>5, <1>7, <1>9, FormCalls DEF h
  <2>. QED BY <2>1, <2>2
<1>10. CASE Proceed(t, <<a, b>>) /\ a \notin Outermost /\ b \notin Outermost
  <2>1. frames' = Pushed(Pushed(stk, t, b), t, a)
    <3>1. <<a, b>> \o Tail(frames[t]) = <<a>> \o (<<b>> \o Tail(frames[t]))
      BY <1>1, TwoCalls
    <3>. QED BY <1>1, <1>10, <3>1 DEF Proceed, Popped, Pushed, Stacks
  <2>. HIDE DEF stk, h
  <2>2. /\ StacksIn(Pushed(stk, t, b)) /\ Pushed(stk, t, b) \in Stacks(RedisThreads, RedisFrames)
        /\ <<t, 1>> \in FramesOf(stk, Uncounting) => <<t, 1>> \in FramesOf(Pushed(stk, t, b), Uncounting)
    BY <1>1, <1>2, <1>7, <1>10, FormCalls, PushCount, ThreadsFinite DEF h
  <2>3. StacksIn(Pushed(Pushed(stk, t, b), t, a))
    BY <1>1, <1>7, <1>10, <2>2, FormCalls DEF h
  <2>. QED BY <2>1, <2>3
<1>. QED BY <1>8, <1>9, <1>10

(* An idle thread begins: with calls of a completion that it uncounts last.  *)
LEMMA FormBegins ==
  ASSUME RedisTypeOK, StacksIn(frames), NEW t \in RedisThreads, frames[t] = <<>>,
         NEW a \in RedisFrames, NEW b \in RedisFrames, NEW d \in RedisFrames
  PROVE  /\ Begin(t, <<a>>) /\ (a \in OfCompletion => t = Reconnector) => StacksIn(frames')
         /\ Begin(t, <<a, b>>) /\ a \notin Outermost /\ b \in Uncounting => StacksIn(frames')
         /\ Begin(t, <<a, b, d>>) /\ a \notin Outermost /\ b \notin Outermost /\ d \in Uncounting
              => StacksIn(frames')
<1> DEFINE one(x) == Pushed(frames, t, x)
           two(x, y) == Pushed(one(y), t, x)
           three(x, y, z) == Pushed(two(y, z), t, x)
<1>1. /\ frames \in Stacks(RedisThreads, RedisFrames) /\ IsFiniteSet(RedisThreads)
      /\ frames \in [RedisThreads -> Seq(RedisFrames)]
  BY ThreadsFinite DEF RedisTypeOK, Stacks
<1>2. /\ one(a) = [frames EXCEPT ![t] = <<a>>]
      /\ two(a, b) = [frames EXCEPT ![t] = <<a, b>>]
      /\ three(a, b, d) = [frames EXCEPT ![t] = <<a, b, d>>]
  BY <1>1 DEF Pushed
<1>3. Uncounting \intersect OfCompletion = {}
  BY DEF OfCompletion, Uncounting, Receiving, Posting, Draining, Exchanging
<1>4. \A x \in RedisFrames : one(x) \in Stacks(RedisThreads, RedisFrames)
  BY <1>1, PushCount
<1>5. \A x \in RedisFrames : (x \in OfCompletion => t = Reconnector) => StacksIn(one(x))
  BY <1>1, FormCalls
<1>6. \A x \in RedisFrames : x \in Uncounting => StacksIn(one(x)) /\ <<t, 1>> \in FramesOf(one(x), Uncounting)
  BY <1>1, <1>3, FormCalls
<1>. HIDE DEF one
<1>7. \A x, y \in RedisFrames : two(x, y) \in Stacks(RedisThreads, RedisFrames)
  BY <1>1, <1>4, PushCount
<1>8. \A x, y \in RedisFrames : x \notin Outermost /\ y \in Uncounting
                                  => StacksIn(two(x, y)) /\ <<t, 1>> \in FramesOf(two(x, y), Uncounting)
  BY <1>4, <1>6, FormCalls
<1>. HIDE DEF two
<1>9. \A x, y, z \in RedisFrames : x \notin Outermost /\ y \notin Outermost /\ z \in Uncounting
                                     => StacksIn(three(x, y, z))
  BY <1>7, <1>8, FormCalls
<1>. HIDE DEF three
<1>10. Begin(t, <<a>>) => frames' = one(a)
  BY <1>2 DEF Begin
<1>11. Begin(t, <<a, b>>) => frames' = two(a, b)
  BY <1>2 DEF Begin
<1>12. Begin(t, <<a, b, d>>) => frames' = three(a, b, d)
  BY <1>2 DEF Begin
<1>. QED BY <1>5, <1>8, <1>9, <1>10, <1>11, <1>12

(* A step that posts no send and gives no command to the client: what is on  *)
(* its way for a command only shrinks.                                       *)
LEMMA ReplyAside ==
  ASSUME RedisInv, RedisInv', ReplyInv,
         UNCHANGED <<opened, sends, replies, callback, sending, nextSend, strayed>>,
         StacksIn(frames'), pendingIo' = Len(recvs') + Len(sends') + At(Uncounting)',
         Len(recvs') + At(Posting)' + Registering' <= 1, \A i \in 1..Len(recvs') : recvs'[i] = opened,
         socket' \in {socket, 0}, parser' \in {parser, 0}, At(Draining)' > 0 => At(Draining) > 0 \/ socket' = 0,
         At(Receiving)' <= At(Receiving),
         \A c \in Nat : At({<<"receipt", c>>})' > 0 => At({<<"receipt", c>>}) > 0,
         strayed \/ NoForeign'
  PROVE  ReplyInv'
<1>1. \A L : At(L) \in Nat /\ At(L)' \in Nat
  <2>1. \A L : At(L) \in Nat
    BY AtType DEF RedisInv
  <2>2. \A L : CountOf(frames', L) \in Nat
    BY ThreadsFinite, CountType DEF RedisInv, RedisTypeOK
  <2>. QED BY <2>1, <2>2 DEF At
<1>2. IoOK'
  BY DEF ReplyInv, IoOK
<1>3. ASSUME ~strayed PROVE SendOK' /\ MatchOK' /\ NoForeign'
  <2>1. SendOK /\ MatchOK /\ NoForeign'
    BY <1>3 DEF ReplyInv
  <2>2. SendOK'
    BY <2>1 DEF SendOK
  <2>3. Unsent' = Unsent /\ Unsent \in {0, 1}
    BY DEF Unsent
  <2>4. Len(replies[opened]) \in Nat
    BY DEF RedisInv, RedisTypeOK
  <2>5. Expected' <= Expected /\ Expected' \in Nat /\ Expected \in Nat
    <3>1. PICK n : n = Len(replies[opened])
      OBVIOUS
    <3>2. PICK k : k = IF nextSend = 0 THEN 0 ELSE 1
      OBVIOUS
    <3>3. n \in Nat /\ k \in Nat /\ Len(replies'[opened']) = n /\ (IF nextSend' = 0 THEN 0 ELSE 1) = k
      BY <2>4, <3>1, <3>2
    <3>4. Expected = n + At(Receiving) + Unsent + k
      BY <3>1, <3>2 DEF Expected
    <3>5. Expected' = n + At(Receiving)' + Unsent' + k
      BY <3>3 DEF Expected
    <3>6. At(Receiving) \in Nat /\ At(Receiving)' \in Nat /\ At(Receiving)' <= At(Receiving)
      BY <1>1
    <3>7. PICK i, j : i = At(Receiving) /\ j = At(Receiving)'
      OBVIOUS
    <3>8. PICK v : v = Unsent
      OBVIOUS
    <3>9. Expected = n + i + v + k /\ Expected' = n + j + v + k
      BY <2>3, <3>4, <3>5, <3>7, <3>8
    <3>10. n \in Nat /\ k \in Nat /\ i \in Nat /\ j \in Nat /\ v \in {0, 1} /\ j <= i
      BY <2>3, <3>3, <3>6, <3>7, <3>8
    <3>. QED BY ONLY <3>9, <3>10
  <2>6. MatchOK'
    <3>1. Expected' <= 1 /\ (callback' = 0 /\ socket' # 0 => Expected' = 0)
      BY <2>1, <2>5 DEF MatchOK
    <3>2. /\ nextSend' \in {0, callback'} /\ (Unsent' = 1 => callback' \in {0, sends'[1].command})
          /\ \A i \in 1..Len(replies'[opened']) : callback' \in {0, replies'[opened'][i].command}
      BY <2>1, <2>3 DEF MatchOK
    <3>3. \A c \in Nat : At({<<"receipt", c>>})' > 0 => callback' \in {0, c}
      BY <2>1 DEF MatchOK
    <3>. QED BY <3>1, <3>2, <3>3 DEF MatchOK
  <2>. QED BY <2>1, <2>2, <2>6
<1>. QED BY <1>2, <1>3 DEF ReplyInv

(* Frames that have no part in a reply.                                      *)
Quiet(f) ==
    /\ f \in RedisFrames
    /\ f[1] \notin {"uncount", "post", "register", "receipt"}
    /\ f[1] = "drain" => f[2] # 0
    /\ f[1] = "callback" => f[2][2] # "foreign"

LEMMA QuietHits ==
  ASSUME NEW f, Quiet(f)
  PROVE  /\ f \in RedisFrames
         /\ Hits(f, Uncounting) = 0 /\ Hits(f, Posting) = 0 /\ Hits(f, {"register"} \X {0}) = 0
         /\ Hits(f, Receiving) = 0 /\ Hits(f, Draining) = 0 /\ Hits(f, Foreign) = 0
         /\ \A c \in Nat : Hits(f, {<<"receipt", c>>}) = 0
  BY ReplyHits DEF Quiet

LEMMA ReplyQuiet ==
  ASSUME RedisInv, RedisInv', ReplyInv,
         UNCHANGED <<opened, recvs, sends, pendingIo, replies, callback, sending, nextSend, strayed>>,
         socket' \in {socket, 0}, parser' \in {parser, 0},
         strayed \/ (\A c \in DOMAIN answer' : answer'[c] # "foreign"),
         NEW t \in RedisThreads, NEW a, NEW b, Quiet(a), Quiet(b),
         \/ frames' = frames
         \/ /\ frames[t] # <<>> /\ Head(frames[t])[1] # "uncount"
            /\ Fits(t, Head(frames[t]), a) /\ Fits(t, Head(frames[t]), b)
            /\ \/ Proceed(t, <<>>)
               \/ Proceed(t, <<a>>) /\ a \notin Outermost
               \/ Proceed(t, <<a, b>>) /\ a \notin Outermost /\ b \notin Outermost
         \/ frames[t] = <<>> /\ Begin(t, <<a>>) /\ (a \in OfCompletion => t = Reconnector)
  PROVE  ReplyInv'
<1>1. RedisTypeOK /\ StacksIn(frames) /\ a \in RedisFrames /\ b \in RedisFrames
  BY DEF RedisInv, ReplyInv, IoOK, Quiet
<1>2. \A L : At(L) \in Nat
  BY <1>1, AtType
<1>3. /\ StacksIn(frames')
      /\ At(Uncounting)' = At(Uncounting)
      /\ At(Posting)' <= At(Posting) /\ At({"register"} \X {0})' <= At({"register"} \X {0})
      /\ At(Receiving)' <= At(Receiving) /\ At(Draining)' <= At(Draining) /\ At(Foreign)' <= At(Foreign)
      /\ \A c \in Nat : At({<<"receipt", c>>})' <= At({<<"receipt", c>>})
  <2>1. CASE frames' = frames
    BY <1>1, <1>2, <2>1 DEF At
  <2>2. CASE /\ frames[t] # <<>> /\ Head(frames[t])[1] # "uncount"
             /\ Fits(t, Head(frames[t]), a) /\ Fits(t, Head(frames[t]), b)
             /\ \/ Proceed(t, <<>>)
                \/ Proceed(t, <<a>>) /\ a \notin Outermost
                \/ Proceed(t, <<a, b>>) /\ a \notin Outermost /\ b \notin Outermost
    <3>1. StacksIn(frames')
      BY <1>1, <2>2, FormProceeds
    <3>2. PICK h : h = Head(frames[t])
      OBVIOUS
    <3>3. h \in RedisFrames /\ h[1] # "uncount"
      BY <1>1, <2>2, <3>2 DEF RedisTypeOK, Stacks
    <3>4. \A L : Hits(h, L) \in Nat
      BY DEF Hits
    <3>5. \A L : \/ At(L)' = At(L) - Hits(h, L)
                 \/ At(L)' = At(L) - Hits(h, L) + Hits(a, L)
                 \/ At(L)' = At(L) - Hits(h, L) + Hits(b, L) + Hits(a, L)
      BY <1>1, <2>2, <3>2, Proceeds
    <3>6. Hits(h, Uncounting) = 0
      BY <3>3, ReplyHits
    <3>7. \A L : Hits(a, L) = 0 /\ Hits(b, L) = 0 => At(L)' = At(L) - Hits(h, L)
      BY <1>2, <3>4, <3>5
    <3>8. \A L : Hits(a, L) = 0 /\ Hits(b, L) = 0 => At(L)' <= At(L)
      BY <1>2, <3>4, <3>7
    <3>. QED BY <1>2, <3>1, <3>6, <3>7, <3>8, QuietHits
  <2>3. CASE frames[t] = <<>> /\ Begin(t, <<a>>) /\ (a \in OfCompletion => t = Reconnector)
    <3>1. StacksIn(frames')
      BY <1>1, <2>3, FormBegins
    <3>2. \A L : At(L)' = At(L) + Hits(a, L)
      BY <1>1, <2>3, Begins
    <3>3. \A L : Hits(a, L) = 0 => At(L)' = At(L) /\ At(L)' <= At(L)
      BY <1>2, <3>2
    <3>. QED BY <3>1, <3>3, QuietHits
  <2>. QED BY <2>1, <2>2, <2>3
<1>4. \A L : At(L)' \in Nat
  <2>2. \A L : CountOf(frames', L) \in Nat
    BY ThreadsFinite, CountType DEF RedisInv, RedisTypeOK
  <2>. QED BY <2>2 DEF At
<1>5. Registering' <= Registering /\ Registering' \in Nat /\ Registering \in Nat
  BY <1>2, <1>3, <1>4 DEF Registering
<1>6. recvs \in Seq(Sockets) /\ Len(recvs) \in Nat
  BY <1>1 DEF RedisTypeOK
<1>7. /\ pendingIo' = Len(recvs') + Len(sends') + At(Uncounting)'
      /\ Len(recvs') + At(Posting)' + Registering' <= 1 /\ \A i \in 1..Len(recvs') : recvs'[i] = opened
  <2>1. IoOK
    BY DEF ReplyInv
  <2>2. pendingIo' = Len(recvs') + Len(sends') + At(Uncounting)'
    BY <1>2, <1>3, <1>6, <2>1 DEF IoOK
  <2>3. At(Posting)' <= At(Posting) /\ At(Posting)' \in Nat /\ At(Posting) \in Nat
    BY <1>2, <1>3, <1>4
  <2>4. Len(recvs) + At(Posting) + Registering <= 1 /\ \A i \in 1..Len(recvs) : recvs[i] = opened
    BY <2>1 DEF IoOK
  <2>5. Len(recvs) + At(Posting)' + Registering' <= 1
    BY ONLY <1>5, <1>6, <2>3, <2>4
  <2>. QED BY <1>2, <2>2, <2>4, <2>5
<1>8. strayed \/ NoForeign'
  BY <1>2, <1>3, <1>4 DEF ReplyInv, NoForeign
<1>9. /\ At(Draining)' > 0 => At(Draining) > 0 \/ socket' = 0
      /\ \A c \in Nat : At({<<"receipt", c>>})' > 0 => At({<<"receipt", c>>}) > 0
  BY <1>2, <1>3, <1>4
<1>. QED BY <1>3, <1>7, <1>8, <1>9, ReplyAside

(* Those that belong to no completion, and may be called from anywhere.      *)
Plain(f) == Quiet(f) /\ f[1] \notin {"exchange", "connect"}

LEMMA PlainFits ==
  ASSUME NEW f, Plain(f)
  PROVE  Quiet(f) /\ f \in RedisFrames /\ f \notin Outermost /\ f \notin OfCompletion /\ \A t, h : Fits(t, h, f)
  BY ReplyHits DEF Plain, Quiet, Fits

LEMMA PlainFrames ==
  /\ Plain(<<"push", 0>>) /\ Plain(<<"giveBack", 0>>)
  /\ \A c \in AllCommands : Plain(<<"send", c>>) /\ Plain(<<"callback", <<c, "error">>>>)
                            /\ Plain(<<"callback", <<c, "own">>>>)
  /\ \A c \in Commands : Plain(<<"expired", c>>)
  /\ \A k \in Sockets : Plain(<<"await", SelectOf(k)>>)
  BY DEF Plain, Quiet, RedisFrames, Told

LEMMA OtherFrames ==
  /\ \A k \in Nat : Quiet(<<"exchange", k>>) /\ <<"exchange", k>> \notin Outermost
  /\ Quiet(<<"connect", 0>>) /\ <<"connect", 0>> \notin OfCompletion
  BY DEF Quiet, RedisFrames, Outermost, OfCompletion, Receiving, Posting, Draining, Exchanging

(* A callback is called, or will be with an error; the socket is closed.     *)
LEMMA ReplyAnswers ==
  ASSUME RedisInv, RedisInv', ReplyInv, NEW t \in RedisThreads,
         CleanupSocketAndParser(t) \/ SendRefused(t) \/ SendFails(t) \/ Callback(t) \/ Expired(t)
  PROVE  ReplyInv'
<1>1. strayed \/ (\A c \in DOMAIN answer : answer[c] # "foreign")
  BY DEF ReplyInv, NoForeign
<1>2. PICK p : p = <<"push", 0>>
  OBVIOUS
<1>3. Plain(p) /\ Quiet(p)
  BY <1>2, PlainFrames DEF Plain
<1>4. RedisTypeOK
  BY DEF RedisInv
<1>5. \A x : Plain(x) => Quiet(x) /\ x \notin Outermost /\ \A h : Fits(t, h, x)
  BY PlainFits
<1>6. CASE CleanupSocketAndParser(t)
  <2>1. /\ frames[t] # <<>> /\ Head(frames[t])[1] # "uncount" /\ Proceed(t, <<>>) /\ parser' = 0
        /\ UNCHANGED <<selects, socket, opened, recvs, sends, pendingIo, callback, sending, nextSend, replies,
                       answer, strayed>>
    BY <1>4, <1>6, InPlace DEF CleanupSocketAndParser, ioState, commandState
  <2>. QED BY <1>1, <1>3, <1>5, <2>1, ReplyQuiet
<1>7. CASE SendRefused(t) \/ SendFails(t)
  <2>1. PICK f : f = Error(Argument(t))
    OBVIOUS
  <2>2. /\ frames[t] # <<>> /\ Head(frames[t]) \in RedisFrames /\ Head(frames[t]) = <<"send", Argument(t)>>
        /\ Proceed(t, <<f>>) /\ socket' \in {socket, 0} /\ parser' \in {parser, 0}
        /\ UNCHANGED <<selects, opened, recvs, sends, pendingIo, callback, sending, nextSend, replies,
                       answer, strayed>>
    BY <1>4, <1>7, <2>1, InPlace DEF SendRefused, SendFails, ioState, commandState
  <2>3. Argument(t) \in AllCommands /\ Head(frames[t])[1] # "uncount"
    BY <2>2 DEF RedisFrames
  <2>4. Plain(f)
    BY <2>1, <2>3, PlainFrames DEF Error
  <2>. QED BY <1>1, <1>3, <1>5, <2>2, <2>3, <2>4, ReplyQuiet
<1>8. CASE Expired(t)
  <2>1. /\ frames[t] # <<>> /\ Head(frames[t])[1] # "uncount" /\ Proceed(t, <<>>)
        /\ answer' = [answer EXCEPT ![Argument(t)] = IF @ = "none" THEN "error" ELSE "twice"]
        /\ UNCHANGED <<selects, socket, opened, parser, recvs, sends, pendingIo, callback, sending, nextSend, replies,
                       strayed>>
    BY <1>4, <1>8, InPlace DEF Expired, ioState, commandState
  <2>2. strayed \/ (\A c \in DOMAIN answer' : answer'[c] # "foreign")
    BY <1>1, <2>1
  <2>. QED BY <1>3, <1>5, <2>1, <2>2, ReplyQuiet
<1>9. CASE Callback(t)
  <2>1. PICK h : h = Head(frames[t])
    OBVIOUS
  <2>2. /\ frames[t] # <<>> /\ h \in RedisFrames /\ h = <<"callback", Argument(t)>>
        /\ Proceed(t, <<>>) \/ Proceed(t, <<p>>)
        /\ answer' = [answer EXCEPT ![Argument(t)[1]] = IF @ = "none" THEN Argument(t)[2] ELSE "twice"]
        /\ UNCHANGED <<selects, socket, opened, parser, recvs, sends, pendingIo, callback, sending, nextSend, replies,
                       strayed>>
    BY <1>2, <1>4, <1>9, <2>1, InPlace DEF Callback, ioState, commandState
  <2>3. h[1] = "callback" /\ h[2] = Argument(t) /\ h[1] # "uncount"
    BY <2>2
  <2>4. ASSUME ~strayed PROVE Argument(t)[2] # "foreign"
    <3>1. At(Foreign) >= Hits(h, Foreign) /\ At(Foreign) = 0
      BY <1>3, <1>4, <2>1, <2>2, <2>4, Proceeds DEF ReplyInv, NoForeign, Quiet
    <3>. QED BY <2>2, <2>3, <3>1, ReplyHits
  <2>5. strayed \/ (\A c \in DOMAIN answer' : answer'[c] # "foreign")
    BY <1>1, <2>2, <2>4
  <2>. QED BY <1>3, <1>5, <2>1, <2>2, <2>3, <2>5, ReplyQuiet
<1>. QED BY <1>6, <1>7, <1>8, <1>9

(* The connection is lent, waited for, and given back.                       *)
LEMMA ReplyLends ==
  ASSUME RedisInv, RedisInv', ReplyInv, NEW t \in RedisThreads,
         PushConnection(t) \/ Lend(t) \/ Wait(t) \/ ExpirePendingCommands(t) \/ ConnectFails(t) \/ GiveBack(t)
  PROVE  ReplyInv'
<1>1. strayed \/ (\A c \in DOMAIN answer : answer[c] # "foreign")
  BY DEF ReplyInv, NoForeign
<1>2. RedisTypeOK /\ waiting \in Seq(Commands) /\ issued \in 0..MaxCommands
  BY DEF RedisInv, RedisTypeOK
<1>3. \A x : Plain(x) => Quiet(x) /\ x \notin Outermost /\ x \notin OfCompletion /\ \A h : Fits(t, h, x)
  BY PlainFits
<1>4. \A c \in Commands : Plain(<<"send", c>>) /\ Plain(<<"expired", c>>)
  <2>1. Commands \subseteq AllCommands
    BY RedisConstants DEF Commands, AllCommands
  <2>. QED BY <2>1, PlainFrames
<1>5. CASE \E x : /\ Plain(x) /\ frames[t] # <<>> /\ Head(frames[t])[1] # "uncount"
                  /\ Proceed(t, <<>>) \/ Proceed(t, <<x>>)
                  /\ UNCHANGED <<selects, socket, opened, parser, recvs, sends, pendingIo, callback, sending,
                                 nextSend, replies, answer, strayed>>
  BY <1>1, <1>3, <1>5, ReplyQuiet
<1>6. CASE \E x : /\ Plain(x)
                  /\ frames[t] = <<>> /\ Begin(t, <<x>>)
                  /\ UNCHANGED <<selects, socket, opened, parser, recvs, sends, pendingIo, callback, sending,
                                 nextSend, replies, answer, strayed>>
  BY <1>1, <1>3, <1>6, ReplyQuiet
<1>7. CASE PushConnection(t)
  <2>1. PICK x : x = <<"send", Head(waiting)>>
    OBVIOUS
  <2>2. waiting # <<>> => Head(waiting) \in Commands
    BY <1>2, QueueOps
  <2>3. /\ In(t, "push")
        /\ Proceed(t, <<>>) \/ (waiting # <<>> /\ Proceed(t, <<x>>))
        /\ UNCHANGED <<selects, socket, opened, parser, recvs, sends, pendingIo, callback, sending,
                       nextSend, replies, answer, strayed>>
    BY <1>7, <2>1 DEF PushConnection, PushBroken, PushToWaiting, PushFree, ioState, commandState
  <2>4. frames[t] # <<>> /\ Head(frames[t])[1] # "uncount"
    BY <1>2, <2>3, InPlace
  <2>5. \E y : Plain(y) /\ (Proceed(t, <<>>) \/ Proceed(t, <<y>>))
    BY <1>4, <2>1, <2>2, <2>3, PlainFrames
  <2>. QED BY <1>5, <2>3, <2>4, <2>5
<1>8. CASE ConnectFails(t) \/ GiveBack(t)
  <2>1. PICK x : x = <<"giveBack", 0>>
    OBVIOUS
  <2>2. /\ frames[t] # <<>> /\ Head(frames[t])[1] # "uncount"
        /\ Proceed(t, <<>>) \/ Proceed(t, <<x>>)
        /\ UNCHANGED <<selects, socket, opened, parser, recvs, sends, pendingIo, callback, sending,
                       nextSend, replies, answer, strayed>>
    BY <1>2, <1>8, <2>1, InPlace DEF ConnectFails, GiveBack, ioState, commandState
  <2>. QED BY <1>5, <2>1, <2>2, PlainFrames
<1>9. CASE Lend(t)
  <2>1. PICK x : x = <<"send", issued + 1>>
    OBVIOUS
  <2>2. /\ frames[t] = <<>> /\ issued < MaxCommands /\ Begin(t, <<x>>)
        /\ UNCHANGED <<selects, socket, opened, parser, recvs, sends, pendingIo, callback, sending,
                       nextSend, replies, answer, strayed>>
    BY <1>9, <2>1 DEF Lend, Idle, ioState, commandState
  <2>3. issued + 1 \in Commands
    BY <1>2, <2>2, RedisConstants DEF Commands
  <2>. QED BY <1>4, <1>6, <2>1, <2>2, <2>3
<1>10. CASE ExpirePendingCommands(t)
  <2>1. PICK x : x = <<"expired", Head(waiting)>>
    OBVIOUS
  <2>2. /\ frames[t] = <<>> /\ waiting # <<>> /\ Begin(t, <<x>>)
        /\ UNCHANGED <<selects, socket, opened, parser, recvs, sends, pendingIo, callback, sending,
                       nextSend, replies, answer, strayed>>
    BY <1>10, <2>1 DEF ExpirePendingCommands, Idle, ioState, commandState
  <2>3. Head(waiting) \in Commands
    BY <1>2, <2>2, QueueOps
  <2>. QED BY <1>4, <1>6, <2>1, <2>2, <2>3
<1>11. CASE Wait(t)
  <2>1. /\ answer' \in {answer, [answer EXCEPT ![issued + 1] = "refused"]} /\ frames' = frames
        /\ UNCHANGED <<selects, socket, opened, parser, recvs, sends, pendingIo, callback, sending,
                       nextSend, replies, strayed>>
    BY <1>11 DEF Wait, ioState, commandState
  <2>2. strayed \/ (\A c \in DOMAIN answer' : answer'[c] # "foreign")
    BY <1>1, <2>1
  <2>3. Quiet(<<"push", 0>>)
    BY PlainFrames DEF Plain
  <2>. QED BY <2>1, <2>2, <2>3, ReplyQuiet
<1>. QED BY <1>7, <1>8, <1>9, <1>10, <1>11

(* The reconnect thread, the receive it could not post, and the peer.        *)
LEMMA ReplyReconnects ==
  ASSUME RedisInv, RedisInv', ReplyInv,
         \/ DisconnectStalledClients(Reconnector) \/ TakeBroken(Reconnector) \/ FirstRecvFails(Reconnector)
         \/ Selected(Reconnector) \/ PeerCloses \/ \E w \in RedisThreads : RegisterRecvFails(w)
  PROVE  ReplyInv'
<1>1. strayed \/ (\A c \in DOMAIN answer : answer[c] # "foreign")
  BY DEF ReplyInv, NoForeign
<1>2. RedisTypeOK /\ Reconnector \in RedisThreads
  BY DEF RedisInv, RedisThreads
<1>3. PICK x, g, c, p : x = <<"exchange", 0>> /\ g = <<"giveBack", 0>> /\ c = <<"connect", 0>> /\ p = <<"push", 0>>
  OBVIOUS
<1>4. /\ Quiet(x) /\ Quiet(g) /\ Quiet(c) /\ Quiet(p)
      /\ x \notin Outermost /\ g \notin Outermost /\ p \notin Outermost /\ c \notin OfCompletion
      /\ \A h : /\ Fits(Reconnector, h, x) /\ Fits(Reconnector, h, g) /\ Fits(Reconnector, h, p)
                /\ \A t : (h \in OfCompletion => Fits(t, h, x)) /\ Fits(t, h, g)
  BY <1>3, PlainFrames, PlainFits, OtherFrames DEF Fits, Quiet
<1> DEFINE Same == UNCHANGED <<selects, socket, opened, parser, recvs, sends, pendingIo, callback, sending,
                               nextSend, replies, answer, strayed>>
<1>5. CASE DisconnectStalledClients(Reconnector) \/ TakeBroken(Reconnector)
  <2>1. /\ frames[Reconnector] = <<>> /\ Same
        /\ Begin(Reconnector, <<x>>) \/ Begin(Reconnector, <<c>>)
    BY <1>3, <1>5 DEF DisconnectStalledClients, TakeBroken, Idle, ioState, commandState
  <2>. QED BY <1>1, <1>2, <1>4, <2>1, ReplyQuiet
<1>6. CASE FirstRecvFails(Reconnector) \/ Selected(Reconnector)
  <2>1. /\ frames[Reconnector] # <<>> /\ Head(frames[Reconnector])[1] # "uncount" /\ Same
        /\ Proceed(Reconnector, <<p>>) \/ Proceed(Reconnector, <<x, g>>)
    BY <1>2, <1>3, <1>6, InPlace DEF FirstRecvFails, Selected, ioState, commandState
  <2>. QED BY <1>1, <1>2, <1>4, <2>1, ReplyQuiet
<1>7. CASE PeerCloses
  <2>1. frames' = frames /\ Same
    BY <1>7 DEF PeerCloses, ioState, commandState
  <2>. QED BY <1>1, <1>2, <1>4, <2>1, ReplyQuiet
<1>8. ASSUME NEW w \in RedisThreads, RegisterRecvFails(w) PROVE ReplyInv'
  <2>1. PICK h : h = Head(frames[w])
    OBVIOUS
  <2>2. /\ frames[w] # <<>> /\ h \in RedisFrames /\ h[1] = "post" /\ Same /\ Proceed(w, <<x>>)
    BY <1>2, <1>3, <1>8, <2>1, InPlace DEF RegisterRecvFails, ioState, commandState
  <2>3. h \in OfCompletion
    BY <2>2, ReplyHits
  <2>. QED BY <1>1, <1>2, <1>4, <2>1, <2>2, <2>3, ReplyQuiet
<1>. QED BY <1>5, <1>6, <1>7, <1>8

(* The connection is closed: nothing posted is of an open one.               *)
LEMMA ReplyExchange ==
  ASSUME RedisInv, RedisInv', ReplyInv, NEW t \in RedisThreads, Exchange(t)
  PROVE  ReplyInv'
<1>1. RedisTypeOK /\ StacksIn(frames)
  BY DEF RedisInv, ReplyInv, IoOK
<1>2. PICK h : h = Head(frames[t])
  OBVIOUS
<1>3. PICK u, d : u = <<"cleanup", socket>> /\ d = <<"drain", Argument(t)>>
  OBVIOUS
<1>4. /\ frames[t] # <<>> /\ h \in RedisFrames /\ h = <<"exchange", Argument(t)>> /\ socket' = 0
      /\ Proceed(t, <<>>) \/ Proceed(t, <<u, d>>)
      /\ UNCHANGED <<opened, parser, recvs, sends, pendingIo, callback, sending, nextSend, replies, answer, strayed>>
  BY <1>1, <1>2, <1>3, InPlace DEF Exchange, ioState, commandState
<1>5. Argument(t) \in Nat /\ socket \in Nat
  BY <1>1, <1>4 DEF RedisFrames, RedisTypeOK, Sockets
<1>6. u \in RedisFrames /\ d \in RedisFrames /\ u[1] = "cleanup" /\ d[1] = "drain" /\ d[2] = Argument(t)
  BY <1>3, <1>5 DEF RedisFrames
<1>7. h[1] = "exchange" /\ h[2] = Argument(t)
  BY <1>4
<1>8. Fits(t, h, u) /\ Fits(t, h, d) /\ u \notin Outermost /\ d \notin Outermost
  BY <1>4, <1>6, <1>7, ReplyHits DEF Fits
<1>9. StacksIn(frames')
  BY <1>1, <1>2, <1>4, <1>8, FormProceeds
<1>10. \A L : At(L) \in Nat
  BY <1>1, AtType
<1>11. \A L : At(L)' = At(L) - Hits(h, L) \/ At(L)' = At(L) - Hits(h, L) + Hits(d, L) + Hits(u, L)
  <2>1. RedisTypeOK /\ frames[t] # <<>> /\ u \in RedisFrames /\ d \in RedisFrames
    BY <1>1, <1>4, <1>6
  <2>2. Proceed(t, <<>>) => \A L : At(L)' = At(L) - Hits(h, L)
    BY ONLY <1>2, <2>1, ProceedsBack
  <2>3. Proceed(t, <<u, d>>) => \A L : At(L)' = At(L) - Hits(h, L) + Hits(d, L) + Hits(u, L)
    BY ONLY <1>2, <2>1, ProceedsToTwo
  <2>4. Proceed(t, <<>>) \/ Proceed(t, <<u, d>>)
    BY <1>4
  <2>. QED BY ONLY <2>2, <2>3, <2>4
<1>12. \A L : Hits(h, L) = 0 /\ Hits(u, L) = 0 /\ Hits(d, L) = 0 => At(L)' = At(L)
  BY <1>10, <1>11
<1>13. /\ At(Uncounting)' = At(Uncounting) /\ At(Posting)' = At(Posting) /\ Registering' = Registering
       /\ At(Receiving)' = At(Receiving) /\ At(Foreign)' = At(Foreign)
       /\ \A c \in Nat : At({<<"receipt", c>>})' = At({<<"receipt", c>>})
  BY <1>4, <1>6, <1>7, <1>12, ReplyHits DEF Registering
<1>14. strayed \/ NoForeign'
  BY <1>4, <1>13 DEF ReplyInv, NoForeign
<1>15. /\ pendingIo' = Len(recvs') + Len(sends') + At(Uncounting)'
       /\ Len(recvs') + At(Posting)' + Registering' <= 1 /\ \A i \in 1..Len(recvs') : recvs'[i] = opened
  BY <1>4, <1>13 DEF ReplyInv, IoOK
<1>16. At(Receiving)' <= At(Receiving)
  BY <1>10, <1>13
<1>17. \A c \in Nat : At({<<"receipt", c>>})' > 0 => At({<<"receipt", c>>}) > 0
  BY <1>13
<1>. QED BY <1>4, <1>9, <1>14, <1>15, <1>16, <1>17, ReplyAside

(* A completion that ends without a reply, and its request uncounted.        *)
LEMMA ReplyEnds ==
  ASSUME RedisInv, RedisInv', ReplyInv, NEW t \in RedisThreads, RecvZero(t) \/ Uncount(t)
  PROVE  ReplyInv'
<1>1. RedisTypeOK /\ StacksIn(frames) /\ recvs \in Seq(Sockets) /\ sends \in Seq(SendRequests) /\ pendingIo \in Int
  BY DEF RedisInv, RedisTypeOK, ReplyInv, IoOK
<1>2. \A L : At(L) \in Nat
  BY <1>1, AtType
<1>3. CASE RecvZero(t)
  <2>1. PICK x, u : x = <<"exchange", 0>> /\ u = <<"uncount", 0>>
    OBVIOUS
  <2>2. /\ frames[t] = <<>> /\ recvs # <<>> /\ recvs' = Tail(recvs) /\ Begin(t, <<x, u>>)
        /\ UNCHANGED <<socket, opened, parser, sends, pendingIo, callback, sending, nextSend, replies,
                       answer, strayed>>
    BY <1>3, <2>1 DEF RecvZero, Idle, commandState
  <2>3. x \in RedisFrames /\ u \in RedisFrames /\ Quiet(x) /\ x \notin Outermost /\ u[1] = "uncount"
    BY <2>1, OtherFrames, SilentFrames DEF Silent, Quiet
  <2>4. u \in Uncounting
    BY <2>1 DEF Uncounting
  <2>5. StacksIn(frames')
    BY <1>1, <2>2, <2>3, <2>4, FormBegins
  <2>6. \A L : At(L)' = At(L) + Hits(u, L) + Hits(x, L)
    BY <1>1, <2>2, <2>3, Begins
  <2>7. \A L : Hits(u, L) = 0 /\ Hits(x, L) = 0 => At(L)' = At(L)
    BY <1>2, <2>6
  <2>8. /\ Hits(u, Uncounting) = 1 /\ Hits(u, Posting) = 0 /\ Hits(u, {"register"} \X {0}) = 0
        /\ Hits(u, Receiving) = 0 /\ Hits(u, Draining) = 0 /\ Hits(u, Foreign) = 0
        /\ \A c \in Nat : Hits(u, {<<"receipt", c>>}) = 0
    BY <2>3, ReplyHits
  <2>9. /\ At(Posting)' = At(Posting) /\ At({"register"} \X {0})' = At({"register"} \X {0})
        /\ At(Receiving)' = At(Receiving) /\ At(Draining)' = At(Draining) /\ At(Foreign)' = At(Foreign)
        /\ \A c \in Nat : At({<<"receipt", c>>})' = At({<<"receipt", c>>})
    BY <2>3, <2>7, <2>8, QuietHits
  <2>10. At(Uncounting)' = At(Uncounting) + 1
    BY <1>2, <2>3, <2>6, <2>8, QuietHits
  <2>11. /\ Len(recvs') = Len(recvs) - 1 /\ Len(recvs) \in Nat \ {0}
         /\ \A i \in 1..(Len(recvs) - 1) : recvs'[i] = recvs[i + 1]
    BY <1>1, <2>2
  <2>12. /\ pendingIo' = Len(recvs') + Len(sends') + At(Uncounting)'
         /\ Len(recvs') + At(Posting)' + Registering' <= 1
    <3>1. /\ pendingIo = Len(recvs) + Len(sends) + At(Uncounting)
          /\ Len(recvs) + At(Posting) + Registering <= 1
      BY DEF ReplyInv, IoOK
    <3>2. Len(sends) \in Nat /\ Len(sends') = Len(sends) /\ Registering' = Registering /\ Registering \in Nat
      BY <1>1, <1>2, <2>2, <2>9 DEF Registering
    <3>3. pendingIo' = pendingIo /\ At(Posting)' = At(Posting) /\ At(Posting) \in Nat /\ At(Uncounting) \in Nat
      BY <1>2, <2>2, <2>9
    <3>4. Len(recvs') = Len(recvs) - 1 /\ Len(recvs) \in Nat
      BY <2>11
    <3>5. pendingIo' = Len(recvs') + Len(sends') + At(Uncounting)'
      BY ONLY <2>10, <3>1, <3>2, <3>3, <3>4
    <3>6. Len(recvs') + At(Posting)' + Registering' <= 1
      BY ONLY <3>1, <3>2, <3>3, <3>4
    <3>. QED BY <3>5, <3>6
  <2>13. \A i \in 1..Len(recvs') : recvs'[i] = opened
    BY <2>11 DEF ReplyInv, IoOK
  <2>14. strayed \/ NoForeign'
    BY <2>2, <2>9 DEF ReplyInv, NoForeign
  <2>15. /\ At(Receiving)' <= At(Receiving) /\ (At(Draining)' > 0 => At(Draining) > 0)
         /\ \A c \in Nat : At({<<"receipt", c>>})' > 0 => At({<<"receipt", c>>}) > 0
    BY <1>2, <2>9
  <2>. QED BY <2>2, <2>5, <2>12, <2>13, <2>14, <2>15, ReplyAside
<1>4. CASE Uncount(t)
  <2>1. PICK h : h = Head(frames[t])
    OBVIOUS
  <2>2. PICK p : p = <<"push", 0>>
    OBVIOUS
  <2>3. /\ frames[t] # <<>> /\ h \in RedisFrames /\ h[1] = "uncount" /\ Proceed(t, <<>>) /\ pendingIo' = pendingIo - 1
        /\ UNCHANGED <<socket, opened, parser, recvs, sends, callback, sending, nextSend, replies,
                       answer, strayed>>
    BY <1>1, <1>4, <2>1, InPlace DEF Uncount, commandState
  <2>4. p \in RedisFrames /\ Fits(t, h, p)
    BY <2>2, PlainFrames, PlainFits
  <2>5. StacksIn(frames')
    BY <1>1, <2>1, <2>3, <2>4, FormProceeds
  <2>6. \A L : At(L)' = At(L) - Hits(h, L)
    BY <1>1, <2>1, <2>3, <2>4, Proceeds
  <2>7. \A L : Hits(h, L) = 0 => At(L)' = At(L)
    BY <1>2, <2>6
  <2>8. /\ At(Posting)' = At(Posting) /\ Registering' = Registering
        /\ At(Receiving)' = At(Receiving) /\ At(Draining)' = At(Draining) /\ At(Foreign)' = At(Foreign)
        /\ \A c \in Nat : At({<<"receipt", c>>})' = At({<<"receipt", c>>})
    BY <2>3, <2>7, ReplyHits DEF Registering
  <2>9. At(Uncounting)' = At(Uncounting) - 1
    BY <2>3, <2>6, ReplyHits
  <2>10. /\ pendingIo' = Len(recvs') + Len(sends') + At(Uncounting)'
         /\ Len(recvs') + At(Posting)' + Registering' <= 1 /\ \A i \in 1..Len(recvs') : recvs'[i] = opened
    <3>1. /\ pendingIo = Len(recvs) + Len(sends) + At(Uncounting)
          /\ Len(recvs) + At(Posting) + Registering <= 1 /\ \A i \in 1..Len(recvs) : recvs[i] = opened
      BY DEF ReplyInv, IoOK
    <3>2. Len(sends) \in Nat /\ Len(recvs) \in Nat
      BY <1>1
    <3>. QED BY <1>2, <2>3, <2>8, <2>9, <3>1, <3>2
  <2>11. strayed \/ NoForeign'
    BY <2>3, <2>8 DEF ReplyInv, NoForeign
  <2>12. /\ At(Receiving)' <= At(Receiving) /\ (At(Draining)' > 0 => At(Draining) > 0)
         /\ \A c \in Nat : At({<<"receipt", c>>})' > 0 => At({<<"receipt", c>>}) > 0
    BY <1>2, <2>8
  <2>. QED BY <2>3, <2>5, <2>10, <2>11, <2>12, ReplyAside
<1>. QED BY <1>3, <1>4

(* A receive is posted: by the worker that handled the last, or the first.   *)
LEMMA ReplyPosts ==
  ASSUME RedisInv, RedisInv', ReplyInv, NEW t \in RedisThreads, RegisterRecv(t) \/ FirstRecv(t)
  PROVE  ReplyInv'
<1>1. /\ RedisTypeOK /\ StacksIn(frames) /\ recvs \in Seq(Sockets) /\ sends \in Seq(SendRequests) /\ pendingIo \in Int
      /\ socket \in {0, opened} /\ opened \in Sockets
  BY DEF RedisInv, RedisTypeOK, ReplyInv, IoOK
<1>2. \A L : At(L) \in Nat
  BY <1>1, AtType
<1>3. PICK h : h = Head(frames[t])
  OBVIOUS
<1>4. \E a, b : /\ Plain(a) /\ Plain(b)
                /\ Proceed(t, <<>>) \/ Proceed(t, <<a>>) \/ Proceed(t, <<a, b>>)
  <2>1. CASE RegisterRecv(t)
    BY <2>1, PlainFrames DEF RegisterRecv
  <2>2. CASE FirstRecv(t)
    <3>1. PICK c : c = SelectOf(socket)
      OBVIOUS
    <3>2. socket = opened /\ socket \in Sockets
      BY <1>1, <2>2 DEF FirstRecv
    <3>3. c \in AllCommands
      BY <3>1, <3>2, RedisConstants DEF Sockets, SelectOf, AllCommands
    <3>4. Plain(<<"send", c>>) /\ Plain(<<"await", c>>) /\ Plain(<<"push", 0>>)
      BY <3>1, <3>2, <3>3, PlainFrames
    <3>5. Proceed(t, <<<<"push", 0>>>>) \/ Proceed(t, <<<<"send", c>>, <<"await", c>>>>)
      BY <2>2, <3>1 DEF FirstRecv
    <3>. QED BY <3>4, <3>5
  <2>. QED BY <2>1, <2>2
<1>5. PICK a, b : /\ Plain(a) /\ Plain(b)
                  /\ Proceed(t, <<>>) \/ Proceed(t, <<a>>) \/ Proceed(t, <<a, b>>)
  BY <1>4
<1>6. /\ frames[t] # <<>> /\ h \in RedisFrames /\ h[1] \in {"post", "register"} /\ socket # 0
      /\ recvs' = Append(recvs, socket) /\ pendingIo' = pendingIo + 1
      /\ UNCHANGED <<socket, opened, parser, sends, callback, sending, nextSend, replies, answer, strayed>>
  BY <1>1, <1>3, InPlace DEF RegisterRecv, FirstRecv, commandState
<1>7. /\ Fits(t, h, a) /\ Fits(t, h, b) /\ a \notin Outermost /\ b \notin Outermost
      /\ a \in RedisFrames /\ b \in RedisFrames /\ Quiet(a) /\ Quiet(b)
  BY <1>5, PlainFits
<1>8. StacksIn(frames')
  BY <1>1, <1>3, <1>5, <1>6, <1>7, FormProceeds
<1>9. \A L : Hits(a, L) = 0 /\ Hits(b, L) = 0 => At(L)' = At(L) - Hits(h, L)
  <2>1. RedisTypeOK /\ frames[t] # <<>> /\ a \in RedisFrames /\ b \in RedisFrames
    BY <1>1, <1>6, <1>7
  <2>2. Proceed(t, <<>>) => \A L : At(L)' = At(L) - Hits(h, L)
    BY ONLY <1>3, <2>1, ProceedsBack
  <2>3. Proceed(t, <<a>>) => \A L : At(L)' = At(L) - Hits(h, L) + Hits(a, L)
    BY ONLY <1>3, <2>1, ProceedsTo
  <2>4. Proceed(t, <<a, b>>) => \A L : At(L)' = At(L) - Hits(h, L) + Hits(b, L) + Hits(a, L)
    BY ONLY <1>3, <2>1, ProceedsToTwo
  <2>5. \A L : Hits(h, L) \in Nat
    BY DEF Hits
  <2>. QED BY <1>2, <1>5, <2>2, <2>3, <2>4, <2>5
<1>10. /\ At(Uncounting)' = At(Uncounting) /\ At(Draining)' = At(Draining)
       /\ At(Receiving)' = At(Receiving) /\ At(Foreign)' = At(Foreign)
       /\ \A c \in Nat : At({<<"receipt", c>>})' = At({<<"receipt", c>>})
       /\ At(Posting)' = At(Posting) - (IF h[1] = "post" THEN 1 ELSE 0)
       /\ Registering' = Registering - (IF h[1] = "register" THEN 1 ELSE 0)
  <2>1. /\ Hits(h, Uncounting) = 0 /\ Hits(h, Draining) = 0 /\ Hits(h, Receiving) = 0 /\ Hits(h, Foreign) = 0
        /\ \A c \in Nat : Hits(h, {<<"receipt", c>>}) = 0
        /\ Hits(h, Posting) = IF h[1] = "post" THEN 1 ELSE 0
        /\ Hits(h, {"register"} \X {0}) = IF h[1] = "register" THEN 1 ELSE 0
    BY <1>6, ReplyHits
  <2>2. \A L : Hits(a, L) = 0 /\ Hits(b, L) = 0 /\ Hits(h, L) = 0 => At(L)' = At(L)
    BY <1>2, <1>9
  <2>. QED BY <1>7, <1>9, <2>1, <2>2, QuietHits DEF Registering
<1>11. /\ Len(recvs') = Len(recvs) + 1 /\ Len(recvs) \in Nat /\ Len(sends) \in Nat
       /\ \A i \in 1..Len(recvs) : recvs'[i] = recvs[i] /\ recvs'[Len(recvs) + 1] = opened
  BY <1>1, <1>6
<1>12. /\ pendingIo' = Len(recvs') + Len(sends') + At(Uncounting)'
       /\ Len(recvs') + At(Posting)' + Registering' <= 1
  <2>1. /\ pendingIo = Len(recvs) + Len(sends) + At(Uncounting)
        /\ Len(recvs) + At(Posting) + Registering <= 1
    BY DEF ReplyInv, IoOK
  <2>2. Registering \in Nat /\ At(Posting) \in Nat /\ At(Uncounting) \in Nat
    BY <1>2 DEF Registering
  <2>3. Len(recvs') = Len(recvs) + 1 /\ Len(recvs) \in Nat /\ Len(sends') = Len(sends) /\ Len(sends) \in Nat
    BY <1>6, <1>11
  <2>4. pendingIo' = Len(recvs') + Len(sends') + At(Uncounting)'
    <3>1. At(Uncounting)' = At(Uncounting) /\ pendingIo' = pendingIo + 1
      BY <1>6, <1>10
    <3>. QED BY <2>1, <2>2, <2>3, <3>1
  <2>5. At(Posting)' + Registering' = At(Posting) + Registering - 1
    BY <1>6, <1>10, <2>2
  <2>6. Len(recvs') + At(Posting)' + Registering' <= 1
    <3>1. PICK i, j : i = At(Posting)' /\ j = Registering'
      OBVIOUS
    <3>2. i \in Int /\ j \in Int
      BY <1>6, <1>10, <2>2, <3>1
    <3>3. i + j = At(Posting) + Registering - 1
      BY <2>5, <3>1
    <3>4. Len(recvs') + i + j <= 1
      BY ONLY <2>1, <2>2, <2>3, <3>2, <3>3
    <3>. QED BY <3>1, <3>4
  <2>. QED BY <2>4, <2>6
<1>13. \A i \in 1..Len(recvs') : recvs'[i] = opened
  <2>1. \A i \in 1..Len(recvs) : recvs[i] = opened
    BY DEF ReplyInv, IoOK
  <2>2. recvs'[Len(recvs) + 1] = opened
    BY <1>1, <1>6
  <2>. QED BY <1>11, <2>1, <2>2
<1>14. strayed \/ NoForeign'
  BY <1>6, <1>10 DEF ReplyInv, NoForeign
<1>15. /\ At(Receiving)' <= At(Receiving) /\ (At(Draining)' > 0 => At(Draining) > 0)
       /\ \A c \in Nat : At({<<"receipt", c>>})' > 0 => At({<<"receipt", c>>}) > 0
  BY <1>2, <1>10
<1>. QED BY <1>6, <1>8, <1>12, <1>13, <1>14, <1>15, ReplyAside

LEMMA PlainProceeds ==
  ASSUME RedisTypeOK, StacksIn(frames), NEW t \in RedisThreads, frames[t] # <<>>, NEW h, h = Head(frames[t]),
         NEW a, Plain(a), Proceed(t, <<>>) \/ Proceed(t, <<a>>)
  PROVE  /\ StacksIn(frames') /\ h \in RedisFrames /\ \A L : At(L) \in Nat /\ At(L) >= Hits(h, L)
         /\ At(Uncounting)' = At(Uncounting) - Hits(h, Uncounting)
         /\ At(Posting)' = At(Posting) - Hits(h, Posting)
         /\ Registering' = Registering - Hits(h, {"register"} \X {0})
         /\ At(Receiving)' = At(Receiving) - Hits(h, Receiving)
         /\ At(Draining)' = At(Draining) - Hits(h, Draining)
         /\ At(Foreign)' = At(Foreign) - Hits(h, Foreign)
         /\ \A c \in Nat : At({<<"receipt", c>>})' = At({<<"receipt", c>>}) - Hits(h, {<<"receipt", c>>})
<1>1. Fits(t, h, a) /\ a \notin Outermost /\ a \in RedisFrames /\ Quiet(a)
  BY PlainFits
<1>2. StacksIn(frames')
  BY <1>1, FormProceeds
<1>3. h \in RedisFrames /\ \A L : At(L) \in Nat /\ At(L) >= Hits(h, L) /\ Hits(h, L) \in Nat
  BY <1>1, AtType, Proceeds DEF Hits
<1>4. \A L : Hits(a, L) = 0 => At(L)' = At(L) - Hits(h, L)
  <2>1. Proceed(t, <<>>) => \A L : At(L)' = At(L) - Hits(h, L)
    BY <1>1, Proceeds
  <2>2. Proceed(t, <<a>>) => \A L : At(L)' = At(L) - Hits(h, L) + Hits(a, L)
    BY <1>1, Proceeds
  <2>. QED BY <1>3, <2>1, <2>2
<1>. QED BY <1>1, <1>2, <1>3, <1>4, QuietHits DEF Registering

LEMMA ReceivingAll ==
  ASSUME RedisTypeOK
  PROVE  \A c \in Nat : At({<<"receipt", c>>}) <= At(Receiving)
<1>1. \A c \in Nat : {<<"receipt", c>>} \subseteq Receiving
  BY DEF Receiving
<1>. QED BY <1>1, ThreadsFinite, CountMonotone DEF RedisTypeOK, At

(* What is expected, added up.                                               *)
LEMMA ExpectedType ==
  ASSUME RedisInv
  PROVE  /\ Len(replies[opened]) \in Nat /\ At(Receiving) \in Nat /\ Unsent \in {0, 1} /\ nextSend \in Nat
         /\ Expected = Len(replies[opened]) + At(Receiving) + Unsent + (IF nextSend = 0 THEN 0 ELSE 1)
<1>1. opened \in Sockets /\ replies[opened] \in Seq(Replies) /\ nextSend \in Nat
  BY DEF RedisInv, RedisTypeOK
<1>2. Len(replies[opened]) \in Nat
  BY <1>1
<1>. QED BY <1>1, <1>2, AtType DEF RedisInv, Unsent, Expected

(* Disconnect() clears what is to be sent when the socket is closed, unless  *)
(* it came too late.                                                         *)
LEMMA ReplyDrains ==
  ASSUME RedisInv, RedisInv', ReplyInv, NEW t \in RedisThreads, Drain(t)
  PROVE  ReplyInv'
<1>1. RedisTypeOK /\ StacksIn(frames) /\ callback \in {0} \union AllCommands
  BY DEF RedisInv, RedisTypeOK, ReplyInv, IoOK
<1>2. PICK h : h = Head(frames[t])
  OBVIOUS
<1>3. PICK a : Plain(a) /\ (Proceed(t, <<>>) \/ Proceed(t, <<a>>))
  <2>1. callback = 0 => Proceed(t, <<>>) /\ Plain(<<"push", 0>>)
    BY PlainFrames DEF Drain, Failing
  <2>2. callback # 0 => Proceed(t, <<Error(callback)>>) /\ Plain(Error(callback))
    BY <1>1, PlainFrames DEF Drain, Failing, Error
  <2>. QED BY <2>1, <2>2
<1>4. /\ frames[t] # <<>> /\ h = <<"drain", Argument(t)>>
      /\ callback' = 0 /\ sending' = Nothing /\ nextSend' = 0
      /\ strayed' = (strayed \/ (Argument(t) # 0 /\ socket # 0))
      /\ UNCHANGED <<socket, opened, parser, recvs, sends, pendingIo, replies, answer>>
  BY <1>1, <1>2, InPlace DEF Drain, ioState
<1>5. /\ StacksIn(frames') /\ h \in RedisFrames /\ \A L : At(L) \in Nat /\ At(L) >= Hits(h, L)
      /\ At(Uncounting)' = At(Uncounting) - Hits(h, Uncounting)
      /\ At(Posting)' = At(Posting) - Hits(h, Posting)
      /\ Registering' = Registering - Hits(h, {"register"} \X {0})
      /\ At(Receiving)' = At(Receiving) - Hits(h, Receiving)
      /\ At(Draining)' = At(Draining) - Hits(h, Draining)
      /\ At(Foreign)' = At(Foreign) - Hits(h, Foreign)
  BY <1>1, <1>2, <1>3, <1>4, PlainProceeds
<1>6. /\ h[1] = "drain" /\ h[2] = Argument(t)
      /\ Hits(h, Uncounting) = 0 /\ Hits(h, Posting) = 0 /\ Hits(h, {"register"} \X {0}) = 0
      /\ Hits(h, Receiving) = 0 /\ Hits(h, Foreign) = 0 /\ Hits(h, Draining) = IF Argument(t) = 0 THEN 1 ELSE 0
  BY <1>4, <1>5, ReplyHits
<1>7. /\ At(Uncounting)' = At(Uncounting) /\ At(Posting)' = At(Posting) /\ Registering' = Registering
      /\ At(Receiving)' = At(Receiving) /\ At(Foreign)' = At(Foreign) /\ (At(Draining)' > 0 => At(Draining) > 0)
      /\ Argument(t) = 0 => At(Draining) > 0
  BY <1>5, <1>6 DEF Registering
<1>8. IoOK'
  BY <1>4, <1>5, <1>7 DEF ReplyInv, IoOK
<1>9. ASSUME ~strayed' PROVE SendOK' /\ MatchOK' /\ NoForeign'
  <2>1. SendOK /\ MatchOK /\ NoForeign /\ socket = 0
    BY <1>4, <1>7, <1>9 DEF ReplyInv, IoOK
  <2>2. SendOK'
    BY <1>4, <2>1 DEF SendOK
  <2>3. Unsent' = Unsent
    BY <1>4 DEF Unsent
  <2>4. Expected' = Len(replies[opened]) + At(Receiving) + Unsent
    <3>1. Len(replies[opened]) \in Nat /\ At(Receiving) \in Nat /\ Unsent \in {0, 1}
      BY ExpectedType
    <3>. QED BY <1>4, <1>7, <2>3, <3>1 DEF Expected
  <2>5. Expected' <= 1
    BY <2>1, <2>4, ExpectedType DEF MatchOK
  <2>6. MatchOK'
    BY <1>4, <2>1, <2>5 DEF MatchOK
  <2>7. NoForeign'
    BY <1>4, <1>7, <2>1 DEF NoForeign
  <2>. QED BY <2>2, <2>6, <2>7
<1>. QED BY <1>8, <1>9 DEF ReplyInv

(* A command is posted, or kept until the last send has been dispatched:     *)
(* nothing is expected when the client takes it.                             *)
LEMMA ReplySends ==
  ASSUME RedisInv, RedisInv', ReplyInv, NEW t \in RedisThreads, SendLater(t) \/ SendNow(t)
  PROVE  ReplyInv'
<1>1. /\ RedisTypeOK /\ StacksIn(frames) /\ socket \in {0, opened} /\ pendingIo \in Int
      /\ recvs \in Seq(Sockets) /\ sends \in Seq(SendRequests) /\ Parts \in Nat \ {0}
  BY RedisConstants DEF RedisInv, RedisTypeOK, ReplyInv, IoOK
<1>2. PICK h : h = Head(frames[t])
  OBVIOUS
<1>3. PICK c : c = Argument(t)
  OBVIOUS
<1>4. PICK p : p = <<"push", 0>>
  OBVIOUS
<1>5. /\ frames[t] # <<>> /\ h \in RedisFrames /\ h = <<"send", c>> /\ socket # 0 /\ callback = 0 /\ callback' = c
      /\ Proceed(t, <<>>) /\ Plain(p)
      /\ UNCHANGED <<socket, opened, parser, recvs, replies, answer, strayed>>
      /\ \/ nextSend' = c /\ UNCHANGED <<sending, sends, pendingIo>>
         \/ /\ sending = Nothing /\ sending' = [command |-> c, left |-> Parts]
            /\ sends' = Append(sends, Posted(c, Parts)) /\ pendingIo' = pendingIo + 1 /\ nextSend' = nextSend
  BY <1>1, <1>2, <1>3, <1>4, InPlace, PlainFrames DEF SendLater, SendNow, ioState
<1>6. h[1] = "send" /\ c \in Nat \ {0}
  BY <1>5, RedisConstants DEF RedisFrames, AllCommands
<1>7. /\ StacksIn(frames') /\ \A L : At(L) \in Nat
      /\ At(Uncounting)' = At(Uncounting) - Hits(h, Uncounting)
      /\ At(Posting)' = At(Posting) - Hits(h, Posting)
      /\ Registering' = Registering - Hits(h, {"register"} \X {0})
      /\ At(Receiving)' = At(Receiving) - Hits(h, Receiving)
      /\ At(Draining)' = At(Draining) - Hits(h, Draining)
      /\ At(Foreign)' = At(Foreign) - Hits(h, Foreign)
      /\ \A x \in Nat : At({<<"receipt", x>>})' = At({<<"receipt", x>>}) - Hits(h, {<<"receipt", x>>})
  BY <1>1, <1>2, <1>5, PlainProceeds
<1>8. /\ At(Uncounting)' = At(Uncounting) /\ At(Posting)' = At(Posting) /\ Registering' = Registering
      /\ At(Receiving)' = At(Receiving) /\ At(Draining)' = At(Draining) /\ At(Foreign)' = At(Foreign)
      /\ \A x \in Nat : At({<<"receipt", x>>})' = At({<<"receipt", x>>})
  BY <1>5, <1>6, <1>7, ReplyHits DEF Registering
<1>9. Posted(c, Parts).socket = opened /\ Posted(c, Parts).command = c
      /\ Posted(c, Parts).left = Parts /\ Posted(c, Parts).sent = 0
  BY <1>1, <1>5 DEF Posted
<1>10. IoOK'
  <2>1. CASE nextSend' = c /\ UNCHANGED <<sending, sends, pendingIo>>
    BY <1>5, <1>7, <1>8, <2>1 DEF ReplyInv, IoOK
  <2>2. CASE sends' = Append(sends, Posted(c, Parts)) /\ pendingIo' = pendingIo + 1
    <3>1. /\ Len(sends') = Len(sends) + 1 /\ Len(sends) \in Nat /\ Len(recvs) \in Nat
          /\ \A i \in 1..Len(sends) : sends'[i] = sends[i]
      BY <1>1, <2>2
    <3>2. sends'[Len(sends) + 1] = Posted(c, Parts)
      BY <1>1, <2>2
    <3>3. \A i \in 1..Len(sends') : sends'[i].socket = opened
      BY <1>9, <3>1, <3>2 DEF ReplyInv, IoOK
    <3>4. pendingIo' = Len(recvs') + Len(sends') + At(Uncounting)'
      BY <1>5, <1>7, <1>8, <2>2, <3>1 DEF ReplyInv, IoOK
    <3>. QED BY <1>5, <1>7, <1>8, <3>3, <3>4 DEF ReplyInv, IoOK
  <2>. QED BY <1>5, <2>1, <2>2
<1>11. ASSUME ~strayed PROVE SendOK' /\ MatchOK' /\ NoForeign'
  <2>1. SendOK /\ MatchOK /\ NoForeign
    BY <1>11 DEF ReplyInv
  <2>2. Expected = 0
    BY <1>5, <2>1 DEF MatchOK
  <2>3. Len(replies[opened]) = 0 /\ At(Receiving) = 0 /\ Unsent = 0 /\ nextSend = 0
    BY <2>2, ExpectedType
  <2>4. \A x \in Nat : At({<<"receipt", x>>})' = 0
    <3>1. \A x \in Nat : At({<<"receipt", x>>}) <= 0
      BY <1>1, <2>3, ReceivingAll
    <3>2. ASSUME NEW x \in Nat PROVE At({<<"receipt", x>>})' = 0
      <4>1. At({<<"receipt", x>>}) \in Nat
        BY <1>1, AtType
      <4>2. At({<<"receipt", x>>})' = At({<<"receipt", x>>})
        BY <1>8
      <4>3. At({<<"receipt", x>>}) <= 0
        BY <3>1
      <4>. QED BY ONLY <4>1, <4>2, <4>3
    <3>. QED BY <3>2
  <2>5. NoForeign'
    BY <1>5, <1>8, <2>1 DEF NoForeign
  <2>6. CASE nextSend' = c /\ UNCHANGED <<sending, sends, pendingIo>>
    <3>1. SendOK'
      BY <1>5, <2>1, <2>6 DEF SendOK
    <3>2. Unsent' = 0
      BY <2>3, <2>6 DEF Unsent
    <3>3. Expected' = 1
      BY <1>5, <1>6, <1>8, <2>3, <2>6, <3>2 DEF Expected
    <3>4. MatchOK'
      BY <1>5, <1>6, <2>3, <2>4, <2>6, <3>2, <3>3 DEF MatchOK
    <3>. QED BY <2>5, <3>1, <3>4
  <2>7. CASE /\ sending = Nothing /\ sending' = [command |-> c, left |-> Parts]
             /\ sends' = Append(sends, Posted(c, Parts)) /\ nextSend' = nextSend
    <3>1. sends = <<>>
      BY <1>5, <2>1, <2>7 DEF SendOK
    <3>2. Len(sends') = 1 /\ sends' # <<>> /\ sends'[1] = Posted(c, Parts)
      BY <2>7, <3>1
    <3>3. SendOK'
      BY <1>1, <1>6, <1>9, <2>7, <3>2 DEF SendOK, Nothing
    <3>4. Unsent' = 1
      BY <1>1, <1>9, <3>2 DEF Unsent
    <3>5. Expected' = 1
      BY <1>5, <1>8, <2>3, <2>7, <3>4 DEF Expected
    <3>6. MatchOK'
      BY <1>5, <1>6, <1>9, <2>3, <2>4, <2>7, <3>2, <3>4, <3>5 DEF MatchOK
    <3>. QED BY <2>5, <3>3, <3>6
  <2>. QED BY <1>5, <2>6, <2>7
<1>. QED BY <1>5, <1>10, <1>11 DEF ReplyInv

(* The reply that is received is the one that was expected.                  *)
LEMMA ReplyReceived ==
  ASSUME RedisInv, RedisInv', ReplyInv, NEW t \in RedisThreads, OnReceiptResponse(t)
  PROVE  ReplyInv'
<1>1. RedisTypeOK /\ StacksIn(frames) /\ callback \in {0} \union AllCommands
  BY DEF RedisInv, RedisTypeOK, ReplyInv, IoOK
<1>2. PICK h : h = Head(frames[t])
  OBVIOUS
<1>3. PICK n : n = Argument(t)
  OBVIOUS
<1>4. PICK a : a = <<"callback", <<callback, IF n = callback THEN "own" ELSE "foreign">>>>
  OBVIOUS
<1>5. /\ frames[t] # <<>> /\ h \in RedisFrames /\ h = <<"receipt", n>> /\ callback' = 0
      /\ IF callback = 0 THEN Proceed(t, <<>>) ELSE Proceed(t, <<a>>)
      /\ UNCHANGED <<socket, opened, parser, recvs, sends, pendingIo, sending, nextSend, replies, answer, strayed>>
  BY <1>1, <1>2, <1>3, <1>4, InPlace DEF OnReceiptResponse, ioState
<1>6. h[1] = "receipt" /\ h[2] = n /\ n \in Nat
  BY <1>5 DEF RedisFrames
<1>7. /\ Hits(h, Uncounting) = 0 /\ Hits(h, Posting) = 0 /\ Hits(h, {"register"} \X {0}) = 0
      /\ Hits(h, Draining) = 0 /\ Hits(h, Foreign) = 0 /\ Hits(h, Receiving) = 1
      /\ Hits(h, {<<"receipt", n>>}) = 1
  BY <1>5, <1>6, ReplyHits
<1>8. callback # 0 => a \in RedisFrames /\ a[1] = "callback" /\ a[2][2] = (IF n = callback THEN "own" ELSE "foreign")
  BY <1>1, <1>4 DEF RedisFrames, Told
<1>9. callback # 0 => /\ Hits(a, Uncounting) = 0 /\ Hits(a, Posting) = 0 /\ Hits(a, {"register"} \X {0}) = 0
                      /\ Hits(a, Receiving) = 0 /\ Hits(a, Draining) = 0
                      /\ n = callback => Hits(a, Foreign) = 0
                      /\ \A t2, h2 : Fits(t2, h2, a)
                      /\ a \notin Outermost
  BY <1>8, ReplyHits DEF Fits
<1>10. PICK p : p = <<"push", 0>> /\ Plain(p)
  BY PlainFrames
<1>11. p \in RedisFrames /\ \A t2, h2 : Fits(t2, h2, p)
  BY <1>10, PlainFits
<1>12. StacksIn(frames')
  <2>1. CASE callback = 0
    BY <1>1, <1>2, <1>5, <1>11, <2>1, FormProceeds
  <2>2. CASE callback # 0
    BY <1>1, <1>2, <1>5, <1>9, <2>2, FormProceeds
  <2>. QED BY <2>1, <2>2
<1>13. \A L : At(L) \in Nat /\ At(L) >= Hits(h, L)
  BY <1>1, <1>2, <1>5, <1>11, AtType, Proceeds
<1>14. \A L : (callback # 0 => Hits(a, L) = 0) => At(L)' = At(L) - Hits(h, L)
  <2>1. CASE callback = 0
    BY <1>1, <1>2, <1>5, <1>11, <2>1, Proceeds
  <2>2. CASE callback # 0
    <3>1. a \in RedisFrames /\ frames[t] # <<>> /\ Proceed(t, <<a>>)
      BY <1>5, <1>8, <2>2
    <3>2. \A L : At(L)' = At(L) - Hits(Head(frames[t]), L) + Hits(a, L)
      BY <1>1, <3>1, Proceeds
    <3>3. \A L : At(L)' = At(L) - Hits(h, L) + Hits(a, L)
      BY <1>2, <3>2
    <3>4. \A L : Hits(h, L) \in Nat
      BY DEF Hits
    <3>. QED BY <1>13, <2>2, <3>3, <3>4
  <2>. QED BY <2>1, <2>2
<1>15. /\ At(Uncounting)' = At(Uncounting) /\ At(Posting)' = At(Posting)
       /\ At({"register"} \X {0})' = At({"register"} \X {0}) /\ At(Draining)' = At(Draining)
       /\ At(Receiving)' = At(Receiving) - 1 /\ At(Receiving) >= 1
  BY <1>7, <1>9, <1>13, <1>14
<1>16. IoOK'
  BY <1>5, <1>12, <1>15 DEF ReplyInv, IoOK, Registering
<1>17. ASSUME ~strayed PROVE SendOK' /\ MatchOK' /\ NoForeign'
  <2>1. SendOK /\ MatchOK /\ NoForeign
    BY <1>17 DEF ReplyInv
  <2>2. SendOK' /\ Unsent' = Unsent
    BY <1>5, <2>1 DEF SendOK, Unsent
  <2>3. Expected <= 1
    BY <2>1 DEF MatchOK
  <2>4. /\ Len(replies[opened]) = 0 /\ At(Receiving) = 1 /\ Unsent = 0 /\ nextSend = 0
    BY <1>15, <2>3, ExpectedType
  <2>5. At(Receiving)' = 0
    BY <1>15, <2>4
  <2>6. Expected' = 0
    BY <1>5, <2>2, <2>4, <2>5 DEF Expected
  <2>7. MatchOK'
    BY <1>5, <2>2, <2>4, <2>6 DEF MatchOK
  <2>8. callback \in {0, n}
    <3>1. At({<<"receipt", n>>}) > 0
      BY <1>7, <1>13
    <3>. QED BY <1>6, <2>1, <3>1 DEF MatchOK
  <2>9. At(Foreign)' = At(Foreign)
    BY <1>7, <1>9, <1>13, <1>14, <2>8
  <2>10. NoForeign'
    BY <1>5, <2>1, <2>9 DEF NoForeign
  <2>. QED BY <2>2, <2>7, <2>10
<1>. QED BY <1>5, <1>16, <1>17 DEF ReplyInv

(* A send has come to its end.                                               *)
LEMMA ReplySendEnds ==
  ASSUME RedisInv, RedisInv', ReplyInv, NEW t \in RedisThreads, SendZero(t) \/ SendEnds(t)
  PROVE  ReplyInv'
<1>1. /\ RedisTypeOK /\ StacksIn(frames) /\ socket \in {0, opened} /\ pendingIo \in Int
      /\ recvs \in Seq(Sockets) /\ sends \in Seq(SendRequests)
  BY DEF RedisInv, RedisTypeOK, ReplyInv, IoOK
<1>2. PICK x, u : x = <<"exchange", 0>> /\ u = <<"uncount", 0>>
  OBVIOUS
<1>3. /\ sends # <<>> /\ sends' = Tail(sends)
      /\ UNCHANGED <<socket, opened, parser, recvs, callback, nextSend, replies, answer, strayed>>
      /\ \/ frames[t] = <<>> /\ Begin(t, <<x, u>>) /\ pendingIo' = pendingIo
         \/ frames' = frames /\ pendingIo' = pendingIo - 1
  BY <1>2 DEF SendZero, SendEnds, Idle, commandState
<1>4. x \in RedisFrames /\ u \in RedisFrames /\ Quiet(x) /\ x \notin Outermost /\ u[1] = "uncount"
  BY <1>2, OtherFrames, SilentFrames DEF Silent, Quiet
<1>5. u \in Uncounting
  BY <1>2 DEF Uncounting
<1>6. \A L : At(L) \in Nat
  BY <1>1, AtType
<1>7. /\ Len(sends') = Len(sends) - 1 /\ Len(sends) \in Nat \ {0} /\ Len(recvs) \in Nat
      /\ \A i \in 1..(Len(sends) - 1) : sends'[i] = sends[i + 1]
  BY <1>1, <1>3
<1>8. /\ StacksIn(frames')
      /\ At(Posting)' = At(Posting) /\ At({"register"} \X {0})' = At({"register"} \X {0})
      /\ At(Receiving)' = At(Receiving) /\ At(Draining)' = At(Draining) /\ At(Foreign)' = At(Foreign)
      /\ \A c \in Nat : At({<<"receipt", c>>})' = At({<<"receipt", c>>})
      /\ pendingIo' - At(Uncounting)' = pendingIo - At(Uncounting) - 1
  <2>1. CASE frames[t] = <<>> /\ Begin(t, <<x, u>>) /\ pendingIo' = pendingIo
    <3>1. StacksIn(frames')
      BY <1>1, <1>4, <1>5, <2>1, FormBegins
    <3>2. \A L : At(L)' = At(L) + Hits(u, L) + Hits(x, L)
      BY <1>1, <1>4, <2>1, Begins
    <3>3. \A L : Hits(u, L) = 0 /\ Hits(x, L) = 0 => At(L)' = At(L)
      BY <1>6, <3>2
    <3>4. /\ Hits(u, Uncounting) = 1 /\ Hits(u, Posting) = 0 /\ Hits(u, {"register"} \X {0}) = 0
          /\ Hits(u, Receiving) = 0 /\ Hits(u, Draining) = 0 /\ Hits(u, Foreign) = 0
          /\ \A c \in Nat : Hits(u, {<<"receipt", c>>}) = 0
      BY <1>4, ReplyHits
    <3>5. At(Uncounting)' = At(Uncounting) + 1 /\ At(Uncounting) \in Nat
      BY <1>4, <1>6, <3>2, <3>4, QuietHits
    <3>6. pendingIo' - At(Uncounting)' = pendingIo - At(Uncounting) - 1
      BY <1>1, <2>1, <3>5
    <3>. QED BY <1>4, <3>1, <3>3, <3>4, <3>6, QuietHits
  <2>2. CASE frames' = frames /\ pendingIo' = pendingIo - 1
    <3>1. \A L : At(L)' = At(L)
      BY <2>2 DEF At
    <3>2. At(Uncounting) \in Nat
      BY <1>6
    <3>. QED BY <1>1, <2>2, <3>1, <3>2
  <2>. QED BY <1>3, <2>1, <2>2
<1>9. IoOK'
  <2>1. \A i \in 1..Len(sends') : sends'[i].socket = opened
    BY <1>7 DEF ReplyInv, IoOK
  <2>2. pendingIo' = Len(recvs') + Len(sends') + At(Uncounting)'
    <3>1. pendingIo = Len(recvs) + Len(sends) + At(Uncounting) /\ Len(recvs') = Len(recvs)
      BY <1>3 DEF ReplyInv, IoOK
    <3>2. At(Uncounting)' \in Nat
      <4>1. CountOf(frames', Uncounting) \in Nat
        BY ThreadsFinite, CountType DEF RedisInv, RedisTypeOK
      <4>. QED BY <4>1 DEF At
    <3>3. pendingIo' \in Int
      BY <1>1, <1>3
    <3>4. /\ Len(sends') = Len(sends) - 1 /\ Len(sends) \in Nat /\ Len(recvs) \in Nat
          /\ pendingIo' - At(Uncounting)' = pendingIo - At(Uncounting) - 1 /\ At(Uncounting) \in Nat /\ pendingIo \in Int
      BY <1>1, <1>6, <1>7, <1>8
    <3>. QED BY ONLY <3>1, <3>2, <3>3, <3>4
  <2>. QED BY <1>3, <1>8, <2>1, <2>2 DEF ReplyInv, IoOK, Registering
<1>10. ASSUME ~strayed PROVE SendOK' /\ MatchOK' /\ NoForeign'
  <2>1. SendOK /\ MatchOK /\ NoForeign
    BY <1>10 DEF ReplyInv
  <2>2. Len(sends') = 0
    BY <1>7, <2>1 DEF SendOK
  <2>3. sends' = <<>>
    BY <1>1, <1>3, <2>2
  <2>4. SendOK' /\ Unsent' = 0
    BY <2>2, <2>3 DEF SendOK, Unsent
  <2>5. Expected' = Len(replies[opened]) + At(Receiving) + (IF nextSend = 0 THEN 0 ELSE 1)
    <3>1. Len(replies[opened]) \in Nat /\ At(Receiving) \in Nat /\ nextSend \in Nat
      BY ExpectedType
    <3>. QED BY <1>3, <1>8, <2>4, <3>1 DEF Expected
  <2>6. Expected' <= Expected /\ Expected' \in Nat /\ Expected \in Nat
    BY <2>5, ExpectedType
  <2>7. MatchOK'
    <3>1. Expected' <= 1 /\ (callback' = 0 /\ socket' # 0 => Expected' = 0)
      BY <1>3, <2>1, <2>6 DEF MatchOK
    <3>2. /\ nextSend' \in {0, callback'}
          /\ \A i \in 1..Len(replies'[opened']) : callback' \in {0, replies'[opened'][i].command}
      BY <1>3, <2>1 DEF MatchOK
    <3>3. \A c \in Nat : At({<<"receipt", c>>})' > 0 => callback' \in {0, c}
      BY <1>3, <1>8, <2>1 DEF MatchOK
    <3>. QED BY <2>4, <3>1, <3>2, <3>3 DEF MatchOK
  <2>8. NoForeign'
    BY <1>3, <1>8, <2>1 DEF NoForeign
  <2>. QED BY <2>4, <2>7, <2>8
<1>. QED BY <1>3, <1>9, <1>10 DEF ReplyInv

(* A send goes on: with the rest of its command, or with the one that waits. *)
LEMMA ReplySendGoesOn ==
  ASSUME RedisInv, RedisInv', ReplyInv, NEW t \in RedisThreads, SendGoesOn(t)
  PROVE  ReplyInv'
<1>1. /\ RedisTypeOK /\ StacksIn(frames) /\ socket \in {0, opened} /\ opened \in Nat \ {0} /\ pendingIo \in Int
      /\ recvs \in Seq(Sockets) /\ sends \in Seq(SendRequests) /\ Parts \in Nat \ {0}
      /\ sending \in [command : Nat, left : Nat] /\ nextSend \in Nat
  <2>1. RedisTypeOK /\ StacksIn(frames)
    BY DEF RedisInv, ReplyInv, IoOK
  <2>2. opened \in Nat \ {0} /\ Parts \in Nat \ {0}
    BY <2>1, RedisConstants DEF RedisTypeOK, Sockets
  <2>. QED BY <2>1, <2>2 DEF RedisTypeOK
<1>2. PICK s : s = Head(sends)
  OBVIOUS
<1>3. PICK more : more = ToSend(s.sent)
  OBVIOUS
<1>4. PICK x : x = <<"exchange", opened>>
  OBVIOUS
<1>5. PICK d : d = Posted(more.command, more.left)
  OBVIOUS
<1>6. /\ frames[t] = <<>> /\ sends # <<>> /\ s.sent > 0 /\ sending # Nothing /\ more # Nothing /\ sending' = more
      /\ nextSend' = IF sending.left > s.sent THEN nextSend ELSE 0
      /\ \/ /\ socket # 0 /\ sends' = Append(Tail(sends), d)
            /\ UNCHANGED <<pendingIo, frames>>
         \/ /\ sends' = Tail(sends) /\ pendingIo' = pendingIo - 1 /\ Begin(t, <<<<"exchange", s.socket>>>>)
      /\ UNCHANGED <<socket, opened, parser, recvs, callback, replies, answer, strayed>>
  BY <1>2, <1>3, <1>5 DEF SendGoesOn, Idle
<1>7. s = sends[1] /\ s \in SendRequests /\ Len(sends) \in Nat \ {0} /\ Len(recvs) \in Nat /\ Tail(sends) \in Seq(SendRequests)
      /\ Len(Tail(sends)) = Len(sends) - 1 /\ \A i \in 1..(Len(sends) - 1) : Tail(sends)[i] = sends[i + 1]
  BY <1>1, <1>2, <1>6
<1>8. s.socket = opened /\ \A i \in 1..(Len(sends) - 1) : Tail(sends)[i].socket = opened
  BY <1>7 DEF ReplyInv, IoOK
<1>9. \A L : At(L) \in Nat
  BY <1>1, AtType
<1>10. CASE socket # 0 /\ sends' = Append(Tail(sends), d) /\ UNCHANGED <<pendingIo, frames>>
  <2>1. d.socket = opened /\ d.command = more.command /\ d.left = more.left /\ d.sent = 0
    BY <1>1, <1>5, <1>10 DEF Posted
  <2>2. /\ Len(sends') = Len(sends) /\ sends'[Len(sends)] = d
        /\ \A i \in 1..(Len(sends) - 1) : sends'[i] = Tail(sends)[i]
    BY <1>7, <1>10
  <2>3. \A i \in 1..Len(sends') : sends'[i].socket = opened
    BY <1>7, <1>8, <2>1, <2>2
  <2>4. \A L : At(L)' = At(L)
    BY <1>10 DEF At
  <2>5. IoOK'
    BY <1>6, <1>10, <2>2, <2>3, <2>4 DEF ReplyInv, IoOK, Registering
  <2>6. ASSUME ~strayed PROVE SendOK' /\ MatchOK' /\ NoForeign'
    <3>1. SendOK /\ MatchOK /\ NoForeign
      BY <2>6 DEF ReplyInv
    <3>2. /\ Len(sends) = 1 /\ sending = [command |-> s.command, left |-> s.left]
          /\ s.left > 0 /\ s.sent <= s.left /\ s.left \in Nat /\ s.sent \in Nat
      BY <1>6, <1>7, <3>1 DEF SendOK, SendRequests
    <3>3. Len(sends') = 1 /\ sends' # <<>> /\ sends'[1] = d
      <4>1. Len(sends') = 1 /\ sends'[1] = d
        BY <2>2, <3>2
      <4>. QED BY <4>1
    <3>4. /\ more.left > 0 /\ more.left \in Nat /\ more = [command |-> more.command, left |-> more.left]
          /\ IF s.left > s.sent THEN more.command = s.command ELSE more.command = nextSend /\ nextSend # 0
      BY <1>1, <1>3, <1>6, <3>2 DEF ToSend
    <3>5. SendOK'
      BY <1>6, <2>1, <3>3, <3>4 DEF SendOK
    <3>6. Unsent' = 1
      BY <2>1, <3>3, <3>4 DEF Unsent
    <3>7. sending.left = s.left /\ Unsent = (IF s.sent < s.left THEN 1 ELSE 0)
      BY <1>6, <1>7, <3>2 DEF Unsent
    <3>8. Unsent' + (IF nextSend' = 0 THEN 0 ELSE 1) = Unsent + (IF nextSend = 0 THEN 0 ELSE 1)
      BY <1>6, <3>2, <3>4, <3>6, <3>7
    <3>9. Expected' = Expected
      <4>1. /\ Expected' = Len(replies[opened]) + At(Receiving) + Unsent' + (IF nextSend' = 0 THEN 0 ELSE 1)
        BY <1>6, <2>4 DEF Expected
      <4>. QED BY <3>6, <3>8, <4>1, ExpectedType
    <3>10. callback' \in {0, sends'[1].command}
      <4>1. CASE s.left > s.sent
        <5>1. Unsent = 1 /\ more.command = s.command
          BY <3>2, <3>4, <3>7, <4>1
        <5>2. callback \in {0, s.command}
          BY <1>7, <3>1, <5>1 DEF MatchOK
        <5>. QED BY <1>6, <2>1, <3>3, <5>1, <5>2
      <4>2. CASE ~(s.left > s.sent)
        <5>1. more.command = nextSend /\ nextSend # 0
          BY <3>4, <4>2
        <5>2. callback = nextSend
          BY <3>1, <5>1 DEF MatchOK
        <5>. QED BY <1>6, <2>1, <3>3, <5>1, <5>2
      <4>. QED BY <4>1, <4>2
    <3>11. MatchOK'
      <4>1. Expected' <= 1 /\ (callback' = 0 /\ socket' # 0 => Expected' = 0)
        BY <1>6, <3>1, <3>9 DEF MatchOK
      <4>2. /\ nextSend' \in {0, callback'}
            /\ \A i \in 1..Len(replies'[opened']) : callback' \in {0, replies'[opened'][i].command}
        BY <1>6, <3>1 DEF MatchOK
      <4>3. \A c \in Nat : At({<<"receipt", c>>})' > 0 => callback' \in {0, c}
        BY <1>6, <2>4, <3>1 DEF MatchOK
      <4>. QED BY <3>10, <4>1, <4>2, <4>3 DEF MatchOK
    <3>12. NoForeign'
      BY <1>6, <2>4, <3>1 DEF NoForeign
    <3>. QED BY <3>5, <3>11, <3>12
  <2>. QED BY <1>6, <2>5, <2>6 DEF ReplyInv
<1>11. CASE sends' = Tail(sends) /\ pendingIo' = pendingIo - 1 /\ Begin(t, <<<<"exchange", s.socket>>>>)
  <2>1. Begin(t, <<x>>) /\ x[1] = "exchange" /\ x[2] = opened
    BY <1>4, <1>8, <1>11
  <2>2. Quiet(x) /\ x \in RedisFrames /\ x \notin OfCompletion
    <3>1. Quiet(x) /\ x \in RedisFrames
      BY <1>1, <1>4, OtherFrames DEF Quiet
    <3>. QED BY <1>1, <2>1, <3>1, ReplyHits
  <2>3. StacksIn(frames')
    BY <1>1, <1>6, <2>1, <2>2, FormBegins
  <2>4. \A L : At(L)' = At(L) + Hits(x, L)
    BY <1>1, <1>6, <2>1, <2>2, Begins
  <2>5. \A L : Hits(x, L) = 0 => At(L)' = At(L)
    BY <1>9, <2>4
  <2>6. /\ At(Uncounting)' = At(Uncounting) /\ At(Posting)' = At(Posting)
        /\ At({"register"} \X {0})' = At({"register"} \X {0})
        /\ At(Receiving)' = At(Receiving) /\ At(Draining)' = At(Draining) /\ At(Foreign)' = At(Foreign)
        /\ \A c \in Nat : At({<<"receipt", c>>})' = At({<<"receipt", c>>})
    BY <2>2, <2>5, QuietHits
  <2>7. IoOK'
    <3>1. pendingIo' = Len(recvs') + Len(sends') + At(Uncounting)'
      <4>1. pendingIo = Len(recvs) + Len(sends) + At(Uncounting) /\ At(Uncounting) \in Nat
        BY <1>9 DEF ReplyInv, IoOK
      <4>2. /\ Len(sends') = Len(sends) - 1 /\ Len(sends) \in Nat /\ Len(recvs) \in Nat /\ Len(recvs') = Len(recvs)
            /\ pendingIo' = pendingIo - 1 /\ At(Uncounting)' = At(Uncounting)
        BY <1>6, <1>7, <1>11, <2>6
      <4>. QED BY ONLY <4>1, <4>2
    <3>2. \A i \in 1..Len(sends') : sends'[i].socket = opened
      BY <1>7, <1>8, <1>11
    <3>. QED BY <1>6, <2>3, <2>6, <3>1, <3>2 DEF ReplyInv, IoOK, Registering
  <2>8. ASSUME ~strayed PROVE SendOK' /\ MatchOK' /\ NoForeign'
    <3>1. SendOK /\ MatchOK /\ NoForeign
      BY <2>8 DEF ReplyInv
    <3>2. Len(sends') = 0
      BY <1>7, <1>11, <3>1 DEF SendOK
    <3>3. sends' = <<>>
      BY <1>7, <1>11, <3>2, EmptyIs
    <3>4. SendOK' /\ Unsent' = 0
      BY <3>2, <3>3 DEF SendOK, Unsent
    <3>5. nextSend' \in {nextSend, 0}
      BY <1>6
    <3>6. Expected' <= Expected /\ Expected' \in Nat /\ Expected \in Nat
      <4>1. Expected' = Len(replies[opened]) + At(Receiving) + (IF nextSend' = 0 THEN 0 ELSE 1)
        <5>1. Len(replies[opened]) \in Nat /\ At(Receiving) \in Nat
          BY ExpectedType
        <5>. QED BY <1>6, <2>6, <3>4, <5>1 DEF Expected
      <4>. QED BY <3>5, <4>1, ExpectedType
    <3>7. MatchOK'
      <4>1. Expected' <= 1 /\ (callback' = 0 /\ socket' # 0 => Expected' = 0)
        BY <1>6, <3>1, <3>6 DEF MatchOK
      <4>2. /\ nextSend' \in {0, callback'}
            /\ \A i \in 1..Len(replies'[opened']) : callback' \in {0, replies'[opened'][i].command}
        BY <1>6, <3>1 DEF MatchOK
      <4>3. \A c \in Nat : At({<<"receipt", c>>})' > 0 => callback' \in {0, c}
        BY <1>6, <2>6, <3>1 DEF MatchOK
      <4>. QED BY <3>4, <4>1, <4>2, <4>3 DEF MatchOK
    <3>8. NoForeign'
      BY <1>6, <2>6, <3>1 DEF NoForeign
    <3>. QED BY <3>4, <3>7, <3>8
  <2>. QED BY <1>6, <2>7, <2>8 DEF ReplyInv
<1>. QED BY <1>6, <1>10, <1>11

LEMMA PutBack ==
  ASSUME NEW S, NEW s \in Seq(S), NEW a \in S
  PROVE  /\ Len(<<a>> \o s) = 1 + Len(s) /\ (<<a>> \o s)[1] = a
         /\ \A i \in 2..(Len(s) + 1) : (<<a>> \o s)[i] = s[i - 1]
<1>1. /\ <<a>> \in Seq(S) /\ Len(<<a>>) = 1 /\ <<a>> \o s \in Seq(S)
      /\ Len(<<a>> \o s) = Len(s) + 1 /\ Len(s) \in Nat
  OBVIOUS
<1>. QED BY <1>1

(* Bytes are received: of the present connection, and of a reply of it that  *)
(* is whole, begun, or completed.                                            *)
LEMMA ReplyReads ==
  ASSUME RedisInv, RedisInv', ReplyInv, NEW w \in RedisThreads, ProcessRecv(w)
  PROVE  ReplyInv'
<1>1. /\ RedisTypeOK /\ StacksIn(frames) /\ recvs \in Seq(Sockets) /\ sends \in Seq(SendRequests) /\ pendingIo \in Int
      /\ opened \in Sockets /\ replies \in [Sockets -> Seq(Replies)] /\ parser \in {0, opened}
  BY DEF RedisInv, RedisTypeOK, ReplyInv, IoOK
<1>2. PICK reply : reply = Head(replies[opened])
  OBVIOUS
<1>3. PICK n : n = reply.command
  OBVIOUS
<1>4. PICK x, p, r, u : x = <<"exchange", 0>> /\ p = <<"post", 0>> /\ r = <<"receipt", n>> /\ u = <<"uncount", 0>>
  OBVIOUS
<1>5. recvs # <<>> => Head(recvs) = opened
  BY <1>1 DEF ReplyInv, IoOK
<1>6. PICK piece \in {"rest", "whole", "first"} :
        /\ frames[w] = <<>> /\ recvs # <<>> /\ replies[opened] # <<>> /\ recvs' = Tail(recvs)
        /\ replies' = [replies EXCEPT ![opened] =
             IF piece = "first" THEN <<[reply EXCEPT !.begun = TRUE]>> \o Tail(@) ELSE Tail(@)]
        /\ parser' = IF piece = "first" /\ parser \in {0, opened} THEN opened ELSE 0
        /\ Begin(w, Receipts(opened, n, piece) \o <<u>>)
        /\ UNCHANGED <<socket, opened, sends, pendingIo, callback, sending, nextSend, answer, strayed>>
  BY <1>2, <1>3, <1>4, <1>5 DEF ProcessRecv, Idle, commandState
<1>7. \/ piece # "first" /\ Begin(w, <<x, u>>)
      \/ piece = "first" /\ Begin(w, <<p, u>>)
      \/ piece # "first" /\ Begin(w, <<r, p, u>>)
  <2>1. \/ piece # "first" /\ Receipts(opened, n, piece) = <<x>>
        \/ piece = "first" /\ Receipts(opened, n, piece) = <<p>>
        \/ piece # "first" /\ Receipts(opened, n, piece) = <<r, p>>
    BY <1>1, <1>4 DEF Receipts
  <2>2. <<x>> \o <<u>> = <<x, u>> /\ <<p>> \o <<u>> = <<p, u>> /\ <<r, p>> \o <<u>> = <<r, p, u>>
    BY ThreeCalls
  <2>. QED BY <1>6, <2>1, <2>2
<1>8. reply \in Replies /\ n \in Nat /\ reply = replies[opened][1] /\ Len(replies[opened]) \in Nat \ {0}
      /\ Tail(replies[opened]) \in Seq(Replies) /\ Len(Tail(replies[opened])) = Len(replies[opened]) - 1
      /\ \A i \in 1..(Len(replies[opened]) - 1) : Tail(replies[opened])[i] = replies[opened][i + 1]
  <2>1. replies[opened] \in Seq(Replies)
    BY <1>1
  <2>2. reply \in Replies
    BY <1>2, <1>6, <2>1, QueueOps
  <2>. QED BY <1>2, <1>3, <1>6, <2>1, <2>2 DEF Replies
<1>9. /\ x \in RedisFrames /\ p \in RedisFrames /\ r \in RedisFrames /\ u \in RedisFrames
      /\ x[1] = "exchange" /\ p[1] = "post" /\ r[1] = "receipt" /\ r[2] = n /\ u[1] = "uncount" /\ u \in Uncounting
  BY <1>4, <1>8, SilentFrames DEF Silent, Uncounting
<1>10. x \notin Outermost /\ p \notin Outermost /\ r \notin Outermost
  BY <1>9, ReplyHits
<1>11. StacksIn(frames')
  BY <1>1, <1>6, <1>7, <1>9, <1>10, FormBegins
<1>12. \A L : At(L) \in Nat
  BY <1>1, AtType
<1>13. /\ Begin(w, <<x, u>>) => \A L : At(L)' = At(L) + Hits(u, L) + Hits(x, L)
       /\ Begin(w, <<p, u>>) => \A L : At(L)' = At(L) + Hits(u, L) + Hits(p, L)
       /\ Begin(w, <<r, p, u>>) => \A L : At(L)' = At(L) + Hits(u, L) + Hits(p, L) + Hits(r, L)
  <2>1. RedisTypeOK /\ frames[w] = <<>> /\ x \in RedisFrames /\ p \in RedisFrames /\ r \in RedisFrames /\ u \in RedisFrames
    BY <1>1, <1>6, <1>9
  <2>2. Begin(w, <<x, u>>) => \A L : At(L)' = At(L) + Hits(u, L) + Hits(x, L)
    BY ONLY <2>1, Begins
  <2>3. Begin(w, <<p, u>>) => \A L : At(L)' = At(L) + Hits(u, L) + Hits(p, L)
    BY ONLY <2>1, Begins
  <2>4. Begin(w, <<r, p, u>>) => \A L : At(L)' = At(L) + Hits(u, L) + Hits(p, L) + Hits(r, L)
    <3>1. RedisTypeOK /\ frames[w] = <<>> /\ w \in RedisThreads
      BY <2>1
    <3>2. r \in RedisFrames
      BY <2>1
    <3>3. p \in RedisFrames
      BY <2>1
    <3>4. u \in RedisFrames
      BY <2>1
    <3>. QED BY ONLY <3>1, <3>2, <3>3, <3>4, Begins
  <2>. QED BY ONLY <2>2, <2>3, <2>4
<1>14. /\ Hits(x, Uncounting) = 0 /\ Hits(p, Uncounting) = 0 /\ Hits(r, Uncounting) = 0 /\ Hits(u, Uncounting) = 1
       /\ Hits(x, Posting) = 0 /\ Hits(p, Posting) = 1 /\ Hits(r, Posting) = 0 /\ Hits(u, Posting) = 0
       /\ Hits(x, {"register"} \X {0}) = 0 /\ Hits(p, {"register"} \X {0}) = 0
       /\ Hits(r, {"register"} \X {0}) = 0 /\ Hits(u, {"register"} \X {0}) = 0
       /\ Hits(x, Draining) = 0 /\ Hits(p, Draining) = 0 /\ Hits(r, Draining) = 0 /\ Hits(u, Draining) = 0
       /\ Hits(x, Foreign) = 0 /\ Hits(p, Foreign) = 0 /\ Hits(r, Foreign) = 0 /\ Hits(u, Foreign) = 0
       /\ Hits(x, Receiving) = 0 /\ Hits(p, Receiving) = 0 /\ Hits(r, Receiving) = 1 /\ Hits(u, Receiving) = 0
  BY <1>9, ReplyHits
<1>15. /\ At(Uncounting)' = At(Uncounting) + 1 /\ At(Posting)' \in {At(Posting), At(Posting) + 1}
       /\ At({"register"} \X {0})' = At({"register"} \X {0})
       /\ At(Draining)' = At(Draining) /\ At(Foreign)' = At(Foreign)
       /\ At(Receiving)' \in {At(Receiving), At(Receiving) + 1}
       /\ piece = "first" => At(Receiving)' = At(Receiving)
  BY <1>7, <1>12, <1>13, <1>14
<1>16. ASSUME NEW c \in Nat
       PROVE  At({<<"receipt", c>>})' > 0 => At({<<"receipt", c>>}) > 0 \/ (c = n /\ piece # "first")
  <2>1. /\ Hits(x, {<<"receipt", c>>}) = 0 /\ Hits(p, {<<"receipt", c>>}) = 0 /\ Hits(u, {<<"receipt", c>>}) = 0
        /\ Hits(r, {<<"receipt", c>>}) = IF n = c THEN 1 ELSE 0
    BY <1>9, ReplyHits
  <2>. QED BY <1>7, <1>12, <1>13, <2>1
<1>17. /\ Len(recvs') = Len(recvs) - 1 /\ Len(recvs) \in Nat \ {0} /\ Len(sends) \in Nat
       /\ \A i \in 1..(Len(recvs) - 1) : recvs'[i] = recvs[i + 1]
  BY <1>1, <1>6
<1>18. IoOK'
  <2>1. /\ pendingIo = Len(recvs) + Len(sends) + At(Uncounting)
        /\ Len(recvs) + At(Posting) + Registering <= 1
    BY DEF ReplyInv, IoOK
  <2>2. /\ Len(recvs') = Len(recvs) - 1 /\ Len(recvs) \in Nat /\ Len(sends) \in Nat /\ Len(sends') = Len(sends)
        /\ pendingIo' = pendingIo /\ Registering' = Registering /\ Registering \in Nat
        /\ At(Posting) \in Nat /\ At(Uncounting) \in Nat
    BY <1>6, <1>12, <1>15, <1>17 DEF Registering
  <2>3. /\ pendingIo' = Len(recvs') + Len(sends') + At(Uncounting)'
        /\ Len(recvs') + At(Posting)' + Registering' <= 1
    BY ONLY <1>15, <2>1, <2>2
  <2>4. \A i \in 1..Len(recvs') : recvs'[i] = opened
    BY <1>17 DEF ReplyInv, IoOK
  <2>5. \A k \in Sockets : k > opened => replies'[k] = <<>>
    BY <1>1, <1>6 DEF ReplyInv, IoOK, Sockets
  <2>6. At(Draining)' > 0 => socket = 0
    BY <1>15 DEF ReplyInv, IoOK
  <2>. QED BY <1>6, <1>11, <2>3, <2>4, <2>5, <2>6 DEF ReplyInv, IoOK
<1>19. ASSUME ~strayed PROVE SendOK' /\ MatchOK' /\ NoForeign'
  <2>1. SendOK /\ MatchOK /\ NoForeign
    BY <1>19 DEF ReplyInv
  <2>2. SendOK' /\ Unsent' = Unsent
    BY <1>6, <2>1 DEF SendOK, Unsent
  <2>3. PICK m : m = Len(replies[opened])
    OBVIOUS
  <2>4. /\ m \in Nat \ {0} /\ Len(replies'[opened]) = IF piece = "first" THEN m ELSE m - 1
        /\ \A i \in 1..Len(replies'[opened]) : \E j \in 1..m : replies'[opened][i].command = replies[opened][j].command
    <3>1. CASE piece = "first"
      <4>1. [reply EXCEPT !.begun = TRUE] \in Replies /\ [reply EXCEPT !.begun = TRUE].command = reply.command
        BY <1>8 DEF Replies
      <4>2. PICK f : f = [reply EXCEPT !.begun = TRUE]
        OBVIOUS
      <4>3. replies'[opened] = <<f>> \o Tail(replies[opened])
        BY <1>1, <1>6, <3>1, <4>2
      <4>4. /\ Len(replies'[opened]) = 1 + Len(Tail(replies[opened])) /\ replies'[opened][1] = f
            /\ \A i \in 2..m : replies'[opened][i] = Tail(replies[opened])[i - 1]
        BY <1>8, <2>3, <4>1, <4>2, <4>3, PutBack
      <4>5. \A i \in 2..m : Tail(replies[opened])[i - 1] = replies[opened][i]
        BY <1>8, <2>3
      <4>6. f.command = replies[opened][1].command
        BY <1>8, <4>1, <4>2
      <4>7. m \in Nat \ {0} /\ Len(replies'[opened]) = m
        BY <1>8, <2>3, <4>4
      <4>8. ASSUME NEW i \in 1..m PROVE replies'[opened][i].command = replies[opened][i].command
        <5>1. CASE i = 1
          BY <4>4, <4>6, <5>1
        <5>2. CASE i \in 2..m
          BY <4>4, <4>5, <5>2
        <5>. QED BY <4>7, <5>1, <5>2
      <4>. QED BY <3>1, <4>7, <4>8
    <3>2. CASE piece # "first"
      <4>1. replies'[opened] = Tail(replies[opened])
        BY <1>1, <1>6, <3>2
      <4>. QED BY <1>8, <2>3, <3>2, <4>1
    <3>. QED BY <3>1, <3>2
  <2>5. Expected' <= Expected /\ Expected' \in Nat /\ Expected \in Nat
    <3>1. PICK k : k = IF nextSend = 0 THEN 0 ELSE 1
      OBVIOUS
    <3>2. k \in Nat /\ Unsent \in {0, 1} /\ At(Receiving) \in Nat
      BY <3>1, ExpectedType
    <3>3. Expected = m + At(Receiving) + Unsent + k
      BY <2>3, <3>1 DEF Expected
    <3>4. Expected' = Len(replies'[opened]) + At(Receiving)' + Unsent + k
      BY <1>6, <2>2, <3>1 DEF Expected
    <3>. QED BY <1>15, <2>4, <3>2, <3>3, <3>4
  <2>6. MatchOK'
    <3>1. Expected' <= 1 /\ (callback' = 0 /\ socket' # 0 => Expected' = 0)
      BY <1>6, <2>1, <2>5 DEF MatchOK
    <3>2. nextSend' \in {0, callback'} /\ (Unsent' = 1 => callback' \in {0, sends'[1].command})
      BY <1>6, <2>1, <2>2 DEF MatchOK
    <3>3. \A i \in 1..Len(replies'[opened']) : callback' \in {0, replies'[opened'][i].command}
      BY <1>6, <2>1, <2>3, <2>4 DEF MatchOK
    <3>4. callback \in {0, n}
      BY <1>3, <1>8, <2>1 DEF MatchOK
    <3>5. \A c \in Nat : At({<<"receipt", c>>})' > 0 => callback' \in {0, c}
      BY <1>6, <1>16, <2>1, <3>4 DEF MatchOK
    <3>. QED BY <3>1, <3>2, <3>3, <3>5 DEF MatchOK
  <2>7. NoForeign'
    BY <1>6, <1>15, <2>1 DEF NoForeign
  <2>. QED BY <2>2, <2>6, <2>7
<1>. QED BY <1>6, <1>18, <1>19 DEF ReplyInv

(* A command that is out is answered once, by its server.                    *)
LEMMA ReplyTransmits ==
  ASSUME RedisInv, RedisInv', ReplyInv, Transmit
  PROVE  ReplyInv'
<1>1. /\ RedisTypeOK /\ sends \in Seq(SendRequests) /\ opened \in Sockets /\ replies \in [Sockets -> Seq(Replies)]
  BY DEF RedisInv, RedisTypeOK
<1>0. PICK i \in 1..Len(sends) : \E n \in 1..sends[i].left :
        /\ sends[i].sent = 0
        /\ sends' = [sends EXCEPT ![i].sent = n]
        /\ replies' = IF n < sends[i].left THEN replies
                      ELSE [replies EXCEPT ![sends[i].socket] =
                              Append(@, [command |-> sends[i].command, begun |-> FALSE])]
        /\ UNCHANGED <<socket, opened, parser, recvs, pendingIo, callback, sending, nextSend, answer, strayed, frames>>
  BY DEF Transmit, commandState
<1>2. PICK n \in 1..sends[i].left :
        /\ sends[i].sent = 0
        /\ sends' = [sends EXCEPT ![i].sent = n]
        /\ replies' = IF n < sends[i].left THEN replies
                      ELSE [replies EXCEPT ![sends[i].socket] =
                              Append(@, [command |-> sends[i].command, begun |-> FALSE])]
        /\ UNCHANGED <<socket, opened, parser, recvs, pendingIo, callback, sending, nextSend, answer, strayed, frames>>
  BY <1>0
<1>3. sends[i] \in SendRequests /\ sends[i].socket = opened /\ Len(sends) \in Nat
  BY <1>1 DEF ReplyInv, IoOK
<1>4. sends[i].left \in Nat /\ n \in Nat \ {0} /\ n <= sends[i].left
  BY <1>3 DEF SendRequests
<1>5. /\ Len(sends') = Len(sends)
      /\ \A j \in 1..Len(sends) : /\ sends'[j].socket = sends[j].socket /\ sends'[j].command = sends[j].command
                                  /\ sends'[j].left = sends[j].left
                                  /\ sends'[j].sent = IF j = i THEN n ELSE sends[j].sent
  <2>1. \A j \in 1..Len(sends) : sends'[j] = IF j = i THEN [sends[i] EXCEPT !.sent = n] ELSE sends[j]
    BY <1>1, <1>2
  <2>2. LET s == [sends[i] EXCEPT !.sent = n]
        IN  s.socket = sends[i].socket /\ s.command = sends[i].command /\ s.left = sends[i].left /\ s.sent = n
    BY <1>3 DEF SendRequests
  <2>3. Len(sends') = Len(sends)
    BY <1>1, <1>2
  <2>. QED BY <2>1, <2>2, <2>3
<1>6. \A L : At(L)' = At(L)
  BY <1>2 DEF At
<1>7. IoOK'
  <2>1. \A j \in 1..Len(sends') : sends'[j].socket = opened
    BY <1>5 DEF ReplyInv, IoOK
  <2>2. \A k \in Sockets : k > opened => replies'[k] = <<>>
    BY <1>1, <1>2, <1>3 DEF ReplyInv, IoOK, Sockets
  <2>. QED BY <1>2, <1>5, <1>6, <2>1, <2>2 DEF ReplyInv, IoOK, Registering
<1>8. ASSUME ~strayed PROVE SendOK' /\ MatchOK' /\ NoForeign'
  <2>1. SendOK /\ MatchOK /\ NoForeign
    BY <1>8 DEF ReplyInv
  <2>2. i = 1 /\ Len(sends) = 1 /\ 1 \in 1..Len(sends) /\ sends # <<>>
    <3>1. Len(sends) <= 1
      BY <2>1 DEF SendOK
    <3>0. PICK m : m = Len(sends)
      OBVIOUS
    <3>2. Len(sends) = 1 /\ i = 1
      <4>1. m \in Nat /\ m <= 1 /\ i \in 1..m
        BY <1>3, <3>0, <3>1
      <4>2. m = 1 /\ i = 1
        BY ONLY <4>1
      <4>. QED BY <3>0, <4>2
    <3>3. sends # <<>>
      BY <3>2
    <3>4. 1 \in 1..Len(sends)
      BY ONLY <3>2
    <3>. QED BY <3>2, <3>3, <3>4
  <2>3. sends' # <<>> /\ Len(sends') = 1
    BY <1>5, <2>2
  <2>4. /\ sends'[1].command = sends[1].command /\ sends'[1].left = sends[1].left /\ sends'[1].sent = n
        /\ sends[1].sent = 0 /\ sends[1].left \in Nat /\ n <= sends[1].left /\ sends[1].socket = opened
    BY <1>2, <1>3, <1>4, <1>5, <2>2
  <2>5. SendOK'
    BY <1>2, <1>4, <2>1, <2>2, <2>3, <2>4 DEF SendOK
  <2>6. Unsent = 1 /\ Unsent' = IF n < sends[1].left THEN 1 ELSE 0
    BY <1>4, <2>2, <2>3, <2>4 DEF Unsent
  <2>7. callback \in {0, sends[1].command}
    BY <2>1, <2>6 DEF MatchOK
  <2>8. PICK m : m = Len(replies[opened])
    OBVIOUS
  <2>9. /\ m \in Nat /\ Len(replies'[opened]) = IF n < sends[1].left THEN m ELSE m + 1
        /\ \A j \in 1..Len(replies'[opened]) : callback \in {0, replies'[opened][j].command}
    <3>1. replies[opened] \in Seq(Replies) /\ m \in Nat
      BY <1>1, <2>8
    <3>2. \A j \in 1..m : callback \in {0, replies[opened][j].command}
      BY <2>1, <2>8 DEF MatchOK
    <3>3. CASE n < sends[1].left
      BY <1>2, <2>2, <2>8, <3>1, <3>2, <3>3
    <3>4. CASE ~(n < sends[1].left)
      <4>1. PICK a : a = [command |-> sends[1].command, begun |-> FALSE]
        OBVIOUS
      <4>2. a \in Replies /\ a.command = sends[1].command
        BY <1>3, <2>2, <4>1 DEF Replies, SendRequests
      <4>3. replies'[opened] = Append(replies[opened], a)
        BY <1>1, <1>2, <2>2, <2>4, <3>4, <4>1
      <4>4. /\ Len(replies'[opened]) = m + 1 /\ replies'[opened][m + 1] = a
            /\ \A j \in 1..m : replies'[opened][j] = replies[opened][j]
        BY <2>8, <3>1, <4>2, <4>3
      <4>5. ASSUME NEW j \in 1..Len(replies'[opened]) PROVE callback \in {0, replies'[opened][j].command}
        <5>1. j \in 1..m \/ j = m + 1
          BY ONLY <3>1, <4>4, j \in 1..Len(replies'[opened])
        <5>2. CASE j \in 1..m
          BY <3>2, <4>4, <5>2
        <5>3. CASE j = m + 1
          BY <2>7, <4>2, <4>4, <5>3
        <5>. QED BY <5>1, <5>2, <5>3
      <4>. QED BY <3>1, <3>4, <4>4, <4>5
    <3>. QED BY <3>3, <3>4
  <2>10. Expected' = Expected
    <3>1. PICK k : k = IF nextSend = 0 THEN 0 ELSE 1
      OBVIOUS
    <3>2. k \in Nat /\ At(Receiving) \in Nat
      BY <3>1, ExpectedType
    <3>3. Expected = m + At(Receiving) + Unsent + k
      BY <2>8, <3>1 DEF Expected
    <3>4. Expected' = Len(replies'[opened]) + At(Receiving) + Unsent' + k
      BY <1>2, <1>6, <3>1 DEF Expected
    <3>. QED BY <1>4, <2>4, <2>6, <2>9, <3>2, <3>3, <3>4
  <2>11. MatchOK'
    <3>1. Expected' <= 1 /\ (callback' = 0 /\ socket' # 0 => Expected' = 0)
      BY <1>2, <2>1, <2>10 DEF MatchOK
    <3>2. nextSend' \in {0, callback'} /\ callback' \in {0, sends'[1].command}
      BY <1>2, <2>1, <2>4, <2>7 DEF MatchOK
    <3>3. \A c \in Nat : At({<<"receipt", c>>})' > 0 => callback' \in {0, c}
      BY <1>2, <1>6, <2>1 DEF MatchOK
    <3>4. \A j \in 1..Len(replies'[opened']) : callback' \in {0, replies'[opened'][j].command}
      BY <1>2, <2>9
    <3>. QED BY <3>1, <3>2, <3>3, <3>4 DEF MatchOK
  <2>12. NoForeign'
    BY <1>2, <1>6, <2>1 DEF NoForeign
  <2>. QED BY <2>5, <2>11, <2>12
<1>. QED BY <1>2, <1>7, <1>8 DEF ReplyInv

(* The connection is opened again when no request is left of the last: no    *)
(* worker has a completion of it, and nothing of it is expected.             *)
LEMMA NoCompletion ==
  ASSUME RedisInv, StacksIn(frames), frames[Reconnector] # <<>>, Head(frames[Reconnector])[1] = "connect",
         At(Uncounting) = 0
  PROVE  At(OfCompletion) = 0
<1>1. /\ RedisTypeOK /\ frames \in Stacks(RedisThreads, RedisFrames) /\ IsFiniteSet(RedisThreads)
      /\ Reconnector \in RedisThreads /\ DOMAIN frames = RedisThreads
  BY ThreadsFinite DEF RedisInv, RedisTypeOK, Stacks, RedisThreads
<1>2. PICK h : h = Head(frames[Reconnector])
  OBVIOUS
<1>3. h \in RedisFrames /\ h \in Outermost /\ h \notin OfCompletion
  <2>1. h \in RedisFrames /\ h[1] = "connect"
    BY <1>1, <1>2 DEF Stacks
  <2>. QED BY <2>1, ReplyHits
<1>4. FramesOf(frames, Uncounting) = {}
  BY <1>1, FramesFinite DEF At, CountOf
<1>5. Len(frames[Reconnector]) \in Nat \ {0}
  BY <1>1 DEF Stacks
<1>6. Len(frames[Reconnector]) = 1
  BY <1>1, <1>2, <1>3, <1>5, TopFrame DEF StacksIn
<1>7. <<Reconnector, 1>> \notin FramesOf(frames, OfCompletion)
  BY <1>1, <1>2, <1>3, <1>6, TopFrame
<1>8. ASSUME NEW t \in RedisThreads, NEW d \in Nat PROVE <<t, d>> \notin FramesOf(frames, OfCompletion)
  <2>1. CASE t = Reconnector
    <3>1. <<t, d>> \in FramesOf(frames, OfCompletion) => d \in DOMAIN frames[Reconnector]
      BY <1>1, <2>1, FrameIs
    <3>2. DOMAIN frames[Reconnector] = 1..1
      BY <1>1, <1>6 DEF Stacks
    <3>. QED BY <1>7, <2>1, <3>1, <3>2
  <2>2. CASE t # Reconnector
    BY <1>4, <2>2 DEF StacksIn
  <2>. QED BY <2>1, <2>2
<1>9. FramesOf(frames, OfCompletion) = {}
  <2>1. {} \subseteq (DOMAIN frames) \X Nat
    OBVIOUS
  <2>2. \A u \in DOMAIN frames, d \in Nat : <<u, d>> \in FramesOf(frames, OfCompletion) <=> <<u, d>> \in {}
    BY <1>1, <1>8
  <2>. QED BY <2>1, <2>2, FramesPairs
<1>. QED BY <1>1, <1>9, FramesFinite DEF At, CountOf

LEMMA ReplyConnects ==
  ASSUME RedisInv, RedisInv', ReplyInv, Connect(Reconnector)
  PROVE  ReplyInv'
<1>1. /\ RedisTypeOK /\ StacksIn(frames) /\ recvs \in Seq(Sockets) /\ sends \in Seq(SendRequests)
      /\ opened \in Sockets /\ Reconnector \in RedisThreads
  BY DEF RedisInv, RedisTypeOK, ReplyInv, IoOK, RedisThreads
<1>2. PICK h : h = Head(frames[Reconnector])
  OBVIOUS
<1>3. PICK g : g = <<"register", 0>>
  OBVIOUS
<1>4. /\ frames[Reconnector] # <<>> /\ h \in RedisFrames /\ h[1] = "connect"
      /\ socket = 0 /\ pendingIo = 0 /\ opened < MaxSockets
      /\ parser' = 0 /\ opened' = opened + 1 /\ socket' = opened + 1 /\ Proceed(Reconnector, <<g>>)
      /\ UNCHANGED <<recvs, sends, pendingIo, callback, sending, nextSend, replies, answer, strayed>>
  BY <1>1, <1>2, <1>3, InPlace DEF Connect, MayConnect, ioState, commandState
<1>5. \A L : At(L) \in Nat
  BY <1>1, AtType
<1>6. Len(recvs) = 0 /\ Len(sends) = 0 /\ At(Uncounting) = 0
  <2>1. Len(recvs) \in Nat /\ Len(sends) \in Nat /\ At(Uncounting) \in Nat
    BY <1>1, <1>5
  <2>2. pendingIo = Len(recvs) + Len(sends) + At(Uncounting)
    BY DEF ReplyInv, IoOK
  <2>. QED BY <1>4, <2>1, <2>2
<1>7. recvs = <<>> /\ sends = <<>>
  BY <1>1, <1>6, EmptyIs
<1>8. At(OfCompletion) = 0
  BY <1>1, <1>2, <1>4, <1>6, NoCompletion
<1>9. /\ At(Posting) = 0 /\ At(Receiving) = 0 /\ At(Draining) = 0
  <2>1. Posting \subseteq OfCompletion /\ Receiving \subseteq OfCompletion /\ Draining \subseteq OfCompletion
    BY DEF OfCompletion
  <2>2. \A L : L \subseteq OfCompletion => At(L) <= 0
    BY <1>1, <1>8, ThreadsFinite, CountMonotone DEF At, RedisTypeOK
  <2>3. At(Posting) <= 0 /\ At(Receiving) <= 0 /\ At(Draining) <= 0
    BY <2>1, <2>2
  <2>. QED BY <1>5, <2>3
<1>10. g \in RedisFrames /\ g[1] = "register" /\ g \notin OfCompletion /\ h \in Outermost
  <2>1. g \in RedisFrames /\ g[1] = "register"
    BY <1>3 DEF RedisFrames
  <2>. QED BY <1>4, <2>1, ReplyHits
<1>11. StacksIn(frames')
  <2>1. Fits(Reconnector, h, g)
    BY <1>10 DEF Fits
  <2>. QED BY <1>1, <1>2, <1>4, <1>10, <2>1, FormProceeds
<1>12. \A L : At(L)' = At(L) - Hits(h, L) + Hits(g, L)
  BY <1>1, <1>2, <1>4, <1>10, Proceeds
<1>13. \A L : Hits(h, L) = 0 /\ Hits(g, L) = 0 => At(L)' = At(L)
  BY <1>5, <1>12
<1>14. /\ At(Uncounting)' = 0 /\ At(Posting)' = 0 /\ At(Receiving)' = 0 /\ At(Draining)' = 0
       /\ At(Foreign)' = At(Foreign)
       /\ \A c \in Nat : At({<<"receipt", c>>})' = At({<<"receipt", c>>})
  BY <1>4, <1>6, <1>9, <1>10, <1>13, ReplyHits
<1>15. Registering' <= 1 /\ Registering' \in Nat
  <2>1. frames' \in Stacks(RedisThreads, RedisFrames)
    BY DEF RedisInv, RedisTypeOK
  <2>2. {"register"} \X {0} \subseteq HasConnection
    BY DEF HasConnection
  <2>3. CountOf(frames', {"register"} \X {0}) <= CountOf(frames', HasConnection)
    BY <2>1, <2>2, ThreadsFinite, CountMonotone
  <2>4. CountOf(frames', {"register"} \X {0}) \in Nat /\ CountOf(frames', HasConnection) \in Nat
    BY <2>1, ThreadsFinite, CountType
  <2>5. At(HasConnection)' <= 1
    <3>1. At(HasConnection)' \in Nat
      BY <2>4 DEF At
    <3>2. free' \in Nat /\ broken' \in Nat
      BY DEF RedisInv, RedisTypeOK
    <3>3. free' + broken' + (IF callback' \in Commands THEN 1 ELSE 0) + At(HasConnection)' = 1
      BY DEF RedisInv, OneConnection, Connections
    <3>. QED BY ONLY <3>1, <3>2, <3>3
  <2>. QED BY <2>3, <2>4, <2>5 DEF Registering, At
<1>16. replies'[opened'] = <<>> /\ \A k \in Sockets : k > opened' => replies'[k] = <<>>
  <2>1. opened \in Nat /\ opened + 1 \in Sockets /\ MaxSockets \in Nat
    BY <1>1, <1>4, RedisConstants DEF Sockets
  <2>2. \A k \in Sockets : k > opened + 1 => k > opened
    BY <2>1 DEF Sockets
  <2>3. opened + 1 > opened
    BY <2>1
  <2>. QED BY <1>4, <2>1, <2>2, <2>3 DEF ReplyInv, IoOK
<1>17. IoOK'
  <2>1. Len(recvs') = 0 /\ Len(sends') = 0
    BY <1>4, <1>6
  <2>2. pendingIo' = Len(recvs') + Len(sends') + At(Uncounting)' /\ Len(recvs') + At(Posting)' + Registering' <= 1
    <3>1. pendingIo' = 0 /\ At(Uncounting)' = 0 /\ At(Posting)' = 0
      BY <1>4, <1>14
    <3>2. pendingIo' = Len(recvs') + Len(sends') + At(Uncounting)'
      BY ONLY <2>1, <3>1
    <3>3. PICK k : k = Registering'
      OBVIOUS
    <3>4. Len(recvs') + At(Posting)' + k <= 1
      <4>1. k \in Nat
        BY <1>15, <3>3
      <4>2. k <= 1
        BY <1>15, <3>3
      <4>3. 0 + 0 + k <= 1
        BY ONLY <4>1, <4>2
      <4>4. Len(recvs') = 0 /\ At(Posting)' = 0
        BY <2>1, <3>1
      <4>. QED BY ONLY <4>3, <4>4
    <3>. QED BY <3>2, <3>3, <3>4
  <2>3. /\ \A i \in 1..Len(recvs') : recvs'[i] = opened'
        /\ \A i \in 1..Len(sends') : sends'[i].socket = opened'
    BY <2>1
  <2>4. parser' \in {0, opened'} /\ ~(At(Draining)' > 0)
    BY <1>4, <1>14
  <2>. QED BY <1>11, <1>16, <2>2, <2>3, <2>4 DEF IoOK
<1>18. ASSUME ~strayed PROVE SendOK' /\ MatchOK' /\ NoForeign'
  <2>1. SendOK /\ MatchOK /\ NoForeign
    BY <1>18 DEF ReplyInv
  <2>2. sends' = <<>> /\ Len(sends') = 0 /\ nextSend \in Nat
    BY <1>4, <1>6, <1>7, ExpectedType
  <2>3. SendOK' /\ Unsent' = 0
    BY <2>2 DEF SendOK, Unsent
  <2>4. Len(replies'[opened']) = 0
    BY <1>16
  <2>5. Expected' = IF nextSend = 0 THEN 0 ELSE 1
    BY <1>4, <1>14, <2>2, <2>3, <2>4 DEF Expected
  <2>6. nextSend \in {0, callback}
    BY <2>1 DEF MatchOK
  <2>7. \A c \in Nat : At({<<"receipt", c>>})' > 0 => callback' \in {0, c}
    BY <1>4, <1>14, <2>1 DEF MatchOK
  <2>8. MatchOK'
    BY <1>4, <2>3, <2>4, <2>5, <2>6, <2>7 DEF MatchOK
  <2>9. NoForeign'
    BY <1>4, <1>14, <2>1 DEF NoForeign
  <2>. QED BY <2>3, <2>8, <2>9
<1>. QED BY <1>4, <1>17, <1>18 DEF ReplyInv

-----------------------------------------------------------------------------
LEMMA ReplyStarts == ASSUME RedisInit PROVE ReplyInv
<1>1. \A L : FramesOf(frames, L) = {} /\ At(L) = 0
  <2>1. frames = [t \in RedisThreads |-> <<>>]
    BY DEF RedisInit
  <2>2. \A L : FramesOf([t \in RedisThreads |-> <<>>], L) = {}
    BY DEF FramesOf
  <2>. QED BY <2>1, <2>2, ThreadsFinite, NoFrames DEF At
<1>2. /\ socket = 1 /\ opened = 1 /\ parser = 0 /\ recvs = <<1>> /\ sends = <<>> /\ pendingIo = 1
      /\ callback = 0 /\ nextSend = 0 /\ replies = [k \in Sockets |-> <<>>] /\ 1 \in Sockets
      /\ \A c \in DOMAIN answer : answer[c] = "none"
  BY RedisConstants DEF RedisInit, Sockets
<1>3. Len(recvs) = 1 /\ Len(sends) = 0 /\ recvs[1] = 1 /\ replies[opened] = <<>> /\ Len(replies[opened]) = 0
  BY <1>2
<1>4. IoOK
  BY <1>1, <1>2, <1>3 DEF IoOK, StacksIn, Registering
<1>5. SendOK /\ Unsent = 0
  BY <1>2, <1>3 DEF SendOK, Unsent
<1>6. Expected = 0
  BY <1>1, <1>2, <1>3, <1>5 DEF Expected
<1>7. MatchOK /\ NoForeign
  BY <1>1, <1>2, <1>3, <1>5, <1>6 DEF MatchOK, NoForeign
<1>. QED BY <1>4, <1>5, <1>7 DEF ReplyInv

LEMMA ReplySteps == ASSUME RedisInv, RedisInv', ReplyInv, RedisNext PROVE ReplyInv'
<1>1. RedisUsers \subseteq RedisThreads /\ RedisWorkers \subseteq RedisThreads /\ Reconnector \in RedisThreads
  BY DEF RedisThreads
<1>2. ASSUME NEW t \in RedisThreads, Disconnect(t) \/ ClientSend(t) \/ Callback(t) \/ PushConnection(t)
      PROVE  ReplyInv'
  BY <1>2, ReplyExchange, ReplyAnswers, ReplyDrains, ReplySends, ReplyLends DEF Disconnect, ClientSend
<1>3. ASSUME NEW u \in RedisUsers, Lend(u) \/ Wait(u)
      PROVE  ReplyInv'
  BY <1>1, <1>3, ReplyLends
<1>4. ASSUME NEW w \in RedisWorkers, Dispatch(w)
      PROVE  ReplyInv'
  BY <1>1, <1>4, ReplyReads, ReplyEnds, ReplyReceived, ReplyPosts, ReplyReconnects, ReplySendEnds, ReplySendGoesOn
     DEF Dispatch
<1>5. CASE \/ ExpirePendingCommands(Reconnector) \/ Expired(Reconnector)
           \/ DisconnectStalledClients(Reconnector) \/ ReconnectLoop(Reconnector)
  BY <1>1, <1>5, ReplyAnswers, ReplyLends, ReplyReconnects, ReplyConnects, ReplyPosts DEF ReconnectLoop
<1>. QED BY <1>2, <1>3, <1>4, <1>5, ReplyTransmits, ReplyReconnects DEF RedisNext

LEMMA ReplyStutters == ASSUME RedisInv, ReplyInv, UNCHANGED redisVars PROVE ReplyInv'
<1>1. UNCHANGED <<socket, opened, parser, recvs, sends, pendingIo, callback, sending, nextSend, replies,
                  answer, strayed, frames>>
  BY DEF redisVars, ioState, commandState
<1>2. \A L : At(L)' = At(L)
  BY <1>1 DEF At
<1>3. IoOK'
  BY <1>1, <1>2 DEF ReplyInv, IoOK, Registering
<1>4. Unsent' = Unsent /\ Expected' = Expected
  BY <1>1, <1>2 DEF Unsent, Expected
<1>5. ASSUME ~strayed PROVE SendOK' /\ MatchOK' /\ NoForeign'
  BY <1>1, <1>2, <1>4, <1>5 DEF ReplyInv, SendOK, MatchOK, NoForeign
<1>. QED BY <1>1, <1>3, <1>5 DEF ReplyInv

(* RedisClient: the requests counted are those that are posted or handled,   *)
(* all of them of the present connection, and what is expected of the server *)
(* is the reply to the command that has the callback, and no more, for as    *)
(* long as no Disconnect(SendFailed) came too late.                          *)
THEOREM ReplyInductive == RedisSpec => [](RedisInv /\ ReplyInv)
<1>1. RedisInit => RedisInv /\ ReplyInv
  BY RedisStarts, ReplyStarts
<1>2. RedisInv /\ ReplyInv /\ [RedisNext]_redisVars => RedisInv' /\ ReplyInv'
  BY RedisSteps, RedisStutters, ReplySteps, ReplyStutters
<1>. QED BY <1>1, <1>2, PTL DEF RedisSpec

(* A command gets its own reply or an error, each event has one request, and *)
(* a connection has none of an earlier one.                                  *)
THEOREM OwnReplyAlways == RedisSpec => []OwnReply
<1>1. RedisInv /\ ReplyInv => OwnReply
  <2>. SUFFICES ASSUME RedisInv, ReplyInv PROVE OwnReply
    OBVIOUS
  <2>1. socket \in {0, opened} /\ Len(recvs) \in Nat /\ \A L : At(L) \in Nat
    BY AtType DEF RedisInv, RedisTypeOK
  <2>2. IoOK
    BY DEF ReplyInv
  <2>3. Len(recvs) <= 1
    BY <2>1, <2>2 DEF IoOK, Registering
  <2>4. socket # 0 => /\ \A i \in 1..Len(recvs) : recvs[i] = socket
                      /\ \A i \in 1..Len(sends) : sends[i].socket = socket
    BY <2>1, <2>2 DEF IoOK
  <2>5. strayed \/ (Len(sends) <= 1 /\ \A c \in DOMAIN answer : answer[c] # "foreign")
    BY DEF ReplyInv, SendOK, NoForeign
  <2>. QED BY <2>3, <2>4, <2>5 DEF OwnReply, EventFree
<1>. QED BY <1>1, ReplyInductive, PTL

=============================================================================
