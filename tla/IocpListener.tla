---------------------------- MODULE IocpListener ----------------------------
(* CIocpListener (UtilCore/Network/IOCP): a pool of AcceptEx requests that   *)
(* are posted again after every completion, a detached thread per request    *)
(* that has to be tried again later, and a Stop() that ends all of it.       *)
(*                                                                           *)
(* A step is the code between two accesses to _closing, the socket or        *)
(* _pendingRetries; a region under _retryDrainMutex is one step.  The        *)
(* back-off delay may end at any moment.                                     *)
EXTENDS Integers, FiniteSets

CONSTANTS
    Slots,      \* the AcceptEvents
    NoSlot,     \* none of them
    AcceptWorkers, \* IOCP worker threads
    Retriers    \* bound: retry threads that exist at one time

ASSUME ListenerThreads ==
    /\ AcceptWorkers \intersect Retriers = {}
    /\ "main" \notin AcceptWorkers \union Retriers
    /\ NoSlot \notin Slots
    /\ IsFiniteSet(AcceptWorkers) /\ IsFiniteSet(Retriers)

VARIABLES
    unstarted,       \* slots StartAccept() has not come to yet
    posted,          \* slots whose AcceptEx is pending; each holds an owner reference
    lost,            \* history: slots whose retry thread could not be created
    closing,         \* _closing
    socketOpen,      \* _listenSocket # INVALID_SOCKET
    pendingRetries,  \* _pendingRetries
    life,            \* the listener: "live", then "dying" (destructor), then "freed"
    owned,           \* the service's reference
    stopped,         \* Stop() has returned
    at,              \* of each thread: the place it has reached
    slotAt,          \* of each thread: the slot it works for
    accepted,        \* of each worker: it has a session to hand over
    self             \* of each retry thread: its weak_ptr was locked

AcceptThreads == AcceptWorkers \union Retriers \union {"main"}
slotVars == <<unstarted, posted, lost>>
stopVars == <<closing, socketOpen, pendingRetries>>
lifeVars == <<life, owned, stopped>>
listenerVars == <<slotVars, stopVars, lifeVars, at, slotAt, accepted, self>>

ListenerInit ==
    /\ unstarted = Slots
    /\ posted = {}
    /\ lost = {}
    /\ closing = FALSE
    /\ socketOpen = TRUE
    /\ pendingRetries = 0
    /\ life = "live"
    /\ owned = TRUE
    /\ stopped = FALSE
    /\ at = [t \in AcceptThreads |-> IF t \in Retriers THEN "none" ELSE "idle"]
    /\ slotAt = [t \in AcceptThreads |-> NoSlot]
    /\ accepted = [w \in AcceptWorkers |-> FALSE]
    /\ self = [t \in Retriers |-> FALSE]

-----------------------------------------------------------------------------
(* Threads that hold a shared_ptr to the listener, besides posted slots.     *)
Holders == {w \in AcceptWorkers : at[w] \notin {"idle", "destroy"}}
             \union {r \in Retriers : self[r]}
             \union {m \in {"main"} : owned}

Goto(t, place) == at' = [at EXCEPT ![t] = place]

(* Where a thread goes when its RegisterAccept() returns.                    *)
Resume(t) ==
    CASE t \in AcceptWorkers -> IF accepted[t] THEN "callback" ELSE "drop"
      [] t \in Retriers      -> "finish"
      [] OTHER               -> "idle"

Return(t) ==
    /\ Goto(t, Resume(t))
    /\ slotAt' = [slotAt EXCEPT ![t] = NoSlot]
    /\ UNCHANGED accepted

(* StartAccept(): the main thread posts the slots one after another.         *)
StartAccept(s) ==
    /\ at["main"] = "idle" /\ owned /\ ~stopped /\ ~closing
    /\ s \in unstarted
    /\ unstarted' = unstarted \ {s}
    /\ Goto("main", "register")
    /\ slotAt' = [slotAt EXCEPT !["main"] = s]
    /\ UNCHANGED <<posted, lost, stopVars, lifeVars, accepted, self>>

-----------------------------------------------------------------------------
(* RegisterAccept().                                                         *)

RegisterTestClosing(t) ==
    /\ at[t] = "register"
    /\ IF closing THEN Return(t) ELSE Goto(t, "loadSocket") /\ UNCHANGED <<slotAt, accepted>>
    /\ UNCHANGED <<slotVars, stopVars, lifeVars, self>>

RegisterLoadSocket(t) ==
    /\ at[t] = "loadSocket"
    /\ IF socketOpen THEN Goto(t, "post") /\ UNCHANGED <<slotAt, accepted>> ELSE Return(t)
    /\ UNCHANGED <<slotVars, stopVars, lifeVars, self>>

(* AcceptEx() on the socket read before; it fails for certain if that socket *)
(* has been closed since.                                                    *)
RegisterPost(t) ==
    /\ at[t] = "post"
    /\ socketOpen
    /\ posted' = posted \union {slotAt[t]}
    /\ Return(t)
    /\ UNCHANGED <<unstarted, lost, stopVars, lifeVars, self>>

(* No session, no socket, or AcceptEx() failed on the spot.                  *)
RegisterFails(t) ==
    /\ at[t] = "post"
    /\ Goto(t, "retry")
    /\ UNCHANGED <<slotVars, stopVars, lifeVars, slotAt, accepted, self>>

(* HandleAcceptFailure(), ScheduleRetry(): the test, then the count.         *)
RetryTestClosing(t) ==
    /\ at[t] = "retry"
    /\ IF closing THEN Return(t) ELSE Goto(t, "count") /\ UNCHANGED <<slotAt, accepted>>
    /\ UNCHANGED <<slotVars, stopVars, lifeVars, self>>

RetryCount(t) ==
    /\ at[t] = "count"
    /\ pendingRetries' = pendingRetries + 1
    /\ Goto(t, "spawn")
    /\ UNCHANGED <<slotVars, closing, socketOpen, lifeVars, slotAt, accepted, self>>

(* The detached thread.                                                      *)
RetrySpawn(t, r) ==
    /\ at[t] = "spawn" /\ at[r] = "none"
    /\ at' = [at EXCEPT ![t] = Resume(t), ![r] = "wait"]
    /\ slotAt' = [slotAt EXCEPT ![t] = NoSlot, ![r] = slotAt[t]]
    /\ UNCHANGED <<slotVars, stopVars, lifeVars, accepted, self>>

(* std::thread throws: FinishRetry() at once, and the slot is given up.      *)
RetrySpawnFails(t) ==
    /\ at[t] = "spawn"
    /\ pendingRetries' = pendingRetries - 1
    /\ lost' = lost \union {slotAt[t]}
    /\ Return(t)
    /\ UNCHANGED <<unstarted, posted, closing, socketOpen, lifeVars, self>>

-----------------------------------------------------------------------------
(* The retry thread: the delay, weak_ptr::lock(), the test of _closing, one  *)
(* RegisterAccept(), FinishRetry(), and last the end of its own reference.   *)

(* Mutant: a retry thread that finds the listener closing just leaves.       *)
RetryTestForgetful(r) ==
    /\ at[r] = "test"
    /\ Goto(r, IF closing THEN "drop" ELSE "register")
    /\ slotAt' = [slotAt EXCEPT ![r] = IF closing THEN NoSlot ELSE @]
    /\ UNCHANGED <<slotVars, stopVars, lifeVars, accepted, self>>

RetryLock(r) ==
    /\ at[r] = "wait"
    /\ self' = [self EXCEPT ![r] = life = "live"]
    /\ Goto(r, IF life = "live" THEN "test" ELSE "finish")
    /\ slotAt' = [slotAt EXCEPT ![r] = IF life = "live" THEN @ ELSE NoSlot]
    /\ UNCHANGED <<slotVars, stopVars, lifeVars, accepted>>

RetryTest(r) ==
    /\ at[r] = "test"
    /\ IF closing THEN Return(r) ELSE Goto(r, "register") /\ UNCHANGED <<slotAt, accepted>>
    /\ UNCHANGED <<slotVars, stopVars, lifeVars, self>>

RetryFinish(r) ==
    /\ at[r] = "finish"
    /\ pendingRetries' = pendingRetries - 1
    /\ Goto(r, "drop")
    /\ UNCHANGED <<slotVars, closing, socketOpen, lifeVars, slotAt, accepted, self>>

-----------------------------------------------------------------------------
(* A completion: the worker takes over the owner reference of the event.     *)
Complete(w, s) ==
    /\ at[w] = "idle" /\ s \in posted
    /\ posted' = posted \ {s}
    /\ Goto(w, "process")
    /\ slotAt' = [slotAt EXCEPT ![w] = s]
    /\ UNCHANGED <<unstarted, lost, stopVars, lifeVars, accepted, self>>

(* ProcessAccept().  While the socket is open a request ends with a          *)
(* connection or an error of its own (it is registered again), or with       *)
(* another error (it is tried again later).                                  *)
ProcessAccept(w) ==
    /\ at[w] = "process"
    /\ \/ closing /\ Return(w)
       \/ /\ ~closing
          /\ Goto(w, "update")
          /\ UNCHANGED <<slotAt, accepted>>
       \/ /\ ~closing
          /\ Goto(w, "register")
          /\ UNCHANGED <<slotAt, accepted>>
    /\ UNCHANGED <<slotVars, stopVars, lifeVars, self>>

(* The load of the socket, SetUpdateAcceptContext() and Register(); after    *)
(* them there is a session to hand over.                                     *)
ProcessUpdate(w) ==
    /\ at[w] = "update"
    /\ \/ socketOpen /\ Goto(w, "register") /\ accepted' = [accepted EXCEPT ![w] = TRUE]
       \/ Goto(w, "retry") /\ UNCHANGED accepted
    /\ UNCHANGED <<slotVars, stopVars, lifeVars, slotAt, self>>

(* _onAcceptCallback(), called once the slot is posted again.                *)
Callback(w) ==
    /\ at[w] = "callback"
    /\ accepted' = [accepted EXCEPT ![w] = FALSE]
    /\ Goto(w, "drop")
    /\ UNCHANGED <<slotVars, stopVars, lifeVars, slotAt, self>>

-----------------------------------------------------------------------------
(* The end of a reference: whoever drops the last one runs the destructor.   *)
Drop(t) ==
    IF posted = {} /\ Holders = {t}
    THEN life' = "dying" /\ Goto(t, "destroy")
    ELSE UNCHANGED life /\ Goto(t, IF t \in Retriers THEN "none" ELSE "idle")

WorkerDrops(w) ==
    /\ at[w] = "drop" /\ w \in AcceptWorkers
    /\ Drop(w)
    /\ UNCHANGED <<slotVars, stopVars, owned, stopped, slotAt, accepted, self>>

RetrierDrops(r) ==
    /\ at[r] = "drop" /\ r \in Retriers
    /\ IF self[r] THEN Drop(r) ELSE UNCHANGED life /\ Goto(r, "none")
    /\ self' = [self EXCEPT ![r] = FALSE]
    /\ UNCHANGED <<slotVars, stopVars, owned, stopped, slotAt, accepted>>

(* The service resets _listener, after Stop() or without it.                 *)
MainDrops ==
    /\ at["main"] = "idle" /\ owned
    /\ owned' = FALSE
    /\ Drop("main")
    /\ UNCHANGED <<slotVars, stopVars, stopped, slotAt, accepted, self>>

(* Stop(): _closing under the mutex, the socket, then the wait for the       *)
(* retries.  The destructor calls it too, then frees the events.             *)
StopRaise(t) ==
    /\ \/ t = "main" /\ at[t] = "idle" /\ owned /\ ~stopped /\ Goto(t, "stopClose")
       \/ at[t] = "destroy" /\ Goto(t, "destroyClose")
    /\ closing' = TRUE
    /\ UNCHANGED <<slotVars, socketOpen, pendingRetries, lifeVars, slotAt, accepted, self>>

(* Mutant: the retry threads are not waited for.                             *)
StopNotWaited(t) ==
    /\ \/ at[t] = "stopWait" /\ Goto(t, "idle") /\ stopped' = TRUE /\ UNCHANGED life
       \/ /\ at[t] = "destroyWait"
          /\ Goto(t, IF t \in Retriers THEN "none" ELSE "idle")
          /\ life' = "freed"
          /\ UNCHANGED stopped
    /\ UNCHANGED <<slotVars, stopVars, owned, slotAt, accepted, self>>

CloseSocket(t) ==
    /\ \/ at[t] = "stopClose" /\ Goto(t, "stopWait")
       \/ at[t] = "destroyClose" /\ Goto(t, "destroyWait")
    /\ socketOpen' = FALSE
    /\ UNCHANGED <<slotVars, closing, pendingRetries, lifeVars, slotAt, accepted, self>>

StopWaited(t) ==
    /\ pendingRetries = 0
    /\ \/ /\ at[t] = "stopWait"
          /\ Goto(t, "idle")
          /\ stopped' = TRUE
          /\ UNCHANGED life
       \/ /\ at[t] = "destroyWait"
          /\ Goto(t, IF t \in Retriers THEN "none" ELSE "idle")
          /\ life' = "freed"
          /\ UNCHANGED stopped
    /\ UNCHANGED <<slotVars, stopVars, owned, slotAt, accepted, self>>

-----------------------------------------------------------------------------
Register(t) ==
    \/ RegisterTestClosing(t) \/ RegisterLoadSocket(t) \/ RegisterPost(t) \/ RegisterFails(t)
    \/ RetryTestClosing(t) \/ RetryCount(t) \/ RetrySpawnFails(t)
    \/ \E r \in Retriers : RetrySpawn(t, r)

Worker(w) == ProcessAccept(w) \/ ProcessUpdate(w) \/ Callback(w) \/ WorkerDrops(w)
Retrier(r) == RetryLock(r) \/ RetryTest(r) \/ RetryFinish(r) \/ RetrierDrops(r)

Ending(t) == CloseSocket(t) \/ StopWaited(t) \/ (at[t] = "destroy" /\ StopRaise(t))

(* What a thread goes on to do; and the end of a request on a closed socket. *)
Continue(t) ==
    \/ Register(t) \/ Ending(t)
    \/ t \in AcceptWorkers /\ Worker(t)
    \/ t \in Retriers /\ Retrier(t)
Cancelled == ~socketOpen /\ \E w \in AcceptWorkers, s \in Slots : Complete(w, s)

ListenerNext ==
    \/ \E s \in Slots : StartAccept(s)
    \/ \E t \in AcceptThreads : Register(t) \/ StopRaise(t) \/ CloseSocket(t) \/ StopWaited(t)
    \/ \E r \in Retriers : Retrier(r)
    \/ \E w \in AcceptWorkers : Worker(w)
    \/ \E w \in AcceptWorkers, s \in Slots : Complete(w, s)
    \/ MainDrops

(* Threads are scheduled, and a closed socket ends the requests posted on it.*)
ListenerFairness ==
    /\ \A t \in AcceptThreads : WF_listenerVars(Continue(t))
    /\ WF_listenerVars(Cancelled)

ListenerSpec == ListenerInit /\ [][ListenerNext]_listenerVars /\ ListenerFairness
-----------------------------------------------------------------------------
ListenerTypeOK ==
    /\ unstarted \subseteq Slots /\ posted \subseteq Slots /\ lost \subseteq Slots
    /\ {closing, socketOpen, owned, stopped} \subseteq BOOLEAN
    /\ pendingRetries \in Nat
    /\ life \in {"live", "dying", "freed"}
    /\ at \in [AcceptThreads -> {"none", "idle", "register", "loadSocket", "post", "retry", "count",
                           "spawn", "wait", "test", "finish", "process", "update", "callback",
                           "drop", "destroy", "destroyClose", "destroyWait", "stopClose", "stopWait"}]
    /\ slotAt \in [AcceptThreads -> Slots \union {NoSlot}]
    /\ accepted \in [AcceptWorkers -> BOOLEAN]
    /\ self \in [Retriers -> BOOLEAN]

(* Until Stop(), no accept slot is lost or used twice: each is in one place, *)
(* posted or in the hands of one thread, unless a retry thread could not be  *)
(* created.                                                                  *)
SlotInOnePlace ==
    \A s \in Slots :
        LET hands  == {t \in AcceptThreads : slotAt[t] = s}
            places == {i \in 1 .. 3 : s \in <<unstarted, posted, lost>>[i]}
        IN  /\ Cardinality(hands) + Cardinality(places) <= 1
            /\ ~closing /\ life = "live" => hands # {} \/ places # {}

(* The listener is destroyed only after every detached retry thread is done  *)
(* with it: nobody is inside its code, or waits on its mutex, when the       *)
(* destructor has returned.  Before, each of them has a slot of its own, and *)
(* no slot has got lost on the way.                                          *)
NobodyInFreedListener ==
    /\ SlotInOnePlace
    /\ life = "freed" =>
        \A t \in AcceptThreads : at[t] \in {"none", "idle"} \/ (t \in Retriers /\ at[t] = "drop")

(* Stop() returns, and a destructor that has begun ends, whichever thread    *)
(* runs it: no retry thread waits for itself.                                *)
StopEnds ==
    /\ at["main"] = "stopClose" ~> stopped
    /\ life = "dying" ~> life = "freed"
=============================================================================
