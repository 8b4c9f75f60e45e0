---------------------------- MODULE HttpConnPool ----------------------------
(* CHttpConnPoolT with the CHttpClientCore of each of its sessions           *)
(* (UtilCore/Network/HTTP): requests wait in the pool or travel on a session,*)
(* one at a time.  A request's callback is called by whoever gets to it      *)
(* first: the receive that completes the response, the end of the session,   *)
(* the time-out scan, the sender that could not send, or Close().            *)
(*                                                                           *)
(* A step is one region under _lock or m_lock with the calls that follow it, *)
(* up to the next region that another thread could come before.  What the    *)
(* sessions promise the pool is IocpSession's: the callbacks of one session  *)
(* follow each other, OnDisconnected() last, and only then does the service  *)
(* forget it.  TLS, between the two, and back-off delays are left out.       *)
EXTENDS Integers, FiniteSets, SequencesExt

CONSTANTS
    Requests,         \* each is submitted once, by a thread of its own
    Idempotent,       \* those of them that are GET or HEAD
    Links,            \* sessions that can be made before socket creation fails
    TaskThread,       \* _taskThread
    Closer,           \* the thread that may call Close()
    MinIdle, MaxConnections,
    MaxReserved,      \* bound: reconnections reserved at a time
    NoRequest, NoLink

ASSUME HttpConnPoolConstants ==
    /\ Idempotent \subseteq Requests
    /\ MinIdle \in Nat /\ MaxConnections \in Nat /\ MaxReserved \in Nat
    /\ Requests \intersect Links = {} /\ TaskThread # Closer
    /\ {TaskThread, Closer} \intersect (Requests \union Links) = {}
    /\ NoRequest \notin Requests /\ NoLink \notin Links

VARIABLES
    conn,          \* of a session: none, connecting, up, closing, lost (OnDisconnected() runs), gone
    core,          \* of a session: its CHttpClientCore, see Fresh
    idle, pending, \* _idleSessions, _pendingRequests
    connected,     \* _connectedSessions
    poolClosed,    \* _closed
    stopped,       \* _delayedTaskQueue has been stopped
    reconnects,    \* reconnections reserved in it
    scan,          \* ScanTimeouts(): sessions it has yet to look at
    thread,        \* where a submitter, a session's worker, TaskThread or Closer is, see Resting
    left,          \* retriesLeft
    late,          \* requests over their time
    answered       \* history: calls of a request's callback

listVars  == <<idle, pending, connected>>
timerVars == <<stopped, reconnects, scan>>
tellVars  == <<late, answered>>
poolVars  == <<conn, core, listVars, poolClosed, timerVars, thread, left, tellVars>>

HttpThreads == Requests \union Links \union {TaskThread, Closer}

(* CHttpClientCore: m_onComplete - m_state is AwaitingResponse exactly when  *)
(* there is one -, m_sendInProgress, the deferred result, and of m_parser    *)
(* whether bytes were fed, it timed out, the connection is not to be reused. *)
Fresh == [request |-> NoRequest, sending |-> FALSE, deferred |-> "none",
          fed |-> FALSE, timedOut |-> FALSE, close |-> FALSE]
Resting == [step |-> "idle", req |-> NoRequest, ses |-> NoLink, ok |-> FALSE]

PoolInit ==
    /\ LET first == CHOOSE S \in SUBSET Links : Cardinality(S) = MinIdle
       IN conn = [s \in Links |-> IF s \in first THEN "connecting" ELSE "none"]
    /\ core = [s \in Links |-> Fresh]
    /\ idle = <<>> /\ pending = <<>> /\ connected = {}
    /\ poolClosed = FALSE /\ stopped = FALSE /\ reconnects = 0 /\ scan = {}
    /\ thread = [t \in HttpThreads |->
                   IF t \in Requests THEN [Resting EXCEPT !.step = "new", !.req = t] ELSE Resting]
    /\ left = [r \in Requests |-> IF r \in Idempotent THEN 1 ELSE 0]
    /\ late = {}
    /\ answered = [r \in Requests |-> 0]

-----------------------------------------------------------------------------
(* q without the members of S, in the order of q.                            *)
Without(q, S) ==
    LET kept == {i \in DOMAIN q : q[i] \notin S}
        Rank(i) == Cardinality({j \in kept : j <= i})
    IN  [k \in 1..Cardinality(kept) |-> q[CHOOSE i \in kept : Rank(i) = k]]

Is(t, p) == thread[t].step = p
ToStep(t, p) == thread' = [thread EXCEPT ![t].step = p]

(* The call that handled a request returns: to the scan, or to the end of    *)
(* the session's OnDisconnected().                                           *)
Returns(t) ==
    thread' = [thread EXCEPT ![t] =
                 [Resting EXCEPT !.step = IF t \in Links /\ conn[t] = "lost" THEN "down"
                                          ELSE IF t = TaskThread /\ scan # {} THEN "scan" ELSE "idle"]]

(* Thread t calls the callback of the request that session s had.            *)
CallBack(t, s, ok) ==
    thread' = [thread EXCEPT ![t] =
                 [step |-> "callback", req |-> core[s].request, ses |-> s, ok |-> ok]]

Answer(R) ==
    /\ answered' = [r \in Requests |-> IF r \in R THEN answered[r] + 1 ELSE answered[r]]
    /\ late' = late \ R

IsUp(s) == conn[s] = "up"
InPool == {s \in Links : conn[s] \in {"connecting", "up", "closing", "lost"}}
WorkersRun == thread[Closer].step \notin {"fail", "closed"}

Cut(s) == IF conn[s] \in {"connecting", "up"} THEN "closing" ELSE conn[s]

(* A stopped queue takes no more tasks.                                      *)
ScheduleReconnect ==
    reconnects' = IF stopped \/ reconnects = MaxReserved THEN reconnects ELSE reconnects + 1

DiscardSession(s) == conn' = [conn EXCEPT ![s] = Cut(s)] /\ ScheduleReconnect

-----------------------------------------------------------------------------
(* Submit(): a new request goes to the back of the queue, a retry in front.  *)
Submitting(t) == thread[t].step \in {"new", "submit"}
Usable == {i \in DOMAIN idle : IsUp(idle[i])}

SubmitClosed(t) ==
    /\ Submitting(t) /\ poolClosed
    /\ Answer({thread[t].req})
    /\ Returns(t)
    /\ UNCHANGED <<conn, core, listVars, poolClosed, timerVars, left>>

SubmitIdle(t) ==
    /\ Submitting(t) /\ ~poolClosed /\ Usable # {}
    /\ LET i == CHOOSE k \in Usable : \A j \in Usable : j <= k
       IN /\ idle' = SubSeq(idle, 1, i - 1)
          /\ thread' = [thread EXCEPT ![t].step = "begin", ![t].ses = idle[i]]
    /\ UNCHANGED <<conn, core, pending, connected, poolClosed, timerVars, left, tellVars>>

(* What TryGrow() counts, and the session it makes then, are not one step.   *)
SubmitQueued(t) ==
    /\ Submitting(t) /\ ~poolClosed /\ Usable = {}
    /\ idle' = <<>>
    /\ LET r == thread[t].req
       IN pending' = IF Is(t, "new") THEN Append(pending, r) ELSE <<r>> \o pending
    /\ IF Cardinality(InPool) < MaxConnections THEN ToStep(t, "connect") ELSE Returns(t)
    /\ UNCHANGED <<conn, core, connected, poolClosed, timerVars, left, tellVars>>

(* ConnectOneMoreSession(), refused while the service closes.                *)
ConnectOneMore(t) ==
    /\ Is(t, "connect") /\ ~Is(Closer, "drain")
    /\ \E s \in Links :
         /\ conn[s] = "none"
         /\ conn' = [conn EXCEPT ![s] = "connecting"]
    /\ Returns(t)
    /\ UNCHANGED <<core, listVars, poolClosed, timerVars, left, tellVars>>

ConnectFails(t) ==
    /\ Is(t, "connect")
    /\ ScheduleReconnect
    /\ Returns(t)
    /\ UNCHANGED <<conn, core, listVars, poolClosed, stopped, scan, left, tellVars>>

-----------------------------------------------------------------------------
(* DispatchToSession() and BeginRequest().                                   *)
(* A session that cannot send disconnects, or is short of memory.            *)
SendBytes(t) ==
    LET s == thread[t].ses
    IN  /\ Is(t, "send")
        /\ \E ok \in BOOLEAN :
             /\ ok => IsUp(s)
             /\ thread' = [thread EXCEPT ![t].step = "sent", ![t].ok = ok]
             /\ \/ UNCHANGED conn
                \/ ~ok /\ conn' = [conn EXCEPT ![s] = Cut(s)]
        /\ UNCHANGED <<core, listVars, poolClosed, timerVars, left, tellVars>>

Told(s) == core[s].request = NoRequest
SendOver(s) == core' = [core EXCEPT ![s] = [@ EXCEPT !.sending = FALSE, !.deferred = "none", !.request = NoRequest]]

(* The response came during the send: it is told now, sent or not.           *)
SentAnswered(t) ==
    LET s == thread[t].ses
    IN  /\ Is(t, "sent") /\ core[s].deferred # "none" /\ ~Told(s)
        /\ SendOver(s)
        /\ CallBack(t, s, core[s].deferred = "success")
        /\ UNCHANGED <<conn, listVars, poolClosed, timerVars, left, tellVars>>

Sent(t) ==
    LET s == thread[t].ses
    IN  /\ Is(t, "sent") /\ thread[t].ok /\ (core[s].deferred = "none" \/ Told(s))
        /\ core' = [core EXCEPT ![s].sending = FALSE]
        /\ Returns(t)
        /\ UNCHANGED <<conn, listVars, poolClosed, timerVars, left, tellVars>>

(* A time-out or the end of the session has told the request already.        *)
SentTold(t) ==
    LET s == thread[t].ses
    IN  /\ Is(t, "sent") /\ ~thread[t].ok /\ Told(s)
        /\ SendOver(s)
        /\ Returns(t)
        /\ UNCHANGED <<conn, listVars, poolClosed, timerVars, left, tellVars>>

(* A retry: the session is given up, and the request submitted once more.    *)
SubmitAgain(t) ==
    LET r == thread[t].req
    IN  /\ DiscardSession(thread[t].ses)
        /\ left' = [left EXCEPT ![r] = @ - 1]
        /\ thread' = [thread EXCEPT ![t] = [Resting EXCEPT !.step = "submit", !.req = r]]
        /\ UNCHANGED <<listVars, poolClosed, stopped, scan, tellVars>>

(* SendRequest() returned false: DispatchToSession() sees to the request.    *)
NotBegun(t) ==
    IF left[thread[t].req] > 0 THEN SubmitAgain(t)
    ELSE /\ Answer({thread[t].req})
         /\ DiscardSession(thread[t].ses)
         /\ Returns(t)
         /\ UNCHANGED <<listVars, poolClosed, stopped, scan, left>>

(* Mutant: the sender sees to a request that has been told already.          *)
SentFailedBlind(t) ==
    LET s == thread[t].ses
    IN  /\ Is(t, "sent") /\ ~thread[t].ok /\ core[s].deferred = "none"
        /\ SendOver(s)
        /\ NotBegun(t)

SentFailed(t) ==
    LET s == thread[t].ses
    IN  /\ Is(t, "sent") /\ ~thread[t].ok /\ core[s].deferred = "none" /\ ~Told(s)
        /\ SendOver(s)
        /\ NotBegun(t)

(* The core awaits the response before the first byte is sent.  It refuses a *)
(* second request, which OneRequestPerSession says nobody tries.             *)
Begin(t) ==
    LET s == thread[t].ses
    IN  /\ Is(t, "begin")
        /\ IF Told(s)
           THEN /\ core' = [core EXCEPT ![s] =
                              [Fresh EXCEPT !.request = thread[t].req, !.sending = TRUE]]
                /\ ToStep(t, "send")
                /\ UNCHANGED <<conn, listVars, poolClosed, timerVars, left, tellVars>>
           ELSE NotBegun(t) /\ UNCHANGED core

-----------------------------------------------------------------------------
(* The callback of a request that was sent.  One that failed before a byte   *)
(* of its response came, other than by a time-out, is sent again.            *)
MayRetry(t) ==
    LET c == core[thread[t].ses]
    IN  ~thread[t].ok /\ left[thread[t].req] > 0 /\ ~c.timedOut /\ ~c.fed

RetryFailed(t) == Is(t, "callback") /\ MayRetry(t) /\ SubmitAgain(t) /\ UNCHANGED core

(* The user is told, and OnRequestComplete() gives the session up            *)
Discard(t) ==
    LET s == thread[t].ses
    IN  /\ Is(t, "callback") /\ ~MayRetry(t)
        /\ ~thread[t].ok \/ core[s].close \/ ~IsUp(s)
        /\ Answer({thread[t].req})
        /\ DiscardSession(s)
        /\ Returns(t)
        /\ UNCHANGED <<core, listVars, poolClosed, stopped, scan, left>>

(* or has found it connected, and goes on to DispatchOrIdle().               *)
Reuse(t) ==
    LET s == thread[t].ses
    IN  /\ Is(t, "callback") /\ thread[t].ok /\ ~core[s].close /\ IsUp(s)
        /\ Answer({thread[t].req})
        /\ thread' = [thread EXCEPT ![t] = [Resting EXCEPT !.step = "give", !.ses = s]]
        /\ UNCHANGED <<conn, core, listVars, poolClosed, timerVars, left>>

DispatchNext(t) ==
    /\ Is(t, "give") /\ pending # <<>>
    /\ pending' = Tail(pending)
    /\ thread' = [thread EXCEPT ![t].step = "begin", ![t].req = Head(pending)]
    /\ UNCHANGED <<conn, core, idle, connected, poolClosed, timerVars, left, tellVars>>

BecomeIdle(t) ==
    /\ Is(t, "give") /\ pending = <<>>
    /\ idle' = Append(idle, thread[t].ses)
    /\ Returns(t)
    /\ UNCHANGED <<conn, core, pending, connected, poolClosed, timerVars, left, tellVars>>

-----------------------------------------------------------------------------
(* A connect ends well: OnSessionConnStateChanged(true).                     *)
OnSessionConnected(s) ==
    /\ conn[s] = "connecting" /\ Is(s, "idle") /\ WorkersRun
    /\ conn' = [conn EXCEPT ![s] = "up"]
    /\ connected' = connected \union {s}
    /\ thread' = [thread EXCEPT ![s].step = "give", ![s].ses = s]
    /\ UNCHANGED <<core, idle, pending, poolClosed, timerVars, left, tellVars>>

(* A connect fails, or the peer closes.                                      *)
Broken(s) ==
    /\ conn[s] \in {"connecting", "up"} /\ WorkersRun
    /\ conn' = [conn EXCEPT ![s] = "closing"]
    /\ UNCHANGED <<core, listVars, poolClosed, timerVars, thread, left, tellVars>>

(* FeedRecv() while a response is awaited: more is to come, or it is         *)
(* complete, or malformed.  Bytes nobody waits for are ignored.              *)
Receiving(s) ==
    /\ Is(s, "idle") /\ IsUp(s) /\ ~Told(s) /\ core[s].deferred = "none"
    /\ late' = late \ {core[s].request}

FeedMore(s) ==
    /\ Receiving(s)
    /\ core' = [core EXCEPT ![s].fed = TRUE]
    /\ UNCHANGED <<conn, listVars, poolClosed, timerVars, thread, left, answered>>

(* Mutant: a response is told though its request is still being sent.        *)
FeedCompleteAtOnce(s) ==
    /\ Receiving(s)
    /\ \E success, close \in BOOLEAN :
         /\ core' = [core EXCEPT ![s].fed = TRUE, ![s].close = close, ![s].request = NoRequest]
         /\ CallBack(s, s, success)
    /\ UNCHANGED <<conn, listVars, poolClosed, timerVars, left, answered>>

FeedComplete(s) ==
    /\ Receiving(s)
    /\ \E success, close \in BOOLEAN :
         LET parsed == [core[s] EXCEPT !.fed = TRUE, !.close = close]
         IN  IF core[s].sending
             THEN /\ core' = [core EXCEPT ![s] =
                                [parsed EXCEPT !.deferred = IF success THEN "success" ELSE "failure"]]
                  /\ UNCHANGED thread
             ELSE /\ core' = [core EXCEPT ![s] = [parsed EXCEPT !.request = NoRequest]]
                  /\ CallBack(s, s, success)
    /\ UNCHANGED <<conn, listVars, poolClosed, timerVars, left, answered>>

(* OnSessionDisconnected(): a response that is complete stays so, and one    *)
(* that reads until the end of the connection may be complete by it.         *)
OnSessionDisconnected(s) ==
    /\ conn[s] = "closing" /\ Is(s, "idle")
    /\ conn' = [conn EXCEPT ![s] = "lost"]
    /\ IF Told(s) THEN ToStep(s, "down") /\ UNCHANGED core
       ELSE /\ core' = [core EXCEPT ![s] = [@ EXCEPT !.request = NoRequest, !.deferred = "none"]]
            /\ \E graceful \in BOOLEAN :
                 CallBack(s, s, \/ core[s].deferred = "success"
                                \/ /\ core[s].deferred = "none" /\ graceful
                                   /\ ~core[s].sending /\ core[s].fed)
    /\ UNCHANGED <<listVars, poolClosed, timerVars, left, tellVars>>

(* OnSessionConnStateChanged(false), and then the service's ReleaseSession() *)
Down(s) ==
    /\ Is(s, "down")
    /\ connected' = connected \ {s}
    /\ idle' = Without(idle, {s})
    /\ ScheduleReconnect
    /\ ToStep(s, "release")
    /\ UNCHANGED <<conn, core, pending, poolClosed, stopped, scan, left, tellVars>>

ReleaseSession(s) ==
    /\ Is(s, "release")
    /\ conn' = [conn EXCEPT ![s] = "gone"]
    /\ ToStep(s, "idle")
    /\ UNCHANGED <<core, listVars, poolClosed, timerVars, left, tellVars>>

-----------------------------------------------------------------------------
(* The timer: reconnections, and every half second ScanTimeouts().           *)
Reconnect ==
    /\ Is(TaskThread, "idle") /\ ~stopped /\ reconnects > 0
    /\ reconnects' = reconnects - 1
    /\ IF Cardinality(InPool) >= MinIdle \/ Cardinality(InPool) >= MaxConnections
       THEN UNCHANGED thread ELSE ToStep(TaskThread, "connect")
    /\ UNCHANGED <<conn, core, listVars, poolClosed, stopped, scan, left, tellVars>>

ScanTimeouts ==
    /\ Is(TaskThread, "idle") /\ ~stopped
    /\ pending' = Without(pending, late)
    /\ Answer(ToSet(pending) \intersect late)
    /\ scan' = connected
    /\ ToStep(TaskThread, IF connected = {} THEN "idle" ELSE "scan")
    /\ UNCHANGED <<conn, core, idle, connected, poolClosed, stopped, reconnects, left>>

(* CheckTimeout()                                                            *)
CheckTimeout ==
    /\ Is(TaskThread, "scan")
    /\ \E s \in scan :
         /\ scan' = scan \ {s}
         /\ IF core[s].request \in late /\ core[s].deferred = "none"
            THEN /\ core' = [core EXCEPT ![s] = [@ EXCEPT !.timedOut = TRUE, !.request = NoRequest]]
                 /\ CallBack(TaskThread, s, FALSE)
            ELSE /\ ToStep(TaskThread, IF scan = {s} THEN "idle" ELSE "scan")
                 /\ UNCHANGED core
    /\ UNCHANGED <<conn, listVars, poolClosed, stopped, reconnects, left, tellVars>>

TimePasses(r) ==
    /\ ~Is(r, "new") /\ answered[r] = 0 /\ r \notin late
    /\ late' = late \union {r}
    /\ UNCHANGED <<conn, core, listVars, poolClosed, timerVars, thread, left, answered>>

-----------------------------------------------------------------------------
(* Close(): the flag, the timer's end, the service's Close() - which admits  *)
(* sessions again once it is over, though no worker serves them - and what   *)
(* still waits.                                                              *)
CloseBegins ==
    /\ Is(Closer, "idle") /\ poolClosed' = TRUE
    /\ ToStep(Closer, "stop")
    /\ UNCHANGED <<conn, core, listVars, timerVars, left, tellVars>>

StopTaskThread ==
    /\ Is(Closer, "stop")
    /\ stopped' = TRUE /\ reconnects' = 0
    /\ ToStep(Closer, "join")
    /\ UNCHANGED <<conn, core, listVars, poolClosed, scan, left, tellVars>>

CloseService ==
    /\ Is(Closer, "join") /\ Is(TaskThread, "idle")
    /\ conn' = [s \in Links |-> Cut(s)]
    /\ ToStep(Closer, "drain")
    /\ UNCHANGED <<core, listVars, poolClosed, timerVars, left, tellVars>>

SessionsEmpty ==
    /\ Is(Closer, "drain") /\ InPool = {}
    /\ ToStep(Closer, "fail")
    /\ UNCHANGED <<conn, core, listVars, poolClosed, timerVars, left, tellVars>>

FailPendingRequests ==
    /\ Is(Closer, "fail")
    /\ pending' = <<>>
    /\ Answer(ToSet(pending))
    /\ ToStep(Closer, "closed")
    /\ UNCHANGED <<conn, core, idle, connected, poolClosed, timerVars, left>>

-----------------------------------------------------------------------------
PoolNext ==
    \/ \E t \in HttpThreads :
         \/ SubmitClosed(t) \/ SubmitIdle(t) \/ SubmitQueued(t) \/ ConnectOneMore(t) \/ ConnectFails(t)
         \/ Begin(t) \/ SendBytes(t)
         \/ SentAnswered(t) \/ Sent(t) \/ SentTold(t) \/ SentFailed(t)
         \/ RetryFailed(t) \/ Discard(t) \/ Reuse(t) \/ DispatchNext(t) \/ BecomeIdle(t)
    \/ \E r \in Requests : TimePasses(r)
    \/ \E s \in Links :
         \/ OnSessionConnected(s) \/ Broken(s) \/ FeedMore(s) \/ FeedComplete(s)
         \/ OnSessionDisconnected(s) \/ Down(s) \/ ReleaseSession(s)
    \/ Reconnect \/ ScanTimeouts \/ CheckTimeout
    \/ CloseBegins \/ StopTaskThread \/ CloseService \/ SessionsEmpty \/ FailPendingRequests

PoolSpec == PoolInit /\ [][PoolNext]_poolVars

-----------------------------------------------------------------------------
HeldBy(t, r) == thread[t].req = r /\ thread[t].step \in {"new", "submit", "begin", "callback"}
SentBy(t, s) == thread[t].ses = s /\ thread[t].step \in {"send", "sent"}
Places(r) ==
    Cardinality({t \in HttpThreads : HeldBy(t, r)})
    + Cardinality({s \in Links : core[s].request = r})
    + Cardinality({i \in DOMAIN pending : pending[i] = r})

(* The contract of BeginRequest() and of Submit(): the callback of a request *)
(* is called once, and until then exactly one thread, session or queue has   *)
(* it - a retry, a response during the send, a failed send, a time-out, the  *)
(* end of the session and Close() never both answer, nor each leave it to    *)
(* the other.  Somebody also comes for what waits: Close(), if not the scan, *)
(* for the queue; the end of a session the scan knows, or its sender.        *)
AnsweredOnce ==
    /\ \A r \in Requests : answered[r] + Places(r) = 1
    /\ pending # <<>> => ~Is(Closer, "closed")
    /\ \A s \in Links : ~Told(s) =>
         \/ conn[s] \in {"up", "closing"} /\ s \in connected /\ WorkersRun
         \/ \E t \in HttpThreads : SentBy(t, s) /\ thread[t].req = core[s].request

(* No two requests share a connection: nobody begins or sends on a session   *)
(* while another one sends or awaits its response there, or while it is      *)
(* offered as idle - a response would be read as that of the other request.  *)
OneRequestPerSession ==
    \A s \in Links :
      LET takers == {t \in HttpThreads : thread[t].ses = s /\ thread[t].step \in {"begin", "give"}}
          offers == Cardinality(takers) + Cardinality({i \in DOMAIN idle : idle[i] = s})
      IN  /\ offers + Cardinality({t \in HttpThreads : SentBy(t, s)}) <= 1
          /\ offers > 0 => Told(s)
=============================================================================
