----------------------------- MODULE IocpService -----------------------------
(* CNetService with CIocpServerService and CIocpClientService: the list of   *)
(* sessions, the session manager's map, the count of active sessions, and    *)
(* Close(), which has to end all of it while sessions come and go.           *)
(*                                                                           *)
(* A session is reduced to its state and to the one notification of its end  *)
(* (IocpSession has the rest); a listener to the fact that it hands over     *)
(* sessions until it is stopped (IocpListener).  A step is one access to an  *)
(* atomic or one locked region.  Waits may time out at any moment.           *)
EXTENDS Integers, Sequences, FiniteSets, SequencesExt

CONSTANTS
    Sessions,   \* the sessions that may be accepted or connected
    NoSession,  \* none of them
    Workers,    \* IOCP worker threads
    Limit,      \* _maxSessionCount
    Kinds,      \* services to start in: subset of {"server", "client"}
    Enforces    \* values of _enforceMaxSessionCount

ASSUME ServiceSessions == NoSession \notin Sessions /\ IsFiniteSet(Sessions)
ASSUME ServiceThreads == {"closer", "reaper", "app"} \intersect Workers = {}
ASSUME ServiceLimit == Limit \in Nat \ {0} /\ Kinds \subseteq {"server", "client"} /\ Enforces \subseteq BOOLEAN

Threads == Workers \union {"closer", "reaper", "app"}

VARIABLES
    kind, enforce,
    list, index,    \* CNetService::_sessions and _sessionIndex (0: absent)
    manager,        \* the sessions in CIocpSessionManager::_sessions
    active,         \* _activeSessionCount
    refuse,         \* CNetService::_closing
    state,          \* the session's _state, "none" before it exists
    numbered,       \* GetSessionId() # 0
    notified,       \* the session's _disconnectNotified
    connecting,     \* its ConnectEx is pending
    listening,      \* the listener has not been stopped
    shuttingDown,   \* _workers has been told to stop
    phase,          \* where Close() is
    todo,           \* snapshot the closer, or the idle sweep, goes through
    place, on       \* of each thread: where it is, and the session it works for

sessionVars == <<state, numbered, notified, connecting>>
listVars == <<list, index, manager, active>>
closeVars == <<refuse, listening, shuttingDown, phase>>
serviceVars == <<kind, enforce, listVars, sessionVars, closeVars, todo, place, on>>

ServiceInit ==
    /\ kind \in Kinds
    /\ enforce \in (IF kind = "server" THEN Enforces ELSE {FALSE})
    /\ list = <<>> /\ index = [s \in Sessions |-> 0]
    /\ manager = {}
    /\ active = 0
    /\ refuse = FALSE
    /\ state = [s \in Sessions |-> "none"]
    /\ numbered = [s \in Sessions |-> FALSE]
    /\ notified = [s \in Sessions |-> FALSE]
    /\ connecting = [s \in Sessions |-> FALSE]
    /\ listening = (kind = "server")
    /\ shuttingDown = FALSE
    /\ phase = "open"
    /\ todo = [t \in {"closer", "reaper"} |-> {}]
    /\ place = [t \in Threads |-> "idle"]
    /\ on = [t \in Threads |-> NoSession]

-----------------------------------------------------------------------------
Go(t, p, s) ==
    /\ place' = [place EXCEPT ![t] = p]
    /\ on' = [on EXCEPT ![t] = IF p = "idle" THEN NoSession ELSE s]

InList(s) == index[s] # 0

(* The first place of the notification: OnSessionDisconnected() of a server, *)
(* which begins with the test of the session's number, or ReleaseSession().  *)
NotifyPlace(s) == IF kind = "server" /\ numbered[s] THEN "unmap" ELSE "release"

(* FailConnect(): closed for certain; the first to raise the flag notifies.  *)
FailConnect(t, s) ==
    /\ state' = [state EXCEPT ![s] = "Closed"]
    /\ notified' = [notified EXCEPT ![s] = TRUE]
    /\ IF notified[s] THEN Go(t, "idle", s) ELSE Go(t, NotifyPlace(s), s)

(* Disconnect(): of a connected session it posts DisconnectEx, whose end a   *)
(* worker reports, or which ends on the spot; of a new one it is a failed    *)
(* connect; of a closing one nothing.                                        *)
Disconnect(t, s) ==
    \/ /\ state[s] = "Connected"
       /\ state' = [state EXCEPT ![s] = "Disconnecting"]
       /\ Go(t, "idle", s)
       /\ UNCHANGED notified
    \/ state[s] \in {"Created", "Connected"} /\ FailConnect(t, s)
    \/ /\ state[s] \in {"Disconnecting", "Closed"}
       /\ Go(t, "idle", s)
       /\ UNCHANGED <<state, notified>>

(* Mutant: the limit is compared with the count before this session.         *)
AcceptCountLate(w) ==
    /\ place[w] = "count"
    /\ active' = active + 1
    /\ Go(w, IF enforce /\ active > Limit THEN "reject" ELSE "number", on[w])
    /\ UNCHANGED <<kind, enforce, list, index, manager, sessionVars, closeVars, todo>>

-----------------------------------------------------------------------------
(* The accept callback, on a worker.  The listener tests its own closing     *)
(* flag before; the callback may come after Stop().                          *)
Accept(w, s) ==
    /\ kind = "server" /\ listening
    /\ place[w] = "idle" /\ state[s] = "none"
    /\ state' = [state EXCEPT ![s] = "Created"]
    /\ Go(w, "count", s)
    /\ UNCHANGED <<kind, enforce, listVars, numbered, notified, connecting, closeVars, todo>>

AcceptCount(w) ==
    /\ place[w] = "count"
    /\ active' = active + 1
    /\ Go(w, IF enforce /\ active' > Limit THEN "reject" ELSE "number", on[w])
    /\ UNCHANGED <<kind, enforce, list, index, manager, sessionVars, closeVars, todo>>

AcceptReject(w) ==
    /\ place[w] = "reject"
    /\ active' = active - 1
    /\ state' = [state EXCEPT ![on[w]] = "Closed"]
    /\ Go(w, "idle", on[w])
    /\ UNCHANGED <<kind, enforce, list, index, manager, numbered, notified, connecting, closeVars, todo>>

AcceptNumber(w) ==
    /\ place[w] = "number"
    /\ numbered' = [numbered EXCEPT ![on[w]] = TRUE]
    /\ Go(w, "add", on[w])
    /\ UNCHANGED <<kind, enforce, listVars, state, notified, connecting, closeVars, todo>>

(* CNetService::AddSession(), under _lock; refused while the service closes, *)
(* and then the session is disconnected.                                     *)
AddSession(t) ==
    /\ place[t] = "add"
    /\ IF refuse
       THEN Disconnect(t, on[t]) /\ UNCHANGED <<list, index>>
       ELSE /\ list' = IF InList(on[t]) THEN list ELSE Append(list, on[t])
            /\ index' = [index EXCEPT ![on[t]] = IF InList(on[t]) THEN @ ELSE Len(list) + 1]
            /\ Go(t, IF kind = "server" THEN "map" ELSE "connectAsync", on[t])
            /\ UNCHANGED <<state, notified>>
    /\ UNCHANGED <<kind, enforce, manager, active, numbered, connecting, closeVars, todo>>

(* CIocpSessionManager::AddSession(), under the lock of its cluster.         *)
AcceptMap(w) ==
    /\ place[w] = "map"
    /\ manager' = manager \union {on[w]}
    /\ Go(w, "connect", on[w])
    /\ UNCHANGED <<kind, enforce, list, index, active, sessionVars, closeVars, todo>>

(* ProcessConnect(): nothing happens to a session closed meanwhile.          *)
ProcessConnect(w) ==
    /\ place[w] = "connect"
    /\ state' = [state EXCEPT ![on[w]] = IF @ = "Created" THEN "Connected" ELSE @]
    /\ Go(w, "idle", on[w])
    /\ UNCHANGED <<kind, enforce, listVars, numbered, notified, connecting, closeVars, todo>>

-----------------------------------------------------------------------------
(* A client: ConnectOneMoreSession(), by Start() or by the application.      *)
ConnectOneMoreSession(s) ==
    /\ kind = "client" /\ phase # "closed"
    /\ place["app"] = "idle" /\ state[s] = "none"
    /\ state' = [state EXCEPT ![s] = "Created"]
    /\ Go("app", "add", s)
    /\ UNCHANGED <<kind, enforce, listVars, numbered, notified, connecting, closeVars, todo>>

(* ConnectAsync(): refused for a session closed meanwhile; otherwise ConnectEx*)
(* is posted, or the connect fails on the spot.                              *)
ConnectAsync(t) ==
    /\ place[t] = "connectAsync"
    /\ \/ /\ state[on[t]] # "Created"
          /\ Go(t, "idle", on[t])
          /\ UNCHANGED <<state, notified, connecting>>
       \/ /\ state[on[t]] = "Created"
          /\ connecting' = [connecting EXCEPT ![on[t]] = TRUE]
          /\ Go(t, "idle", on[t])
          /\ UNCHANGED <<state, notified>>
       \/ state[on[t]] = "Created" /\ FailConnect(t, on[t]) /\ UNCHANGED connecting
    /\ UNCHANGED <<kind, enforce, listVars, numbered, closeVars, todo>>

(* ProcessConnectEx(), on a worker.                                          *)
ConnectCompletes(w, s) ==
    /\ place[w] = "idle" /\ connecting[s]
    /\ connecting' = [connecting EXCEPT ![s] = FALSE]
    /\ \/ Go(w, "connect", s) /\ UNCHANGED <<state, notified>>
       \/ FailConnect(w, s)
    /\ UNCHANGED <<kind, enforce, listVars, numbered, closeVars, todo>>

-----------------------------------------------------------------------------
(* The peer closes, or an operation fails: a worker disconnects the session. *)
PeerCloses(w, s) ==
    /\ place[w] = "idle" /\ state[s] = "Connected"
    /\ Disconnect(w, s)
    /\ UNCHANGED <<kind, enforce, listVars, numbered, connecting, closeVars, todo>>

(* The last completion of a disconnecting session, on a worker.              *)
DisconnectCompletes(w, s) ==
    /\ place[w] = "idle" /\ state[s] = "Disconnecting" /\ ~notified[s]
    /\ FailConnect(w, s)
    /\ UNCHANGED <<kind, enforce, listVars, numbered, connecting, closeVars, todo>>

(* OnSessionDisconnected(): the map, the count, then the list.               *)
RemoveSession(t) ==
    /\ place[t] = "unmap"
    /\ manager' = manager \ {on[t]}
    /\ Go(t, "uncount", on[t])
    /\ UNCHANGED <<kind, enforce, list, index, active, sessionVars, closeVars, todo>>

UncountSession(t) ==
    /\ place[t] = "uncount"
    /\ active' = active - 1
    /\ Go(t, "release", on[t])
    /\ UNCHANGED <<kind, enforce, list, index, manager, sessionVars, closeVars, todo>>

(* ReleaseSession(): the last session takes the place of the removed one.    *)
ReleaseSession(t) ==
    /\ place[t] = "release"
    /\ LET s == on[t]
           moved == Last(list)
       IN  IF InList(s)
           THEN /\ list' = Front([list EXCEPT ![index[s]] = moved])
                /\ index' = [index EXCEPT ![moved] = index[s], ![s] = 0]
           ELSE UNCHANGED <<list, index>>
    /\ Go(t, "idle", on[t])
    /\ UNCHANGED <<kind, enforce, manager, active, sessionVars, closeVars, todo>>

-----------------------------------------------------------------------------
(* The reap thread of a server; its queue is stopped first of all.           *)

(* Mutant: whatever is not connected is reaped.                              *)
ReapableUnconnected(s) == state[s] # "Connected"

(* RemoveClosedSessions(), one cluster: a session that is not connected and  *)
(* has a close reason, so not one that is only about to be connected.        *)
Reapable(s) == state[s] \in {"Disconnecting", "Closed"}

ReapCluster(s) ==
    /\ kind = "server" /\ phase \in {"open", "joinReap"} /\ place["reaper"] = "idle" /\ todo["reaper"] = {}
    /\ s \in manager /\ Reapable(s)
    /\ manager' = manager \ {s}
    /\ UNCHANGED <<kind, enforce, list, index, active, sessionVars, closeVars, todo, place, on>>

(* DisconnectIdleSessions(): the snapshot, then one session after another.   *)
SweepIdle ==
    /\ kind = "server" /\ phase = "open" /\ place["reaper"] = "idle" /\ todo["reaper"] = {}
    /\ \E idle \in SUBSET {s \in manager : state[s] = "Connected"} :
          idle # {} /\ todo' = [todo EXCEPT !["reaper"] = idle]
    /\ UNCHANGED <<kind, enforce, listVars, sessionVars, closeVars, place, on>>

SweepNext(s) ==
    /\ place["reaper"] = "idle" /\ s \in todo["reaper"]
    /\ todo' = [todo EXCEPT !["reaper"] = @ \ {s}]
    /\ IF state[s] = "Connected" THEN Disconnect("reaper", s) ELSE UNCHANGED <<state, notified, place, on>>
    /\ UNCHANGED <<kind, enforce, listVars, numbered, connecting, closeVars>>

-----------------------------------------------------------------------------
(* Close().  A client has no reap thread, listener or manager.               *)
Step(from, to) == phase = from /\ place["closer"] = "idle" /\ phase' = to

CloseBegins ==
    /\ Step("open", IF kind = "server" THEN "joinReap" ELSE "refuse")
    /\ UNCHANGED <<kind, enforce, listVars, sessionVars, refuse, listening, shuttingDown, todo, place, on>>

CloseJoinReap ==
    /\ Step("joinReap", "stopListener")
    /\ place["reaper"] = "idle" /\ todo["reaper"] = {}
    /\ UNCHANGED <<kind, enforce, listVars, sessionVars, refuse, listening, shuttingDown, todo, place, on>>

CloseStopListener ==
    /\ Step("stopListener", "refuse")
    /\ listening' = FALSE
    /\ UNCHANGED <<kind, enforce, listVars, sessionVars, refuse, shuttingDown, todo, place, on>>

(* CloseSessions(): the flag, the snapshot, then the sessions one by one,    *)
(* disconnected the first time, aborted the second time.                     *)
CloseRefuse ==
    /\ \/ Step("refuse", "snapshot")
       \/ Step("refuseAgain", "snapshotAgain")
    /\ refuse' = TRUE
    /\ UNCHANGED <<kind, enforce, listVars, sessionVars, listening, shuttingDown, todo, place, on>>

CloseSnapshot ==
    /\ \/ Step("snapshot", "disconnect")
       \/ Step("snapshotAgain", "abort")
    /\ todo' = [todo EXCEPT !["closer"] = ToSet(list)]
    /\ UNCHANGED <<kind, enforce, listVars, sessionVars, refuse, listening, shuttingDown, place, on>>

CloseDisconnect(s) ==
    /\ phase = "disconnect" /\ place["closer"] = "idle"
    /\ s \in todo["closer"]
    /\ todo' = [todo EXCEPT !["closer"] = @ \ {s}]
    /\ Disconnect("closer", s)
    /\ UNCHANGED <<kind, enforce, listVars, numbered, connecting, closeVars>>

CloseAbort(s) ==
    /\ phase = "abort" /\ place["closer"] = "idle"
    /\ s \in todo["closer"]
    /\ todo' = [todo EXCEPT !["closer"] = @ \ {s}]
    /\ FailConnect("closer", s)
    /\ UNCHANGED <<kind, enforce, listVars, numbered, connecting, closeVars>>

CloseSnapshotDone ==
    /\ todo["closer"] = {}
    /\ \/ Step("disconnect", "wait")
       \/ Step("abort", "waitAgain")
    /\ UNCHANGED <<kind, enforce, listVars, sessionVars, refuse, listening, shuttingDown, todo, place, on>>

(* WaitForSessionsEmpty(): the list is empty, or the time is up.  A server   *)
(* then removes what is closed from its manager.                             *)
CloseWaited ==
    /\ Step("wait", "stopWorkers")
    /\ manager' = IF kind = "server" THEN {s \in manager : ~Reapable(s)} ELSE manager
    /\ UNCHANGED <<kind, enforce, list, index, active, sessionVars, refuse, listening, shuttingDown,
                   todo, place, on>>

(* Mutant: the first worker swallows the only wake-up, and polls have no end.*)
WorkerExitsAlone(w) ==
    /\ shuttingDown /\ place[w] = "idle"
    /\ \A v \in Workers : place[v] # "exited"
    /\ place' = [place EXCEPT ![w] = "exited"]
    /\ UNCHANGED <<kind, enforce, listVars, sessionVars, closeVars, todo, on>>

(* CIocpWorkerPool::Stop(): the flag, the wake-ups (whose key is not the QUIT*)
(* key, so that a worker may swallow another one's), and the join.  A worker *)
(* that got no wake-up sees the flag when its poll ends.                     *)
CloseStopWorkers ==
    /\ Step("stopWorkers", "joinWorkers")
    /\ shuttingDown' = TRUE
    /\ UNCHANGED <<kind, enforce, listVars, sessionVars, refuse, listening, todo, place, on>>

WorkerExits(w) ==
    /\ shuttingDown /\ place[w] = "idle"
    /\ place' = [place EXCEPT ![w] = "exited"]
    /\ UNCHANGED <<kind, enforce, listVars, sessionVars, closeVars, todo, on>>

CloseJoinWorkers ==
    /\ Step("joinWorkers", "refuseAgain")
    /\ \A w \in Workers : place[w] = "exited"
    /\ shuttingDown' = FALSE
    /\ UNCHANGED <<kind, enforce, listVars, sessionVars, refuse, listening, todo, place, on>>

CloseEnds ==
    /\ Step("waitAgain", "closed")
    /\ refuse' = FALSE
    /\ UNCHANGED <<kind, enforce, listVars, sessionVars, listening, shuttingDown, todo, place, on>>

(* Start() again: new workers, a new listener and a new reap queue.          *)
Restart ==
    /\ Step("closed", "open")
    /\ listening' = (kind = "server")
    /\ place' = [t \in Threads |-> IF t \in Workers THEN "idle" ELSE place[t]]
    /\ UNCHANGED <<kind, enforce, listVars, sessionVars, refuse, shuttingDown, todo, on>>

-----------------------------------------------------------------------------
WorkerStep(w) ==
    \/ AcceptCount(w) \/ AcceptReject(w) \/ AcceptNumber(w) \/ AcceptMap(w) \/ ProcessConnect(w)
    \/ WorkerExits(w)

ThreadStep(t) ==
    AddSession(t) \/ ConnectAsync(t) \/ RemoveSession(t) \/ UncountSession(t) \/ ReleaseSession(t)

CloserStep ==
    \/ CloseJoinReap \/ CloseStopListener \/ CloseRefuse \/ CloseSnapshot \/ CloseSnapshotDone
    \/ CloseWaited \/ CloseStopWorkers \/ CloseJoinWorkers \/ CloseEnds
    \/ \E s \in Sessions : CloseDisconnect(s) \/ CloseAbort(s)

Event(s) ==
    \/ \E w \in Workers :
          Accept(w, s) \/ ConnectCompletes(w, s) \/ PeerCloses(w, s) \/ DisconnectCompletes(w, s)
    \/ ConnectOneMoreSession(s) \/ ReapCluster(s)

ServiceNext ==
    \/ \E s \in Sessions : Event(s) \/ SweepNext(s)
    \/ \E w \in Workers : WorkerStep(w)
    \/ \E t \in Threads : ThreadStep(t)
    \/ SweepIdle \/ CloseBegins \/ CloserStep \/ Restart

(* Threads are scheduled.  Nobody connects, and no peer or system completes  *)
(* anything, unless it wants to.                                             *)
ServiceFairness ==
    /\ \A t \in Threads : WF_serviceVars(ThreadStep(t) \/ (t \in Workers /\ WorkerStep(t)))
    /\ WF_serviceVars(\E s \in Sessions : SweepNext(s))
    /\ WF_serviceVars(CloserStep)

ServiceSpec == ServiceInit /\ [][ServiceNext]_serviceVars /\ ServiceFairness

-----------------------------------------------------------------------------
Accepting == {"count", "reject", "number", "add", "map", "connect"}
Notifying == {"unmap", "uncount", "release"}

(* The list has no duplicates and the index finds each session of it at its  *)
(* place, whatever was removed from the middle.                              *)
IndexFindsList ==
    /\ IsInjective(list)
    /\ \A s \in Sessions : IF InList(s) THEN index[s] \in DOMAIN list /\ list[index[s]] = s
                                        ELSE s \notin ToSet(list)

(* The count of a server is exact as soon as no accept and no notification   *)
(* is under way: it is the length of the list.                               *)
CountIsListLength ==
    kind = "server" /\ (\A t \in Threads : place[t] \notin Accepting \union Notifying)
        => active = Len(list)

(* A connected session of a server is in both lists, and one that only the   *)
(* manager has is closed.                                                    *)
BothListed ==
    kind = "server" => \A s \in Sessions :
        /\ state[s] = "Connected" => s \in manager /\ InList(s)
        /\ s \in manager /\ ~InList(s) => state[s] = "Closed"

(* The places that know of a session agree: the list, its index, the count   *)
(* and the manager.  Broadcasts, the idle sweep and lookups then find every  *)
(* connected session, and so does Close().                                   *)
ListsAgree == IndexFindsList /\ CountIsListLength /\ BothListed

(* With a limit, no more sessions than that are admitted and not yet told of *)
(* their end, whatever workers count and uncount at the same time.           *)
LimitHolds ==
    enforce =>
        Cardinality({s \in Sessions :
            /\ ~notified[s]
            /\ state[s] \in {"Created", "Connected", "Disconnecting"}
            /\ \A w \in Workers : on[w] = s => place[w] \notin {"count", "reject"}}) <= Limit

(* Close() ends, whatever the sessions and their peers do.                   *)
CloseReturns == phase = "joinReap" \/ phase = "refuse" ~> phase = "closed"
=============================================================================
