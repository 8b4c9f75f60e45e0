------------------------- MODULE IocpService_proofs -------------------------
(* Proofs about IocpService and IocpListener, one invariant for each: who is *)
(* in a service's lists and counted by it, and who holds a listener, its     *)
(* slots and its count of retries.  The two share no variable.               *)
EXTENDS IocpService, IocpListener, FiniteSetTheorems, TLAPS

(* The places of a thread, and the phases of Close().                        *)
Places == {"idle", "exited", "count", "reject", "number", "add", "map", "connect", "connectAsync",
           "unmap", "uncount", "release"}
Phases == {"open", "joinReap", "stopListener", "refuse", "snapshot", "disconnect", "wait", "stopWorkers",
           "joinWorkers", "refuseAgain", "snapshotAgain", "abort", "waitAgain", "closed"}
Resting == {"idle", "exited"}

(* The type invariant of the service.                                        *)
TypeOK ==
    /\ kind \in {"server", "client"} /\ enforce \in BOOLEAN /\ (enforce => kind = "server")
    /\ list \in Seq(Sessions) /\ index \in [Sessions -> Nat]
    /\ manager \in SUBSET Sessions
    /\ active \in Int
    /\ refuse \in BOOLEAN /\ listening \in BOOLEAN /\ shuttingDown \in BOOLEAN
    /\ state \in [Sessions -> {"none", "Created", "Connected", "Disconnecting", "Closed"}]
    /\ numbered \in [Sessions -> BOOLEAN] /\ notified \in [Sessions -> BOOLEAN]
    /\ connecting \in [Sessions -> BOOLEAN]
    /\ phase \in Phases
    /\ todo \in [{"closer", "reaper"} -> SUBSET Sessions]
    /\ place \in [Threads -> Places]
    /\ on \in [Threads -> Sessions \union {NoSession}]
    /\ \A t \in Threads : place[t] \notin Resting => on[t] \in Sessions

(* When Close() has joined the workers they are gone, until Start().         *)
WorkersExit ==
    phase \in {"refuseAgain", "snapshotAgain", "abort", "waitAgain", "closed"} =>
        \A w \in Workers : place[w] = "exited"

At(t, places, s) == place[t] \in places /\ on[t] = s
Someone(places, s) == \E t \in Threads : At(t, places, s)
Known(s) == InList(s) \/ s \in manager \/ s \in todo["closer"] \/ s \in todo["reaper"]

(* A worker of a server that accepts a session: it has no number before the  *)
(* limit has let it pass, and nobody else knows of it before it is listed.   *)
Entering == {"count", "reject", "number"}
AcceptIs(t) ==
    /\ place[t] # "connectAsync"
    /\ place[t] \in Entering => t \in Workers /\ ~numbered[on[t]] /\ state[on[t]] = "Created"
    /\ place[t] = "add" => numbered[on[t]] /\ state[on[t]] = "Created" /\ ~Known(on[t])
    /\ place[t] = "map" => numbered[on[t]] /\ (InList(on[t]) \/ state[on[t]] = "Closed")
    /\ place[t] = "connect" =>
         numbered[on[t]] /\ (state[on[t]] = "Created" => InList(on[t]) /\ on[t] \in manager)
    /\ place[t] \in Notifying => notified[on[t]]

(* One worker accepts a session, and one thread tells of its end.            *)
AloneOK ==
    \A t, u \in Threads :
        on[t] = on[u] /\ (\/ place[t] \in Accepting /\ place[u] \in Accepting
                          \/ place[t] \in Notifying /\ place[u] \in Notifying) => t = u

(* A session of a server, and who is at work for it.                         *)
SessionIs(s) ==
    /\ ~connecting[s]
    /\ notified[s] => numbered[s] /\ state[s] = "Closed"
    /\ state[s] = "none" => ~numbered[s]
    /\ state[s] \in {"Connected", "Disconnecting"} \/ Known(s) => numbered[s]
    /\ state[s] = "Created" /\ ~numbered[s] => Someone(Entering, s)
    /\ numbered[s] /\ ~notified[s] /\ ~InList(s) => Someone({"add"}, s)
    /\ InList(s) /\ notified[s] => Someone(Notifying, s)
    /\ state[s] = "Connected" => s \in manager /\ InList(s)
    /\ s \in manager /\ ~InList(s) => state[s] = "Closed"

(* The sessions that are counted.                                            *)
CountedAt == {"reject", "number", "unmap", "uncount"}
IsCounted(s) == (numbered[s] /\ ~notified[s]) \/ Someone(CountedAt, s)
Counted == {s \in Sessions : IsCounted(s)}
CountOK == active = Cardinality(Counted)

(* Those that LimitHolds is about.                                           *)
Admitted(s) ==
    /\ ~notified[s]
    /\ state[s] \in {"Created", "Connected", "Disconnecting"}
    /\ \A w \in Workers : on[w] = s => place[w] \notin {"count", "reject"}

Actors == (\A t \in Threads : AcceptIs(t)) /\ AloneOK
ServerOK == Actors /\ (\A s \in Sessions : SessionIs(s)) /\ CountOK /\ LimitHolds
IInv == TypeOK /\ IndexFindsList /\ WorkersExit /\ (kind = "server" => ServerOK)

-----------------------------------------------------------------------------
(* A step of thread t that works for session s.                              *)
Moved(t, p, s) ==
    /\ \A u \in Threads \ {t} : place'[u] = place[u] /\ on'[u] = on[u]
    /\ place'[t] = p /\ on'[t] = IF p = "idle" THEN NoSession ELSE s
    /\ place' \in [Threads -> Places] /\ on' \in [Threads -> Sessions \union {NoSession}]
    /\ p \notin Resting => s \in Sessions

LEMMA GoMoves ==
  ASSUME TypeOK, NEW t \in Threads, NEW p \in Places, NEW s \in Sessions, Go(t, p, s)
  PROVE  Moved(t, p, s) /\ \A u \in Threads : place'[u] \notin Resting => on'[u] \in Sessions
  BY DEF TypeOK, Go, Moved, Resting

(* What a step leaves as it was of a session.                                *)
Same(r) ==
    /\ UNCHANGED <<state[r], numbered[r], notified[r], connecting[r]>>
    /\ r \in manager' <=> r \in manager
    /\ InList(r)' <=> InList(r)
    /\ Known(r)' => Known(r)

LEMMA OthersStay ==
  ASSUME NEW t \in Threads, NEW p, NEW s, Moved(t, p, s), place[t] \in Resting \/ on[t] = s,
         NEW r \in Sessions, r # s, NEW P, P \intersect Resting = {}, NoSession \notin Sessions
  PROVE  Someone(P, r)' <=> Someone(P, r)
<1>1. ~At(t, P, r) /\ ~At(t, P, r)'
  BY DEF At, Moved, Resting
<1>. QED BY <1>1 DEF Someone, At, Moved

LEMMA CountedFinite == IsFiniteSet(Counted) /\ Cardinality(Counted) \in Nat
  BY FS_Subset, FS_CardinalityType, ServiceSessions DEF Counted

LEMMA CountedFinite2 == IsFiniteSet(Counted') /\ Cardinality(Counted') \in Nat
  BY FS_Subset, FS_CardinalityType, ServiceSessions DEF Counted

LEMMA CountMoves ==
  ASSUME CountOK, NEW s \in Sessions, \A r \in Sessions \ {s} : IsCounted(r)' <=> IsCounted(r),
         active' = active + (IF IsCounted(s)' THEN 1 ELSE 0) - (IF IsCounted(s) THEN 1 ELSE 0)
  PROVE  CountOK'
<1>1. Cardinality(Counted) \in Nat /\ IsFiniteSet(Counted)
  BY CountedFinite
<1>2. CASE IsCounted(s)' <=> IsCounted(s)
  <2>1. Counted' = Counted
    BY <1>2 DEF Counted
  <2>. QED BY <1>1, <1>2, <2>1 DEF CountOK
<1>3. CASE IsCounted(s)' /\ ~IsCounted(s)
  <2>1. Counted' = Counted \union {s} /\ s \notin Counted
    BY <1>3 DEF Counted
  <2>2. Cardinality(Counted') = Cardinality(Counted) + 1
    BY <1>1, <2>1, FS_AddElement
  <2>. QED BY <1>1, <1>3, <2>2 DEF CountOK
<1>4. CASE ~IsCounted(s)' /\ IsCounted(s)
  <2>1. Counted' = Counted \ {s} /\ s \in Counted
    BY <1>4 DEF Counted
  <2>2. Cardinality(Counted') = Cardinality(Counted) - 1
    BY <1>1, <2>1, FS_RemoveElement
  <2>. QED BY <1>1, <1>4, <2>2 DEF CountOK
<1>. QED BY <1>2, <1>3, <1>4

(* Whoever is admitted is counted.                                           *)
LEMMA LimitMoves ==
  ASSUME enforce' = enforce, LimitHolds, CountOK',
         \A r \in Sessions : SessionIs(r)', \A t \in Threads : AcceptIs(t)',
         enforce => (\A r \in Sessions : Admitted(r)' => Admitted(r)) \/ active' <= Limit
  PROVE  LimitHolds'
<1> DEFINE A == {r \in Sessions : Admitted(r)}
           B == {r \in Sessions : Admitted(r)'}
<1>1. IsFiniteSet(A) /\ IsFiniteSet(B) /\ Cardinality(A) \in Nat /\ Cardinality(B) \in Nat
  BY FS_Subset, FS_CardinalityType, ServiceSessions
<1>2. SUFFICES ASSUME enforce PROVE Cardinality(B) <= Limit
  BY DEF LimitHolds, Admitted
<1>3. CASE \A r \in Sessions : Admitted(r)' => Admitted(r)
  <2>1. B \subseteq A
    BY <1>3
  <2>2. Cardinality(B) <= Cardinality(A)
    BY <1>1, <2>1, FS_Subset
  <2>3. Cardinality(A) <= Limit
    BY <1>2 DEF LimitHolds, Admitted
  <2>. QED BY <1>1, <2>2, <2>3, ServiceLimit
<1>4. CASE active' <= Limit
  <2>1. ASSUME NEW r \in Sessions, Admitted(r)' PROVE IsCounted(r)'
    <3>1. CASE numbered'[r]
      BY <2>1, <3>1 DEF IsCounted, Admitted
    <3>2. CASE ~numbered'[r]
      <4>1. state'[r] = "Created"
        BY <2>1, <3>2 DEF SessionIs, Admitted
      <4>2. Someone(Entering, r)'
        BY <3>2, <4>1 DEF SessionIs
      <4>. QED BY <2>1, <4>2 DEF Someone, At, IsCounted, Admitted, Entering, CountedAt, AcceptIs
    <3>. QED BY <3>1, <3>2
  <2>2. B \subseteq Counted'
    BY <2>1 DEF Counted
  <2>3. Cardinality(B) <= Cardinality(Counted') /\ Cardinality(Counted') \in Nat
    BY <2>2, CountedFinite2, FS_Subset
  <2>. QED BY <1>1, <1>4, <2>3, ServiceLimit DEF CountOK
<1>. QED BY <1>2, <1>3, <1>4

(* A step of one thread for one session: what has to be shown of that session*)
(* and of the threads at work for it.                                        *)
LEMMA ServerStep ==
  ASSUME TypeOK, TypeOK', ServerOK, NEW t \in Threads, NEW p, NEW s \in Sessions, Moved(t, p, s),
         place[t] \in Resting \/ on[t] = s, enforce' = enforce,
         \A r \in Sessions \ {s} : Same(r),
         \A u \in Threads : u = t \/ on[u] = s => AcceptIs(u)',
         p \in Accepting => place[t] \in Accepting \/ ~Someone(Accepting, s),
         p \in Notifying => place[t] \in Notifying \/ ~Someone(Notifying, s),
         SessionIs(s)',
         active' = active + (IF IsCounted(s)' THEN 1 ELSE 0) - (IF IsCounted(s) THEN 1 ELSE 0),
         enforce => (Admitted(s)' => Admitted(s)) \/ active' <= Limit
  PROVE  ServerOK'
<1>0. NoSession \notin Sessions
  BY ServiceSessions
<1>1. \A r \in Sessions \ {s} :
        /\ Someone(Entering, r)' <=> Someone(Entering, r)
        /\ Someone({"add"}, r)' <=> Someone({"add"}, r)
        /\ Someone(Notifying, r)' <=> Someone(Notifying, r)
        /\ Someone(CountedAt, r)' <=> Someone(CountedAt, r)
  BY <1>0, OthersStay DEF Entering, Notifying, CountedAt, Resting
<1>2. \A r \in Sessions : SessionIs(r)'
  <2>1. ASSUME NEW r \in Sessions, r # s PROVE SessionIs(r)'
    <3>1. SessionIs(r) /\ Same(r)
      BY <2>1 DEF ServerOK
    <3>. QED BY <3>1, <1>1, <2>1 DEF SessionIs, Same
  <2>. QED BY <2>1
<1>3. \A u \in Threads : AcceptIs(u)'
  <2>1. ASSUME NEW u \in Threads, u # t, on[u] # s PROVE AcceptIs(u)'
    <3>1. AcceptIs(u) /\ place'[u] = place[u] /\ on'[u] = on[u]
      BY <2>1 DEF ServerOK, Actors, Moved
    <3>2. CASE place[u] \in Resting
      BY <3>1, <3>2 DEF AcceptIs, Resting, Entering, Notifying
    <3>3. CASE place[u] \notin Resting
      <4>1. on[u] \in Sessions /\ Same(on[u])
        BY <2>1, <3>3 DEF TypeOK
      <4>. QED BY <3>1, <4>1 DEF AcceptIs, Same
    <3>. QED BY <3>2, <3>3
  <2>. QED BY <2>1
<1>4. AloneOK'
  <2>1. AloneOK
    BY DEF ServerOK, Actors
  <2>. QED BY <1>0, <2>1 DEF AloneOK, Moved, Someone, At, Accepting, Notifying, Resting
<1>5. \A r \in Sessions \ {s} : (IsCounted(r)' <=> IsCounted(r)) /\ (Admitted(r)' => Admitted(r))
  <2>1. ASSUME NEW r \in Sessions, r # s PROVE Admitted(r)' => Admitted(r)
    <3>1. Same(r) /\ r # NoSession
      BY <1>0, <2>1
    <3>. QED BY <2>1, <3>1 DEF Admitted, Same, Moved, Resting, Threads
  <2>. QED BY <1>1, <2>1 DEF IsCounted, Same
<1>6. CountOK'
  BY <1>5, CountMoves DEF ServerOK
<1>7. LimitHolds'
  BY <1>2, <1>3, <1>5, <1>6, LimitMoves DEF ServerOK
<1>. QED BY <1>2, <1>3, <1>4, <1>6, <1>7 DEF ServerOK, Actors

(* A step that only moves Close() on, takes notes, or lets go of sessions    *)
(* that are closing.                                                         *)
LEMMA QuietStep ==
  ASSUME TypeOK, ServerOK, UNCHANGED <<kind, enforce, list, index, active, sessionVars, on>>,
         \A u \in Threads : place'[u] = place[u] \/ {place[u], place'[u]} \subseteq Resting,
         manager' \subseteq manager, \A r \in manager \ manager' : Reapable(r),
         \A r \in Sessions : Known(r)' => Known(r)
  PROVE  ServerOK'
<1>1. \A r \in Sessions :
        /\ Someone(Entering, r)' <=> Someone(Entering, r)
        /\ Someone({"add"}, r)' <=> Someone({"add"}, r)
        /\ Someone(Notifying, r)' <=> Someone(Notifying, r)
        /\ Someone(CountedAt, r)' <=> Someone(CountedAt, r)
  BY DEF Someone, At, Entering, Notifying, CountedAt, Resting
<1>2. \A r \in Sessions : SessionIs(r)'
  BY <1>1 DEF ServerOK, SessionIs, Reapable, InList, sessionVars
<1>3. \A u \in Threads : AcceptIs(u)'
  <2>1. ASSUME NEW u \in Threads PROVE AcceptIs(u)'
    <3>1. AcceptIs(u)
      BY DEF ServerOK, Actors
    <3>2. CASE place'[u] \in Resting
      BY <3>2 DEF AcceptIs, Resting, Entering, Notifying
    <3>3. CASE place'[u] \notin Resting
      <4>1. place'[u] = place[u] /\ on'[u] = on[u] /\ on[u] \in Sessions
        BY <3>3 DEF TypeOK
      <4>. QED BY <3>1, <4>1 DEF AcceptIs, Reapable, InList, sessionVars
    <3>. QED BY <3>2, <3>3
  <2>. QED BY <2>1
<1>4. AloneOK'
  BY DEF ServerOK, Actors, AloneOK, Accepting, Notifying, Resting
<1>5. CountOK'
  <2>1. Counted' = Counted
    BY <1>1 DEF Counted, IsCounted, sessionVars
  <2>. QED BY <2>1 DEF ServerOK, CountOK
<1>6. \A r \in Sessions : Admitted(r)' => Admitted(r)
  BY DEF Admitted, Resting, sessionVars, Threads
<1>7. LimitHolds'
  BY <1>2, <1>3, <1>5, <1>6, LimitMoves DEF ServerOK
<1>. QED BY <1>2, <1>3, <1>4, <1>5, <1>7 DEF ServerOK, Actors

(* What Close() and the reap thread do by themselves.                        *)
Quietly ==
    \/ \E s \in Sessions : ReapCluster(s)
    \/ SweepIdle \/ CloseBegins \/ CloseJoinReap \/ CloseStopListener \/ CloseRefuse \/ CloseSnapshot
    \/ CloseSnapshotDone \/ CloseWaited \/ CloseStopWorkers \/ CloseJoinWorkers \/ CloseEnds
    \/ (\E w \in Workers : WorkerExits(w)) \/ Restart

LEMMA QuietlyKeeps == ASSUME IInv, Quietly PROVE IInv'
<1>0. TypeOK /\ IndexFindsList /\ WorkersExit /\ (kind = "server" => ServerOK)
  BY DEF IInv
<1>a. /\ UNCHANGED <<kind, enforce, list, index, active, sessionVars, on>>
      /\ refuse' \in BOOLEAN /\ listening' \in BOOLEAN /\ shuttingDown' \in BOOLEAN /\ phase' \in Phases
  <2>. USE DEF listVars, closeVars, Step, Phases, TypeOK
  <2>1. CASE \E s \in Sessions : ReapCluster(s)
    BY <1>0, <2>1 DEF ReapCluster
  <2>2. CASE SweepIdle \/ CloseBegins \/ CloseJoinReap \/ CloseStopListener \/ CloseRefuse
    BY <1>0, <2>2 DEF SweepIdle, CloseBegins, CloseJoinReap, CloseStopListener, CloseRefuse
  <2>3. CASE CloseSnapshot \/ CloseSnapshotDone \/ CloseWaited
    BY <1>0, <2>3 DEF CloseSnapshot, CloseSnapshotDone, CloseWaited
  <2>4. CASE CloseStopWorkers \/ CloseJoinWorkers \/ CloseEnds
    BY <1>0, <2>4 DEF CloseStopWorkers, CloseJoinWorkers, CloseEnds
  <2>5. CASE (\E w \in Workers : WorkerExits(w)) \/ Restart
    BY <1>0, <2>5 DEF WorkerExits, Restart
  <2>. QED BY <2>1, <2>2, <2>3, <2>4, <2>5 DEF Quietly
<1>b. manager' \subseteq manager /\ \A r \in manager \ manager' : Reapable(r)
  BY DEF Quietly, ReapCluster, SweepIdle, CloseBegins, CloseJoinReap, CloseStopListener, CloseRefuse,
         CloseSnapshot, CloseSnapshotDone, CloseWaited, CloseStopWorkers, CloseJoinWorkers, CloseEnds,
         WorkerExits, Restart, listVars
<1>c. /\ place' \in [Threads -> Places]
      /\ \A u \in Threads : place'[u] = place[u] \/ {place[u], place'[u]} \subseteq Resting
  <2>1. CASE \E w \in Workers : WorkerExits(w)
    BY <1>0, <2>1 DEF WorkerExits, TypeOK, Resting, Places
  <2>2. CASE Restart
    <3>1. \A w \in Workers : place[w] = "exited"
      BY <1>0, <2>2 DEF Restart, Step, WorkersExit
    <3>. QED BY <1>0, <2>2, <3>1 DEF Restart, TypeOK, Resting, Places
  <2>3. CASE UNCHANGED place
    BY <1>0, <2>3 DEF TypeOK
  <2>. QED
    BY <2>1, <2>2, <2>3
    DEF Quietly, ReapCluster, SweepIdle, CloseBegins, CloseJoinReap, CloseStopListener, CloseRefuse,
        CloseSnapshot, CloseSnapshotDone, CloseWaited, CloseStopWorkers, CloseJoinWorkers, CloseEnds
<1>d. /\ todo' \in [{"closer", "reaper"} -> SUBSET Sessions]
      /\ \A r \in Sessions : Known(r)' => Known(r)
  <2>1. CASE SweepIdle
    BY <1>0, <2>1 DEF SweepIdle, TypeOK, Known, InList, listVars
  <2>2. CASE CloseSnapshot
    <3>1. ToSet(list) \subseteq Sessions /\ \A r \in ToSet(list) : InList(r)
      BY <1>0 DEF IndexFindsList, ToSet, TypeOK
    <3>. QED BY <1>0, <2>2, <3>1 DEF CloseSnapshot, TypeOK, Known, InList, listVars
  <2>3. CASE UNCHANGED todo
    BY <1>0, <1>a, <1>b, <2>3 DEF TypeOK, Known, InList
  <2>. QED
    BY <2>1, <2>2, <2>3
    DEF Quietly, ReapCluster, CloseBegins, CloseJoinReap, CloseStopListener, CloseRefuse,
        CloseSnapshotDone, CloseWaited, CloseStopWorkers, CloseJoinWorkers, CloseEnds, WorkerExits, Restart
<1>1. TypeOK'
  <2>1. \A t \in Threads : place'[t] \notin Resting => on'[t] \in Sessions
    BY <1>0, <1>a, <1>c DEF TypeOK
  <2>. QED BY <1>0, <1>a, <1>b, <1>c, <1>d, <2>1 DEF TypeOK, sessionVars
<1>2. IndexFindsList'
  BY <1>0, <1>a DEF IndexFindsList, InList
<1>3. WorkersExit'
  BY <1>0
  DEF WorkersExit, Quietly, ReapCluster, SweepIdle, CloseBegins, CloseJoinReap, CloseStopListener, CloseRefuse,
      CloseSnapshot, CloseSnapshotDone, CloseWaited, CloseStopWorkers, CloseJoinWorkers, CloseEnds,
      WorkerExits, Restart, closeVars, Step, TypeOK, Threads
<1>4. kind' = "server" => ServerOK'
  BY <1>0, <1>a, <1>b, <1>c, <1>d, QuietStep
<1>. QED BY <1>1, <1>2, <1>3, <1>4 DEF IInv

-----------------------------------------------------------------------------
(* The steps of the threads that accept, connect and end sessions.           *)
LEMMA StaysThere ==
  ASSUME NEW t \in Threads, NEW p, NEW s, Moved(t, p, s), NEW r, NEW P, ~At(t, P, r), ~At(t, P, r)'
  PROVE  Someone(P, r)' <=> Someone(P, r)
  BY DEF Someone, At, Moved

LEMMA GoesThere ==
  ASSUME NEW t \in Threads, NEW p, NEW s, Moved(t, p, s), NEW P, p \in P, p # "idle"
  PROVE  Someone(P, s)'
  BY DEF Someone, At, Moved

LEMMA ExitKept ==
  ASSUME TypeOK, WorkersExit, NEW t \in Threads, NEW p, NEW s, Moved(t, p, s), place[t] # "exited",
         phase' = phase
  PROVE  WorkersExit'
  BY DEF WorkersExit, Moved, Threads

(* A session is disconnected or aborted, by a thread that was idle or that   *)
(* has just been refused to list it.                                         *)
LEMMA EndStep ==
  ASSUME IInv, NEW t \in Threads, NEW s \in Sessions,
         Disconnect(t, s) \/ FailConnect(t, s),
         UNCHANGED <<kind, enforce, list, index, manager, active, numbered, closeVars>>,
         connecting' \in [Sessions -> BOOLEAN], todo' \in [{"closer", "reaper"} -> SUBSET Sessions],
         \A r \in Sessions : Known(r)' => Known(r),
         place[t] # "exited",
         kind = "server" =>
           /\ connecting' = connecting
           /\ \/ place[t] = "add" /\ on[t] = s
              \/ place[t] = "idle" /\ (Known(s) \/ state[s] \in {"Connected", "Disconnecting"})
  PROVE  IInv'
<1>0. TypeOK /\ IndexFindsList /\ WorkersExit /\ (kind = "server" => ServerOK)
  BY DEF IInv
<1>1. PICK p \in {"idle", "unmap", "release"} :
        /\ Go(t, p, s)
        /\ \/ /\ state[s] = "Connected" /\ state' = [state EXCEPT ![s] = "Disconnecting"]
              /\ notified' = notified /\ p = "idle"
           \/ /\ state' = [state EXCEPT ![s] = "Closed"] /\ notified' = [notified EXCEPT ![s] = TRUE]
              /\ p = IF notified[s] THEN "idle" ELSE NotifyPlace(s)
           \/ state[s] \in {"Disconnecting", "Closed"} /\ UNCHANGED <<state, notified>> /\ p = "idle"
  BY DEF Disconnect, FailConnect, NotifyPlace
<1>2. Moved(t, p, s) /\ \A u \in Threads : place'[u] \notin Resting => on'[u] \in Sessions
  BY <1>0, <1>1, GoMoves DEF Places
<1>3. /\ state' \in [Sessions -> {"none", "Created", "Connected", "Disconnecting", "Closed"}]
      /\ notified' \in [Sessions -> BOOLEAN]
      /\ \A r \in Sessions \ {s} : state'[r] = state[r] /\ notified'[r] = notified[r]
      /\ \/ state[s] = "Connected" /\ state'[s] = "Disconnecting" /\ notified'[s] = notified[s] /\ p = "idle"
         \/ state'[s] = "Closed" /\ notified'[s] = TRUE /\ p = IF notified[s] THEN "idle" ELSE NotifyPlace(s)
         \/ /\ state[s] \in {"Disconnecting", "Closed"} /\ state'[s] = state[s]
            /\ notified'[s] = notified[s] /\ p = "idle"
  BY <1>0, <1>1 DEF TypeOK
<1>4. TypeOK'
  BY <1>0, <1>2, <1>3 DEF TypeOK, Moved, closeVars
<1>5. IndexFindsList'
  BY <1>0 DEF IndexFindsList, InList
<1>6. WorkersExit'
  BY <1>0, <1>2, ExitKept DEF closeVars
<1>7. ASSUME kind = "server" PROVE ServerOK'
  <2>0. /\ ServerOK /\ SessionIs(s) /\ connecting' = connecting /\ numbered' = numbered /\ NoSession \notin Sessions
        /\ AcceptIs(t) /\ \A u \in Threads : AcceptIs(u)
    BY <1>0, <1>7, ServiceSessions DEF ServerOK, Actors
  <2>1. numbered[s] /\ state[s] # "none"
    BY <1>7, <2>0 DEF SessionIs, AcceptIs
  <2>2. p \in {"idle", "unmap"} /\ (p = "unmap" => notified'[s] /\ ~notified[s])
    BY <1>3, <1>7, <2>1 DEF NotifyPlace
  <2>3. \A r \in Sessions \ {s} : Same(r)
    BY <1>3, <2>0 DEF Same, InList
  <2>4. ASSUME NEW u \in Threads, u = t \/ on[u] = s PROVE AcceptIs(u)'
    <3>1. CASE u = t
      BY <1>2, <2>2, <3>1 DEF Moved, AcceptIs, Entering, Notifying
    <3>2. CASE u # t /\ place[u] \in Resting
      BY <1>2, <3>2 DEF Moved, AcceptIs, Entering, Notifying, Resting
    <3>3. CASE u # t /\ place[u] \notin Resting
      <4>1. on[u] = s /\ place'[u] = place[u] /\ on'[u] = s /\ AcceptIs(u) /\ AloneOK
        BY <1>2, <2>0, <2>4, <3>3 DEF Moved, ServerOK, Actors
      <4>2. place[u] \notin Entering
        BY <2>1, <4>1 DEF AcceptIs
      <4>3. place[u] # "add"
        BY <1>7, <3>3, <4>1 DEF AcceptIs, AloneOK, Accepting
      <4>. QED BY <1>3, <4>1, <4>2, <4>3 DEF AcceptIs, InList
    <3>. QED BY <3>1, <3>2, <3>3
  <2>5. /\ p \notin Accepting
        /\ p \in Notifying => ~Someone(Notifying, s)
    BY <2>0, <2>2 DEF Accepting, Notifying, Someone, At, AcceptIs
  <2>6. Someone(Notifying, s) => Someone(Notifying, s)'
    BY <1>2, <1>7 DEF Someone, At, Moved, Notifying
  <2>7. Someone(CountedAt, s)' <=> Someone(CountedAt, s) \/ p = "unmap"
    <3>1. ~At(t, CountedAt, s)
      BY <1>7 DEF At, CountedAt
    <3>2. CASE p = "unmap"
      BY <1>2, <3>2, GoesThere DEF CountedAt
    <3>3. CASE p = "idle"
      BY <1>2, <3>1, <3>3, StaysThere DEF At, CountedAt, Moved
    <3>. QED BY <2>2, <3>2, <3>3
  <2>8. SessionIs(s)'
    <3>1. p = "unmap" => Someone(Notifying, s)'
      BY <1>2, GoesThere DEF Notifying
    <3>2. numbered'[s] /\ ~notified'[s] /\ ~InList(s)' => Someone({"add"}, s)'
      <4>1. SUFFICES ASSUME ~notified'[s], ~InList(s) PROVE Someone({"add"}, s)'
        BY DEF InList
      <4>2. state[s] \in {"Disconnecting", "Closed"} /\ ~notified[s] /\ p = "idle"
        BY <1>3, <2>0, <4>1 DEF SessionIs
      <4>3. ~At(t, {"add"}, s) /\ ~At(t, {"add"}, s)'
        BY <1>2, <1>7, <2>0, <4>2 DEF At, AcceptIs, Moved
      <4>4. Someone({"add"}, s)
        BY <2>0, <2>1, <4>1, <4>2 DEF SessionIs
      <4>. QED BY <1>2, <4>3, <4>4, StaysThere
    <3>. QED BY <1>3, <2>0, <2>1, <2>2, <2>6, <3>1, <3>2 DEF SessionIs, InList, NotifyPlace
  <2>9. IsCounted(s)' <=> IsCounted(s)
    BY <1>3, <1>7, <2>0, <2>1, <2>7 DEF IsCounted, NotifyPlace
  <2>10. Admitted(s)' => Admitted(s)
    BY <1>2, <1>3, <1>7 DEF Admitted, Moved, Threads
  <2>11. active' = active + (IF IsCounted(s)' THEN 1 ELSE 0) - (IF IsCounted(s) THEN 1 ELSE 0)
    BY <1>0, <2>9 DEF TypeOK
  <2>12. place[t] \in Resting \/ on[t] = s
    BY <1>7 DEF Resting
  <2>. QED BY <1>0, <1>2, <1>4, <2>0, <2>3, <2>4, <2>5, <2>8, <2>10, <2>11, <2>12, ServerStep
<1>. QED BY <1>4, <1>5, <1>6, <1>7 DEF IInv

LEMMA ListAppend ==
  ASSUME TypeOK, IndexFindsList, NEW s \in Sessions, ~InList(s),
         list' = Append(list, s), index' = [index EXCEPT ![s] = Len(list) + 1]
  PROVE  /\ IndexFindsList' /\ list' \in Seq(Sessions) /\ index' \in [Sessions -> Nat]
         /\ InList(s)' /\ \A r \in Sessions \ {s} : InList(r)' <=> InList(r)
<1>1. /\ list \in Seq(Sessions) /\ index \in [Sessions -> Nat] /\ Len(list) \in Nat /\ index[s] = 0
      /\ list' \in Seq(Sessions) /\ DOMAIN list = 1..Len(list) /\ DOMAIN list' = 1..Len(list) + 1
      /\ \A i \in 1..Len(list) : list'[i] = list[i]
      /\ list'[Len(list) + 1] = s
  BY DEF TypeOK, InList
<1>2. index' \in [Sessions -> Nat] /\ index'[s] = Len(list) + 1 /\ \A r \in Sessions \ {s} : index'[r] = index[r]
  BY <1>1
<1>3. \A i \in 1..Len(list) : list[i] # s
  BY <1>1 DEF IndexFindsList, InList, ToSet
<1>4. IsInjective(list')
  BY <1>1, <1>3 DEF IndexFindsList, IsInjective
<1>5. ASSUME NEW r \in Sessions
      PROVE  IF InList(r)' THEN index'[r] \in DOMAIN list' /\ list'[index'[r]] = r ELSE r \notin ToSet(list')
  <2>1. CASE r = s
    BY <1>1, <1>2, <2>1 DEF InList
  <2>2. CASE r # s /\ InList(r)
    <3>1. index[r] \in 1..Len(list) /\ list[index[r]] = r
      BY <1>1, <2>2 DEF IndexFindsList
    <3>. QED BY <1>1, <1>2, <2>2, <3>1 DEF InList
  <2>3. CASE r # s /\ ~InList(r)
    <3>1. \A i \in 1..Len(list) : list[i] # r
      BY <1>1, <2>3 DEF IndexFindsList, ToSet
    <3>2. \A i \in 1..Len(list) + 1 : list'[i] # r
      <4>1. \A i \in 1..Len(list) + 1 : i \in 1..Len(list) \/ i = Len(list) + 1
        BY <1>1
      <4>. QED BY <1>1, <2>3, <3>1, <4>1
    <3>. QED BY <1>1, <1>2, <2>3, <3>2 DEF InList, ToSet
  <2>. QED BY <2>1, <2>2, <2>3
<1>. QED BY <1>1, <1>2, <1>4, <1>5 DEF IndexFindsList, InList

(* The last session of the list takes the place of the removed one.          *)
LEMMA ListRemove ==
  ASSUME TypeOK, IndexFindsList, NEW s \in Sessions, InList(s),
         list' = Front([list EXCEPT ![index[s]] = Last(list)]),
         index' = [index EXCEPT ![Last(list)] = index[s], ![s] = 0]
  PROVE  /\ IndexFindsList' /\ list' \in Seq(Sessions) /\ index' \in [Sessions -> Nat]
         /\ ~InList(s)' /\ \A r \in Sessions \ {s} : InList(r)' <=> InList(r)
<1> DEFINE n == Len(list)
           k == index[s]
           m == list[n]
<1>1. /\ list \in Seq(Sessions) /\ index \in [Sessions -> Nat] /\ n \in Nat
      /\ DOMAIN list = 1..n /\ k \in 1..n /\ list[k] = s /\ m \in Sessions /\ n \in 1..n /\ Last(list) = m
  BY DEF TypeOK, InList, IndexFindsList, Last
<1>2. /\ list' \in Seq(Sessions) /\ DOMAIN list' = 1..n - 1
      /\ \A i \in 1..n - 1 : list'[i] = IF i = k THEN m ELSE list[i]
  <2>1. [list EXCEPT ![k] = m] \in Seq(Sessions) /\ Len([list EXCEPT ![k] = m]) = n
    BY <1>1
  <2>2. list' = SubSeq([list EXCEPT ![k] = m], 1, n - 1)
    BY <1>1, <2>1 DEF Front
  <2>3. \A i \in 1..n - 1 : [list EXCEPT ![k] = m][i] = IF i = k THEN m ELSE list[i]
    BY <1>1
  <2>4. \A q \in Seq(Sessions) : Len(q) = n => /\ SubSeq(q, 1, n - 1) \in Seq(Sessions)
                                            /\ DOMAIN SubSeq(q, 1, n - 1) = 1..n - 1
                                            /\ \A i \in 1..n - 1 : SubSeq(q, 1, n - 1)[i] = q[i]
    <3>1. n - 1 \in Nat /\ n \in Nat
      BY <1>1
    <3>. QED BY <3>1
  <2>. QED BY ONLY <2>1, <2>2, <2>3, <2>4
<1>3. index[m] = n
  BY <1>1 DEF IndexFindsList, IsInjective, InList, ToSet
<1>4. index' \in [Sessions -> Nat] /\ \A r \in Sessions : index'[r] = IF r = s THEN 0 ELSE IF r = m THEN k ELSE index[r]
  BY <1>1
<1>. HIDE DEF n, k, m
<1>5. \A i, j \in 1..n : list[i] = list[j] => i = j
  BY <1>1 DEF IndexFindsList, IsInjective
<1>6. IsInjective(list')
  <2>1. \A i \in 1..n - 1 : i \in 1..n /\ i # n
    BY <1>1
  <2>2. \A i \in 1..n - 1 : list'[i] = list[IF i = k THEN n ELSE i]
    BY <1>2 DEF m
  <2>3. \A i \in 1..n - 1 : (IF i = k THEN n ELSE i) \in 1..n
    BY <1>1, <2>1
  <2>4. ASSUME NEW i \in 1..n - 1, NEW j \in 1..n - 1, list'[i] = list'[j] PROVE i = j
    <3>1. (IF i = k THEN n ELSE i) = (IF j = k THEN n ELSE j)
      BY <1>5, <2>2, <2>3, <2>4
    <3>. QED BY <2>1, <3>1
  <2>. QED BY <1>2, <2>4 DEF IsInjective
<1>7. ASSUME NEW r \in Sessions
      PROVE  IF InList(r)' THEN index'[r] \in DOMAIN list' /\ list'[index'[r]] = r ELSE r \notin ToSet(list')
  <2>1. CASE r = s
    <3>1. ASSUME NEW i \in 1..n - 1 PROVE list'[i] # s
      <4>1. i \in 1..n /\ i # n
        BY <1>1
      <4>2. CASE i = k
        <5>1. m # s
          BY <1>1, <1>5, <4>1, <4>2 DEF m
        <5>. QED BY <1>2, <4>2, <5>1
      <4>3. CASE i # k
        BY <1>1, <1>2, <1>5, <4>1, <4>3
      <4>. QED BY <4>2, <4>3
    <3>. QED BY <1>2, <1>4, <2>1, <3>1 DEF InList, ToSet
  <2>2. CASE r # s /\ r = m
    <3>1. k # n
      BY <1>1, <2>2 DEF m
    <3>2. k \in 1..n - 1
      BY <1>1, <3>1
    <3>. QED BY <1>1, <1>2, <1>4, <2>2, <3>2 DEF InList
  <2>3. CASE r # s /\ r # m /\ InList(r)
    <3>1. index[r] \in 1..n /\ list[index[r]] = r
      BY <1>1, <2>3 DEF IndexFindsList
    <3>2. index[r] # n /\ index[r] # k
      BY <1>1, <2>3, <3>1 DEF m
    <3>3. index[r] \in 1..n - 1
      BY <1>1, <3>1, <3>2
    <3>. QED BY <1>2, <1>4, <2>3, <3>1, <3>2, <3>3 DEF InList
  <2>4. CASE r # s /\ r # m /\ ~InList(r)
    <3>1. \A i \in 1..n : list[i] # r
      BY <1>1, <2>4 DEF IndexFindsList, ToSet
    <3>2. \A i \in 1..n - 1 : list'[i] # r
      <4>1. \A i \in 1..n - 1 : i \in 1..n
        BY <1>1
      <4>. QED BY <1>2, <2>4, <3>1, <4>1
    <3>. QED BY <1>2, <1>4, <2>4, <3>2 DEF InList, ToSet
  <2>. QED BY <2>1, <2>2, <2>3, <2>4
<1>8. \A r \in Sessions \ {s} : InList(r)' <=> InList(r)
  BY <1>1, <1>3, <1>4 DEF InList
<1>9. ~InList(s)'
  BY <1>4 DEF InList
<1>. QED BY <1>2, <1>4, <1>6, <1>7, <1>8, <1>9 DEF IndexFindsList

(* What the lemmas below have in common: their thread and its session, and   *)
(* the parts of the invariant that do not look at sessions one by one.       *)
LEMMA ThreadStep0 ==
  ASSUME IInv, NEW t \in Threads, NEW p \in Places, NEW s \in Sessions, Go(t, p, s),
         place[t] # "exited", phase' = phase, UNCHANGED <<kind, enforce, refuse, listening, shuttingDown, todo>>,
         list' \in Seq(Sessions) /\ index' \in [Sessions -> Nat] /\ IndexFindsList',
         manager' \in SUBSET Sessions, active' \in Int,
         state' \in [Sessions -> {"none", "Created", "Connected", "Disconnecting", "Closed"}],
         numbered' \in [Sessions -> BOOLEAN], UNCHANGED notified, connecting' \in [Sessions -> BOOLEAN]
  PROVE  /\ Moved(t, p, s) /\ TypeOK' /\ IndexFindsList' /\ WorkersExit'
         /\ (kind = "server" => ServerOK') => IInv'
<1>0. TypeOK /\ WorkersExit
  BY DEF IInv
<1>1. Moved(t, p, s) /\ \A u \in Threads : place'[u] \notin Resting => on'[u] \in Sessions
  BY <1>0, GoMoves
<1>2. TypeOK'
  BY <1>0, <1>1 DEF TypeOK, Moved
<1>3. WorkersExit'
  BY <1>0, <1>1, ExitKept
<1>. QED BY <1>1, <1>2, <1>3 DEF IInv

LEMMA AcceptStep ==
  ASSUME IInv, NEW w \in Workers, NEW s \in Sessions, Accept(w, s) PROVE IInv'
<1>0. TypeOK /\ IndexFindsList /\ (kind = "server" => ServerOK) /\ w \in Threads
  BY DEF IInv, Threads
<1>1. /\ kind = "server" /\ Go(w, "count", s) /\ place[w] = "idle" /\ state[s] = "none"
      /\ state' = [state EXCEPT ![s] = "Created"]
      /\ UNCHANGED <<kind, enforce, list, index, manager, active, numbered, notified, connecting,
                     phase, refuse, listening, shuttingDown, todo>>
  BY DEF Accept, listVars, closeVars
<1>2. Moved(w, "count", s) /\ TypeOK' /\ ((kind = "server" => ServerOK') => IInv')
  <2>1. IndexFindsList'
    BY <1>0, <1>1 DEF IndexFindsList, InList
  <2>2. /\ "count" \in Places /\ list' \in Seq(Sessions) /\ index' \in [Sessions -> Nat]
        /\ manager' \in SUBSET Sessions /\ active' \in Int /\ numbered' \in [Sessions -> BOOLEAN]
        /\ connecting' \in [Sessions -> BOOLEAN]
        /\ state' \in [Sessions -> {"none", "Created", "Connected", "Disconnecting", "Closed"}]
    BY <1>0, <1>1 DEF TypeOK, Places
  <2>. QED BY <1>0, <1>1, <2>1, <2>2, ThreadStep0
<1>3. ServerOK'
  <2>0. ServerOK /\ SessionIs(s) /\ ~numbered[s] /\ ~notified[s] /\ ~Known(s) /\ \A u \in Threads : AcceptIs(u)
    BY <1>0, <1>1 DEF ServerOK, SessionIs, Actors
  <2>1. state'[s] = "Created" /\ \A r \in Sessions \ {s} : state'[r] = state[r]
    BY <1>0, <1>1 DEF TypeOK
  <2>2. \A r \in Sessions \ {s} : Same(r)
    BY <1>1, <2>1 DEF Same, InList, Known
  <2>3. ~Someone(Accepting, s) /\ ~Someone(CountedAt, s)
    BY <1>1, <2>0 DEF Someone, At, AcceptIs, Accepting, CountedAt, Entering, Notifying
  <2>4. ASSUME NEW u \in Threads, u = w \/ on[u] = s PROVE AcceptIs(u)'
    BY <1>1, <1>2, <2>0, <2>1, <2>4 DEF AcceptIs, Moved, Entering, Notifying, InList, Known
  <2>5. Someone(Entering, s)'
    BY <1>0, <1>2, GoesThere DEF Entering
  <2>6. SessionIs(s)'
    BY <1>1, <2>0, <2>1, <2>5 DEF SessionIs, Known, InList
  <2>7. Someone(CountedAt, s)' <=> Someone(CountedAt, s)
    BY <1>0, <1>1, <1>2, StaysThere DEF At, CountedAt, Moved
  <2>8. active' = active + (IF IsCounted(s)' THEN 1 ELSE 0) - (IF IsCounted(s) THEN 1 ELSE 0)
    BY <1>0, <1>1, <2>7 DEF TypeOK, IsCounted
  <2>9. ~Admitted(s)'
    BY <1>2 DEF Admitted, Moved
  <2>10. "count" \notin Notifying /\ place[w] \in Resting
    BY <1>1 DEF Notifying, Resting
  <2>. QED BY <1>0, <1>1, <1>2, <2>0, <2>2, <2>3, <2>4, <2>6, <2>8, <2>9, <2>10, ServerStep
<1>. QED BY <1>2, <1>3

(* The session is counted; it goes on if it is within the limit.             *)
LEMMA AcceptCountStep ==
  ASSUME IInv, NEW w \in Workers, AcceptCount(w) PROVE IInv'
<1>0. TypeOK /\ IndexFindsList /\ (kind = "server" => ServerOK) /\ w \in Threads
  BY DEF IInv, Threads
<1>1. PICK s \in Sessions, p \in {"reject", "number"} :
        /\ s = on[w] /\ Go(w, p, s) /\ place[w] = "count" /\ active' = active + 1
        /\ enforce /\ p = "number" => active' <= Limit
        /\ UNCHANGED <<kind, enforce, list, index, manager, state, numbered, notified, connecting,
                       phase, refuse, listening, shuttingDown, todo>>
  <2>1. on[w] \in Sessions
    BY <1>0 DEF TypeOK, AcceptCount, Resting
  <2>2. active' \in Int /\ Limit \in Int
    BY <1>0, ServiceLimit DEF TypeOK, AcceptCount
  <2>. QED BY <2>1, <2>2 DEF AcceptCount, sessionVars, closeVars
<1>2. Moved(w, p, s) /\ TypeOK' /\ ((kind = "server" => ServerOK') => IInv')
  <2>1. IndexFindsList'
    BY <1>0, <1>1 DEF IndexFindsList, InList
  <2>2. /\ p \in Places /\ list' \in Seq(Sessions) /\ index' \in [Sessions -> Nat]
        /\ manager' \in SUBSET Sessions /\ active' \in Int /\ numbered' \in [Sessions -> BOOLEAN]
        /\ connecting' \in [Sessions -> BOOLEAN]
        /\ state' \in [Sessions -> {"none", "Created", "Connected", "Disconnecting", "Closed"}]
    BY <1>0, <1>1 DEF TypeOK, Places
  <2>. QED BY <1>0, <1>1, <2>1, <2>2, ThreadStep0
<1>3. ASSUME kind = "server" PROVE ServerOK'
  <2>0. /\ ServerOK /\ SessionIs(s) /\ ~numbered[s] /\ ~notified[s] /\ state[s] = "Created" /\ ~Known(s)
        /\ (\A u \in Threads : AcceptIs(u)) /\ AloneOK
    BY <1>0, <1>1, <1>3 DEF ServerOK, SessionIs, Actors, AcceptIs, Entering
  <2>1. \A r \in Sessions : Same(r)
    BY <1>1 DEF Same, InList, Known
  <2>2. \A u \in Threads : u = w \/ on[u] = s => AcceptIs(u)'
    BY <1>0, <1>1, <1>2, <2>0 DEF AcceptIs, Moved, Entering, Notifying, AloneOK, Accepting
  <2>3. p \in Entering /\ p \in CountedAt /\ p # "idle" /\ p \notin Notifying /\ place[w] \in Accepting
    BY <1>1 DEF Entering, CountedAt, Notifying, Accepting
  <2>4. Someone(Entering, s)' /\ Someone(CountedAt, s)'
    BY <1>0, <1>2, <2>3, GoesThere
  <2>5. SessionIs(s)'
    BY <1>1, <2>0, <2>4 DEF SessionIs, Known, InList
  <2>6. ~Someone(CountedAt, s)
    BY <1>0, <1>1, <2>0 DEF Someone, At, AcceptIs, CountedAt, Notifying, AloneOK, Accepting
  <2>7. active' = active + (IF IsCounted(s)' THEN 1 ELSE 0) - (IF IsCounted(s) THEN 1 ELSE 0)
    <3>1. IsCounted(s)' /\ ~IsCounted(s)
      BY <2>0, <2>4, <2>6 DEF IsCounted
    <3>. QED BY <1>0, <1>1, <3>1 DEF TypeOK
  <2>8. enforce => (Admitted(s)' => Admitted(s)) \/ active' <= Limit
    <3>1. p = "reject" => ~Admitted(s)'
      BY <1>2 DEF Admitted, Moved
    <3>. QED BY <1>1, <3>1
  <2>. QED BY <1>0, <1>1, <1>2, <2>0, <2>1, <2>2, <2>3, <2>5, <2>7, <2>8, ServerStep
<1>. QED BY <1>2, <1>3

LEMMA AcceptRejectStep ==
  ASSUME IInv, NEW w \in Workers, AcceptReject(w) PROVE IInv'
<1>0. TypeOK /\ IndexFindsList /\ (kind = "server" => ServerOK) /\ w \in Threads
  BY DEF IInv, Threads
<1>1. PICK s \in Sessions :
        /\ s = on[w] /\ Go(w, "idle", s) /\ place[w] = "reject" /\ active' = active - 1
        /\ state' = [state EXCEPT ![s] = "Closed"]
        /\ UNCHANGED <<kind, enforce, list, index, manager, numbered, notified, connecting,
                       phase, refuse, listening, shuttingDown, todo>>
  BY <1>0 DEF TypeOK, AcceptReject, Resting, closeVars
<1>2. Moved(w, "idle", s) /\ TypeOK' /\ ((kind = "server" => ServerOK') => IInv')
  <2>1. IndexFindsList'
    BY <1>0, <1>1 DEF IndexFindsList, InList
  <2>2. /\ "idle" \in Places /\ list' \in Seq(Sessions) /\ index' \in [Sessions -> Nat]
        /\ manager' \in SUBSET Sessions /\ active' \in Int /\ numbered' \in [Sessions -> BOOLEAN]
        /\ connecting' \in [Sessions -> BOOLEAN]
        /\ state' \in [Sessions -> {"none", "Created", "Connected", "Disconnecting", "Closed"}]
    BY <1>0, <1>1 DEF TypeOK, Places
  <2>. QED BY <1>0, <1>1, <2>1, <2>2, ThreadStep0
<1>3. ASSUME kind = "server" PROVE ServerOK'
  <2>0. /\ ServerOK /\ SessionIs(s) /\ ~numbered[s] /\ ~notified[s] /\ state[s] = "Created" /\ ~Known(s)
        /\ (\A u \in Threads : AcceptIs(u)) /\ AloneOK
    BY <1>0, <1>1, <1>3 DEF ServerOK, SessionIs, Actors, AcceptIs, Entering
  <2>1. state'[s] = "Closed" /\ \A r \in Sessions \ {s} : state'[r] = state[r] /\ Same(r)
    BY <1>0, <1>1 DEF Same, InList, Known, TypeOK
  <2>2. \A u \in Threads : u = w \/ on[u] = s => AcceptIs(u)'
    <3>1. ASSUME NEW u \in Threads, u # w, on[u] = s PROVE place[u] \in {"idle", "exited", "release", "unmap", "uncount"}
      BY <1>0, <1>1, <2>0, <3>1 DEF AcceptIs, AloneOK, Accepting, Entering, TypeOK, Places
    <3>. QED BY <1>1, <1>2, <2>0, <3>1 DEF AcceptIs, Moved, Entering, Notifying
  <2>3. SessionIs(s)'
    BY <1>1, <2>0, <2>1 DEF SessionIs, Known, InList
  <2>4. Someone(CountedAt, s)
    BY <1>0, <1>1 DEF Someone, At, CountedAt
  <2>5. ~Someone(CountedAt, s)'
    BY <1>0, <1>1, <1>2, <2>0 DEF Someone, At, AcceptIs, CountedAt, Notifying, AloneOK, Accepting, Moved
  <2>6. active' = active + (IF IsCounted(s)' THEN 1 ELSE 0) - (IF IsCounted(s) THEN 1 ELSE 0)
    <3>1. ~IsCounted(s)' /\ IsCounted(s)
      BY <1>1, <2>0, <2>4, <2>5 DEF IsCounted
    <3>. QED BY <1>0, <1>1, <3>1 DEF TypeOK
  <2>7. ~Admitted(s)'
    BY <2>1 DEF Admitted
  <2>8. "idle" \notin Accepting /\ "idle" \notin Notifying
    BY DEF Accepting, Notifying
  <2>. QED BY <1>0, <1>1, <1>2, <2>0, <2>1, <2>2, <2>3, <2>6, <2>7, <2>8, ServerStep
<1>. QED BY <1>2, <1>3

LEMMA AcceptNumberStep ==
  ASSUME IInv, NEW w \in Workers, AcceptNumber(w) PROVE IInv'
<1>0. TypeOK /\ IndexFindsList /\ (kind = "server" => ServerOK) /\ w \in Threads
  BY DEF IInv, Threads
<1>1. PICK s \in Sessions :
        /\ s = on[w] /\ Go(w, "add", s) /\ place[w] = "number"
        /\ numbered' = [numbered EXCEPT ![s] = TRUE]
        /\ UNCHANGED <<kind, enforce, list, index, manager, active, state, notified, connecting,
                       phase, refuse, listening, shuttingDown, todo>>
  BY <1>0 DEF TypeOK, AcceptNumber, Resting, listVars, closeVars
<1>2. Moved(w, "add", s) /\ TypeOK' /\ ((kind = "server" => ServerOK') => IInv')
  <2>1. IndexFindsList'
    BY <1>0, <1>1 DEF IndexFindsList, InList
  <2>2. /\ "add" \in Places /\ list' \in Seq(Sessions) /\ index' \in [Sessions -> Nat]
        /\ manager' \in SUBSET Sessions /\ active' \in Int /\ numbered' \in [Sessions -> BOOLEAN]
        /\ connecting' \in [Sessions -> BOOLEAN]
        /\ state' \in [Sessions -> {"none", "Created", "Connected", "Disconnecting", "Closed"}]
    BY <1>0, <1>1 DEF TypeOK, Places
  <2>. QED BY <1>0, <1>1, <2>1, <2>2, ThreadStep0
<1>3. ASSUME kind = "server" PROVE ServerOK'
  <2>0. /\ ServerOK /\ SessionIs(s) /\ ~numbered[s] /\ ~notified[s] /\ state[s] = "Created" /\ ~Known(s)
        /\ (\A u \in Threads : AcceptIs(u)) /\ AloneOK
    BY <1>0, <1>1, <1>3 DEF ServerOK, SessionIs, Actors, AcceptIs, Entering
  <2>1. numbered'[s] = TRUE /\ \A r \in Sessions \ {s} : Same(r)
    BY <1>0, <1>1 DEF Same, InList, Known, TypeOK
  <2>2. \A u \in Threads : u = w \/ on[u] = s => AcceptIs(u)'
    <3>1. ASSUME NEW u \in Threads, u # w, on[u] = s PROVE place[u] \in {"idle", "exited"}
      BY <1>0, <1>1, <2>0, <3>1 DEF AcceptIs, AloneOK, Accepting, Notifying, Entering, TypeOK, Places
    <3>2. ~Known(s)'
      BY <1>1, <2>0 DEF Known, InList
    <3>. QED BY <1>1, <1>2, <2>0, <2>1, <3>1, <3>2 DEF AcceptIs, Moved, Entering, Notifying
  <2>3. Someone({"add"}, s)'
    BY <1>0, <1>2, GoesThere
  <2>4. SessionIs(s)'
    BY <1>1, <2>0, <2>1, <2>3 DEF SessionIs, Known, InList
  <2>5. Someone(CountedAt, s)
    BY <1>0, <1>1 DEF Someone, At, CountedAt
  <2>6. active' = active + (IF IsCounted(s)' THEN 1 ELSE 0) - (IF IsCounted(s) THEN 1 ELSE 0)
    <3>1. IsCounted(s)' /\ IsCounted(s)
      BY <1>1, <2>0, <2>1, <2>5 DEF IsCounted
    <3>. QED BY <1>0, <1>1, <3>1 DEF TypeOK
  <2>7. Admitted(s)
    BY <1>0, <1>1, <2>0 DEF Admitted, AloneOK, Accepting, Threads
  <2>8. "add" \notin Notifying /\ place[w] \in Accepting
    BY <1>1 DEF Accepting, Notifying
  <2>. QED BY <1>0, <1>1, <1>2, <2>0, <2>1, <2>2, <2>4, <2>6, <2>7, <2>8, ServerStep
<1>. QED BY <1>2, <1>3

(* CNetService::AddSession(): the session is listed, or refused and ended.   *)
LEMMA AddSessionStep ==
  ASSUME IInv, NEW t \in Threads, AddSession(t) PROVE IInv'
<1>0. TypeOK /\ IndexFindsList /\ (kind = "server" => ServerOK)
  BY DEF IInv
<1>1. CASE refuse
  <2>1. PICK s \in Sessions :
          /\ s = on[t] /\ Disconnect(t, s) /\ place[t] = "add"
          /\ UNCHANGED <<kind, enforce, list, index, manager, active, numbered, connecting, closeVars, todo>>
    BY <1>0, <1>1 DEF TypeOK, AddSession, Resting
  <2>2. /\ connecting' \in [Sessions -> BOOLEAN] /\ todo' \in [{"closer", "reaper"} -> SUBSET Sessions]
        /\ \A r \in Sessions : Known(r)' => Known(r)
    BY <1>0, <2>1 DEF TypeOK, Known, InList
  <2>. QED BY <2>1, <2>2, EndStep
<1>2. CASE ~refuse
  <2>1. PICK s \in Sessions, p \in {"map", "connectAsync"} :
          /\ s = on[t] /\ Go(t, p, s) /\ place[t] = "add" /\ (kind = "server" => p = "map")
          /\ list' = IF InList(s) THEN list ELSE Append(list, s)
          /\ index' = [index EXCEPT ![s] = IF InList(s) THEN @ ELSE Len(list) + 1]
          /\ UNCHANGED <<kind, enforce, manager, active, state, numbered, notified, connecting,
                         phase, refuse, listening, shuttingDown, todo>>
    BY <1>0, <1>2 DEF TypeOK, AddSession, Resting, closeVars
  <2>2. /\ IndexFindsList' /\ list' \in Seq(Sessions) /\ index' \in [Sessions -> Nat]
        /\ InList(s)' /\ \A r \in Sessions \ {s} : InList(r)' <=> InList(r)
    <3>1. CASE InList(s)
      <4>1. UNCHANGED <<list, index>>
        BY <1>0, <2>1, <3>1 DEF TypeOK
      <4>. QED BY <1>0, <3>1, <4>1 DEF IndexFindsList, InList, TypeOK
    <3>2. CASE ~InList(s)
      BY <1>0, <2>1, <3>2, ListAppend
    <3>. QED BY <3>1, <3>2
  <2>3. Moved(t, p, s) /\ TypeOK' /\ ((kind = "server" => ServerOK') => IInv')
    <3>1. /\ p \in Places /\ manager' \in SUBSET Sessions /\ active' \in Int /\ numbered' \in [Sessions -> BOOLEAN]
          /\ connecting' \in [Sessions -> BOOLEAN]
          /\ state' \in [Sessions -> {"none", "Created", "Connected", "Disconnecting", "Closed"}]
      BY <1>0, <2>1 DEF TypeOK, Places
    <3>. QED BY <1>0, <2>1, <2>2, <3>1, ThreadStep0
  <2>4. ASSUME kind = "server" PROVE ServerOK'
    <3>0. /\ ServerOK /\ SessionIs(s) /\ numbered[s] /\ ~notified[s] /\ state[s] = "Created" /\ ~Known(s)
          /\ (\A u \in Threads : AcceptIs(u)) /\ AloneOK /\ p = "map"
      BY <1>0, <2>1, <2>4 DEF ServerOK, SessionIs, Actors, AcceptIs
    <3>1. \A r \in Sessions \ {s} : Same(r)
      BY <2>1, <2>2 DEF Same, Known
    <3>2. \A u \in Threads : u = t \/ on[u] = s => AcceptIs(u)'
      <4>1. ASSUME NEW u \in Threads, u # t, on[u] = s PROVE place[u] \in {"idle", "exited"}
        BY <1>0, <2>1, <3>0, <4>1 DEF AcceptIs, AloneOK, Accepting, Notifying, Entering, TypeOK, Places
      <4>. QED BY <2>1, <2>2, <2>3, <3>0, <4>1 DEF AcceptIs, Moved, Entering, Notifying
    <3>3. SessionIs(s)'
      BY <2>1, <2>2, <3>0 DEF SessionIs, Known
    <3>4. active' = active + (IF IsCounted(s)' THEN 1 ELSE 0) - (IF IsCounted(s) THEN 1 ELSE 0)
      <4>1. IsCounted(s)' /\ IsCounted(s)
        BY <2>1, <3>0 DEF IsCounted
      <4>. QED BY <1>0, <2>1, <4>1 DEF TypeOK
    <3>5. Admitted(s)
      BY <2>1, <3>0 DEF Admitted, AloneOK, Accepting, Threads
    <3>6. "map" \notin Notifying /\ place[t] \in Accepting
      BY <2>1 DEF Accepting, Notifying
    <3>. QED BY <1>0, <2>1, <2>3, <3>0, <3>1, <3>2, <3>3, <3>4, <3>5, <3>6, ServerStep
  <2>. QED BY <2>3, <2>4
<1>. QED BY <1>1, <1>2

LEMMA AcceptMapStep ==
  ASSUME IInv, NEW w \in Workers, AcceptMap(w) PROVE IInv'
<1>0. TypeOK /\ IndexFindsList /\ (kind = "server" => ServerOK) /\ w \in Threads
  BY DEF IInv, Threads
<1>1. PICK s \in Sessions :
        /\ s = on[w] /\ Go(w, "connect", s) /\ place[w] = "map" /\ manager' = manager \union {s}
        /\ UNCHANGED <<kind, enforce, list, index, active, state, numbered, notified, connecting,
                       phase, refuse, listening, shuttingDown, todo>>
  BY <1>0 DEF TypeOK, AcceptMap, Resting, sessionVars, closeVars
<1>2. Moved(w, "connect", s) /\ TypeOK' /\ ((kind = "server" => ServerOK') => IInv')
  <2>1. IndexFindsList'
    BY <1>0, <1>1 DEF IndexFindsList, InList
  <2>2. /\ "connect" \in Places /\ list' \in Seq(Sessions) /\ index' \in [Sessions -> Nat]
        /\ manager' \in SUBSET Sessions /\ active' \in Int /\ numbered' \in [Sessions -> BOOLEAN]
        /\ connecting' \in [Sessions -> BOOLEAN]
        /\ state' \in [Sessions -> {"none", "Created", "Connected", "Disconnecting", "Closed"}]
    BY <1>0, <1>1 DEF TypeOK, Places
  <2>. QED BY <1>0, <1>1, <2>1, <2>2, ThreadStep0
<1>3. ASSUME kind = "server" PROVE ServerOK'
  <2>0. /\ ServerOK /\ SessionIs(s) /\ numbered[s] /\ (InList(s) \/ state[s] = "Closed")
        /\ (\A u \in Threads : AcceptIs(u)) /\ AloneOK
    BY <1>0, <1>1, <1>3 DEF ServerOK, SessionIs, Actors, AcceptIs
  <2>1. \A r \in Sessions \ {s} : Same(r)
    BY <1>1 DEF Same, InList, Known
  <2>2. \A u \in Threads : u = w \/ on[u] = s => AcceptIs(u)'
    <3>1. ASSUME NEW u \in Threads, u # w, on[u] = s PROVE place[u] \in Resting \union Notifying
      BY <1>0, <1>1, <2>0, <3>1 DEF AcceptIs, AloneOK, Accepting, Notifying, Entering, TypeOK, Places, Resting
    <3>. QED BY <1>1, <1>2, <2>0, <3>1 DEF AcceptIs, Moved, Entering, Notifying, InList, Resting
  <2>3. /\ ~At(w, {"add"}, s) /\ ~At(w, {"add"}, s)' /\ ~At(w, Notifying, s) /\ ~At(w, Notifying, s)'
        /\ ~At(w, CountedAt, s) /\ ~At(w, CountedAt, s)'
    BY <1>1, <1>2 DEF At, Notifying, CountedAt, Moved
  <2>4. /\ Someone({"add"}, s)' <=> Someone({"add"}, s)
        /\ Someone(Notifying, s)' <=> Someone(Notifying, s)
        /\ Someone(CountedAt, s)' <=> Someone(CountedAt, s)
    BY <1>0, <1>2, <2>3, StaysThere
  <2>5. SessionIs(s)'
    BY <1>1, <2>0, <2>4 DEF SessionIs, Known, InList
  <2>6. active' = active + (IF IsCounted(s)' THEN 1 ELSE 0) - (IF IsCounted(s) THEN 1 ELSE 0)
    <3>1. IsCounted(s)' <=> IsCounted(s)
      BY <1>1, <2>4 DEF IsCounted
    <3>. QED BY <1>0, <1>1, <3>1 DEF TypeOK
  <2>7. Admitted(s)' => Admitted(s)
    BY <1>1, <1>2 DEF Admitted, Moved, Threads
  <2>8. "connect" \notin Notifying /\ place[w] \in Accepting
    BY <1>1 DEF Accepting, Notifying
  <2>. QED BY <1>0, <1>1, <1>2, <2>0, <2>1, <2>2, <2>5, <2>6, <2>7, <2>8, ServerStep
<1>. QED BY <1>2, <1>3

(* ProcessConnect(), for an accepted session or after ConnectEx.             *)
LEMMA ProcessConnectStep ==
  ASSUME IInv, NEW w \in Workers, ProcessConnect(w) PROVE IInv'
<1>0. TypeOK /\ IndexFindsList /\ (kind = "server" => ServerOK) /\ w \in Threads
  BY DEF IInv, Threads
<1>1. PICK s \in Sessions :
        /\ s = on[w] /\ Go(w, "idle", s) /\ place[w] = "connect"
        /\ state' = [state EXCEPT ![s] = IF @ = "Created" THEN "Connected" ELSE @]
        /\ UNCHANGED <<kind, enforce, list, index, manager, active, numbered, notified, connecting,
                       phase, refuse, listening, shuttingDown, todo>>
  BY <1>0 DEF TypeOK, ProcessConnect, Resting, listVars, closeVars
<1>2. Moved(w, "idle", s) /\ TypeOK' /\ ((kind = "server" => ServerOK') => IInv')
  <2>1. IndexFindsList'
    BY <1>0, <1>1 DEF IndexFindsList, InList
  <2>2. /\ "idle" \in Places /\ list' \in Seq(Sessions) /\ index' \in [Sessions -> Nat]
        /\ manager' \in SUBSET Sessions /\ active' \in Int /\ numbered' \in [Sessions -> BOOLEAN]
        /\ connecting' \in [Sessions -> BOOLEAN]
        /\ state' \in [Sessions -> {"none", "Created", "Connected", "Disconnecting", "Closed"}]
    BY <1>0, <1>1 DEF TypeOK, Places
  <2>. QED BY <1>0, <1>1, <2>1, <2>2, ThreadStep0
<1>3. ASSUME kind = "server" PROVE ServerOK'
  <2>0. /\ ServerOK /\ SessionIs(s) /\ numbered[s] /\ (state[s] = "Created" => InList(s) /\ s \in manager)
        /\ (\A u \in Threads : AcceptIs(u)) /\ AloneOK
    BY <1>0, <1>1, <1>3 DEF ServerOK, SessionIs, Actors, AcceptIs
  <2>1. /\ state'[s] = IF state[s] = "Created" THEN "Connected" ELSE state[s]
        /\ \A r \in Sessions \ {s} : state'[r] = state[r] /\ Same(r)
    BY <1>0, <1>1 DEF Same, InList, Known, TypeOK
  <2>2. \A u \in Threads : u = w \/ on[u] = s => AcceptIs(u)'
    <3>1. ASSUME NEW u \in Threads, u # w, on[u] = s PROVE place[u] \in Resting \union Notifying
      BY <1>0, <1>1, <2>0, <3>1 DEF AcceptIs, AloneOK, Accepting, Notifying, Entering, TypeOK, Places, Resting
    <3>. QED BY <1>1, <1>2, <2>0, <3>1 DEF AcceptIs, Moved, Entering, Notifying, Resting
  <2>3. /\ ~At(w, {"add"}, s) /\ ~At(w, {"add"}, s)' /\ ~At(w, Notifying, s) /\ ~At(w, Notifying, s)'
        /\ ~At(w, CountedAt, s) /\ ~At(w, CountedAt, s)'
    BY <1>1, <1>2 DEF At, Notifying, CountedAt, Moved
  <2>4. /\ Someone({"add"}, s)' <=> Someone({"add"}, s)
        /\ Someone(Notifying, s)' <=> Someone(Notifying, s)
        /\ Someone(CountedAt, s)' <=> Someone(CountedAt, s)
    BY <1>0, <1>2, <2>3, StaysThere
  <2>5. SessionIs(s)'
    BY <1>1, <2>0, <2>1, <2>4 DEF SessionIs, Known, InList
  <2>6. active' = active + (IF IsCounted(s)' THEN 1 ELSE 0) - (IF IsCounted(s) THEN 1 ELSE 0)
    <3>1. IsCounted(s)' <=> IsCounted(s)
      BY <1>1, <2>4 DEF IsCounted
    <3>. QED BY <1>0, <1>1, <3>1 DEF TypeOK
  <2>7. Admitted(s)' => Admitted(s)
    BY <1>1, <1>2, <2>1 DEF Admitted, Moved, Threads
  <2>8. "idle" \notin Notifying /\ "idle" \notin Accepting
    BY DEF Accepting, Notifying
  <2>. QED BY <1>0, <1>1, <1>2, <2>0, <2>1, <2>2, <2>5, <2>6, <2>7, <2>8, ServerStep
<1>. QED BY <1>2, <1>3

(* The steps that only a client takes.                                       *)
LEMMA ClientStep ==
  ASSUME IInv,
         \/ \E s \in Sessions : ConnectOneMoreSession(s)
         \/ \E t \in Threads : ConnectAsync(t)
         \/ \E w \in Workers, s \in Sessions : ConnectCompletes(w, s)
  PROVE  IInv'
<1>0. TypeOK /\ IndexFindsList /\ WorkersExit /\ (kind = "server" => ServerOK)
  BY DEF IInv
<1>1. kind' = kind /\ kind = "client"
  <2>1. kind = "server" => /\ \A t \in Threads : place[t] # "connectAsync"
                           /\ \A s \in Sessions : ~connecting[s]
    BY <1>0 DEF ServerOK, Actors, AcceptIs, SessionIs
  <2>. QED BY <1>0, <2>1 DEF TypeOK, ConnectOneMoreSession, ConnectAsync, ConnectCompletes
<1>2. PICK t \in Threads, s \in Sessions, p \in Places :
        /\ Go(t, p, s) /\ place[t] # "exited"
        /\ UNCHANGED <<enforce, listVars, numbered, closeVars, todo>>
        /\ state' \in [Sessions -> {"none", "Created", "Connected", "Disconnecting", "Closed"}]
        /\ notified' \in [Sessions -> BOOLEAN] /\ connecting' \in [Sessions -> BOOLEAN]
  <2>1. CASE \E s \in Sessions : ConnectOneMoreSession(s)
    <3>1. PICK s \in Sessions : ConnectOneMoreSession(s)
      BY <2>1
    <3>2. "app" \in Threads /\ "add" \in Places
      BY DEF Threads, Places
    <3>. QED BY <1>0, <3>1, <3>2 DEF ConnectOneMoreSession, TypeOK
  <2>2. CASE \E t \in Threads : ConnectAsync(t)
    <3>1. PICK t \in Threads : ConnectAsync(t)
      BY <2>2
    <3>2. on[t] \in Sessions /\ {"idle", "unmap", "release"} \subseteq Places
      BY <1>0, <3>1 DEF ConnectAsync, TypeOK, Resting, Places
    <3>3. PICK p \in {"idle", "unmap", "release"} : Go(t, p, on[t])
      BY <3>1 DEF ConnectAsync, FailConnect, NotifyPlace
    <3>4. /\ place[t] = "connectAsync" /\ UNCHANGED <<enforce, listVars, numbered, closeVars, todo>>
          /\ connecting' = connecting \/ connecting' = [connecting EXCEPT ![on[t]] = TRUE]
          /\ \/ UNCHANGED <<state, notified>>
             \/ state' = [state EXCEPT ![on[t]] = "Closed"] /\ notified' = [notified EXCEPT ![on[t]] = TRUE]
      BY <3>1 DEF ConnectAsync, FailConnect
    <3>5. /\ state' \in [Sessions -> {"none", "Created", "Connected", "Disconnecting", "Closed"}]
          /\ notified' \in [Sessions -> BOOLEAN] /\ connecting' \in [Sessions -> BOOLEAN]
      BY <1>0, <3>4 DEF TypeOK
    <3>. QED BY <3>2, <3>3, <3>4, <3>5
  <2>3. CASE \E w \in Workers, s \in Sessions : ConnectCompletes(w, s)
    <3>1. PICK w \in Workers, s \in Sessions : ConnectCompletes(w, s)
      BY <2>3
    <3>2. w \in Threads /\ {"idle", "unmap", "release", "connect"} \subseteq Places
      BY DEF Threads, Places
    <3>3. PICK p \in {"idle", "unmap", "release", "connect"} : Go(w, p, s)
      BY <3>1 DEF ConnectCompletes, FailConnect, NotifyPlace
    <3>4. /\ place[w] = "idle" /\ UNCHANGED <<enforce, listVars, numbered, closeVars, todo>>
          /\ connecting' = [connecting EXCEPT ![s] = FALSE]
          /\ \/ UNCHANGED <<state, notified>>
             \/ state' = [state EXCEPT ![s] = "Closed"] /\ notified' = [notified EXCEPT ![s] = TRUE]
      BY <3>1 DEF ConnectCompletes, FailConnect
    <3>5. /\ state' \in [Sessions -> {"none", "Created", "Connected", "Disconnecting", "Closed"}]
          /\ notified' \in [Sessions -> BOOLEAN] /\ connecting' \in [Sessions -> BOOLEAN]
      BY <1>0, <3>4 DEF TypeOK
    <3>. QED BY <3>2, <3>3, <3>4, <3>5
  <2>. QED BY <2>1, <2>2, <2>3
<1>3. Moved(t, p, s) /\ \A u \in Threads : place'[u] \notin Resting => on'[u] \in Sessions
  BY <1>0, <1>2, GoMoves
<1>4. TypeOK'
  BY <1>0, <1>1, <1>2, <1>3 DEF TypeOK, Moved, listVars, closeVars
<1>5. IndexFindsList'
  BY <1>0, <1>2 DEF IndexFindsList, InList, listVars
<1>6. WorkersExit'
  BY <1>0, <1>2, <1>3, ExitKept DEF closeVars
<1>. QED BY <1>1, <1>4, <1>5, <1>6 DEF IInv

(* The ends of a session: by its peer, by a completion, by the idle sweep,   *)
(* and by Close().                                                           *)
LEMMA EndingStep ==
  ASSUME IInv, NEW s \in Sessions,
         \/ \E w \in Workers : PeerCloses(w, s) \/ DisconnectCompletes(w, s)
         \/ SweepNext(s) \/ CloseDisconnect(s) \/ CloseAbort(s)
  PROVE  IInv'
<1>0. TypeOK /\ IndexFindsList /\ WorkersExit /\ (kind = "server" => ServerOK)
  BY DEF IInv
<1>1. CASE \E w \in Workers : PeerCloses(w, s) \/ DisconnectCompletes(w, s)
  <2>1. PICK w \in Workers : PeerCloses(w, s) \/ DisconnectCompletes(w, s)
    BY <1>1
  <2>2. /\ w \in Threads /\ (Disconnect(w, s) \/ FailConnect(w, s)) /\ place[w] = "idle"
        /\ state[s] \in {"Connected", "Disconnecting"}
        /\ UNCHANGED <<kind, enforce, list, index, manager, active, numbered, closeVars, connecting, todo>>
    BY <2>1 DEF PeerCloses, DisconnectCompletes, listVars, Threads
  <2>3. /\ connecting' \in [Sessions -> BOOLEAN] /\ todo' \in [{"closer", "reaper"} -> SUBSET Sessions]
        /\ \A r \in Sessions : Known(r)' => Known(r)
    BY <1>0, <2>2 DEF TypeOK, Known, InList
  <2>. QED BY <2>2, <2>3, EndStep
<1>2. CASE SweepNext(s) /\ state[s] # "Connected"
  <2>1. /\ UNCHANGED <<kind, enforce, list, index, manager, active, sessionVars, closeVars, place, on>>
        /\ todo' = [todo EXCEPT !["reaper"] = @ \ {s}]
    BY <1>2 DEF SweepNext, listVars, sessionVars
  <2>2. todo' \in [{"closer", "reaper"} -> SUBSET Sessions] /\ \A r \in Sessions : Known(r)' => Known(r)
    BY <1>0, <2>1 DEF TypeOK, Known, InList
  <2>3. TypeOK'
    BY <1>0, <2>1, <2>2 DEF TypeOK, sessionVars, closeVars
  <2>4. IndexFindsList' /\ WorkersExit'
    BY <1>0, <2>1 DEF IndexFindsList, InList, WorkersExit, closeVars
  <2>5. kind = "server" => ServerOK'
    BY <1>0, <2>1, <2>2, QuietStep
  <2>. QED BY <2>1, <2>3, <2>4, <2>5 DEF IInv
<1>3. CASE CloseDisconnect(s) \/ CloseAbort(s) \/ (SweepNext(s) /\ state[s] = "Connected")
  <2>1. PICK t \in {"closer", "reaper"} :
          /\ Disconnect(t, s) \/ FailConnect(t, s)
          /\ place[t] = "idle" /\ s \in todo[t] /\ todo' = [todo EXCEPT ![t] = @ \ {s}]
          /\ UNCHANGED <<kind, enforce, list, index, manager, active, numbered, closeVars, connecting>>
    BY <1>3 DEF CloseDisconnect, CloseAbort, SweepNext, listVars
  <2>2. /\ t \in Threads /\ Known(s) /\ connecting' \in [Sessions -> BOOLEAN]
        /\ todo' \in [{"closer", "reaper"} -> SUBSET Sessions]
        /\ \A r \in Sessions : Known(r)' => Known(r)
    BY <1>0, <2>1 DEF TypeOK, Known, InList, Threads
  <2>. QED BY <2>1, <2>2, EndStep
<1>. QED BY <1>1, <1>2, <1>3

(* OnSessionDisconnected(): the map, then the count.                         *)
LEMMA RemoveSessionStep ==
  ASSUME IInv, NEW t \in Threads, RemoveSession(t) PROVE IInv'
<1>0. TypeOK /\ IndexFindsList /\ (kind = "server" => ServerOK)
  BY DEF IInv
<1>1. PICK s \in Sessions :
        /\ s = on[t] /\ Go(t, "uncount", s) /\ place[t] = "unmap" /\ manager' = manager \ {s}
        /\ UNCHANGED <<kind, enforce, list, index, active, state, numbered, notified, connecting,
                       phase, refuse, listening, shuttingDown, todo>>
  BY <1>0 DEF TypeOK, RemoveSession, Resting, sessionVars, closeVars
<1>2. Moved(t, "uncount", s) /\ TypeOK' /\ ((kind = "server" => ServerOK') => IInv')
  <2>1. IndexFindsList'
    BY <1>0, <1>1 DEF IndexFindsList, InList
  <2>2. /\ "uncount" \in Places /\ list' \in Seq(Sessions) /\ index' \in [Sessions -> Nat]
        /\ manager' \in SUBSET Sessions /\ active' \in Int /\ numbered' \in [Sessions -> BOOLEAN]
        /\ connecting' \in [Sessions -> BOOLEAN]
        /\ state' \in [Sessions -> {"none", "Created", "Connected", "Disconnecting", "Closed"}]
    BY <1>0, <1>1 DEF TypeOK, Places
  <2>. QED BY <1>0, <1>1, <2>1, <2>2, ThreadStep0
<1>3. ASSUME kind = "server" PROVE ServerOK'
  <2>0. /\ ServerOK /\ SessionIs(s) /\ notified[s] /\ numbered[s] /\ state[s] = "Closed"
        /\ (\A u \in Threads : AcceptIs(u)) /\ AloneOK
    BY <1>0, <1>1, <1>3 DEF ServerOK, SessionIs, Actors, AcceptIs, Notifying
  <2>1. \A r \in Sessions \ {s} : Same(r)
    BY <1>1 DEF Same, InList, Known
  <2>2. \A u \in Threads : u = t \/ on[u] = s => AcceptIs(u)'
    <3>1. ASSUME NEW u \in Threads, u # t, on[u] = s
          PROVE  AcceptIs(u) /\ place'[u] = place[u] /\ on'[u] = s /\ place[u] # "add"
      BY <1>1, <1>2, <2>0, <3>1 DEF AcceptIs, Moved
    <3>. QED BY <1>1, <1>2, <2>0, <3>1 DEF AcceptIs, Moved, Entering, Notifying, InList
  <2>3. Someone(Notifying, s)' /\ Someone(CountedAt, s)' /\ Someone(CountedAt, s)
    <3>1. "uncount" \in Notifying /\ "uncount" \in CountedAt
      BY DEF Notifying, CountedAt
    <3>2. Someone(CountedAt, s)
      BY <1>1 DEF CountedAt, Someone, At
    <3>. QED BY <1>2, <3>1, <3>2, GoesThere
  <2>4. SessionIs(s)'
    BY <1>1, <2>0, <2>3 DEF SessionIs, Known, InList
  <2>5. active' = active + (IF IsCounted(s)' THEN 1 ELSE 0) - (IF IsCounted(s) THEN 1 ELSE 0)
    BY <1>0, <1>1, <2>3 DEF TypeOK, IsCounted
  <2>6. ~Admitted(s)'
    BY <1>1, <2>0 DEF Admitted
  <2>7. "uncount" \notin Accepting /\ place[t] \in Notifying
    BY <1>1 DEF Accepting, Notifying
  <2>. QED BY <1>0, <1>1, <1>2, <2>0, <2>1, <2>2, <2>4, <2>5, <2>6, <2>7, ServerStep
<1>. QED BY <1>2, <1>3

LEMMA UncountSessionStep ==
  ASSUME IInv, NEW t \in Threads, UncountSession(t) PROVE IInv'
<1>0. TypeOK /\ IndexFindsList /\ (kind = "server" => ServerOK)
  BY DEF IInv
<1>1. PICK s \in Sessions :
        /\ s = on[t] /\ Go(t, "release", s) /\ place[t] = "uncount" /\ active' = active - 1
        /\ UNCHANGED <<kind, enforce, list, index, manager, state, numbered, notified, connecting,
                       phase, refuse, listening, shuttingDown, todo>>
  BY <1>0 DEF TypeOK, UncountSession, Resting, sessionVars, closeVars
<1>2. Moved(t, "release", s) /\ TypeOK' /\ ((kind = "server" => ServerOK') => IInv')
  <2>1. IndexFindsList'
    BY <1>0, <1>1 DEF IndexFindsList, InList
  <2>2. /\ "release" \in Places /\ list' \in Seq(Sessions) /\ index' \in [Sessions -> Nat]
        /\ manager' \in SUBSET Sessions /\ active' \in Int /\ numbered' \in [Sessions -> BOOLEAN]
        /\ connecting' \in [Sessions -> BOOLEAN]
        /\ state' \in [Sessions -> {"none", "Created", "Connected", "Disconnecting", "Closed"}]
    BY <1>0, <1>1 DEF TypeOK, Places
  <2>. QED BY <1>0, <1>1, <2>1, <2>2, ThreadStep0
<1>3. ASSUME kind = "server" PROVE ServerOK'
  <2>0. /\ ServerOK /\ SessionIs(s) /\ notified[s] /\ numbered[s] /\ state[s] = "Closed"
        /\ (\A u \in Threads : AcceptIs(u)) /\ AloneOK
    BY <1>0, <1>1, <1>3 DEF ServerOK, SessionIs, Actors, AcceptIs, Notifying
  <2>1. \A r \in Sessions : Same(r)
    BY <1>1 DEF Same, InList, Known
  <2>2. \A u \in Threads : u = t \/ on[u] = s => AcceptIs(u)'
    <3>1. ASSUME NEW u \in Threads, u # t, on[u] = s
          PROVE  AcceptIs(u) /\ place'[u] = place[u] /\ on'[u] = s /\ place[u] # "add"
      BY <1>1, <1>2, <2>0, <3>1 DEF AcceptIs, Moved
    <3>. QED BY <1>1, <1>2, <2>0, <3>1 DEF AcceptIs, Moved, Entering, Notifying, InList
  <2>3. Someone(Notifying, s)' /\ Someone(CountedAt, s)
    <3>1. "release" \in Notifying
      BY DEF Notifying
    <3>2. Someone(CountedAt, s)
      BY <1>1 DEF CountedAt, Someone, At
    <3>. QED BY <1>2, <3>1, <3>2, GoesThere
  <2>4. ~Someone(CountedAt, s)'
    <3>1. ASSUME NEW u \in Threads, u # t, on[u] = s PROVE place[u] \notin CountedAt
      BY <1>1, <2>0, <3>1 DEF AcceptIs, AloneOK, CountedAt, Entering, Notifying
    <3>. QED BY <1>2, <3>1 DEF Someone, At, Moved, CountedAt
  <2>5. SessionIs(s)'
    BY <1>1, <2>0, <2>3 DEF SessionIs, Known, InList
  <2>6. active' = active + (IF IsCounted(s)' THEN 1 ELSE 0) - (IF IsCounted(s) THEN 1 ELSE 0)
    <3>1. ~IsCounted(s)' /\ IsCounted(s)
      BY <1>1, <2>0, <2>3, <2>4 DEF IsCounted
    <3>. QED BY <1>0, <1>1, <3>1 DEF TypeOK
  <2>7. ~Admitted(s)'
    BY <1>1, <2>0 DEF Admitted
  <2>8. "release" \notin Accepting /\ place[t] \in Notifying
    BY <1>1 DEF Accepting, Notifying
  <2>. QED BY <1>0, <1>1, <1>2, <2>0, <2>1, <2>2, <2>5, <2>6, <2>7, <2>8, ServerStep
<1>. QED BY <1>2, <1>3

LEMMA ReleaseSessionStep ==
  ASSUME IInv, NEW t \in Threads, ReleaseSession(t) PROVE IInv'
<1>0. TypeOK /\ IndexFindsList /\ (kind = "server" => ServerOK)
  BY DEF IInv
<1>1. PICK s \in Sessions :
        /\ s = on[t] /\ Go(t, "idle", s) /\ place[t] = "release"
        /\ IF InList(s)
           THEN /\ list' = Front([list EXCEPT ![index[s]] = Last(list)])
                /\ index' = [index EXCEPT ![Last(list)] = index[s], ![s] = 0]
           ELSE UNCHANGED <<list, index>>
        /\ UNCHANGED <<kind, enforce, manager, active, state, numbered, notified, connecting,
                       phase, refuse, listening, shuttingDown, todo>>
  BY <1>0 DEF TypeOK, ReleaseSession, Resting, sessionVars, closeVars
<1>2. /\ IndexFindsList' /\ list' \in Seq(Sessions) /\ index' \in [Sessions -> Nat]
      /\ ~InList(s)' /\ \A r \in Sessions \ {s} : InList(r)' <=> InList(r)
  <2>1. CASE ~InList(s)
    BY <1>0, <1>1, <2>1 DEF IndexFindsList, InList, TypeOK
  <2>2. CASE InList(s)
    BY <1>0, <1>1, <2>2, ListRemove
  <2>. QED BY <2>1, <2>2
<1>3. Moved(t, "idle", s) /\ TypeOK' /\ ((kind = "server" => ServerOK') => IInv')
  <2>1. /\ "idle" \in Places /\ manager' \in SUBSET Sessions /\ active' \in Int
        /\ numbered' \in [Sessions -> BOOLEAN] /\ connecting' \in [Sessions -> BOOLEAN]
        /\ state' \in [Sessions -> {"none", "Created", "Connected", "Disconnecting", "Closed"}]
    BY <1>0, <1>1 DEF TypeOK, Places
  <2>. QED BY <1>0, <1>1, <1>2, <2>1, ThreadStep0
<1>4. ASSUME kind = "server" PROVE ServerOK'
  <2>0. /\ ServerOK /\ SessionIs(s) /\ notified[s] /\ numbered[s] /\ state[s] = "Closed"
        /\ (\A u \in Threads : AcceptIs(u)) /\ AloneOK
    BY <1>0, <1>1, <1>4 DEF ServerOK, SessionIs, Actors, AcceptIs, Notifying
  <2>1. \A r \in Sessions \ {s} : Same(r)
    BY <1>1, <1>2 DEF Same, Known
  <2>2. \A u \in Threads : u = t \/ on[u] = s => AcceptIs(u)'
    <3>1. ASSUME NEW u \in Threads, u # t, on[u] = s
          PROVE  AcceptIs(u) /\ place'[u] = place[u] /\ on'[u] = s /\ place[u] # "add"
      BY <1>1, <1>3, <2>0, <3>1 DEF AcceptIs, Moved
    <3>. QED BY <1>1, <1>3, <2>0, <3>1 DEF AcceptIs, Moved, Entering, Notifying
  <2>3. SessionIs(s)'
    BY <1>1, <1>2, <2>0 DEF SessionIs, Known
  <2>4. Someone(CountedAt, s)' <=> Someone(CountedAt, s)
    BY <1>1, <1>3, StaysThere DEF At, CountedAt, Moved
  <2>5. active' = active + (IF IsCounted(s)' THEN 1 ELSE 0) - (IF IsCounted(s) THEN 1 ELSE 0)
    <3>1. IsCounted(s)' <=> IsCounted(s)
      BY <1>1, <2>4 DEF IsCounted
    <3>. QED BY <1>0, <1>1, <3>1 DEF TypeOK
  <2>6. ~Admitted(s)'
    BY <1>1, <2>0 DEF Admitted
  <2>7. "idle" \notin Accepting /\ "idle" \notin Notifying
    BY DEF Accepting, Notifying
  <2>. QED BY <1>0, <1>1, <1>3, <2>0, <2>1, <2>2, <2>3, <2>5, <2>6, <2>7, ServerStep
<1>. QED BY <1>3, <1>4

-----------------------------------------------------------------------------
LEMMA InitOK == ServiceInit => IInv
<1> SUFFICES ASSUME ServiceInit PROVE IInv
  OBVIOUS
<1>1. TypeOK
  <2>1. kind \in {"server", "client"} /\ enforce \in BOOLEAN /\ (enforce => kind = "server")
    BY ServiceLimit DEF ServiceInit
  <2>2. /\ list \in Seq(Sessions) /\ manager \in SUBSET Sessions /\ active \in Int
        /\ refuse \in BOOLEAN /\ listening \in BOOLEAN /\ shuttingDown \in BOOLEAN /\ phase \in Phases
    <3>1. list \in Seq(Sessions) /\ manager \in SUBSET Sessions /\ active \in Int
      BY DEF ServiceInit
    <3>2. listening \in BOOLEAN
      BY DEF ServiceInit
    <3>3. refuse \in BOOLEAN /\ shuttingDown \in BOOLEAN /\ phase \in Phases
      BY DEF ServiceInit, Phases
    <3>. QED BY <3>1, <3>2, <3>3
  <2>3. /\ index \in [Sessions -> Nat] /\ numbered \in [Sessions -> BOOLEAN]
        /\ notified \in [Sessions -> BOOLEAN] /\ connecting \in [Sessions -> BOOLEAN]
        /\ state \in [Sessions -> {"none", "Created", "Connected", "Disconnecting", "Closed"}]
        /\ todo \in [{"closer", "reaper"} -> SUBSET Sessions]
        /\ place \in [Threads -> Places] /\ on \in [Threads -> Sessions \union {NoSession}]
    BY DEF ServiceInit, Places
  <2>4. \A t \in Threads : place[t] \notin Resting => on[t] \in Sessions
    BY DEF ServiceInit, Resting
  <2>. QED BY <2>1, <2>2, <2>3, <2>4 DEF TypeOK
<1>2. IndexFindsList
  BY DEF ServiceInit, IndexFindsList, InList, IsInjective, ToSet
<1>3. WorkersExit
  BY DEF ServiceInit, WorkersExit
<1>4. \A P, s : P \intersect Resting = {} => ~Someone(P, s)
  BY DEF ServiceInit, Someone, At, Resting
<1>5. ASSUME kind = "server" PROVE ServerOK
  <2>1. \A t \in Threads : AcceptIs(t)
    BY DEF ServiceInit, AcceptIs, Entering, Notifying
  <2>2. AloneOK
    BY DEF ServiceInit, AloneOK, Accepting, Notifying
  <2>3. \A s \in Sessions : SessionIs(s)
    BY DEF ServiceInit, SessionIs, Known, InList
  <2>4. CountOK
    <3>1. \A s \in Sessions : ~IsCounted(s)
      <4>1. CountedAt \intersect Resting = {}
        BY DEF CountedAt, Resting
      <4>. QED BY <1>4, <4>1 DEF ServiceInit, IsCounted
    <3>2. Counted = {}
      BY <3>1 DEF Counted
    <3>. QED BY <3>2, FS_EmptySet DEF CountOK, ServiceInit
  <2>5. LimitHolds
    <3>1. \A s \in Sessions : ~Admitted(s)
      BY DEF ServiceInit, Admitted
    <3>2. {s \in Sessions : Admitted(s)} = {}
      BY <3>1
    <3>3. Cardinality({s \in Sessions : Admitted(s)}) <= Limit
      BY <3>2, FS_EmptySet, ServiceLimit
    <3>. QED BY <3>3 DEF LimitHolds, Admitted
  <2>. QED BY <2>1, <2>2, <2>3, <2>4, <2>5 DEF ServerOK, Actors
<1>. QED BY <1>1, <1>2, <1>3, <1>5 DEF IInv

LEMMA NextOK == ASSUME IInv, [ServiceNext]_serviceVars PROVE IInv'
<1>1. CASE Quietly
  BY <1>1, QuietlyKeeps
<1>2. CASE \E t \in Threads : ThreadStep(t)
  BY <1>2, AddSessionStep, ClientStep, RemoveSessionStep, UncountSessionStep, ReleaseSessionStep DEF ThreadStep
<1>3. CASE \E w \in Workers : WorkerStep(w)
  BY <1>1, <1>3, AcceptCountStep, AcceptRejectStep, AcceptNumberStep, AcceptMapStep, ProcessConnectStep
  DEF WorkerStep, Quietly
<1>4. CASE \E s \in Sessions : Event(s) \/ SweepNext(s) \/ CloseDisconnect(s) \/ CloseAbort(s)
  BY <1>1, <1>4, AcceptStep, ClientStep, EndingStep DEF Event, Quietly
<1>5. CASE UNCHANGED serviceVars
  <2>1. UNCHANGED <<kind, enforce, list, index, manager, active, state, numbered, notified, connecting,
                    refuse, listening, shuttingDown, phase, todo, place, on>>
    BY <1>5 DEF serviceVars, listVars, sessionVars, closeVars
  <2>2. TypeOK' /\ IndexFindsList' /\ WorkersExit'
    BY <2>1 DEF IInv, TypeOK, IndexFindsList, InList, WorkersExit
  <2>3. (kind = "server" => ServerOK) => (kind = "server" => ServerOK)'
    <3>1. ASSUME TypeOK, ServerOK PROVE ServerOK'
      BY <2>1, <3>1, QuietStep DEF Known, InList, sessionVars
    <3>. QED BY <2>1, <3>1 DEF IInv
  <2>. QED BY <2>2, <2>3 DEF IInv
<1>. QED BY <1>1, <1>2, <1>3, <1>4, <1>5 DEF ServiceNext, Quietly, CloserStep

(* The service's invariant holds in every behaviour: any number of sessions, *)
(* workers accepting and disconnecting them, an idle sweep, and a Close().   *)
THEOREM ServiceInductive == ServiceSpec => []IInv
  BY InitOK, NextOK, PTL DEF ServiceSpec

(* The length of an injective list is the number of its members.             *)
LEMMA ListSize ==
  ASSUME TypeOK, IndexFindsList
  PROVE  Len(list) = Cardinality({s \in Sessions : InList(s)})
<1> DEFINE S == {s \in Sessions : InList(s)}
<1>1. list \in Bijection(1..Len(list), S)
  <2>1. Len(list) \in Nat /\ DOMAIN list = 1..Len(list) /\ \A i \in 1..Len(list) : list[i] \in Sessions
    BY DEF TypeOK
  <2>2. \A i \in 1..Len(list) : list[i] \in S
    BY <2>1 DEF IndexFindsList, ToSet
  <2>3. \A s \in S : \E i \in 1..Len(list) : list[i] = s
    BY <2>1 DEF IndexFindsList
  <2>4. list \in [1..Len(list) -> S]
    BY <2>1, <2>2 DEF TypeOK
  <2>5. IsInjective(list)
    BY DEF IndexFindsList
  <2>. QED BY <2>1, <2>3, <2>4, <2>5 DEF Bijection, Injection, Surjection, IsInjective
<1>2. Len(list) \in Nat
  BY DEF TypeOK
<1>. QED BY <1>1, <1>2, FS_CountingElements, FS_NatBijection DEF ExistsBijection

(* The session list and its index agree after any swap with the last entry,  *)
(* a connected session is in the list and in the manager, and when nobody is *)
(* accepting or notifying _activeSessionCount is the length of the list.     *)
THEOREM ListsAgreeHolds == ServiceSpec => []ListsAgree
<1>1. IInv => ListsAgree
  <2> SUFFICES ASSUME IInv PROVE ListsAgree
    OBVIOUS
  <2>1. TypeOK /\ IndexFindsList /\ (kind = "server" => ServerOK)
    BY DEF IInv
  <2>2. BothListed
    BY <2>1 DEF BothListed, ServerOK, SessionIs
  <2>3. CountIsListLength
    <3> SUFFICES ASSUME kind = "server", \A t \in Threads : place[t] \notin Accepting \union Notifying
                 PROVE  active = Len(list)
      BY DEF CountIsListLength
    <3>1. \A s : ~Someone({"add"}, s) /\ ~Someone(Notifying, s) /\ ~Someone(CountedAt, s)
      BY DEF Someone, At, Accepting, Notifying, CountedAt
    <3>2. \A s \in Sessions : IsCounted(s) <=> InList(s)
      BY <2>1, <3>1 DEF ServerOK, SessionIs, IsCounted, Known
    <3>3. Counted = {s \in Sessions : InList(s)}
      BY <3>2 DEF Counted
    <3>. QED BY <2>1, <3>3, ListSize DEF ServerOK, CountOK
  <2>. QED BY <2>1, <2>2, <2>3 DEF ListsAgree
<1>. QED BY ServiceInductive, <1>1, PTL

(* However many workers accept at once, a server has no more admitted        *)
(* sessions, not yet told of their end, than the limit allows: the count is  *)
(* raised before it is compared.                                             *)
THEOREM LimitHoldsAlways == ServiceSpec => []LimitHolds
<1>1. IInv => LimitHolds
  <2>1. kind = "server" \/ ~enforce \/ ~IInv
    BY DEF IInv, TypeOK
  <2>2. ~enforce => LimitHolds
    BY DEF LimitHolds
  <2>. QED BY <2>1, <2>2 DEF IInv, ServerOK
<1>. QED BY ServiceInductive, <1>1, PTL

-----------------------------------------------------------------------------
(* The listener.  Places with a slot in the thread's hands; those of a retry *)
(* thread that is counted; those of whoever runs the destructor.             *)
Registering == {"register", "loadSocket", "post", "retry", "count", "spawn"}
Holding == Registering \union {"wait", "test", "process", "update"}
Retrying == Registering \union {"wait", "test", "finish"}
Destroying == {"destroy", "destroyClose", "destroyWait"}

PlacesOf(t) ==
    Registering \union Destroying \union
    CASE t \in AcceptWorkers -> {"idle", "process", "update", "callback", "drop"}
      [] t \in Retriers      -> {"none", "wait", "test", "finish", "drop"}
      [] OTHER               -> {"idle", "stopClose", "stopWait"}

(* Where the threads are, and who has a reference of his own.                *)
PlacesOK ==
    /\ \A t \in AcceptThreads :
         /\ at[t] \in PlacesOf(t)
         /\ slotAt[t] \in Slots <=> at[t] \in Holding
    /\ \A r \in Retriers : ~self[r] => at[r] \in {"none", "wait", "finish", "drop"} \union Destroying
    /\ ~owned => at["main"] \in {"idle"} \union Destroying
    /\ ~socketOpen \/ (\E t \in AcceptThreads : at[t] \in {"stopClose", "stopWait", "destroyClose", "destroyWait"})
         => closing

(* A slot is in one place, and until Stop() in some place.                   *)
InHand(s) == \E t \in AcceptThreads : slotAt[t] = s
SlotsOK ==
    /\ unstarted \intersect posted = {} /\ unstarted \intersect lost = {} /\ posted \intersect lost = {}
    /\ \A s \in Slots : InHand(s) => s \notin unstarted \union posted \union lost
    /\ \A t, u \in AcceptThreads : slotAt[t] = slotAt[u] /\ slotAt[t] \in Slots => t = u
    /\ ~closing /\ life = "live" => \A s \in Slots : InHand(s) \/ s \in unstarted \union posted \union lost

(* The count of the retry threads: those that run, and those about to.       *)
Spawners == {t \in AcceptThreads : at[t] = "spawn"}
Pending == {r \in Retriers : at[r] \in Retrying}
PendingOK == pendingRetries = Cardinality(Spawners) + Cardinality(Pending)

(* The destructor runs when nobody has a reference, in one thread; when it   *)
(* has returned no retry thread is left that was counted.                    *)
LifeOK ==
    /\ \A t, u \in AcceptThreads : at[t] \in Destroying /\ at[u] \in Destroying => t = u
    /\ life # "dying" => \A t \in AcceptThreads : at[t] \notin Destroying
    /\ life # "live" =>
         /\ posted = {} /\ ~owned
         /\ \A t \in AcceptThreads : at[t] \in {"idle", "none", "wait", "finish", "drop"} \union Destroying
         /\ \A w \in AcceptWorkers : at[w] \in {"idle"} \union Destroying
         /\ \A r \in Retriers : ~self[r]
    /\ life = "freed" => \A r \in Retriers : at[r] \notin Retrying

ListenerIInv == ListenerTypeOK /\ PlacesOK /\ SlotsOK /\ PendingOK /\ LifeOK

-----------------------------------------------------------------------------
LEMMA ListenerFinite ==
  /\ IsFiniteSet(AcceptThreads)
  /\ \A S \in SUBSET AcceptThreads : IsFiniteSet(S) /\ Cardinality(S) \in Nat
  /\ \A S \in SUBSET Retriers : IsFiniteSet(S) /\ Cardinality(S) \in Nat
<1>1. IsFiniteSet({"main"})
  BY FS_Singleton
<1>2. IsFiniteSet(AcceptWorkers \union Retriers)
  BY ListenerThreads, FS_Union
<1>3. IsFiniteSet(AcceptThreads)
  BY <1>1, <1>2, FS_Union DEF AcceptThreads
<1>. QED BY <1>3, ListenerThreads, FS_Subset, FS_CardinalityType

(* A set that a step changes in one place.                                   *)
LEMMA SizeMoves ==
  ASSUME NEW S, NEW S2, NEW t, IsFiniteSet(S), IsFiniteSet(S2), S2 \ {t} = S \ {t}
  PROVE  Cardinality(S2) + (IF t \in S THEN 1 ELSE 0) = Cardinality(S) + (IF t \in S2 THEN 1 ELSE 0)
<1>1. Cardinality(S) \in Nat /\ Cardinality(S2) \in Nat
  BY FS_CardinalityType
<1>2. CASE t \in S /\ t \notin S2
  <2>1. S2 = S \ {t}
    BY <1>2
  <2>2. Cardinality(S2) = Cardinality(S) - 1
    BY <1>2, <2>1, FS_RemoveElement
  <2>. QED BY <1>1, <1>2, <2>2
<1>3. CASE t \notin S /\ t \in S2
  <2>1. S2 = S \union {t}
    BY <1>3
  <2>2. Cardinality(S2) = Cardinality(S) + 1
    BY <1>3, <2>1, FS_AddElement
  <2>. QED BY <1>1, <1>3, <2>2
<1>4. CASE t \in S <=> t \in S2
  <2>1. S2 = S
    BY <1>4
  <2>. QED BY <1>1, <2>1
<1>. QED BY <1>2, <1>3, <1>4

(* Thread t goes on to place b, with x in its hands.                         *)
Hop(t, b, x) ==
    /\ at[t] # b
    /\ at' = [at EXCEPT ![t] = b]
    /\ slotAt' = [slotAt EXCEPT ![t] = x]

Spawns(t, b) == IF b = "spawn" THEN 1 ELSE 0
Retries(t, b) == IF t \in Retriers /\ b \in Retrying THEN 1 ELSE 0

LEMMA HopCounts ==
  ASSUME ListenerTypeOK, PendingOK, NEW t \in AcceptThreads, NEW b, at' = [at EXCEPT ![t] = b],
         pendingRetries' + Spawns(t, at[t]) + Retries(t, at[t]) = pendingRetries + Spawns(t, b) + Retries(t, b),
         pendingRetries' \in Int
  PROVE  PendingOK'
<1>1. at'[t] = b /\ \A u \in AcceptThreads \ {t} : at'[u] = at[u]
  BY DEF ListenerTypeOK
<1>2. /\ IsFiniteSet(Spawners) /\ IsFiniteSet(Spawners') /\ IsFiniteSet(Pending) /\ IsFiniteSet(Pending')
      /\ Cardinality(Spawners) \in Nat /\ Cardinality(Spawners') \in Nat
      /\ Cardinality(Pending) \in Nat /\ Cardinality(Pending') \in Nat
  BY ListenerFinite DEF Spawners, Pending
<1>3. Cardinality(Spawners') + Spawns(t, at[t]) = Cardinality(Spawners) + Spawns(t, b)
  <2>1. Spawners' \ {t} = Spawners \ {t} /\ (t \in Spawners <=> at[t] = "spawn") /\ (t \in Spawners' <=> b = "spawn")
    BY <1>1 DEF Spawners
  <2>. QED BY <1>2, <2>1, SizeMoves DEF Spawns
<1>4. Cardinality(Pending') + Retries(t, at[t]) = Cardinality(Pending) + Retries(t, b)
  <2>1. /\ Pending' \ {t} = Pending \ {t}
        /\ t \in Pending <=> t \in Retriers /\ at[t] \in Retrying
        /\ t \in Pending' <=> t \in Retriers /\ b \in Retrying
    BY <1>1 DEF Pending, AcceptThreads
  <2>. QED BY <1>2, <2>1, SizeMoves DEF Retries
<1>5. Spawns(t, at[t]) \in Int /\ Spawns(t, b) \in Int /\ Retries(t, at[t]) \in Int /\ Retries(t, b) \in Int
  BY DEF Spawns, Retries
<1>6. pendingRetries = Cardinality(Spawners) + Cardinality(Pending) /\ pendingRetries \in Int
  BY DEF PendingOK, ListenerTypeOK
<1>7. Cardinality(Spawners') = Cardinality(Spawners) + Spawns(t, b) - Spawns(t, at[t])
  BY ONLY <1>2, <1>3, <1>5
<1>8. Cardinality(Pending') = Cardinality(Pending) + Retries(t, b) - Retries(t, at[t])
  BY ONLY <1>2, <1>4, <1>5
<1>9. pendingRetries' = pendingRetries + Spawns(t, b) + Retries(t, b) - Spawns(t, at[t]) - Retries(t, at[t])
  BY <1>5, <1>6
<1>10. pendingRetries' = Cardinality(Spawners') + Cardinality(Pending')
  BY <1>2, <1>5, <1>6, <1>7, <1>8, <1>9
<1>. QED BY <1>10 DEF PendingOK

LEMMA ResumeIs ==
  ASSUME NEW t \in AcceptThreads
  PROVE  /\ Resume(t) \in PlacesOf(t) /\ Resume(t) \in {"callback", "drop", "finish", "idle"}
         /\ t \in AcceptWorkers => Resume(t) \in {"callback", "drop"}
         /\ t \in Retriers => Resume(t) = "finish"
         /\ t = "main" => Resume(t) = "idle"
  BY ListenerThreads DEF Resume, PlacesOf, AcceptThreads

(* A step of one thread: what has to be shown of that thread and of the slot *)
(* that it hands on, gives up, or keeps.                                     *)
StopPlaces == {"stopClose", "stopWait", "destroyClose", "destroyWait"}

LEMMA HopStep ==
  ASSUME ListenerIInv, ListenerTypeOK', LifeOK', life' = "live" => life = "live",
         NEW t \in AcceptThreads, NEW b, NEW x, Hop(t, b, x),
         b \in PlacesOf(t), x \in Slots <=> b \in Holding,
         \A r \in Retriers \ {t} : self'[r] = self[r],
         t \in Retriers /\ ~self'[t] => b \in {"none", "wait", "finish", "drop"} \union Destroying,
         ~owned' => (IF t = "main" THEN b ELSE at["main"]) \in {"idle"} \union Destroying,
         closing => closing', ~socketOpen' => closing', b \in StopPlaces => closing',
         /\ unstarted' \intersect posted' = {} /\ unstarted' \intersect lost' = {} /\ posted' \intersect lost' = {}
         /\ \A s \in Slots : InHand(s) /\ slotAt[t] # s => s \notin unstarted' \union posted' \union lost'
         /\ x \in Slots => /\ x \notin unstarted' \union posted' \union lost'
                           /\ \A u \in AcceptThreads \ {t} : slotAt[u] # x
         /\ ~closing' /\ life' = "live" =>
              /\ slotAt[t] \in Slots => slotAt[t] = x \/ slotAt[t] \in unstarted' \union posted' \union lost'
              /\ \A s \in unstarted \union posted \union lost :
                   s = x \/ s \in unstarted' \union posted' \union lost',
         pendingRetries' + Spawns(t, at[t]) + Retries(t, at[t]) = pendingRetries + Spawns(t, b) + Retries(t, b)
  PROVE  ListenerIInv'
<1>0. ListenerTypeOK /\ PlacesOK /\ SlotsOK /\ PendingOK /\ LifeOK
  BY DEF ListenerIInv
<1>1. /\ at'[t] = b /\ slotAt'[t] = x
      /\ \A u \in AcceptThreads \ {t} : at'[u] = at[u] /\ slotAt'[u] = slotAt[u]
  BY <1>0 DEF Hop, ListenerTypeOK
<1>2. PlacesOK'
  <2>1. ASSUME NEW u \in AcceptThreads
        PROVE  at'[u] \in PlacesOf(u) /\ (slotAt'[u] \in Slots <=> at'[u] \in Holding)
    BY <1>0, <1>1 DEF PlacesOK
  <2>2. \A r \in Retriers : ~self'[r] => at'[r] \in {"none", "wait", "finish", "drop"} \union Destroying
    BY <1>0, <1>1 DEF PlacesOK, AcceptThreads
  <2>3. ~owned' => at'["main"] \in {"idle"} \union Destroying
    BY <1>0, <1>1 DEF PlacesOK, AcceptThreads
  <2>4. ~socketOpen' \/ (\E u \in AcceptThreads : at'[u] \in {"stopClose", "stopWait", "destroyClose", "destroyWait"})
          => closing'
    <3>2. ASSUME NEW u \in AcceptThreads, at'[u] \in {"stopClose", "stopWait", "destroyClose", "destroyWait"}
          PROVE  closing'
      BY <1>0, <1>1, <3>2 DEF PlacesOK, StopPlaces
    <3>. QED BY <3>2
  <2>. QED BY <2>1, <2>2, <2>3, <2>4 DEF PlacesOK
<1>3. SlotsOK'
  <2>1. \A s \in Slots : InHand(s)' => s \notin unstarted' \union posted' \union lost'
    <3>1. ASSUME NEW s \in Slots, NEW u \in AcceptThreads, slotAt'[u] = s
          PROVE  s \notin unstarted' \union posted' \union lost'
      <4>1. CASE u = t
        BY <1>1, <3>1, <4>1
      <4>2. CASE u # t
        <5>1. slotAt[u] = s /\ InHand(s)
          BY <1>1, <3>1, <4>2 DEF InHand
        <5>2. slotAt[t] # s
          BY <1>0, <4>2, <5>1 DEF SlotsOK
        <5>. QED BY <5>1, <5>2
      <4>. QED BY <4>1, <4>2
    <3>. QED BY <3>1 DEF InHand
  <2>2. \A u, v \in AcceptThreads : slotAt'[u] = slotAt'[v] /\ slotAt'[u] \in Slots => u = v
    BY <1>0, <1>1 DEF SlotsOK
  <2>3. ASSUME ~closing', life' = "live", NEW s \in Slots PROVE InHand(s)' \/ s \in unstarted' \union posted' \union lost'
    <3>0. ~closing /\ life = "live"
      BY <2>3
    <3>1. InHand(s) \/ s \in unstarted \union posted \union lost
      BY <1>0, <3>0 DEF SlotsOK
    <3>2. CASE s \in unstarted \union posted \union lost
      BY <1>1, <2>3, <3>2 DEF InHand
    <3>3. CASE InHand(s)
      BY <1>1, <2>3, <3>3 DEF InHand
    <3>. QED BY <3>1, <3>2, <3>3
  <2>. QED BY <2>1, <2>2, <2>3 DEF SlotsOK
<1>4. PendingOK'
  <2>1. pendingRetries' \in Int
    BY DEF ListenerTypeOK
  <2>. QED BY <1>0, <2>1, HopCounts DEF Hop
<1>. QED BY <1>2, <1>3, <1>4 DEF ListenerIInv

(* Most places are reached only while somebody has a reference.              *)
LEMMA LiveThere ==
  ASSUME LifeOK, NEW t \in AcceptThreads,
         at[t] \notin {"idle", "none", "wait", "finish", "drop"} \union Destroying
  PROVE  life = "live"
  BY DEF LifeOK

LEMMA LiveLife ==
  ASSUME ListenerTypeOK, LifeOK, life = "live", life' = "live", NEW t \in AcceptThreads, NEW b, NEW x,
         Hop(t, b, x), b \notin Destroying
  PROVE  LifeOK'
  BY DEF LifeOK, Hop, ListenerTypeOK

(* A thread stays on a live listener, and keeps its slot.                    *)
LEMMA KeepStep ==
  ASSUME ListenerIInv, NEW t \in AcceptThreads, NEW b \in Holding, at[t] \in Holding,
         Hop(t, b, slotAt[t]), life = "live", b \in PlacesOf(t),
         at[t] # "wait" /\ b # "wait" /\ (t \in Retriers => self[t]), (t = "main" => owned),
         UNCHANGED <<slotVars, closing, socketOpen, lifeVars, self>>, accepted' \in [AcceptWorkers -> BOOLEAN],
         pendingRetries' \in Nat,
         pendingRetries' + Spawns(t, at[t]) + Retries(t, at[t]) = pendingRetries + Spawns(t, b) + Retries(t, b)
  PROVE  ListenerIInv'
<1>0. ListenerTypeOK /\ PlacesOK /\ SlotsOK /\ PendingOK /\ LifeOK
  BY DEF ListenerIInv
<1>1. b \notin Destroying \union StopPlaces
  BY DEF Holding, Registering, Destroying, StopPlaces
<1>2. slotAt[t] \in Slots
  BY <1>0 DEF PlacesOK
<1>3. ListenerTypeOK'
  BY <1>0 DEF ListenerTypeOK, Hop, slotVars, lifeVars, Holding, Registering
<1>4. LifeOK'
  BY <1>0, <1>1, LiveLife DEF lifeVars
<1>5. /\ UNCHANGED <<unstarted, posted, lost, closing, socketOpen, life, owned, self>>
      /\ ~socketOpen => closing
  BY <1>0 DEF slotVars, lifeVars, PlacesOK
<1>6. \A s \in Slots : InHand(s) => s \notin unstarted \union posted \union lost
  BY <1>0 DEF SlotsOK
<1>7. slotAt[t] \notin unstarted \union posted \union lost
  BY <1>2, <1>6 DEF InHand
<1>8. \A u \in AcceptThreads \ {t} : slotAt[u] # slotAt[t]
  BY <1>0, <1>2 DEF SlotsOK
<1>9. ~owned' => (IF t = "main" THEN b ELSE at["main"]) \in {"idle"} \union Destroying
  BY <1>0, <1>5 DEF PlacesOK
<1>10. /\ unstarted' \intersect posted' = {} /\ unstarted' \intersect lost' = {} /\ posted' \intersect lost' = {}
       /\ \A s \in Slots : InHand(s) /\ slotAt[t] # s => s \notin unstarted' \union posted' \union lost'
  BY <1>0, <1>5, <1>6 DEF SlotsOK
<1>. QED BY <1>1, <1>2, <1>3, <1>4, <1>5, <1>7, <1>8, <1>9, <1>10, HopStep

(* A thread returns from RegisterAccept() and the like, and its slot is      *)
(* where `posted` or `lost` now say, or nowhere because of Stop().           *)
LEMMA ReturnStep ==
  ASSUME ListenerIInv, NEW t \in AcceptThreads, at[t] \in Holding, NEW b, b = Resume(t),
         Hop(t, b, NoSlot), life = "live",
         at[t] # "wait" /\ (t \in Retriers => self[t]), (t = "main" => owned),
         UNCHANGED <<unstarted, closing, socketOpen, lifeVars, accepted, self>>,
         \/ closing /\ UNCHANGED <<posted, lost>>
         \/ posted' = posted \union {slotAt[t]} /\ lost' = lost
         \/ lost' = lost \union {slotAt[t]} /\ posted' = posted,
         pendingRetries' \in Nat,
         pendingRetries' + Spawns(t, at[t]) = pendingRetries
  PROVE  ListenerIInv'
<1>0. ListenerTypeOK /\ PlacesOK /\ SlotsOK /\ PendingOK /\ LifeOK
  BY DEF ListenerIInv
<1>1. /\ b \in {"callback", "drop", "finish", "idle"} /\ b \in PlacesOf(t)
      /\ t \in Retriers => b = "finish"
  BY ResumeIs
<1>2. b \notin Destroying \union StopPlaces /\ b \notin Holding /\ b # "spawn"
  BY <1>1 DEF Holding, Registering, Destroying, StopPlaces
<1>3. slotAt[t] \in Slots /\ NoSlot \notin Slots
  BY <1>0, ListenerThreads DEF PlacesOK
<1>4. ListenerTypeOK'
  BY <1>0, <1>1, <1>3 DEF ListenerTypeOK, Hop, lifeVars
<1>5. LifeOK'
  BY <1>0, <1>2, LiveLife DEF lifeVars
<1>6. /\ UNCHANGED <<unstarted, closing, socketOpen, life, owned, self>>
      /\ ~socketOpen => closing
  BY <1>0 DEF lifeVars, PlacesOK
<1>7. \A s \in Slots : InHand(s) => s \notin unstarted \union posted \union lost
  BY <1>0 DEF SlotsOK
<1>8. slotAt[t] \notin unstarted \union posted \union lost
  BY <1>3, <1>7 DEF InHand
<1>9. ~owned' => (IF t = "main" THEN b ELSE at["main"]) \in {"idle"} \union Destroying
  BY <1>0, <1>6 DEF PlacesOK
<1>10. /\ unstarted' \intersect posted' = {} /\ unstarted' \intersect lost' = {} /\ posted' \intersect lost' = {}
       /\ \A s \in Slots : InHand(s) /\ slotAt[t] # s => s \notin unstarted' \union posted' \union lost'
  BY <1>0, <1>6, <1>7, <1>8 DEF SlotsOK
<1>11. pendingRetries' + Spawns(t, at[t]) + Retries(t, at[t]) = pendingRetries + Spawns(t, b) + Retries(t, b)
  <2>1. Retries(t, at[t]) = Retries(t, b)
    <3>1. CASE t \in Retriers
      <4>1. at[t] \in PlacesOf(t) /\ t \notin AcceptWorkers
        BY <1>0, <3>1, ListenerThreads DEF PlacesOK
      <4>2. at[t] \in Retrying
        BY <3>1, <4>1 DEF PlacesOf, Holding, Registering, Retrying, Destroying
      <4>3. b \in Retrying
        BY <1>1, <3>1 DEF Retrying
      <4>. QED BY <4>2, <4>3 DEF Retries
    <3>2. CASE t \notin Retriers
      BY <3>2 DEF Retries
    <3>. QED BY <3>1, <3>2
  <2>2. Spawns(t, b) = 0
    BY <1>2 DEF Spawns
  <2>3. Retries(t, b) \in Int /\ pendingRetries \in Int /\ pendingRetries' \in Int /\ Spawns(t, at[t]) \in Int
    BY <1>0 DEF Retries, Spawns, ListenerTypeOK
  <2>. QED BY <2>1, <2>2, <2>3
<1>12. ~closing' => /\ slotAt[t] \in posted' \union lost'
                    /\ \A s \in unstarted \union posted \union lost : s \in unstarted' \union posted' \union lost'
  BY <1>6
<1>. QED BY <1>1, <1>2, <1>3, <1>4, <1>5, <1>6, <1>9, <1>10, <1>11, <1>12, HopStep

(* The steps of RegisterAccept() and of a retry, ProcessAccept() included.   *)
LEMMA HolderFacts ==
  ASSUME ListenerIInv, NEW t \in AcceptThreads, at[t] \in Holding, at[t] # "wait"
  PROVE  /\ life = "live" /\ (t \in Retriers => self[t]) /\ (t = "main" => owned)
         /\ ListenerTypeOK /\ (~socketOpen => closing) /\ pendingRetries \in Nat
<1>0. ListenerTypeOK /\ PlacesOK /\ LifeOK
  BY DEF ListenerIInv
<1>1. life = "live"
  BY <1>0, LiveThere DEF Holding, Registering, Destroying
<1>2. t \in Retriers => self[t]
  BY <1>0 DEF PlacesOK, Holding, Registering, Destroying
<1>3. t = "main" => owned
  BY <1>0 DEF PlacesOK, Holding, Registering, Destroying
<1>. QED BY <1>0, <1>1, <1>2, <1>3 DEF PlacesOK, ListenerTypeOK

LEMMA RegisterStep ==
  ASSUME ListenerIInv, NEW t \in AcceptThreads,
         \/ RegisterTestClosing(t) \/ RegisterLoadSocket(t) \/ RegisterPost(t) \/ RegisterFails(t)
         \/ RetryTestClosing(t) \/ RetryCount(t) \/ RetrySpawnFails(t)
  PROVE  ListenerIInv'
<1>1. at[t] \in Registering
  BY DEF RegisterTestClosing, RegisterLoadSocket, RegisterPost, RegisterFails, RetryTestClosing, RetryCount,
         RetrySpawnFails, Registering
<1>2. at[t] \in Holding /\ at[t] # "wait"
  BY <1>1 DEF Holding, Registering
<1>3. /\ life = "live" /\ (t \in Retriers => self[t]) /\ (t = "main" => owned)
      /\ ListenerTypeOK /\ (~socketOpen => closing) /\ pendingRetries \in Nat
  BY <1>2, HolderFacts
<1>4. Resume(t) \notin Holding
  BY ResumeIs DEF Holding, Registering
<1>5. ASSUME NEW b \in Registering, Goto(t, b), UNCHANGED <<slotAt, accepted>>, at[t] # b,
             UNCHANGED <<slotVars, closing, socketOpen, lifeVars, self>>,
             pendingRetries' + Spawns(t, at[t]) = pendingRetries + Spawns(t, b), pendingRetries' \in Nat
      PROVE  ListenerIInv'
  <2>1. Hop(t, b, slotAt[t])
    BY <1>3, <1>5 DEF Hop, Goto, ListenerTypeOK
  <2>2. b \in Holding /\ b \in PlacesOf(t) /\ b # "wait"
    BY DEF Holding, Registering, PlacesOf
  <2>3. Retries(t, at[t]) = Retries(t, b)
    BY <1>1 DEF Retries, Retrying
  <2>4. pendingRetries' + Spawns(t, at[t]) + Retries(t, at[t]) = pendingRetries + Spawns(t, b) + Retries(t, b)
    <3>1. Retries(t, b) \in Int /\ Spawns(t, b) \in Int /\ Spawns(t, at[t]) \in Int
      BY DEF Retries, Spawns
    <3>. QED BY <1>3, <1>5, <2>3, <3>1
  <2>5. accepted' \in [AcceptWorkers -> BOOLEAN]
    BY <1>3, <1>5 DEF ListenerTypeOK
  <2>. QED BY <1>2, <1>3, <1>5, <2>1, <2>2, <2>4, <2>5, KeepStep
<1>6. ASSUME Return(t), UNCHANGED <<unstarted, closing, socketOpen, lifeVars, self>>,
             \/ closing /\ UNCHANGED <<posted, lost>>
             \/ posted' = posted \union {slotAt[t]} /\ lost' = lost
             \/ lost' = lost \union {slotAt[t]} /\ posted' = posted,
             pendingRetries' \in Nat, pendingRetries' + Spawns(t, at[t]) = pendingRetries
      PROVE  ListenerIInv'
  <2>1. PICK b : b = Resume(t)
    OBVIOUS
  <2>2. Hop(t, b, NoSlot) /\ UNCHANGED accepted
    BY <1>2, <1>4, <1>6, <2>1 DEF Hop, Return, Goto
  <2>. QED BY <1>2, <1>3, <1>6, <2>1, <2>2, ReturnStep
<1>. USE DEF Spawns, Registering, slotVars, stopVars
<1>7. CASE RegisterTestClosing(t)
  BY <1>3, <1>5, <1>6, <1>7 DEF RegisterTestClosing
<1>8. CASE RegisterLoadSocket(t)
  BY <1>3, <1>5, <1>6, <1>8 DEF RegisterLoadSocket
<1>9. CASE RegisterPost(t)
  BY <1>3, <1>6, <1>9 DEF RegisterPost
<1>10. CASE RegisterFails(t)
  BY <1>3, <1>5, <1>10 DEF RegisterFails
<1>11. CASE RetryTestClosing(t)
  BY <1>3, <1>5, <1>6, <1>11 DEF RetryTestClosing
<1>12. CASE RetryCount(t)
  BY <1>3, <1>5, <1>12 DEF RetryCount
<1>13. CASE RetrySpawnFails(t)
  <2>1. pendingRetries > 0
    <3>1. t \in Spawners
      BY <1>13 DEF RetrySpawnFails, Spawners
    <3>2. Cardinality(Spawners) # 0 /\ Cardinality(Spawners) \in Nat /\ Cardinality(Pending) \in Nat
      BY <3>1, ListenerFinite, FS_EmptySet DEF Spawners, Pending
    <3>. QED BY <3>2 DEF ListenerIInv, PendingOK
  <2>. QED BY <1>3, <1>6, <1>13, <2>1 DEF RetrySpawnFails
<1>. QED BY <1>7, <1>8, <1>9, <1>10, <1>11, <1>12, <1>13

(* The retry thread takes the slot over; who started it goes on.             *)
LEMMA RetrySpawnStep ==
  ASSUME ListenerIInv, NEW t \in AcceptThreads, NEW r \in Retriers, RetrySpawn(t, r)
  PROVE  ListenerIInv'
<1>0. ListenerTypeOK /\ PlacesOK /\ SlotsOK /\ PendingOK /\ LifeOK /\ r \in AcceptThreads
  BY DEF ListenerIInv, AcceptThreads
<1>1. PICK b : b = Resume(t)
  OBVIOUS
<1>2. /\ b \in {"callback", "drop", "finish", "idle"} /\ b \in PlacesOf(t)
      /\ t \in Retriers => b = "finish"
  BY <1>1, ResumeIs
<1>3. /\ at[t] = "spawn" /\ at[r] = "none" /\ t # r
      /\ at'[t] = b /\ at'[r] = "wait" /\ slotAt'[t] = NoSlot /\ slotAt'[r] = slotAt[t]
      /\ \A u \in AcceptThreads \ {t, r} : at'[u] = at[u] /\ slotAt'[u] = slotAt[u]
      /\ UNCHANGED <<unstarted, posted, lost, closing, socketOpen, pendingRetries, life, owned, stopped,
                     accepted, self>>
  BY <1>0, <1>1 DEF RetrySpawn, ListenerTypeOK, slotVars, stopVars, lifeVars
<1>4. slotAt[t] \in Slots /\ slotAt[r] \notin Slots /\ NoSlot \notin Slots
  BY <1>0, <1>3, ListenerThreads DEF PlacesOK, Holding, Registering
<1>5. at[t] \in Holding /\ at[t] # "wait"
  BY <1>3 DEF Holding, Registering
<1>6. life = "live" /\ (t \in Retriers => self[t]) /\ (t = "main" => owned)
  BY <1>5, HolderFacts
<1>7. ListenerTypeOK'
  BY <1>0, <1>1, <1>2, <1>3, <1>4 DEF ListenerTypeOK, RetrySpawn
<1>8. PlacesOK'
  <2>1. ASSUME NEW u \in AcceptThreads
        PROVE  at'[u] \in PlacesOf(u) /\ (slotAt'[u] \in Slots <=> at'[u] \in Holding)
    <3>1. CASE u = t
      BY <1>2, <1>3, <1>4, <3>1 DEF Holding, Registering
    <3>2. CASE u = r
      <4>1. "wait" \in PlacesOf(r) /\ "wait" \in Holding
        BY ListenerThreads DEF PlacesOf, Holding
      <4>. QED BY <1>3, <1>4, <3>2, <4>1
    <3>3. CASE u # t /\ u # r
      BY <1>0, <1>3, <3>3 DEF PlacesOK
    <3>. QED BY <3>1, <3>2, <3>3
  <2>2. \A q \in Retriers : ~self'[q] => at'[q] \in {"none", "wait", "finish", "drop"} \union Destroying
    <3>1. ASSUME NEW q \in Retriers, ~self[q] PROVE at'[q] \in {"none", "wait", "finish", "drop"} \union Destroying
      BY <1>0, <1>3, <1>6, <3>1 DEF PlacesOK, AcceptThreads
    <3>. QED BY <1>3, <3>1
  <2>3. ~owned' => at'["main"] \in {"idle"} \union Destroying
    <3>1. "main" # r
      BY ListenerThreads
    <3>. QED BY <1>0, <1>3, <1>6, <3>1 DEF PlacesOK, AcceptThreads
  <2>4. ~socketOpen' \/ (\E u \in AcceptThreads : at'[u] \in StopPlaces) => closing'
    <3>1. ASSUME NEW u \in AcceptThreads, at'[u] \in StopPlaces PROVE closing
      <4>1. u # t /\ u # r
        BY <1>2, <1>3, <3>1 DEF StopPlaces
      <4>. QED BY <1>0, <1>3, <3>1, <4>1 DEF PlacesOK, StopPlaces
    <3>. QED BY <1>0, <1>3, <3>1 DEF PlacesOK
  <2>. QED BY <2>1, <2>2, <2>3, <2>4 DEF PlacesOK, StopPlaces
<1>9. SlotsOK'
  <2>1. \A s \in Slots : InHand(s)' <=> InHand(s)
    <3>1. ASSUME NEW s \in Slots, InHand(s) PROVE InHand(s)'
      BY <1>0, <1>3, <1>4, <3>1 DEF InHand
    <3>2. ASSUME NEW s \in Slots, InHand(s)' PROVE InHand(s)
      BY <1>0, <1>3, <1>4, <3>2 DEF InHand
    <3>. QED BY <3>1, <3>2
  <2>2. \A u, v \in AcceptThreads : slotAt'[u] = slotAt'[v] /\ slotAt'[u] \in Slots => u = v
    BY <1>0, <1>3, <1>4 DEF SlotsOK
  <2>. QED BY <1>0, <1>3, <2>1, <2>2 DEF SlotsOK
<1>10. PendingOK'
  <2>1. /\ IsFiniteSet(Spawners) /\ IsFiniteSet(Pending) /\ Cardinality(Spawners) \in Nat
        /\ Cardinality(Pending) \in Nat
    BY ListenerFinite DEF Spawners, Pending
  <2>2. Spawners' = Spawners \ {t} /\ t \in Spawners
    BY <1>2, <1>3 DEF Spawners
  <2>3. Pending' = Pending \union {r} /\ r \notin Pending
    BY <1>0, <1>2, <1>3 DEF Pending, Retrying, Registering, AcceptThreads
  <2>4. Cardinality(Spawners') = Cardinality(Spawners) - 1 /\ Cardinality(Pending') = Cardinality(Pending) + 1
    BY <2>1, <2>2, <2>3, FS_AddElement, FS_RemoveElement
  <2>. QED BY <1>0, <1>3, <2>1, <2>4 DEF PendingOK
<1>11. LifeOK'
  BY <1>0, <1>2, <1>3, <1>6 DEF LifeOK, Destroying
<1>. QED BY <1>7, <1>8, <1>9, <1>10, <1>11 DEF ListenerIInv

(* The slot-free steps: a thread hops without a slot, before and after.      *)
LEMMA FreeHop ==
  ASSUME ListenerIInv, ListenerTypeOK', LifeOK', life' = "live" => life = "live",
         NEW t \in AcceptThreads, NEW b, at' = [at EXCEPT ![t] = b], UNCHANGED <<slotAt, slotVars>>, at[t] # b,
         at[t] \notin Holding, b \notin Holding, b \in PlacesOf(t),
         \A r \in Retriers \ {t} : self'[r] = self[r],
         t \in Retriers /\ ~self'[t] => b \in {"none", "wait", "finish", "drop"} \union Destroying,
         ~owned' => (IF t = "main" THEN b ELSE at["main"]) \in {"idle"} \union Destroying,
         closing => closing', ~socketOpen' => closing', b \in StopPlaces => closing',
         pendingRetries' + Retries(t, at[t]) = pendingRetries + Retries(t, b)
  PROVE  ListenerIInv'
<1>0. ListenerTypeOK /\ PlacesOK /\ SlotsOK
  BY DEF ListenerIInv
<1>1. slotAt[t] \notin Slots
  BY <1>0 DEF PlacesOK
<1>2. Hop(t, b, slotAt[t])
  BY <1>0 DEF Hop, ListenerTypeOK
<1>3. Spawns(t, at[t]) = 0 /\ Spawns(t, b) = 0
  BY DEF Spawns, Holding, Registering
<1>4. pendingRetries' + Spawns(t, at[t]) + Retries(t, at[t]) = pendingRetries + Spawns(t, b) + Retries(t, b)
  <2>1. pendingRetries \in Int /\ pendingRetries' \in Int /\ Retries(t, at[t]) \in Int /\ Retries(t, b) \in Int
    BY <1>0 DEF Retries, ListenerTypeOK
  <2>. QED BY <1>3, <2>1
<1>5. UNCHANGED <<unstarted, posted, lost>>
  BY DEF slotVars
<1>6. /\ unstarted' \intersect posted' = {} /\ unstarted' \intersect lost' = {} /\ posted' \intersect lost' = {}
      /\ \A s \in Slots : InHand(s) /\ slotAt[t] # s => s \notin unstarted' \union posted' \union lost'
  BY <1>0, <1>5 DEF SlotsOK
<1>. QED BY <1>1, <1>2, <1>4, <1>5, <1>6, HopStep

LEMMA RetryLockStep ==
  ASSUME ListenerIInv, NEW r \in Retriers, RetryLock(r) PROVE ListenerIInv'
<1>0. ListenerTypeOK /\ PlacesOK /\ SlotsOK /\ LifeOK /\ r \in AcceptThreads /\ r \notin AcceptWorkers /\ r # "main"
  BY ListenerThreads DEF ListenerIInv, AcceptThreads
<1>1. PICK b \in {"test", "finish"}, x \in {slotAt[r], NoSlot} :
        /\ b = IF life = "live" THEN "test" ELSE "finish"
        /\ x = IF life = "live" THEN slotAt[r] ELSE NoSlot
        /\ at[r] = "wait" /\ Hop(r, b, x) /\ self' = [self EXCEPT ![r] = (life = "live")]
        /\ UNCHANGED <<unstarted, posted, lost, closing, socketOpen, pendingRetries, life, owned, stopped, accepted>>
  BY <1>0 DEF RetryLock, Goto, Hop, ListenerTypeOK, slotVars, stopVars, lifeVars
<1>2. slotAt[r] \in Slots /\ NoSlot \notin Slots
  BY <1>0, <1>1, ListenerThreads DEF PlacesOK, Holding
<1>3. /\ b \in PlacesOf(r) /\ b \notin Destroying \union StopPlaces /\ b \in Retrying /\ at[r] \in Retrying
      /\ b # "spawn" /\ (b \in Holding <=> b = "test")
  BY <1>0, <1>1 DEF PlacesOf, Destroying, StopPlaces, Retrying, Holding, Registering
<1>4. ListenerTypeOK'
  BY <1>0, <1>1, <1>2 DEF ListenerTypeOK, Hop
<1>5. LifeOK'
  <2>1. CASE life = "live"
    BY <1>0, <1>1, <1>3, <2>1, LiveLife
  <2>2. CASE life # "live"
    <3>1. life = "dying"
      BY <1>0, <1>1, <1>3, <2>2 DEF ListenerTypeOK, LifeOK
    <3>2. at'[r] = "finish" /\ \A u \in AcceptThreads \ {r} : at'[u] = at[u]
      BY <1>0, <1>1, <2>2 DEF Hop, ListenerTypeOK
    <3>3. \A q \in Retriers : self'[q] = FALSE
      BY <1>0, <1>1, <2>2 DEF LifeOK, ListenerTypeOK
    <3>. QED BY <1>0, <1>1, <1>3, <3>1, <3>2, <3>3 DEF LifeOK, AcceptThreads
  <2>. QED BY <2>1, <2>2
<1>6. pendingRetries' + Spawns(r, at[r]) + Retries(r, at[r]) = pendingRetries + Spawns(r, b) + Retries(r, b)
  BY <1>0, <1>1, <1>3 DEF Spawns, Retries, ListenerTypeOK
<1>7. /\ \A q \in Retriers \ {r} : self'[q] = self[q]
      /\ ~self'[r] => b \in {"none", "wait", "finish", "drop"} \union Destroying
  BY <1>0, <1>1 DEF ListenerTypeOK
<1>8. /\ unstarted' \intersect posted' = {} /\ unstarted' \intersect lost' = {} /\ posted' \intersect lost' = {}
      /\ \A s \in Slots : InHand(s) /\ slotAt[r] # s => s \notin unstarted' \union posted' \union lost'
      /\ slotAt[r] \notin unstarted' \union posted' \union lost'
      /\ \A u \in AcceptThreads \ {r} : slotAt[u] # slotAt[r]
  BY <1>0, <1>1, <1>2 DEF SlotsOK, InHand
<1>9. /\ x \in Slots => x = slotAt[r]
      /\ life = "live" => x = slotAt[r]
      /\ x \in Slots <=> b \in Holding
  BY <1>1, <1>2, <1>3
<1>10. /\ ~owned' => at["main"] \in {"idle"} \union Destroying
       /\ ~socketOpen' => closing'
  BY <1>0, <1>1 DEF PlacesOK
<1>. QED BY <1>0, <1>1, <1>3, <1>4, <1>5, <1>6, <1>7, <1>8, <1>9, <1>10, HopStep

LEMMA RetryTestStep ==
  ASSUME ListenerIInv, NEW r \in Retriers, RetryTest(r) PROVE ListenerIInv'
<1>0. ListenerTypeOK /\ r \in AcceptThreads /\ r \notin AcceptWorkers /\ r # "main"
  BY ListenerThreads DEF ListenerIInv, AcceptThreads
<1>1. at[r] \in Holding /\ at[r] = "test" /\ pendingRetries' = pendingRetries
  BY DEF RetryTest, Holding, stopVars
<1>2. /\ life = "live" /\ self[r] /\ pendingRetries \in Nat
  BY <1>0, <1>1, HolderFacts
<1>3. CASE closing
  <2>1. PICK b : b = Resume(r)
    OBVIOUS
  <2>2. b = "finish"
    BY <1>0, <2>1, ResumeIs
  <2>3. /\ Hop(r, b, NoSlot) /\ UNCHANGED accepted
        /\ UNCHANGED <<unstarted, closing, socketOpen, lifeVars, self, posted, lost>>
    BY <1>1, <1>3, <2>1, <2>2 DEF Hop, Return, Goto, RetryTest, slotVars, stopVars
  <2>4. pendingRetries' + Spawns(r, at[r]) = pendingRetries
    BY <1>1, <1>2 DEF Spawns
  <2>. QED BY <1>0, <1>1, <1>2, <1>3, <2>1, <2>3, <2>4, ReturnStep
<1>4. CASE ~closing
  <2>1. /\ Hop(r, "register", slotAt[r]) /\ UNCHANGED <<slotVars, closing, socketOpen, lifeVars, self, accepted>>
    BY <1>0, <1>1, <1>4 DEF Hop, Goto, RetryTest, ListenerTypeOK, stopVars
  <2>2. /\ "register" \in Holding /\ "register" \in PlacesOf(r)
        /\ pendingRetries' + Spawns(r, at[r]) + Retries(r, at[r])
             = pendingRetries + Spawns(r, "register") + Retries(r, "register")
    BY <1>0, <1>1, <1>2 DEF Holding, Registering, PlacesOf, Spawns, Retries, Retrying
  <2>3. accepted' \in [AcceptWorkers -> BOOLEAN]
    BY <1>0, <2>1 DEF ListenerTypeOK
  <2>. QED BY <1>0, <1>1, <1>2, <2>1, <2>2, <2>3, KeepStep
<1>. QED BY <1>3, <1>4

LEMMA RetryFinishStep ==
  ASSUME ListenerIInv, NEW r \in Retriers, RetryFinish(r) PROVE ListenerIInv'
<1>0. ListenerTypeOK /\ PlacesOK /\ LifeOK /\ r \in AcceptThreads /\ r \notin AcceptWorkers /\ r # "main"
  BY ListenerThreads DEF ListenerIInv, AcceptThreads
<1>1. /\ at[r] = "finish" /\ at' = [at EXCEPT ![r] = "drop"] /\ pendingRetries' = pendingRetries - 1
      /\ UNCHANGED <<slotAt, slotVars, closing, socketOpen, life, owned, stopped, accepted, self>>
  BY DEF RetryFinish, Goto, lifeVars
<1>2. pendingRetries > 0
  <2>1. r \in Pending
    BY <1>1 DEF Pending, Retrying
  <2>2. Cardinality(Pending) # 0 /\ Cardinality(Spawners) \in Nat /\ Cardinality(Pending) \in Nat
    BY <2>1, ListenerFinite, FS_EmptySet DEF Spawners, Pending
  <2>. QED BY <2>2 DEF ListenerIInv, PendingOK
<1>3. ListenerTypeOK'
  BY <1>0, <1>1, <1>2 DEF ListenerTypeOK, slotVars
<1>4. LifeOK'
  <2>1. at'[r] = "drop" /\ \A u \in AcceptThreads \ {r} : at'[u] = at[u]
    BY <1>0, <1>1 DEF ListenerTypeOK
  <2>2. life # "freed"
    BY <1>0, <1>1 DEF LifeOK, Retrying
  <2>. QED BY <1>0, <1>1, <2>1, <2>2 DEF LifeOK, Destroying, AcceptThreads, slotVars
<1>5. /\ "finish" \notin Holding /\ "drop" \notin Holding /\ "drop" \in PlacesOf(r) /\ "drop" \notin StopPlaces
      /\ pendingRetries' + Retries(r, at[r]) = pendingRetries + Retries(r, "drop")
  BY <1>0, <1>1 DEF Holding, Registering, PlacesOf, StopPlaces, Retries, Retrying, ListenerTypeOK
<1>6. (~owned' => at["main"] \in {"idle"} \union Destroying) /\ (~socketOpen' => closing')
  BY <1>0, <1>1 DEF PlacesOK
<1>. QED BY <1>0, <1>1, <1>3, <1>4, <1>5, <1>6, FreeHop

(* A thread without a slot takes one: StartAccept(), or a completion.        *)
LEMMA TakeStep ==
  ASSUME ListenerIInv, NEW t \in AcceptThreads, NEW b \in {"register", "process"}, b \in PlacesOf(t),
         NEW s \in unstarted \union posted, Hop(t, b, s), at[t] = "idle", life = "live",
         t \notin Retriers, t = "main" => owned,
         unstarted' = unstarted \ {s}, posted' = posted \ {s},
         UNCHANGED <<lost, closing, socketOpen, pendingRetries, lifeVars, accepted, self>>
  PROVE  ListenerIInv'
<1>0. ListenerTypeOK /\ PlacesOK /\ SlotsOK /\ PendingOK /\ LifeOK
  BY DEF ListenerIInv
<1>1. s \in Slots /\ slotAt[t] \notin Slots
  BY <1>0 DEF ListenerTypeOK, PlacesOK, Holding, Registering
<1>2. b \in Holding /\ b \notin Destroying \union StopPlaces /\ b # "spawn"
  BY DEF Holding, Registering, Destroying, StopPlaces
<1>3. ListenerTypeOK'
  BY <1>0, <1>1 DEF ListenerTypeOK, Hop, lifeVars
<1>4. UNCHANGED <<life, owned>>
  BY DEF lifeVars
<1>5. LifeOK'
  BY <1>0, <1>2, <1>4, LiveLife
<1>6. ~InHand(s) /\ s \notin unstarted' \union posted' \union lost'
  BY <1>0, <1>1 DEF SlotsOK
<1>7. \A u \in AcceptThreads \ {t} : slotAt[u] # s
  BY <1>6 DEF InHand
<1>8. /\ unstarted' \intersect posted' = {} /\ unstarted' \intersect lost' = {} /\ posted' \intersect lost' = {}
      /\ \A z \in Slots : InHand(z) /\ slotAt[t] # z => z \notin unstarted' \union posted' \union lost'
      /\ \A z \in unstarted \union posted \union lost : z = s \/ z \in unstarted' \union posted' \union lost'
  BY <1>0 DEF SlotsOK
<1>9. (~owned' => (IF t = "main" THEN b ELSE at["main"]) \in {"idle"} \union Destroying) /\ (~socketOpen' => closing')
  BY <1>0, <1>4 DEF PlacesOK
<1>10. pendingRetries' + Spawns(t, at[t]) + Retries(t, at[t]) = pendingRetries + Spawns(t, b) + Retries(t, b)
  BY <1>2 DEF Spawns, Retries
<1>. QED BY <1>1, <1>2, <1>3, <1>4, <1>5, <1>6, <1>7, <1>8, <1>9, <1>10, HopStep

LEMMA StartAcceptStep ==
  ASSUME ListenerIInv, NEW s \in Slots, StartAccept(s) PROVE ListenerIInv'
<1>0. ListenerTypeOK /\ PlacesOK /\ SlotsOK /\ LifeOK /\ "main" \in AcceptThreads
  BY DEF ListenerIInv, AcceptThreads
<1>1. "main" \notin AcceptWorkers /\ "main" \notin Retriers
  BY ListenerThreads
<1>2. "register" \in PlacesOf("main")
  BY DEF PlacesOf, Registering
<1>3. life = "live"
  BY <1>0 DEF LifeOK, StartAccept
<1>4. posted' = posted \ {s} /\ unstarted' = unstarted \ {s}
  BY <1>0 DEF SlotsOK, StartAccept
<1>5. Hop("main", "register", s) /\ at["main"] = "idle" /\ owned /\ s \in unstarted
  BY DEF Hop, StartAccept, Goto
<1>6. UNCHANGED <<lost, closing, socketOpen, pendingRetries, lifeVars, accepted, self>>
  BY DEF StartAccept, stopVars
<1>. QED BY <1>0, <1>1, <1>2, <1>3, <1>4, <1>5, <1>6, TakeStep

LEMMA CompleteStep ==
  ASSUME ListenerIInv, NEW w \in AcceptWorkers, NEW s \in Slots, Complete(w, s) PROVE ListenerIInv'
<1>0. ListenerTypeOK /\ PlacesOK /\ SlotsOK /\ LifeOK /\ w \in AcceptThreads
  BY DEF ListenerIInv, AcceptThreads
<1>1. w # "main" /\ w \notin Retriers
  BY ListenerThreads
<1>2. "process" \in PlacesOf(w)
  BY <1>1 DEF PlacesOf
<1>3. life = "live"
  BY <1>0 DEF LifeOK, Complete
<1>4. posted' = posted \ {s} /\ unstarted' = unstarted \ {s}
  BY <1>0 DEF SlotsOK, Complete
<1>5. Hop(w, "process", s) /\ at[w] = "idle" /\ s \in posted
  BY DEF Hop, Complete, Goto
<1>6. UNCHANGED <<lost, closing, socketOpen, pendingRetries, lifeVars, accepted, self>>
  BY DEF Complete, stopVars
<1>. QED BY <1>0, <1>1, <1>2, <1>3, <1>4, <1>5, <1>6, TakeStep

LEMMA ProcessStep ==
  ASSUME ListenerIInv, NEW w \in AcceptWorkers, ProcessAccept(w) \/ ProcessUpdate(w) PROVE ListenerIInv'
<1>0. w \in AcceptThreads /\ w # "main" /\ w \notin Retriers
  BY ListenerThreads DEF AcceptThreads
<1>1. at[w] \in {"process", "update"} /\ at[w] \in Holding
  BY DEF ProcessAccept, ProcessUpdate, Holding
<1>2. life = "live" /\ ListenerTypeOK /\ pendingRetries \in Nat
  BY <1>0, <1>1, HolderFacts
<1>3. ASSUME NEW b \in {"update", "register", "retry"}, Goto(w, b), b # at[w],
             UNCHANGED <<slotAt, slotVars, stopVars, lifeVars, self>>, accepted' \in [AcceptWorkers -> BOOLEAN]
      PROVE  ListenerIInv'
  <2>1. Hop(w, b, slotAt[w])
    BY <1>2, <1>3 DEF Hop, Goto, ListenerTypeOK
  <2>2. b \in Holding /\ b \in PlacesOf(w)
    BY <1>0 DEF Holding, Registering, PlacesOf
  <2>3. pendingRetries' = pendingRetries /\ UNCHANGED <<closing, socketOpen>>
    BY <1>3 DEF stopVars
  <2>4. pendingRetries' + Spawns(w, at[w]) + Retries(w, at[w]) = pendingRetries + Spawns(w, b) + Retries(w, b)
    BY <1>0, <1>1, <2>3 DEF Spawns, Retries
  <2>. QED BY <1>0, <1>1, <1>2, <1>3, <2>1, <2>2, <2>3, <2>4, KeepStep
<1>4. CASE ProcessAccept(w)
  <2>1. CASE closing /\ Return(w)
    <3>1. PICK b : b = Resume(w)
      OBVIOUS
    <3>2. b \in {"callback", "drop"}
      BY <1>0, <3>1, ResumeIs
    <3>3. Hop(w, b, NoSlot) /\ UNCHANGED accepted
      BY <1>1, <2>1, <3>1, <3>2 DEF Hop, Return, Goto
    <3>4. UNCHANGED <<unstarted, posted, lost, closing, socketOpen, pendingRetries, lifeVars, self>>
      BY <1>4 DEF ProcessAccept, slotVars, stopVars
    <3>5. pendingRetries' + Spawns(w, at[w]) = pendingRetries
      BY <1>1, <1>2, <3>4 DEF Spawns
    <3>. QED BY <1>0, <1>1, <1>2, <2>1, <3>1, <3>3, <3>4, <3>5, ReturnStep
  <2>2. CASE \E b \in {"update", "register"} : Goto(w, b) /\ UNCHANGED <<slotAt, accepted>>
    BY <1>2, <1>3, <1>4, <2>2 DEF ProcessAccept, ListenerTypeOK
  <2>. QED BY <1>4, <2>1, <2>2 DEF ProcessAccept
<1>5. CASE ProcessUpdate(w)
  <2>1. accepted' \in [AcceptWorkers -> BOOLEAN]
    BY <1>2, <1>5 DEF ProcessUpdate, ListenerTypeOK
  <2>. QED BY <1>3, <1>5, <2>1 DEF ProcessUpdate
<1>. QED BY <1>4, <1>5

LEMMA CallbackStep ==
  ASSUME ListenerIInv, NEW w \in AcceptWorkers, Callback(w) PROVE ListenerIInv'
<1>0. ListenerTypeOK /\ PlacesOK /\ LifeOK /\ w \in AcceptThreads /\ w # "main" /\ w \notin Retriers
  BY ListenerThreads DEF ListenerIInv, AcceptThreads
<1>1. /\ at[w] = "callback" /\ at' = [at EXCEPT ![w] = "drop"]
      /\ UNCHANGED <<slotAt, slotVars, closing, socketOpen, pendingRetries, life, owned, stopped, self>>
      /\ accepted' = [accepted EXCEPT ![w] = FALSE]
  BY DEF Callback, Goto, stopVars, lifeVars
<1>2. ListenerTypeOK'
  BY <1>0, <1>1 DEF ListenerTypeOK, slotVars
<1>3. life = "live"
  BY <1>0, <1>1, LiveThere DEF Destroying
<1>4. LifeOK'
  <2>1. Hop(w, "drop", slotAt[w])
    BY <1>0, <1>1 DEF Hop, ListenerTypeOK
  <2>. QED BY <1>0, <1>1, <1>3, <2>1, LiveLife DEF Destroying
<1>5. /\ "callback" \notin Holding /\ "drop" \notin Holding /\ "drop" \in PlacesOf(w) /\ "drop" \notin StopPlaces
      /\ pendingRetries' + Retries(w, at[w]) = pendingRetries + Retries(w, "drop")
  BY <1>0, <1>1 DEF Holding, Registering, PlacesOf, StopPlaces, Retries
<1>6. (~owned' => at["main"] \in {"idle"} \union Destroying) /\ (~socketOpen' => closing')
  BY <1>0, <1>1 DEF PlacesOK
<1>. QED BY <1>0, <1>1, <1>2, <1>4, <1>5, <1>6, FreeHop

(* The last reference goes: nobody else is inside, and the destructor runs.  *)
LEMMA DyingFrom ==
  ASSUME ListenerTypeOK, PlacesOK, LifeOK, life = "live", life' = "dying", NEW t \in AcceptThreads,
         posted = {}, posted' = {}, Holders = {t}, at' = [at EXCEPT ![t] = "destroy"], self' \in [Retriers -> BOOLEAN],
         \A r \in Retriers \ {t} : self'[r] = self[r], t \in Retriers => ~self'[t],
         owned' = (owned /\ t # "main")
  PROVE  LifeOK'
<1>1. at'[t] = "destroy" /\ \A u \in AcceptThreads \ {t} : at'[u] = at[u]
  BY DEF ListenerTypeOK
<1>2. \A u \in AcceptThreads : at[u] \notin Destroying
  BY DEF LifeOK
<1>3. ~owned' /\ (t # "main" => ~owned)
  <2>1. t # "main" => "main" \notin Holders
    OBVIOUS
  <2>. QED BY <2>1 DEF Holders
<1>4. \A w \in AcceptWorkers \ {t} : at[w] = "idle"
  <2>1. ASSUME NEW w \in AcceptWorkers \ {t} PROVE at[w] = "idle"
    <3>1. w \notin Holders /\ w \in AcceptThreads
      BY DEF AcceptThreads
    <3>. QED BY <1>2, <3>1 DEF Holders, Destroying
  <2>. QED BY <2>1
<1>5. \A r \in Retriers \ {t} : ~self[r]
  <2>1. ASSUME NEW r \in Retriers \ {t} PROVE ~self[r]
    <3>1. r \notin Holders
      OBVIOUS
    <3>. QED BY <3>1 DEF Holders
  <2>. QED BY <2>1
<1>6. \A r \in Retriers : ~self'[r]
  BY <1>5
<1>7. ASSUME NEW u \in AcceptThreads, u # t
      PROVE  at[u] \in {"idle", "none", "wait", "finish", "drop"} \union Destroying
  <2>1. CASE u \in AcceptWorkers
    BY <1>4, <1>7, <2>1
  <2>2. CASE u \in Retriers
    <3>1. ~self[u]
      BY <1>5, <1>7, <2>2
    <3>. QED BY <2>2, <3>1 DEF PlacesOK
  <2>3. CASE u = "main"
    <3>1. ~owned
      BY <1>3, <1>7, <2>3
    <3>. QED BY <2>3, <3>1 DEF PlacesOK
  <2>. QED BY <2>1, <2>2, <2>3 DEF AcceptThreads
<1>8. \A u \in AcceptThreads : at'[u] \in {"idle", "none", "wait", "finish", "drop"} \union Destroying
  BY <1>1, <1>7 DEF Destroying
<1>9. \A w \in AcceptWorkers : at'[w] \in {"idle"} \union Destroying
  BY <1>1, <1>4 DEF Destroying, AcceptThreads
<1>10. \A u, v \in AcceptThreads : at'[u] \in Destroying /\ at'[v] \in Destroying => u = v
  BY <1>1, <1>2
<1>. QED BY <1>3, <1>6, <1>8, <1>9, <1>10 DEF LifeOK

(* Whoever drops the last reference goes on to the destructor.               *)
LEMMA LastDropStep ==
  ASSUME ListenerIInv, life = "live", life' = "dying", NEW t \in AcceptThreads, at[t] \in {"drop", "idle"},
         posted = {}, Holders = {t}, at' = [at EXCEPT ![t] = "destroy"], self' \in [Retriers -> BOOLEAN],
         \A r \in Retriers \ {t} : self'[r] = self[r], t \in Retriers => ~self'[t],
         owned' = (owned /\ t # "main"),
         UNCHANGED <<slotAt, slotVars, stopVars, stopped, accepted>>
  PROVE  ListenerIInv'
<1>0. ListenerTypeOK /\ PlacesOK /\ LifeOK
  BY DEF ListenerIInv
<1>1. LifeOK'
  BY <1>0, DyingFrom DEF slotVars
<1>2. ListenerTypeOK'
  BY <1>0 DEF ListenerTypeOK, slotVars, stopVars
<1>3. /\ at[t] \notin Holding /\ "destroy" \notin Holding /\ "destroy" \in Destroying /\ "destroy" \notin StopPlaces
      /\ "destroy" \in PlacesOf(t) /\ at[t] # "destroy"
  BY DEF Holding, Registering, PlacesOf, Destroying, StopPlaces
<1>4. pendingRetries' + Retries(t, at[t]) = pendingRetries + Retries(t, "destroy")
  BY <1>0 DEF Retries, Retrying, Registering, stopVars
<1>5. UNCHANGED <<closing, socketOpen>> /\ (~socketOpen => closing)
  BY <1>0 DEF PlacesOK, stopVars
<1>6. ~owned' => (IF t = "main" THEN "destroy" ELSE at["main"]) \in {"idle"} \union Destroying
  BY <1>0, <1>3 DEF PlacesOK
<1>. QED BY <1>1, <1>2, <1>3, <1>4, <1>5, <1>6, FreeHop

LEMMA WorkerDropsStep ==
  ASSUME ListenerIInv, NEW w \in AcceptWorkers, WorkerDrops(w) PROVE ListenerIInv'
<1>0. ListenerTypeOK /\ PlacesOK /\ LifeOK /\ w \in AcceptThreads /\ w # "main" /\ w \notin Retriers
  BY ListenerThreads DEF ListenerIInv, AcceptThreads
<1>1. /\ at[w] = "drop" /\ Drop(w)
      /\ UNCHANGED <<slotAt, slotVars, stopVars, closing, socketOpen, pendingRetries, owned, stopped, accepted, self>>
  BY DEF WorkerDrops, stopVars
<1>2. life = "live"
  BY <1>0, <1>1 DEF LifeOK, Destroying
<1>3. self' \in [Retriers -> BOOLEAN] /\ owned' = (owned /\ w # "main")
  BY <1>0, <1>1 DEF ListenerTypeOK
<1>4. CASE posted = {} /\ Holders = {w}
  BY <1>0, <1>1, <1>2, <1>3, <1>4, LastDropStep DEF Drop, Goto
<1>5. CASE ~(posted = {} /\ Holders = {w})
  <2>1. at' = [at EXCEPT ![w] = "idle"] /\ life' = life
    BY <1>0, <1>1, <1>5 DEF Drop, Goto
  <2>2. ListenerTypeOK'
    BY <1>0, <1>1, <2>1 DEF ListenerTypeOK, slotVars
  <2>3. Hop(w, "idle", slotAt[w])
    BY <1>0, <1>1, <2>1 DEF Hop, ListenerTypeOK
  <2>4. LifeOK'
    BY <1>0, <1>2, <2>1, <2>3, LiveLife DEF Destroying
  <2>5. /\ "drop" \notin Holding /\ "idle" \notin Holding /\ "idle" \in PlacesOf(w) /\ "idle" \notin StopPlaces
        /\ pendingRetries' + Retries(w, at[w]) = pendingRetries + Retries(w, "idle")
    BY <1>0, <1>1 DEF Holding, Registering, PlacesOf, StopPlaces, Retries
  <2>6. (~owned' => at["main"] \in {"idle"} \union Destroying) /\ (~socketOpen' => closing')
    BY <1>0, <1>1 DEF PlacesOK
  <2>. QED BY <1>0, <1>1, <2>1, <2>2, <2>4, <2>5, <2>6, FreeHop
<1>. QED BY <1>4, <1>5

LEMMA RetrierDropsStep ==
  ASSUME ListenerIInv, NEW r \in Retriers, RetrierDrops(r) PROVE ListenerIInv'
<1>0. ListenerTypeOK /\ PlacesOK /\ LifeOK /\ r \in AcceptThreads /\ r # "main" /\ r \notin AcceptWorkers
  BY ListenerThreads DEF ListenerIInv, AcceptThreads
<1>1. /\ at[r] = "drop" /\ (IF self[r] THEN Drop(r) ELSE UNCHANGED life /\ Goto(r, "none"))
      /\ UNCHANGED <<slotAt, slotVars, stopVars, closing, socketOpen, pendingRetries, owned, stopped, accepted>>
      /\ self' = [self EXCEPT ![r] = FALSE]
  BY DEF RetrierDrops, stopVars
<1>2. /\ self' \in [Retriers -> BOOLEAN] /\ owned' = (owned /\ r # "main")
      /\ ~self'[r] /\ \A q \in Retriers \ {r} : self'[q] = self[q]
  BY <1>0, <1>1 DEF ListenerTypeOK
<1>3. self[r] => life = "live"
  BY <1>0 DEF LifeOK
<1>4. CASE self[r] /\ posted = {} /\ Holders = {r}
  BY <1>0, <1>1, <1>2, <1>3, <1>4, LastDropStep DEF Drop, Goto
<1>5. CASE ~(self[r] /\ posted = {} /\ Holders = {r})
  <2>1. at' = [at EXCEPT ![r] = "none"] /\ life' = life
    BY <1>0, <1>1, <1>5 DEF Drop, Goto
  <2>2. ListenerTypeOK'
    BY <1>0, <1>1, <1>2, <2>1 DEF ListenerTypeOK, slotVars
  <2>3. at'[r] = "none" /\ \A u \in AcceptThreads \ {r} : at'[u] = at[u]
    BY <1>0, <2>1 DEF ListenerTypeOK
  <2>4. LifeOK'
    <3>1. \A q \in Retriers : ~self[q] => ~self'[q]
      BY <1>2
    <3>. QED BY <1>0, <1>1, <2>1, <2>3, <3>1 DEF LifeOK, Destroying, Retrying, Registering, AcceptThreads, slotVars
  <2>5. /\ "drop" \notin Holding /\ "none" \notin Holding /\ "none" \in PlacesOf(r) /\ "none" \notin StopPlaces
        /\ pendingRetries' + Retries(r, at[r]) = pendingRetries + Retries(r, "none")
    BY <1>0, <1>1 DEF Holding, Registering, PlacesOf, StopPlaces, Retries, Retrying
  <2>6. (~owned' => at["main"] \in {"idle"} \union Destroying) /\ (~socketOpen' => closing')
    BY <1>0, <1>1 DEF PlacesOK
  <2>. QED BY <1>0, <1>1, <1>2, <2>1, <2>2, <2>4, <2>5, <2>6, FreeHop
<1>. QED BY <1>4, <1>5

LEMMA MainDropsStep ==
  ASSUME ListenerIInv, MainDrops PROVE ListenerIInv'
<1>0. /\ ListenerTypeOK /\ PlacesOK /\ SlotsOK /\ PendingOK /\ LifeOK
      /\ "main" \in AcceptThreads /\ "main" \notin Retriers
  BY ListenerThreads DEF ListenerIInv, AcceptThreads
<1>1. /\ at["main"] = "idle" /\ owned /\ owned' = FALSE /\ Drop("main")
      /\ UNCHANGED <<slotAt, slotVars, stopVars, stopped, accepted, self>>
  BY DEF MainDrops
<1>2. life = "live"
  BY <1>0, <1>1 DEF LifeOK
<1>3. CASE posted = {} /\ Holders = {"main"}
  <2>1. self' \in [Retriers -> BOOLEAN]
    BY <1>0, <1>1 DEF ListenerTypeOK
  <2>. QED BY <1>0, <1>1, <1>2, <1>3, <2>1, LastDropStep DEF Drop, Goto
<1>4. CASE ~(posted = {} /\ Holders = {"main"})
  <2>1. at' = at /\ life' = life
    BY <1>0, <1>1, <1>4 DEF Drop, Goto, ListenerTypeOK
  <2>2. UNCHANGED <<unstarted, posted, lost, closing, socketOpen, pendingRetries, slotAt, accepted, self, stopped>>
    BY <1>1 DEF slotVars, stopVars
  <2>3. ListenerTypeOK'
    BY <1>0, <1>1, <2>1, <2>2 DEF ListenerTypeOK
  <2>4. PlacesOK'
    BY <1>0, <1>1, <2>1, <2>2 DEF PlacesOK
  <2>5. SlotsOK'
    BY <1>0, <2>1, <2>2 DEF SlotsOK, InHand
  <2>6. PendingOK'
    BY <1>0, <2>1, <2>2 DEF PendingOK, Spawners, Pending
  <2>7. LifeOK'
    BY <1>0, <1>2, <2>1 DEF LifeOK
  <2>. QED BY <2>3, <2>4, <2>5, <2>6, <2>7 DEF ListenerIInv
<1>. QED BY <1>3, <1>4

(* Stop(), called by the main thread or by the destructor.                   *)
LEMMA StoppingIs ==
  ASSUME ListenerIInv, NEW t \in AcceptThreads
  PROVE  /\ at[t] \in {"stopClose", "stopWait"} => t = "main" /\ life = "live"
         /\ at[t] \in Destroying => life = "dying"
         /\ at[t] \in StopPlaces => closing
<1>0. ListenerTypeOK /\ PlacesOK /\ LifeOK
  BY DEF ListenerIInv
<1>1. ASSUME at[t] \in {"stopClose", "stopWait"} PROVE t = "main" /\ life = "live"
  <2>1. at[t] \in PlacesOf(t)
    BY <1>0 DEF PlacesOK
  <2>2. t = "main"
    BY <1>1, <2>1 DEF PlacesOf, Registering, Destroying, AcceptThreads
  <2>. QED BY <1>0, <1>1, <2>2, LiveThere DEF Destroying
<1>2. at[t] \in Destroying => life = "dying"
  BY <1>0 DEF LifeOK
<1>3. at[t] \in StopPlaces => closing
  BY <1>0 DEF PlacesOK, StopPlaces
<1>. QED BY <1>1, <1>2, <1>3

(* One step on in Stop(), before it returns.                                 *)
LEMMA StopHop ==
  ASSUME ListenerIInv, NEW t \in AcceptThreads, NEW b \in StopPlaces, at' = [at EXCEPT ![t] = b],
         \/ t = "main" /\ owned /\ at[t] = "idle" /\ b = "stopClose"
         \/ at[t] = "stopClose" /\ b = "stopWait"
         \/ at[t] = "destroy" /\ b = "destroyClose"
         \/ at[t] = "destroyClose" /\ b = "destroyWait",
         closing' = TRUE, socketOpen' \in BOOLEAN,
         UNCHANGED <<slotAt, slotVars, pendingRetries, lifeVars, accepted, self>>
  PROVE  ListenerIInv'
<1>0. ListenerTypeOK /\ PlacesOK /\ LifeOK
  BY DEF ListenerIInv
<1>1. UNCHANGED <<life, owned, stopped>> /\ UNCHANGED <<unstarted, posted, lost>>
  BY DEF lifeVars, slotVars
<1>2. ListenerTypeOK'
  BY <1>0, <1>1 DEF ListenerTypeOK, StopPlaces
<1>3. at'[t] = b /\ \A u \in AcceptThreads \ {t} : at'[u] = at[u]
  BY <1>0 DEF ListenerTypeOK
<1>4. /\ at[t] \in {"stopClose", "stopWait"} => t = "main" /\ life = "live"
      /\ at[t] \in Destroying => life = "dying"
  BY StoppingIs
<1>5. CASE b \in {"stopClose", "stopWait"}
  <2>1. t = "main" /\ life = "live" /\ at[t] \in {"idle", "stopClose"}
    BY <1>0, <1>4, <1>5 DEF LifeOK
  <2>2. owned
    BY <1>0, <2>1, <1>5 DEF PlacesOK, Destroying
  <2>3. b \notin Destroying /\ b \notin Holding /\ at[t] \notin Holding /\ at[t] # b
    BY <1>5, <2>1 DEF Destroying, Holding, Registering
  <2>4. b \in PlacesOf(t) /\ t \notin Retriers
    BY <1>5, <2>1, ListenerThreads DEF PlacesOf
  <2>5. Hop(t, b, slotAt[t])
    BY <1>0, <2>3 DEF Hop, ListenerTypeOK
  <2>6. LifeOK'
    BY <1>0, <1>1, <2>1, <2>3, <2>5, LiveLife
  <2>7. pendingRetries' + Retries(t, at[t]) = pendingRetries + Retries(t, b)
    BY <2>4 DEF Retries
  <2>. QED BY <1>1, <1>2, <2>1, <2>2, <2>3, <2>4, <2>6, <2>7, FreeHop
<1>6. CASE b \in {"destroyClose", "destroyWait"}
  <2>1. at[t] \in Destroying /\ b \in Destroying
    BY <1>6 DEF Destroying
  <2>2. life = "dying"
    BY <1>4, <2>1
  <2>3. b \notin Holding /\ at[t] \notin Holding /\ at[t] # b /\ b \in PlacesOf(t) /\ b \notin Retrying /\ at[t] \notin Retrying
    BY <1>6, <2>1 DEF Destroying, Holding, Registering, PlacesOf, Retrying
  <2>4. LifeOK'
    BY <1>0, <1>1, <1>3, <2>1, <2>2 DEF LifeOK
  <2>5. pendingRetries' + Retries(t, at[t]) = pendingRetries + Retries(t, b)
    BY <2>3 DEF Retries
  <2>6. ~owned' => (IF t = "main" THEN b ELSE at["main"]) \in {"idle"} \union Destroying
    BY <1>0, <1>1, <2>1 DEF PlacesOK
  <2>. QED BY <1>1, <1>2, <2>1, <2>2, <2>3, <2>4, <2>5, <2>6, FreeHop
<1>. QED BY <1>5, <1>6 DEF StopPlaces

LEMMA StopRaiseStep ==
  ASSUME ListenerIInv, NEW t \in AcceptThreads, StopRaise(t) PROVE ListenerIInv'
<1>0. ListenerTypeOK
  BY DEF ListenerIInv
<1>. QED BY <1>0, StopHop DEF StopRaise, Goto, StopPlaces, ListenerTypeOK

LEMMA CloseSocketStep ==
  ASSUME ListenerIInv, NEW t \in AcceptThreads, CloseSocket(t) PROVE ListenerIInv'
<1>0. ListenerTypeOK
  BY DEF ListenerIInv
<1>1. closing
  BY StoppingIs DEF CloseSocket, StopPlaces
<1>2. closing' = TRUE
  BY <1>0, <1>1 DEF CloseSocket, ListenerTypeOK
<1>. QED BY <1>2, StopHop DEF CloseSocket, Goto, StopPlaces

(* No retry is pending, and Stop() returns; if the destructor called it, the *)
(* listener is no more.                                                      *)
LEMMA StopWaitedStep ==
  ASSUME ListenerIInv, NEW t \in AcceptThreads, StopWaited(t) PROVE ListenerIInv'
<1>0. ListenerTypeOK /\ PlacesOK /\ PendingOK /\ LifeOK
  BY DEF ListenerIInv
<1>1. /\ pendingRetries = 0
      /\ UNCHANGED <<slotAt, slotVars, closing, socketOpen, pendingRetries, owned, accepted, self>>
  BY DEF StopWaited, stopVars
<1>2. UNCHANGED <<unstarted, posted, lost>> /\ (~socketOpen => closing)
  BY <1>0, <1>1 DEF slotVars, PlacesOK
<1>3. CASE at[t] = "stopWait"
  <2>1. at' = [at EXCEPT ![t] = "idle"] /\ stopped' = TRUE /\ life' = life
    BY <1>3 DEF StopWaited, Goto
  <2>2. t = "main" /\ life = "live" /\ t \notin Retriers /\ t \notin AcceptWorkers
    BY <1>3, StoppingIs, ListenerThreads
  <2>3. ListenerTypeOK'
    BY <1>0, <1>1, <1>2, <2>1 DEF ListenerTypeOK
  <2>4. Hop(t, "idle", slotAt[t])
    BY <1>0, <1>1, <1>3, <2>1 DEF Hop, ListenerTypeOK
  <2>5. LifeOK'
    BY <1>0, <2>1, <2>2, <2>4, LiveLife DEF Destroying
  <2>6. /\ "stopWait" \notin Holding /\ "idle" \notin Holding /\ "idle" \in PlacesOf(t) /\ "idle" \notin StopPlaces
        /\ pendingRetries' + Retries(t, at[t]) = pendingRetries + Retries(t, "idle")
    BY <1>1, <2>2 DEF Holding, Registering, PlacesOf, StopPlaces, Retries
  <2>. QED BY <1>1, <1>2, <1>3, <2>1, <2>2, <2>3, <2>5, <2>6, FreeHop
<1>4. CASE at[t] = "destroyWait"
  <2>1. PICK b \in {"none", "idle"} : b = IF t \in Retriers THEN "none" ELSE "idle"
    OBVIOUS
  <2>2. at' = [at EXCEPT ![t] = b] /\ life' = "freed" /\ stopped' = stopped
    BY <1>4, <2>1 DEF StopWaited, Goto
  <2>3. life = "dying"
    BY <1>4, StoppingIs DEF Destroying
  <2>4. Pending = {}
    <3>1. /\ Cardinality(Spawners) \in Nat /\ Cardinality(Pending) \in Nat /\ IsFiniteSet(Pending)
          /\ 0 = Cardinality(Spawners) + Cardinality(Pending)
      BY <1>0, <1>1, ListenerFinite DEF Spawners, Pending, PendingOK
    <3>2. Cardinality(Pending) = 0
      BY <3>1
    <3>. QED BY <3>1, <3>2, FS_EmptySet
  <2>5. at'[t] = b /\ \A u \in AcceptThreads \ {t} : at'[u] = at[u]
    BY <1>0, <2>2 DEF ListenerTypeOK
  <2>6. ListenerTypeOK'
    BY <1>0, <1>1, <1>2, <2>2 DEF ListenerTypeOK
  <2>7. b \notin Destroying /\ b \notin Retrying /\ b \notin Holding /\ b \notin StopPlaces
    BY DEF Destroying, Retrying, Registering, Holding, StopPlaces
  <2>8. LifeOK'
    <3>1. ASSUME NEW u \in AcceptThreads PROVE at'[u] \notin Destroying
      BY <1>0, <1>4, <2>5, <2>7, <3>1 DEF LifeOK, Destroying
    <3>2. \A u \in AcceptThreads : at'[u] \in {"idle", "none", "wait", "finish", "drop"} \union Destroying
      BY <1>0, <2>3, <2>5 DEF LifeOK
    <3>3. \A w \in AcceptWorkers : at'[w] \in {"idle"} \union Destroying
      BY <1>0, <2>1, <2>3, <2>5, ListenerThreads DEF LifeOK, AcceptThreads
    <3>4. \A r \in Retriers : at'[r] \notin Retrying
      BY <2>4, <2>5, <2>7 DEF Pending, AcceptThreads
    <3>5. posted' = {} /\ ~owned' /\ \A r \in Retriers : ~self'[r]
      BY <1>0, <1>1, <1>2, <2>3 DEF LifeOK
    <3>. QED BY <2>2, <3>1, <3>2, <3>3, <3>4, <3>5 DEF LifeOK
  <2>9. b \in PlacesOf(t)
    BY <2>1, ListenerThreads DEF PlacesOf, AcceptThreads
  <2>10. at[t] \notin Holding /\ at[t] # b
    BY <1>4 DEF Holding, Registering
  <2>11. pendingRetries' + Retries(t, at[t]) = pendingRetries + Retries(t, b)
    BY <1>1, <1>4, <2>7 DEF Retries, Retrying, Registering
  <2>12. /\ t \in Retriers => b = "none"
         /\ ~owned' => (IF t = "main" THEN b ELSE at["main"]) \in {"idle"} \union Destroying
    BY <1>0, <1>1, <2>1, ListenerThreads DEF PlacesOK
  <2>. QED BY <1>1, <1>2, <2>2, <2>6, <2>7, <2>8, <2>9, <2>10, <2>11, <2>12, FreeHop
<1>. QED BY <1>3, <1>4 DEF StopWaited

LEMMA ListenerInitOK == ListenerInit => ListenerIInv
<1>. SUFFICES ASSUME ListenerInit PROVE ListenerIInv
  OBVIOUS
<1>. USE DEF ListenerInit
<1>1. /\ \A t \in AcceptThreads : at[t] = (IF t \in Retriers THEN "none" ELSE "idle") /\ slotAt[t] = NoSlot
      /\ NoSlot \notin Slots
  BY ListenerThreads
<1>2. ListenerTypeOK
  BY DEF ListenerTypeOK
<1>3. PlacesOK
  <2>1. ASSUME NEW t \in AcceptThreads PROVE at[t] \in PlacesOf(t) /\ at[t] \notin Holding
    BY <1>1, ListenerThreads DEF PlacesOf, AcceptThreads, Holding, Registering
  <2>. QED BY <1>1, <2>1 DEF PlacesOK, AcceptThreads
<1>4. SlotsOK
  BY <1>1 DEF SlotsOK, InHand
<1>5. PendingOK
  <2>1. Spawners = {} /\ Pending = {}
    BY <1>1 DEF Spawners, Pending, Retrying, Registering, AcceptThreads
  <2>. QED BY <2>1, FS_EmptySet DEF PendingOK
<1>6. LifeOK
  BY <1>1 DEF LifeOK, Destroying
<1>. QED BY <1>2, <1>3, <1>4, <1>5, <1>6 DEF ListenerIInv

LEMMA ListenerNextOK == ListenerIInv /\ [ListenerNext]_listenerVars => ListenerIInv'
<1>. SUFFICES ASSUME ListenerIInv, [ListenerNext]_listenerVars PROVE ListenerIInv'
  OBVIOUS
<1>1. CASE UNCHANGED listenerVars
  BY <1>1 DEF listenerVars, slotVars, stopVars, lifeVars, ListenerIInv, ListenerTypeOK, PlacesOK, SlotsOK,
              InHand, PendingOK, Spawners, Pending, LifeOK
<1>2. CASE \E s \in Slots : StartAccept(s)
  BY <1>2, StartAcceptStep
<1>3. ASSUME NEW t \in AcceptThreads, Register(t) PROVE ListenerIInv'
  BY <1>3, RegisterStep, RetrySpawnStep DEF Register
<1>4. ASSUME NEW t \in AcceptThreads, StopRaise(t) \/ CloseSocket(t) \/ StopWaited(t) PROVE ListenerIInv'
  BY <1>4, StopRaiseStep, CloseSocketStep, StopWaitedStep
<1>5. ASSUME NEW r \in Retriers, Retrier(r) PROVE ListenerIInv'
  BY <1>5, RetryLockStep, RetryTestStep, RetryFinishStep, RetrierDropsStep DEF Retrier
<1>6. ASSUME NEW w \in AcceptWorkers, Worker(w) PROVE ListenerIInv'
  BY <1>6, ProcessStep, CallbackStep, WorkerDropsStep DEF Worker
<1>7. CASE \E w \in AcceptWorkers, s \in Slots : Complete(w, s)
  BY <1>7, CompleteStep
<1>8. CASE MainDrops
  BY <1>8, MainDropsStep
<1>. QED BY <1>1, <1>2, <1>3, <1>4, <1>5, <1>6, <1>7, <1>8 DEF ListenerNext

(* The listener's invariant holds in every behaviour, for any number of      *)
(* accept slots, IOCP workers and detached retry threads.                    *)
THEOREM ListenerInductive == ListenerSpec => []ListenerIInv
  BY ListenerInitOK, ListenerNextOK, PTL DEF ListenerSpec

(* Every variable of the listener keeps its type; above all _pendingRetries, *)
(* which FinishRetry() decrements from two threads, never falls below 0.     *)
THEOREM ListenerTypeCorrect == ListenerSpec => []ListenerTypeOK
<1>1. ListenerIInv => ListenerTypeOK
  BY DEF ListenerIInv
<1>. QED BY <1>1, ListenerInductive, PTL

LEMMA OneSlotOnePlace == ListenerIInv => SlotInOnePlace
<1>. SUFFICES ASSUME ListenerIInv, NEW s \in Slots
              PROVE  LET hands  == {t \in AcceptThreads : slotAt[t] = s}
                         places == {i \in 1 .. 3 : s \in <<unstarted, posted, lost>>[i]}
                     IN  /\ Cardinality(hands) + Cardinality(places) <= 1
                         /\ ~closing /\ life = "live" => hands # {} \/ places # {}
  BY DEF SlotInOnePlace
<1>. DEFINE hands == {t \in AcceptThreads : slotAt[t] = s}
            places == {i \in 1 .. 3 : s \in <<unstarted, posted, lost>>[i]}
<1>0. SlotsOK
  BY DEF ListenerIInv
<1>1. \A t, u \in hands : t = u
  BY <1>0 DEF SlotsOK
<1>2. 1 \in places <=> s \in unstarted
  OBVIOUS
<1>3. 2 \in places <=> s \in posted
  OBVIOUS
<1>4. 3 \in places <=> s \in lost
  OBVIOUS
<1>5. places \subseteq {1, 2, 3}
  OBVIOUS
<1>6. hands # {} <=> InHand(s)
  BY DEF InHand
<1>. HIDE DEF hands, places
<1>7. \A i, j \in places : i = j
  BY <1>0, <1>2, <1>3, <1>4, <1>5 DEF SlotsOK
<1>8. places # {} <=> s \in unstarted \union posted \union lost
  BY <1>2, <1>3, <1>4, <1>5
<1>9. hands = {} \/ places = {}
  BY <1>0, <1>6, <1>8 DEF SlotsOK
<1>10. \A S : (\A x, y \in S : x = y) => Cardinality(S) \in {0, 1} /\ (S = {} => Cardinality(S) = 0)
  <2>1. ASSUME NEW S, \A x, y \in S : x = y PROVE Cardinality(S) \in {0, 1} /\ (S = {} => Cardinality(S) = 0)
    <3>1. CASE S = {}
      BY <3>1, FS_EmptySet
    <3>2. CASE S # {}
      <4>1. PICK x : x \in S
        BY <3>2
      <4>2. S = {x}
        BY <2>1, <4>1
      <4>. QED BY <3>2, <4>2, FS_Singleton
    <3>. QED BY <3>1, <3>2
  <2>. QED BY <2>1
<1>11. Cardinality(hands) \in {0, 1} /\ (hands = {} => Cardinality(hands) = 0)
  BY <1>1, <1>10
<1>12. Cardinality(places) \in {0, 1} /\ (places = {} => Cardinality(places) = 0)
  BY <1>7, <1>10
<1>13. Cardinality(hands) + Cardinality(places) <= 1
  BY <1>9, <1>11, <1>12
<1>14. ~closing /\ life = "live" => hands # {} \/ places # {}
  BY <1>0, <1>6, <1>8 DEF SlotsOK
<1>. QED BY <1>13, <1>14 DEF hands, places

(* The destructor returns only when no detached retry thread is inside the   *)
(* listener's code any more, although a retry thread may itself have dropped *)
(* the last reference; and until Stop() every accept slot is in one place:   *)
(* with the socket, with one thread, or given up.                            *)
THEOREM NobodyInFreedListenerHolds == ListenerSpec => []NobodyInFreedListener
<1>1. ListenerIInv => NobodyInFreedListener
  <2>. SUFFICES ASSUME ListenerIInv PROVE NobodyInFreedListener
    OBVIOUS
  <2>1. SlotInOnePlace
    BY OneSlotOnePlace
  <2>2. ASSUME life = "freed", NEW t \in AcceptThreads
        PROVE  at[t] \in {"none", "idle"} \/ (t \in Retriers /\ at[t] = "drop")
    <3>0. ListenerTypeOK /\ PlacesOK /\ LifeOK
      BY DEF ListenerIInv
    <3>1. at[t] \in {"idle", "none", "wait", "finish", "drop"} /\ (t \in Retriers => at[t] \notin Retrying)
      BY <2>2, <3>0 DEF LifeOK
    <3>2. t \in Retriers => at[t] \notin {"wait", "finish"}
      BY <3>1 DEF Retrying
    <3>3. t \notin Retriers => at[t] \in {"idle"} \union Destroying
      BY <2>2, <3>0 DEF LifeOK, PlacesOK, AcceptThreads
    <3>4. at[t] \notin Destroying
      BY <2>2, <3>0 DEF LifeOK
    <3>. QED BY <3>1, <3>2, <3>3, <3>4
  <2>. QED BY <2>1, <2>2 DEF NobodyInFreedListener
<1>. QED BY <1>1, ListenerInductive, PTL
=============================================================================
