---------------------------- MODULE RedisClient ----------------------------
(* CRedisClient with the lending of CRedisConnectionPool (UtilCore/Redis):   *)
(* one connection of the pool, the commands it is lent to one after another, *)
(* the commands that wait for it, and the thread that opens it again.  A     *)
(* command is answered through a callback, taken under _commandLock by the   *)
(* reply, by Disconnect() or by a send that fails.                           *)
(*                                                                           *)
(* A step is the code between two accesses to shared state; a region under   *)
(* _commandLock, _recvLock or the pool's _lock is one step.  Commands are    *)
(* numbers: those of users first, then the SELECT of each connection.        *)
EXTENDS Integers, SequencesExt

CONSTANTS
    RedisWorkers,   \* threads of the IOCP core
    RedisUsers,     \* threads that send commands through the pool
    Reconnector,    \* the pool's reconnect thread
    MaxCommands,    \* bound: commands the users send
    MaxSockets,     \* bound: connections opened
    MaxWaiting,     \* kMaxPendingCommands
    Parts           \* pieces a command can be sent in

ASSUME RedisConstants ==
    /\ {MaxCommands, MaxSockets, MaxWaiting, Parts} \subseteq Nat \ {0}
    /\ RedisWorkers \intersect RedisUsers = {}
    /\ Reconnector \notin RedisWorkers \union RedisUsers

ASSUME RedisThreadsFinite == IsFiniteSet(RedisWorkers) /\ IsFiniteSet(RedisUsers)

VARIABLES
    selects,    \* nDbIndex > 0: Connect() ends with a SELECT
    socket,     \* _socket: the number of the connection, 0 for INVALID_SOCKET
    opened,     \* connections opened so far
    down,       \* connections closed on either side
    parser,     \* _parser: the connection whose unfinished reply it holds, or 0
    recvs,      \* receives posted with _recvEvent: the connection of each
    sends,      \* sends posted with _sendEvent: connection, command, parts, parts sent
    pendingIo,  \* _pendingIoCount
    callback,   \* _pendingCallback: the command it belongs to, or 0
    sending,    \* _pendingSendBuffers: the command and the parts not yet sent
    nextSend,   \* _nextSendBuffers: the command, or 0
    replies,    \* of each connection: what the server has answered and nobody has received
    free,       \* entries of the connection in _queueFree
    broken,     \* entries of the connection in _queueBroken
    waiting,    \* _queuePending, a sequence of commands
    issued,     \* history: commands the users have sent
    answer,     \* history: how each command was answered
    strayed,    \* history: Disconnect(SendFailed) drained after the client was connected again
    frames      \* of each thread: where it is and with what, then where its callers go on

RedisThreads == RedisWorkers \union RedisUsers \union {Reconnector}
Commands == 1..MaxCommands
SelectOf(k) == MaxCommands + k
Sockets == 1..MaxSockets
Nothing == [command |-> 0, left |-> 0]

ioState      == <<recvs, sends, pendingIo>>
commandState == <<callback, sending, nextSend>>
poolState    == <<free, broken, waiting, issued>>
redisVars    == <<selects, socket, opened, down, parser, ioState, commandState, replies,
                  poolState, answer, strayed, frames>>

(* One connection is open and idle.                                          *)
RedisInit ==
    /\ selects \in BOOLEAN
    /\ socket = 1 /\ opened = 1 /\ down = {} /\ parser = 0
    /\ recvs = <<1>> /\ sends = <<>> /\ pendingIo = 1
    /\ callback = 0 /\ sending = Nothing /\ nextSend = 0
    /\ replies = [k \in Sockets |-> <<>>]
    /\ free = 1 /\ broken = 0 /\ waiting = <<>> /\ issued = 0
    /\ answer = [c \in 1..(MaxCommands + MaxSockets) |-> "none"]
    /\ strayed = FALSE
    /\ frames = [t \in RedisThreads |-> <<>>]

-----------------------------------------------------------------------------
(* Control: a frame is a place and an argument.                              *)
Idle(t) == frames[t] = <<>>
In(t, place) == frames[t] # <<>> /\ Head(frames[t])[1] = place
Argument(t) == Head(frames[t])[2]
Begin(t, calls) == frames' = [frames EXCEPT ![t] = calls]
Proceed(t, calls) == frames' = [frames EXCEPT ![t] = calls \o Tail(@)]

Error(c) == <<"callback", <<c, "error">>>>
Failing(c) == IF c = 0 THEN <<>> ELSE <<Error(c)>>

(* DoSend() on the present socket; a command starts with all its parts.      *)
Posted(c, left) == [socket |-> socket, command |-> c, left |-> left, sent |-> 0]

-----------------------------------------------------------------------------
(* CRedisClient::Disconnect().  The argument of "exchange" and of "drain" is *)
(* the connection whose send failed, in Dispatch(); elsewhere it is 0.       *)

Exchange(t) ==
    /\ In(t, "exchange")
    /\ socket' = 0
    /\ Proceed(t, IF socket = 0 THEN <<>> ELSE <<<<"cleanup", socket>>, <<"drain", Argument(t)>>>>)
    /\ UNCHANGED <<selects, opened, down, parser, ioState, commandState, replies, poolState, answer, strayed>>

CleanupSocketAndParser(t) ==
    /\ In(t, "cleanup")
    /\ down' = down \union {Argument(t)}
    /\ parser' = 0
    /\ Proceed(t, <<>>)
    /\ UNCHANGED <<selects, socket, opened, ioState, commandState, replies, poolState, answer, strayed>>

(* Mutant: the callback is read, and stays for the next one to take.         *)
DrainLeaves(t) ==
    /\ In(t, "drain")
    /\ sending' = Nothing /\ nextSend' = 0
    /\ Proceed(t, Failing(callback))
    /\ UNCHANGED <<selects, socket, opened, down, parser, ioState, callback, replies, poolState, answer, strayed>>

Drain(t) ==
    /\ In(t, "drain")
    /\ callback' = 0 /\ sending' = Nothing /\ nextSend' = 0
    /\ strayed' = (strayed \/ (Argument(t) # 0 /\ socket # 0))
    /\ Proceed(t, Failing(callback))
    /\ UNCHANGED <<selects, socket, opened, down, parser, ioState, replies, poolState, answer>>

Disconnect(t) == Exchange(t) \/ CleanupSocketAndParser(t) \/ Drain(t)

-----------------------------------------------------------------------------
(* CRedisClient::SendCommand(), one region.                                  *)

(* No connection, a command in flight, or no buffer.                         *)
SendRefused(t) ==
    /\ In(t, "send")
    /\ Proceed(t, <<Error(Argument(t))>>)
    /\ UNCHANGED <<selects, socket, opened, down, parser, ioState, commandState, replies, poolState,
                   answer, strayed>>

(* The completion of the previous send is still to come.                     *)
SendLater(t) ==
    /\ In(t, "send") /\ socket # 0 /\ callback = 0 /\ sending # Nothing
    /\ callback' = Argument(t) /\ nextSend' = Argument(t)
    /\ Proceed(t, <<>>)
    /\ UNCHANGED <<selects, socket, opened, down, parser, ioState, sending, replies, poolState,
                   answer, strayed>>

SendNow(t) ==
    /\ In(t, "send") /\ socket # 0 /\ callback = 0 /\ sending = Nothing
    /\ callback' = Argument(t)
    /\ sending' = [command |-> Argument(t), left |-> Parts]
    /\ sends' = Append(sends, Posted(Argument(t), Parts))
    /\ pendingIo' = pendingIo + 1
    /\ Proceed(t, <<>>)
    /\ UNCHANGED <<selects, socket, opened, down, parser, recvs, nextSend, replies, poolState, answer, strayed>>

(* WSASend() fails: the callback is taken back and the socket closed.        *)
SendFails(t) ==
    /\ In(t, "send") /\ socket # 0 /\ callback = 0 /\ sending = Nothing
    /\ socket' = 0 /\ down' = down \union {socket} /\ parser' = 0
    /\ Proceed(t, <<Error(Argument(t))>>)
    /\ UNCHANGED <<selects, opened, ioState, commandState, replies, poolState, answer, strayed>>

ClientSend(t) == SendRefused(t) \/ SendLater(t) \/ SendNow(t) \/ SendFails(t)

-----------------------------------------------------------------------------
(* The pool.                                                                 *)

(* Its wrapped callback: the command's own, then the connection goes back.   *)
Callback(t) ==
    /\ In(t, "callback")
    /\ LET c == Argument(t)[1] IN
         /\ answer' = [answer EXCEPT ![c] = IF @ = "none" THEN Argument(t)[2] ELSE "twice"]
         /\ Proceed(t, IF c \in Commands THEN <<<<"push", 0>>>> ELSE <<>>)
    /\ UNCHANGED <<selects, socket, opened, down, parser, ioState, commandState, replies, poolState, strayed>>

PushBroken(t) ==
    /\ In(t, "push") /\ socket = 0
    /\ broken' = broken + 1
    /\ Proceed(t, <<>>)
    /\ UNCHANGED <<selects, socket, opened, down, parser, ioState, commandState, replies, free, waiting,
                   issued, answer, strayed>>

(* Mutant: the connection is free as well as lent.                           *)
PushToBoth(t) ==
    /\ In(t, "push") /\ socket # 0 /\ waiting # <<>>
    /\ waiting' = Tail(waiting) /\ free' = free + 1
    /\ Proceed(t, <<<<"send", Head(waiting)>>>>)
    /\ UNCHANGED <<selects, socket, opened, down, parser, ioState, commandState, replies, broken,
                   issued, answer, strayed>>

PushToWaiting(t) ==
    /\ In(t, "push") /\ socket # 0 /\ waiting # <<>>
    /\ waiting' = Tail(waiting)
    /\ Proceed(t, <<<<"send", Head(waiting)>>>>)
    /\ UNCHANGED <<selects, socket, opened, down, parser, ioState, commandState, replies, free, broken,
                   issued, answer, strayed>>

PushFree(t) ==
    /\ In(t, "push") /\ socket # 0 /\ waiting = <<>>
    /\ free' = free + 1
    /\ Proceed(t, <<>>)
    /\ UNCHANGED <<selects, socket, opened, down, parser, ioState, commandState, replies, broken, waiting,
                   issued, answer, strayed>>

PushConnection(t) == PushBroken(t) \/ PushToWaiting(t) \/ PushFree(t)

(* CRedisConnectionPool::SendCommand(): a connection, if there is one that   *)
(* is connected, else a place in the queue, else nothing.                    *)
Lend(u) ==
    /\ Idle(u) /\ issued < MaxCommands /\ free > 0 /\ socket # 0
    /\ issued' = issued + 1
    /\ free' = free - 1
    /\ Begin(u, <<<<"send", issued + 1>>>>)
    /\ UNCHANGED <<selects, socket, opened, down, parser, ioState, commandState, replies, broken, waiting,
                   answer, strayed>>

Wait(u) ==
    /\ Idle(u) /\ issued < MaxCommands /\ (free = 0 \/ socket = 0)
    /\ issued' = issued + 1
    /\ free' = 0 /\ broken' = broken + free
    /\ IF Len(waiting) < MaxWaiting
         THEN waiting' = Append(waiting, issued + 1) /\ UNCHANGED answer
         ELSE answer' = [answer EXCEPT ![issued + 1] = "refused"] /\ UNCHANGED waiting
    /\ UNCHANGED <<selects, socket, opened, down, parser, ioState, commandState, replies, strayed, frames>>

(* ExpirePendingCommands(): the oldest command has waited too long.          *)
ExpirePendingCommands(r) ==
    /\ Idle(r) /\ waiting # <<>>
    /\ waiting' = Tail(waiting)
    /\ Begin(r, <<<<"expired", Head(waiting)>>>>)
    /\ UNCHANGED <<selects, socket, opened, down, parser, ioState, commandState, replies, free, broken,
                   issued, answer, strayed>>

Expired(r) ==
    /\ In(r, "expired")
    /\ answer' = [answer EXCEPT ![Argument(r)] = IF @ = "none" THEN "error" ELSE "twice"]
    /\ Proceed(r, <<>>)
    /\ UNCHANGED <<selects, socket, opened, down, parser, ioState, commandState, replies, poolState, strayed>>

(* DisconnectStalledClients(): a command has been in flight for too long.    *)
DisconnectStalledClients(r) ==
    /\ Idle(r) /\ callback # 0
    /\ Begin(r, <<<<"exchange", 0>>>>)
    /\ UNCHANGED <<selects, socket, opened, down, parser, ioState, commandState, replies, poolState,
                   answer, strayed>>

-----------------------------------------------------------------------------
(* CRedisConnectionPool::ReconnectLoop() and CRedisClient::Connect().        *)

TakeBroken(r) ==
    /\ Idle(r) /\ broken > 0
    /\ broken' = broken - 1
    /\ Begin(r, <<<<"connect", 0>>>>)
    /\ UNCHANGED <<selects, socket, opened, down, parser, ioState, commandState, replies, free, waiting,
                   issued, answer, strayed>>

(* Mutant: the test of the count is left out.                                *)
MayConnectAnyway == socket = 0

(* HasNoOutstandingIo(), asked by the loop and again by Connect().           *)
MayConnect == socket = 0 /\ pendingIo = 0

Connect(r) ==
    /\ In(r, "connect") /\ MayConnect /\ opened < MaxSockets
    /\ parser' = 0
    /\ opened' = opened + 1 /\ socket' = opened + 1
    /\ Proceed(r, <<<<"register", 0>>>>)
    /\ UNCHANGED <<selects, down, ioState, commandState, replies, poolState, answer, strayed>>

(* I/O is outstanding, the back-off is not over, or the server is away.      *)
ConnectFails(r) ==
    /\ In(r, "connect")
    /\ Proceed(r, <<<<"giveBack", 0>>>>)
    /\ UNCHANGED <<selects, socket, opened, down, parser, ioState, commandState, replies, poolState,
                   answer, strayed>>

FirstRecv(r) ==
    /\ In(r, "register") /\ socket # 0
    /\ recvs' = Append(recvs, socket) /\ pendingIo' = pendingIo + 1
    /\ Proceed(r, IF selects THEN LET c == SelectOf(socket) IN <<<<"send", c>>, <<"await", c>>>>
                             ELSE <<<<"push", 0>>>>)
    /\ UNCHANGED <<selects, socket, opened, down, parser, sends, commandState, replies, poolState,
                   answer, strayed>>

FirstRecvFails(r) ==
    /\ In(r, "register")
    /\ Proceed(r, <<<<"exchange", 0>>, <<"giveBack", 0>>>>)
    /\ UNCHANGED <<selects, socket, opened, down, parser, ioState, commandState, replies, poolState,
                   answer, strayed>>

(* SendCommandAndWait(): answered, or the time is up.                        *)
Selected(r) ==
    /\ In(r, "await")
    /\ Proceed(r, IF answer[Argument(r)] \in {"own", "foreign"}
                    THEN <<<<"push", 0>>>>
                    ELSE <<<<"exchange", 0>>, <<"giveBack", 0>>>>)
    /\ UNCHANGED <<selects, socket, opened, down, parser, ioState, commandState, replies, poolState,
                   answer, strayed>>

GiveBack(r) ==
    /\ In(r, "giveBack")
    /\ broken' = broken + 1
    /\ Proceed(r, <<>>)
    /\ UNCHANGED <<selects, socket, opened, down, parser, ioState, commandState, replies, free, waiting,
                   issued, answer, strayed>>

ReconnectLoop(r) ==
    \/ TakeBroken(r) \/ Connect(r) \/ ConnectFails(r) \/ FirstRecv(r) \/ FirstRecvFails(r)
    \/ Selected(r) \/ GiveBack(r)

-----------------------------------------------------------------------------
(* CRedisClient::Dispatch(): receives.  A reply arrives whole or in two      *)
(* pieces; what was received before the connection closed may be dispatched  *)
(* after it.  The rest of a reply whose beginning was dropped is an error of *)
(* the protocol; bytes behind the beginning of another connection's reply    *)
(* are taken for a part of it, and complete the wrong reply (0).             *)

Receipts(k, reply, piece) ==
    IF parser \notin {0, k} THEN <<<<"receipt", 0>>, <<"post", 0>>>>
    ELSE IF piece = "rest" /\ parser = 0 THEN <<<<"exchange", 0>>>>
    ELSE IF piece = "first" THEN <<<<"post", 0>>>>
    ELSE <<<<"receipt", reply>>, <<"post", 0>>>>

(* ProcessRecv(): the bytes are fed and parsed under one lock.               *)
ProcessRecv(w) ==
    /\ Idle(w) /\ recvs # <<>>
    /\ LET k == Head(recvs) IN
         /\ replies[k] # <<>>
         /\ LET reply == Head(replies[k]) IN
              \E piece \in IF reply.begun THEN {"rest"} ELSE {"whole", "first"} :
                /\ replies' = [replies EXCEPT ![k] =
                     IF piece = "first" THEN <<[reply EXCEPT !.begun = TRUE]>> \o Tail(@) ELSE Tail(@)]
                /\ parser' = IF piece = "first" /\ parser \in {0, k} THEN k ELSE 0
                /\ Begin(w, Receipts(k, reply.command, piece) \o <<<<"uncount", 0>>>>)
    /\ recvs' = Tail(recvs)
    /\ UNCHANGED <<selects, socket, opened, down, sends, pendingIo, commandState, poolState, answer, strayed>>

RecvZero(w) ==
    /\ Idle(w) /\ recvs # <<>> /\ Head(recvs) \in down
    /\ recvs' = Tail(recvs)
    /\ Begin(w, <<<<"exchange", 0>>, <<"uncount", 0>>>>)
    /\ UNCHANGED <<selects, socket, opened, down, parser, sends, pendingIo, commandState, replies,
                   poolState, answer, strayed>>

OnReceiptResponse(w) ==
    /\ In(w, "receipt")
    /\ callback' = 0
    /\ Proceed(w, IF callback = 0 THEN <<>>
                  ELSE <<<<"callback", <<callback, IF Argument(w) = callback THEN "own" ELSE "foreign">>>>>>)
    /\ UNCHANGED <<selects, socket, opened, down, parser, ioState, sending, nextSend, replies, poolState,
                   answer, strayed>>

RegisterRecv(w) ==
    /\ In(w, "post") /\ socket # 0
    /\ recvs' = Append(recvs, socket) /\ pendingIo' = pendingIo + 1
    /\ Proceed(w, <<>>)
    /\ UNCHANGED <<selects, socket, opened, down, parser, sends, commandState, replies, poolState,
                   answer, strayed>>

RegisterRecvFails(w) ==
    /\ In(w, "post")
    /\ Proceed(w, <<<<"exchange", 0>>>>)
    /\ UNCHANGED <<selects, socket, opened, down, parser, ioState, commandState, replies, poolState,
                   answer, strayed>>

(* The completion was handled: _pendingIoCount falls.                        *)
Uncount(w) ==
    /\ In(w, "uncount")
    /\ pendingIo' = pendingIo - 1
    /\ Proceed(w, <<>>)
    /\ UNCHANGED <<selects, socket, opened, down, parser, recvs, sends, commandState, replies, poolState,
                   answer, strayed>>

-----------------------------------------------------------------------------
(* CRedisClient::Dispatch(): sends.                                          *)

SendZero(w) ==
    /\ Idle(w) /\ sends # <<>> /\ Head(sends).socket \in down
    /\ sends' = Tail(sends)
    /\ Begin(w, <<<<"exchange", 0>>, <<"uncount", 0>>>>)
    /\ UNCHANGED <<selects, socket, opened, down, parser, recvs, pendingIo, commandState, replies,
                   poolState, answer, strayed>>

(* What is to be sent when n parts are out: the rest, or the next command.   *)
ToSend(n) ==
    IF sending.left > n THEN [sending EXCEPT !.left = @ - n]
    ELSE IF nextSend = 0 THEN Nothing
    ELSE [command |-> nextSend, left |-> Parts]

(* Nothing to go on with: sent, or drained by Disconnect().                  *)
SendEnds(w) ==
    /\ Idle(w) /\ sends # <<>> /\ Head(sends).sent > 0
    /\ sending = Nothing \/ ToSend(Head(sends).sent) = Nothing
    /\ sends' = Tail(sends) /\ pendingIo' = pendingIo - 1
    /\ sending' = Nothing
    /\ UNCHANGED <<selects, socket, opened, down, parser, recvs, callback, nextSend, replies, poolState,
                   answer, strayed, frames>>

(* DoSend() counts the new request, then this completion is uncounted.       *)
SendGoesOn(w) ==
    /\ Idle(w) /\ sends # <<>> /\ Head(sends).sent > 0 /\ sending # Nothing
    /\ LET more == ToSend(Head(sends).sent) IN
         /\ more # Nothing
         /\ sending' = more
         /\ nextSend' = IF sending.left > Head(sends).sent THEN nextSend ELSE 0
         /\ \/ /\ socket # 0
               /\ sends' = Append(Tail(sends), Posted(more.command, more.left))
               /\ UNCHANGED <<pendingIo, frames>>
            \/ /\ sends' = Tail(sends) /\ pendingIo' = pendingIo - 1
               /\ Begin(w, <<<<"exchange", Head(sends).socket>>>>)
    /\ UNCHANGED <<selects, socket, opened, down, parser, recvs, callback, replies, poolState, answer, strayed>>

Dispatch(w) ==
    \/ ProcessRecv(w) \/ RecvZero(w) \/ OnReceiptResponse(w) \/ RegisterRecv(w) \/ RegisterRecvFails(w)
    \/ Uncount(w) \/ SendZero(w) \/ SendEnds(w) \/ SendGoesOn(w)

-----------------------------------------------------------------------------
(* The network and the server.                                               *)

(* A part or all of a send is out; the server answers a whole command, maybe *)
(* before the completion is dispatched.                                      *)
Transmit ==
    \E i \in 1..Len(sends) :
      /\ sends[i].sent = 0 /\ sends[i].socket \notin down
      /\ \E n \in 1..sends[i].left :
           /\ sends' = [sends EXCEPT ![i].sent = n]
           /\ replies' = IF n < sends[i].left THEN replies
                ELSE [replies EXCEPT ![sends[i].socket] =
                        Append(@, [command |-> sends[i].command, begun |-> FALSE])]
      /\ UNCHANGED <<selects, socket, opened, down, parser, recvs, pendingIo, commandState, poolState,
                     answer, strayed, frames>>

PeerCloses ==
    /\ socket \notin down \union {0}
    /\ down' = down \union {socket}
    /\ UNCHANGED <<selects, socket, opened, parser, ioState, commandState, replies, poolState, answer,
                   strayed, frames>>

RedisNext ==
    \/ \E t \in RedisThreads : Disconnect(t) \/ ClientSend(t) \/ Callback(t) \/ PushConnection(t)
    \/ \E u \in RedisUsers : Lend(u) \/ Wait(u)
    \/ \E w \in RedisWorkers : Dispatch(w)
    \/ ExpirePendingCommands(Reconnector) \/ Expired(Reconnector)
    \/ DisconnectStalledClients(Reconnector) \/ ReconnectLoop(Reconnector)
    \/ Transmit \/ PeerCloses

RedisSpec == RedisInit /\ [][RedisNext]_redisVars

-----------------------------------------------------------------------------
(* Properties.                                                               *)

(* Frames, as <<thread, depth>>, of threads that are at one of the places.   *)
HowMany(places) ==
    Cardinality(UNION {{<<t, d>> : d \in {k \in DOMAIN frames[t] :
                                            frames[t][Len(frames[t]) + 1 - k] \in places}} :
                       t \in RedisThreads})

(* Frames that are about to call the callback of c, or to register it.       *)
Told == {"own", "foreign", "error"}
Carries(c) == ({"send", "expired"} \X {c}) \union ({"callback"} \X ({c} \X Told))

(* The callback of a command is called once: until then it is in exactly one *)
(* place, be it the pool's queue, the client, or a thread that will call it. *)
(* Neither the reply, Disconnect(), a failed send nor a time-out loses it to *)
(* another or takes it twice.                                                *)
Unanswered(c) ==
    Cardinality({i \in DOMAIN waiting : waiting[i] = c}) + (IF callback = c THEN 1 ELSE 0)
      + HowMany(Carries(c))

CalledOnce ==
    /\ \A c \in 1..issued : Unanswered(c) = IF answer[c] = "none" THEN 1 ELSE 0
    /\ \A c \in DOMAIN answer : answer[c] # "twice"

(* The connection is in one place: free, broken, lent to one command, or     *)
(* with the reconnect thread.  It is not free while a command waits.         *)
HasConnection ==
    ({"push", "connect", "register", "giveBack"} \X {0})
    \union ({"await"} \X {SelectOf(k) : k \in Sockets})
    \union ({"send"} \X Commands)
    \union ({"callback"} \X (Commands \X Told))

ConnectionInOnePlace ==
    /\ free + broken + (IF callback \in Commands THEN 1 ELSE 0) + HowMany(HasConnection) = 1
    /\ free > 0 => waiting = <<>>

(* "_sendEvent can be used again only after its completion was consumed":    *)
(* one request at a time is posted with an event.                            *)
EventFree == Len(sends) <= 1 /\ Len(recvs) <= 1

(* A command gets its own reply or an error, each event has one request, and *)
(* a connection has none of an earlier one.  A Disconnect(SendFailed) is not *)
(* counted as I/O: one that drains after the client is connected again takes *)
(* the next connection's command and buffers, and is the exception.          *)
OwnReply ==
    strayed \/ /\ EventFree
               /\ \A c \in DOMAIN answer : answer[c] # "foreign"
               /\ socket # 0 => \A i \in 1..Len(recvs) : recvs[i] = socket
               /\ socket # 0 => \A i \in 1..Len(sends) : sends[i].socket = socket
=============================================================================
