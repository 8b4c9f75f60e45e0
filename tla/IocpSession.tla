---------------------------- MODULE IocpSession -----------------------------
(* CIocpSession (UtilCore/Network/IOCP): one connection, from the accept or  *)
(* ConnectEx to OnDisconnected().  Application threads send and disconnect;  *)
(* worker threads take completions from the port and run the callbacks, from *)
(* which the same calls may be made.                                         *)
(*                                                                           *)
(* A step is the code between two accesses to an atomic, two Winsock calls   *)
(* or two callbacks; a locked region is one step.  stack[t] holds where the  *)
(* thread is, innermost call first, under the names of the source's functions.*)
EXTENDS Integers, Sequences, FiniteSets, SequencesExt

CONSTANTS
    Users,         \* application threads
    Workers,       \* threads that dispatch completions
    Messages,      \* what Send() is called with, each message once
    MaxSendQueue,  \* _maxSendQueueBytes, in messages; 0 is no limit
    RecvCapacity,  \* size of the receive ring buffer, in packets
    SendFails,     \* WSASend may fail at once
    Aborts         \* Abort() may be called

ASSUME UsersAssumption ==
    IsFiniteSet(Users) /\ IsFiniteSet(Workers) /\ Users \intersect Workers = {}
ASSUME BoundsAssumption == MaxSendQueue \in Nat /\ RecvCapacity \in Nat \ {0}
ASSUME SwitchAssumption == SendFails \in BOOLEAN /\ Aborts \in BOOLEAN

Threads == Users \union Workers
Events == {"connect", "recv", "send", "disconnect"}

VARIABLES
    state,                \* _state
    pendingIoCount, disconnectCompleted, disconnectNotified,
    closeReason, gracefulClose,
    sendQueue,            \* _sendQueue
    sendRegistered,       \* _sendRegistered
    sendBuffers,          \* _sendEvent.sendBuffers
    unread,               \* packets in _recvBuffer
    owners,               \* the events whose owner is set
    posted,               \* the events the system owes a completion for
    opened,               \* the session has been accepted, or ConnectAsync called
    stack,
    reason, message,      \* arguments of Disconnect() and EnqueueSend()
    fresh,                \* messages not yet sent
    accepted,             \* history: what EnqueueSend() queued, in order
    wire,                 \* history: what WSASend took, in order
    notices,              \* history: calls of OnDisconnected()
    aborted               \* history: Abort() was called

closing == <<pendingIoCount, disconnectCompleted, disconnectNotified>>
why == <<closeReason, gracefulClose>>
sending == <<sendQueue, sendRegistered, sendBuffers>>
io == <<owners, posted>>
arguments == <<reason, message>>
history == <<accepted, wire, notices, aborted>>
vars == <<state, closing, why, sending, unread, io, opened, stack, arguments,
          fresh, history>>

Init ==
    /\ state = "Created"
    /\ pendingIoCount = 0
    /\ disconnectCompleted = FALSE
    /\ disconnectNotified = FALSE
    /\ closeReason = "none"
    /\ gracefulClose = FALSE
    /\ sendQueue = <<>>
    /\ sendRegistered = FALSE
    /\ sendBuffers = <<>>
    /\ unread = 0
    /\ owners = {}
    /\ posted = {}
    /\ opened = FALSE
    /\ stack = [t \in Threads |-> <<>>]
    /\ reason = [t \in Threads |-> "none"]
    /\ message = [t \in Threads |-> <<>>]
    /\ fresh = Messages
    /\ accepted = <<>>
    /\ wire = <<>>
    /\ notices = 0
    /\ aborted = FALSE

IsConnected == state = "Connected"

Callbacks == {"OnConnected", "OnRecv", "OnSend", "OnDisconnected"}

-----------------------------------------------------------------------------
At(t, label) == stack[t] # <<>> /\ Head(stack[t]) = label

(* The innermost call goes on at the first of frames, the others below it.   *)
Goto(t, frames) == stack' = [stack EXCEPT ![t] = frames \o Tail(@)]
Return(t) == Goto(t, <<>>)

(* The thread runs application code, its own or that of a callback.          *)
InUserCode(t) ==
    IF stack[t] = <<>> THEN t \in Users ELSE Head(stack[t]) \in Callbacks

(* A call made from application code.                                        *)
CallFrom(t, label) == stack' = [stack EXCEPT ![t] = <<label>> \o @]

(* Disconnect(why), after which the caller goes on at frames.                *)
DisconnectThen(t, cause, frames) ==
    /\ reason' = [reason EXCEPT ![t] = cause]
    /\ Goto(t, <<"Disconnect">> \o frames)
    /\ UNCHANGED message

-----------------------------------------------------------------------------
(* Disconnect(): the loop ends with the exchange that succeeds, or a load of *)
(* a state that has nothing left to do.                                      *)
Disconnect(t) ==
    /\ At(t, "Disconnect")
    /\ \/ /\ state = "Connected"
          /\ state' = "Disconnecting"
          /\ Goto(t, <<"RecordReason">>)
       \/ /\ state = "Created"
          /\ state' = "Closed"
          /\ Goto(t, <<"FailConnect">>)
       \/ /\ state \in {"Disconnecting", "Closed"}
          /\ Return(t)
          /\ UNCHANGED state
    /\ UNCHANGED <<closing, why, sending, unread, io, opened, arguments, fresh,
                   history>>

RecordReason(t) ==
    /\ At(t, "RecordReason")
    /\ closeReason' = reason[t]
    /\ owners' = owners \union {"disconnect"}
    /\ Goto(t, <<"DisconnectEx">>)
    /\ UNCHANGED <<state, closing, gracefulClose, sending, unread, posted, opened,
                   arguments, fresh, history>>

(* RegisterDisconnect(): DisconnectEx is posted, or fails at once.           *)
DisconnectEx(t) ==
    /\ At(t, "DisconnectEx")
    /\ \/ /\ posted' = posted \union {"disconnect"}
          /\ Return(t)
          /\ UNCHANGED owners
       \/ /\ owners' = owners \ {"disconnect"}
          /\ Goto(t, <<"ProcessDisconnect">>)
          /\ UNCHANGED posted
    /\ UNCHANGED <<state, closing, why, sending, unread, opened, arguments, fresh,
                   history>>

ProcessDisconnect(t) ==
    /\ At(t, "ProcessDisconnect")
    /\ disconnectCompleted' = TRUE
    /\ Goto(t, <<"TryFinalize">>)
    /\ UNCHANGED <<state, pendingIoCount, disconnectNotified, why, sending, unread,
                   io, opened, arguments, fresh, history>>

(* Mutant: the notice does not wait for the other completions.               *)
TryFinalizeEarly(t) ==
    /\ At(t, "TryFinalize")
    /\ IF disconnectCompleted THEN Goto(t, <<"NotifyOnce">>) ELSE Return(t)
    /\ UNCHANGED <<state, closing, why, sending, unread, io, opened, arguments,
                   fresh, history>>

(* TryFinalizeDisconnect().  _disconnectCompleted is never reset, so that its*)
(* load and that of the count are one step.                                  *)
TryFinalize(t) ==
    /\ At(t, "TryFinalize")
    /\ IF disconnectCompleted /\ pendingIoCount = 0
       THEN Goto(t, <<"NotifyOnce">>)
       ELSE Return(t)
    /\ UNCHANGED <<state, closing, why, sending, unread, io, opened, arguments,
                   fresh, history>>

NotifyOnce(t) ==
    /\ At(t, "NotifyOnce")
    /\ disconnectNotified' = TRUE
    /\ IF disconnectNotified THEN Return(t) ELSE Goto(t, <<"Finalized">>)
    /\ UNCHANGED <<state, pendingIoCount, disconnectCompleted, why, sending, unread,
                   io, opened, arguments, fresh, history>>

Finalized(t) ==
    /\ At(t, "Finalized")
    /\ state' = "Closed"
    /\ notices' = notices + 1
    /\ Goto(t, <<"OnDisconnected">>)
    /\ UNCHANGED <<closing, why, sending, unread, io, opened, arguments, fresh,
                   accepted, wire, aborted>>

OnDisconnected(t) ==
    /\ At(t, "OnDisconnected")
    /\ Return(t)
    /\ UNCHANGED <<state, closing, why, sending, unread, io, opened, arguments,
                   fresh, history>>

(* Mutant: the last completion leaves the notice to DisconnectEx.            *)
ReleaseIoOnly(t) ==
    /\ At(t, "ReleaseIo")
    /\ pendingIoCount' = pendingIoCount - 1
    /\ Return(t)
    /\ UNCHANGED <<state, disconnectCompleted, disconnectNotified, why, sending,
                   unread, io, opened, arguments, fresh, history>>

ReleaseIo(t) ==
    /\ At(t, "ReleaseIo")
    /\ pendingIoCount' = pendingIoCount - 1
    /\ Goto(t, <<"TryFinalize">>)
    /\ UNCHANGED <<state, disconnectCompleted, disconnectNotified, why, sending,
                   unread, io, opened, arguments, fresh, history>>

(* FailConnect(): the store, the exchange, then reason, socket and callback. *)
FailConnect(t) ==
    /\ At(t, "FailConnect")
    /\ state' = "Closed"
    /\ Goto(t, <<"FailNotify">>)
    /\ UNCHANGED <<closing, why, sending, unread, io, opened, arguments, fresh,
                   history>>

FailNotify(t) ==
    /\ At(t, "FailNotify")
    /\ disconnectNotified' = TRUE
    /\ IF disconnectNotified THEN Return(t) ELSE Goto(t, <<"FailClose">>)
    /\ UNCHANGED <<state, pendingIoCount, disconnectCompleted, why, sending, unread,
                   io, opened, arguments, fresh, history>>

FailClose(t) ==
    /\ At(t, "FailClose")
    /\ closeReason' = IF closeReason = "none" THEN reason[t] ELSE closeReason
    /\ notices' = notices + 1
    /\ Goto(t, <<"OnDisconnected">>)
    /\ UNCHANGED <<state, closing, gracefulClose, sending, unread, io, opened,
                   arguments, fresh, accepted, wire, aborted>>

-----------------------------------------------------------------------------
(* ConnectAsync(): the bind fails, or ConnectEx is posted, or fails at once. *)
ConnectAsync(t) ==
    /\ t \in Users /\ stack[t] = <<>>
    /\ ~opened
    /\ opened' = TRUE
    /\ \/ /\ state # "Created"
          /\ UNCHANGED <<stack, owners, reason>>
       \/ /\ state = "Created"
          /\ CallFrom(t, "FailConnect")
          /\ reason' = [reason EXCEPT ![t] = "error"]
          /\ UNCHANGED owners
       \/ /\ state = "Created"
          /\ CallFrom(t, "ConnectEx")
          /\ owners' = owners \union {"connect"}
          /\ UNCHANGED reason
    /\ UNCHANGED <<state, closing, why, sending, unread, posted, message, fresh,
                   history>>

ConnectEx(t) ==
    /\ At(t, "ConnectEx")
    /\ \/ /\ posted' = posted \union {"connect"}
          /\ Return(t)
          /\ UNCHANGED <<owners, reason>>
       \/ /\ owners' = owners \ {"connect"}
          /\ reason' = [reason EXCEPT ![t] = "error"]
          /\ Goto(t, <<"FailConnect">>)
          /\ UNCHANGED posted
    /\ UNCHANGED <<state, closing, why, sending, unread, opened, message, fresh,
                   history>>

(* The listener hands an accepted session to a worker.                       *)
Accept(w) ==
    /\ w \in Workers /\ stack[w] = <<>>
    /\ ~opened
    /\ opened' = TRUE
    /\ CallFrom(w, "ProcessConnect")
    /\ UNCHANGED <<state, closing, why, sending, unread, io, arguments, fresh,
                   history>>

ProcessConnect(t) ==
    /\ At(t, "ProcessConnect")
    /\ IF state = "Created" THEN Goto(t, <<"CountConnect">>) ELSE Return(t)
    /\ UNCHANGED <<state, closing, why, sending, unread, io, opened, arguments,
                   fresh, history>>

CountConnect(t) ==
    /\ At(t, "CountConnect")
    /\ pendingIoCount' = pendingIoCount + 1
    /\ Goto(t, <<"EnterConnected">>)
    /\ UNCHANGED <<state, disconnectCompleted, disconnectNotified, why, sending,
                   unread, io, opened, arguments, fresh, history>>

EnterConnected(t) ==
    /\ At(t, "EnterConnected")
    /\ IF state = "Created"
       THEN state' = "Connected" /\ Goto(t, <<"OnConnected">>)
       ELSE Goto(t, <<"ReleaseIo">>) /\ UNCHANGED state
    /\ UNCHANGED <<closing, why, sending, unread, io, opened, arguments, fresh,
                   history>>

OnConnected(t) ==
    /\ At(t, "OnConnected")
    /\ Goto(t, <<"RegisterRecv", "ReleaseIo">>)
    /\ UNCHANGED <<state, closing, why, sending, unread, io, opened, arguments,
                   fresh, history>>

-----------------------------------------------------------------------------
RegisterRecv(t) ==
    /\ At(t, "RegisterRecv")
    /\ \/ /\ ~IsConnected
          /\ Return(t)
          /\ UNCHANGED <<owners, arguments>>
       \/ /\ IsConnected /\ unread = RecvCapacity
          /\ owners' = owners \ {"recv"}
          /\ DisconnectThen(t, "error", <<>>)
       \/ /\ IsConnected /\ unread # RecvCapacity
          /\ owners' = owners \union {"recv"}
          /\ Goto(t, <<"CountRecv">>)
          /\ UNCHANGED arguments
    /\ UNCHANGED <<state, closing, why, sending, unread, posted, opened, fresh,
                   history>>

CountRecv(t) ==
    /\ At(t, "CountRecv")
    /\ pendingIoCount' = pendingIoCount + 1
    /\ Goto(t, <<"WSARecv">>)
    /\ UNCHANGED <<state, disconnectCompleted, disconnectNotified, why, sending,
                   unread, io, opened, arguments, fresh, history>>

WSARecv(t) ==
    /\ At(t, "WSARecv")
    /\ \/ posted' = posted \union {"recv"} /\ Return(t)
       \/ Goto(t, <<"RecvFailed">>) /\ UNCHANGED posted
    /\ UNCHANGED <<state, closing, why, sending, unread, owners, opened, arguments,
                   fresh, history>>

(* Mutant: the count is not rolled back.                                     *)
RecvFailedCounted(t) ==
    /\ At(t, "RecvFailed")
    /\ owners' = owners \ {"recv"}
    /\ DisconnectThen(t, "error", <<>>)
    /\ UNCHANGED <<state, closing, why, sending, unread, posted, opened, fresh,
                   history>>

RecvFailed(t) ==
    /\ At(t, "RecvFailed")
    /\ pendingIoCount' = pendingIoCount - 1
    /\ owners' = owners \ {"recv"}
    /\ DisconnectThen(t, "error", <<>>)
    /\ UNCHANGED <<state, disconnectCompleted, disconnectNotified, why, sending,
                   unread, posted, opened, fresh, history>>

(* ProcessRecv() with bytes: they are in the ring buffer, if still connected.*)
ProcessRecv(t) ==
    /\ At(t, "ProcessRecv")
    /\ \/ /\ ~IsConnected
          /\ Goto(t, <<"ReleaseIo">>)
          /\ UNCHANGED unread
       \/ /\ IsConnected
          /\ unread' \in (unread + 1) .. RecvCapacity
          /\ Goto(t, <<"RecvLoop">>)
    /\ UNCHANGED <<state, closing, why, sending, io, opened, arguments, fresh,
                   history>>

RecvLoop(t) ==
    /\ At(t, "RecvLoop")
    /\ IF IsConnected /\ unread > 0
       THEN Goto(t, <<"OnRecv">>)
       ELSE Goto(t, <<"RegisterRecv", "ReleaseIo">>)
    /\ UNCHANGED <<state, closing, why, sending, unread, io, opened, arguments,
                   fresh, history>>

(* OnRecv() takes packets, waits for more of an incomplete one, or reports   *)
(* an error.                                                                 *)
OnRecv(t) ==
    /\ At(t, "OnRecv")
    /\ \/ /\ unread' \in 0 .. (unread - 1)
          /\ Goto(t, <<"RecvLoop">>)
          /\ UNCHANGED arguments
       \/ /\ Goto(t, <<"RegisterRecv", "ReleaseIo">>)
          /\ UNCHANGED <<unread, arguments>>
       \/ /\ DisconnectThen(t, "error", <<"ReleaseIo">>)
          /\ UNCHANGED unread
    /\ UNCHANGED <<state, closing, why, sending, io, opened, fresh, history>>

(* ProcessRecv() with zero bytes: eof is a completion without error.         *)
ProcessRecvZero(t, outcome) ==
    /\ At(t, outcome)
    /\ \/ /\ ~IsConnected
          /\ Goto(t, <<"ReleaseIo">>)
          /\ UNCHANGED arguments
       \/ /\ IsConnected /\ outcome = "RecvEof"
          /\ Goto(t, <<"Graceful">>)
          /\ UNCHANGED arguments
       \/ /\ IsConnected /\ outcome = "RecvError"
          /\ DisconnectThen(t, "remote", <<"ReleaseIo">>)
    /\ UNCHANGED <<state, closing, why, sending, unread, io, opened, fresh, history>>

Graceful(t) ==
    /\ At(t, "Graceful")
    /\ gracefulClose' = TRUE
    /\ DisconnectThen(t, "remote", <<"ReleaseIo">>)
    /\ UNCHANGED <<state, closing, closeReason, sending, unread, io, opened, fresh,
                   history>>

-----------------------------------------------------------------------------
EnqueueSend(t) ==
    /\ At(t, "EnqueueSend")
    /\ IF IsConnected THEN Goto(t, <<"EnqueueLocked">>) ELSE Return(t)
    /\ UNCHANGED <<state, closing, why, sending, unread, io, opened, arguments,
                   fresh, history>>

(* Mutant: the queue's being empty decides who sends, not _sendRegistered.   *)
EnqueueLockedByQueue(t) ==
    /\ At(t, "EnqueueLocked")
    /\ IF MaxSendQueue # 0 /\ Len(sendQueue) + 1 > MaxSendQueue
       THEN /\ DisconnectThen(t, "error", <<>>)
            /\ UNCHANGED <<sendQueue, sendRegistered, accepted>>
       ELSE /\ sendQueue' = sendQueue \o message[t]
            /\ accepted' = accepted \o message[t]
            /\ sendRegistered' = TRUE
            /\ IF sendQueue # <<>> THEN Return(t) ELSE Goto(t, <<"RegisterSend">>)
            /\ UNCHANGED arguments
    /\ UNCHANGED <<state, closing, why, sendBuffers, unread, io, opened, fresh,
                   wire, notices, aborted>>

EnqueueLocked(t) ==
    /\ At(t, "EnqueueLocked")
    /\ IF MaxSendQueue # 0 /\ Len(sendQueue) + 1 > MaxSendQueue
       THEN /\ DisconnectThen(t, "error", <<>>)
            /\ UNCHANGED <<sendQueue, sendRegistered, accepted>>
       ELSE /\ sendQueue' = sendQueue \o message[t]
            /\ accepted' = accepted \o message[t]
            /\ sendRegistered' = TRUE
            /\ IF sendRegistered THEN Return(t) ELSE Goto(t, <<"RegisterSend">>)
            /\ UNCHANGED arguments
    /\ UNCHANGED <<state, closing, why, sendBuffers, unread, io, opened, fresh,
                   wire, notices, aborted>>

RegisterSend(t) ==
    /\ At(t, "RegisterSend")
    /\ IF IsConnected
       THEN owners' = owners \union {"send"} /\ Goto(t, <<"SwapSendQueue">>)
       ELSE Return(t) /\ UNCHANGED owners
    /\ UNCHANGED <<state, closing, why, sending, unread, posted, opened, arguments,
                   fresh, history>>

(* Mutant: the queue is copied to the event and not emptied.                 *)
SwapSendQueueCopied(t) ==
    /\ At(t, "SwapSendQueue")
    /\ sendBuffers' = sendQueue
    /\ IF sendQueue = <<>>
       THEN /\ owners' = owners \ {"send"}
            /\ sendRegistered' = FALSE
            /\ Return(t)
       ELSE /\ Goto(t, <<"CountSend">>)
            /\ UNCHANGED <<owners, sendRegistered>>
    /\ UNCHANGED <<state, closing, why, sendQueue, unread, posted, opened,
                   arguments, fresh, history>>

SwapSendQueue(t) ==
    /\ At(t, "SwapSendQueue")
    /\ sendBuffers' = sendQueue
    /\ sendQueue' = sendBuffers
    /\ IF sendQueue = <<>>
       THEN /\ owners' = owners \ {"send"}
            /\ sendRegistered' = FALSE
            /\ Return(t)
       ELSE /\ Goto(t, <<"CountSend">>)
            /\ UNCHANGED <<owners, sendRegistered>>
    /\ UNCHANGED <<state, closing, why, unread, posted, opened, arguments, fresh,
                   history>>

CountSend(t) ==
    /\ At(t, "CountSend")
    /\ pendingIoCount' = pendingIoCount + 1
    /\ Goto(t, <<"WSASend">>)
    /\ UNCHANGED <<state, disconnectCompleted, disconnectNotified, why, sending,
                   unread, io, opened, arguments, fresh, history>>

WSASend(t) ==
    /\ At(t, "WSASend")
    /\ \/ /\ posted' = posted \union {"send"}
          /\ wire' = wire \o sendBuffers
          /\ Return(t)
       \/ /\ SendFails
          /\ Goto(t, <<"SendFailed">>)
          /\ UNCHANGED <<posted, wire>>
    /\ UNCHANGED <<state, closing, why, sending, unread, owners, opened, arguments,
                   fresh, accepted, notices, aborted>>

SendFailed(t) ==
    /\ At(t, "SendFailed")
    /\ pendingIoCount' = pendingIoCount - 1
    /\ DisconnectThen(t, "error", <<"ClearSend">>)
    /\ UNCHANGED <<state, disconnectCompleted, disconnectNotified, why, sending,
                   unread, io, opened, fresh, history>>

ClearSend(t) ==
    /\ At(t, "ClearSend")
    /\ owners' = owners \ {"send"}
    /\ sendBuffers' = <<>>
    /\ sendQueue' = <<>>
    /\ sendRegistered' = FALSE
    /\ Return(t)
    /\ UNCHANGED <<state, closing, why, unread, posted, opened, arguments, fresh,
                   history>>

(* ProcessSend(): outcome says whether bytes were sent.                      *)
ProcessSend(t, outcome) ==
    /\ At(t, outcome)
    /\ sendBuffers' = <<>>
    /\ \/ /\ outcome = "SendError" /\ IsConnected
          /\ DisconnectThen(t, "error", <<"ReleaseIo">>)
       \/ /\ outcome = "SendError" /\ ~IsConnected
          /\ Goto(t, <<"ReleaseIo">>)
          /\ UNCHANGED arguments
       \/ /\ outcome = "SendDone"
          /\ Goto(t, IF IsConnected THEN <<"OnSend">> ELSE <<"DropSendQueue">>)
          /\ UNCHANGED arguments
    /\ UNCHANGED <<state, closing, why, sendQueue, sendRegistered, unread, io,
                   opened, fresh, history>>

DropSendQueue(t) ==
    /\ At(t, "DropSendQueue")
    /\ sendQueue' = <<>>
    /\ Goto(t, <<"ReleaseIo">>)
    /\ UNCHANGED <<state, closing, why, sendRegistered, sendBuffers, unread, io,
                   opened, arguments, fresh, history>>

OnSend(t) ==
    /\ At(t, "OnSend")
    /\ Goto(t, <<"SendNext">>)
    /\ UNCHANGED <<state, closing, why, sending, unread, io, opened, arguments,
                   fresh, history>>

(* Mutant: the flag is dropped without a look at what was queued meanwhile.  *)
SendNextBlind(t) ==
    /\ At(t, "SendNext")
    /\ sendRegistered' = FALSE
    /\ Goto(t, <<"ReleaseIo">>)
    /\ UNCHANGED <<state, closing, why, sendQueue, sendBuffers, unread, io, opened,
                   arguments, fresh, history>>

SendNext(t) ==
    /\ At(t, "SendNext")
    /\ IF sendQueue = <<>>
       THEN sendRegistered' = FALSE /\ Goto(t, <<"ReleaseIo">>)
       ELSE UNCHANGED sendRegistered /\ Goto(t, <<"RegisterSend", "ReleaseIo">>)
    /\ UNCHANGED <<state, closing, why, sendQueue, sendBuffers, unread, io, opened,
                   arguments, fresh, history>>

-----------------------------------------------------------------------------
(* What a completion is dispatched to: where the handler starts.             *)
Handlers(event) ==
    CASE event = "connect" -> {"ProcessConnect", "FailConnect"}
      [] event = "recv" -> {"ProcessRecv", "RecvEof", "RecvError"}
      [] event = "send" -> {"SendDone", "SendError"}
      [] event = "disconnect" -> {"ProcessDisconnect"}

(* CIocpCore::ProcessOverlappedResult(): the owner is moved out of the event;*)
(* a completion whose event has none is dropped.                             *)
Complete(w, event) ==
    /\ w \in Workers /\ stack[w] = <<>>
    /\ event \in posted
    /\ posted' = posted \ {event}
    /\ owners' = owners \ {event}
    /\ IF event \in owners
       THEN /\ \E handler \in Handlers(event) : CallFrom(w, handler)
            /\ reason' = [reason EXCEPT ![w] = IF event = "connect" THEN "error" ELSE @]
       ELSE UNCHANGED <<stack, reason>>
    /\ UNCHANGED <<state, closing, why, sending, unread, opened, message, fresh,
                   history>>

(* Calls from application code.  One that finds the session closing returns  *)
(* without an effect, and is left out.                                       *)
CallSend(t) ==
    /\ InUserCode(t)
    /\ IsConnected
    /\ \E m \in fresh :
          /\ fresh' = fresh \ {m}
          /\ message' = [message EXCEPT ![t] = <<m>>]
    /\ CallFrom(t, "EnqueueSend")
    /\ UNCHANGED <<state, closing, why, sending, unread, io, opened, reason, history>>

CallDisconnect(t) ==
    /\ InUserCode(t)
    /\ state \in {"Created", "Connected"}
    /\ reason' = [reason EXCEPT ![t] = "local"]
    /\ CallFrom(t, "Disconnect")
    /\ UNCHANGED <<state, closing, why, sending, unread, io, opened, message, fresh,
                   history>>

Abort(t) ==
    /\ Aborts
    /\ t \in Users /\ stack[t] = <<>>
    /\ ~disconnectNotified
    /\ reason' = [reason EXCEPT ![t] = "local"]
    /\ aborted' = TRUE
    /\ CallFrom(t, "FailConnect")
    /\ UNCHANGED <<state, closing, why, sending, unread, io, opened, message, fresh,
                   accepted, wire, notices>>

-----------------------------------------------------------------------------
(* The steps of calls that have been entered; callbacks return.              *)
Progress(t) ==
    \/ Disconnect(t) \/ RecordReason(t) \/ DisconnectEx(t) \/ ProcessDisconnect(t)
    \/ TryFinalize(t) \/ NotifyOnce(t) \/ Finalized(t) \/ OnDisconnected(t)
    \/ ReleaseIo(t) \/ FailConnect(t) \/ FailNotify(t) \/ FailClose(t)
    \/ ConnectEx(t)
    \/ ProcessConnect(t) \/ CountConnect(t) \/ EnterConnected(t) \/ OnConnected(t)
    \/ RegisterRecv(t) \/ CountRecv(t) \/ WSARecv(t) \/ RecvFailed(t)
    \/ ProcessRecv(t) \/ RecvLoop(t) \/ OnRecv(t) \/ Graceful(t)
    \/ \E outcome \in {"RecvEof", "RecvError"} : ProcessRecvZero(t, outcome)
    \/ EnqueueSend(t) \/ EnqueueLocked(t)
    \/ RegisterSend(t) \/ SwapSendQueue(t) \/ CountSend(t) \/ WSASend(t)
    \/ SendFailed(t) \/ ClearSend(t)
    \/ \E outcome \in {"SendDone", "SendError"} : ProcessSend(t, outcome)
    \/ DropSendQueue(t) \/ OnSend(t) \/ SendNext(t)

Next ==
    \E t \in Threads :
        \/ Progress(t)
        \/ ConnectAsync(t) \/ Accept(t)
        \/ CallSend(t) \/ CallDisconnect(t) \/ Abort(t)
        \/ \E event \in Events : Complete(t, event)

Spec == Init /\ [][Next]_vars

(* Threads run, callbacks return, and once the session is being closed the   *)
(* system completes what has been posted on its socket and a worker is there *)
(* to take the completion.  A connected peer is not obliged to do anything.  *)
FairSpec ==
    /\ Spec
    /\ \A t \in Threads : WF_vars(Progress(t))
    /\ \A event \in Events :
          WF_vars(state \in {"Disconnecting", "Closed"}
                  /\ \E w \in Workers : Complete(w, event))

-----------------------------------------------------------------------------
Labels ==
    Callbacks \union
    {"Disconnect", "RecordReason", "DisconnectEx", "ProcessDisconnect",
     "TryFinalize", "NotifyOnce", "Finalized", "ReleaseIo", "FailConnect",
     "FailNotify", "FailClose", "ConnectEx", "ProcessConnect", "CountConnect",
     "EnterConnected", "RegisterRecv", "CountRecv", "WSARecv", "RecvFailed",
     "ProcessRecv", "RecvLoop", "RecvEof", "RecvError", "Graceful", "EnqueueSend",
     "EnqueueLocked", "RegisterSend", "SwapSendQueue", "CountSend", "WSASend",
     "SendFailed", "ClearSend", "SendDone", "SendError", "DropSendQueue",
     "SendNext"}

Reasons == {"none", "local", "remote", "error"}

TypeOK ==
    /\ state \in {"Created", "Connected", "Disconnecting", "Closed"}
    /\ pendingIoCount \in Nat
    /\ disconnectCompleted \in BOOLEAN
    /\ disconnectNotified \in BOOLEAN
    /\ closeReason \in Reasons
    /\ gracefulClose \in BOOLEAN
    /\ sendQueue \in Seq(Messages)
    /\ sendRegistered \in BOOLEAN
    /\ sendBuffers \in Seq(Messages)
    /\ unread \in 0 .. RecvCapacity
    /\ owners \in SUBSET Events
    /\ posted \in SUBSET Events
    /\ opened \in BOOLEAN
    /\ stack \in [Threads -> Seq(Labels)]
    /\ reason \in [Threads -> Reasons]
    /\ message \in [Threads -> Seq(Messages)]
    /\ fresh \in SUBSET Messages
    /\ accepted \in Seq(Messages)
    /\ wire \in Seq(Messages)
    /\ notices \in Nat
    /\ aborted \in BOOLEAN

(* The frames of all threads, as <<thread, depth>>; the outermost has depth 1.*)
Frames(labels) ==
    UNION {{<<t, i>> : i \in {k \in DOMAIN stack[t] :
                                stack[t][Len(stack[t]) + 1 - k] \in labels}} :
           t \in Threads}

(* OnDisconnected() is the last callback: it is called at most once,         *)
(* whichever of DisconnectEx, the last completion, a failed connect and      *)
(* Abort() gets there first, and no other callback of the session runs after *)
(* it or while it runs, unless Abort() cut the session off.                  *)
NotifiedLast ==
    /\ notices <= 1
    /\ notices > 0 /\ ~aborted => Frames({"OnConnected", "OnRecv", "OnSend"}) = {}

(* _pendingIoCount is the number of receives and sends that the system has,  *)
(* is about to be given, or whose handler has not ended; and a completion    *)
(* never finds its event without an owner: it would be dropped, and the      *)
(* count it stands for never released.                                       *)
CountedFrames ==
    {"EnterConnected", "OnConnected", "ReleaseIo", "WSARecv", "RecvFailed",
     "ProcessRecv", "RecvLoop", "OnRecv", "RecvEof", "RecvError", "Graceful",
     "WSASend", "SendFailed", "SendDone", "SendError", "DropSendQueue", "OnSend",
     "SendNext"}

PendingCounted ==
    /\ pendingIoCount = Cardinality(Frames(CountedFrames))
                        + Cardinality(posted \intersect {"recv", "send"})
    /\ posted \subseteq owners

(* Whoever may touch _sendEvent: the WSASend in flight, or one thread.       *)
SendFrames ==
    {"RegisterSend", "SwapSendQueue", "CountSend", "WSASend", "SendFailed",
     "ClearSend", "SendDone", "SendError", "OnSend", "SendNext"}

SendHolders ==
    Cardinality(Frames(SendFrames)) + Cardinality(posted \intersect {"send"})

(* The receive ring buffer and the send event have no lock: there is never a *)
(* second receive, or a second WSASend, while one is in flight, being        *)
(* prepared or handled.                                                      *)
ReceiveHolders ==
    Cardinality(Frames({"OnConnected", "RegisterRecv", "CountRecv", "WSARecv",
                        "ProcessRecv", "RecvLoop", "OnRecv"}))
    + Cardinality(posted \intersect {"recv"})

OneOfEach == SendHolders <= 1 /\ ReceiveHolders <= 1

(* While the session is connected, a queued message has someone to send it,  *)
(* or a thread is about to close the session.                                *)
NoStrandedMessage ==
    IsConnected /\ sendQueue # <<>> => SendHolders = 1 \/ Frames({"Disconnect"}) # {}

(* Messages reach WSASend in the order of the calls that queued them, none   *)
(* twice; while the session is connected, none is missing.                   *)
Unsent ==
    IF Frames({"CountSend", "WSASend", "SendFailed", "ClearSend"}) = {}
    THEN <<>> ELSE sendBuffers

SentInOrder ==
    /\ IsPrefix(wire, accepted)
    /\ IsConnected => accepted = wire \o Unsent \o sendQueue

(* A session that is being closed is reported in the end.                    *)
ClosedIsNotified ==
    state \in {"Disconnecting", "Closed"} ~> notices = 1

(* Documented at TryFinalizeDisconnect(): when the disconnect has completed, *)
(* nothing is pending and no call is in progress, the session was reported.  *)
DrainedIsNotified ==
    disconnectCompleted /\ pendingIoCount = 0 /\ (\A t \in Threads : stack[t] = <<>>)
    => disconnectNotified
=============================================================================
