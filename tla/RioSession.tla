----------------------------- MODULE RioSession -----------------------------
(* CRioSession (UtilCore/Network/RIO): one session on registered I/O.  A     *)
(* receive and a send may be outstanding; completions are dispatched by      *)
(* several workers at once; any thread may Send() or Disconnect().  The      *)
(* socket is closed only when the last completion has been dispatched, by    *)
(* whoever finds out: Close() or the hook on the I/O count.                  *)
(*                                                                           *)
(* A step is the code between two accesses to shared state.  A region under  *)
(* _sendLock alone is one step; _ioSubmitLock is a variable because the I/O  *)
(* count and the send buffer change while it is held.                        *)
EXTENDS Integers, Sequences, FiniteSets

CONSTANTS
    Workers,      \* threads of the core; each may dispatch a completion of this session
    Users,        \* threads that call Send() and Disconnect()
    Opener,       \* the connect dispatcher's thread, or the accept worker
    RingSize,     \* bytes the send ring buffer holds
    MaxBytes,     \* bound: nobody sends when that many bytes have been sent
    NoThread

ASSUME RioSessionConstants ==
    /\ RingSize \in Nat \ {0}
    /\ MaxBytes \in Nat
    /\ IsFiniteSet(Workers) /\ IsFiniteSet(Users)
    /\ Workers \intersect Users = {}
    /\ {Opener, NoThread} \intersect (Workers \union Users) = {}
    /\ Opener # NoThread

VARIABLES
    way,         \* "connect" (client) or "accept" (server)
    state,       \* _state
    canceled,    \* _connectCanceled
    ioLock,      \* holder of _ioSubmitLock
    ioCount,     \* CRioObject::_ioCount
    receives,    \* receives the kernel holds
    sends,       \* sends the kernel holds: the bytes of each
    ring,        \* _sendBuffer, the bytes in it
    overflow,    \* _sendOverflowQueue: the bytes of its messages, the last of each marked
    isSending,   \* _isSending
    segment,     \* of each thread: rioBufs[0]
    stack,       \* of each thread: where it is, then where its callers go on
    notices,     \* history: OnDisconnected() calls
    accepted,    \* history: bytes Send() has queued
    wire         \* history: bytes in the order the kernel sent them

Threads == Workers \union Users \union {Opener}
sendVars == <<ring, overflow, isSending, accepted, wire>>
connVars == <<way, canceled>>
ioVars   == <<ioCount, receives, sends>>
sessionVars == <<connVars, state, ioLock, ioVars, sendVars, segment, stack, notices>>

SessionInit ==
    /\ way \in {"connect", "accept"}
    /\ state = "Created"
    /\ canceled = FALSE
    /\ ioLock = NoThread
    /\ ioCount = 0
    /\ receives = 0
    /\ sends = <<>>
    /\ ring = <<>> /\ overflow = <<>> /\ isSending = FALSE
    /\ segment = [t \in Threads |-> <<>>]
    /\ stack = [t \in Threads |-> IF t = Opener THEN <<IF way = "connect" THEN "register" ELSE "init">>
                                               ELSE <<>>]
    /\ notices = 0
    /\ accepted = 0 /\ wire = <<>>

-----------------------------------------------------------------------------
(* Control: Head(stack[t]) is where t is.                                    *)
At(t, place)       == stack[t] # <<>> /\ Head(stack[t]) = place
Goto(t, place)     == stack' = [stack EXCEPT ![t] = <<place>> \o Tail(@)]
Call(t, callee, k) == stack' = [stack EXCEPT ![t] = <<callee, k>> \o Tail(@)]
Return(t)          == stack' = [stack EXCEPT ![t] = Tail(@)]

Free(t) == ioLock = NoThread /\ ioLock' = t
Held(t) == ioLock = t /\ ioLock' = ioLock
Unlock(t) == ioLock = t /\ ioLock' = NoThread

-----------------------------------------------------------------------------
(* Close(): the transition and the test of the count are one region.         *)

(* A session that is not connected yet is only told to give up: the flag,    *)
(* then another look at the state, which Init() may have changed meanwhile.  *)
CloseCreated(t) ==
    /\ At(t, "close") /\ state = "Created"
    /\ Free(t)
    /\ canceled' = TRUE
    /\ Goto(t, "closeAgain")
    /\ UNCHANGED <<way, state, ioVars, sendVars, segment, notices>>

CloseActive(t) ==
    /\ \/ At(t, "close") /\ Free(t)
       \/ At(t, "closeAgain") /\ Held(t)
    /\ state = "Active"
    /\ state' = "Closing"
    /\ Goto(t, "closeCount")
    /\ UNCHANGED <<connVars, ioVars, sendVars, segment, notices>>

CloseNothing(t) ==
    /\ \/ At(t, "close") /\ state \in {"Closing", "Closed"} /\ ioLock = NoThread /\ UNCHANGED ioLock
       \/ At(t, "closeAgain") /\ state # "Active" /\ Unlock(t)
    /\ Return(t)
    /\ UNCHANGED <<connVars, state, ioVars, sendVars, segment, notices>>

(* Mutant: a store where the code compares and exchanges.                    *)
FinalizeCloseStore(t) ==
    /\ At(t, "finalize") /\ ioLock = NoThread
    /\ state' = "Closed" /\ Goto(t, "notify")
    /\ UNCHANGED <<connVars, ioLock, ioVars, sendVars, segment, notices>>

CloseCount(t) ==
    /\ At(t, "closeCount")
    /\ Unlock(t)
    /\ IF ioCount = 0 THEN Goto(t, "finalize") ELSE Return(t)
    /\ UNCHANGED <<connVars, state, ioVars, sendVars, segment, notices>>

FinalizeClose(t) ==
    /\ At(t, "finalize") /\ ioLock = NoThread
    /\ IF state = "Closing"
         THEN state' = "Closed" /\ Goto(t, "notify")
         ELSE UNCHANGED state /\ Return(t)
    /\ UNCHANGED <<connVars, ioLock, ioVars, sendVars, segment, notices>>

(* OnDisconnected(), which also takes the session out of the service's list. *)
OnDisconnected(t) ==
    /\ At(t, "notify")
    /\ notices' = notices + 1
    /\ Return(t)
    /\ UNCHANGED <<connVars, state, ioLock, ioVars, sendVars, segment>>

FailConnect(t) ==
    /\ state' = "Closed"
    /\ Goto(t, "notify")
    /\ UNCHANGED <<connVars, ioLock, ioVars, sendVars, segment, notices>>

Close(t) ==
    \/ CloseCreated(t) \/ CloseActive(t) \/ CloseNothing(t) \/ CloseCount(t)
    \/ FinalizeClose(t) \/ OnDisconnected(t)

-----------------------------------------------------------------------------
(* Opening.  ConnectAsync() / RegisterConnect(), then ProcessConnectEx() on  *)
(* the dispatcher's thread; or Init() in the service's accept callback.      *)

RegisterConnect(t) ==
    /\ At(t, "register") /\ ~canceled
    /\ Goto(t, "connecting")
    /\ UNCHANGED <<connVars, state, ioLock, ioVars, sendVars, segment, notices>>

(* Canceled, no socket, ConnectEx() fails, or completes with an error.       *)
ConnectFails(t) ==
    /\ At(t, "register") \/ At(t, "connecting")
    /\ FailConnect(t)

ProcessConnectEx(t) ==
    /\ At(t, "connecting") /\ ~canceled
    /\ Goto(t, "init")
    /\ UNCHANGED <<connVars, state, ioLock, ioVars, sendVars, segment, notices>>

SessionOpened(t) ==
    /\ At(t, "init")
    /\ state' = "Active"
    /\ ring' = <<>> /\ isSending' = FALSE
    /\ Goto(t, "onConnected")
    /\ UNCHANGED <<connVars, ioLock, ioVars, overflow, accepted, wire, segment, notices>>

(* RegisterSendBufferIfNeeded() fails: a client reports it, a server drops   *)
(* the session it has not listed.                                            *)
SessionNotOpened(t) ==
    /\ At(t, "init")
    /\ IF way = "connect"
         THEN FailConnect(t)
         ELSE /\ Return(t)
              /\ UNCHANGED <<connVars, state, ioLock, ioVars, sendVars, segment, notices>>

(* OnConnected(), the application's: nothing, a greeting, or it hangs up.    *)
OnConnected(t) ==
    /\ At(t, "onConnected")
    /\ \/ Goto(t, "opened")
       \/ Call(t, "close", "opened")
       \/ accepted < MaxBytes /\ Call(t, "send", "opened")
    /\ UNCHANGED <<connVars, state, ioLock, ioVars, sendVars, segment, notices>>

Opened(t) ==
    /\ At(t, "opened")
    /\ IF way = "connect" /\ canceled THEN Goto(t, "close") ELSE Goto(t, "post")
    /\ UNCHANGED <<connVars, state, ioLock, ioVars, sendVars, segment, notices>>

OpenSession(t) ==
    \/ RegisterConnect(t) \/ ConnectFails(t) \/ ProcessConnectEx(t) \/ SessionOpened(t)
    \/ SessionNotOpened(t) \/ OnConnected(t) \/ Opened(t)

-----------------------------------------------------------------------------
(* PostReceiveInternal(): the count is raised before the request is          *)
(* submitted and lowered again, without the hook, when that fails.           *)

PostReceive(t) ==
    /\ At(t, "post")
    /\ IF state = "Active"
         THEN Free(t) /\ ioCount' = ioCount + 1 /\ Goto(t, "submit")
         ELSE ioLock = NoThread /\ UNCHANGED <<ioLock, ioCount>> /\ Return(t)
    /\ UNCHANGED <<connVars, state, receives, sends, sendVars, segment, notices>>

SubmitReceive(t) ==
    /\ At(t, "submit")
    /\ Unlock(t)
    /\ receives' = receives + 1
    /\ Return(t)
    /\ UNCHANGED <<connVars, state, ioCount, sends, sendVars, segment, notices>>

SubmitReceiveFails(t) ==
    /\ At(t, "submit")
    /\ Unlock(t)
    /\ ioCount' = ioCount - 1
    /\ Goto(t, "close")
    /\ UNCHANGED <<connVars, state, receives, sends, sendVars, segment, notices>>

(* No slot, no event.                                                        *)
PostReceiveFails(t) ==
    /\ At(t, "post") /\ state = "Active" /\ ioLock = NoThread
    /\ Goto(t, "close")
    /\ UNCHANGED <<connVars, state, ioLock, ioVars, sendVars, segment, notices>>

Receive(t) == PostReceive(t) \/ SubmitReceive(t) \/ SubmitReceiveFails(t) \/ PostReceiveFails(t)

-----------------------------------------------------------------------------
(* Send() and FlushSendInternal().                                           *)

Fits(message) == Len(ring) + Len(message) <= RingSize
Marked(message) == [i \in 1..Len(message) |-> [byte |-> message[i], last |-> i = Len(message)]]

(* Mutant: a message that fits passes the overflow queue.                    *)
QueuePassing(message) ==
    IF Fits(message)
      THEN ring' = ring \o message /\ UNCHANGED overflow
      ELSE overflow' = overflow \o Marked(message) /\ UNCHANGED ring

(* A message that does not fit, or comes after one that did not, waits.      *)
Queue(message) ==
    IF overflow = <<>> /\ Fits(message)
      THEN ring' = ring \o message /\ UNCHANGED overflow
      ELSE overflow' = overflow \o Marked(message) /\ UNCHANGED ring

(* The region under _sendLock.  Bytes are numbered as they are sent; a       *)
(* message is never longer than the ring (65535 bytes, the size a uint16     *)
(* holds, and the capacity of the ring).                                     *)
Send(t) ==
    /\ At(t, "send")
    /\ IF state = "Active"
         THEN /\ \E size \in 1..RingSize :
                   /\ accepted' = accepted + size
                   /\ Queue([i \in 1..size |-> accepted + i])
              /\ isSending' = TRUE
              /\ IF isSending THEN Return(t) ELSE Goto(t, "flush")
         ELSE Return(t) /\ UNCHANGED <<accepted, ring, overflow, isSending>>
    /\ UNCHANGED <<connVars, state, ioLock, ioVars, wire, segment, notices>>

(* The overflow queue cannot grow.                                           *)
SendFails(t) ==
    /\ At(t, "send") /\ state = "Active" /\ (overflow # <<>> \/ ring # <<>>)
    /\ Goto(t, "close")
    /\ UNCHANGED <<connVars, state, ioLock, ioVars, sendVars, segment, notices>>

FlushSend(t) ==
    /\ At(t, "flush")
    /\ IF state = "Active"
         THEN Free(t) /\ Goto(t, "segments")
         ELSE ioLock = NoThread /\ UNCHANGED ioLock /\ Goto(t, "unsend")
    /\ UNCHANGED <<connVars, state, ioVars, sendVars, segment, notices>>

(* GetRioSendBuffers(): the first piece of the ring, up to where it wraps.   *)
GetSendBuffers(t) ==
    /\ At(t, "segments") /\ Held(t)
    /\ IF ring = <<>>
         THEN Goto(t, "flushNothing") /\ UNCHANGED <<segment, ioCount>>
         ELSE /\ \E n \in 1..Len(ring) : segment' = [segment EXCEPT ![t] = SubSeq(ring, 1, n)]
              /\ ioCount' = ioCount + 1
              /\ Goto(t, "submitSend")
    /\ UNCHANGED <<connVars, state, receives, sends, sendVars, notices>>

FlushNothing(t) ==
    /\ At(t, "flushNothing") /\ Unlock(t)
    /\ isSending' = FALSE
    /\ Return(t)
    /\ UNCHANGED <<connVars, state, ioVars, ring, overflow, accepted, wire, segment, notices>>

SubmitSend(t) ==
    /\ At(t, "submitSend") /\ Unlock(t)
    /\ sends' = Append(sends, segment[t])
    /\ segment' = [segment EXCEPT ![t] = <<>>]
    /\ Return(t)
    /\ UNCHANGED <<connVars, state, ioCount, receives, sendVars, notices>>

(* No event, or SendEx() fails.                                              *)
SubmitSendFails(t) ==
    /\ At(t, "submitSend") /\ Unlock(t)
    /\ ioCount' = ioCount - 1
    /\ segment' = [segment EXCEPT ![t] = <<>>]
    /\ Call(t, "close", "unsend")
    /\ UNCHANGED <<connVars, state, receives, sends, sendVars, notices>>

(* What every caller does when FlushSendInternal() returns false.            *)
Unsend(t) ==
    /\ At(t, "unsend")
    /\ isSending' = FALSE
    /\ Return(t)
    /\ UNCHANGED <<connVars, state, ioLock, ioVars, ring, overflow, accepted, wire, segment, notices>>

Flush(t) ==
    \/ Send(t) \/ SendFails(t) \/ FlushSend(t) \/ GetSendBuffers(t) \/ FlushNothing(t)
    \/ SubmitSend(t) \/ SubmitSendFails(t) \/ Unsend(t)

-----------------------------------------------------------------------------
(* Dispatch() of a completion by a worker.                                   *)

(* A request ends, with data, with less than was asked, or in error.         *)
TakeReceive(w) ==
    /\ stack[w] = <<>> /\ receives > 0
    /\ receives' = receives - 1
    /\ \E outcome \in {"gotData", "gotError"} : stack' = [stack EXCEPT ![w] = <<outcome, "exit">>]
    /\ UNCHANGED <<connVars, state, ioLock, ioCount, sends, sendVars, segment, notices>>

(* Mutant: the next receive is posted before the data is handed over.        *)
OnReceiveCompletedEager(w) ==
    /\ At(w, "gotData") \/ At(w, "gotError")
    /\ CASE state # "Active" -> Return(w)
         [] state = "Active" /\ At(w, "gotError") -> Goto(w, "close")
         [] OTHER -> Call(w, "post", "onData")
    /\ UNCHANGED <<connVars, state, ioLock, ioVars, sendVars, segment, notices>>

TakeSend(w) ==
    /\ stack[w] = <<>> /\ sends # <<>>
    /\ sends' = Tail(sends)
    /\ \E n \in 0..Len(Head(sends)) :
         /\ segment' = [segment EXCEPT ![w] = SubSeq(Head(sends), 1, n)]
         /\ wire' = wire \o SubSeq(Head(sends), 1, n)
    /\ stack' = [stack EXCEPT ![w] = <<"sent", "exit">>]
    /\ UNCHANGED <<connVars, state, ioLock, ioCount, receives, ring, overflow, isSending, accepted, notices>>

OnReceiveCompleted(w) ==
    /\ At(w, "gotData") \/ At(w, "gotError")
    /\ CASE state # "Active" -> Return(w)
         [] state = "Active" /\ At(w, "gotError") -> Goto(w, "close")
         [] OTHER -> Goto(w, "onData")
    /\ UNCHANGED <<connVars, state, ioLock, ioVars, sendVars, segment, notices>>

(* OnDataReceived(), the application's: nothing, an answer, or it hangs up.  *)
OnDataReceived(w) ==
    /\ At(w, "onData")
    /\ \/ Goto(w, "post")
       \/ Call(w, "close", "post")
       \/ accepted < MaxBytes /\ Call(w, "send", "post")
    /\ UNCHANGED <<connVars, state, ioLock, ioVars, sendVars, segment, notices>>

(* DrainOverflowIntoSendBufferLocked(): as many messages as fit, in order,   *)
(* go behind what is left in the ring; n are their bytes.                    *)
Moves(left, n) == Len(left) + n <= RingSize /\ (n > 0 => overflow[n].last)
Refill(left) ==
    \E n \in 0..Len(overflow) :
      /\ Moves(left, n) /\ \A m \in n + 1..Len(overflow) : ~ Moves(left, m)
      /\ ring' = left \o [i \in 1..n |-> overflow[i].byte]
      /\ overflow' = SubSeq(overflow, n + 1, Len(overflow))

Unsent(w) == SubSeq(ring, Len(segment[w]) + 1, Len(ring))

(* Mutant: whether to go on is decided before the overflow queue is drained. *)
OnSendCompletedEarly(w) ==
    /\ At(w, "sent") /\ state = "Active" /\ segment[w] # <<>>
    /\ Refill(Unsent(w))
    /\ isSending' = (Unsent(w) # <<>>)
    /\ IF isSending' THEN Goto(w, "flush") ELSE Return(w)
    /\ segment' = [segment EXCEPT ![w] = <<>>]
    /\ UNCHANGED <<connVars, state, ioLock, ioVars, accepted, wire, notices>>

(* OnSendCompleted(): the region under _sendLock.                            *)
OnSendCompleted(w) ==
    /\ At(w, "sent") /\ state = "Active" /\ segment[w] # <<>>
    /\ Refill(Unsent(w))
    /\ isSending' = (ring' # <<>> \/ overflow' # <<>>)
    /\ IF isSending' THEN Goto(w, "flush") ELSE Return(w)
    /\ segment' = [segment EXCEPT ![w] = <<>>]
    /\ UNCHANGED <<connVars, state, ioLock, ioVars, accepted, wire, notices>>

(* The session is closing, or nothing was sent.                              *)
OnSendFailed(w) ==
    /\ At(w, "sent") /\ (state # "Active" \/ segment[w] = <<>>)
    /\ IF state = "Active"
         THEN Goto(w, "close") /\ isSending' = FALSE
         ELSE Return(w) /\ UNCHANGED isSending
    /\ segment' = [segment EXCEPT ![w] = <<>>]
    /\ UNCHANGED <<connVars, state, ioLock, ioVars, ring, overflow, accepted, wire, notices>>

(* ObjectIoCountGuard: the decrement, and the hook if it reached zero.       *)
DispatchEnds(w) ==
    /\ At(w, "exit")
    /\ ioCount' = ioCount - 1
    /\ IF ioCount' = 0 THEN Goto(w, "reachedZero") ELSE Return(w)
    /\ UNCHANGED <<connVars, state, ioLock, receives, sends, sendVars, segment, notices>>

OnIoCountReachedZero(w) ==
    /\ At(w, "reachedZero")
    /\ IF state = "Closing" THEN Goto(w, "finalize") ELSE Return(w)
    /\ UNCHANGED <<connVars, state, ioLock, ioVars, sendVars, segment, notices>>

Dispatch(w) ==
    \/ OnReceiveCompleted(w) \/ OnDataReceived(w) \/ OnSendCompleted(w) \/ OnSendFailed(w)
    \/ DispatchEnds(w) \/ OnIoCountReachedZero(w)

-----------------------------------------------------------------------------
(* Nobody else has a server's session before OnConnected(); a client's is    *)
(* listed before it connects.                                                *)
UserCalls(u) ==
    /\ stack[u] = <<>>
    /\ \/ accepted < MaxBytes /\ state = "Active" /\ stack' = [stack EXCEPT ![u] = <<"send">>]
       \/ /\ state = "Active" \/ (state = "Created" /\ way = "connect" /\ ~canceled)
          /\ stack' = [stack EXCEPT ![u] = <<"close">>]
    /\ UNCHANGED <<connVars, state, ioLock, ioVars, sendVars, segment, notices>>

Runs(t) ==
    \/ Close(t) \/ Receive(t) \/ Flush(t)
    \/ t = Opener /\ OpenSession(t)
    \/ t \in Workers /\ Dispatch(t)

SessionNext ==
    \/ \E t \in Threads : Runs(t)
    \/ \E w \in Workers : TakeReceive(w) \/ TakeSend(w)
    \/ \E u \in Users : UserCalls(u)

GiveBack == state # "Active" /\ \E w \in Workers : TakeReceive(w) \/ TakeSend(w)

(* Threads run; after shutdown() the kernel gives every request back.        *)
SessionFairness ==
    /\ \A t \in Threads : WF_sessionVars(Runs(t))
    /\ WF_sessionVars(GiveBack)

SessionSpec == SessionInit /\ [][SessionNext]_sessionVars /\ SessionFairness

-----------------------------------------------------------------------------
SessionTypeOK ==
    /\ state \in {"Created", "Active", "Closing", "Closed"}
    /\ ioLock \in Threads \union {NoThread}
    /\ ioCount \in Nat /\ receives \in Nat
    /\ Len(ring) <= RingSize
    /\ accepted \in 0..MaxBytes + RingSize * Cardinality(Threads)
    /\ isSending \in BOOLEAN /\ canceled \in BOOLEAN

(* When the socket is closed and the application is told so, no request is   *)
(* outstanding and no completion of this session is being handled, so        *)
(* neither the registered send buffer nor the session is used after it.      *)
ClosedAfterLastCompletion ==
    /\ state = "Closed" => receives = 0 /\ sends = <<>> /\ ioCount = 0
    /\ state = "Closed" => \A w \in Workers : ~ \E p \in {"onData", "post", "submit", "exit"} : At(w, p)

(* "One receive in flight": OnDataReceived() never runs twice at a time.     *)
OneReceiveAtATime ==
    receives + Cardinality({t \in Threads : \E p \in {"gotData", "onData", "submit"} : At(t, p)}) <= 1

(* Bytes leave in the order of the Send() calls, none twice and none         *)
(* skipped, past overflow queue, wrap-around and partial completions.        *)
SentInOrder == wire = [i \in 1..Len(wire) |-> i]

(* An active session never sits on a message with nobody sending: whoever    *)
(* finds _isSending set may rely on it.                                      *)
NoStrandedSend ==
    state = "Active" /\ (ring # <<>> \/ overflow # <<>>)
      => sends # <<>> \/ \E t \in Threads : stack[t] # <<>>

(* A session that is told to close is closed, by Close(), by the hook of the *)
(* last completion, or by the connect that finds itself canceled; and the    *)
(* application is told once, whoever of them gets there.                     *)
CloseCompletes == [](state = "Closing" \/ canceled => <>[](notices = 1))

=============================================================================
