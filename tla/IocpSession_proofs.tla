------------------------ MODULE IocpSession_proofs --------------------------
(* Proofs about IocpSession, for any finite sets of threads, any messages,   *)
(* and any bounds of the send queue and the receive buffer.                  *)
EXTENDS IocpSession, CallStacks

-----------------------------------------------------------------------------
(* The inductive invariant: how many frames of the threads, and how many     *)
(* events posted to the system, have certain labels, and what that says of   *)
(* the session's variables.                                                  *)
Work(labels) == WorkOf(stack, posted, labels)
Only(label) == {label}
On(label) == Work(Only(label))

CountedWork == CountedFrames \union {"recv", "send"}
ConnectWork == {"ConnectEx", "ProcessConnect", "CountConnect", "EnterConnected", "connect"}
ConnectOwned == {"ConnectEx", "connect"}
RecvWork ==
    {"OnConnected", "RegisterRecv", "CountRecv", "WSARecv", "RecvFailed",
     "ProcessRecv", "RecvLoop", "OnRecv", "recv"}
RecvOwned == {"CountRecv", "WSARecv", "recv"}
SendWork == SendFrames \union {"send"}
SendOwned == {"SwapSendQueue", "CountSend", "WSASend", "send"}
UnsentFrames == {"CountSend", "WSASend", "SendFailed", "ClearSend"}
BufferWork == UnsentFrames \union {"SendDone", "SendError", "send"}
DisconnectWork == {"RecordReason", "DisconnectEx", "ProcessDisconnect", "disconnect"}
DisconnectOwned == {"DisconnectEx", "disconnect"}
EnqueueFrames == {"EnqueueSend", "EnqueueLocked"}
UserCallbacks == {"OnConnected", "OnRecv", "OnSend"}
NoticeFrames == {"Finalized", "FailClose"}
EndFrames == {"NotifyOnce", "FailNotify"} \union NoticeFrames

(* How much of each there is.  Owned is the part that must find the event's  *)
(* owner set.                                                                *)
Counted == Work(CountedWork)
Opening == Work(ConnectWork)
OpeningOwned == Work(ConnectOwned)
Receiving == Work(RecvWork)
ReceivingOwned == Work(RecvOwned)
Sending == Work(SendWork)
SendingOwned == Work(SendOwned)
Closes == Work(DisconnectWork)
ClosesOwned == Work(DisconnectOwned)
Enqueuing == Work(EnqueueFrames)
CallingBack == Work(UserCallbacks)
Noticing == Work(NoticeFrames)
Ending == Work(EndFrames)
Holding == Work(UnsentFrames)
Buffering == Work(BufferWork)
Failing == On("FailConnect")
Swapping == On("SwapSendQueue")
Dropping == On("DropSendQueue")
Leaving == On("Disconnect")

CountOK == pendingIoCount = Counted

(* One connect, receive, send and disconnect at most, and an event that is   *)
(* posted, or about to be, has its owner.                                    *)
OwnersOK ==
    /\ Opening <= 1 /\ Receiving <= 1 /\ Sending <= 1 /\ Closes <= 1
    /\ OpeningOwned > 0 => "connect" \in owners
    /\ ReceivingOwned > 0 => "recv" \in owners
    /\ SendingOwned > 0 => "send" \in owners
    /\ ClosesOwned > 0 => "disconnect" \in owners

(* What has not begun in a state of the session, and what is over.           *)
PhaseOK ==
    /\ state = "Created" =>
         /\ Receiving = 0 /\ Sending = 0 /\ Enqueuing = 0
         /\ ~sendRegistered /\ sendQueue = <<>> /\ sendBuffers = <<>>
         /\ accepted = <<>> /\ wire = <<>>
    /\ state \in {"Created", "Connected"} => Closes = 0 /\ ~disconnectCompleted
    /\ state \in {"Connected", "Disconnecting"} => Opening = 0 /\ opened
    /\ ~opened => Opening = 0
    /\ state = "Created" \/ ~opened \/ Opening > 0 => CallingBack = 0

(* A connect that fails is that of a session that never connected, unless    *)
(* the session was aborted.                                                  *)
FailOK ==
    ~aborted =>
      /\ state = "Created" => Opening + Failing <= (IF opened THEN 1 ELSE 0)
      /\ Failing > 0 => state \in {"Created", "Closed"} /\ CallingBack = 0

(* Who sets _disconnectNotified reports the end; by then all is over.        *)
NoticeOK ==
    /\ notices + Noticing = IF disconnectNotified THEN 1 ELSE 0
    /\ notices > 0 \/ Ending > 0 =>
         /\ state \in {"Disconnecting", "Closed"}
         /\ ~aborted => CallingBack = 0

(* _sendRegistered is set while somebody sends; after that it stays set only *)
(* on a session that is, or is about to be, closed.                          *)
SenderOK ==
    /\ ~sendRegistered => Sending = 0
    /\ Dropping > 0 =>
         sendRegistered /\ Sending = 0 /\ state \in {"Disconnecting", "Closed"}
    /\ IsConnected /\ sendRegistered /\ Sending = 0 => Leaving > 0
    /\ IsConnected /\ ~sendRegistered => sendQueue = <<>>
    /\ sendBuffers # <<>> => Buffering > 0

(* The send that failed is cleared after the session was told to close.      *)
Cleared(s) == \A i \in DOMAIN s : s[i] = "ClearSend" => i > 1 /\ s[i - 1] = "Disconnect"
ClearOK == IsConnected => \A t \in Threads : Cleared(stack[t])

(* Where a message that was accepted is.                                     *)
Taken == IF Holding = 0 THEN <<>> ELSE sendBuffers
OrderOK ==
    /\ IsPrefix(wire \o Taken, accepted)
    /\ IsConnected \/ Swapping > 0 => accepted = wire \o Taken \o sendQueue

Counting == CountOK /\ OwnersOK /\ PhaseOK /\ FailOK /\ NoticeOK /\ SenderOK
IInv == TypeOK /\ Counting /\ ClearOK /\ OrderOK

-----------------------------------------------------------------------------
(* The sizes of what is counted.                                             *)
Sizes ==
    /\ Counted \in Nat /\ Opening \in Nat /\ OpeningOwned \in Nat /\ Receiving \in Nat
    /\ ReceivingOwned \in Nat /\ Sending \in Nat /\ SendingOwned \in Nat /\ Closes \in Nat
    /\ ClosesOwned \in Nat /\ Enqueuing \in Nat /\ CallingBack \in Nat /\ Noticing \in Nat
    /\ Ending \in Nat /\ Holding \in Nat /\ Buffering \in Nat /\ Failing \in Nat
    /\ Swapping \in Nat /\ Dropping \in Nat /\ Leaving \in Nat
    /\ CallingBack <= Counted /\ ReceivingOwned <= Receiving /\ Swapping <= SendingOwned
    /\ SendingOwned <= Sending /\ Holding <= Buffering /\ Swapping + Buffering <= Sending
    /\ OpeningOwned <= Opening /\ ClosesOwned <= Closes /\ Noticing <= Ending

LEMMA ThreadsFinite == IsFiniteSet(Threads)
  BY UsersAssumption, FS_Union DEF Threads

LEMMA EventsFinite == \A E \in SUBSET Events : IsFiniteSet(E)
<1>1. IsFiniteSet(Events)
  <2>1. IsFiniteSet({"connect", "recv"}) /\ IsFiniteSet({"send", "disconnect"})
    <3>1. /\ {"connect", "recv"} = {"connect"} \union {"recv"}
          /\ {"send", "disconnect"} = {"send"} \union {"disconnect"}
      OBVIOUS
    <3>2. \A e : IsFiniteSet({e})
      BY FS_Singleton
    <3>3. IsFiniteSet({"connect"} \union {"recv"}) /\ IsFiniteSet({"send"} \union {"disconnect"})
      BY ONLY <3>2, FS_Union
    <3>. QED BY ONLY <3>1, <3>3
  <2>2. Events = {"connect", "recv"} \union {"send", "disconnect"}
    BY DEF Events
  <2>. QED BY <2>1, <2>2, FS_Union
<1>. QED BY <1>1, FS_Subset

(* What every state has: the inequalities hold because the sets of labels    *)
(* lie in each other.                                                        *)
Nesting(stk, events) ==
    /\ \A L : WorkOf(stk, events, L) \in Nat
    /\ WorkOf(stk, events, UserCallbacks) <= WorkOf(stk, events, CountedWork)
    /\ WorkOf(stk, events, RecvOwned) <= WorkOf(stk, events, RecvWork)
    /\ WorkOf(stk, events, Only("SwapSendQueue")) <= WorkOf(stk, events, SendOwned)
    /\ WorkOf(stk, events, SendOwned) <= WorkOf(stk, events, SendWork)
    /\ WorkOf(stk, events, UnsentFrames) <= WorkOf(stk, events, BufferWork)
    /\ WorkOf(stk, events, Only("SwapSendQueue")) + WorkOf(stk, events, BufferWork)
       <= WorkOf(stk, events, SendWork)
    /\ WorkOf(stk, events, ConnectOwned) <= WorkOf(stk, events, ConnectWork)
    /\ WorkOf(stk, events, DisconnectOwned) <= WorkOf(stk, events, DisconnectWork)
    /\ WorkOf(stk, events, NoticeFrames) <= WorkOf(stk, events, EndFrames)

LEMMA Nested ==
  ASSUME NEW stk \in Stacks(Threads, Labels), NEW events \in SUBSET Events
  PROVE  Nesting(stk, events)
<1>1. \A L, M : L \subseteq M => WorkOf(stk, events, L) <= WorkOf(stk, events, M)
  BY WorkMonotone, ThreadsFinite, EventsFinite
<1>2. /\ UserCallbacks \subseteq CountedWork /\ RecvOwned \subseteq RecvWork
      /\ Only("SwapSendQueue") \subseteq SendOwned /\ SendOwned \subseteq SendWork
      /\ UnsentFrames \subseteq BufferWork
      /\ ConnectOwned \subseteq ConnectWork /\ DisconnectOwned \subseteq DisconnectWork
      /\ NoticeFrames \subseteq EndFrames
  BY DEF UserCallbacks, CountedWork, CountedFrames, RecvOwned, RecvWork, Only, SendOwned,
         SendWork, SendFrames, UnsentFrames, BufferWork, ConnectOwned, ConnectWork,
         DisconnectOwned, DisconnectWork, NoticeFrames, EndFrames
<1>3. /\ Only("SwapSendQueue") \union BufferWork \subseteq SendWork
      /\ Only("SwapSendQueue") \intersect BufferWork = {}
  BY DEF Only, BufferWork, UnsentFrames, SendWork, SendFrames
<1>4. WorkOf(stk, events, Only("SwapSendQueue") \union BufferWork)
      = WorkOf(stk, events, Only("SwapSendQueue")) + WorkOf(stk, events, BufferWork)
  BY SMTT(20), <1>3, WorkUnion, ThreadsFinite, EventsFinite
<1>5. WorkOf(stk, events, Only("SwapSendQueue") \union BufferWork) <= WorkOf(stk, events, SendWork)
  BY <1>1, <1>3
<1>6. \A L : WorkOf(stk, events, L) \in Nat
  BY WorkType, ThreadsFinite, EventsFinite
<1>. QED BY <1>1, <1>2, <1>4, <1>5, <1>6 DEF Nesting

LEMMA StackType == TypeOK <=> TypeOK /\ stack \in Stacks(Threads, Labels)
  BY DEF TypeOK, Stacks

LEMMA SizesOK == TypeOK => Sizes
<1> SUFFICES ASSUME TypeOK PROVE Sizes
  OBVIOUS
<1>1. Nesting(stack, posted)
  BY StackType, Nested DEF TypeOK
<1>. QED BY <1>1 DEF Nesting, Sizes, Work, On, Counted, Opening, OpeningOwned, Receiving,
            ReceivingOwned, Sending, SendingOwned, Closes, ClosesOwned, Enqueuing, CallingBack,
            Noticing, Ending, Holding, Buffering, Failing, Swapping, Dropping, Leaving

LEMMA SizesNext ==
  ASSUME stack' \in [Threads -> Seq(Labels)], posted' \in SUBSET Events
  PROVE  Sizes'
<1>1. Nesting(stack', posted')
  BY Nested DEF Stacks
<1>. QED BY <1>1 DEF Nesting, Sizes, Work, On, Counted, Opening, OpeningOwned, Receiving,
            ReceivingOwned, Sending, SendingOwned, Closes, ClosesOwned, Enqueuing, CallingBack,
            Noticing, Ending, Holding, Buffering, Failing, Swapping, Dropping, Leaving

-----------------------------------------------------------------------------
(* What a step does to the counts: a frame or an event with a label is gone, *)
(* others are new.                                                           *)
Gone(a) == \A L : Work(L)' = Work(L) - Hits(a, L)
New(a) == \A L : Work(L)' = Work(L) + Hits(a, L)
Turned(a, b) == \A L : Work(L)' = Work(L) - Hits(a, L) + Hits(b, L)
Called(a, b, c) == \A L : Work(L)' = Work(L) - Hits(a, L) + Hits(b, L) + Hits(c, L)

LEMMA EventCount ==
  ASSUME TypeOK
  PROVE  \A L : CountOf(stack, L) \in Nat /\ Cardinality(posted \intersect L) \in Nat
<1>1. stack \in Stacks(Threads, Labels) /\ IsFiniteSet(posted)
  BY StackType, EventsFinite DEF TypeOK
<1>. QED BY <1>1, CountType, EventsType, ThreadsFinite

LEMMA HitsType == \A a, L : Hits(a, L) \in 0..1
  BY DEF Hits

LEMMA WorkIs == \A L : /\ Work(L) = CountOf(stack, L) + Cardinality(posted \intersect L)
                      /\ Work(L)' = CountOf(stack', L) + Cardinality(posted' \intersect L)
  BY DEF Work, WorkOf

LEMMA Returns ==
  ASSUME TypeOK, NEW t \in Threads, stack[t] # <<>>, Return(t)
  PROVE  /\ stack' \in [Threads -> Seq(Labels)]
         /\ UNCHANGED posted => Gone(Head(stack[t]))
         /\ \A e \in Events \ posted : posted' = posted \union {e} => Turned(Head(stack[t]), e)
<1>1. stack' = Popped(stack, t) /\ stack \in Stacks(Threads, Labels)
  BY DEF Return, Goto, Popped, Stacks, TypeOK
<1>2. /\ stack' \in Stacks(Threads, Labels)
      /\ \A L : CountOf(stack', L) = CountOf(stack, L) - Hits(Head(stack[t]), L)
  BY <1>1, PopCount, ThreadsFinite
<1>3. \A e \in Events \ posted : \A L :
        Cardinality((posted \union {e}) \intersect L) = Cardinality(posted \intersect L) + Hits(e, L)
  BY PostEvent, EventsFinite DEF TypeOK
<1>4. ASSUME UNCHANGED posted, NEW L PROVE Work(L)' = Work(L) - Hits(Head(stack[t]), L)
  <2>1. Work(L)' = CountOf(stack', L) + Cardinality(posted \intersect L)
    BY <1>4, WorkIs
  <2>. QED BY <2>1, <1>2, EventCount, HitsType, WorkIs
<1>5. ASSUME NEW e \in Events \ posted, posted' = posted \union {e}, NEW L
      PROVE  Work(L)' = Work(L) - Hits(Head(stack[t]), L) + Hits(e, L)
  <2>1. Work(L)' = CountOf(stack', L) + (Cardinality(posted \intersect L) + Hits(e, L))
    BY <1>3, <1>5, WorkIs
  <2>. QED BY <2>1, <1>2, EventCount, HitsType, WorkIs
<1>. QED BY <1>2, <1>4, <1>5 DEF Gone, Turned, Stacks

LEMMA GoesOn ==
  ASSUME TypeOK, NEW t \in Threads, stack[t] # <<>>, NEW a \in Labels, Goto(t, <<a>>)
  PROVE  /\ stack' \in [Threads -> Seq(Labels)]
         /\ UNCHANGED posted => Turned(Head(stack[t]), a)
<1>1. stack' = Pushed(Popped(stack, t), t, a) /\ stack \in Stacks(Threads, Labels)
  BY DEF Goto, Popped, Pushed, Stacks, TypeOK
<1>2. /\ stack' \in Stacks(Threads, Labels)
      /\ \A L : CountOf(stack', L) = CountOf(stack, L) - Hits(Head(stack[t]), L) + Hits(a, L)
  BY <1>1, ReplaceCount, ThreadsFinite
<1>3. ASSUME UNCHANGED posted, NEW L PROVE Work(L)' = Work(L) - Hits(Head(stack[t]), L) + Hits(a, L)
  <2>1. Work(L)' = CountOf(stack', L) + Cardinality(posted \intersect L)
    BY <1>3, WorkIs
  <2>. QED BY <2>1, <1>2, EventCount, HitsType, WorkIs
<1>. QED BY <1>2, <1>3 DEF Turned, Stacks

LEMMA Calls ==
  ASSUME TypeOK, NEW t \in Threads, stack[t] # <<>>,
         NEW a \in Labels, NEW b \in Labels, Goto(t, <<a, b>>)
  PROVE  /\ stack' \in [Threads -> Seq(Labels)]
         /\ UNCHANGED posted => Called(Head(stack[t]), a, b)
<1>1. stack' = Pushed(Pushed(Popped(stack, t), t, b), t, a) /\ stack \in Stacks(Threads, Labels)
  BY DEF Goto, Popped, Pushed, Stacks, TypeOK
<1>2. /\ stack' \in Stacks(Threads, Labels)
      /\ \A L : CountOf(stack', L)
                 = CountOf(stack, L) - Hits(Head(stack[t]), L) + Hits(b, L) + Hits(a, L)
  BY <1>1, CallCount, ThreadsFinite
<1>3. ASSUME UNCHANGED posted, NEW L
      PROVE  Work(L)' = Work(L) - Hits(Head(stack[t]), L) + Hits(a, L) + Hits(b, L)
  <2>1. Work(L)' = CountOf(stack', L) + Cardinality(posted \intersect L)
    BY <1>3, WorkIs
  <2>. QED BY <2>1, <1>2, EventCount, HitsType, WorkIs
<1>. QED BY <1>2, <1>3 DEF Called, Stacks

LEMMA Enters ==
  ASSUME TypeOK, NEW t \in Threads, NEW a \in Labels, CallFrom(t, a)
  PROVE  /\ stack' \in [Threads -> Seq(Labels)]
         /\ UNCHANGED posted => New(a)
         /\ \A e \in posted : posted' = posted \ {e} => Turned(e, a)
<1>1. stack' = Pushed(stack, t, a) /\ stack \in Stacks(Threads, Labels)
  BY DEF CallFrom, Pushed, TypeOK, Stacks
<1>2. /\ stack' \in Stacks(Threads, Labels)
      /\ \A L : CountOf(stack', L) = CountOf(stack, L) + Hits(a, L)
  BY <1>1, PushCount, ThreadsFinite
<1>3. \A e \in posted : \A L :
        Cardinality((posted \ {e}) \intersect L) = Cardinality(posted \intersect L) - Hits(e, L)
  BY TakeEvent, EventsFinite DEF TypeOK
<1>4. ASSUME UNCHANGED posted, NEW L PROVE Work(L)' = Work(L) + Hits(a, L)
  <2>1. Work(L)' = CountOf(stack', L) + Cardinality(posted \intersect L)
    BY <1>4, WorkIs
  <2>. QED BY <2>1, <1>2, EventCount, HitsType, WorkIs
<1>5. ASSUME NEW e \in posted, posted' = posted \ {e}, NEW L
      PROVE  Work(L)' = Work(L) - Hits(e, L) + Hits(a, L)
  <2>1. Work(L)' = CountOf(stack', L) + (Cardinality(posted \intersect L) - Hits(e, L))
    BY <1>3, <1>5, WorkIs
  <2>. QED BY <2>1, <1>2, EventCount, HitsType, WorkIs
<1>. QED BY <1>2, <1>4, <1>5 DEF New, Turned, Stacks

(* The same for each of the counts; None stands for no label.                *)
None == "none"

Tally(a, b, c) ==
    /\ Counted' = Counted - Hits(a, CountedWork) + Hits(b, CountedWork) + Hits(c, CountedWork)
    /\ Opening' = Opening - Hits(a, ConnectWork) + Hits(b, ConnectWork) + Hits(c, ConnectWork)
    /\ OpeningOwned' = OpeningOwned - Hits(a, ConnectOwned) + Hits(b, ConnectOwned) + Hits(c, ConnectOwned)
    /\ Receiving' = Receiving - Hits(a, RecvWork) + Hits(b, RecvWork) + Hits(c, RecvWork)
    /\ ReceivingOwned' = ReceivingOwned - Hits(a, RecvOwned) + Hits(b, RecvOwned) + Hits(c, RecvOwned)
    /\ Sending' = Sending - Hits(a, SendWork) + Hits(b, SendWork) + Hits(c, SendWork)
    /\ SendingOwned' = SendingOwned - Hits(a, SendOwned) + Hits(b, SendOwned) + Hits(c, SendOwned)
    /\ Closes' = Closes - Hits(a, DisconnectWork) + Hits(b, DisconnectWork) + Hits(c, DisconnectWork)
    /\ ClosesOwned' = ClosesOwned - Hits(a, DisconnectOwned) + Hits(b, DisconnectOwned) + Hits(c, DisconnectOwned)
    /\ Enqueuing' = Enqueuing - Hits(a, EnqueueFrames) + Hits(b, EnqueueFrames) + Hits(c, EnqueueFrames)
    /\ CallingBack' = CallingBack - Hits(a, UserCallbacks) + Hits(b, UserCallbacks) + Hits(c, UserCallbacks)
    /\ Noticing' = Noticing - Hits(a, NoticeFrames) + Hits(b, NoticeFrames) + Hits(c, NoticeFrames)
    /\ Ending' = Ending - Hits(a, EndFrames) + Hits(b, EndFrames) + Hits(c, EndFrames)
    /\ Holding' = Holding - Hits(a, UnsentFrames) + Hits(b, UnsentFrames) + Hits(c, UnsentFrames)
    /\ Buffering' = Buffering - Hits(a, BufferWork) + Hits(b, BufferWork) + Hits(c, BufferWork)
    /\ Failing' = Failing - Hits(a, Only("FailConnect")) + Hits(b, Only("FailConnect")) + Hits(c, Only("FailConnect"))
    /\ Swapping' = Swapping - Hits(a, Only("SwapSendQueue")) + Hits(b, Only("SwapSendQueue")) + Hits(c, Only("SwapSendQueue"))
    /\ Dropping' = Dropping - Hits(a, Only("DropSendQueue")) + Hits(b, Only("DropSendQueue")) + Hits(c, Only("DropSendQueue"))
    /\ Leaving' = Leaving - Hits(a, Only("Disconnect")) + Hits(b, Only("Disconnect")) + Hits(c, Only("Disconnect"))

LEMMA Tallied ==
  ASSUME Sizes
  PROVE  /\ \A a : Gone(a) => Tally(a, None, None)
         /\ \A a : New(a) => Tally(None, a, None)
         /\ \A a, b : Turned(a, b) => Tally(a, b, None)
         /\ \A a, b, c : Called(a, b, c) => Tally(a, b, c)
<1>0. /\ Hits(None, CountedWork) = 0
      /\ Hits(None, ConnectWork) = 0
      /\ Hits(None, ConnectOwned) = 0
      /\ Hits(None, RecvWork) = 0
      /\ Hits(None, RecvOwned) = 0
      /\ Hits(None, SendWork) = 0
      /\ Hits(None, SendOwned) = 0
      /\ Hits(None, DisconnectWork) = 0
      /\ Hits(None, DisconnectOwned) = 0
      /\ Hits(None, EnqueueFrames) = 0
      /\ Hits(None, UserCallbacks) = 0
      /\ Hits(None, NoticeFrames) = 0
      /\ Hits(None, EndFrames) = 0
      /\ Hits(None, UnsentFrames) = 0
      /\ Hits(None, BufferWork) = 0
      /\ Hits(None, Only("FailConnect")) = 0
      /\ Hits(None, Only("SwapSendQueue")) = 0
      /\ Hits(None, Only("DropSendQueue")) = 0
      /\ Hits(None, Only("Disconnect")) = 0
  BY DEF None, Hits, Only, CountedWork, CountedFrames, ConnectWork, ConnectOwned, RecvWork, RecvOwned,
         SendWork, SendFrames, SendOwned, DisconnectWork, DisconnectOwned, EnqueueFrames,
         UserCallbacks, NoticeFrames, EndFrames, UnsentFrames, BufferWork
<1>1. ASSUME NEW a, Gone(a) PROVE Tally(a, None, None)
  BY <1>0, <1>1, HitsType DEF Sizes, Tally, Gone, Counted, Opening, OpeningOwned, Receiving, ReceivingOwned, Sending, SendingOwned,
         Closes, ClosesOwned, Enqueuing, CallingBack, Noticing, Ending, Holding,
         Buffering, Failing, Swapping, Dropping, Leaving, On
<1>2. ASSUME NEW a, New(a) PROVE Tally(None, a, None)
  BY <1>0, <1>2, HitsType DEF Sizes, Tally, New, Counted, Opening, OpeningOwned, Receiving, ReceivingOwned, Sending, SendingOwned,
         Closes, ClosesOwned, Enqueuing, CallingBack, Noticing, Ending, Holding,
         Buffering, Failing, Swapping, Dropping, Leaving, On
<1>3. ASSUME NEW a, NEW b, Turned(a, b) PROVE Tally(a, b, None)
  BY <1>0, <1>3, HitsType DEF Sizes, Tally, Turned, Counted, Opening, OpeningOwned, Receiving, ReceivingOwned, Sending, SendingOwned,
         Closes, ClosesOwned, Enqueuing, CallingBack, Noticing, Ending, Holding,
         Buffering, Failing, Swapping, Dropping, Leaving, On
<1>4. ASSUME NEW a, NEW b, NEW c, Called(a, b, c) PROVE Tally(a, b, c)
  BY <1>0, <1>4, HitsType DEF Sizes, Tally, Called, Counted, Opening, OpeningOwned, Receiving, ReceivingOwned, Sending, SendingOwned,
         Closes, ClosesOwned, Enqueuing, CallingBack, Noticing, Ending, Holding,
         Buffering, Failing, Swapping, Dropping, Leaving, On
<1>. QED BY <1>1, <1>2, <1>3, <1>4

LEMMA DisconnectCalls ==
  ASSUME TypeOK, NEW t \in Threads, stack[t] # <<>>,
         NEW cause, NEW b \in Labels, DisconnectThen(t, cause, <<b>>)
  PROVE  /\ stack' \in [Threads -> Seq(Labels)]
         /\ UNCHANGED posted => Called(Head(stack[t]), "Disconnect", b)
<1>1. stack \in Stacks(Threads, Labels) /\ "Disconnect" \in Labels
  BY DEF Stacks, TypeOK, Labels
<1>2. stack' = Pushed(Pushed(Popped(stack, t), t, b), t, "Disconnect")
  <2>1. \A s \in Seq(Labels) : (<<"Disconnect">> \o <<b>>) \o s = <<"Disconnect">> \o (<<b>> \o s)
    BY <1>1
  <2>2. Tail(stack[t]) \in Seq(Labels)
    BY <1>1 DEF Stacks
  <2>3. stack' = [stack EXCEPT ![t] = (<<"Disconnect">> \o <<b>>) \o Tail(stack[t])]
    BY <1>1 DEF DisconnectThen, Goto, Stacks
  <2>. QED BY <1>1, <2>1, <2>2, <2>3 DEF Popped, Pushed, Stacks
<1>3. /\ stack' \in Stacks(Threads, Labels)
      /\ \A L : CountOf(stack', L)
                 = CountOf(stack, L) - Hits(Head(stack[t]), L) + Hits(b, L) + Hits("Disconnect", L)
  BY <1>1, <1>2, CallCount, ThreadsFinite
<1>4. ASSUME UNCHANGED posted, NEW L
      PROVE  Work(L)' = Work(L) - Hits(Head(stack[t]), L) + Hits("Disconnect", L) + Hits(b, L)
  <2>1. Work(L)' = CountOf(stack', L) + Cardinality(posted \intersect L)
    BY <1>4, WorkIs
  <2>. QED BY <2>1, <1>3, EventCount, HitsType, WorkIs
<1>. QED BY <1>3, <1>4 DEF Called, Stacks

(* A thread that is at a label counts for it; with an event posted under the *)
(* same name, they are two.                                                  *)
LEMMA AtWork ==
  ASSUME TypeOK, NEW t \in Threads, NEW label, At(t, label)
  PROVE  \A L : label \in L => Work(L) > 0
<1>1. stack \in Stacks(Threads, Labels) /\ IsFiniteSet(posted)
  BY StackType, EventsFinite DEF TypeOK
<1>. QED BY <1>1, WorkAtLeastTop, ThreadsFinite DEF At, Work

LEMMA TopAndEvent ==
  ASSUME TypeOK, NEW t \in Threads, stack[t] # <<>>, NEW L, Head(stack[t]) \in L,
         NEW e \in posted, e \in L
  PROVE  Work(L) > 1
<1>1. stack \in Stacks(Threads, Labels) /\ IsFiniteSet(posted)
  BY StackType, EventsFinite DEF TypeOK
<1>2. CountOf(stack, L) \in Nat /\ CountOf(stack, L) >= 1
  BY <1>1, CountAtLeastTop, ThreadsFinite DEF Hits
<1>3. Cardinality(posted \intersect L) \in Nat /\ Cardinality(posted \intersect L) # 0
  <2>1. IsFiniteSet(posted \intersect L) /\ Cardinality(posted \intersect L) \in Nat
    BY <1>1, EventsType
  <2>2. posted \intersect L # {}
    OBVIOUS
  <2>. QED BY ONLY <2>1, <2>2, FS_EmptySet
<1>. QED BY <1>2, <1>3, WorkIs


LEMMA PostedWork ==
  ASSUME TypeOK, NEW e \in posted
  PROVE  \A L : e \in L => Work(L) > 0
<1>1. stack \in Stacks(Threads, Labels) /\ IsFiniteSet(posted)
  BY StackType, EventsFinite DEF TypeOK
<1>. QED BY <1>1, EventAtLeast, ThreadsFinite DEF Work

-----------------------------------------------------------------------------
(* The shape of the stacks is kept by returns and calls.                     *)
LEMMA ClearedTail ==
  ASSUME NEW L, NEW s \in Seq(L), s # <<>>, Cleared(s), Head(s) # "Disconnect"
  PROVE  Cleared(Tail(s)) /\ Tail(s) \in Seq(L)
  BY DEF Cleared

LEMMA ClearedPush ==
  ASSUME NEW L, NEW s \in Seq(L), Cleared(s), NEW a \in L, a # "ClearSend"
  PROVE  Cleared(<<a>> \o s) /\ <<a>> \o s \in Seq(L)
  BY DEF Cleared

LEMMA ClearedCall ==
  ASSUME NEW L, NEW s \in Seq(L), Cleared(s), NEW b \in L, NEW a \in L, a = "Disconnect"
  PROVE  Cleared(<<a>> \o (<<b>> \o s))
<1> DEFINE r == <<a>> \o (<<b>> \o s)
<1>1. <<b>> \o s \in Seq(L) /\ Len(<<b>> \o s) = Len(s) + 1
      /\ \A i \in 1..Len(s) : (<<b>> \o s)[i + 1] = s[i]
  OBVIOUS
<1>2. /\ DOMAIN r = 1..(Len(s) + 2) /\ r[1] = a
      /\ \A i \in 1..(Len(s) + 1) : r[i + 1] = (<<b>> \o s)[i]
  BY <1>1
<1>3. Len(s) \in Nat /\ DOMAIN s = 1..Len(s) /\ \A i \in 1..Len(s) : r[i + 2] = s[i]
  <2>1. \A i \in 1..Len(s) : r[(i + 1) + 1] = (<<b>> \o s)[i + 1]
    BY <1>2
  <2>2. \A i \in 1..Len(s) : (i + 1) + 1 = i + 2
    OBVIOUS
  <2>. QED BY <1>1, <2>1, <2>2
<1>. HIDE DEF r
<1>4. ASSUME NEW i \in DOMAIN r, r[i] = "ClearSend"
      PROVE  i > 1 /\ r[i - 1] = "Disconnect"
  <2>1. i # 1
    BY <1>2, <1>4
  <2>2. CASE i = 2
    BY <1>2, <2>2
  <2>3. CASE i > 2
    <3>1. i - 2 \in 1..Len(s) /\ (i - 2) + 2 = i
      BY <1>2, <1>3, <2>3
    <3>2. s[i - 2] = "ClearSend"
      BY <1>3, <1>4, <3>1
    <3>3. i - 2 > 1 /\ s[(i - 2) - 1] = "Disconnect"
      BY <1>3, <3>1, <3>2 DEF Cleared
    <3>4. (i - 2) - 1 \in 1..Len(s) /\ ((i - 2) - 1) + 2 = i - 1
      BY <1>3, <3>1, <3>3
    <3>5. r[i - 1] = s[(i - 2) - 1]
      BY <1>3, <3>4
    <3>. QED BY <3>3, <3>5, <2>3
  <2>. QED BY <1>2, <1>3, <2>1, <2>2, <2>3
<1>. QED BY <1>4 DEF Cleared, r

LEMMA ClearReturns ==
  ASSUME TypeOK, ClearOK, NEW t \in Threads, stack[t] # <<>>, Head(stack[t]) # "Disconnect",
         Return(t), IsConnected' => IsConnected
  PROVE  ClearOK'
<1> SUFFICES ASSUME IsConnected', NEW u \in Threads PROVE Cleared(stack'[u])
  BY DEF ClearOK
<1>1. stack[u] \in Seq(Labels) /\ stack[t] \in Seq(Labels) /\ Cleared(stack[u]) /\ Cleared(stack[t])
  BY DEF TypeOK, ClearOK
<1>2. stack'[u] = IF u = t THEN Tail(stack[t]) ELSE stack[u]
  BY DEF TypeOK, Return, Goto
<1>. QED BY <1>1, <1>2, ClearedTail

LEMMA ClearGoesOn ==
  ASSUME TypeOK, ClearOK, NEW t \in Threads, stack[t] # <<>>, Head(stack[t]) # "Disconnect",
         NEW a \in Labels, a # "ClearSend", Goto(t, <<a>>), IsConnected' => IsConnected
  PROVE  ClearOK'
<1> SUFFICES ASSUME IsConnected', NEW u \in Threads PROVE Cleared(stack'[u])
  BY DEF ClearOK
<1>1. stack[u] \in Seq(Labels) /\ stack[t] \in Seq(Labels) /\ Cleared(stack[u]) /\ Cleared(stack[t])
  BY DEF TypeOK, ClearOK
<1>2. stack'[u] = IF u = t THEN <<a>> \o Tail(stack[t]) ELSE stack[u]
  BY DEF TypeOK, Goto
<1>. QED BY <1>1, <1>2, ClearedTail, ClearedPush

LEMMA ClearCalls ==
  ASSUME TypeOK, ClearOK, NEW t \in Threads, stack[t] # <<>>, Head(stack[t]) # "Disconnect",
         NEW a \in Labels, NEW b \in Labels, a # "ClearSend", b # "ClearSend",
         Goto(t, <<a, b>>), IsConnected' => IsConnected
  PROVE  ClearOK'
<1> SUFFICES ASSUME IsConnected', NEW u \in Threads PROVE Cleared(stack'[u])
  BY DEF ClearOK
<1>1. stack[u] \in Seq(Labels) /\ stack[t] \in Seq(Labels) /\ Cleared(stack[u]) /\ Cleared(stack[t])
  BY DEF TypeOK, ClearOK
<1>2. Cleared(Tail(stack[t])) /\ Tail(stack[t]) \in Seq(Labels)
  BY <1>1, ClearedTail
<1>3. stack'[u] = IF u = t THEN <<a>> \o (<<b>> \o Tail(stack[t])) ELSE stack[u]
  <2>1. stack' = Pushed(Pushed(Popped(stack, t), t, b), t, a)
    BY DEF Goto, Popped, Pushed, Stacks, TypeOK
  <2>. QED BY <2>1 DEF Popped, Pushed, TypeOK
<1>. QED BY <1>1, <1>2, <1>3, ClearedPush

LEMMA ClearDisconnects ==
  ASSUME TypeOK, ClearOK, NEW t \in Threads, stack[t] # <<>>, Head(stack[t]) # "Disconnect",
         NEW cause, NEW b \in Labels, DisconnectThen(t, cause, <<b>>), IsConnected' => IsConnected
  PROVE  ClearOK'
<1> SUFFICES ASSUME IsConnected', NEW u \in Threads PROVE Cleared(stack'[u])
  BY DEF ClearOK
<1>1. stack[u] \in Seq(Labels) /\ stack[t] \in Seq(Labels) /\ Cleared(stack[u]) /\ Cleared(stack[t])
  BY DEF TypeOK, ClearOK
<1>2. Cleared(Tail(stack[t])) /\ Tail(stack[t]) \in Seq(Labels) /\ "Disconnect" \in Labels
  BY <1>1, ClearedTail DEF Labels
<1>3. stack'[u] = IF u = t THEN <<"Disconnect">> \o (<<b>> \o Tail(stack[t])) ELSE stack[u]
  <2>1. (<<"Disconnect">> \o <<b>>) \o Tail(stack[t]) = <<"Disconnect">> \o (<<b>> \o Tail(stack[t]))
    BY <1>2
  <2>. QED BY <2>1 DEF TypeOK, DisconnectThen, Goto
<1>. QED BY <1>1, <1>2, <1>3, ClearedCall

LEMMA ClearEnters ==
  ASSUME TypeOK, ClearOK, NEW t \in Threads,
         NEW a \in Labels, a # "ClearSend", CallFrom(t, a), IsConnected' => IsConnected
  PROVE  ClearOK'
<1> SUFFICES ASSUME IsConnected', NEW u \in Threads PROVE Cleared(stack'[u])
  BY DEF ClearOK
<1>1. stack[u] \in Seq(Labels) /\ stack[t] \in Seq(Labels) /\ Cleared(stack[u]) /\ Cleared(stack[t])
  BY DEF TypeOK, ClearOK
<1>2. stack'[u] = IF u = t THEN <<a>> \o stack[t] ELSE stack[u]
  BY DEF TypeOK, CallFrom
<1>. QED BY <1>1, <1>2, ClearedPush

(* Nobody clears a send while nobody sends.                                  *)
LEMMA NobodyClears ==
  ASSUME TypeOK, Sending = 0
  PROVE  \A t \in Threads : Cleared(stack[t])
<1>1. stack \in Stacks(Threads, Labels) /\ IsFiniteSet(posted) /\ "ClearSend" \in SendWork
  BY StackType, EventsFinite DEF TypeOK, SendWork, SendFrames
<1>2. WorkOf(stack, posted, SendWork) = 0
  BY DEF Sending, Work
<1>3. \A t \in Threads : \A i \in DOMAIN stack[t] : stack[t][i] \notin SendWork
  BY <1>1, <1>2, WorkNone, ThreadsFinite
<1>. QED BY <1>1, <1>3 DEF Cleared

-----------------------------------------------------------------------------
(* Every step of every thread keeps the invariant.                           *)
LEMMA StepOK ==
  ASSUME IInv, Next
  PROVE  IInv'
<1>. USE DEF None, Only, On, CountedWork, CountedFrames, ConnectWork, ConnectOwned, RecvWork,
         RecvOwned, SendWork, SendFrames, SendOwned, DisconnectWork, DisconnectOwned,
         EnqueueFrames, UserCallbacks, NoticeFrames, EndFrames, UnsentFrames, BufferWork,
         closing, why, sending, io, arguments, history, IsConnected
<1>t. PICK t \in Threads :
        \/ Progress(t)
        \/ ConnectAsync(t) \/ Accept(t)
        \/ CallSend(t) \/ CallDisconnect(t) \/ Abort(t)
        \/ \E event \in Events : Complete(t, event)
  BY DEF Next
<1>0. /\ t \in Threads /\ TypeOK /\ Counting /\ ClearOK /\ OrderOK /\ Sizes /\ notices \in Nat
      /\ state \in {"Created", "Connected", "Disconnecting", "Closed"}
  BY SizesOK DEF IInv, TypeOK
<1>1. CASE Disconnect(t)
  <2>1. CASE state = "Connected"
    <3>1. stack' \in [Threads -> Seq(Labels)] /\ Turned("Disconnect", "RecordReason")
      BY <1>0, <1>1, <2>1, GoesOn DEF Disconnect, At, Labels, Callbacks
    <3>2. Tally("Disconnect", "RecordReason", None)
      BY <1>0, <3>1, Tallied
    <3>3. /\ UNCHANGED <<Counted, Opening, OpeningOwned, Receiving, ReceivingOwned, Sending,
                          SendingOwned, ClosesOwned, Enqueuing, CallingBack, Noticing, Ending,
                          Holding, Buffering, Failing, Swapping, Dropping>>
          /\ Closes' = Closes + 1
          /\ Leaving' = Leaving - 1
      BY <1>0, <3>2 DEF Sizes, Tally, Hits
    <3>4. Sizes'
      BY <1>0, <1>1, <2>1, <3>1, SizesNext DEF Disconnect, TypeOK, Events
    <3>5. TypeOK'
      BY <1>0, <1>1, <2>1, <3>1, <3>3, <3>4, BoundsAssumption DEF Disconnect, TypeOK
    <3>6. Counting'
      BY <1>0, <1>1, <2>1, <3>3, <3>4
      DEF Disconnect, Sizes, Counting, CountOK, OwnersOK, PhaseOK, FailOK, NoticeOK,
          SenderOK
    <3>7. ClearOK'
      BY <1>0, <1>1, <2>1 DEF Disconnect, ClearOK
    <3>8. OrderOK'
      BY <1>0, <1>1, <2>1, <3>3 DEF Disconnect, OrderOK, Taken
    <3>. QED BY <3>5, <3>6, <3>7, <3>8 DEF IInv
  <2>2. CASE state = "Created"
    <3>1. stack' \in [Threads -> Seq(Labels)] /\ Turned("Disconnect", "FailConnect")
      BY <1>0, <1>1, <2>2, GoesOn DEF Disconnect, At, Labels, Callbacks
    <3>2. Tally("Disconnect", "FailConnect", None)
      BY <1>0, <3>1, Tallied
    <3>3. /\ UNCHANGED <<Counted, Opening, OpeningOwned, Receiving, ReceivingOwned, Sending,
                          SendingOwned, Closes, ClosesOwned, Enqueuing, CallingBack, Noticing, Ending,
                          Holding, Buffering, Swapping, Dropping>>
          /\ Failing' = Failing + 1
          /\ Leaving' = Leaving - 1
      BY <1>0, <3>2 DEF Sizes, Tally, Hits
    <3>4. Sizes'
      BY <1>0, <1>1, <2>2, <3>1, SizesNext DEF Disconnect, TypeOK, Events
    <3>5. TypeOK'
      BY <1>0, <1>1, <2>2, <3>1, <3>3, <3>4, BoundsAssumption DEF Disconnect, TypeOK
    <3>6. Counting'
      BY <1>0, <1>1, <2>2, <3>3, <3>4
      DEF Disconnect, Sizes, Counting, CountOK, OwnersOK, PhaseOK, FailOK, NoticeOK,
          SenderOK
    <3>7. ClearOK'
      BY <1>0, <1>1, <2>2 DEF Disconnect, ClearOK
    <3>8. OrderOK'
      BY <1>0, <1>1, <2>2, <3>3 DEF Disconnect, OrderOK, Taken
    <3>. QED BY <3>5, <3>6, <3>7, <3>8 DEF IInv
  <2>3. CASE state \in {"Disconnecting", "Closed"}
    <3>1. stack' \in [Threads -> Seq(Labels)] /\ Gone("Disconnect")
      BY <1>0, <1>1, <2>3, Returns DEF Disconnect, At, Labels, Callbacks
    <3>2. Tally("Disconnect", None, None)
      BY <1>0, <3>1, Tallied
    <3>3. /\ UNCHANGED <<Counted, Opening, OpeningOwned, Receiving, ReceivingOwned, Sending,
                          SendingOwned, Closes, ClosesOwned, Enqueuing, CallingBack, Noticing, Ending,
                          Holding, Buffering, Failing, Swapping, Dropping>>
          /\ Leaving' = Leaving - 1
      BY <1>0, <3>2 DEF Sizes, Tally, Hits
    <3>4. Sizes'
      BY <1>0, <1>1, <2>3, <3>1, SizesNext DEF Disconnect, TypeOK, Events
    <3>5. TypeOK'
      BY <1>0, <1>1, <2>3, <3>1, <3>3, <3>4, BoundsAssumption DEF Disconnect, TypeOK
    <3>6. Counting'
      BY <1>0, <1>1, <2>3, <3>3, <3>4
      DEF Disconnect, Sizes, Counting, CountOK, OwnersOK, PhaseOK, FailOK, NoticeOK,
          SenderOK
    <3>7. ClearOK'
      BY <1>0, <1>1, <2>3 DEF Disconnect, ClearOK
    <3>8. OrderOK'
      BY <1>0, <1>1, <2>3, <3>3 DEF Disconnect, OrderOK, Taken
    <3>. QED BY <3>5, <3>6, <3>7, <3>8 DEF IInv
  <2>. QED BY <1>1, <2>1, <2>2, <2>3 DEF Disconnect
<1>2. CASE RecordReason(t)
  <2>1. stack' \in [Threads -> Seq(Labels)] /\ Turned("RecordReason", "DisconnectEx")
    BY <1>0, <1>2, GoesOn DEF RecordReason, At, Labels, Callbacks
  <2>2. Tally("RecordReason", "DisconnectEx", None)
    BY <1>0, <2>1, Tallied
  <2>3. /\ UNCHANGED <<Counted, Opening, OpeningOwned, Receiving, ReceivingOwned, Sending,
                        SendingOwned, Closes, Enqueuing, CallingBack, Noticing, Ending, Holding,
                        Buffering, Failing, Swapping, Dropping, Leaving>>
        /\ ClosesOwned' = ClosesOwned + 1
    BY <1>0, <2>2 DEF Sizes, Tally, Hits
  <2>4. Closes > 0
    BY <1>0, <1>2, AtWork DEF RecordReason, Closes
  <2>5. Sizes'
    BY <1>0, <1>2, <2>1, SizesNext DEF RecordReason, TypeOK, Events
  <2>6. TypeOK'
    BY <1>0, <1>2, <2>1, <2>3, <2>4, <2>5, BoundsAssumption
    DEF RecordReason, TypeOK, Reasons, Events
  <2>7. Counting'
    BY <1>0, <1>2, <2>3, <2>4, <2>5
    DEF RecordReason, Sizes, Counting, CountOK, OwnersOK, PhaseOK, FailOK, NoticeOK,
        SenderOK
  <2>8. ClearOK'
    BY <1>0, <1>2, ClearGoesOn DEF RecordReason, At, Labels, Callbacks
  <2>9. OrderOK'
    BY <1>0, <1>2, <2>3 DEF RecordReason, OrderOK, Taken
  <2>. QED BY <2>6, <2>7, <2>8, <2>9 DEF IInv
<1>3. CASE DisconnectEx(t)
  <2>1. CASE posted' = posted \union {"disconnect"} /\ Return(t) /\ UNCHANGED owners
    <3>1. "disconnect" \in Events \ posted
      <4>1. "disconnect" \in posted => Work(DisconnectWork) > 1
        BY <1>0, <1>3, <2>1, TopAndEvent DEF DisconnectEx, At, DisconnectWork
      <4>. QED BY <1>0, <4>1 DEF Sizes, Events, Counting, OwnersOK, Closes
    <3>2. stack' \in [Threads -> Seq(Labels)] /\ Turned("DisconnectEx", "disconnect")
      BY <1>0, <1>3, <2>1, <3>1, Returns DEF DisconnectEx, At, Labels, Callbacks
    <3>3. Tally("DisconnectEx", "disconnect", None)
      BY <1>0, <3>2, Tallied
    <3>4. /\ UNCHANGED <<Counted, Opening, OpeningOwned, Receiving, ReceivingOwned, Sending,
                          SendingOwned, Closes, ClosesOwned, Enqueuing, CallingBack, Noticing, Ending,
                          Holding, Buffering, Failing, Swapping, Dropping, Leaving>>
      BY <1>0, <3>3 DEF Sizes, Tally, Hits
    <3>5. Closes > 0 /\ ClosesOwned > 0
      BY <1>0, <1>3, <2>1, AtWork DEF DisconnectEx, Closes, ClosesOwned
    <3>6. Sizes'
      BY <1>0, <1>3, <2>1, <3>2, SizesNext DEF DisconnectEx, TypeOK, Events
    <3>7. TypeOK'
      BY <1>0, <1>3, <2>1, <3>2, <3>4, <3>5, <3>6, BoundsAssumption
      DEF DisconnectEx, TypeOK, Events
    <3>8. Counting'
      BY <1>0, <1>3, <2>1, <3>4, <3>5, <3>6
      DEF DisconnectEx, Sizes, Counting, CountOK, OwnersOK, PhaseOK, FailOK, NoticeOK,
          SenderOK
    <3>9. ClearOK'
      BY <1>0, <1>3, <2>1, ClearReturns DEF DisconnectEx, At, Labels, Callbacks
    <3>10. OrderOK'
      BY <1>0, <1>3, <2>1, <3>4 DEF DisconnectEx, OrderOK, Taken
    <3>. QED BY <3>7, <3>8, <3>9, <3>10 DEF IInv
  <2>2. CASE owners' = owners \ {"disconnect"} /\ Goto(t, <<"ProcessDisconnect">>) /\ UNCHANGED posted
    <3>1. stack' \in [Threads -> Seq(Labels)] /\ Turned("DisconnectEx", "ProcessDisconnect")
      BY <1>0, <1>3, <2>2, GoesOn DEF DisconnectEx, At, Labels, Callbacks
    <3>2. Tally("DisconnectEx", "ProcessDisconnect", None)
      BY <1>0, <3>1, Tallied
    <3>3. /\ UNCHANGED <<Counted, Opening, OpeningOwned, Receiving, ReceivingOwned, Sending,
                          SendingOwned, Closes, Enqueuing, CallingBack, Noticing, Ending, Holding,
                          Buffering, Failing, Swapping, Dropping, Leaving>>
          /\ ClosesOwned' = ClosesOwned - 1
      BY <1>0, <3>2 DEF Sizes, Tally, Hits
    <3>4. Closes > 0
      BY <1>0, <1>3, <2>2, AtWork DEF DisconnectEx, Closes
    <3>5. Sizes'
      BY <1>0, <1>3, <2>2, <3>1, SizesNext DEF DisconnectEx, TypeOK, Events
    <3>6. TypeOK'
      BY <1>0, <1>3, <2>2, <3>1, <3>3, <3>4, <3>5, BoundsAssumption
      DEF DisconnectEx, TypeOK, Events
    <3>7. Counting'
      BY <1>0, <1>3, <2>2, <3>3, <3>4, <3>5
      DEF DisconnectEx, Sizes, Counting, CountOK, OwnersOK, PhaseOK, FailOK, NoticeOK,
          SenderOK
    <3>8. ClearOK'
      BY <1>0, <1>3, <2>2, ClearGoesOn DEF DisconnectEx, At, Labels, Callbacks
    <3>9. OrderOK'
      BY <1>0, <1>3, <2>2, <3>3 DEF DisconnectEx, OrderOK, Taken
    <3>. QED BY <3>6, <3>7, <3>8, <3>9 DEF IInv
  <2>. QED BY <1>3, <2>1, <2>2 DEF DisconnectEx
<1>4. CASE ProcessDisconnect(t)
  <2>1. stack' \in [Threads -> Seq(Labels)] /\ Turned("ProcessDisconnect", "TryFinalize")
    BY <1>0, <1>4, GoesOn DEF ProcessDisconnect, At, Labels, Callbacks
  <2>2. Tally("ProcessDisconnect", "TryFinalize", None)
    BY <1>0, <2>1, Tallied
  <2>3. /\ UNCHANGED <<Counted, Opening, OpeningOwned, Receiving, ReceivingOwned, Sending,
                        SendingOwned, ClosesOwned, Enqueuing, CallingBack, Noticing, Ending,
                        Holding, Buffering, Failing, Swapping, Dropping, Leaving>>
        /\ Closes' = Closes - 1
    BY <1>0, <2>2 DEF Sizes, Tally, Hits
  <2>4. Sizes'
    BY <1>0, <1>4, <2>1, SizesNext DEF ProcessDisconnect, TypeOK, Events
  <2>5. TypeOK'
    BY <1>0, <1>4, <2>1, <2>3, <2>4, BoundsAssumption DEF ProcessDisconnect, TypeOK
  <2>6. Counting'
    BY <1>0, <1>4, <2>3, <2>4
    DEF ProcessDisconnect, Sizes, Counting, CountOK, OwnersOK, PhaseOK, FailOK, NoticeOK,
        SenderOK
  <2>7. ClearOK'
    BY <1>0, <1>4, ClearGoesOn DEF ProcessDisconnect, At, Labels, Callbacks
  <2>8. OrderOK'
    BY <1>0, <1>4, <2>3 DEF ProcessDisconnect, OrderOK, Taken
  <2>. QED BY <2>5, <2>6, <2>7, <2>8 DEF IInv
<1>5. CASE TryFinalize(t)
  <2>1. CASE disconnectCompleted /\ pendingIoCount = 0
    <3>1. stack' \in [Threads -> Seq(Labels)] /\ Turned("TryFinalize", "NotifyOnce")
      BY <1>0, <1>5, <2>1, GoesOn DEF TryFinalize, At, Labels, Callbacks
    <3>2. Tally("TryFinalize", "NotifyOnce", None)
      BY <1>0, <3>1, Tallied
    <3>3. /\ UNCHANGED <<Counted, Opening, OpeningOwned, Receiving, ReceivingOwned, Sending,
                          SendingOwned, Closes, ClosesOwned, Enqueuing, CallingBack, Noticing,
                          Holding, Buffering, Failing, Swapping, Dropping, Leaving>>
          /\ Ending' = Ending + 1
      BY <1>0, <3>2 DEF Sizes, Tally, Hits
    <3>4. Sizes'
      BY <1>0, <1>5, <2>1, <3>1, SizesNext DEF TryFinalize, TypeOK, Events
    <3>5. TypeOK'
      BY <1>0, <1>5, <2>1, <3>1, <3>3, <3>4, BoundsAssumption DEF TryFinalize, TypeOK
    <3>6. state \in {"Disconnecting", "Closed"} /\ CallingBack = 0
      BY <1>0, <1>5, <2>1 DEF Sizes, Counting, CountOK, PhaseOK
    <3>7. Counting'
      BY <1>0, <1>5, <2>1, <3>3, <3>6, <3>4
      DEF TryFinalize, Sizes, Counting, CountOK, OwnersOK, PhaseOK, FailOK, NoticeOK,
          SenderOK
    <3>8. ClearOK'
      BY <1>0, <1>5, <2>1, ClearGoesOn DEF TryFinalize, At, Labels, Callbacks
    <3>9. OrderOK'
      BY <1>0, <1>5, <2>1, <3>3 DEF TryFinalize, OrderOK, Taken
    <3>. QED BY <3>5, <3>7, <3>8, <3>9 DEF IInv
  <2>2. CASE ~(disconnectCompleted /\ pendingIoCount = 0)
    <3>1. stack' \in [Threads -> Seq(Labels)] /\ Gone("TryFinalize")
      BY <1>0, <1>5, <2>2, Returns DEF TryFinalize, At, Labels, Callbacks
    <3>2. Tally("TryFinalize", None, None)
      BY <1>0, <3>1, Tallied
    <3>3. /\ UNCHANGED <<Counted, Opening, OpeningOwned, Receiving, ReceivingOwned, Sending,
                          SendingOwned, Closes, ClosesOwned, Enqueuing, CallingBack, Noticing, Ending,
                          Holding, Buffering, Failing, Swapping, Dropping, Leaving>>
      BY <1>0, <3>2 DEF Sizes, Tally, Hits
    <3>4. Sizes'
      BY <1>0, <1>5, <2>2, <3>1, SizesNext DEF TryFinalize, TypeOK, Events
    <3>5. TypeOK'
      BY <1>0, <1>5, <2>2, <3>1, <3>3, <3>4, BoundsAssumption DEF TryFinalize, TypeOK
    <3>6. Counting'
      BY <1>0, <1>5, <2>2, <3>3, <3>4
      DEF TryFinalize, Sizes, Counting, CountOK, OwnersOK, PhaseOK, FailOK, NoticeOK,
          SenderOK
    <3>7. ClearOK'
      BY <1>0, <1>5, <2>2, ClearReturns DEF TryFinalize, At, Labels, Callbacks
    <3>8. OrderOK'
      BY <1>0, <1>5, <2>2, <3>3 DEF TryFinalize, OrderOK, Taken
    <3>. QED BY <3>5, <3>6, <3>7, <3>8 DEF IInv
  <2>. QED BY <1>5, <2>1, <2>2 DEF TryFinalize
<1>6. CASE NotifyOnce(t)
  <2>1. CASE disconnectNotified
    <3>1. stack' \in [Threads -> Seq(Labels)] /\ Gone("NotifyOnce")
      BY <1>0, <1>6, <2>1, Returns DEF NotifyOnce, At, Labels, Callbacks
    <3>2. Tally("NotifyOnce", None, None)
      BY <1>0, <3>1, Tallied
    <3>3. /\ UNCHANGED <<Counted, Opening, OpeningOwned, Receiving, ReceivingOwned, Sending,
                          SendingOwned, Closes, ClosesOwned, Enqueuing, CallingBack, Noticing,
                          Holding, Buffering, Failing, Swapping, Dropping, Leaving>>
          /\ Ending' = Ending - 1
      BY <1>0, <3>2 DEF Sizes, Tally, Hits
    <3>4. Sizes'
      BY <1>0, <1>6, <2>1, <3>1, SizesNext DEF NotifyOnce, TypeOK, Events
    <3>5. TypeOK'
      BY <1>0, <1>6, <2>1, <3>1, <3>3, <3>4, BoundsAssumption DEF NotifyOnce, TypeOK
    <3>6. Counting'
      BY <1>0, <1>6, <2>1, <3>3, <3>4
      DEF NotifyOnce, Sizes, Counting, CountOK, OwnersOK, PhaseOK, FailOK, NoticeOK,
          SenderOK
    <3>7. ClearOK'
      BY <1>0, <1>6, <2>1, ClearReturns DEF NotifyOnce, At, Labels, Callbacks
    <3>8. OrderOK'
      BY <1>0, <1>6, <2>1, <3>3 DEF NotifyOnce, OrderOK, Taken
    <3>. QED BY <3>5, <3>6, <3>7, <3>8 DEF IInv
  <2>2. CASE ~disconnectNotified
    <3>1. stack' \in [Threads -> Seq(Labels)] /\ Turned("NotifyOnce", "Finalized")
      BY <1>0, <1>6, <2>2, GoesOn DEF NotifyOnce, At, Labels, Callbacks
    <3>2. Tally("NotifyOnce", "Finalized", None)
      BY <1>0, <3>1, Tallied
    <3>3. /\ UNCHANGED <<Counted, Opening, OpeningOwned, Receiving, ReceivingOwned, Sending,
                          SendingOwned, Closes, ClosesOwned, Enqueuing, CallingBack, Ending, Holding,
                          Buffering, Failing, Swapping, Dropping, Leaving>>
          /\ Noticing' = Noticing + 1
      BY <1>0, <3>2 DEF Sizes, Tally, Hits
    <3>4. Ending > 0
      BY <1>0, <1>6, <2>2, AtWork DEF NotifyOnce, Ending
    <3>5. Sizes'
      BY <1>0, <1>6, <2>2, <3>1, SizesNext DEF NotifyOnce, TypeOK, Events
    <3>6. TypeOK'
      BY <1>0, <1>6, <2>2, <3>1, <3>3, <3>4, <3>5, BoundsAssumption DEF NotifyOnce, TypeOK
    <3>7. Counting'
      BY <1>0, <1>6, <2>2, <3>3, <3>4, <3>5
      DEF NotifyOnce, Sizes, Counting, CountOK, OwnersOK, PhaseOK, FailOK, NoticeOK,
          SenderOK
    <3>8. ClearOK'
      BY <1>0, <1>6, <2>2, ClearGoesOn DEF NotifyOnce, At, Labels, Callbacks
    <3>9. OrderOK'
      BY <1>0, <1>6, <2>2, <3>3 DEF NotifyOnce, OrderOK, Taken
    <3>. QED BY <3>6, <3>7, <3>8, <3>9 DEF IInv
  <2>. QED BY <1>6, <2>1, <2>2 DEF NotifyOnce
<1>7. CASE Finalized(t)
  <2>1. stack' \in [Threads -> Seq(Labels)] /\ Turned("Finalized", "OnDisconnected")
    BY <1>0, <1>7, GoesOn DEF Finalized, At, Labels, Callbacks
  <2>2. Tally("Finalized", "OnDisconnected", None)
    BY <1>0, <2>1, Tallied
  <2>3. /\ UNCHANGED <<Counted, Opening, OpeningOwned, Receiving, ReceivingOwned, Sending,
                        SendingOwned, Closes, ClosesOwned, Enqueuing, CallingBack, Holding,
                        Buffering, Failing, Swapping, Dropping, Leaving>>
        /\ Noticing' = Noticing - 1
        /\ Ending' = Ending - 1
    BY <1>0, <2>2 DEF Sizes, Tally, Hits
  <2>4. Sizes'
    BY <1>0, <1>7, <2>1, SizesNext DEF Finalized, TypeOK, Events
  <2>5. TypeOK'
    BY <1>0, <1>7, <2>1, <2>3, <2>4, BoundsAssumption DEF Finalized, TypeOK
  <2>6. Counting'
    BY <1>0, <1>7, <2>3, <2>4
    DEF Finalized, Sizes, Counting, CountOK, OwnersOK, PhaseOK, FailOK, NoticeOK, SenderOK
  <2>7. ClearOK'
    BY <1>0, <1>7, ClearGoesOn DEF Finalized, At, Labels, Callbacks
  <2>8. OrderOK'
    BY <1>0, <1>7, <2>3 DEF Finalized, OrderOK, Taken
  <2>. QED BY <2>5, <2>6, <2>7, <2>8 DEF IInv
<1>8. CASE OnDisconnected(t)
  <2>1. stack' \in [Threads -> Seq(Labels)] /\ Gone("OnDisconnected")
    BY <1>0, <1>8, Returns DEF OnDisconnected, At, Labels, Callbacks
  <2>2. Tally("OnDisconnected", None, None)
    BY <1>0, <2>1, Tallied
  <2>3. /\ UNCHANGED <<Counted, Opening, OpeningOwned, Receiving, ReceivingOwned, Sending,
                        SendingOwned, Closes, ClosesOwned, Enqueuing, CallingBack, Noticing, Ending,
                        Holding, Buffering, Failing, Swapping, Dropping, Leaving>>
    BY <1>0, <2>2 DEF Sizes, Tally, Hits
  <2>4. Sizes'
    BY <1>0, <1>8, <2>1, SizesNext DEF OnDisconnected, TypeOK, Events
  <2>5. TypeOK'
    BY <1>0, <1>8, <2>1, <2>3, <2>4, BoundsAssumption DEF OnDisconnected, TypeOK
  <2>6. Counting'
    BY <1>0, <1>8, <2>3, <2>4
    DEF OnDisconnected, Sizes, Counting, CountOK, OwnersOK, PhaseOK, FailOK, NoticeOK,
        SenderOK
  <2>7. ClearOK'
    BY <1>0, <1>8, ClearReturns DEF OnDisconnected, At, Labels, Callbacks
  <2>8. OrderOK'
    BY <1>0, <1>8, <2>3 DEF OnDisconnected, OrderOK, Taken
  <2>. QED BY <2>5, <2>6, <2>7, <2>8 DEF IInv
<1>9. CASE ReleaseIo(t)
  <2>1. stack' \in [Threads -> Seq(Labels)] /\ Turned("ReleaseIo", "TryFinalize")
    BY <1>0, <1>9, GoesOn DEF ReleaseIo, At, Labels, Callbacks
  <2>2. Tally("ReleaseIo", "TryFinalize", None)
    BY <1>0, <2>1, Tallied
  <2>3. /\ UNCHANGED <<Opening, OpeningOwned, Receiving, ReceivingOwned, Sending, SendingOwned,
                        Closes, ClosesOwned, Enqueuing, CallingBack, Noticing, Ending, Holding,
                        Buffering, Failing, Swapping, Dropping, Leaving>>
        /\ Counted' = Counted - 1
    BY <1>0, <2>2 DEF Sizes, Tally, Hits
  <2>4. Sizes'
    BY <1>0, <1>9, <2>1, SizesNext DEF ReleaseIo, TypeOK, Events
  <2>5. TypeOK'
    BY <1>0, <1>9, <2>1, <2>3, <2>4, BoundsAssumption
    DEF ReleaseIo, TypeOK, Sizes, Counting, CountOK
  <2>6. Counting'
    BY <1>0, <1>9, <2>3, <2>4
    DEF ReleaseIo, Sizes, Counting, CountOK, OwnersOK, PhaseOK, FailOK, NoticeOK, SenderOK
  <2>7. ClearOK'
    BY <1>0, <1>9, ClearGoesOn DEF ReleaseIo, At, Labels, Callbacks
  <2>8. OrderOK'
    BY <1>0, <1>9, <2>3 DEF ReleaseIo, OrderOK, Taken
  <2>. QED BY <2>5, <2>6, <2>7, <2>8 DEF IInv
<1>10. CASE FailConnect(t)
  <2>1. stack' \in [Threads -> Seq(Labels)] /\ Turned("FailConnect", "FailNotify")
    BY <1>0, <1>10, GoesOn DEF FailConnect, At, Labels, Callbacks
  <2>2. Tally("FailConnect", "FailNotify", None)
    BY <1>0, <2>1, Tallied
  <2>3. /\ UNCHANGED <<Counted, Opening, OpeningOwned, Receiving, ReceivingOwned, Sending,
                        SendingOwned, Closes, ClosesOwned, Enqueuing, CallingBack, Noticing,
                        Holding, Buffering, Swapping, Dropping, Leaving>>
        /\ Ending' = Ending + 1
        /\ Failing' = Failing - 1
    BY <1>0, <2>2 DEF Sizes, Tally, Hits
  <2>4. Sizes'
    BY <1>0, <1>10, <2>1, SizesNext DEF FailConnect, TypeOK, Events
  <2>5. TypeOK'
    BY <1>0, <1>10, <2>1, <2>3, <2>4, BoundsAssumption DEF FailConnect, TypeOK
  <2>6. Counting'
    BY <1>0, <1>10, <2>3, <2>4
    DEF FailConnect, Sizes, Counting, CountOK, OwnersOK, PhaseOK, FailOK, NoticeOK,
        SenderOK
  <2>7. ClearOK'
    BY <1>0, <1>10, ClearGoesOn DEF FailConnect, At, Labels, Callbacks
  <2>8. OrderOK'
    BY <1>0, <1>10, <2>3 DEF FailConnect, OrderOK, Taken
  <2>. QED BY <2>5, <2>6, <2>7, <2>8 DEF IInv
<1>11. CASE FailNotify(t)
  <2>1. CASE disconnectNotified
    <3>1. stack' \in [Threads -> Seq(Labels)] /\ Gone("FailNotify")
      BY <1>0, <1>11, <2>1, Returns DEF FailNotify, At, Labels, Callbacks
    <3>2. Tally("FailNotify", None, None)
      BY <1>0, <3>1, Tallied
    <3>3. /\ UNCHANGED <<Counted, Opening, OpeningOwned, Receiving, ReceivingOwned, Sending,
                          SendingOwned, Closes, ClosesOwned, Enqueuing, CallingBack, Noticing,
                          Holding, Buffering, Failing, Swapping, Dropping, Leaving>>
          /\ Ending' = Ending - 1
      BY <1>0, <3>2 DEF Sizes, Tally, Hits
    <3>4. Sizes'
      BY <1>0, <1>11, <2>1, <3>1, SizesNext DEF FailNotify, TypeOK, Events
    <3>5. TypeOK'
      BY <1>0, <1>11, <2>1, <3>1, <3>3, <3>4, BoundsAssumption DEF FailNotify, TypeOK
    <3>6. Counting'
      BY <1>0, <1>11, <2>1, <3>3, <3>4
      DEF FailNotify, Sizes, Counting, CountOK, OwnersOK, PhaseOK, FailOK, NoticeOK,
          SenderOK
    <3>7. ClearOK'
      BY <1>0, <1>11, <2>1, ClearReturns DEF FailNotify, At, Labels, Callbacks
    <3>8. OrderOK'
      BY <1>0, <1>11, <2>1, <3>3 DEF FailNotify, OrderOK, Taken
    <3>. QED BY <3>5, <3>6, <3>7, <3>8 DEF IInv
  <2>2. CASE ~disconnectNotified
    <3>1. stack' \in [Threads -> Seq(Labels)] /\ Turned("FailNotify", "FailClose")
      BY <1>0, <1>11, <2>2, GoesOn DEF FailNotify, At, Labels, Callbacks
    <3>2. Tally("FailNotify", "FailClose", None)
      BY <1>0, <3>1, Tallied
    <3>3. /\ UNCHANGED <<Counted, Opening, OpeningOwned, Receiving, ReceivingOwned, Sending,
                          SendingOwned, Closes, ClosesOwned, Enqueuing, CallingBack, Ending, Holding,
                          Buffering, Failing, Swapping, Dropping, Leaving>>
          /\ Noticing' = Noticing + 1
      BY <1>0, <3>2 DEF Sizes, Tally, Hits
    <3>4. Ending > 0
      BY <1>0, <1>11, <2>2, AtWork DEF FailNotify, Ending
    <3>5. Sizes'
      BY <1>0, <1>11, <2>2, <3>1, SizesNext DEF FailNotify, TypeOK, Events
    <3>6. TypeOK'
      BY <1>0, <1>11, <2>2, <3>1, <3>3, <3>4, <3>5, BoundsAssumption DEF FailNotify, TypeOK
    <3>7. Counting'
      BY <1>0, <1>11, <2>2, <3>3, <3>4, <3>5
      DEF FailNotify, Sizes, Counting, CountOK, OwnersOK, PhaseOK, FailOK, NoticeOK,
          SenderOK
    <3>8. ClearOK'
      BY <1>0, <1>11, <2>2, ClearGoesOn DEF FailNotify, At, Labels, Callbacks
    <3>9. OrderOK'
      BY <1>0, <1>11, <2>2, <3>3 DEF FailNotify, OrderOK, Taken
    <3>. QED BY <3>6, <3>7, <3>8, <3>9 DEF IInv
  <2>. QED BY <1>11, <2>1, <2>2 DEF FailNotify
<1>12. CASE FailClose(t)
  <2>1. stack' \in [Threads -> Seq(Labels)] /\ Turned("FailClose", "OnDisconnected")
    BY <1>0, <1>12, GoesOn DEF FailClose, At, Labels, Callbacks
  <2>2. Tally("FailClose", "OnDisconnected", None)
    BY <1>0, <2>1, Tallied
  <2>3. /\ UNCHANGED <<Counted, Opening, OpeningOwned, Receiving, ReceivingOwned, Sending,
                        SendingOwned, Closes, ClosesOwned, Enqueuing, CallingBack, Holding,
                        Buffering, Failing, Swapping, Dropping, Leaving>>
        /\ Noticing' = Noticing - 1
        /\ Ending' = Ending - 1
    BY <1>0, <2>2 DEF Sizes, Tally, Hits
  <2>4. Sizes'
    BY <1>0, <1>12, <2>1, SizesNext DEF FailClose, TypeOK, Events
  <2>5. TypeOK'
    BY <1>0, <1>12, <2>1, <2>3, <2>4, BoundsAssumption DEF FailClose, TypeOK, Reasons
  <2>6. Counting'
    BY <1>0, <1>12, <2>3, <2>4
    DEF FailClose, Sizes, Counting, CountOK, OwnersOK, PhaseOK, FailOK, NoticeOK, SenderOK
  <2>7. ClearOK'
    BY <1>0, <1>12, ClearGoesOn DEF FailClose, At, Labels, Callbacks
  <2>8. OrderOK'
    BY <1>0, <1>12, <2>3 DEF FailClose, OrderOK, Taken
  <2>. QED BY <2>5, <2>6, <2>7, <2>8 DEF IInv
<1>13. CASE ConnectEx(t)
  <2>1. CASE posted' = posted \union {"connect"} /\ Return(t) /\ UNCHANGED <<owners, reason>>
    <3>1. "connect" \in Events \ posted
      <4>1. "connect" \in posted => Work(ConnectWork) > 1
        BY <1>0, <1>13, <2>1, TopAndEvent DEF ConnectEx, At, ConnectWork
      <4>. QED BY <1>0, <4>1 DEF Sizes, Events, Counting, OwnersOK, Opening
    <3>2. stack' \in [Threads -> Seq(Labels)] /\ Turned("ConnectEx", "connect")
      BY <1>0, <1>13, <2>1, <3>1, Returns DEF ConnectEx, At, Labels, Callbacks
    <3>3. Tally("ConnectEx", "connect", None)
      BY <1>0, <3>2, Tallied
    <3>4. /\ UNCHANGED <<Counted, Opening, OpeningOwned, Receiving, ReceivingOwned, Sending,
                          SendingOwned, Closes, ClosesOwned, Enqueuing, CallingBack, Noticing, Ending,
                          Holding, Buffering, Failing, Swapping, Dropping, Leaving>>
      BY <1>0, <3>3 DEF Sizes, Tally, Hits
    <3>5. Opening > 0 /\ OpeningOwned > 0
      BY <1>0, <1>13, <2>1, AtWork DEF ConnectEx, Opening, OpeningOwned
    <3>6. Sizes'
      BY <1>0, <1>13, <2>1, <3>2, SizesNext DEF ConnectEx, TypeOK, Events
    <3>7. TypeOK'
      BY <1>0, <1>13, <2>1, <3>2, <3>4, <3>5, <3>6, BoundsAssumption
      DEF ConnectEx, TypeOK, Reasons, Events
    <3>8. Counting'
      BY <1>0, <1>13, <2>1, <3>4, <3>5, <3>6
      DEF ConnectEx, Sizes, Counting, CountOK, OwnersOK, PhaseOK, FailOK, NoticeOK,
          SenderOK
    <3>9. ClearOK'
      BY <1>0, <1>13, <2>1, ClearReturns DEF ConnectEx, At, Labels, Callbacks
    <3>10. OrderOK'
      BY <1>0, <1>13, <2>1, <3>4 DEF ConnectEx, OrderOK, Taken
    <3>. QED BY <3>7, <3>8, <3>9, <3>10 DEF IInv
  <2>2. CASE /\ owners' = owners \ {"connect"} /\ reason' = [reason EXCEPT ![t] = "error"]
             /\ Goto(t, <<"FailConnect">>) /\ UNCHANGED posted
    <3>1. stack' \in [Threads -> Seq(Labels)] /\ Turned("ConnectEx", "FailConnect")
      BY <1>0, <1>13, <2>2, GoesOn DEF ConnectEx, At, Labels, Callbacks
    <3>2. Tally("ConnectEx", "FailConnect", None)
      BY <1>0, <3>1, Tallied
    <3>3. /\ UNCHANGED <<Counted, Receiving, ReceivingOwned, Sending, SendingOwned, Closes,
                          ClosesOwned, Enqueuing, CallingBack, Noticing, Ending, Holding, Buffering,
                          Swapping, Dropping, Leaving>>
          /\ Opening' = Opening - 1
          /\ OpeningOwned' = OpeningOwned - 1
          /\ Failing' = Failing + 1
      BY <1>0, <3>2 DEF Sizes, Tally, Hits
    <3>4. Sizes'
      BY <1>0, <1>13, <2>2, <3>1, SizesNext DEF ConnectEx, TypeOK, Events
    <3>5. TypeOK'
      BY <1>0, <1>13, <2>2, <3>1, <3>3, <3>4, BoundsAssumption
      DEF ConnectEx, TypeOK, Reasons, Events
    <3>6. Counting'
      BY <1>0, <1>13, <2>2, <3>3, <3>4
      DEF ConnectEx, Sizes, Counting, CountOK, OwnersOK, PhaseOK, FailOK, NoticeOK,
          SenderOK
    <3>7. ClearOK'
      BY <1>0, <1>13, <2>2, ClearGoesOn DEF ConnectEx, At, Labels, Callbacks
    <3>8. OrderOK'
      BY <1>0, <1>13, <2>2, <3>3 DEF ConnectEx, OrderOK, Taken
    <3>. QED BY <3>5, <3>6, <3>7, <3>8 DEF IInv
  <2>. QED BY <1>13, <2>1, <2>2 DEF ConnectEx
<1>14. CASE ProcessConnect(t)
  <2>1. CASE state = "Created"
    <3>1. stack' \in [Threads -> Seq(Labels)] /\ Turned("ProcessConnect", "CountConnect")
      BY <1>0, <1>14, <2>1, GoesOn DEF ProcessConnect, At, Labels, Callbacks
    <3>2. Tally("ProcessConnect", "CountConnect", None)
      BY <1>0, <3>1, Tallied
    <3>3. /\ UNCHANGED <<Counted, Opening, OpeningOwned, Receiving, ReceivingOwned, Sending,
                          SendingOwned, Closes, ClosesOwned, Enqueuing, CallingBack, Noticing, Ending,
                          Holding, Buffering, Failing, Swapping, Dropping, Leaving>>
      BY <1>0, <3>2 DEF Sizes, Tally, Hits
    <3>4. Opening > 0
      BY <1>0, <1>14, <2>1, AtWork DEF ProcessConnect, Opening
    <3>5. Sizes'
      BY <1>0, <1>14, <2>1, <3>1, SizesNext DEF ProcessConnect, TypeOK, Events
    <3>6. TypeOK'
      BY <1>0, <1>14, <2>1, <3>1, <3>3, <3>4, <3>5, BoundsAssumption
      DEF ProcessConnect, TypeOK
    <3>7. Counting'
      BY <1>0, <1>14, <2>1, <3>3, <3>4, <3>5
      DEF ProcessConnect, Sizes, Counting, CountOK, OwnersOK, PhaseOK, FailOK, NoticeOK,
          SenderOK
    <3>8. ClearOK'
      BY <1>0, <1>14, <2>1, ClearGoesOn DEF ProcessConnect, At, Labels, Callbacks
    <3>9. OrderOK'
      BY <1>0, <1>14, <2>1, <3>3 DEF ProcessConnect, OrderOK, Taken
    <3>. QED BY <3>6, <3>7, <3>8, <3>9 DEF IInv
  <2>2. CASE state # "Created"
    <3>1. stack' \in [Threads -> Seq(Labels)] /\ Gone("ProcessConnect")
      BY <1>0, <1>14, <2>2, Returns DEF ProcessConnect, At, Labels, Callbacks
    <3>2. Tally("ProcessConnect", None, None)
      BY <1>0, <3>1, Tallied
    <3>3. /\ UNCHANGED <<Counted, OpeningOwned, Receiving, ReceivingOwned, Sending, SendingOwned,
                          Closes, ClosesOwned, Enqueuing, CallingBack, Noticing, Ending, Holding,
                          Buffering, Failing, Swapping, Dropping, Leaving>>
          /\ Opening' = Opening - 1
      BY <1>0, <3>2 DEF Sizes, Tally, Hits
    <3>4. Sizes'
      BY <1>0, <1>14, <2>2, <3>1, SizesNext DEF ProcessConnect, TypeOK, Events
    <3>5. TypeOK'
      BY <1>0, <1>14, <2>2, <3>1, <3>3, <3>4, BoundsAssumption DEF ProcessConnect, TypeOK
    <3>6. Counting'
      BY <1>0, <1>14, <2>2, <3>3, <3>4
      DEF ProcessConnect, Sizes, Counting, CountOK, OwnersOK, PhaseOK, FailOK, NoticeOK,
          SenderOK
    <3>7. ClearOK'
      BY <1>0, <1>14, <2>2, ClearReturns DEF ProcessConnect, At, Labels, Callbacks
    <3>8. OrderOK'
      BY <1>0, <1>14, <2>2, <3>3 DEF ProcessConnect, OrderOK, Taken
    <3>. QED BY <3>5, <3>6, <3>7, <3>8 DEF IInv
  <2>. QED BY <1>14, <2>1, <2>2 DEF ProcessConnect
<1>15. CASE CountConnect(t)
  <2>1. stack' \in [Threads -> Seq(Labels)] /\ Turned("CountConnect", "EnterConnected")
    BY <1>0, <1>15, GoesOn DEF CountConnect, At, Labels, Callbacks
  <2>2. Tally("CountConnect", "EnterConnected", None)
    BY <1>0, <2>1, Tallied
  <2>3. /\ UNCHANGED <<Opening, OpeningOwned, Receiving, ReceivingOwned, Sending, SendingOwned,
                        Closes, ClosesOwned, Enqueuing, CallingBack, Noticing, Ending, Holding,
                        Buffering, Failing, Swapping, Dropping, Leaving>>
        /\ Counted' = Counted + 1
    BY <1>0, <2>2 DEF Sizes, Tally, Hits
  <2>4. Opening > 0
    BY <1>0, <1>15, AtWork DEF CountConnect, Opening
  <2>5. Sizes'
    BY <1>0, <1>15, <2>1, SizesNext DEF CountConnect, TypeOK, Events
  <2>6. TypeOK'
    BY <1>0, <1>15, <2>1, <2>3, <2>4, <2>5, BoundsAssumption
    DEF CountConnect, TypeOK, Sizes, Counting, CountOK
  <2>7. Counting'
    BY <1>0, <1>15, <2>3, <2>4, <2>5
    DEF CountConnect, Sizes, Counting, CountOK, OwnersOK, PhaseOK, FailOK, NoticeOK,
        SenderOK
  <2>8. ClearOK'
    BY <1>0, <1>15, ClearGoesOn DEF CountConnect, At, Labels, Callbacks
  <2>9. OrderOK'
    BY <1>0, <1>15, <2>3 DEF CountConnect, OrderOK, Taken
  <2>. QED BY <2>6, <2>7, <2>8, <2>9 DEF IInv
<1>16. CASE EnterConnected(t)
  <2>1. CASE state = "Created"
    <3>1. stack' \in [Threads -> Seq(Labels)] /\ Turned("EnterConnected", "OnConnected")
      BY <1>0, <1>16, <2>1, GoesOn DEF EnterConnected, At, Labels, Callbacks
    <3>2. Tally("EnterConnected", "OnConnected", None)
      BY <1>0, <3>1, Tallied
    <3>3. /\ UNCHANGED <<Counted, OpeningOwned, ReceivingOwned, Sending, SendingOwned, Closes,
                          ClosesOwned, Enqueuing, Noticing, Ending, Holding, Buffering, Failing,
                          Swapping, Dropping, Leaving>>
          /\ Opening' = Opening - 1
          /\ Receiving' = Receiving + 1
          /\ CallingBack' = CallingBack + 1
      BY <1>0, <3>2 DEF Sizes, Tally, Hits
    <3>4. Counted > 0
      BY <1>0, <1>16, <2>1, AtWork DEF EnterConnected, Counted
    <3>5. Sizes'
      BY <1>0, <1>16, <2>1, <3>1, SizesNext DEF EnterConnected, TypeOK, Events
    <3>6. TypeOK'
      BY <1>0, <1>16, <2>1, <3>1, <3>3, <3>4, <3>5, BoundsAssumption
      DEF EnterConnected, TypeOK
    <3>7. Counting'
      BY <1>0, <1>16, <2>1, <3>3, <3>4, <3>5
      DEF EnterConnected, Sizes, Counting, CountOK, OwnersOK, PhaseOK, FailOK, NoticeOK,
          SenderOK
    <3>8. ClearOK'
      <4>1. \A u \in Threads : stack[u] \in Seq(Labels) /\ Cleared(stack[u])
        BY <1>0, <1>16, <2>1, NobodyClears DEF Counting, PhaseOK, TypeOK
      <4>2. \A u \in Threads :
              stack'[u] = IF u = t THEN <<"OnConnected">> \o Tail(stack[t]) ELSE stack[u]
        BY <1>0, <1>16, <2>1 DEF EnterConnected, Goto, TypeOK
      <4>3. stack[t] # <<>> /\ Head(stack[t]) # "Disconnect" /\ "OnConnected" \in Labels
        BY <1>16, <2>1 DEF EnterConnected, At, Labels, Callbacks
      <4>. QED BY <1>0, <4>1, <4>2, <4>3, ClearedTail, ClearedPush DEF ClearOK
    <3>9. OrderOK'
      <4>1. /\ sendQueue = <<>> /\ sendBuffers = <<>> /\ accepted = <<>> /\ wire = <<>>
        BY <1>0, <1>16, <2>1 DEF Counting, PhaseOK
      <4>2. Taken' = <<>> /\ UNCHANGED <<sendQueue, accepted, wire>>
        BY <1>16, <2>1, <4>1 DEF EnterConnected, Taken, sending, history
      <4>3. <<>> \o <<>> = <<>> /\ <<>> \in Seq(Messages)
        OBVIOUS
      <4>. QED BY <4>1, <4>2, <4>3, PrefixItself DEF OrderOK
    <3>. QED BY <3>6, <3>7, <3>8, <3>9 DEF IInv
  <2>2. CASE state # "Created"
    <3>1. stack' \in [Threads -> Seq(Labels)] /\ Turned("EnterConnected", "ReleaseIo")
      BY <1>0, <1>16, <2>2, GoesOn DEF EnterConnected, At, Labels, Callbacks
    <3>2. Tally("EnterConnected", "ReleaseIo", None)
      BY <1>0, <3>1, Tallied
    <3>3. /\ UNCHANGED <<Counted, OpeningOwned, Receiving, ReceivingOwned, Sending, SendingOwned,
                          Closes, ClosesOwned, Enqueuing, CallingBack, Noticing, Ending, Holding,
                          Buffering, Failing, Swapping, Dropping, Leaving>>
          /\ Opening' = Opening - 1
      BY <1>0, <3>2 DEF Sizes, Tally, Hits
    <3>4. Counted > 0
      BY <1>0, <1>16, <2>2, AtWork DEF EnterConnected, Counted
    <3>5. Sizes'
      BY <1>0, <1>16, <2>2, <3>1, SizesNext DEF EnterConnected, TypeOK, Events
    <3>6. TypeOK'
      BY <1>0, <1>16, <2>2, <3>1, <3>3, <3>4, <3>5, BoundsAssumption
      DEF EnterConnected, TypeOK
    <3>7. Counting'
      BY <1>0, <1>16, <2>2, <3>3, <3>4, <3>5
      DEF EnterConnected, Sizes, Counting, CountOK, OwnersOK, PhaseOK, FailOK, NoticeOK,
          SenderOK
    <3>8. ClearOK'
      BY <1>0, <1>16, <2>2, ClearGoesOn DEF EnterConnected, At, Labels, Callbacks
    <3>9. OrderOK'
      BY <1>0, <1>16, <2>2, <3>3 DEF EnterConnected, OrderOK, Taken
    <3>. QED BY <3>6, <3>7, <3>8, <3>9 DEF IInv
  <2>. QED BY <1>16, <2>1, <2>2 DEF EnterConnected
<1>17. CASE OnConnected(t)
  <2>1. stack' \in [Threads -> Seq(Labels)] /\ Called("OnConnected", "RegisterRecv", "ReleaseIo")
    BY <1>0, <1>17, Calls DEF OnConnected, At, Labels, Callbacks
  <2>2. Tally("OnConnected", "RegisterRecv", "ReleaseIo")
    BY <1>0, <2>1, Tallied
  <2>3. /\ UNCHANGED <<Counted, Opening, OpeningOwned, Receiving, ReceivingOwned, Sending,
                        SendingOwned, Closes, ClosesOwned, Enqueuing, Noticing, Ending, Holding,
                        Buffering, Failing, Swapping, Dropping, Leaving>>
        /\ CallingBack' = CallingBack - 1
    BY <1>0, <2>2 DEF Sizes, Tally, Hits
  <2>4. Counted > 0 /\ Receiving > 0
    BY <1>0, <1>17, AtWork DEF OnConnected, Counted, Receiving
  <2>5. Sizes'
    BY <1>0, <1>17, <2>1, SizesNext DEF OnConnected, TypeOK, Events
  <2>6. TypeOK'
    BY <1>0, <1>17, <2>1, <2>3, <2>4, <2>5, BoundsAssumption DEF OnConnected, TypeOK
  <2>7. Counting'
    BY <1>0, <1>17, <2>3, <2>4, <2>5
    DEF OnConnected, Sizes, Counting, CountOK, OwnersOK, PhaseOK, FailOK, NoticeOK,
        SenderOK
  <2>8. ClearOK'
    BY <1>0, <1>17, ClearCalls DEF OnConnected, At, Labels, Callbacks
  <2>9. OrderOK'
    BY <1>0, <1>17, <2>3 DEF OnConnected, OrderOK, Taken
  <2>. QED BY <2>6, <2>7, <2>8, <2>9 DEF IInv
<1>18. CASE RegisterRecv(t)
  <2>1. CASE ~IsConnected
    <3>1. stack' \in [Threads -> Seq(Labels)] /\ Gone("RegisterRecv")
      BY <1>0, <1>18, <2>1, Returns DEF RegisterRecv, At, Labels, Callbacks
    <3>2. Tally("RegisterRecv", None, None)
      BY <1>0, <3>1, Tallied
    <3>3. /\ UNCHANGED <<Counted, Opening, OpeningOwned, ReceivingOwned, Sending, SendingOwned,
                          Closes, ClosesOwned, Enqueuing, CallingBack, Noticing, Ending, Holding,
                          Buffering, Failing, Swapping, Dropping, Leaving>>
          /\ Receiving' = Receiving - 1
      BY <1>0, <3>2 DEF Sizes, Tally, Hits
    <3>4. Sizes'
      BY <1>0, <1>18, <2>1, <3>1, SizesNext DEF RegisterRecv, TypeOK, Events
    <3>5. TypeOK'
      BY <1>0, <1>18, <2>1, <3>1, <3>3, <3>4, BoundsAssumption
      DEF RegisterRecv, TypeOK, DisconnectThen, Reasons, Events
    <3>6. Counting'
      BY <1>0, <1>18, <2>1, <3>3, <3>4
      DEF RegisterRecv, Sizes, Counting, CountOK, OwnersOK, PhaseOK, FailOK, NoticeOK,
          SenderOK
    <3>7. ClearOK'
      BY <1>0, <1>18, <2>1, ClearReturns DEF RegisterRecv, At, Labels, Callbacks
    <3>8. OrderOK'
      BY <1>0, <1>18, <2>1, <3>3 DEF RegisterRecv, OrderOK, Taken
    <3>. QED BY <3>5, <3>6, <3>7, <3>8 DEF IInv
  <2>2. CASE IsConnected /\ unread = RecvCapacity
    <3>1. stack' \in [Threads -> Seq(Labels)] /\ Turned("RegisterRecv", "Disconnect")
      BY <1>0, <1>18, <2>2, GoesOn DEF RegisterRecv, At, Labels, Callbacks, DisconnectThen
    <3>2. Tally("RegisterRecv", "Disconnect", None)
      BY <1>0, <3>1, Tallied
    <3>3. /\ UNCHANGED <<Counted, Opening, OpeningOwned, ReceivingOwned, Sending, SendingOwned,
                          Closes, ClosesOwned, Enqueuing, CallingBack, Noticing, Ending, Holding,
                          Buffering, Failing, Swapping, Dropping>>
          /\ Receiving' = Receiving - 1
          /\ Leaving' = Leaving + 1
      BY <1>0, <3>2 DEF Sizes, Tally, Hits
    <3>4. Sizes'
      BY <1>0, <1>18, <2>2, <3>1, SizesNext DEF RegisterRecv, TypeOK, Events
    <3>5. TypeOK'
      BY <1>0, <1>18, <2>2, <3>1, <3>3, <3>4, BoundsAssumption
      DEF RegisterRecv, TypeOK, DisconnectThen, Reasons, Events
    <3>6. Counting'
      BY <1>0, <1>18, <2>2, <3>3, <3>4
      DEF RegisterRecv, Sizes, Counting, CountOK, OwnersOK, PhaseOK, FailOK, NoticeOK,
          SenderOK
    <3>7. ClearOK'
      BY <1>0, <1>18, <2>2, ClearGoesOn
      DEF RegisterRecv, At, Labels, Callbacks, DisconnectThen
    <3>8. OrderOK'
      BY <1>0, <1>18, <2>2, <3>3 DEF RegisterRecv, OrderOK, Taken
    <3>. QED BY <3>5, <3>6, <3>7, <3>8 DEF IInv
  <2>3. CASE IsConnected /\ unread # RecvCapacity
    <3>1. stack' \in [Threads -> Seq(Labels)] /\ Turned("RegisterRecv", "CountRecv")
      BY <1>0, <1>18, <2>3, GoesOn DEF RegisterRecv, At, Labels, Callbacks
    <3>2. Tally("RegisterRecv", "CountRecv", None)
      BY <1>0, <3>1, Tallied
    <3>3. /\ UNCHANGED <<Counted, Opening, OpeningOwned, Receiving, Sending, SendingOwned, Closes,
                          ClosesOwned, Enqueuing, CallingBack, Noticing, Ending, Holding, Buffering,
                          Failing, Swapping, Dropping, Leaving>>
          /\ ReceivingOwned' = ReceivingOwned + 1
      BY <1>0, <3>2 DEF Sizes, Tally, Hits
    <3>4. Receiving > 0
      BY <1>0, <1>18, <2>3, AtWork DEF RegisterRecv, Receiving
    <3>5. Sizes'
      BY <1>0, <1>18, <2>3, <3>1, SizesNext DEF RegisterRecv, TypeOK, Events
    <3>6. TypeOK'
      BY <1>0, <1>18, <2>3, <3>1, <3>3, <3>4, <3>5, BoundsAssumption
      DEF RegisterRecv, TypeOK, DisconnectThen, Reasons, Events
    <3>7. Counting'
      BY <1>0, <1>18, <2>3, <3>3, <3>4, <3>5
      DEF RegisterRecv, Sizes, Counting, CountOK, OwnersOK, PhaseOK, FailOK, NoticeOK,
          SenderOK
    <3>8. ClearOK'
      BY <1>0, <1>18, <2>3, ClearGoesOn DEF RegisterRecv, At, Labels, Callbacks
    <3>9. OrderOK'
      BY <1>0, <1>18, <2>3, <3>3 DEF RegisterRecv, OrderOK, Taken
    <3>. QED BY <3>6, <3>7, <3>8, <3>9 DEF IInv
  <2>. QED BY <1>18, <2>1, <2>2, <2>3 DEF RegisterRecv
<1>19. CASE CountRecv(t)
  <2>1. stack' \in [Threads -> Seq(Labels)] /\ Turned("CountRecv", "WSARecv")
    BY <1>0, <1>19, GoesOn DEF CountRecv, At, Labels, Callbacks
  <2>2. Tally("CountRecv", "WSARecv", None)
    BY <1>0, <2>1, Tallied
  <2>3. /\ UNCHANGED <<Opening, OpeningOwned, Receiving, ReceivingOwned, Sending, SendingOwned,
                        Closes, ClosesOwned, Enqueuing, CallingBack, Noticing, Ending, Holding,
                        Buffering, Failing, Swapping, Dropping, Leaving>>
        /\ Counted' = Counted + 1
    BY <1>0, <2>2 DEF Sizes, Tally, Hits
  <2>4. Receiving > 0 /\ ReceivingOwned > 0
    BY <1>0, <1>19, AtWork DEF CountRecv, Receiving, ReceivingOwned
  <2>5. Sizes'
    BY <1>0, <1>19, <2>1, SizesNext DEF CountRecv, TypeOK, Events
  <2>6. TypeOK'
    BY <1>0, <1>19, <2>1, <2>3, <2>4, <2>5, BoundsAssumption
    DEF CountRecv, TypeOK, Sizes, Counting, CountOK
  <2>7. Counting'
    BY <1>0, <1>19, <2>3, <2>4, <2>5
    DEF CountRecv, Sizes, Counting, CountOK, OwnersOK, PhaseOK, FailOK, NoticeOK, SenderOK
  <2>8. ClearOK'
    BY <1>0, <1>19, ClearGoesOn DEF CountRecv, At, Labels, Callbacks
  <2>9. OrderOK'
    BY <1>0, <1>19, <2>3 DEF CountRecv, OrderOK, Taken
  <2>. QED BY <2>6, <2>7, <2>8, <2>9 DEF IInv
<1>20. CASE WSARecv(t)
  <2>1. CASE posted' = posted \union {"recv"} /\ Return(t)
    <3>1. "recv" \in Events \ posted
      <4>1. "recv" \in posted => Work(RecvWork) > 1
        BY <1>0, <1>20, <2>1, TopAndEvent DEF WSARecv, At, RecvWork
      <4>. QED BY <1>0, <4>1 DEF Sizes, Events, Counting, OwnersOK, Receiving
    <3>2. stack' \in [Threads -> Seq(Labels)] /\ Turned("WSARecv", "recv")
      BY <1>0, <1>20, <2>1, <3>1, Returns DEF WSARecv, At, Labels, Callbacks
    <3>3. Tally("WSARecv", "recv", None)
      BY <1>0, <3>2, Tallied
    <3>4. /\ UNCHANGED <<Counted, Opening, OpeningOwned, Receiving, ReceivingOwned, Sending,
                          SendingOwned, Closes, ClosesOwned, Enqueuing, CallingBack, Noticing, Ending,
                          Holding, Buffering, Failing, Swapping, Dropping, Leaving>>
      BY <1>0, <3>3 DEF Sizes, Tally, Hits
    <3>5. Counted > 0 /\ Receiving > 0 /\ ReceivingOwned > 0
      BY <1>0, <1>20, <2>1, AtWork DEF WSARecv, Counted, Receiving, ReceivingOwned
    <3>6. Sizes'
      BY <1>0, <1>20, <2>1, <3>2, SizesNext DEF WSARecv, TypeOK, Events
    <3>7. TypeOK'
      BY <1>0, <1>20, <2>1, <3>2, <3>4, <3>5, <3>6, BoundsAssumption
      DEF WSARecv, TypeOK, Events
    <3>8. Counting'
      BY <1>0, <1>20, <2>1, <3>4, <3>5, <3>6
      DEF WSARecv, Sizes, Counting, CountOK, OwnersOK, PhaseOK, FailOK, NoticeOK, SenderOK
    <3>9. ClearOK'
      BY <1>0, <1>20, <2>1, ClearReturns DEF WSARecv, At, Labels, Callbacks
    <3>10. OrderOK'
      BY <1>0, <1>20, <2>1, <3>4 DEF WSARecv, OrderOK, Taken
    <3>. QED BY <3>7, <3>8, <3>9, <3>10 DEF IInv
  <2>2. CASE Goto(t, <<"RecvFailed">>) /\ UNCHANGED posted
    <3>1. stack' \in [Threads -> Seq(Labels)] /\ Turned("WSARecv", "RecvFailed")
      BY <1>0, <1>20, <2>2, GoesOn DEF WSARecv, At, Labels, Callbacks
    <3>2. Tally("WSARecv", "RecvFailed", None)
      BY <1>0, <3>1, Tallied
    <3>3. /\ UNCHANGED <<Counted, Opening, OpeningOwned, Receiving, Sending, SendingOwned, Closes,
                          ClosesOwned, Enqueuing, CallingBack, Noticing, Ending, Holding, Buffering,
                          Failing, Swapping, Dropping, Leaving>>
          /\ ReceivingOwned' = ReceivingOwned - 1
      BY <1>0, <3>2 DEF Sizes, Tally, Hits
    <3>4. Counted > 0 /\ Receiving > 0
      BY <1>0, <1>20, <2>2, AtWork DEF WSARecv, Counted, Receiving
    <3>5. Sizes'
      BY <1>0, <1>20, <2>2, <3>1, SizesNext DEF WSARecv, TypeOK, Events
    <3>6. TypeOK'
      BY <1>0, <1>20, <2>2, <3>1, <3>3, <3>4, <3>5, BoundsAssumption
      DEF WSARecv, TypeOK, Events
    <3>7. Counting'
      BY <1>0, <1>20, <2>2, <3>3, <3>4, <3>5
      DEF WSARecv, Sizes, Counting, CountOK, OwnersOK, PhaseOK, FailOK, NoticeOK, SenderOK
    <3>8. ClearOK'
      BY <1>0, <1>20, <2>2, ClearGoesOn DEF WSARecv, At, Labels, Callbacks
    <3>9. OrderOK'
      BY <1>0, <1>20, <2>2, <3>3 DEF WSARecv, OrderOK, Taken
    <3>. QED BY <3>6, <3>7, <3>8, <3>9 DEF IInv
  <2>. QED BY <1>20, <2>1, <2>2 DEF WSARecv
<1>21. CASE RecvFailed(t)
  <2>1. stack' \in [Threads -> Seq(Labels)] /\ Turned("RecvFailed", "Disconnect")
    BY <1>0, <1>21, GoesOn DEF RecvFailed, At, Labels, Callbacks, DisconnectThen
  <2>2. Tally("RecvFailed", "Disconnect", None)
    BY <1>0, <2>1, Tallied
  <2>3. /\ UNCHANGED <<Opening, OpeningOwned, ReceivingOwned, Sending, SendingOwned, Closes,
                        ClosesOwned, Enqueuing, CallingBack, Noticing, Ending, Holding, Buffering,
                        Failing, Swapping, Dropping>>
        /\ Counted' = Counted - 1
        /\ Receiving' = Receiving - 1
        /\ Leaving' = Leaving + 1
    BY <1>0, <2>2 DEF Sizes, Tally, Hits
  <2>4. Sizes'
    BY <1>0, <1>21, <2>1, SizesNext DEF RecvFailed, TypeOK, Events
  <2>5. TypeOK'
    BY <1>0, <1>21, <2>1, <2>3, <2>4, BoundsAssumption
    DEF RecvFailed, TypeOK, DisconnectThen, Reasons, Sizes, Counting, CountOK
  <2>6. Counting'
    BY <1>0, <1>21, <2>3, <2>4
    DEF RecvFailed, Sizes, Counting, CountOK, OwnersOK, PhaseOK, FailOK, NoticeOK,
        SenderOK
  <2>7. ClearOK'
    BY <1>0, <1>21, ClearGoesOn DEF RecvFailed, At, Labels, Callbacks, DisconnectThen
  <2>8. OrderOK'
    BY <1>0, <1>21, <2>3 DEF RecvFailed, OrderOK, Taken
  <2>. QED BY <2>5, <2>6, <2>7, <2>8 DEF IInv
<1>22. CASE ProcessRecv(t)
  <2>1. CASE ~IsConnected
    <3>1. stack' \in [Threads -> Seq(Labels)] /\ Turned("ProcessRecv", "ReleaseIo")
      BY <1>0, <1>22, <2>1, GoesOn DEF ProcessRecv, At, Labels, Callbacks
    <3>2. Tally("ProcessRecv", "ReleaseIo", None)
      BY <1>0, <3>1, Tallied
    <3>3. /\ UNCHANGED <<Counted, Opening, OpeningOwned, ReceivingOwned, Sending, SendingOwned,
                          Closes, ClosesOwned, Enqueuing, CallingBack, Noticing, Ending, Holding,
                          Buffering, Failing, Swapping, Dropping, Leaving>>
          /\ Receiving' = Receiving - 1
      BY <1>0, <3>2 DEF Sizes, Tally, Hits
    <3>4. Counted > 0
      BY <1>0, <1>22, <2>1, AtWork DEF ProcessRecv, Counted
    <3>5. Sizes'
      BY <1>0, <1>22, <2>1, <3>1, SizesNext DEF ProcessRecv, TypeOK, Events
    <3>6. TypeOK'
      BY <1>0, <1>22, <2>1, <3>1, <3>3, <3>4, <3>5, BoundsAssumption DEF ProcessRecv, TypeOK
    <3>7. Counting'
      BY <1>0, <1>22, <2>1, <3>3, <3>4, <3>5
      DEF ProcessRecv, Sizes, Counting, CountOK, OwnersOK, PhaseOK, FailOK, NoticeOK,
          SenderOK
    <3>8. ClearOK'
      BY <1>0, <1>22, <2>1, ClearGoesOn DEF ProcessRecv, At, Labels, Callbacks
    <3>9. OrderOK'
      BY <1>0, <1>22, <2>1, <3>3 DEF ProcessRecv, OrderOK, Taken
    <3>. QED BY <3>6, <3>7, <3>8, <3>9 DEF IInv
  <2>2. CASE IsConnected
    <3>1. stack' \in [Threads -> Seq(Labels)] /\ Turned("ProcessRecv", "RecvLoop")
      BY <1>0, <1>22, <2>2, GoesOn DEF ProcessRecv, At, Labels, Callbacks
    <3>2. Tally("ProcessRecv", "RecvLoop", None)
      BY <1>0, <3>1, Tallied
    <3>3. /\ UNCHANGED <<Counted, Opening, OpeningOwned, Receiving, ReceivingOwned, Sending,
                          SendingOwned, Closes, ClosesOwned, Enqueuing, CallingBack, Noticing, Ending,
                          Holding, Buffering, Failing, Swapping, Dropping, Leaving>>
      BY <1>0, <3>2 DEF Sizes, Tally, Hits
    <3>4. Counted > 0 /\ Receiving > 0
      BY <1>0, <1>22, <2>2, AtWork DEF ProcessRecv, Counted, Receiving
    <3>5. Sizes'
      BY <1>0, <1>22, <2>2, <3>1, SizesNext DEF ProcessRecv, TypeOK, Events
    <3>6. TypeOK'
      BY <1>0, <1>22, <2>2, <3>1, <3>3, <3>4, <3>5, BoundsAssumption DEF ProcessRecv, TypeOK
    <3>7. Counting'
      BY <1>0, <1>22, <2>2, <3>3, <3>4, <3>5
      DEF ProcessRecv, Sizes, Counting, CountOK, OwnersOK, PhaseOK, FailOK, NoticeOK,
          SenderOK
    <3>8. ClearOK'
      BY <1>0, <1>22, <2>2, ClearGoesOn DEF ProcessRecv, At, Labels, Callbacks
    <3>9. OrderOK'
      BY <1>0, <1>22, <2>2, <3>3 DEF ProcessRecv, OrderOK, Taken
    <3>. QED BY <3>6, <3>7, <3>8, <3>9 DEF IInv
  <2>. QED BY <1>22, <2>1, <2>2 DEF ProcessRecv
<1>23. CASE RecvLoop(t)
  <2>1. CASE IsConnected /\ unread > 0
    <3>1. stack' \in [Threads -> Seq(Labels)] /\ Turned("RecvLoop", "OnRecv")
      BY <1>0, <1>23, <2>1, GoesOn DEF RecvLoop, At, Labels, Callbacks
    <3>2. Tally("RecvLoop", "OnRecv", None)
      BY <1>0, <3>1, Tallied
    <3>3. /\ UNCHANGED <<Counted, Opening, OpeningOwned, Receiving, ReceivingOwned, Sending,
                          SendingOwned, Closes, ClosesOwned, Enqueuing, Noticing, Ending, Holding,
                          Buffering, Failing, Swapping, Dropping, Leaving>>
          /\ CallingBack' = CallingBack + 1
      BY <1>0, <3>2 DEF Sizes, Tally, Hits
    <3>4. Counted > 0 /\ Receiving > 0
      BY <1>0, <1>23, <2>1, AtWork DEF RecvLoop, Counted, Receiving
    <3>5. Sizes'
      BY <1>0, <1>23, <2>1, <3>1, SizesNext DEF RecvLoop, TypeOK, Events
    <3>6. TypeOK'
      BY <1>0, <1>23, <2>1, <3>1, <3>3, <3>4, <3>5, BoundsAssumption DEF RecvLoop, TypeOK
    <3>7. Counting'
      BY <1>0, <1>23, <2>1, <3>3, <3>4, <3>5
      DEF RecvLoop, Sizes, Counting, CountOK, OwnersOK, PhaseOK, FailOK, NoticeOK,
          SenderOK
    <3>8. ClearOK'
      BY <1>0, <1>23, <2>1, ClearGoesOn DEF RecvLoop, At, Labels, Callbacks
    <3>9. OrderOK'
      BY <1>0, <1>23, <2>1, <3>3 DEF RecvLoop, OrderOK, Taken
    <3>. QED BY <3>6, <3>7, <3>8, <3>9 DEF IInv
  <2>2. CASE ~(IsConnected /\ unread > 0)
    <3>1. stack' \in [Threads -> Seq(Labels)] /\ Called("RecvLoop", "RegisterRecv", "ReleaseIo")
      BY <1>0, <1>23, <2>2, Calls DEF RecvLoop, At, Labels, Callbacks
    <3>2. Tally("RecvLoop", "RegisterRecv", "ReleaseIo")
      BY <1>0, <3>1, Tallied
    <3>3. /\ UNCHANGED <<Counted, Opening, OpeningOwned, Receiving, ReceivingOwned, Sending,
                          SendingOwned, Closes, ClosesOwned, Enqueuing, CallingBack, Noticing, Ending,
                          Holding, Buffering, Failing, Swapping, Dropping, Leaving>>
      BY <1>0, <3>2 DEF Sizes, Tally, Hits
    <3>4. Counted > 0 /\ Receiving > 0
      BY <1>0, <1>23, <2>2, AtWork DEF RecvLoop, Counted, Receiving
    <3>5. Sizes'
      BY <1>0, <1>23, <2>2, <3>1, SizesNext DEF RecvLoop, TypeOK, Events
    <3>6. TypeOK'
      BY <1>0, <1>23, <2>2, <3>1, <3>3, <3>4, <3>5, BoundsAssumption DEF RecvLoop, TypeOK
    <3>7. Counting'
      BY <1>0, <1>23, <2>2, <3>3, <3>4, <3>5
      DEF RecvLoop, Sizes, Counting, CountOK, OwnersOK, PhaseOK, FailOK, NoticeOK,
          SenderOK
    <3>8. ClearOK'
      BY <1>0, <1>23, <2>2, ClearCalls DEF RecvLoop, At, Labels, Callbacks
    <3>9. OrderOK'
      BY <1>0, <1>23, <2>2, <3>3 DEF RecvLoop, OrderOK, Taken
    <3>. QED BY <3>6, <3>7, <3>8, <3>9 DEF IInv
  <2>. QED BY <1>23, <2>1, <2>2 DEF RecvLoop
<1>24. CASE OnRecv(t)
  <2>1. CASE unread' \in 0 .. (unread - 1) /\ Goto(t, <<"RecvLoop">>) /\ UNCHANGED arguments
    <3>1. stack' \in [Threads -> Seq(Labels)] /\ Turned("OnRecv", "RecvLoop")
      BY <1>0, <1>24, <2>1, GoesOn DEF OnRecv, At, Labels, Callbacks
    <3>2. Tally("OnRecv", "RecvLoop", None)
      BY <1>0, <3>1, Tallied
    <3>3. /\ UNCHANGED <<Counted, Opening, OpeningOwned, Receiving, ReceivingOwned, Sending,
                          SendingOwned, Closes, ClosesOwned, Enqueuing, Noticing, Ending, Holding,
                          Buffering, Failing, Swapping, Dropping, Leaving>>
          /\ CallingBack' = CallingBack - 1
      BY <1>0, <3>2 DEF Sizes, Tally, Hits
    <3>4. Counted > 0 /\ Receiving > 0
      BY <1>0, <1>24, <2>1, AtWork DEF OnRecv, Counted, Receiving
    <3>5. Sizes'
      BY <1>0, <1>24, <2>1, <3>1, SizesNext DEF OnRecv, TypeOK, Events
    <3>6. TypeOK'
      BY <1>0, <1>24, <2>1, <3>1, <3>3, <3>4, <3>5, BoundsAssumption
      DEF OnRecv, TypeOK, DisconnectThen, Reasons
    <3>7. Counting'
      BY <1>0, <1>24, <2>1, <3>3, <3>4, <3>5
      DEF OnRecv, Sizes, Counting, CountOK, OwnersOK, PhaseOK, FailOK, NoticeOK, SenderOK
    <3>8. ClearOK'
      BY <1>0, <1>24, <2>1, ClearGoesOn DEF OnRecv, At, Labels, Callbacks
    <3>9. OrderOK'
      BY <1>0, <1>24, <2>1, <3>3 DEF OnRecv, OrderOK, Taken
    <3>. QED BY <3>6, <3>7, <3>8, <3>9 DEF IInv
  <2>2. CASE Goto(t, <<"RegisterRecv", "ReleaseIo">>) /\ UNCHANGED <<unread, arguments>>
    <3>1. stack' \in [Threads -> Seq(Labels)] /\ Called("OnRecv", "RegisterRecv", "ReleaseIo")
      BY <1>0, <1>24, <2>2, Calls DEF OnRecv, At, Labels, Callbacks
    <3>2. Tally("OnRecv", "RegisterRecv", "ReleaseIo")
      BY <1>0, <3>1, Tallied
    <3>3. /\ UNCHANGED <<Counted, Opening, OpeningOwned, Receiving, ReceivingOwned, Sending,
                          SendingOwned, Closes, ClosesOwned, Enqueuing, Noticing, Ending, Holding,
                          Buffering, Failing, Swapping, Dropping, Leaving>>
          /\ CallingBack' = CallingBack - 1
      BY <1>0, <3>2 DEF Sizes, Tally, Hits
    <3>4. Counted > 0 /\ Receiving > 0
      BY <1>0, <1>24, <2>2, AtWork DEF OnRecv, Counted, Receiving
    <3>5. Sizes'
      BY <1>0, <1>24, <2>2, <3>1, SizesNext DEF OnRecv, TypeOK, Events
    <3>6. TypeOK'
      BY <1>0, <1>24, <2>2, <3>1, <3>3, <3>4, <3>5, BoundsAssumption
      DEF OnRecv, TypeOK, DisconnectThen, Reasons
    <3>7. Counting'
      BY <1>0, <1>24, <2>2, <3>3, <3>4, <3>5
      DEF OnRecv, Sizes, Counting, CountOK, OwnersOK, PhaseOK, FailOK, NoticeOK, SenderOK
    <3>8. ClearOK'
      BY <1>0, <1>24, <2>2, ClearCalls DEF OnRecv, At, Labels, Callbacks
    <3>9. OrderOK'
      BY <1>0, <1>24, <2>2, <3>3 DEF OnRecv, OrderOK, Taken
    <3>. QED BY <3>6, <3>7, <3>8, <3>9 DEF IInv
  <2>3. CASE DisconnectThen(t, "error", <<"ReleaseIo">>) /\ UNCHANGED unread
    <3>1. stack' \in [Threads -> Seq(Labels)] /\ Called("OnRecv", "Disconnect", "ReleaseIo")
      BY <1>0, <1>24, <2>3, DisconnectCalls DEF OnRecv, At, Labels, Callbacks
    <3>2. Tally("OnRecv", "Disconnect", "ReleaseIo")
      BY <1>0, <3>1, Tallied
    <3>3. /\ UNCHANGED <<Counted, Opening, OpeningOwned, ReceivingOwned, Sending, SendingOwned,
                          Closes, ClosesOwned, Enqueuing, Noticing, Ending, Holding, Buffering,
                          Failing, Swapping, Dropping>>
          /\ Receiving' = Receiving - 1
          /\ CallingBack' = CallingBack - 1
          /\ Leaving' = Leaving + 1
      BY <1>0, <3>2 DEF Sizes, Tally, Hits
    <3>4. Counted > 0
      BY <1>0, <1>24, <2>3, AtWork DEF OnRecv, Counted
    <3>5. Sizes'
      BY <1>0, <1>24, <2>3, <3>1, SizesNext DEF OnRecv, TypeOK, Events
    <3>6. TypeOK'
      BY <1>0, <1>24, <2>3, <3>1, <3>3, <3>4, <3>5, BoundsAssumption
      DEF OnRecv, TypeOK, DisconnectThen, Reasons
    <3>7. Counting'
      BY <1>0, <1>24, <2>3, <3>3, <3>4, <3>5
      DEF OnRecv, Sizes, Counting, CountOK, OwnersOK, PhaseOK, FailOK, NoticeOK, SenderOK
    <3>8. ClearOK'
      BY <1>0, <1>24, <2>3, ClearDisconnects DEF OnRecv, At, Labels, Callbacks
    <3>9. OrderOK'
      BY <1>0, <1>24, <2>3, <3>3 DEF OnRecv, OrderOK, Taken
    <3>. QED BY <3>6, <3>7, <3>8, <3>9 DEF IInv
  <2>. QED BY <1>24, <2>1, <2>2, <2>3 DEF OnRecv
<1>25. CASE Graceful(t)
  <2>1. stack' \in [Threads -> Seq(Labels)] /\ Called("Graceful", "Disconnect", "ReleaseIo")
    BY <1>0, <1>25, DisconnectCalls DEF Graceful, At, Labels, Callbacks
  <2>2. Tally("Graceful", "Disconnect", "ReleaseIo")
    BY <1>0, <2>1, Tallied
  <2>3. /\ UNCHANGED <<Counted, Opening, OpeningOwned, Receiving, ReceivingOwned, Sending,
                        SendingOwned, Closes, ClosesOwned, Enqueuing, CallingBack, Noticing, Ending,
                        Holding, Buffering, Failing, Swapping, Dropping>>
        /\ Leaving' = Leaving + 1
    BY <1>0, <2>2 DEF Sizes, Tally, Hits
  <2>4. Counted > 0
    BY <1>0, <1>25, AtWork DEF Graceful, Counted
  <2>5. Sizes'
    BY <1>0, <1>25, <2>1, SizesNext DEF Graceful, TypeOK, Events
  <2>6. TypeOK'
    BY <1>0, <1>25, <2>1, <2>3, <2>4, <2>5, BoundsAssumption
    DEF Graceful, TypeOK, DisconnectThen, Reasons
  <2>7. Counting'
    BY <1>0, <1>25, <2>3, <2>4, <2>5
    DEF Graceful, Sizes, Counting, CountOK, OwnersOK, PhaseOK, FailOK, NoticeOK, SenderOK
  <2>8. ClearOK'
    BY <1>0, <1>25, ClearDisconnects DEF Graceful, At, Labels, Callbacks
  <2>9. OrderOK'
    BY <1>0, <1>25, <2>3 DEF Graceful, OrderOK, Taken
  <2>. QED BY <2>6, <2>7, <2>8, <2>9 DEF IInv
<1>26. CASE ProcessRecvZero(t, "RecvEof")
  <2>1. CASE ~IsConnected
    <3>1. stack' \in [Threads -> Seq(Labels)] /\ Turned("RecvEof", "ReleaseIo")
      BY <1>0, <1>26, <2>1, GoesOn DEF ProcessRecvZero, At, Labels, Callbacks
    <3>2. Tally("RecvEof", "ReleaseIo", None)
      BY <1>0, <3>1, Tallied
    <3>3. /\ UNCHANGED <<Counted, Opening, OpeningOwned, Receiving, ReceivingOwned, Sending,
                          SendingOwned, Closes, ClosesOwned, Enqueuing, CallingBack, Noticing, Ending,
                          Holding, Buffering, Failing, Swapping, Dropping, Leaving>>
      BY <1>0, <3>2 DEF Sizes, Tally, Hits
    <3>4. Counted > 0
      BY <1>0, <1>26, <2>1, AtWork DEF ProcessRecvZero, Counted
    <3>5. Sizes'
      BY <1>0, <1>26, <2>1, <3>1, SizesNext DEF ProcessRecvZero, TypeOK, Events
    <3>6. TypeOK'
      BY <1>0, <1>26, <2>1, <3>1, <3>3, <3>4, <3>5, BoundsAssumption
      DEF ProcessRecvZero, TypeOK, DisconnectThen, Reasons
    <3>7. Counting'
      BY <1>0, <1>26, <2>1, <3>3, <3>4, <3>5
      DEF ProcessRecvZero, Sizes, Counting, CountOK, OwnersOK, PhaseOK, FailOK, NoticeOK,
          SenderOK
    <3>8. ClearOK'
      BY <1>0, <1>26, <2>1, ClearGoesOn DEF ProcessRecvZero, At, Labels, Callbacks
    <3>9. OrderOK'
      BY <1>0, <1>26, <2>1, <3>3 DEF ProcessRecvZero, OrderOK, Taken
    <3>. QED BY <3>6, <3>7, <3>8, <3>9 DEF IInv
  <2>2. CASE IsConnected
    <3>1. stack' \in [Threads -> Seq(Labels)] /\ Turned("RecvEof", "Graceful")
      BY <1>0, <1>26, <2>2, GoesOn DEF ProcessRecvZero, At, Labels, Callbacks
    <3>2. Tally("RecvEof", "Graceful", None)
      BY <1>0, <3>1, Tallied
    <3>3. /\ UNCHANGED <<Counted, Opening, OpeningOwned, Receiving, ReceivingOwned, Sending,
                          SendingOwned, Closes, ClosesOwned, Enqueuing, CallingBack, Noticing, Ending,
                          Holding, Buffering, Failing, Swapping, Dropping, Leaving>>
      BY <1>0, <3>2 DEF Sizes, Tally, Hits
    <3>4. Counted > 0
      BY <1>0, <1>26, <2>2, AtWork DEF ProcessRecvZero, Counted
    <3>5. Sizes'
      BY <1>0, <1>26, <2>2, <3>1, SizesNext DEF ProcessRecvZero, TypeOK, Events
    <3>6. TypeOK'
      BY <1>0, <1>26, <2>2, <3>1, <3>3, <3>4, <3>5, BoundsAssumption
      DEF ProcessRecvZero, TypeOK, DisconnectThen, Reasons
    <3>7. Counting'
      BY <1>0, <1>26, <2>2, <3>3, <3>4, <3>5
      DEF ProcessRecvZero, Sizes, Counting, CountOK, OwnersOK, PhaseOK, FailOK, NoticeOK,
          SenderOK
    <3>8. ClearOK'
      BY <1>0, <1>26, <2>2, ClearGoesOn DEF ProcessRecvZero, At, Labels, Callbacks
    <3>9. OrderOK'
      BY <1>0, <1>26, <2>2, <3>3 DEF ProcessRecvZero, OrderOK, Taken
    <3>. QED BY <3>6, <3>7, <3>8, <3>9 DEF IInv
  <2>. QED BY <1>26, <2>1, <2>2 DEF ProcessRecvZero
<1>27. CASE ProcessRecvZero(t, "RecvError")
  <2>1. CASE ~IsConnected
    <3>1. stack' \in [Threads -> Seq(Labels)] /\ Turned("RecvError", "ReleaseIo")
      BY <1>0, <1>27, <2>1, GoesOn DEF ProcessRecvZero, At, Labels, Callbacks
    <3>2. Tally("RecvError", "ReleaseIo", None)
      BY <1>0, <3>1, Tallied
    <3>3. /\ UNCHANGED <<Counted, Opening, OpeningOwned, Receiving, ReceivingOwned, Sending,
                          SendingOwned, Closes, ClosesOwned, Enqueuing, CallingBack, Noticing, Ending,
                          Holding, Buffering, Failing, Swapping, Dropping, Leaving>>
      BY <1>0, <3>2 DEF Sizes, Tally, Hits
    <3>4. Counted > 0
      BY <1>0, <1>27, <2>1, AtWork DEF ProcessRecvZero, Counted
    <3>5. Sizes'
      BY <1>0, <1>27, <2>1, <3>1, SizesNext DEF ProcessRecvZero, TypeOK, Events
    <3>6. TypeOK'
      BY <1>0, <1>27, <2>1, <3>1, <3>3, <3>4, <3>5, BoundsAssumption
      DEF ProcessRecvZero, TypeOK, DisconnectThen, Reasons
    <3>7. Counting'
      BY <1>0, <1>27, <2>1, <3>3, <3>4, <3>5
      DEF ProcessRecvZero, Sizes, Counting, CountOK, OwnersOK, PhaseOK, FailOK, NoticeOK,
          SenderOK
    <3>8. ClearOK'
      BY <1>0, <1>27, <2>1, ClearGoesOn DEF ProcessRecvZero, At, Labels, Callbacks
    <3>9. OrderOK'
      BY <1>0, <1>27, <2>1, <3>3 DEF ProcessRecvZero, OrderOK, Taken
    <3>. QED BY <3>6, <3>7, <3>8, <3>9 DEF IInv
  <2>2. CASE IsConnected
    <3>1. stack' \in [Threads -> Seq(Labels)] /\ Called("RecvError", "Disconnect", "ReleaseIo")
      BY <1>0, <1>27, <2>2, DisconnectCalls DEF ProcessRecvZero, At, Labels, Callbacks
    <3>2. Tally("RecvError", "Disconnect", "ReleaseIo")
      BY <1>0, <3>1, Tallied
    <3>3. /\ UNCHANGED <<Counted, Opening, OpeningOwned, Receiving, ReceivingOwned, Sending,
                          SendingOwned, Closes, ClosesOwned, Enqueuing, CallingBack, Noticing, Ending,
                          Holding, Buffering, Failing, Swapping, Dropping>>
          /\ Leaving' = Leaving + 1
      BY <1>0, <3>2 DEF Sizes, Tally, Hits
    <3>4. Counted > 0
      BY <1>0, <1>27, <2>2, AtWork DEF ProcessRecvZero, Counted
    <3>5. Sizes'
      BY <1>0, <1>27, <2>2, <3>1, SizesNext DEF ProcessRecvZero, TypeOK, Events
    <3>6. TypeOK'
      BY <1>0, <1>27, <2>2, <3>1, <3>3, <3>4, <3>5, BoundsAssumption
      DEF ProcessRecvZero, TypeOK, DisconnectThen, Reasons
    <3>7. Counting'
      BY <1>0, <1>27, <2>2, <3>3, <3>4, <3>5
      DEF ProcessRecvZero, Sizes, Counting, CountOK, OwnersOK, PhaseOK, FailOK, NoticeOK,
          SenderOK
    <3>8. ClearOK'
      BY <1>0, <1>27, <2>2, ClearDisconnects DEF ProcessRecvZero, At, Labels, Callbacks
    <3>9. OrderOK'
      BY <1>0, <1>27, <2>2, <3>3 DEF ProcessRecvZero, OrderOK, Taken
    <3>. QED BY <3>6, <3>7, <3>8, <3>9 DEF IInv
  <2>. QED BY <1>27, <2>1, <2>2 DEF ProcessRecvZero
<1>28. CASE EnqueueSend(t)
  <2>1. CASE IsConnected
    <3>1. stack' \in [Threads -> Seq(Labels)] /\ Turned("EnqueueSend", "EnqueueLocked")
      BY <1>0, <1>28, <2>1, GoesOn DEF EnqueueSend, At, Labels, Callbacks
    <3>2. Tally("EnqueueSend", "EnqueueLocked", None)
      BY <1>0, <3>1, Tallied
    <3>3. /\ UNCHANGED <<Counted, Opening, OpeningOwned, Receiving, ReceivingOwned, Sending,
                          SendingOwned, Closes, ClosesOwned, Enqueuing, CallingBack, Noticing, Ending,
                          Holding, Buffering, Failing, Swapping, Dropping, Leaving>>
      BY <1>0, <3>2 DEF Sizes, Tally, Hits
    <3>4. Enqueuing > 0
      BY <1>0, <1>28, <2>1, AtWork DEF EnqueueSend, Enqueuing
    <3>5. Sizes'
      BY <1>0, <1>28, <2>1, <3>1, SizesNext DEF EnqueueSend, TypeOK, Events
    <3>6. TypeOK'
      BY <1>0, <1>28, <2>1, <3>1, <3>3, <3>4, <3>5, BoundsAssumption DEF EnqueueSend, TypeOK
    <3>7. Counting'
      BY <1>0, <1>28, <2>1, <3>3, <3>4, <3>5
      DEF EnqueueSend, Sizes, Counting, CountOK, OwnersOK, PhaseOK, FailOK, NoticeOK,
          SenderOK
    <3>8. ClearOK'
      BY <1>0, <1>28, <2>1, ClearGoesOn DEF EnqueueSend, At, Labels, Callbacks
    <3>9. OrderOK'
      BY <1>0, <1>28, <2>1, <3>3 DEF EnqueueSend, OrderOK, Taken
    <3>. QED BY <3>6, <3>7, <3>8, <3>9 DEF IInv
  <2>2. CASE ~IsConnected
    <3>1. stack' \in [Threads -> Seq(Labels)] /\ Gone("EnqueueSend")
      BY <1>0, <1>28, <2>2, Returns DEF EnqueueSend, At, Labels, Callbacks
    <3>2. Tally("EnqueueSend", None, None)
      BY <1>0, <3>1, Tallied
    <3>3. /\ UNCHANGED <<Counted, Opening, OpeningOwned, Receiving, ReceivingOwned, Sending,
                          SendingOwned, Closes, ClosesOwned, CallingBack, Noticing, Ending, Holding,
                          Buffering, Failing, Swapping, Dropping, Leaving>>
          /\ Enqueuing' = Enqueuing - 1
      BY <1>0, <3>2 DEF Sizes, Tally, Hits
    <3>4. Sizes'
      BY <1>0, <1>28, <2>2, <3>1, SizesNext DEF EnqueueSend, TypeOK, Events
    <3>5. TypeOK'
      BY <1>0, <1>28, <2>2, <3>1, <3>3, <3>4, BoundsAssumption DEF EnqueueSend, TypeOK
    <3>6. Counting'
      BY <1>0, <1>28, <2>2, <3>3, <3>4
      DEF EnqueueSend, Sizes, Counting, CountOK, OwnersOK, PhaseOK, FailOK, NoticeOK,
          SenderOK
    <3>7. ClearOK'
      BY <1>0, <1>28, <2>2, ClearReturns DEF EnqueueSend, At, Labels, Callbacks
    <3>8. OrderOK'
      BY <1>0, <1>28, <2>2, <3>3 DEF EnqueueSend, OrderOK, Taken
    <3>. QED BY <3>5, <3>6, <3>7, <3>8 DEF IInv
  <2>. QED BY <1>28, <2>1, <2>2 DEF EnqueueSend
<1>29. CASE EnqueueLocked(t)
  <2>1. CASE MaxSendQueue # 0 /\ Len(sendQueue) + 1 > MaxSendQueue
    <3>1. stack' \in [Threads -> Seq(Labels)] /\ Turned("EnqueueLocked", "Disconnect")
      BY <1>0, <1>29, <2>1, GoesOn DEF EnqueueLocked, At, Labels, Callbacks, DisconnectThen
    <3>2. Tally("EnqueueLocked", "Disconnect", None)
      BY <1>0, <3>1, Tallied
    <3>3. /\ UNCHANGED <<Counted, Opening, OpeningOwned, Receiving, ReceivingOwned, Sending,
                          SendingOwned, Closes, ClosesOwned, CallingBack, Noticing, Ending, Holding,
                          Buffering, Failing, Swapping, Dropping>>
          /\ Enqueuing' = Enqueuing - 1
          /\ Leaving' = Leaving + 1
      BY <1>0, <3>2 DEF Sizes, Tally, Hits
    <3>4. Sizes'
      BY <1>0, <1>29, <2>1, <3>1, SizesNext DEF EnqueueLocked, TypeOK, Events
    <3>5. TypeOK'
      BY <1>0, <1>29, <2>1, <3>1, <3>3, <3>4, BoundsAssumption
      DEF EnqueueLocked, TypeOK, DisconnectThen, Reasons
    <3>6. Counting'
      BY <1>0, <1>29, <2>1, <3>3, <3>4
      DEF EnqueueLocked, Sizes, Counting, CountOK, OwnersOK, PhaseOK, FailOK, NoticeOK,
          SenderOK
    <3>7. ClearOK'
      BY <1>0, <1>29, <2>1, ClearGoesOn
      DEF EnqueueLocked, At, Labels, Callbacks, DisconnectThen
    <3>8. OrderOK'
      BY <1>0, <1>29, <2>1, <3>3 DEF EnqueueLocked, OrderOK, Taken
    <3>. QED BY <3>5, <3>6, <3>7, <3>8 DEF IInv
  <2>2. CASE ~(MaxSendQueue # 0 /\ Len(sendQueue) + 1 > MaxSendQueue) /\ sendRegistered
    <3>1. stack' \in [Threads -> Seq(Labels)] /\ Gone("EnqueueLocked")
      BY <1>0, <1>29, <2>2, Returns DEF EnqueueLocked, At, Labels, Callbacks
    <3>2. Tally("EnqueueLocked", None, None)
      BY <1>0, <3>1, Tallied
    <3>3. /\ UNCHANGED <<Counted, Opening, OpeningOwned, Receiving, ReceivingOwned, Sending,
                          SendingOwned, Closes, ClosesOwned, CallingBack, Noticing, Ending, Holding,
                          Buffering, Failing, Swapping, Dropping, Leaving>>
          /\ Enqueuing' = Enqueuing - 1
      BY <1>0, <3>2 DEF Sizes, Tally, Hits
    <3>4. Sizes'
      BY <1>0, <1>29, <2>2, <3>1, SizesNext DEF EnqueueLocked, TypeOK, Events
    <3>5. sendQueue' = sendQueue \o message[t] /\ accepted' = accepted \o message[t]
      BY <1>0, <1>29, <2>2 DEF EnqueueLocked
    <3>6. sendQueue' \in Seq(Messages) /\ accepted' \in Seq(Messages)
      BY <1>0, <3>5 DEF TypeOK
    <3>7. TypeOK'
      BY <1>0, <1>29, <2>2, <3>1, <3>3, <3>5, <3>6, <3>4, BoundsAssumption
      DEF EnqueueLocked, TypeOK, DisconnectThen, Reasons
    <3>8. Counting'
      BY <1>0, <1>29, <2>2, <3>3, <3>4
      DEF EnqueueLocked, Sizes, Counting, CountOK, OwnersOK, PhaseOK, FailOK, NoticeOK,
          SenderOK
    <3>9. ClearOK'
      BY <1>0, <1>29, <2>2, ClearReturns DEF EnqueueLocked, At, Labels, Callbacks
    <3>10. OrderOK'
      <4>0. /\ sendQueue' = sendQueue \o message[t] /\ accepted' = accepted \o message[t]
            /\ wire' = wire /\ Taken' = Taken /\ state' = state /\ Swapping' = Swapping
        BY <1>29, <2>2, <3>3 DEF EnqueueLocked, Taken
      <4>1. /\ wire \in Seq(Messages) /\ Taken \in Seq(Messages) /\ wire \o Taken \in Seq(Messages)
            /\ sendQueue \in Seq(Messages) /\ accepted \in Seq(Messages) /\ message[t] \in Seq(Messages)
        BY <1>0 DEF TypeOK, Taken
      <4>2. IsPrefix(wire \o Taken, accepted \o message[t])
        BY <1>0, <4>1, PrefixLonger DEF OrderOK
      <4>3. ((wire \o Taken) \o sendQueue) \o message[t] = (wire \o Taken) \o (sendQueue \o message[t])
        <5>1. \A a, b, c \in Seq(Messages) : (a \o b) \o c = a \o (b \o c)
          BY Concatenation
        <5>. QED BY <4>1, <5>1, Zenon
      <4>. QED BY <1>0, <4>0, <4>2, <4>3 DEF OrderOK, IsConnected
    <3>. QED BY <3>7, <3>8, <3>9, <3>10 DEF IInv
  <2>3. CASE ~(MaxSendQueue # 0 /\ Len(sendQueue) + 1 > MaxSendQueue) /\ ~sendRegistered
    <3>1. stack' \in [Threads -> Seq(Labels)] /\ Turned("EnqueueLocked", "RegisterSend")
      BY <1>0, <1>29, <2>3, GoesOn DEF EnqueueLocked, At, Labels, Callbacks
    <3>2. Tally("EnqueueLocked", "RegisterSend", None)
      BY <1>0, <3>1, Tallied
    <3>3. /\ UNCHANGED <<Counted, Opening, OpeningOwned, Receiving, ReceivingOwned, SendingOwned,
                          Closes, ClosesOwned, CallingBack, Noticing, Ending, Holding, Buffering,
                          Failing, Swapping, Dropping, Leaving>>
          /\ Sending' = Sending + 1
          /\ Enqueuing' = Enqueuing - 1
      BY <1>0, <3>2 DEF Sizes, Tally, Hits
    <3>4. Sizes'
      BY <1>0, <1>29, <2>3, <3>1, SizesNext DEF EnqueueLocked, TypeOK, Events
    <3>5. sendQueue' = sendQueue \o message[t] /\ accepted' = accepted \o message[t]
      BY <1>0, <1>29, <2>3 DEF EnqueueLocked
    <3>6. sendQueue' \in Seq(Messages) /\ accepted' \in Seq(Messages)
      BY <1>0, <3>5 DEF TypeOK
    <3>7. TypeOK'
      BY <1>0, <1>29, <2>3, <3>1, <3>3, <3>5, <3>6, <3>4, BoundsAssumption
      DEF EnqueueLocked, TypeOK, DisconnectThen, Reasons
    <3>8. Counting'
      BY <1>0, <1>29, <2>3, <3>3, <3>4
      DEF EnqueueLocked, Sizes, Counting, CountOK, OwnersOK, PhaseOK, FailOK, NoticeOK,
          SenderOK
    <3>9. ClearOK'
      BY <1>0, <1>29, <2>3, ClearGoesOn DEF EnqueueLocked, At, Labels, Callbacks
    <3>10. OrderOK'
      <4>0. /\ sendQueue' = sendQueue \o message[t] /\ accepted' = accepted \o message[t]
            /\ wire' = wire /\ Taken' = Taken /\ state' = state /\ Swapping' = Swapping
        BY <1>29, <2>3, <3>3 DEF EnqueueLocked, Taken
      <4>1. /\ wire \in Seq(Messages) /\ Taken \in Seq(Messages) /\ wire \o Taken \in Seq(Messages)
            /\ sendQueue \in Seq(Messages) /\ accepted \in Seq(Messages) /\ message[t] \in Seq(Messages)
        BY <1>0 DEF TypeOK, Taken
      <4>2. IsPrefix(wire \o Taken, accepted \o message[t])
        BY <1>0, <4>1, PrefixLonger DEF OrderOK
      <4>3. ((wire \o Taken) \o sendQueue) \o message[t] = (wire \o Taken) \o (sendQueue \o message[t])
        <5>1. \A a, b, c \in Seq(Messages) : (a \o b) \o c = a \o (b \o c)
          BY Concatenation
        <5>. QED BY <4>1, <5>1, Zenon
      <4>. QED BY <1>0, <4>0, <4>2, <4>3 DEF OrderOK, IsConnected
    <3>. QED BY <3>7, <3>8, <3>9, <3>10 DEF IInv
  <2>. QED BY <1>29, <2>1, <2>2, <2>3 DEF EnqueueLocked
<1>30. CASE RegisterSend(t)
  <2>1. CASE IsConnected
    <3>1. stack' \in [Threads -> Seq(Labels)] /\ Turned("RegisterSend", "SwapSendQueue")
      BY <1>0, <1>30, <2>1, GoesOn DEF RegisterSend, At, Labels, Callbacks
    <3>2. Tally("RegisterSend", "SwapSendQueue", None)
      BY <1>0, <3>1, Tallied
    <3>3. /\ UNCHANGED <<Counted, Opening, OpeningOwned, Receiving, ReceivingOwned, Sending, Closes,
                          ClosesOwned, Enqueuing, CallingBack, Noticing, Ending, Holding, Buffering,
                          Failing, Dropping, Leaving>>
          /\ SendingOwned' = SendingOwned + 1
          /\ Swapping' = Swapping + 1
      BY <1>0, <3>2 DEF Sizes, Tally, Hits
    <3>4. Sending > 0
      BY <1>0, <1>30, <2>1, AtWork DEF RegisterSend, Sending
    <3>5. Sizes'
      BY <1>0, <1>30, <2>1, <3>1, SizesNext DEF RegisterSend, TypeOK, Events
    <3>6. TypeOK'
      BY <1>0, <1>30, <2>1, <3>1, <3>3, <3>4, <3>5, BoundsAssumption
      DEF RegisterSend, TypeOK, Events
    <3>7. Counting'
      BY <1>0, <1>30, <2>1, <3>3, <3>4, <3>5
      DEF RegisterSend, Sizes, Counting, CountOK, OwnersOK, PhaseOK, FailOK, NoticeOK,
          SenderOK
    <3>8. ClearOK'
      BY <1>0, <1>30, <2>1, ClearGoesOn DEF RegisterSend, At, Labels, Callbacks
    <3>9. OrderOK'
      BY <1>0, <1>30, <2>1, <3>3 DEF RegisterSend, OrderOK, Taken
    <3>. QED BY <3>6, <3>7, <3>8, <3>9 DEF IInv
  <2>2. CASE ~IsConnected
    <3>1. stack' \in [Threads -> Seq(Labels)] /\ Gone("RegisterSend")
      BY <1>0, <1>30, <2>2, Returns DEF RegisterSend, At, Labels, Callbacks
    <3>2. Tally("RegisterSend", None, None)
      BY <1>0, <3>1, Tallied
    <3>3. /\ UNCHANGED <<Counted, Opening, OpeningOwned, Receiving, ReceivingOwned, SendingOwned,
                          Closes, ClosesOwned, Enqueuing, CallingBack, Noticing, Ending, Holding,
                          Buffering, Failing, Swapping, Dropping, Leaving>>
          /\ Sending' = Sending - 1
      BY <1>0, <3>2 DEF Sizes, Tally, Hits
    <3>4. Sizes'
      BY <1>0, <1>30, <2>2, <3>1, SizesNext DEF RegisterSend, TypeOK, Events
    <3>5. TypeOK'
      BY <1>0, <1>30, <2>2, <3>1, <3>3, <3>4, BoundsAssumption
      DEF RegisterSend, TypeOK, Events
    <3>6. Counting'
      BY <1>0, <1>30, <2>2, <3>3, <3>4
      DEF RegisterSend, Sizes, Counting, CountOK, OwnersOK, PhaseOK, FailOK, NoticeOK,
          SenderOK
    <3>7. ClearOK'
      BY <1>0, <1>30, <2>2, ClearReturns DEF RegisterSend, At, Labels, Callbacks
    <3>8. OrderOK'
      BY <1>0, <1>30, <2>2, <3>3 DEF RegisterSend, OrderOK, Taken
    <3>. QED BY <3>5, <3>6, <3>7, <3>8 DEF IInv
  <2>. QED BY <1>30, <2>1, <2>2 DEF RegisterSend
<1>31. CASE SwapSendQueue(t)
  <2>1. CASE sendQueue = <<>>
    <3>1. stack' \in [Threads -> Seq(Labels)] /\ Gone("SwapSendQueue")
      BY <1>0, <1>31, <2>1, Returns DEF SwapSendQueue, At, Labels, Callbacks
    <3>2. Tally("SwapSendQueue", None, None)
      BY <1>0, <3>1, Tallied
    <3>3. /\ UNCHANGED <<Counted, Opening, OpeningOwned, Receiving, ReceivingOwned, Closes,
                          ClosesOwned, Enqueuing, CallingBack, Noticing, Ending, Holding, Buffering,
                          Failing, Dropping, Leaving>>
          /\ Sending' = Sending - 1
          /\ SendingOwned' = SendingOwned - 1
          /\ Swapping' = Swapping - 1
      BY <1>0, <3>2 DEF Sizes, Tally, Hits
    <3>4. Sizes'
      BY <1>0, <1>31, <2>1, <3>1, SizesNext DEF SwapSendQueue, TypeOK, Events
    <3>5. TypeOK'
      BY <1>0, <1>31, <2>1, <3>1, <3>3, <3>4, BoundsAssumption DEF SwapSendQueue, TypeOK
    <3>6. Counting'
      BY <1>0, <1>31, <2>1, <3>3, <3>4
      DEF SwapSendQueue, Sizes, Counting, CountOK, OwnersOK, PhaseOK, FailOK, NoticeOK,
          SenderOK
    <3>7. ClearOK'
      BY <1>0, <1>31, <2>1, ClearReturns DEF SwapSendQueue, At, Labels, Callbacks
    <3>8. OrderOK'
      <4>1. /\ sendQueue = <<>> /\ sendBuffers = <<>> /\ Swapping > 0
        BY <1>0, <1>31, <2>1, <3>3, <3>4 DEF Sizes, Counting, OwnersOK, SenderOK
      <4>2. Taken = <<>> /\ Taken' = <<>> /\ sendQueue' = <<>> /\ UNCHANGED <<state, accepted, wire>>
        BY <1>31, <2>1, <4>1 DEF SwapSendQueue, Taken, history
      <4>. QED BY <1>0, <4>1, <4>2 DEF OrderOK
    <3>. QED BY <3>5, <3>6, <3>7, <3>8 DEF IInv
  <2>2. CASE sendQueue # <<>>
    <3>1. stack' \in [Threads -> Seq(Labels)] /\ Turned("SwapSendQueue", "CountSend")
      BY <1>0, <1>31, <2>2, GoesOn DEF SwapSendQueue, At, Labels, Callbacks
    <3>2. Tally("SwapSendQueue", "CountSend", None)
      BY <1>0, <3>1, Tallied
    <3>3. /\ UNCHANGED <<Counted, Opening, OpeningOwned, Receiving, ReceivingOwned, Sending,
                          SendingOwned, Closes, ClosesOwned, Enqueuing, CallingBack, Noticing, Ending,
                          Failing, Dropping, Leaving>>
          /\ Holding' = Holding + 1
          /\ Buffering' = Buffering + 1
          /\ Swapping' = Swapping - 1
      BY <1>0, <3>2 DEF Sizes, Tally, Hits
    <3>4. Sending > 0 /\ SendingOwned > 0
      BY <1>0, <1>31, <2>2, AtWork DEF SwapSendQueue, Sending, SendingOwned
    <3>5. Sizes'
      BY <1>0, <1>31, <2>2, <3>1, SizesNext DEF SwapSendQueue, TypeOK, Events
    <3>6. TypeOK'
      BY <1>0, <1>31, <2>2, <3>1, <3>3, <3>4, <3>5, BoundsAssumption
      DEF SwapSendQueue, TypeOK
    <3>7. Counting'
      BY <1>0, <1>31, <2>2, <3>3, <3>4, <3>5
      DEF SwapSendQueue, Sizes, Counting, CountOK, OwnersOK, PhaseOK, FailOK, NoticeOK,
          SenderOK
    <3>8. ClearOK'
      BY <1>0, <1>31, <2>2, ClearGoesOn DEF SwapSendQueue, At, Labels, Callbacks
    <3>9. OrderOK'
      <4>1. /\ sendBuffers = <<>> /\ Swapping > 0 /\ Holding' # 0
        BY <1>0, <1>31, <2>2, <3>3, <3>5 DEF Sizes, Counting, OwnersOK, SenderOK
      <4>2. /\ Taken = <<>> /\ Taken' = sendQueue /\ sendQueue' = <<>> /\ UNCHANGED <<state, accepted, wire>>
        BY <1>31, <2>2, <4>1 DEF SwapSendQueue, Taken, history
      <4>3. /\ wire \in Seq(Messages) /\ sendQueue \in Seq(Messages) /\ wire \o sendQueue \in Seq(Messages)
        BY <1>0 DEF TypeOK
      <4>4. accepted = wire \o sendQueue
        BY <1>0, <4>1, <4>2, <4>3, Concatenation DEF OrderOK
      <4>5. IsPrefix(wire \o sendQueue, accepted) /\ accepted = (wire \o sendQueue) \o <<>>
        BY <4>3, <4>4, PrefixItself, Concatenation
      <4>. QED BY <4>2, <4>5 DEF OrderOK
    <3>. QED BY <3>6, <3>7, <3>8, <3>9 DEF IInv
  <2>. QED BY <1>31, <2>1, <2>2 DEF SwapSendQueue
<1>32. CASE CountSend(t)
  <2>1. stack' \in [Threads -> Seq(Labels)] /\ Turned("CountSend", "WSASend")
    BY <1>0, <1>32, GoesOn DEF CountSend, At, Labels, Callbacks
  <2>2. Tally("CountSend", "WSASend", None)
    BY <1>0, <2>1, Tallied
  <2>3. /\ UNCHANGED <<Opening, OpeningOwned, Receiving, ReceivingOwned, Sending, SendingOwned,
                        Closes, ClosesOwned, Enqueuing, CallingBack, Noticing, Ending, Holding,
                        Buffering, Failing, Swapping, Dropping, Leaving>>
        /\ Counted' = Counted + 1
    BY <1>0, <2>2 DEF Sizes, Tally, Hits
  <2>4. Sending > 0 /\ SendingOwned > 0 /\ Holding > 0 /\ Buffering > 0
    BY <1>0, <1>32, AtWork DEF CountSend, Sending, SendingOwned, Holding, Buffering
  <2>5. Sizes'
    BY <1>0, <1>32, <2>1, SizesNext DEF CountSend, TypeOK, Events
  <2>6. TypeOK'
    BY <1>0, <1>32, <2>1, <2>3, <2>4, <2>5, BoundsAssumption
    DEF CountSend, TypeOK, Sizes, Counting, CountOK
  <2>7. Counting'
    BY <1>0, <1>32, <2>3, <2>4, <2>5
    DEF CountSend, Sizes, Counting, CountOK, OwnersOK, PhaseOK, FailOK, NoticeOK, SenderOK
  <2>8. ClearOK'
    BY <1>0, <1>32, ClearGoesOn DEF CountSend, At, Labels, Callbacks
  <2>9. OrderOK'
    BY <1>0, <1>32, <2>3 DEF CountSend, OrderOK, Taken
  <2>. QED BY <2>6, <2>7, <2>8, <2>9 DEF IInv
<1>33. CASE WSASend(t)
  <2>1. CASE posted' = posted \union {"send"} /\ wire' = wire \o sendBuffers /\ Return(t)
    <3>1. "send" \in Events \ posted
      <4>1. "send" \in posted => Work(SendWork) > 1
        BY <1>0, <1>33, <2>1, TopAndEvent DEF WSASend, At, SendWork, SendFrames
      <4>. QED BY <1>0, <4>1 DEF Sizes, Events, Counting, OwnersOK, Sending
    <3>2. stack' \in [Threads -> Seq(Labels)] /\ Turned("WSASend", "send")
      BY <1>0, <1>33, <2>1, <3>1, Returns DEF WSASend, At, Labels, Callbacks
    <3>3. Tally("WSASend", "send", None)
      BY <1>0, <3>2, Tallied
    <3>4. /\ UNCHANGED <<Counted, Opening, OpeningOwned, Receiving, ReceivingOwned, Sending,
                          SendingOwned, Closes, ClosesOwned, Enqueuing, CallingBack, Noticing, Ending,
                          Buffering, Failing, Swapping, Dropping, Leaving>>
          /\ Holding' = Holding - 1
      BY <1>0, <3>3 DEF Sizes, Tally, Hits
    <3>5. Counted > 0 /\ Sending > 0 /\ SendingOwned > 0 /\ Buffering > 0
      BY <1>0, <1>33, <2>1, AtWork DEF WSASend, Counted, Sending, SendingOwned, Buffering
    <3>6. Sizes'
      BY <1>0, <1>33, <2>1, <3>2, SizesNext DEF WSASend, TypeOK, Events
    <3>7. TypeOK'
      BY <1>0, <1>33, <2>1, <3>2, <3>4, <3>5, <3>6, BoundsAssumption
      DEF WSASend, TypeOK, Events
    <3>8. Counting'
      BY <1>0, <1>33, <2>1, <3>4, <3>5, <3>6
      DEF WSASend, Sizes, Counting, CountOK, OwnersOK, PhaseOK, FailOK, NoticeOK, SenderOK
    <3>9. ClearOK'
      BY <1>0, <1>33, <2>1, ClearReturns DEF WSASend, At, Labels, Callbacks
    <3>10. OrderOK'
      <4>1. /\ Holding # 0 /\ Holding' = 0 /\ Swapping = 0
        BY <1>0, <3>4, <3>6 DEF Sizes, Counting, OwnersOK
      <4>2. /\ Taken = sendBuffers /\ Taken' = <<>> /\ wire' = wire \o sendBuffers
            /\ UNCHANGED <<state, accepted, sendQueue>>
        BY <1>33, <2>1, <4>1 DEF WSASend, Taken, sending
      <4>3. /\ wire \o sendBuffers \in Seq(Messages) /\ sendQueue \in Seq(Messages)
        BY <1>0 DEF TypeOK
      <4>4. (wire \o sendBuffers) \o <<>> = wire \o sendBuffers
        BY <4>3, Concatenation
      <4>5. Swapping' = 0
        BY <4>1, <3>4
      <4>. QED BY <1>0, <4>2, <4>4, <4>5 DEF OrderOK, IsConnected
    <3>. QED BY <3>7, <3>8, <3>9, <3>10 DEF IInv
  <2>2. CASE Goto(t, <<"SendFailed">>) /\ UNCHANGED <<posted, wire>>
    <3>1. stack' \in [Threads -> Seq(Labels)] /\ Turned("WSASend", "SendFailed")
      BY <1>0, <1>33, <2>2, GoesOn DEF WSASend, At, Labels, Callbacks
    <3>2. Tally("WSASend", "SendFailed", None)
      BY <1>0, <3>1, Tallied
    <3>3. /\ UNCHANGED <<Counted, Opening, OpeningOwned, Receiving, ReceivingOwned, Sending, Closes,
                          ClosesOwned, Enqueuing, CallingBack, Noticing, Ending, Holding, Buffering,
                          Failing, Swapping, Dropping, Leaving>>
          /\ SendingOwned' = SendingOwned - 1
      BY <1>0, <3>2 DEF Sizes, Tally, Hits
    <3>4. Counted > 0 /\ Sending > 0 /\ Holding > 0 /\ Buffering > 0
      BY <1>0, <1>33, <2>2, AtWork DEF WSASend, Counted, Sending, Holding, Buffering
    <3>5. Sizes'
      BY <1>0, <1>33, <2>2, <3>1, SizesNext DEF WSASend, TypeOK, Events
    <3>6. TypeOK'
      BY <1>0, <1>33, <2>2, <3>1, <3>3, <3>4, <3>5, BoundsAssumption
      DEF WSASend, TypeOK, Events
    <3>7. Counting'
      BY <1>0, <1>33, <2>2, <3>3, <3>4, <3>5
      DEF WSASend, Sizes, Counting, CountOK, OwnersOK, PhaseOK, FailOK, NoticeOK, SenderOK
    <3>8. ClearOK'
      BY <1>0, <1>33, <2>2, ClearGoesOn DEF WSASend, At, Labels, Callbacks
    <3>9. OrderOK'
      BY <1>0, <1>33, <2>2, <3>3 DEF WSASend, OrderOK, Taken
    <3>. QED BY <3>6, <3>7, <3>8, <3>9 DEF IInv
  <2>. QED BY <1>33, <2>1, <2>2 DEF WSASend
<1>34. CASE SendFailed(t)
  <2>1. stack' \in [Threads -> Seq(Labels)] /\ Called("SendFailed", "Disconnect", "ClearSend")
    BY <1>0, <1>34, DisconnectCalls DEF SendFailed, At, Labels, Callbacks
  <2>2. Tally("SendFailed", "Disconnect", "ClearSend")
    BY <1>0, <2>1, Tallied
  <2>3. /\ UNCHANGED <<Opening, OpeningOwned, Receiving, ReceivingOwned, Sending, SendingOwned,
                        Closes, ClosesOwned, Enqueuing, CallingBack, Noticing, Ending, Holding,
                        Buffering, Failing, Swapping, Dropping>>
        /\ Counted' = Counted - 1
        /\ Leaving' = Leaving + 1
    BY <1>0, <2>2 DEF Sizes, Tally, Hits
  <2>4. Sending > 0 /\ Holding > 0 /\ Buffering > 0
    BY <1>0, <1>34, AtWork DEF SendFailed, Sending, Holding, Buffering
  <2>5. Sizes'
    BY <1>0, <1>34, <2>1, SizesNext DEF SendFailed, TypeOK, Events
  <2>6. TypeOK'
    BY <1>0, <1>34, <2>1, <2>3, <2>4, <2>5, BoundsAssumption
    DEF SendFailed, TypeOK, DisconnectThen, Reasons, Sizes, Counting, CountOK
  <2>7. Counting'
    BY <1>0, <1>34, <2>3, <2>4, <2>5
    DEF SendFailed, Sizes, Counting, CountOK, OwnersOK, PhaseOK, FailOK, NoticeOK,
        SenderOK
  <2>8. ClearOK'
    BY <1>0, <1>34, ClearDisconnects DEF SendFailed, At, Labels, Callbacks
  <2>9. OrderOK'
    BY <1>0, <1>34, <2>3 DEF SendFailed, OrderOK, Taken
  <2>. QED BY <2>6, <2>7, <2>8, <2>9 DEF IInv
<1>35. CASE ClearSend(t)
  <2>1. stack' \in [Threads -> Seq(Labels)] /\ Gone("ClearSend")
    BY <1>0, <1>35, Returns DEF ClearSend, At, Labels, Callbacks
  <2>2. Tally("ClearSend", None, None)
    BY <1>0, <2>1, Tallied
  <2>3. /\ UNCHANGED <<Counted, Opening, OpeningOwned, Receiving, ReceivingOwned, SendingOwned,
                        Closes, ClosesOwned, Enqueuing, CallingBack, Noticing, Ending, Failing,
                        Swapping, Dropping, Leaving>>
        /\ Sending' = Sending - 1
        /\ Holding' = Holding - 1
        /\ Buffering' = Buffering - 1
    BY <1>0, <2>2 DEF Sizes, Tally, Hits
  <2>4. Sizes'
    BY <1>0, <1>35, <2>1, SizesNext DEF ClearSend, TypeOK, Events
  <2>5. sendQueue' \in Seq(Messages) /\ sendBuffers' \in Seq(Messages)
    BY <1>0, <1>35 DEF ClearSend
  <2>6. TypeOK'
    BY <1>0, <1>35, <2>1, <2>3, <2>5, <2>4, BoundsAssumption DEF ClearSend, TypeOK
  <2>7. Counting'
    BY <1>0, <1>35, <2>3, <2>4
    DEF ClearSend, Sizes, Counting, CountOK, OwnersOK, PhaseOK, FailOK, NoticeOK, SenderOK
  <2>8. ClearOK'
    BY <1>0, <1>35, ClearReturns DEF ClearSend, At, Labels, Callbacks
  <2>9. OrderOK'
    <3>1. ~IsConnected
      <4>1. 1 \in DOMAIN stack[t] /\ stack[t][1] = "ClearSend"
        BY <1>0, <1>35 DEF ClearSend, At, TypeOK
      <4>. QED BY <1>0, <4>1 DEF ClearOK, Cleared
    <3>2. Holding # 0 /\ Holding' = 0 /\ Swapping' = 0
      BY <1>0, <2>3, <2>4 DEF Sizes, Counting, OwnersOK
    <3>3. /\ Taken = sendBuffers /\ Taken' = <<>> /\ UNCHANGED <<state, accepted, wire>>
      BY <1>35, <3>2 DEF ClearSend, Taken, history
    <3>4. /\ wire \in Seq(Messages) /\ sendBuffers \in Seq(Messages) /\ accepted \in Seq(Messages)
      BY <1>0 DEF TypeOK
    <3>5. IsPrefix(wire, accepted) /\ wire \o <<>> = wire
      BY <1>0, <3>3, <3>4, PrefixShorter, Concatenation DEF OrderOK
    <3>. QED BY <3>1, <3>2, <3>3, <3>5 DEF OrderOK, IsConnected
  <2>. QED BY <2>6, <2>7, <2>8, <2>9 DEF IInv
<1>36. CASE ProcessSend(t, "SendDone")
  <2>1. CASE IsConnected
    <3>1. stack' \in [Threads -> Seq(Labels)] /\ Turned("SendDone", "OnSend")
      BY <1>0, <1>36, <2>1, GoesOn DEF ProcessSend, At, Labels, Callbacks
    <3>2. Tally("SendDone", "OnSend", None)
      BY <1>0, <3>1, Tallied
    <3>3. /\ UNCHANGED <<Counted, Opening, OpeningOwned, Receiving, ReceivingOwned, Sending,
                          SendingOwned, Closes, ClosesOwned, Enqueuing, Noticing, Ending, Holding,
                          Failing, Swapping, Dropping, Leaving>>
          /\ CallingBack' = CallingBack + 1
          /\ Buffering' = Buffering - 1
      BY <1>0, <3>2 DEF Sizes, Tally, Hits
    <3>4. Counted > 0 /\ Sending > 0
      BY <1>0, <1>36, <2>1, AtWork DEF ProcessSend, Counted, Sending
    <3>5. Sizes'
      BY <1>0, <1>36, <2>1, <3>1, SizesNext DEF ProcessSend, TypeOK, Events
    <3>6. TypeOK'
      BY <1>0, <1>36, <2>1, <3>1, <3>3, <3>4, <3>5, BoundsAssumption
      DEF ProcessSend, TypeOK, DisconnectThen, Reasons
    <3>7. Counting'
      BY <1>0, <1>36, <2>1, <3>3, <3>4, <3>5
      DEF ProcessSend, Sizes, Counting, CountOK, OwnersOK, PhaseOK, FailOK, NoticeOK,
          SenderOK
    <3>8. ClearOK'
      BY <1>0, <1>36, <2>1, ClearGoesOn DEF ProcessSend, At, Labels, Callbacks
    <3>9. OrderOK'
      <4>1. Holding = 0 /\ Holding' = 0
        BY <1>0, <3>3, <3>5 DEF Sizes, Counting, OwnersOK
      <4>2. Taken' = Taken /\ UNCHANGED <<state, sendQueue, accepted, wire>>
        BY <1>36, <2>1, <4>1 DEF ProcessSend, Taken, history
      <4>. QED BY <1>0, <3>3, <4>2 DEF OrderOK, IsConnected
    <3>. QED BY <3>6, <3>7, <3>8, <3>9 DEF IInv
  <2>2. CASE ~IsConnected
    <3>1. stack' \in [Threads -> Seq(Labels)] /\ Turned("SendDone", "DropSendQueue")
      BY <1>0, <1>36, <2>2, GoesOn DEF ProcessSend, At, Labels, Callbacks
    <3>2. Tally("SendDone", "DropSendQueue", None)
      BY <1>0, <3>1, Tallied
    <3>3. /\ UNCHANGED <<Counted, Opening, OpeningOwned, Receiving, ReceivingOwned, SendingOwned,
                          Closes, ClosesOwned, Enqueuing, CallingBack, Noticing, Ending, Holding,
                          Failing, Swapping, Leaving>>
          /\ Sending' = Sending - 1
          /\ Buffering' = Buffering - 1
          /\ Dropping' = Dropping + 1
      BY <1>0, <3>2 DEF Sizes, Tally, Hits
    <3>4. Counted > 0
      BY <1>0, <1>36, <2>2, AtWork DEF ProcessSend, Counted
    <3>5. Sizes'
      BY <1>0, <1>36, <2>2, <3>1, SizesNext DEF ProcessSend, TypeOK, Events
    <3>6. TypeOK'
      BY <1>0, <1>36, <2>2, <3>1, <3>3, <3>4, <3>5, BoundsAssumption
      DEF ProcessSend, TypeOK, DisconnectThen, Reasons
    <3>7. Counting'
      BY <1>0, <1>36, <2>2, <3>3, <3>4, <3>5
      DEF ProcessSend, Sizes, Counting, CountOK, OwnersOK, PhaseOK, FailOK, NoticeOK,
          SenderOK
    <3>8. ClearOK'
      BY <1>0, <1>36, <2>2, ClearGoesOn DEF ProcessSend, At, Labels, Callbacks
    <3>9. OrderOK'
      <4>1. Holding = 0 /\ Holding' = 0
        BY <1>0, <3>3, <3>5 DEF Sizes, Counting, OwnersOK
      <4>2. Taken' = Taken /\ UNCHANGED <<state, sendQueue, accepted, wire>>
        BY <1>36, <2>2, <4>1 DEF ProcessSend, Taken, history
      <4>. QED BY <1>0, <3>3, <4>2 DEF OrderOK, IsConnected
    <3>. QED BY <3>6, <3>7, <3>8, <3>9 DEF IInv
  <2>. QED BY <1>36, <2>1, <2>2 DEF ProcessSend
<1>37. CASE ProcessSend(t, "SendError")
  <2>1. CASE IsConnected
    <3>1. stack' \in [Threads -> Seq(Labels)] /\ Called("SendError", "Disconnect", "ReleaseIo")
      BY <1>0, <1>37, <2>1, DisconnectCalls DEF ProcessSend, At, Labels, Callbacks
    <3>2. Tally("SendError", "Disconnect", "ReleaseIo")
      BY <1>0, <3>1, Tallied
    <3>3. /\ UNCHANGED <<Counted, Opening, OpeningOwned, Receiving, ReceivingOwned, SendingOwned,
                          Closes, ClosesOwned, Enqueuing, CallingBack, Noticing, Ending, Holding,
                          Failing, Swapping, Dropping>>
          /\ Sending' = Sending - 1
          /\ Buffering' = Buffering - 1
          /\ Leaving' = Leaving + 1
      BY <1>0, <3>2 DEF Sizes, Tally, Hits
    <3>4. Counted > 0
      BY <1>0, <1>37, <2>1, AtWork DEF ProcessSend, Counted
    <3>5. Sizes'
      BY <1>0, <1>37, <2>1, <3>1, SizesNext DEF ProcessSend, TypeOK, Events
    <3>6. sendBuffers' = <<>> /\ DisconnectThen(t, "error", <<"ReleaseIo">>)
      BY <1>0, <1>37, <2>1 DEF ProcessSend
    <3>7. sendBuffers' \in Seq(Messages) /\ reason' \in [Threads -> Reasons] /\ message' = message
      BY <1>0, <3>6 DEF DisconnectThen, TypeOK, Reasons
    <3>8. TypeOK'
      BY <1>0, <1>37, <2>1, <3>1, <3>3, <3>4, <3>6, <3>7, <3>5, BoundsAssumption
      DEF ProcessSend, TypeOK
    <3>9. Counting'
      BY <1>0, <1>37, <2>1, <3>3, <3>4, <3>5
      DEF ProcessSend, Sizes, Counting, CountOK, OwnersOK, PhaseOK, FailOK, NoticeOK,
          SenderOK
    <3>10. ClearOK'
      BY <1>0, <1>37, <2>1, ClearDisconnects DEF ProcessSend, At, Labels, Callbacks
    <3>11. OrderOK'
      <4>1. Holding = 0 /\ Holding' = 0
        BY <1>0, <3>3, <3>5 DEF Sizes, Counting, OwnersOK
      <4>2. Taken' = Taken /\ UNCHANGED <<state, sendQueue, accepted, wire>>
        BY <1>37, <2>1, <4>1 DEF ProcessSend, Taken, history
      <4>. QED BY <1>0, <3>3, <4>2 DEF OrderOK, IsConnected
    <3>. QED BY <3>8, <3>9, <3>10, <3>11 DEF IInv
  <2>2. CASE ~IsConnected
    <3>1. stack' \in [Threads -> Seq(Labels)] /\ Turned("SendError", "ReleaseIo")
      BY <1>0, <1>37, <2>2, GoesOn DEF ProcessSend, At, Labels, Callbacks
    <3>2. Tally("SendError", "ReleaseIo", None)
      BY <1>0, <3>1, Tallied
    <3>3. /\ UNCHANGED <<Counted, Opening, OpeningOwned, Receiving, ReceivingOwned, SendingOwned,
                          Closes, ClosesOwned, Enqueuing, CallingBack, Noticing, Ending, Holding,
                          Failing, Swapping, Dropping, Leaving>>
          /\ Sending' = Sending - 1
          /\ Buffering' = Buffering - 1
      BY <1>0, <3>2 DEF Sizes, Tally, Hits
    <3>4. Counted > 0
      BY <1>0, <1>37, <2>2, AtWork DEF ProcessSend, Counted
    <3>5. Sizes'
      BY <1>0, <1>37, <2>2, <3>1, SizesNext DEF ProcessSend, TypeOK, Events
    <3>6. TypeOK'
      BY <1>0, <1>37, <2>2, <3>1, <3>3, <3>4, <3>5, BoundsAssumption
      DEF ProcessSend, TypeOK, DisconnectThen, Reasons
    <3>7. Counting'
      BY <1>0, <1>37, <2>2, <3>3, <3>4, <3>5
      DEF ProcessSend, Sizes, Counting, CountOK, OwnersOK, PhaseOK, FailOK, NoticeOK,
          SenderOK
    <3>8. ClearOK'
      BY <1>0, <1>37, <2>2, ClearGoesOn DEF ProcessSend, At, Labels, Callbacks
    <3>9. OrderOK'
      <4>1. Holding = 0 /\ Holding' = 0
        BY <1>0, <3>3, <3>5 DEF Sizes, Counting, OwnersOK
      <4>2. Taken' = Taken /\ UNCHANGED <<state, sendQueue, accepted, wire>>
        BY <1>37, <2>2, <4>1 DEF ProcessSend, Taken, history
      <4>. QED BY <1>0, <3>3, <4>2 DEF OrderOK, IsConnected
    <3>. QED BY <3>6, <3>7, <3>8, <3>9 DEF IInv
  <2>. QED BY <1>37, <2>1, <2>2 DEF ProcessSend
<1>38. CASE DropSendQueue(t)
  <2>1. stack' \in [Threads -> Seq(Labels)] /\ Turned("DropSendQueue", "ReleaseIo")
    BY <1>0, <1>38, GoesOn DEF DropSendQueue, At, Labels, Callbacks
  <2>2. Tally("DropSendQueue", "ReleaseIo", None)
    BY <1>0, <2>1, Tallied
  <2>3. /\ UNCHANGED <<Counted, Opening, OpeningOwned, Receiving, ReceivingOwned, Sending,
                        SendingOwned, Closes, ClosesOwned, Enqueuing, CallingBack, Noticing, Ending,
                        Holding, Buffering, Failing, Swapping, Leaving>>
        /\ Dropping' = Dropping - 1
    BY <1>0, <2>2 DEF Sizes, Tally, Hits
  <2>4. Counted > 0
    BY <1>0, <1>38, AtWork DEF DropSendQueue, Counted
  <2>5. Sizes'
    BY <1>0, <1>38, <2>1, SizesNext DEF DropSendQueue, TypeOK, Events
  <2>6. TypeOK'
    BY <1>0, <1>38, <2>1, <2>3, <2>4, <2>5, BoundsAssumption DEF DropSendQueue, TypeOK
  <2>7. Counting'
    BY <1>0, <1>38, <2>3, <2>4, <2>5
    DEF DropSendQueue, Sizes, Counting, CountOK, OwnersOK, PhaseOK, FailOK, NoticeOK,
        SenderOK
  <2>8. ClearOK'
    BY <1>0, <1>38, ClearGoesOn DEF DropSendQueue, At, Labels, Callbacks
  <2>9. OrderOK'
    <3>1. ~IsConnected /\ Swapping = 0
      BY <1>0, <2>3, <2>5 DEF Sizes, Counting, SenderOK, IsConnected
    <3>2. Taken' = Taken /\ UNCHANGED <<state, accepted, wire>>
      BY <1>38, <2>3 DEF DropSendQueue, Taken, history
    <3>. QED BY <1>0, <2>3, <3>1, <3>2 DEF OrderOK, IsConnected
  <2>. QED BY <2>6, <2>7, <2>8, <2>9 DEF IInv
<1>39. CASE OnSend(t)
  <2>1. stack' \in [Threads -> Seq(Labels)] /\ Turned("OnSend", "SendNext")
    BY <1>0, <1>39, GoesOn DEF OnSend, At, Labels, Callbacks
  <2>2. Tally("OnSend", "SendNext", None)
    BY <1>0, <2>1, Tallied
  <2>3. /\ UNCHANGED <<Counted, Opening, OpeningOwned, Receiving, ReceivingOwned, Sending,
                        SendingOwned, Closes, ClosesOwned, Enqueuing, Noticing, Ending, Holding,
                        Buffering, Failing, Swapping, Dropping, Leaving>>
        /\ CallingBack' = CallingBack - 1
    BY <1>0, <2>2 DEF Sizes, Tally, Hits
  <2>4. Counted > 0 /\ Sending > 0
    BY <1>0, <1>39, AtWork DEF OnSend, Counted, Sending
  <2>5. Sizes'
    BY <1>0, <1>39, <2>1, SizesNext DEF OnSend, TypeOK, Events
  <2>6. TypeOK'
    BY <1>0, <1>39, <2>1, <2>3, <2>4, <2>5, BoundsAssumption DEF OnSend, TypeOK
  <2>7. Counting'
    BY <1>0, <1>39, <2>3, <2>4, <2>5
    DEF OnSend, Sizes, Counting, CountOK, OwnersOK, PhaseOK, FailOK, NoticeOK, SenderOK
  <2>8. ClearOK'
    BY <1>0, <1>39, ClearGoesOn DEF OnSend, At, Labels, Callbacks
  <2>9. OrderOK'
    BY <1>0, <1>39, <2>3 DEF OnSend, OrderOK, Taken
  <2>. QED BY <2>6, <2>7, <2>8, <2>9 DEF IInv
<1>40. CASE SendNext(t)
  <2>1. CASE sendQueue = <<>>
    <3>1. stack' \in [Threads -> Seq(Labels)] /\ Turned("SendNext", "ReleaseIo")
      BY <1>0, <1>40, <2>1, GoesOn DEF SendNext, At, Labels, Callbacks
    <3>2. Tally("SendNext", "ReleaseIo", None)
      BY <1>0, <3>1, Tallied
    <3>3. /\ UNCHANGED <<Counted, Opening, OpeningOwned, Receiving, ReceivingOwned, SendingOwned,
                          Closes, ClosesOwned, Enqueuing, CallingBack, Noticing, Ending, Holding,
                          Buffering, Failing, Swapping, Dropping, Leaving>>
          /\ Sending' = Sending - 1
      BY <1>0, <3>2 DEF Sizes, Tally, Hits
    <3>4. Counted > 0
      BY <1>0, <1>40, <2>1, AtWork DEF SendNext, Counted
    <3>5. Sizes'
      BY <1>0, <1>40, <2>1, <3>1, SizesNext DEF SendNext, TypeOK, Events
    <3>6. TypeOK'
      BY <1>0, <1>40, <2>1, <3>1, <3>3, <3>4, <3>5, BoundsAssumption DEF SendNext, TypeOK
    <3>7. Counting'
      BY <1>0, <1>40, <2>1, <3>3, <3>4, <3>5
      DEF SendNext, Sizes, Counting, CountOK, OwnersOK, PhaseOK, FailOK, NoticeOK,
          SenderOK
    <3>8. ClearOK'
      BY <1>0, <1>40, <2>1, ClearGoesOn DEF SendNext, At, Labels, Callbacks
    <3>9. OrderOK'
      BY <1>0, <1>40, <2>1, <3>3 DEF SendNext, OrderOK, Taken
    <3>. QED BY <3>6, <3>7, <3>8, <3>9 DEF IInv
  <2>2. CASE sendQueue # <<>>
    <3>1. stack' \in [Threads -> Seq(Labels)] /\ Called("SendNext", "RegisterSend", "ReleaseIo")
      BY <1>0, <1>40, <2>2, Calls DEF SendNext, At, Labels, Callbacks
    <3>2. Tally("SendNext", "RegisterSend", "ReleaseIo")
      BY <1>0, <3>1, Tallied
    <3>3. /\ UNCHANGED <<Counted, Opening, OpeningOwned, Receiving, ReceivingOwned, Sending,
                          SendingOwned, Closes, ClosesOwned, Enqueuing, CallingBack, Noticing, Ending,
                          Holding, Buffering, Failing, Swapping, Dropping, Leaving>>
      BY <1>0, <3>2 DEF Sizes, Tally, Hits
    <3>4. Counted > 0 /\ Sending > 0
      BY <1>0, <1>40, <2>2, AtWork DEF SendNext, Counted, Sending
    <3>5. Sizes'
      BY <1>0, <1>40, <2>2, <3>1, SizesNext DEF SendNext, TypeOK, Events
    <3>6. TypeOK'
      BY <1>0, <1>40, <2>2, <3>1, <3>3, <3>4, <3>5, BoundsAssumption DEF SendNext, TypeOK
    <3>7. Counting'
      BY <1>0, <1>40, <2>2, <3>3, <3>4, <3>5
      DEF SendNext, Sizes, Counting, CountOK, OwnersOK, PhaseOK, FailOK, NoticeOK,
          SenderOK
    <3>8. ClearOK'
      BY <1>0, <1>40, <2>2, ClearCalls DEF SendNext, At, Labels, Callbacks
    <3>9. OrderOK'
      BY <1>0, <1>40, <2>2, <3>3 DEF SendNext, OrderOK, Taken
    <3>. QED BY <3>6, <3>7, <3>8, <3>9 DEF IInv
  <2>. QED BY <1>40, <2>1, <2>2 DEF SendNext
<1>41. CASE ConnectAsync(t)
  <2>1. CASE state # "Created" /\ UNCHANGED <<stack, owners, reason>>
    <3>1. UNCHANGED <<Counted, Opening, OpeningOwned, Receiving, ReceivingOwned, Sending, SendingOwned,
                     Closes, ClosesOwned, Enqueuing, CallingBack, Noticing, Ending, Holding,
                     Buffering, Failing, Swapping, Dropping, Leaving>>
      BY <1>41, <2>1
      DEF ConnectAsync, Work, Counted, Opening, OpeningOwned, Receiving, ReceivingOwned,
          Sending, SendingOwned, Closes, ClosesOwned, Enqueuing, CallingBack, Noticing,
          Ending, Holding, Buffering, Failing, Swapping, Dropping, Leaving
    <3>2. TypeOK'
      BY <1>0, <1>41, <2>1 DEF ConnectAsync, TypeOK
    <3>3. Counting'
      BY <1>0, <1>41, <2>1, <3>1
      DEF ConnectAsync, Sizes, Counting, CountOK, OwnersOK, PhaseOK, FailOK, NoticeOK,
          SenderOK
    <3>4. ClearOK'
      BY <1>0, <1>41, <2>1 DEF ConnectAsync, ClearOK
    <3>5. OrderOK'
      BY <1>0, <1>41, <2>1, <3>1 DEF ConnectAsync, OrderOK, Taken
    <3>. QED BY <3>2, <3>3, <3>4, <3>5 DEF IInv
  <2>2. CASE /\ state = "Created" /\ CallFrom(t, "FailConnect")
             /\ reason' = [reason EXCEPT ![t] = "error"] /\ UNCHANGED owners
    <3>1. stack' \in [Threads -> Seq(Labels)] /\ New("FailConnect")
      BY <1>0, <1>41, <2>2, Enters DEF ConnectAsync, At, Labels, Callbacks
    <3>2. Tally(None, "FailConnect", None)
      BY <1>0, <3>1, Tallied
    <3>3. /\ UNCHANGED <<Counted, Opening, OpeningOwned, Receiving, ReceivingOwned, Sending,
                          SendingOwned, Closes, ClosesOwned, Enqueuing, CallingBack, Noticing, Ending,
                          Holding, Buffering, Swapping, Dropping, Leaving>>
          /\ Failing' = Failing + 1
      BY <1>0, <3>2 DEF Sizes, Tally, Hits
    <3>4. Sizes'
      BY <1>0, <1>41, <2>2, <3>1, SizesNext DEF ConnectAsync, TypeOK, Events
    <3>5. TypeOK'
      BY <1>0, <1>41, <2>2, <3>1, <3>3, <3>4, BoundsAssumption
      DEF ConnectAsync, TypeOK, Reasons, Events
    <3>6. Counting'
      BY <1>0, <1>41, <2>2, <3>3, <3>4
      DEF ConnectAsync, Sizes, Counting, CountOK, OwnersOK, PhaseOK, FailOK, NoticeOK,
          SenderOK
    <3>7. ClearOK'
      BY <1>0, <1>41, <2>2, ClearEnters DEF ConnectAsync, At, Labels, Callbacks
    <3>8. OrderOK'
      BY <1>0, <1>41, <2>2, <3>3 DEF ConnectAsync, OrderOK, Taken
    <3>. QED BY <3>5, <3>6, <3>7, <3>8 DEF IInv
  <2>3. CASE /\ state = "Created" /\ CallFrom(t, "ConnectEx")
             /\ owners' = owners \union {"connect"} /\ UNCHANGED reason
    <3>1. stack' \in [Threads -> Seq(Labels)] /\ New("ConnectEx")
      BY <1>0, <1>41, <2>3, Enters DEF ConnectAsync, At, Labels, Callbacks
    <3>2. Tally(None, "ConnectEx", None)
      BY <1>0, <3>1, Tallied
    <3>3. /\ UNCHANGED <<Counted, Receiving, ReceivingOwned, Sending, SendingOwned, Closes,
                          ClosesOwned, Enqueuing, CallingBack, Noticing, Ending, Holding, Buffering,
                          Failing, Swapping, Dropping, Leaving>>
          /\ Opening' = Opening + 1
          /\ OpeningOwned' = OpeningOwned + 1
      BY <1>0, <3>2 DEF Sizes, Tally, Hits
    <3>4. Sizes'
      BY <1>0, <1>41, <2>3, <3>1, SizesNext DEF ConnectAsync, TypeOK, Events
    <3>5. TypeOK'
      BY <1>0, <1>41, <2>3, <3>1, <3>3, <3>4, BoundsAssumption
      DEF ConnectAsync, TypeOK, Reasons, Events
    <3>6. Counting'
      BY <1>0, <1>41, <2>3, <3>3, <3>4
      DEF ConnectAsync, Sizes, Counting, CountOK, OwnersOK, PhaseOK, FailOK, NoticeOK,
          SenderOK
    <3>7. ClearOK'
      BY <1>0, <1>41, <2>3, ClearEnters DEF ConnectAsync, At, Labels, Callbacks
    <3>8. OrderOK'
      BY <1>0, <1>41, <2>3, <3>3 DEF ConnectAsync, OrderOK, Taken
    <3>. QED BY <3>5, <3>6, <3>7, <3>8 DEF IInv
  <2>. QED BY <1>41, <2>1, <2>2, <2>3 DEF ConnectAsync
<1>42. CASE Accept(t)
  <2>1. stack' \in [Threads -> Seq(Labels)] /\ New("ProcessConnect")
    BY <1>0, <1>42, Enters DEF Accept, At, Labels, Callbacks
  <2>2. Tally(None, "ProcessConnect", None)
    BY <1>0, <2>1, Tallied
  <2>3. /\ UNCHANGED <<Counted, OpeningOwned, Receiving, ReceivingOwned, Sending, SendingOwned,
                        Closes, ClosesOwned, Enqueuing, CallingBack, Noticing, Ending, Holding,
                        Buffering, Failing, Swapping, Dropping, Leaving>>
        /\ Opening' = Opening + 1
    BY <1>0, <2>2 DEF Sizes, Tally, Hits
  <2>4. Sizes'
    BY <1>0, <1>42, <2>1, SizesNext DEF Accept, TypeOK, Events
  <2>5. TypeOK'
    BY <1>0, <1>42, <2>1, <2>3, <2>4, BoundsAssumption DEF Accept, TypeOK
  <2>6. Counting'
    BY <1>0, <1>42, <2>3, <2>4
    DEF Accept, Sizes, Counting, CountOK, OwnersOK, PhaseOK, FailOK, NoticeOK, SenderOK
  <2>7. ClearOK'
    BY <1>0, <1>42, ClearEnters DEF Accept, At, Labels, Callbacks
  <2>8. OrderOK'
    BY <1>0, <1>42, <2>3 DEF Accept, OrderOK, Taken
  <2>. QED BY <2>5, <2>6, <2>7, <2>8 DEF IInv
<1>43. CASE CallSend(t)
  <2>1. stack' \in [Threads -> Seq(Labels)] /\ New("EnqueueSend")
    BY <1>0, <1>43, Enters DEF CallSend, At, Labels, Callbacks
  <2>2. Tally(None, "EnqueueSend", None)
    BY <1>0, <2>1, Tallied
  <2>3. /\ UNCHANGED <<Counted, Opening, OpeningOwned, Receiving, ReceivingOwned, Sending,
                        SendingOwned, Closes, ClosesOwned, CallingBack, Noticing, Ending, Holding,
                        Buffering, Failing, Swapping, Dropping, Leaving>>
        /\ Enqueuing' = Enqueuing + 1
    BY <1>0, <2>2 DEF Sizes, Tally, Hits
  <2>4. Sizes'
    BY <1>0, <1>43, <2>1, SizesNext DEF CallSend, TypeOK, Events
  <2>5. message' \in [Threads -> Seq(Messages)] /\ fresh' \in SUBSET Messages
    BY <1>0, <1>43 DEF CallSend, TypeOK
  <2>6. TypeOK'
    BY <1>0, <1>43, <2>1, <2>3, <2>5, <2>4, BoundsAssumption DEF CallSend, TypeOK
  <2>7. Counting'
    BY <1>0, <1>43, <2>3, <2>4
    DEF CallSend, Sizes, Counting, CountOK, OwnersOK, PhaseOK, FailOK, NoticeOK, SenderOK
  <2>8. ClearOK'
    BY <1>0, <1>43, ClearEnters DEF CallSend, At, Labels, Callbacks
  <2>9. OrderOK'
    BY <1>0, <1>43, <2>3 DEF CallSend, OrderOK, Taken
  <2>. QED BY <2>6, <2>7, <2>8, <2>9 DEF IInv
<1>44. CASE CallDisconnect(t)
  <2>1. stack' \in [Threads -> Seq(Labels)] /\ New("Disconnect")
    BY <1>0, <1>44, Enters DEF CallDisconnect, At, Labels, Callbacks
  <2>2. Tally(None, "Disconnect", None)
    BY <1>0, <2>1, Tallied
  <2>3. /\ UNCHANGED <<Counted, Opening, OpeningOwned, Receiving, ReceivingOwned, Sending,
                        SendingOwned, Closes, ClosesOwned, Enqueuing, CallingBack, Noticing, Ending,
                        Holding, Buffering, Failing, Swapping, Dropping>>
        /\ Leaving' = Leaving + 1
    BY <1>0, <2>2 DEF Sizes, Tally, Hits
  <2>4. Sizes'
    BY <1>0, <1>44, <2>1, SizesNext DEF CallDisconnect, TypeOK, Events
  <2>5. TypeOK'
    BY <1>0, <1>44, <2>1, <2>3, <2>4, BoundsAssumption DEF CallDisconnect, TypeOK, Reasons
  <2>6. Counting'
    BY <1>0, <1>44, <2>3, <2>4
    DEF CallDisconnect, Sizes, Counting, CountOK, OwnersOK, PhaseOK, FailOK, NoticeOK,
        SenderOK
  <2>7. ClearOK'
    BY <1>0, <1>44, ClearEnters DEF CallDisconnect, At, Labels, Callbacks
  <2>8. OrderOK'
    BY <1>0, <1>44, <2>3 DEF CallDisconnect, OrderOK, Taken
  <2>. QED BY <2>5, <2>6, <2>7, <2>8 DEF IInv
<1>45. CASE Abort(t)
  <2>1. stack' \in [Threads -> Seq(Labels)] /\ New("FailConnect")
    BY <1>0, <1>45, Enters DEF Abort, At, Labels, Callbacks
  <2>2. Tally(None, "FailConnect", None)
    BY <1>0, <2>1, Tallied
  <2>3. /\ UNCHANGED <<Counted, Opening, OpeningOwned, Receiving, ReceivingOwned, Sending,
                        SendingOwned, Closes, ClosesOwned, Enqueuing, CallingBack, Noticing, Ending,
                        Holding, Buffering, Swapping, Dropping, Leaving>>
        /\ Failing' = Failing + 1
    BY <1>0, <2>2 DEF Sizes, Tally, Hits
  <2>4. Sizes'
    BY <1>0, <1>45, <2>1, SizesNext DEF Abort, TypeOK, Events
  <2>5. TypeOK'
    BY <1>0, <1>45, <2>1, <2>3, <2>4, BoundsAssumption DEF Abort, TypeOK, Reasons
  <2>6. Counting'
    BY <1>0, <1>45, <2>3, <2>4
    DEF Abort, Sizes, Counting, CountOK, OwnersOK, PhaseOK, FailOK, NoticeOK, SenderOK
  <2>7. ClearOK'
    BY <1>0, <1>45, ClearEnters DEF Abort, At, Labels, Callbacks
  <2>8. OrderOK'
    BY <1>0, <1>45, <2>3 DEF Abort, OrderOK, Taken
  <2>. QED BY <2>5, <2>6, <2>7, <2>8 DEF IInv
<1>46. ASSUME NEW event \in Events, Complete(t, event) PROVE IInv'
  <2>0. event \in posted
    BY <1>46 DEF Complete
  <2>1. event \in owners
    <3>1. \A L : event \in L => Work(L) > 0
      BY <1>0, <2>0, PostedWork
    <3>. QED BY <1>0, <3>1 DEF Events, Counting, OwnersOK, OpeningOwned, ReceivingOwned,
                SendingOwned, ClosesOwned, ConnectOwned, RecvOwned, SendOwned, DisconnectOwned
  <2>2. PICK handler \in Handlers(event) : CallFrom(t, handler)
    BY <1>46, <2>1 DEF Complete
  <2>3. /\ posted' = posted \ {event} /\ owners' = owners \ {event}
        /\ reason' = [reason EXCEPT ![t] = IF event = "connect" THEN "error" ELSE @]
        /\ UNCHANGED <<state, closing, why, sending, unread, opened, message, fresh, history>>
    BY <1>46, <2>1 DEF Complete
  <2>4. CASE event = "connect" /\ handler = "ProcessConnect"
    <3>1. stack' \in [Threads -> Seq(Labels)] /\ Turned("connect", "ProcessConnect")
      BY <1>0, <2>0, <2>1, <2>2, <2>3, <2>4, Enters DEF Complete, At, Labels, Callbacks
    <3>2. Tally("connect", "ProcessConnect", None)
      BY <1>0, <3>1, Tallied
    <3>3. /\ UNCHANGED <<Counted, Opening, Receiving, ReceivingOwned, Sending, SendingOwned, Closes,
                          ClosesOwned, Enqueuing, CallingBack, Noticing, Ending, Holding, Buffering,
                          Failing, Swapping, Dropping, Leaving>>
          /\ OpeningOwned' = OpeningOwned - 1
      BY <1>0, <3>2 DEF Sizes, Tally, Hits
    <3>4. Sizes'
      BY <1>0, <2>0, <2>1, <2>2, <2>3, <2>4, <3>1, SizesNext DEF Complete, TypeOK, Events
    <3>5. TypeOK'
      BY <1>0, <2>0, <2>1, <2>2, <2>3, <2>4, <3>1, <3>3, <3>4, BoundsAssumption
      DEF Complete, TypeOK, Reasons
    <3>6. Counting'
      BY <1>0, <2>0, <2>1, <2>2, <2>3, <2>4, <3>3, <3>4
      DEF Complete, Sizes, Counting, CountOK, OwnersOK, PhaseOK, FailOK, NoticeOK,
          SenderOK
    <3>7. ClearOK'
      BY <1>0, <2>0, <2>1, <2>2, <2>3, <2>4, ClearEnters DEF Complete, At, Labels, Callbacks
    <3>8. OrderOK'
      BY <1>0, <2>0, <2>1, <2>2, <2>3, <2>4, <3>3 DEF Complete, OrderOK, Taken
    <3>. QED BY <3>5, <3>6, <3>7, <3>8 DEF IInv
  <2>5. CASE event = "connect" /\ handler = "FailConnect"
    <3>1. stack' \in [Threads -> Seq(Labels)] /\ Turned("connect", "FailConnect")
      BY <1>0, <2>0, <2>1, <2>2, <2>3, <2>5, Enters DEF Complete, At, Labels, Callbacks
    <3>2. Tally("connect", "FailConnect", None)
      BY <1>0, <3>1, Tallied
    <3>3. /\ UNCHANGED <<Counted, Receiving, ReceivingOwned, Sending, SendingOwned, Closes,
                          ClosesOwned, Enqueuing, CallingBack, Noticing, Ending, Holding, Buffering,
                          Swapping, Dropping, Leaving>>
          /\ Opening' = Opening - 1
          /\ OpeningOwned' = OpeningOwned - 1
          /\ Failing' = Failing + 1
      BY <1>0, <3>2 DEF Sizes, Tally, Hits
    <3>4. Sizes'
      BY <1>0, <2>0, <2>1, <2>2, <2>3, <2>5, <3>1, SizesNext DEF Complete, TypeOK, Events
    <3>5. TypeOK'
      BY <1>0, <2>0, <2>1, <2>2, <2>3, <2>5, <3>1, <3>3, <3>4, BoundsAssumption
      DEF Complete, TypeOK, Reasons
    <3>6. Counting'
      BY <1>0, <2>0, <2>1, <2>2, <2>3, <2>5, <3>3, <3>4
      DEF Complete, Sizes, Counting, CountOK, OwnersOK, PhaseOK, FailOK, NoticeOK,
          SenderOK
    <3>7. ClearOK'
      BY <1>0, <2>0, <2>1, <2>2, <2>3, <2>5, ClearEnters DEF Complete, At, Labels, Callbacks
    <3>8. OrderOK'
      BY <1>0, <2>0, <2>1, <2>2, <2>3, <2>5, <3>3 DEF Complete, OrderOK, Taken
    <3>. QED BY <3>5, <3>6, <3>7, <3>8 DEF IInv
  <2>6. CASE event = "recv" /\ handler = "ProcessRecv"
    <3>1. stack' \in [Threads -> Seq(Labels)] /\ Turned("recv", "ProcessRecv")
      BY <1>0, <2>0, <2>1, <2>2, <2>3, <2>6, Enters DEF Complete, At, Labels, Callbacks
    <3>2. Tally("recv", "ProcessRecv", None)
      BY <1>0, <3>1, Tallied
    <3>3. /\ UNCHANGED <<Counted, Opening, OpeningOwned, Receiving, Sending, SendingOwned, Closes,
                          ClosesOwned, Enqueuing, CallingBack, Noticing, Ending, Holding, Buffering,
                          Failing, Swapping, Dropping, Leaving>>
          /\ ReceivingOwned' = ReceivingOwned - 1
      BY <1>0, <3>2 DEF Sizes, Tally, Hits
    <3>4. Sizes'
      BY <1>0, <2>0, <2>1, <2>2, <2>3, <2>6, <3>1, SizesNext DEF Complete, TypeOK, Events
    <3>5. TypeOK'
      BY <1>0, <2>0, <2>1, <2>2, <2>3, <2>6, <3>1, <3>3, <3>4, BoundsAssumption
      DEF Complete, TypeOK, Reasons
    <3>6. Counting'
      BY <1>0, <2>0, <2>1, <2>2, <2>3, <2>6, <3>3, <3>4
      DEF Complete, Sizes, Counting, CountOK, OwnersOK, PhaseOK, FailOK, NoticeOK,
          SenderOK
    <3>7. ClearOK'
      BY <1>0, <2>0, <2>1, <2>2, <2>3, <2>6, ClearEnters DEF Complete, At, Labels, Callbacks
    <3>8. OrderOK'
      BY <1>0, <2>0, <2>1, <2>2, <2>3, <2>6, <3>3 DEF Complete, OrderOK, Taken
    <3>. QED BY <3>5, <3>6, <3>7, <3>8 DEF IInv
  <2>7. CASE event = "recv" /\ handler = "RecvEof"
    <3>1. stack' \in [Threads -> Seq(Labels)] /\ Turned("recv", "RecvEof")
      BY <1>0, <2>0, <2>1, <2>2, <2>3, <2>7, Enters DEF Complete, At, Labels, Callbacks
    <3>2. Tally("recv", "RecvEof", None)
      BY <1>0, <3>1, Tallied
    <3>3. /\ UNCHANGED <<Counted, Opening, OpeningOwned, Sending, SendingOwned, Closes, ClosesOwned,
                          Enqueuing, CallingBack, Noticing, Ending, Holding, Buffering, Failing,
                          Swapping, Dropping, Leaving>>
          /\ Receiving' = Receiving - 1
          /\ ReceivingOwned' = ReceivingOwned - 1
      BY <1>0, <3>2 DEF Sizes, Tally, Hits
    <3>4. Sizes'
      BY <1>0, <2>0, <2>1, <2>2, <2>3, <2>7, <3>1, SizesNext DEF Complete, TypeOK, Events
    <3>5. TypeOK'
      BY <1>0, <2>0, <2>1, <2>2, <2>3, <2>7, <3>1, <3>3, <3>4, BoundsAssumption
      DEF Complete, TypeOK, Reasons
    <3>6. Counting'
      BY <1>0, <2>0, <2>1, <2>2, <2>3, <2>7, <3>3, <3>4
      DEF Complete, Sizes, Counting, CountOK, OwnersOK, PhaseOK, FailOK, NoticeOK,
          SenderOK
    <3>7. ClearOK'
      BY <1>0, <2>0, <2>1, <2>2, <2>3, <2>7, ClearEnters DEF Complete, At, Labels, Callbacks
    <3>8. OrderOK'
      BY <1>0, <2>0, <2>1, <2>2, <2>3, <2>7, <3>3 DEF Complete, OrderOK, Taken
    <3>. QED BY <3>5, <3>6, <3>7, <3>8 DEF IInv
  <2>8. CASE event = "recv" /\ handler = "RecvError"
    <3>1. stack' \in [Threads -> Seq(Labels)] /\ Turned("recv", "RecvError")
      BY <1>0, <2>0, <2>1, <2>2, <2>3, <2>8, Enters DEF Complete, At, Labels, Callbacks
    <3>2. Tally("recv", "RecvError", None)
      BY <1>0, <3>1, Tallied
    <3>3. /\ UNCHANGED <<Counted, Opening, OpeningOwned, Sending, SendingOwned, Closes, ClosesOwned,
                          Enqueuing, CallingBack, Noticing, Ending, Holding, Buffering, Failing,
                          Swapping, Dropping, Leaving>>
          /\ Receiving' = Receiving - 1
          /\ ReceivingOwned' = ReceivingOwned - 1
      BY <1>0, <3>2 DEF Sizes, Tally, Hits
    <3>4. Sizes'
      BY <1>0, <2>0, <2>1, <2>2, <2>3, <2>8, <3>1, SizesNext DEF Complete, TypeOK, Events
    <3>5. TypeOK'
      BY <1>0, <2>0, <2>1, <2>2, <2>3, <2>8, <3>1, <3>3, <3>4, BoundsAssumption
      DEF Complete, TypeOK, Reasons
    <3>6. Counting'
      BY <1>0, <2>0, <2>1, <2>2, <2>3, <2>8, <3>3, <3>4
      DEF Complete, Sizes, Counting, CountOK, OwnersOK, PhaseOK, FailOK, NoticeOK,
          SenderOK
    <3>7. ClearOK'
      BY <1>0, <2>0, <2>1, <2>2, <2>3, <2>8, ClearEnters DEF Complete, At, Labels, Callbacks
    <3>8. OrderOK'
      BY <1>0, <2>0, <2>1, <2>2, <2>3, <2>8, <3>3 DEF Complete, OrderOK, Taken
    <3>. QED BY <3>5, <3>6, <3>7, <3>8 DEF IInv
  <2>9. CASE event = "send" /\ handler = "SendDone"
    <3>1. stack' \in [Threads -> Seq(Labels)] /\ Turned("send", "SendDone")
      BY <1>0, <2>0, <2>1, <2>2, <2>3, <2>9, Enters DEF Complete, At, Labels, Callbacks
    <3>2. Tally("send", "SendDone", None)
      BY <1>0, <3>1, Tallied
    <3>3. /\ UNCHANGED <<Counted, Opening, OpeningOwned, Receiving, ReceivingOwned, Sending, Closes,
                          ClosesOwned, Enqueuing, CallingBack, Noticing, Ending, Holding, Buffering,
                          Failing, Swapping, Dropping, Leaving>>
          /\ SendingOwned' = SendingOwned - 1
      BY <1>0, <3>2 DEF Sizes, Tally, Hits
    <3>4. Sizes'
      BY <1>0, <2>0, <2>1, <2>2, <2>3, <2>9, <3>1, SizesNext DEF Complete, TypeOK, Events
    <3>5. TypeOK'
      BY <1>0, <2>0, <2>1, <2>2, <2>3, <2>9, <3>1, <3>3, <3>4, BoundsAssumption
      DEF Complete, TypeOK, Reasons
    <3>6. Counting'
      BY <1>0, <2>0, <2>1, <2>2, <2>3, <2>9, <3>3, <3>4
      DEF Complete, Sizes, Counting, CountOK, OwnersOK, PhaseOK, FailOK, NoticeOK,
          SenderOK
    <3>7. ClearOK'
      BY <1>0, <2>0, <2>1, <2>2, <2>3, <2>9, ClearEnters DEF Complete, At, Labels, Callbacks
    <3>8. OrderOK'
      BY <1>0, <2>0, <2>1, <2>2, <2>3, <2>9, <3>3 DEF Complete, OrderOK, Taken
    <3>. QED BY <3>5, <3>6, <3>7, <3>8 DEF IInv
  <2>10. CASE event = "send" /\ handler = "SendError"
    <3>1. stack' \in [Threads -> Seq(Labels)] /\ Turned("send", "SendError")
      BY <1>0, <2>0, <2>1, <2>2, <2>3, <2>10, Enters DEF Complete, At, Labels, Callbacks
    <3>2. Tally("send", "SendError", None)
      BY <1>0, <3>1, Tallied
    <3>3. /\ UNCHANGED <<Counted, Opening, OpeningOwned, Receiving, ReceivingOwned, Sending, Closes,
                          ClosesOwned, Enqueuing, CallingBack, Noticing, Ending, Holding, Buffering,
                          Failing, Swapping, Dropping, Leaving>>
          /\ SendingOwned' = SendingOwned - 1
      BY <1>0, <3>2 DEF Sizes, Tally, Hits
    <3>4. Sizes'
      BY <1>0, <2>0, <2>1, <2>2, <2>3, <2>10, <3>1, SizesNext DEF Complete, TypeOK, Events
    <3>5. TypeOK'
      BY <1>0, <2>0, <2>1, <2>2, <2>3, <2>10, <3>1, <3>3, <3>4, BoundsAssumption
      DEF Complete, TypeOK, Reasons
    <3>6. Counting'
      BY <1>0, <2>0, <2>1, <2>2, <2>3, <2>10, <3>3, <3>4
      DEF Complete, Sizes, Counting, CountOK, OwnersOK, PhaseOK, FailOK, NoticeOK,
          SenderOK
    <3>7. ClearOK'
      BY <1>0, <2>0, <2>1, <2>2, <2>3, <2>10, ClearEnters
      DEF Complete, At, Labels, Callbacks
    <3>8. OrderOK'
      BY <1>0, <2>0, <2>1, <2>2, <2>3, <2>10, <3>3 DEF Complete, OrderOK, Taken
    <3>. QED BY <3>5, <3>6, <3>7, <3>8 DEF IInv
  <2>11. CASE event = "disconnect" /\ handler = "ProcessDisconnect"
    <3>1. stack' \in [Threads -> Seq(Labels)] /\ Turned("disconnect", "ProcessDisconnect")
      BY <1>0, <2>0, <2>1, <2>2, <2>3, <2>11, Enters DEF Complete, At, Labels, Callbacks
    <3>2. Tally("disconnect", "ProcessDisconnect", None)
      BY <1>0, <3>1, Tallied
    <3>3. /\ UNCHANGED <<Counted, Opening, OpeningOwned, Receiving, ReceivingOwned, Sending,
                          SendingOwned, Closes, Enqueuing, CallingBack, Noticing, Ending, Holding,
                          Buffering, Failing, Swapping, Dropping, Leaving>>
          /\ ClosesOwned' = ClosesOwned - 1
      BY <1>0, <3>2 DEF Sizes, Tally, Hits
    <3>4. Sizes'
      BY <1>0, <2>0, <2>1, <2>2, <2>3, <2>11, <3>1, SizesNext DEF Complete, TypeOK, Events
    <3>5. TypeOK'
      BY <1>0, <2>0, <2>1, <2>2, <2>3, <2>11, <3>1, <3>3, <3>4, BoundsAssumption
      DEF Complete, TypeOK, Reasons
    <3>6. Counting'
      BY <1>0, <2>0, <2>1, <2>2, <2>3, <2>11, <3>3, <3>4
      DEF Complete, Sizes, Counting, CountOK, OwnersOK, PhaseOK, FailOK, NoticeOK,
          SenderOK
    <3>7. ClearOK'
      BY <1>0, <2>0, <2>1, <2>2, <2>3, <2>11, ClearEnters
      DEF Complete, At, Labels, Callbacks
    <3>8. OrderOK'
      BY <1>0, <2>0, <2>1, <2>2, <2>3, <2>11, <3>3 DEF Complete, OrderOK, Taken
    <3>. QED BY <3>5, <3>6, <3>7, <3>8 DEF IInv
  <2>. QED BY <2>4, <2>5, <2>6, <2>7, <2>8, <2>9, <2>10, <2>11 DEF Events, Handlers
<1>. QED BY <1>t, <1>1, <1>2, <1>3, <1>4, <1>5, <1>6, <1>7, <1>8, <1>9, <1>10, <1>11,
            <1>12, <1>13, <1>14, <1>15, <1>16, <1>17, <1>18, <1>19, <1>20, <1>21, <1>22,
            <1>23, <1>24, <1>25, <1>26, <1>27, <1>28, <1>29, <1>30, <1>31, <1>32, <1>33,
            <1>34, <1>35, <1>36, <1>37, <1>38, <1>39, <1>40, <1>41, <1>42, <1>43, <1>44,
            <1>45, <1>46 DEF Next, Progress

LEMMA StutterOK == IInv /\ UNCHANGED vars => IInv'
<1> SUFFICES ASSUME IInv, UNCHANGED vars PROVE IInv'
  OBVIOUS
<1>1. UNCHANGED <<stack, posted, state, owners, opened, reason, message, fresh, unread>>
      /\ UNCHANGED <<pendingIoCount, disconnectCompleted, disconnectNotified, closeReason,
                     gracefulClose, sendQueue, sendRegistered, sendBuffers>>
      /\ UNCHANGED <<accepted, wire, notices, aborted>>
  BY DEF vars, closing, why, sending, io, arguments, history
<1>2. UNCHANGED <<Counted, Opening, OpeningOwned, Receiving, ReceivingOwned, Sending,
                  SendingOwned, Closes, ClosesOwned, Enqueuing, CallingBack, Noticing,
                  Ending, Holding, Buffering, Failing, Swapping, Dropping, Leaving>>
  BY <1>1 DEF Work, On, Counted, Opening, OpeningOwned, Receiving, ReceivingOwned, Sending,
              SendingOwned, Closes, ClosesOwned, Enqueuing, CallingBack, Noticing, Ending,
              Holding, Buffering, Failing, Swapping, Dropping, Leaving
<1>3. TypeOK'
  BY <1>1 DEF IInv, TypeOK
<1>4. Counting'
  BY <1>1, <1>2 DEF IInv, Counting, CountOK, OwnersOK, PhaseOK, FailOK, NoticeOK, SenderOK,
                    IsConnected
<1>5. ClearOK' /\ OrderOK'
  BY <1>1, <1>2 DEF IInv, ClearOK, OrderOK, Taken, IsConnected
<1>. QED BY <1>3, <1>4, <1>5 DEF IInv

LEMMA InitOK == Init => IInv
<1> SUFFICES ASSUME Init PROVE IInv
  OBVIOUS
<1>1. TypeOK
  <2>1. \A S : <<>> \in Seq(S)
    OBVIOUS
  <2>2. /\ stack \in [Threads -> Seq(Labels)] /\ message \in [Threads -> Seq(Messages)]
        /\ reason \in [Threads -> Reasons] /\ closeReason \in Reasons
        /\ unread \in 0 .. RecvCapacity
    BY <2>1, BoundsAssumption DEF Init, Reasons
  <2>. QED BY <2>1, <2>2 DEF Init, TypeOK
<1>2. \A L : Work(L) = 0
  <2> TAKE L
  <2>1. CountOf(stack, L) = 0
    BY ThreadsFinite, NoFrames DEF Init
  <2>2. posted \intersect L = {}
    BY DEF Init
  <2>. QED BY <2>1, <2>2, FS_EmptySet, WorkIs
<1>3. Counting
  BY <1>2 DEF Init, Counting, CountOK, OwnersOK, PhaseOK, FailOK, NoticeOK, SenderOK,
              IsConnected, On, Counted, Opening, OpeningOwned, Receiving, ReceivingOwned,
              Sending, SendingOwned, Closes, ClosesOwned, Enqueuing, CallingBack, Noticing,
              Ending, Failing, Swapping, Dropping, Leaving, Buffering
<1>4. ClearOK
  BY DEF Init, ClearOK, IsConnected
<1>5. OrderOK
  <2>1. Holding = 0 /\ Swapping = 0
    BY <1>2 DEF Holding, Swapping, On
  <2>2. <<>> \o <<>> = <<>> /\ <<>> \in Seq(Messages)
    OBVIOUS
  <2>. QED BY <2>1, <2>2, PrefixItself DEF Init, OrderOK, Taken, IsConnected
<1>. QED BY <1>1, <1>3, <1>4, <1>5 DEF IInv

THEOREM Inductive == Spec => []IInv
<1>1. IInv /\ [Next]_vars => IInv'
  BY StepOK, StutterOK
<1>. QED BY InitOK, <1>1, PTL DEF Spec

-----------------------------------------------------------------------------
(* Work, in the terms of the module: labels of frames and names of events    *)
(* are different.                                                            *)
LEMMA FramesWork ==
  ASSUME TypeOK, NEW L \in SUBSET Labels, NEW E \in SUBSET Events
  PROVE  /\ Work(L \union E) = Cardinality(Frames(L)) + Cardinality(posted \intersect E)
         /\ Cardinality(Frames(L)) \in Nat /\ Cardinality(posted \intersect E) \in Nat
         /\ Cardinality(Frames(L)) = 0 <=> Frames(L) = {}
<1>1. stack \in Stacks(Threads, Labels) /\ IsFiniteSet(posted)
  BY StackType, EventsFinite DEF TypeOK
<1>2. Labels \intersect Events = {}
  BY DEF Labels, Callbacks, Events
<1>3. posted \intersect (L \union E) = posted \intersect E
  BY <1>2 DEF TypeOK
<1>4. FramesOf(stack, L \union E) = FramesOf(stack, L)
  <2>1. \A t \in Threads : \A i \in DOMAIN stack[t] : stack[t][Len(stack[t]) + 1 - i] \in Labels
    <3> TAKE t \in Threads
    <3> TAKE i \in DOMAIN stack[t]
    <3>1. stack[t] \in Seq(Labels) /\ i \in 1..Len(stack[t])
      BY <1>1 DEF Stacks
    <3>2. Len(stack[t]) + 1 - i \in 1..Len(stack[t])
      BY <3>1
    <3>. QED BY <3>1, <3>2
  <2>. QED BY <1>1, <1>2, <2>1 DEF FramesOf, Stacks
<1>5. Frames(L) = FramesOf(stack, L)
  BY <1>1 DEF Frames, FramesOf, Stacks
<1>6. CountOf(stack, L) = Cardinality(Frames(L)) /\ Cardinality(Frames(L)) \in Nat
      /\ (CountOf(stack, L) = 0 <=> Frames(L) = {})
  BY <1>1, <1>5, FramesFinite, ThreadsFinite DEF CountOf
<1>7. Cardinality(posted \intersect E) \in Nat
  BY <1>1, EventsType
<1>8. Work(L \union E) = CountOf(stack, L) + Cardinality(posted \intersect E)
  BY <1>3, <1>4 DEF Work, WorkOf, CountOf
<1>. QED BY <1>6, <1>7, <1>8

(* Every variable of the session keeps to its type.                          *)
THEOREM TypeCorrect == Spec => []TypeOK
<1>1. IInv => TypeOK
  BY DEF IInv
<1>. QED BY Inductive, <1>1, PTL

(* OnDisconnected() is called once at most, and after the other callbacks.   *)
THEOREM NotifiedLastHolds == Spec => []NotifiedLast
<1>1. IInv => NotifiedLast
  <2> SUFFICES ASSUME IInv PROVE NotifiedLast
    OBVIOUS
  <2>1. TypeOK /\ Sizes /\ NoticeOK
    BY SizesOK DEF IInv, Counting
  <2>2. UserCallbacks = {"OnConnected", "OnRecv", "OnSend"}
    BY DEF UserCallbacks
  <2>3. CallingBack = Cardinality(Frames(UserCallbacks)) + Cardinality(posted \intersect {})
    <3>1. UserCallbacks \in SUBSET Labels /\ {} \in SUBSET Events /\ UserCallbacks \union {} = UserCallbacks
      BY DEF UserCallbacks, Labels, Callbacks
    <3>. QED BY <2>1, <3>1, FramesWork DEF CallingBack
  <2>4. CallingBack = 0 => Frames(UserCallbacks) = {}
    <3>1. UserCallbacks \in SUBSET Labels /\ {} \in SUBSET Events
      BY DEF UserCallbacks, Labels, Callbacks
    <3>2. /\ Cardinality(Frames(UserCallbacks)) \in Nat /\ Cardinality(posted \intersect {}) \in Nat
          /\ Cardinality(Frames(UserCallbacks)) = 0 <=> Frames(UserCallbacks) = {}
      BY <2>1, <3>1, FramesWork
    <3>. QED BY <2>3, <3>2
  <2>5. notices <= 1
    BY <2>1 DEF TypeOK, Sizes, NoticeOK
  <2>. QED BY <2>1, <2>2, <2>4, <2>5 DEF NoticeOK, NotifiedLast
<1>. QED BY Inductive, <1>1, PTL

(* _pendingIoCount is what it should count, and no completion is dropped for *)
(* want of an owner.                                                         *)
THEOREM PendingCountedHolds == Spec => []PendingCounted
<1>1. IInv => PendingCounted
  <2> SUFFICES ASSUME IInv PROVE PendingCounted
    OBVIOUS
  <2>1. TypeOK /\ CountOK /\ OwnersOK
    BY DEF IInv, Counting
  <2>2. Counted = Cardinality(Frames(CountedFrames)) + Cardinality(posted \intersect {"recv", "send"})
    <3>1. CountedFrames \in SUBSET Labels /\ {"recv", "send"} \in SUBSET Events
      BY DEF CountedFrames, Labels, Callbacks, Events
    <3>. QED BY <2>1, <3>1, FramesWork DEF Counted, CountedWork
  <2>3. ASSUME NEW e \in posted PROVE e \in owners
    <3>1. \A L : e \in L => Work(L) > 0
      BY <2>1, PostedWork
    <3>2. e \in Events
      BY <2>1 DEF TypeOK
    <3>. QED BY <2>1, <3>1, <3>2 DEF OwnersOK, Events, OpeningOwned, ReceivingOwned, SendingOwned,
                ClosesOwned, ConnectOwned, RecvOwned, SendOwned, DisconnectOwned
  <2>. QED BY <2>1, <2>2, <2>3 DEF CountOK, PendingCounted
<1>. QED BY Inductive, <1>1, PTL

(* The send event and the receive buffer have one user at a time.            *)
THEOREM OneOfEachHolds == Spec => []OneOfEach
<1>1. IInv => OneOfEach
  <2> SUFFICES ASSUME IInv PROVE OneOfEach
    OBVIOUS
  <2>1. TypeOK /\ Sizes /\ OwnersOK
    BY SizesOK DEF IInv, Counting
  <2>2. SendHolders = Sending
    <3>1. SendFrames \in SUBSET Labels /\ {"send"} \in SUBSET Events
      BY DEF SendFrames, Labels, Callbacks, Events
    <3>. QED BY <2>1, <3>1, FramesWork DEF Sending, SendWork, SendHolders
  <2> DEFINE F == {"OnConnected", "RegisterRecv", "CountRecv", "WSARecv",
                   "ProcessRecv", "RecvLoop", "OnRecv"}
  <2>3. ReceiveHolders = Work(F \union {"recv"})
    <3>1. F \in SUBSET Labels /\ {"recv"} \in SUBSET Events
      BY DEF Labels, Callbacks, Events
    <3>. QED BY <2>1, <3>1, FramesWork DEF ReceiveHolders
  <2>4. Work(F \union {"recv"}) <= Receiving /\ Work(F \union {"recv"}) \in Nat
    <3>1. F \union {"recv"} \subseteq RecvWork
      BY DEF RecvWork
    <3>2. stack \in Stacks(Threads, Labels) /\ IsFiniteSet(posted)
      BY <2>1, StackType, EventsFinite DEF TypeOK
    <3>. QED BY <3>1, <3>2, WorkMonotone, WorkType, ThreadsFinite DEF Receiving, Work
  <2>. QED BY <2>1, <2>2, <2>3, <2>4 DEF Sizes, OwnersOK, OneOfEach
<1>. QED BY Inductive, <1>1, PTL

(* A message that is queued on a connected session has its sender, unless    *)
(* somebody is about to close the session.                                   *)
THEOREM NoStrandedMessageHolds == Spec => []NoStrandedMessage
<1>1. IInv => NoStrandedMessage
  <2> SUFFICES ASSUME IInv PROVE NoStrandedMessage
    OBVIOUS
  <2>1. TypeOK /\ Sizes /\ OwnersOK /\ SenderOK
    BY SizesOK DEF IInv, Counting
  <2>2. SendHolders = Sending
    <3>1. SendFrames \in SUBSET Labels /\ {"send"} \in SUBSET Events
      BY DEF SendFrames, Labels, Callbacks, Events
    <3>. QED BY <2>1, <3>1, FramesWork DEF Sending, SendWork, SendHolders
  <2>3. Leaving > 0 => Frames({"Disconnect"}) # {}
    <3>1. {"Disconnect"} \in SUBSET Labels /\ {} \in SUBSET Events
          /\ {"Disconnect"} \union {} = {"Disconnect"} /\ posted \intersect {} = {}
      BY DEF Labels
    <3>2. /\ Work({"Disconnect"} \union {})
             = Cardinality(Frames({"Disconnect"})) + Cardinality(posted \intersect {})
          /\ Cardinality(Frames({"Disconnect"})) \in Nat
          /\ Cardinality(Frames({"Disconnect"})) = 0 <=> Frames({"Disconnect"}) = {}
      BY <2>1, <3>1, FramesWork
    <3>3. Leaving = Work({"Disconnect"} \union {})
      BY <3>1 DEF Leaving, On, Only
    <3>4. Cardinality(posted \intersect {}) = 0
      BY <3>1, FS_EmptySet
    <3>. QED BY <3>2, <3>3, <3>4
  <2>. QED BY <2>1, <2>2, <2>3 DEF Sizes, OwnersOK, SenderOK, NoStrandedMessage
<1>. QED BY Inductive, <1>1, PTL

(* Messages are sent in the order in which they were accepted; while the     *)
(* session is connected, none is missing.                                    *)
THEOREM SentInOrderHolds == Spec => []SentInOrder
<1>1. IInv => SentInOrder
  <2> SUFFICES ASSUME IInv PROVE SentInOrder
    OBVIOUS
  <2>1. TypeOK /\ Sizes /\ OrderOK
    BY SizesOK DEF IInv
  <2>2. Taken = Unsent
    <3>1. UnsentFrames \in SUBSET Labels /\ {} \in SUBSET Events
          /\ UnsentFrames \union {} = UnsentFrames /\ posted \intersect {} = {}
      BY DEF UnsentFrames, Labels
    <3>2. /\ Work(UnsentFrames \union {})
             = Cardinality(Frames(UnsentFrames)) + Cardinality(posted \intersect {})
          /\ Cardinality(Frames(UnsentFrames)) \in Nat
          /\ Cardinality(Frames(UnsentFrames)) = 0 <=> Frames(UnsentFrames) = {}
      BY <2>1, <3>1, FramesWork
    <3>3. Holding = Cardinality(Frames(UnsentFrames))
      BY <3>1, <3>2, FS_EmptySet DEF Holding
    <3>. QED BY <3>2, <3>3 DEF Taken, Unsent, UnsentFrames
  <2>3. /\ wire \in Seq(Messages) /\ Taken \in Seq(Messages) /\ accepted \in Seq(Messages)
    BY <2>1 DEF TypeOK, Taken
  <2>4. IsPrefix(wire, accepted)
    BY <2>1, <2>3, PrefixShorter DEF OrderOK
  <2>. QED BY <2>1, <2>2, <2>4 DEF OrderOK, SentInOrder
<1>. QED BY Inductive, <1>1, PTL

=============================================================================
