---------------------------- MODULE Rio_proofs ----------------------------
(* Proofs about RioSession and RioCore, the two modules of the RIO network.  *)
(* They have no state in common, and neither do their proofs: first those    *)
(* about a session, then those about a core.                                 *)
EXTENDS RioSession, RioCore, CallStacks

-----------------------------------------------------------------------------
(* RioSession.  A thread is in a stack of calls, so the invariant counts     *)
(* frames by their labels, as in IocpSession_proofs.                         *)
Labels ==
    {"register", "connecting", "init", "onConnected", "opened", "post", "submit",
     "close", "closeAgain", "closeCount", "finalize", "notify",
     "send", "flush", "segments", "flushNothing", "submitSend", "unsend",
     "gotData", "gotError", "onData", "sent", "exit", "reachedZero"}

(* Frames that lead to a receive, or come from one; that send; that hold     *)
(* _ioSubmitLock.                                                            *)
OpenLabels == {"register", "connecting", "init"}
ReceiveLabels ==
    OpenLabels \union {"onConnected", "opened", "post", "submit", "gotData", "gotError", "onData"}
FillLabels == {"flush", "segments", "submitSend"}
SendLabels == FillLabels \union {"flushNothing", "sent"}
SubmitLabels == {"segments", "flushNothing", "submitSend"}
LockLabels == SubmitLabels \union {"closeAgain", "closeCount", "submit"}
LeaveLabels == {"close", "closeAgain"}
Only(label) == {label}

Frames(labels) == CountOf(stack, labels)
Opening    == Frames(OpenLabels)
Receiving  == Frames(ReceiveLabels)
Filling    == Frames(FillLabels)
Sending    == Frames(SendLabels)
Submitting == Frames(SubmitLabels)
Locking    == Frames(LockLabels)
Leaving    == Frames(LeaveLabels)
Emptying   == Frames(Only("flushNothing"))
Unsending  == Frames(Only("unsend"))
Sents      == Frames(Only("sent"))
Again      == Frames(Only("closeAgain"))

Item == [byte : Nat, last : BOOLEAN]
TypeOK ==
    /\ state \in {"Created", "Active", "Closing", "Closed"}
    /\ ioLock \in Threads \union {NoThread}
    /\ receives \in Nat /\ accepted \in Nat
    /\ sends \in Seq(Seq(Nat)) /\ ring \in Seq(Nat) /\ wire \in Seq(Nat)
    /\ overflow \in Seq(Item)
    /\ isSending \in BOOLEAN
    /\ segment \in [Threads -> Seq(Nat)]
    /\ stack \in [Threads -> Seq(Labels)]

(* One thread is in a region of _ioSubmitLock.                               *)
LockOK == Locking = IF ioLock = NoThread THEN 0 ELSE 1

(* The opening turns into the first receive, a receive into its completion,  *)
(* the completion into the next receive.                                     *)
ReceiveOK == Receiving + receives <= 1

(* What has not begun in a state of the session.  Who submits a send found   *)
(* the session active, and the lock keeps it so.                             *)
PhaseOK ==
    /\ Opening > 0 => state = "Created"
    /\ Submitting > 0 => state = "Active"
    /\ state = "Created" =>
         /\ Sending = 0 /\ Unsending = 0 /\ sends = <<>> /\ ~isSending
         /\ ring = <<>> /\ overflow = <<>> /\ accepted = 0 /\ wire = <<>>

(* _isSending is set while somebody sends; on an active session with         *)
(* something to send somebody does, or is about to close it.                 *)
SenderOK ==
    /\ Sending + Len(sends) <= 1 /\ Emptying = 0
    /\ overflow # <<>> => ring # <<>>
    /\ state = "Active" =>
         /\ Sending + Len(sends) > 0 => isSending
         /\ isSending => ring # <<>>
         /\ ring # <<>> => Sending + Len(sends) > 0 \/ Leaving > 0

(* On an active session, _isSending is cleared after a failure only by a     *)
(* thread that closes the session first.                                     *)
Closes(s) == \A i \in DOMAIN s : s[i] = "unsend" => i > 1 /\ s[i - 1] = "close"
UnsendOK == state = "Active" => \A t \in Threads : Closes(stack[t])

(* Every message that waits fits into an empty ring.                         *)
Starts(q, i) == i > 0 => q[i].last
Fitting(q) ==
    \A i \in 0..Len(q) - 1 :
      Starts(q, i) => \E j \in i + 1..Len(q) : j - i <= RingSize /\ q[j].last
FitOK == Fitting(overflow) /\ (overflow # <<>> => overflow[Len(overflow)].last)

(* Where the bytes are: on the wire up to where the ring begins, or further  *)
(* by what the kernel has sent and the session does not know of yet; then    *)
(* the ring, then what waits.                                                *)
Numbered(s, first) == \A i \in DOMAIN s : s[i] = first + i
Base == accepted - Len(overflow) - Len(ring)
Within(t, label) == \E i \in DOMAIN stack[t] : stack[t][i] = label
QueuesOK ==
    /\ Base >= 0 /\ Numbered(ring, Base)
    /\ \A i \in DOMAIN overflow : overflow[i].byte = Base + Len(ring) + i
BytesOK ==
    /\ Numbered(wire, 0)
    /\ state = "Active" /\ Sents = 0 => Base = Len(wire)
    /\ \A t \in Threads : state = "Active" /\ Within(t, "sent") =>
         Len(segment[t]) <= Len(ring) /\ Base = Len(wire) - Len(segment[t])
    /\ \A t \in Threads : Within(t, "submitSend") =>
         Numbered(segment[t], Len(wire)) /\ Len(segment[t]) <= Len(ring)
    /\ \A i \in DOMAIN sends :
         Numbered(sends[i], Len(wire)) /\ (state = "Active" => Len(sends[i]) <= Len(ring))

Counting == LockOK /\ ReceiveOK /\ PhaseOK /\ SenderOK
IInv == TypeOK /\ Counting /\ UnsendOK /\ FitOK /\ QueuesOK /\ BytesOK

-----------------------------------------------------------------------------
(* The sizes of what is counted: some sets of labels lie in others.          *)
Sizes ==
    /\ Opening \in Nat /\ Receiving \in Nat /\ Filling \in Nat /\ Sending \in Nat
    /\ Submitting \in Nat /\ Locking \in Nat /\ Leaving \in Nat /\ Emptying \in Nat
    /\ Unsending \in Nat /\ Sents \in Nat /\ Again \in Nat
    /\ Opening <= Receiving /\ Submitting <= Sending
    /\ Again + Submitting <= Locking
    /\ Sending = Filling + Emptying + Sents

LEMMA ThreadsFinite == IsFiniteSet(Threads)
<1>1. IsFiniteSet({Opener})
  BY FS_Singleton
<1>. QED BY <1>1, RioSessionConstants, FS_Union DEF Threads

LEMMA Nested ==
  ASSUME NEW stk \in Stacks(Threads, Labels)
  PROVE  /\ \A L : CountOf(stk, L) \in Nat
         /\ CountOf(stk, OpenLabels) <= CountOf(stk, ReceiveLabels)
         /\ CountOf(stk, SubmitLabels) <= CountOf(stk, SendLabels)
         /\ CountOf(stk, Only("closeAgain")) + CountOf(stk, SubmitLabels) <= CountOf(stk, LockLabels)
         /\ CountOf(stk, SendLabels)
            = CountOf(stk, FillLabels) + CountOf(stk, Only("flushNothing")) + CountOf(stk, Only("sent"))
<1>0. \A L : CountOf(stk, L) \in Nat
  BY CountType, ThreadsFinite
<1>1. \A L, M : L \subseteq M => CountOf(stk, L) <= CountOf(stk, M)
  BY CountMonotone, ThreadsFinite
<1>2. /\ OpenLabels \subseteq ReceiveLabels /\ SubmitLabels \subseteq SendLabels
      /\ Only("closeAgain") \union SubmitLabels \subseteq LockLabels
      /\ Only("closeAgain") \intersect SubmitLabels = {}
      /\ SendLabels = (FillLabels \union Only("flushNothing")) \union Only("sent")
      /\ FillLabels \intersect Only("flushNothing") = {}
      /\ (FillLabels \union Only("flushNothing")) \intersect Only("sent") = {}
  BY DEF OpenLabels, ReceiveLabels, SubmitLabels, SendLabels, FillLabels, LockLabels, Only
<1>3. \A L, M : L \intersect M = {} => CountOf(stk, L \union M) = CountOf(stk, L) + CountOf(stk, M)
  BY CountUnion, ThreadsFinite
<1>4. CountOf(stk, Only("closeAgain") \union SubmitLabels)
      = CountOf(stk, Only("closeAgain")) + CountOf(stk, SubmitLabels)
  BY <1>2, <1>3
<1>5. CountOf(stk, SendLabels)
      = CountOf(stk, FillLabels \union Only("flushNothing")) + CountOf(stk, Only("sent"))
  BY <1>2, <1>3
<1>6. CountOf(stk, FillLabels \union Only("flushNothing"))
      = CountOf(stk, FillLabels) + CountOf(stk, Only("flushNothing"))
  BY <1>2, <1>3
<1>. QED BY <1>0, <1>1, <1>2, <1>4, <1>5, <1>6

LEMMA SizesOK == TypeOK => Sizes
<1> SUFFICES ASSUME TypeOK PROVE Sizes
  OBVIOUS
<1>1. stack \in Stacks(Threads, Labels)
  BY DEF TypeOK, Stacks
<1>. QED BY <1>1, Nested DEF Sizes, Frames, Opening, Receiving, Filling, Sending, Submitting,
            Locking, Leaving, Emptying, Unsending, Sents, Again

LEMMA SizesNext ==
  ASSUME stack' \in [Threads -> Seq(Labels)] PROVE Sizes'
<1>1. stack' \in Stacks(Threads, Labels)
  BY DEF Stacks
<1>. QED BY <1>1, Nested DEF Sizes, Frames, Opening, Receiving, Filling, Sending, Submitting,
            Locking, Leaving, Emptying, Unsending, Sents, Again

(* A frame in a thread's stack counts.                                       *)
LEMMA WithinCounts ==
  ASSUME TypeOK, NEW t \in Threads, NEW label, Within(t, label)
  PROVE  \A L : label \in L => Frames(L) > 0
<1>1. stack \in Stacks(Threads, Labels) /\ \A L : Frames(L) \in Nat
  BY CountType, ThreadsFinite DEF TypeOK, Stacks, Frames
<1>2. ASSUME NEW L, label \in L, Frames(L) = 0 PROVE FALSE
  <2>1. IsFiniteSet({}) /\ Cardinality({} \intersect L) = 0
    BY FS_EmptySet
  <2>2. WorkOf(stack, {}, L) = 0
    BY <1>1, <1>2, <2>1 DEF WorkOf, Frames
  <2>3. \A i \in DOMAIN stack[t] : stack[t][i] \notin L
    BY <1>1, <2>1, <2>2, WorkNone, ThreadsFinite
  <2>. QED BY <1>2, <2>3 DEF Within
<1>. QED BY <1>1, <1>2

LEMMA WithinCountsNext ==
  ASSUME stack' \in [Threads -> Seq(Labels)], NEW t \in Threads, NEW label, Within(t, label)'
  PROVE  \A L : label \in L => Frames(L)' > 0
<1>1. stack' \in Stacks(Threads, Labels) /\ \A L : Frames(L)' \in Nat
  BY CountType, ThreadsFinite DEF Stacks, Frames
<1>2. ASSUME NEW L, label \in L, Frames(L)' = 0 PROVE FALSE
  <2>1. IsFiniteSet({}) /\ Cardinality({} \intersect L) = 0
    BY FS_EmptySet
  <2>2. WorkOf(stack', {}, L) = 0
    BY <1>1, <1>2, <2>1 DEF WorkOf, Frames
  <2>3. \A i \in DOMAIN stack'[t] : stack'[t][i] \notin L
    BY <1>1, <2>1, <2>2, WorkNone, ThreadsFinite
  <2>. QED BY <1>2, <2>3 DEF Within
<1>. QED BY <1>1, <1>2

-----------------------------------------------------------------------------
(* What a step of thread t does to its stack: a frame a is gone, a frame b   *)
(* is the innermost, above a new frame c; None stands for no frame.          *)
None == "none"
Tally(a, b, c) ==
    /\ Opening' = Opening - Hits(a, OpenLabels) + Hits(b, OpenLabels) + Hits(c, OpenLabels)
    /\ Receiving' = Receiving - Hits(a, ReceiveLabels) + Hits(b, ReceiveLabels) + Hits(c, ReceiveLabels)
    /\ Filling' = Filling - Hits(a, FillLabels) + Hits(b, FillLabels) + Hits(c, FillLabels)
    /\ Sending' = Sending - Hits(a, SendLabels) + Hits(b, SendLabels) + Hits(c, SendLabels)
    /\ Submitting' = Submitting - Hits(a, SubmitLabels) + Hits(b, SubmitLabels) + Hits(c, SubmitLabels)
    /\ Locking' = Locking - Hits(a, LockLabels) + Hits(b, LockLabels) + Hits(c, LockLabels)
    /\ Leaving' = Leaving - Hits(a, LeaveLabels) + Hits(b, LeaveLabels) + Hits(c, LeaveLabels)
    /\ Emptying' = Emptying - Hits(a, Only("flushNothing")) + Hits(b, Only("flushNothing")) + Hits(c, Only("flushNothing"))
    /\ Unsending' = Unsending - Hits(a, Only("unsend")) + Hits(b, Only("unsend")) + Hits(c, Only("unsend"))
    /\ Sents' = Sents - Hits(a, Only("sent")) + Hits(b, Only("sent")) + Hits(c, Only("sent"))
    /\ Again' = Again - Hits(a, Only("closeAgain")) + Hits(b, Only("closeAgain")) + Hits(c, Only("closeAgain"))

Moved(t, a, b, c) ==
    /\ stack' \in [Threads -> Seq(Labels)]
    /\ Tally(a, b, c)
    /\ \A u \in Threads : \A l : Within(u, l)' => Within(u, l) \/ (u = t /\ l \in {b, c})
    /\ (\A u \in Threads : Closes(stack[u])) /\ a # "close" /\ b # "unsend" /\ (c = "unsend" => b = "close")
         => \A u \in Threads : Closes(stack'[u])

LEMMA HitsType == \A a, L : Hits(a, L) \in 0..1
  BY DEF Hits

LEMMA NoHits ==
  /\ Hits(None, OpenLabels) = 0 /\ Hits(None, ReceiveLabels) = 0 /\ Hits(None, FillLabels) = 0
  /\ Hits(None, SendLabels) = 0 /\ Hits(None, SubmitLabels) = 0 /\ Hits(None, LockLabels) = 0
  /\ Hits(None, LeaveLabels) = 0 /\ \A l \in Labels : Hits(None, Only(l)) = 0
  BY DEF None, Hits, OpenLabels, ReceiveLabels, FillLabels, SendLabels, SubmitLabels, LockLabels,
         LeaveLabels, Only, Labels

Counters == {OpenLabels, ReceiveLabels, FillLabels, SendLabels, SubmitLabels, LockLabels, LeaveLabels,
             Only("flushNothing"), Only("unsend"), Only("sent"), Only("closeAgain")}

LEMMA Tallied ==
  ASSUME NEW a, NEW b, NEW c,
         \A L \in Counters : Frames(L)' = Frames(L) - Hits(a, L) + Hits(b, L) + Hits(c, L)
  PROVE  Tally(a, b, c)
  BY DEF Counters, Tally, Opening, Receiving, Filling, Sending, Submitting, Locking, Leaving, Emptying,
         Unsending, Sents, Again

LEMMA NoneCounted == \A L \in Counters : Hits(None, L) = 0
  BY NoHits DEF Counters, Labels

LEMMA StackType == TypeOK => stack \in Stacks(Threads, Labels) /\ \A L : CountOf(stack, L) \in Nat
  BY CountType, ThreadsFinite DEF TypeOK, Stacks

(* One sequence of frames, after a return, a step within the innermost call, *)
(* a call.                                                                   *)
LEMMA ReturnShape ==
  ASSUME NEW s \in Seq(Labels), s # <<>>
  PROVE  /\ \A l : (\E i \in DOMAIN Tail(s) : Tail(s)[i] = l) => \E i \in DOMAIN s : s[i] = l
         /\ Closes(s) /\ Head(s) # "close" => Closes(Tail(s))
<1>1. /\ Tail(s) \in Seq(Labels) /\ Len(s) \in Nat \ {0} /\ Len(Tail(s)) = Len(s) - 1
      /\ DOMAIN s = 1..Len(s) /\ DOMAIN Tail(s) = 1..(Len(s) - 1) /\ s[1] = Head(s)
      /\ \A i \in 1..(Len(s) - 1) : Tail(s)[i] = s[i + 1]
  OBVIOUS
<1>2. \A i \in DOMAIN Tail(s) : i + 1 \in DOMAIN s /\ Tail(s)[i] = s[i + 1]
  BY <1>1
<1>3. ASSUME Closes(s), Head(s) # "close", NEW i \in DOMAIN Tail(s), Tail(s)[i] = "unsend"
      PROVE  i > 1 /\ Tail(s)[i - 1] = "close"
  <2>1. i + 1 > 1 /\ s[(i + 1) - 1] = "close" /\ i \in 1..(Len(s) - 1)
    BY <1>1, <1>2, <1>3 DEF Closes
  <2>2. (i + 1) - 1 = i /\ i # 1
    BY <1>1, <1>3, <2>1
  <2>3. i - 1 \in 1..(Len(s) - 1) /\ (i - 1) + 1 = i
    BY <1>1, <2>1, <2>2
  <2>. QED BY <1>1, <2>1, <2>2, <2>3
<1>. QED BY <1>2, <1>3 DEF Closes

LEMMA FramesJoin ==
  ASSUME NEW S, NEW x \in Seq(S), NEW y \in Seq(S)
  PROVE  /\ x \o y \in Seq(S) /\ Len(x \o y) = Len(x) + Len(y)
         /\ \A i \in 1..Len(x) : (x \o y)[i] = x[i]
         /\ \A i \in 1..Len(y) : (x \o y)[Len(x) + i] = y[i]
  OBVIOUS

LEMMA TwoFrames ==
  ASSUME NEW S, NEW a \in S, NEW b \in S
  PROVE  <<a>> \o <<>> = <<a>> /\ <<a>> \o (<<b>> \o <<>>) = <<a, b>>
<1>1. <<a>> \o <<>> = <<a>> /\ <<b>> \o <<>> = <<b>>
  OBVIOUS
<1>2. /\ <<a>> \in Seq(S) /\ <<b>> \in Seq(S) /\ Len(<<a>>) = 1 /\ Len(<<b>>) = 1
      /\ <<a>>[1] = a /\ <<b>>[1] = b
  OBVIOUS
<1>3. ASSUME NEW x \in Seq(S), NEW y \in Seq(S), Len(x) = 1, Len(y) = 1, x[1] = a, y[1] = b
      PROVE  x \o y = <<a, b>>
  <2>1. /\ x \o y \in Seq(S) /\ Len(x \o y) = 2 /\ (x \o y)[1] = a /\ (x \o y)[2] = b
    <3>1. 1 \in 1..Len(x) /\ 1 \in 1..Len(y) /\ Len(x) + 1 = 2
      BY <1>3
    <3>2. /\ x \o y \in Seq(S) /\ Len(x \o y) = Len(x) + Len(y)
          /\ \A i \in 1..Len(x) : (x \o y)[i] = x[i]
          /\ \A i \in 1..Len(y) : (x \o y)[Len(x) + i] = y[i]
      BY ONLY x \in Seq(S), y \in Seq(S), FramesJoin
    <3>3. (x \o y)[1] = x[1] /\ (x \o y)[Len(x) + 1] = y[1]
      BY ONLY <3>1, <3>2
    <3>. QED BY ONLY <1>3, <3>1, <3>2, <3>3
  <2>2. <<a, b>> \in Seq(S) /\ Len(<<a, b>>) = 2 /\ <<a, b>>[1] = a /\ <<a, b>>[2] = b
    OBVIOUS
  <2>3. ASSUME NEW p \in Seq(S), NEW q \in Seq(S), Len(p) = 2, Len(q) = 2, p[1] = q[1], p[2] = q[2]
        PROVE  p = q
    <3>1. \A i \in 1..2 : i = 1 \/ i = 2
      OBVIOUS
    <3>2. \A i \in 1..Len(p) : p[i] = q[i]
      BY <2>3, <3>1
    <3>. QED BY ONLY <2>3, <3>2
  <2>. QED BY <2>1, <2>2, <2>3
<1>. QED BY <1>1, <1>2, <1>3

LEMMA PushShape ==
  ASSUME NEW s \in Seq(Labels), NEW a \in Labels
  PROVE  /\ <<a>> \o s \in Seq(Labels)
         /\ \A l : (\E i \in DOMAIN (<<a>> \o s) : (<<a>> \o s)[i] = l)
                     => l = a \/ \E i \in DOMAIN s : s[i] = l
         /\ Closes(s) /\ a # "unsend" => Closes(<<a>> \o s)
<1> DEFINE r == <<a>> \o s
<1>1. /\ r \in Seq(Labels) /\ DOMAIN r = 1..(Len(s) + 1) /\ r[1] = a /\ Len(s) \in Nat
      /\ DOMAIN s = 1..Len(s) /\ \A i \in 1..Len(s) : r[i + 1] = s[i]
  OBVIOUS
<1>. HIDE DEF r
<1>2. \A i \in DOMAIN r : i = 1 \/ (i - 1 \in DOMAIN s /\ r[i] = s[i - 1])
  <2>1. ASSUME NEW i \in DOMAIN r, i # 1 PROVE i - 1 \in 1..Len(s) /\ (i - 1) + 1 = i
    BY <1>1, <2>1
  <2>. QED BY <1>1, <2>1
<1>3. Closes(s) /\ a # "unsend" => Closes(r)
  <2>1. ASSUME Closes(s), a # "unsend", NEW i \in DOMAIN r, r[i] = "unsend"
        PROVE  i > 1 /\ r[i - 1] = "close"
    <3>1. i - 1 \in DOMAIN s /\ s[i - 1] = "unsend"
      BY <1>1, <1>2, <2>1
    <3>2. i - 1 > 1 /\ s[(i - 1) - 1] = "close"
      BY <2>1, <3>1 DEF Closes
    <3>3. (i - 1) - 1 \in 1..Len(s) /\ ((i - 1) - 1) + 1 = i - 1
      BY <1>1, <3>1, <3>2
    <3>. QED BY <1>1, <3>2, <3>3
  <2>. QED BY <2>1 DEF Closes
<1>. QED BY <1>1, <1>2, <1>3 DEF r

LEMMA CallShape ==
  ASSUME NEW s \in Seq(Labels), NEW a \in Labels, NEW b \in Labels, Closes(s), a # "unsend",
         b = "unsend" => a = "close"
  PROVE  Closes(<<a>> \o (<<b>> \o s))
<1> DEFINE q == <<b>> \o s
           r == <<a>> \o q
<1>1. /\ q \in Seq(Labels) /\ DOMAIN q = 1..(Len(s) + 1) /\ q[1] = b /\ Len(s) \in Nat
      /\ Len(q) = Len(s) + 1 /\ DOMAIN s = 1..Len(s) /\ \A i \in 1..Len(s) : q[i + 1] = s[i]
  OBVIOUS
<1>. HIDE DEF q
<1>2. /\ DOMAIN r = 1..(Len(s) + 2) /\ r[1] = a /\ \A i \in 1..(Len(s) + 1) : r[i + 1] = q[i]
  BY <1>1
<1>. HIDE DEF r
<1>3. ASSUME NEW i \in DOMAIN r, r[i] = "unsend" PROVE i > 1 /\ r[i - 1] = "close"
  <2>1. i # 1
    BY <1>2, <1>3
  <2>2. CASE i = 2
    <3>1. r[1 + 1] = q[1]
      BY <1>1, <1>2
    <3>. QED BY <1>1, <1>2, <1>3, <2>2, <3>1
  <2>3. CASE i > 2
    <3>1. i - 2 \in 1..Len(s) /\ i - 1 \in 1..(Len(s) + 1) /\ (i - 1) + 1 = i /\ (i - 2) + 1 = i - 1
      BY <1>1, <1>2, <2>3
    <3>2. s[i - 2] = "unsend"
      BY <1>1, <1>2, <1>3, <3>1
    <3>3. i - 2 > 1 /\ s[(i - 2) - 1] = "close"
      BY <1>1, <3>1, <3>2 DEF Closes
    <3>4. (i - 2) - 1 \in 1..Len(s) /\ i - 2 \in 1..(Len(s) + 1) /\ ((i - 2) - 1) + 1 = i - 2
      BY <1>1, <3>1, <3>3
    <3>5. r[((i - 2) - 1) + 1 + 1] = q[((i - 2) - 1) + 1] /\ q[((i - 2) - 1) + 1] = s[(i - 2) - 1]
      BY <1>1, <1>2, <3>3, <3>4
    <3>6. ((i - 2) - 1) + 1 + 1 = i - 1
      BY <1>1, <3>1
    <3>. QED BY <2>3, <3>1, <3>3, <3>5, <3>6
  <2>. QED BY <1>1, <1>2, <2>1, <2>2, <2>3
<1>. QED BY <1>3 DEF Closes, r, q

LEMMA Returns ==
  ASSUME TypeOK, NEW t \in Threads, NEW a, At(t, a), Return(t)
  PROVE  Moved(t, a, None, None)
<1>1. stack' = Popped(stack, t) /\ stack \in Stacks(Threads, Labels) /\ stack[t] # <<>> /\ Head(stack[t]) = a
  BY StackType DEF Return, Popped, At
<1>2. /\ stack' \in Stacks(Threads, Labels)
      /\ \A L : CountOf(stack', L) = CountOf(stack, L) - Hits(a, L)
  BY <1>1, PopCount, ThreadsFinite
<1>3. Tally(a, None, None)
  <2>1. \A L \in Counters : Frames(L)' = Frames(L) - Hits(a, L) + Hits(None, L) + Hits(None, L)
    BY <1>2, NoneCounted, StackType, HitsType DEF Frames
  <2>. QED BY <2>1, Tallied
<1>4. /\ stack'[t] = Tail(stack[t]) /\ \A u \in Threads \ {t} : stack'[u] = stack[u]
      /\ stack[t] \in Seq(Labels)
  BY <1>1 DEF Popped, Stacks
<1>5. \A u \in Threads : \A l : Within(u, l)' => Within(u, l)
  <2>1. \A l : (\E i \in DOMAIN Tail(stack[t]) : Tail(stack[t])[i] = l)
                => \E i \in DOMAIN stack[t] : stack[t][i] = l
    BY <1>1, <1>4, ReturnShape
  <2>. QED BY <1>4, <2>1 DEF Within
<1>6. (\A u \in Threads : Closes(stack[u])) /\ a # "close" => \A u \in Threads : Closes(stack'[u])
  BY <1>1, <1>4, ReturnShape
<1>. QED BY <1>2, <1>3, <1>5, <1>6 DEF Moved, Stacks

LEMMA GoesOn ==
  ASSUME TypeOK, NEW t \in Threads, NEW a, At(t, a), NEW b \in Labels, Goto(t, b)
  PROVE  Moved(t, a, b, None)
<1>1. /\ stack' = Pushed(Popped(stack, t), t, b) /\ stack \in Stacks(Threads, Labels)
      /\ stack[t] # <<>> /\ Head(stack[t]) = a
  BY StackType DEF Goto, Pushed, Popped, Stacks, At
<1>2. /\ stack' \in Stacks(Threads, Labels)
      /\ \A L : CountOf(stack', L) = CountOf(stack, L) - Hits(a, L) + Hits(b, L)
  BY <1>1, ReplaceCount, ThreadsFinite
<1>3. Tally(a, b, None)
  <2>1. \A L \in Counters : Frames(L)' = Frames(L) - Hits(a, L) + Hits(b, L) + Hits(None, L)
    BY <1>2, NoneCounted, StackType, HitsType DEF Frames
  <2>. QED BY <2>1, Tallied
<1>4. /\ stack'[t] = <<b>> \o Tail(stack[t]) /\ \A u \in Threads \ {t} : stack'[u] = stack[u]
      /\ stack[t] \in Seq(Labels) /\ Tail(stack[t]) \in Seq(Labels)
  BY <1>1 DEF Popped, Pushed, Stacks
<1>5. \A u \in Threads : \A l : Within(u, l)' => Within(u, l) \/ (u = t /\ l = b)
  <2>1. \A l : Within(t, l)' => l = b \/ \E i \in DOMAIN Tail(stack[t]) : Tail(stack[t])[i] = l
    BY <1>4, PushShape DEF Within
  <2>2. \A l : (\E i \in DOMAIN Tail(stack[t]) : Tail(stack[t])[i] = l) => Within(t, l)
    <3>1. \A l : (\E i \in DOMAIN Tail(stack[t]) : Tail(stack[t])[i] = l)
                  => \E i \in DOMAIN stack[t] : stack[t][i] = l
      BY <1>1, <1>4, ReturnShape
    <3>. QED BY <3>1 DEF Within
  <2>3. \A u \in Threads \ {t} : \A l : Within(u, l)' <=> Within(u, l)
    BY <1>4 DEF Within
  <2>. QED BY <2>1, <2>2, <2>3
<1>6. (\A u \in Threads : Closes(stack[u])) /\ a # "close" /\ b # "unsend"
        => \A u \in Threads : Closes(stack'[u])
  BY <1>1, <1>4, ReturnShape, PushShape
<1>. QED BY <1>2, <1>3, <1>5, <1>6 DEF Moved, Stacks

LEMMA Calls ==
  ASSUME TypeOK, NEW t \in Threads, NEW a, At(t, a), NEW b \in Labels, NEW c \in Labels, Call(t, b, c)
  PROVE  Moved(t, a, b, c)
<1>0. /\ stack \in Stacks(Threads, Labels) /\ stack[t] # <<>> /\ Head(stack[t]) = a
      /\ stack[t] \in Seq(Labels) /\ Tail(stack[t]) \in Seq(Labels)
  BY StackType DEF Stacks, At
<1>1. stack' = Pushed(Pushed(Popped(stack, t), t, c), t, b)
  BY <1>0 DEF Call, Pushed, Popped, Stacks
<1>2. /\ stack' \in Stacks(Threads, Labels)
      /\ \A L : CountOf(stack', L) = CountOf(stack, L) - Hits(a, L) + Hits(c, L) + Hits(b, L)
  BY <1>0, <1>1, CallCount, ThreadsFinite
<1>3. Tally(a, b, c)
  <2>1. \A L \in Counters : Frames(L)' = Frames(L) - Hits(a, L) + Hits(b, L) + Hits(c, L)
    BY <1>2, StackType, HitsType DEF Frames
  <2>. QED BY <2>1, Tallied
<1>4. /\ stack'[t] = <<b>> \o (<<c>> \o Tail(stack[t])) /\ \A u \in Threads \ {t} : stack'[u] = stack[u]
  BY <1>0, <1>1 DEF Popped, Pushed, Stacks
<1>5. \A u \in Threads : \A l : Within(u, l)' => Within(u, l) \/ (u = t /\ l \in {b, c})
  <2>1. <<c>> \o Tail(stack[t]) \in Seq(Labels)
    BY <1>0
  <2>2. ASSUME NEW l, \E i \in DOMAIN stack'[t] : stack'[t][i] = l
        PROVE  l \in {b, c} \/ \E i \in DOMAIN stack[t] : stack[t][i] = l
    <3>1. l = b \/ \E i \in DOMAIN (<<c>> \o Tail(stack[t])) : (<<c>> \o Tail(stack[t]))[i] = l
      BY <1>4, <2>1, <2>2, PushShape
    <3>2. l \in {b, c} \/ \E i \in DOMAIN Tail(stack[t]) : Tail(stack[t])[i] = l
      BY <1>0, <3>1, PushShape
    <3>. QED BY <1>0, <3>2, ReturnShape
  <2>. QED BY <1>4, <2>2 DEF Within
<1>6. (\A u \in Threads : Closes(stack[u])) /\ a # "close" /\ b # "unsend" /\ (c = "unsend" => b = "close")
        => \A u \in Threads : Closes(stack'[u])
  BY <1>0, <1>4, ReturnShape, CallShape
<1>. QED BY <1>2, <1>3, <1>5, <1>6 DEF Moved, Stacks

(* A thread that was in nothing begins a call, or handles a completion.      *)
LEMMA Begins ==
  ASSUME TypeOK, NEW t \in Threads, stack[t] = <<>>, NEW b \in Labels, stack' = [stack EXCEPT ![t] = <<b>>]
  PROVE  Moved(t, None, b, None)
<1>0. <<b>> \o <<>> = <<b>>
  BY TwoFrames
<1>1. stack' = Pushed(stack, t, b) /\ stack \in Stacks(Threads, Labels)
  BY <1>0, StackType DEF Pushed, Stacks
<1>2. /\ stack' \in Stacks(Threads, Labels)
      /\ \A L : CountOf(stack', L) = CountOf(stack, L) + Hits(b, L)
  BY ONLY <1>1, b \in Labels, t \in Threads, PushCount, ThreadsFinite
<1>3. Tally(None, b, None)
  <2>1. \A L \in Counters : Frames(L)' = Frames(L) - Hits(None, L) + Hits(b, L) + Hits(None, L)
    BY ONLY TypeOK, <1>2, NoneCounted, StackType, HitsType DEF Frames
  <2>. QED BY <2>1, Tallied
<1>4. /\ stack'[t] = <<b>> \o stack[t] /\ \A u \in Threads \ {t} : stack'[u] = stack[u]
      /\ stack[t] \in Seq(Labels)
  BY <1>1 DEF Pushed, Stacks
<1>5. \A u \in Threads : \A l : Within(u, l)' => Within(u, l) \/ (u = t /\ l = b)
  BY <1>4, PushShape DEF Within
<1>6. (\A u \in Threads : Closes(stack[u])) /\ b # "unsend" => \A u \in Threads : Closes(stack'[u])
  BY <1>4, PushShape
<1>. QED BY <1>2, <1>3, <1>5, <1>6 DEF Moved, Stacks

LEMMA Handles ==
  ASSUME TypeOK, NEW t \in Threads, stack[t] = <<>>, NEW b \in Labels, NEW c \in Labels,
         stack' = [stack EXCEPT ![t] = <<b, c>>]
  PROVE  Moved(t, None, b, c)
<1>0. <<b>> \o (<<c>> \o <<>>) = <<b, c>>
  <2>1. <<>> \in Seq(Labels)
    OBVIOUS
  <2>. QED BY <2>1, TwoFrames
<1>1. /\ stack' = Pushed(Pushed(stack, t, c), t, b) /\ stack \in Stacks(Threads, Labels)
      /\ Pushed(stack, t, c) \in Stacks(Threads, Labels)
  BY <1>0, StackType DEF Pushed, Stacks
<1>2. /\ stack' \in Stacks(Threads, Labels)
      /\ \A L : CountOf(stack', L) = CountOf(stack, L) + Hits(c, L) + Hits(b, L)
  <2>1. \A L : CountOf(Pushed(stack, t, c), L) = CountOf(stack, L) + Hits(c, L)
    BY ONLY <1>1, c \in Labels, t \in Threads, StackType, TypeOK, PushCount, ThreadsFinite
  <2>2. /\ stack' \in Stacks(Threads, Labels)
        /\ \A L : CountOf(stack', L) = CountOf(Pushed(stack, t, c), L) + Hits(b, L)
    BY ONLY <1>1, b \in Labels, t \in Threads, PushCount, ThreadsFinite
  <2>. QED BY <2>1, <2>2
<1>3. Tally(None, b, c)
  <2>1. \A L \in Counters : Frames(L)' = Frames(L) - Hits(None, L) + Hits(b, L) + Hits(c, L)
    BY ONLY TypeOK, <1>2, NoneCounted, StackType, HitsType DEF Frames
  <2>. QED BY <2>1, Tallied
<1>4. /\ stack'[t] = <<b>> \o (<<c>> \o stack[t]) /\ \A u \in Threads \ {t} : stack'[u] = stack[u]
      /\ stack[t] \in Seq(Labels) /\ <<c>> \o stack[t] \in Seq(Labels)
  BY <1>1 DEF Pushed, Stacks
<1>5. \A u \in Threads : \A l : Within(u, l)' => Within(u, l) \/ (u = t /\ l \in {b, c})
  <2>1. ASSUME NEW l, \E i \in DOMAIN stack'[t] : stack'[t][i] = l
        PROVE  l \in {b, c} \/ \E i \in DOMAIN stack[t] : stack[t][i] = l
    <3>1. l = b \/ \E i \in DOMAIN (<<c>> \o stack[t]) : (<<c>> \o stack[t])[i] = l
      BY <1>4, <2>1, PushShape
    <3>. QED BY <1>4, <3>1, PushShape
  <2>. QED BY <1>4, <2>1 DEF Within
<1>6. (\A u \in Threads : Closes(stack[u])) /\ b # "unsend" /\ (c = "unsend" => b = "close")
        => \A u \in Threads : Closes(stack'[u])
  BY <1>4, CallShape
<1>. QED BY <1>2, <1>3, <1>5, <1>6 DEF Moved, Stacks

-----------------------------------------------------------------------------
(* Sequences of numbered bytes, and of messages that fit.                    *)
LEMMA NumberedJoin ==
  ASSUME NEW x \in Seq(Nat), NEW y \in Seq(Nat), NEW first \in Int,
         Numbered(x, first), Numbered(y, first + Len(x))
  PROVE  /\ x \o y \in Seq(Nat) /\ Len(x \o y) = Len(x) + Len(y)
         /\ Numbered(x \o y, first)
<1>1. /\ x \o y \in Seq(Nat) /\ Len(x \o y) = Len(x) + Len(y)
      /\ \A i \in 1..Len(x) : (x \o y)[i] = x[i]
      /\ \A i \in 1..Len(y) : (x \o y)[Len(x) + i] = y[i]
      /\ Len(x) \in Nat /\ Len(y) \in Nat
  BY FramesJoin
<1>2. ASSUME NEW i \in 1..(Len(x) + Len(y)) PROVE (x \o y)[i] = first + i
  <2>1. CASE i \in 1..Len(x)
    BY <1>1, <2>1 DEF Numbered
  <2>2. CASE i \notin 1..Len(x)
    <3>1. i - Len(x) \in 1..Len(y) /\ Len(x) + (i - Len(x)) = i
      BY <1>1, <2>2
    <3>2. y[i - Len(x)] = (first + Len(x)) + (i - Len(x))
      BY <1>1, <3>1 DEF Numbered
    <3>3. (x \o y)[i] = y[i - Len(x)]
      BY ONLY <1>1, <3>1
    <3>. QED BY <1>1, <3>2, <3>3
  <2>. QED BY <2>1, <2>2
<1>3. DOMAIN (x \o y) = 1..(Len(x) + Len(y))
  BY <1>1
<1>. QED BY <1>1, <1>2, <1>3 DEF Numbered

LEMMA NumberedPart ==
  ASSUME NEW x \in Seq(Nat), NEW first \in Int, Numbered(x, first),
         NEW m \in Nat, NEW n \in Nat, m <= n, n <= Len(x)
  PROVE  /\ SubSeq(x, m + 1, n) \in Seq(Nat) /\ Len(SubSeq(x, m + 1, n)) = n - m
         /\ Numbered(SubSeq(x, m + 1, n), first + m)
<1> DEFINE p == SubSeq(x, m + 1, n)
<1>1. /\ p \in Seq(Nat) /\ Len(p) = n - m /\ DOMAIN p = 1..(n - m)
      /\ \A i \in 1..(n - m) : p[i] = x[(m + 1) + i - 1] /\ (m + 1) + i - 1 \in DOMAIN x
  OBVIOUS
<1>. HIDE DEF p
<1>2. ASSUME NEW i \in 1..(n - m) PROVE p[i] = (first + m) + i
  <2>1. x[(m + 1) + i - 1] = first + ((m + 1) + i - 1)
    BY <1>1 DEF Numbered
  <2>. QED BY <1>1, <2>1
<1>3. Numbered(p, first + m)
  BY <1>1, <1>2 DEF Numbered
<1>. QED BY <1>1, <1>3 DEF p

(* What a message is when it waits.                                          *)
LEMMA MarkedMessage ==
  ASSUME NEW size \in 1..RingSize, NEW first \in Nat
  PROVE  LET message == [i \in 1..size |-> first + i] IN
         /\ message \in Seq(Nat) /\ Len(message) = size /\ Numbered(message, first)
         /\ Marked(message) \in Seq(Item) /\ Len(Marked(message)) = size
         /\ \A i \in 1..size : /\ Marked(message)[i].byte = first + i
                               /\ Marked(message)[i].last <=> i = size
<1> DEFINE message == [i \in 1..size |-> first + i]
           items == [i \in 1..size |-> [byte |-> first + i, last |-> i = size]]
<1>1. size \in Nat /\ size > 0
  BY RioSessionConstants
<1>2. message \in Seq(Nat) /\ Len(message) = size
  BY <1>1
<1>3. Numbered(message, first)
  BY <1>1 DEF Numbered
<1>4. Marked(message) = items
  <2>1. \A i \in 1..size : message[i] = first + i
    OBVIOUS
  <2>. HIDE DEF message
  <2>2. Marked(message) = [i \in 1..size |-> [byte |-> message[i], last |-> i = size]]
    BY <1>2 DEF Marked
  <2>. QED BY <2>1, <2>2
<1>5. \A i \in 1..size : [byte |-> first + i, last |-> i = size] \in Item
  BY <1>1 DEF Item
<1>6. items \in Seq(Item) /\ Len(items) = size
  BY <1>1, <1>5
<1>7. \A i \in 1..size : items[i].byte = first + i /\ (items[i].last <=> i = size)
  OBVIOUS
<1>. HIDE DEF message, items
<1>. QED BY <1>2, <1>3, <1>4, <1>6, <1>7 DEF message

LEMMA FittingMore ==
  ASSUME NEW q \in Seq(Item), NEW more \in Seq(Item), Fitting(q),
         Len(more) \in 1..RingSize,
         \A i \in 1..Len(more) : more[i].last <=> i = Len(more),
         q # <<>> => q[Len(q)].last
  PROVE  Fitting(q \o more) /\ (q \o more)[Len(q \o more)].last
<1> DEFINE r == q \o more
           n == Len(q)
           k == Len(more)
<1>1. /\ r \in Seq(Item) /\ Len(r) = n + k /\ n \in Nat /\ k \in Nat /\ k > 0
      /\ \A i \in 1..n : r[i] = q[i]
      /\ \A i \in 1..k : r[n + i] = more[i]
  BY FramesJoin, RioSessionConstants
<1>2. r[n + k].last
  <2>1. k \in 1..k /\ r[n + k] = more[k]
    BY ONLY <1>1
  <2>. QED BY <1>1, <2>1
<1>3. ASSUME NEW i \in 0..(n + k) - 1, Starts(r, i)
      PROVE  \E j \in i + 1..(n + k) : j - i <= RingSize /\ r[j].last
  <2>1. CASE i < n
    <3>1. i \in 0..n - 1 /\ Starts(q, i)
      BY <1>1, <1>3, <2>1 DEF Starts
    <3>2. PICK j \in i + 1..n : j - i <= RingSize /\ q[j].last
      BY <3>1 DEF Fitting
    <3>. QED BY <1>1, <3>2
  <2>2. CASE i = n
    <3>1. n + k \in n + 1..(n + k) /\ (n + k) - n <= RingSize
      BY <1>1, RioSessionConstants
    <3>. QED BY <1>2, <2>2, <3>1
  <2>3. CASE i > n
    <3>1. i - n \in 1..k - 1 /\ n + (i - n) = i
      BY <1>1, <1>3, <2>3
    <3>2. r[i] = more[i - n]
      <4>1. i - n \in 1..k
        BY <1>1, <3>1
      <4>. QED BY ONLY <1>1, <3>1, <4>1
    <3>3. ~ more[i - n].last
      BY <1>1, <3>1
    <3>. QED BY <1>1, <1>3, <2>3, <3>2, <3>3 DEF Starts
  <2>. QED BY <1>1, <1>3, <2>1, <2>2, <2>3
<1>. HIDE DEF r
<1>4. Fitting(r)
  BY <1>1, <1>3 DEF Fitting
<1>. QED BY <1>1, <1>2, <1>4 DEF r

LEMMA FittingLess ==
  ASSUME NEW q \in Seq(Item), Fitting(q), NEW n \in 0..Len(q), Starts(q, n),
         q # <<>> => q[Len(q)].last
  PROVE  LET r == SubSeq(q, n + 1, Len(q)) IN
         /\ r \in Seq(Item) /\ Len(r) = Len(q) - n /\ Fitting(r)
         /\ \A i \in 1..Len(q) - n : r[i] = q[n + i]
         /\ r # <<>> => r[Len(r)].last
<1> DEFINE r == SubSeq(q, n + 1, Len(q))
<1>1. /\ r \in Seq(Item) /\ Len(r) = Len(q) - n /\ Len(q) \in Nat /\ n \in Nat
      /\ \A i \in 1..Len(q) - n : r[i] = q[(n + 1) + i - 1]
  OBVIOUS
<1>. HIDE DEF r
<1>2. \A i \in 1..Len(q) - n : r[i] = q[n + i] /\ n + i \in DOMAIN q
  <2>1. \A i \in 1..Len(q) - n : (n + 1) + i - 1 = n + i /\ n + i \in 1..Len(q)
    BY <1>1
  <2>. QED BY <1>1, <2>1
<1>3. ASSUME NEW i \in 0..Len(r) - 1, Starts(r, i)
      PROVE  \E j \in i + 1..Len(r) : j - i <= RingSize /\ r[j].last
  <2>1. n + i \in 0..Len(q) - 1
    BY <1>1
  <2>2. Starts(q, n + i)
    <3>1. CASE i = 0
      BY <1>1, <3>1
    <3>2. CASE i > 0
      <4>1. i \in 1..Len(q) - n
        BY <1>1, <3>2
      <4>. QED BY <1>2, <1>3, <3>2, <4>1 DEF Starts
    <3>. QED BY <1>1, <3>1, <3>2
  <2>3. PICK j \in (n + i) + 1..Len(q) : j - (n + i) <= RingSize /\ q[j].last
    BY <2>1, <2>2 DEF Fitting
  <2>4. j - n \in i + 1..Len(r) /\ (j - n) - i <= RingSize /\ j - n \in 1..Len(q) - n /\ n + (j - n) = j
    BY <1>1, <2>3, RioSessionConstants
  <2>5. r[j - n].last
    BY <1>2, <2>3, <2>4
  <2>. QED BY <2>4, <2>5
<1>4. r # <<>> => r[Len(r)].last
  <2>1. ASSUME r # <<>> PROVE r[Len(r)].last
    <3>1. Len(r) \in 1..Len(q) - n /\ n + Len(r) = Len(q) /\ q # <<>>
      BY <1>1, <2>1
    <3>2. r[Len(r)] = q[Len(q)]
      BY <1>2, <3>1
    <3>. QED BY <3>1, <3>2
  <2>. QED BY <2>1
<1>5. Fitting(r)
  BY <1>3 DEF Fitting
<1>. QED BY <1>1, <1>2, <1>4, <1>5 DEF r

(* The bytes stay where they are while nothing is sent, completed or         *)
(* dropped; a message that is added comes behind them.                       *)
LEMMA BytesKept ==
  ASSUME TypeOK, BytesOK, Base' = Base, Len(ring) <= Len(ring)', UNCHANGED <<wire, sends>>, ring' \in Seq(Nat),
         state' = "Active" => state = "Active", Sents' = 0 => Sents = 0,
         \A u \in Threads : \A l \in {"sent", "submitSend"} :
           Within(u, l)' => Within(u, l) /\ segment'[u] = segment[u]
  PROVE  BytesOK'
<1>1. /\ Len(ring) \in Nat /\ Len(ring)' \in Nat /\ \A u \in Threads : Len(segment[u]) \in Nat
      /\ \A i \in DOMAIN sends : Len(sends[i]) \in Nat
  BY DEF TypeOK
<1>2. Numbered(wire, 0)' /\ (state' = "Active" /\ Sents' = 0 => Base' = Len(wire)')
  BY DEF BytesOK, Numbered
<1>3. ASSUME NEW u \in Threads, state' = "Active", Within(u, "sent")'
      PROVE  Len(segment'[u]) <= Len(ring)' /\ Base' = Len(wire)' - Len(segment'[u])
  <2>1. state = "Active" /\ Within(u, "sent") /\ segment'[u] = segment[u]
    BY <1>3
  <2>2. Len(segment[u]) <= Len(ring) /\ Base = Len(wire) - Len(segment[u])
    BY <2>1 DEF BytesOK
  <2>3. \A x, y, z \in Nat : x <= y /\ y <= z => x <= z
    OBVIOUS
  <2>4. Len(segment[u]) <= Len(ring)'
    BY <1>1, <2>2, <2>3
  <2>. QED BY <2>1, <2>2, <2>4
<1>4. ASSUME NEW u \in Threads, Within(u, "submitSend")'
      PROVE  Numbered(segment'[u], Len(wire)') /\ Len(segment'[u]) <= Len(ring)'
  BY <1>1, <1>4 DEF BytesOK
<1>5. ASSUME NEW i \in DOMAIN sends
      PROVE  Numbered(sends'[i], Len(wire)') /\ (state' = "Active" => Len(sends'[i]) <= Len(ring)')
  BY <1>1 DEF BytesOK
<1>. QED BY <1>2, <1>3, <1>4, <1>5 DEF BytesOK, Numbered

(* A step that leaves the bytes alone.                                       *)
LEMMA PlainStep ==
  ASSUME IInv, NEW t \in Threads, NEW a, NEW b, NEW c, Moved(t, a, b, c), Counting',
         UNCHANGED <<ring, overflow, accepted, wire, sends, segment>>, isSending' \in BOOLEAN,
         state' \in {"Created", "Active", "Closing", "Closed"},
         ioLock' \in Threads \union {NoThread}, receives' \in Nat,
         Sents' = Sents, {b, c} \intersect {"sent", "submitSend"} = {},
         state' = "Active" =>
           state = "Active" /\ a # "close" /\ b # "unsend" /\ (c = "unsend" => b = "close")
  PROVE  IInv'
<1>0. TypeOK /\ UnsendOK /\ FitOK /\ QueuesOK /\ BytesOK
  BY DEF IInv
<1>1. TypeOK'
  BY <1>0 DEF TypeOK, Moved
<1>2. UnsendOK'
  BY <1>0 DEF UnsendOK, Moved
<1>3. FitOK' /\ QueuesOK' /\ Base' = Base
  BY <1>0 DEF FitOK, QueuesOK, Base, Numbered, Fitting, Starts
<1>4. \A u \in Threads : \A l \in {"sent", "submitSend"} :
        Within(u, l)' => Within(u, l) /\ segment'[u] = segment[u]
  BY DEF Moved
<1>5. Len(ring) <= Len(ring)' /\ ring' \in Seq(Nat)
  BY <1>0 DEF TypeOK
<1>6. BytesOK'
  BY <1>0, <1>3, <1>4, <1>5, BytesKept
<1>. QED BY <1>1, <1>2, <1>3, <1>6 DEF IInv

(* Send() puts a message behind the bytes that are there.                    *)
LEMMA SendQueues ==
  ASSUME TypeOK, FitOK, QueuesOK, overflow # <<>> => ring # <<>>,
         NEW size \in 1..RingSize, accepted' = accepted + size, Queue([i \in 1..size |-> accepted + i])
  PROVE  /\ ring' \in Seq(Nat) /\ overflow' \in Seq(Item) /\ accepted' \in Nat
         /\ FitOK' /\ QueuesOK' /\ Base' = Base
         /\ Len(ring) <= Len(ring)' /\ ring' # <<>>
<1> DEFINE m == [i \in 1..size |-> accepted + i]
<1>0. /\ accepted \in Nat /\ ring \in Seq(Nat) /\ overflow \in Seq(Item) /\ size \in Nat /\ size > 0
      /\ Len(ring) \in Nat /\ Len(overflow) \in Nat /\ RingSize \in Nat /\ size <= RingSize
  BY RioSessionConstants DEF TypeOK
<1>1. /\ m \in Seq(Nat) /\ Len(m) = size /\ Numbered(m, accepted)
      /\ Marked(m) \in Seq(Item) /\ Len(Marked(m)) = size
      /\ \A i \in 1..size : /\ Marked(m)[i].byte = accepted + i
                            /\ Marked(m)[i].last <=> i = size
  BY <1>0, MarkedMessage
<1>2. Queue(m) /\ accepted' = accepted + size
  OBVIOUS
<1>3. /\ Base = accepted - Len(overflow) - Len(ring) /\ Base >= 0 /\ Numbered(ring, Base)
      /\ \A i \in DOMAIN overflow : overflow[i].byte = Base + Len(ring) + i
      /\ Fitting(overflow) /\ (overflow # <<>> => overflow[Len(overflow)].last)
  BY DEF QueuesOK, FitOK, Base
<1>4. Base \in Int /\ Base' = (accepted + size) - Len(overflow') - Len(ring')
  BY <1>0, <1>2, <1>3 DEF Base
<1>. HIDE DEF m
<1>5. CASE overflow = <<>> /\ Fits(m)
  <2>1. ring' = ring \o m /\ overflow' = overflow
    BY <1>2, <1>5 DEF Queue
  <2>2. Len(overflow) = 0 /\ accepted = Base + Len(ring)
    BY <1>0, <1>3, <1>5
  <2>3. Numbered(m, Base + Len(ring))
    BY <1>1, <2>2
  <2>4. ring' \in Seq(Nat) /\ Len(ring') = Len(ring) + size /\ Numbered(ring', Base)
    BY <1>0, <1>1, <1>3, <1>4, <2>1, <2>3, NumberedJoin
  <2>5. Base' = Base
    BY ONLY <1>0, <1>4, <2>1, <2>2, <2>4
  <2>6. QueuesOK'
    <3>1. Base' >= 0 /\ Numbered(ring', Base')
      BY ONLY <1>3, <2>4, <2>5
    <3>2. DOMAIN overflow' = {}
      BY <1>5, <2>1
    <3>. QED BY <3>1, <3>2 DEF QueuesOK, Numbered
  <2>7. FitOK'
    BY <1>3, <2>1 DEF FitOK, Fitting, Starts
  <2>8. Len(ring) <= Len(ring') /\ ring' # <<>>
    BY <1>0, <2>4
  <2>. QED BY <1>0, <2>1, <2>4, <2>5, <2>6, <2>7, <2>8
<1>6. CASE ~(overflow = <<>> /\ Fits(m))
  <2>1. ring' = ring /\ overflow' = overflow \o Marked(m)
    BY <1>2, <1>6 DEF Queue
  <2>2. /\ overflow' \in Seq(Item) /\ Len(overflow') = Len(overflow) + size
        /\ \A i \in 1..Len(overflow) : overflow'[i] = overflow[i]
        /\ \A i \in 1..size : overflow'[Len(overflow) + i] = Marked(m)[i]
    <3>1. ASSUME NEW x \in Seq(Item), NEW y \in Seq(Item), NEW z, z = x \o y
          PROVE  /\ z \in Seq(Item) /\ Len(z) = Len(x) + Len(y)
                 /\ \A i \in 1..Len(x) : z[i] = x[i]
                 /\ \A i \in 1..Len(y) : z[Len(x) + i] = y[i]
      BY <3>1, FramesJoin
    <3>2. overflow \in Seq(Item) /\ Marked(m) \in Seq(Item)
      BY <1>0, <1>1
    <3>3. /\ overflow' \in Seq(Item) /\ Len(overflow') = Len(overflow) + Len(Marked(m))
          /\ \A i \in 1..Len(overflow) : overflow'[i] = overflow[i]
          /\ \A i \in 1..Len(Marked(m)) : overflow'[Len(overflow) + i] = Marked(m)[i]
      BY ONLY <3>1, <3>2, <2>1
    <3>. QED BY ONLY <3>3, <1>1
  <2>3. Base' = Base
    BY ONLY <1>0, <1>3, <1>4, <2>1, <2>2
  <2>4. ASSUME NEW i \in DOMAIN overflow' PROVE overflow'[i].byte = Base + Len(ring) + i
    <3>1. i \in 1..(Len(overflow) + size)
      BY <2>2, <2>4
    <3>2. CASE i <= Len(overflow)
      <4>1. i \in 1..Len(overflow) /\ i \in DOMAIN overflow
        BY <1>0, <3>1, <3>2
      <4>. QED BY <1>3, <2>2, <4>1
    <3>3. CASE i > Len(overflow)
      <4>1. i - Len(overflow) \in 1..size /\ Len(overflow) + (i - Len(overflow)) = i
        BY <1>0, <3>1, <3>3
      <4>2. overflow'[i] = Marked(m)[i - Len(overflow)]
        BY ONLY <2>2, <4>1
      <4>3. overflow'[i].byte = accepted + (i - Len(overflow))
        BY <1>1, <4>1, <4>2
      <4>. QED BY <1>0, <1>3, <3>1, <4>3
    <3>. QED BY <1>0, <3>1, <3>2, <3>3
  <2>5. QueuesOK'
    <3>1. Base' >= 0 /\ Numbered(ring', Base')
      BY <1>3, <2>1, <2>3
    <3>. QED BY <2>1, <2>3, <2>4, <3>1 DEF QueuesOK, Numbered
  <2>6. FitOK'
    <3>1. Len(Marked(m)) \in 1..RingSize /\ \A i \in 1..Len(Marked(m)) : Marked(m)[i].last <=> i = Len(Marked(m))
      BY <1>0, <1>1
    <3>2. Fitting(overflow') /\ overflow'[Len(overflow')].last
      BY <1>0, <1>1, <1>3, <2>1, <3>1, FittingMore
    <3>. QED BY <3>2 DEF FitOK, Fitting, Starts
  <2>7. ring # <<>>
    BY <1>0, <1>1, <1>6 DEF Fits
  <2>. QED BY <1>0, <2>1, <2>2, <2>3, <2>5, <2>6, <2>7
<1>. QED BY <1>5, <1>6

(* OnSendCompleted() takes what was sent out of the ring and fills it up.    *)
LEMMA CompletedQueues ==
  ASSUME TypeOK, FitOK, QueuesOK, NEW w \in Threads, Len(segment[w]) <= Len(ring),
         Refill(Unsent(w)), UNCHANGED accepted
  PROVE  /\ ring' \in Seq(Nat) /\ overflow' \in Seq(Item)
         /\ FitOK' /\ QueuesOK' /\ Base' = Base + Len(segment[w])
         /\ overflow' # <<>> => ring' # <<>>
<1> DEFINE left == Unsent(w)
           k == Len(segment[w])
<1>0. /\ accepted \in Nat /\ ring \in Seq(Nat) /\ overflow \in Seq(Item) /\ RingSize \in Nat /\ RingSize > 0
      /\ Len(ring) \in Nat /\ Len(overflow) \in Nat /\ k \in Nat /\ k <= Len(ring)
      /\ DOMAIN overflow = 1..Len(overflow) /\ \A i \in 1..Len(overflow) : overflow[i].byte \in Nat
  <2>1. accepted \in Nat /\ ring \in Seq(Nat) /\ overflow \in Seq(Item) /\ segment[w] \in Seq(Nat)
    BY DEF TypeOK
  <2>2. Len(ring) \in Nat /\ Len(overflow) \in Nat /\ k \in Nat /\ DOMAIN overflow = 1..Len(overflow)
    BY <2>1
  <2>3. \A i \in 1..Len(overflow) : overflow[i] \in Item
    BY <2>1, <2>2
  <2>4. \A i \in 1..Len(overflow) : overflow[i].byte \in Nat
    BY <2>3 DEF Item
  <2>. QED BY <2>1, <2>2, <2>4, RioSessionConstants
<1>1. /\ Base = accepted - Len(overflow) - Len(ring) /\ Base >= 0 /\ Numbered(ring, Base) /\ Base \in Int
      /\ \A i \in DOMAIN overflow : overflow[i].byte = Base + Len(ring) + i
      /\ Fitting(overflow) /\ (overflow # <<>> => overflow[Len(overflow)].last)
  BY <1>0 DEF QueuesOK, FitOK, Base
<1>2. left \in Seq(Nat) /\ Len(left) = Len(ring) - k /\ Numbered(left, Base + k)
  <2>1. k + 1 = k + 1 /\ k \in Nat /\ Len(ring) \in Nat /\ k <= Len(ring) /\ Len(ring) <= Len(ring)
    BY <1>0
  <2>2. /\ SubSeq(ring, k + 1, Len(ring)) \in Seq(Nat) /\ Len(SubSeq(ring, k + 1, Len(ring))) = Len(ring) - k
        /\ Numbered(SubSeq(ring, k + 1, Len(ring)), Base + k)
    BY ONLY <1>0, <1>1, <2>1, NumberedPart
  <2>. QED BY <2>2 DEF Unsent
<1>. HIDE DEF left, k
<1>3. PICK n \in 0..Len(overflow) :
        /\ Moves(left, n) /\ \A m \in n + 1..Len(overflow) : ~ Moves(left, m)
        /\ ring' = left \o [i \in 1..n |-> overflow[i].byte]
        /\ overflow' = SubSeq(overflow, n + 1, Len(overflow))
  BY DEF Refill, left
<1> DEFINE more == [i \in 1..n |-> overflow[i].byte]
<1>4. /\ more \in Seq(Nat) /\ Len(more) = n /\ n \in Nat /\ n <= Len(overflow)
      /\ \A i \in 1..n : more[i] = Base + Len(ring) + i
  <2>1. n \in Nat /\ n <= Len(overflow) /\ \A i \in 1..n : overflow[i].byte \in Nat /\ i \in DOMAIN overflow
    BY <1>0
  <2>. QED BY <1>1, <2>1
<1>. HIDE DEF more
<1>5. Numbered(more, (Base + k) + Len(left))
  BY <1>0, <1>1, <1>2, <1>4 DEF Numbered
<1>6. ring' \in Seq(Nat) /\ Len(ring') = Len(left) + n /\ Numbered(ring', Base + k)
  <2>1. ring' = left \o more /\ Base + k \in Int
    BY <1>0, <1>1, <1>3 DEF more
  <2>. QED BY <1>2, <1>4, <1>5, <2>1, NumberedJoin
<1>7. Starts(overflow, n)
  BY <1>3 DEF Moves, Starts
<1>8. /\ overflow' \in Seq(Item) /\ Len(overflow') = Len(overflow) - n /\ Fitting(overflow')
      /\ \A i \in 1..Len(overflow) - n : overflow'[i] = overflow[n + i]
      /\ overflow' # <<>> => overflow'[Len(overflow')].last
  BY <1>0, <1>1, <1>3, <1>7, FittingLess
<1>9. Base' = Base + k
  <2>1. Base' = accepted - Len(overflow') - Len(ring')
    BY DEF Base
  <2>2. /\ Len(ring') = (Len(ring) - k) + n /\ Len(overflow') = Len(overflow) - n
        /\ {accepted, Len(overflow), Len(ring), k, n} \subseteq Nat
    BY <1>0, <1>2, <1>4, <1>6, <1>8
  <2>3. \A a, o, r, x, y \in Nat : a - (o - y) - ((r - x) + y) = (a - o - r) + x
    OBVIOUS
  <2>4. accepted - (Len(overflow) - n) - ((Len(ring) - k) + n) = (accepted - Len(overflow) - Len(ring)) + k
    BY ONLY <2>2, <2>3
  <2>. QED BY ONLY <1>1, <2>1, <2>2, <2>4
<1>10. QueuesOK'
  <2>1. ASSUME NEW i \in DOMAIN overflow' PROVE overflow'[i].byte = Base' + Len(ring') + i
    <3>1. i \in 1..Len(overflow) - n /\ n + i \in DOMAIN overflow
      BY <1>0, <1>4, <1>8, <2>1
    <3>2. overflow'[i].byte = Base + Len(ring) + (n + i)
      BY <1>1, <1>8, <3>1
    <3>3. Base' = Base + k /\ Len(ring') = (Len(ring) - k) + n /\ i \in Nat
      BY ONLY <1>0, <1>2, <1>4, <1>6, <1>8, <1>9, <3>1
    <3>. QED BY ONLY <1>0, <1>1, <1>4, <3>2, <3>3
  <2>2. Base' >= 0 /\ Numbered(ring', Base')
    BY <1>0, <1>1, <1>6, <1>9
  <2>. QED BY <2>1, <2>2 DEF QueuesOK, Numbered
<1>11. FitOK'
  BY <1>8 DEF FitOK, Fitting, Starts
<1>12. overflow' # <<>> => ring' # <<>>
  <2> SUFFICES ASSUME overflow' # <<>>, ring' = <<>> PROVE FALSE
    OBVIOUS
  <2>1. Len(left) = 0 /\ n = 0 /\ Len(overflow) > 0
    BY <1>0, <1>2, <1>4, <1>6, <1>8
  <2>2. 0 \in 0..Len(overflow) - 1 /\ Starts(overflow, 0)
    BY <1>0, <2>1 DEF Starts
  <2>3. PICK j \in 1..Len(overflow) : j - 0 <= RingSize /\ overflow[j].last
    <3>1. \E j \in 0 + 1..Len(overflow) : j - 0 <= RingSize /\ overflow[j].last
      BY <1>1, <2>2 DEF Fitting
    <3>2. 0 + 1 = 1
      OBVIOUS
    <3>. QED BY ONLY <3>1, <3>2
  <2>4. Moves(left, j) /\ j \in n + 1..Len(overflow)
    BY <1>0, <2>1, <2>3 DEF Moves
  <2>. QED BY <1>3, <2>4
<1>. QED BY <1>6, <1>8, <1>9, <1>10, <1>11, <1>12 DEF k

(* The bytes after a step that leaves no thread with a segment of the ring.  *)
LEMMA BytesAlone ==
  ASSUME Numbered(wire, 0)', state' = "Active" => Base' = Len(wire)',
         \A u \in Threads : ~ Within(u, "sent")' /\ ~ Within(u, "submitSend")',
         \A i \in DOMAIN sends' :
           Numbered(sends'[i], Len(wire)') /\ (state' = "Active" => Len(sends'[i]) <= Len(ring)')
  PROVE  BytesOK'
  BY DEF BytesOK, Numbered

LEMMA NobodySends ==
  ASSUME stack' \in [Threads -> Seq(Labels)], Sending' = 0
  PROVE  \A u \in Threads : ~ Within(u, "sent")' /\ ~ Within(u, "submitSend")'
<1>1. "sent" \in SendLabels /\ "submitSend" \in SendLabels
  BY DEF SendLabels, FillLabels
<1>2. Frames(SendLabels)' = 0
  BY DEF Sending
<1>3. ASSUME NEW u \in Threads, NEW l \in {"sent", "submitSend"}, Within(u, l)' PROVE FALSE
  <2>1. Frames(SendLabels)' > 0
    BY <1>1, <1>3, WithinCountsNext
  <2>. QED BY <1>2, <2>1
<1>. QED BY <1>3

(* The one segment there is.                                                 *)
LEMMA SegmentAt ==
  ASSUME TypeOK, BytesOK, NEW t \in Threads, NEW label, At(t, label)
  PROVE  /\ Within(t, label)
         /\ label = "sent" /\ state = "Active" =>
              Len(segment[t]) <= Len(ring) /\ Base = Len(wire) - Len(segment[t])
         /\ label = "submitSend" => Numbered(segment[t], Len(wire)) /\ Len(segment[t]) <= Len(ring)
<1>1. stack[t] \in Seq(Labels) /\ stack[t] # <<>> /\ Head(stack[t]) = label
  BY DEF TypeOK, At
<1>2. 1 \in DOMAIN stack[t] /\ stack[t][1] = label
  BY <1>1
<1>3. Within(t, label)
  BY <1>2 DEF Within
<1>. QED BY <1>3 DEF BytesOK

-----------------------------------------------------------------------------

(* One lemma per action: the invariant holds after it.                       *)
LEMMA CloseCreatedStep ==
  ASSUME IInv, NEW t \in Threads, CloseCreated(t)
  PROVE  IInv'
<1>. USE DEF None, Only, OpenLabels, ReceiveLabels, FillLabels, SendLabels, SubmitLabels, LockLabels,
             LeaveLabels, sendVars, connVars, ioVars
<1>0. /\ TypeOK /\ Counting /\ UnsendOK /\ FitOK /\ QueuesOK /\ BytesOK /\ Sizes
      /\ state \in {"Created", "Active", "Closing", "Closed"} /\ NoThread \notin Threads
      /\ receives \in Nat /\ Len(sends) \in Nat /\ isSending \in BOOLEAN
      /\ ioLock \in Threads \union {NoThread}
  BY SizesOK, RioSessionConstants DEF IInv, TypeOK, Threads
<1>1. Moved(t, "close", "closeAgain", None)
  BY <1>0, GoesOn DEF CloseCreated, Labels
<1>2. /\ UNCHANGED <<Opening, Receiving, Filling, Sending, Submitting, Leaving, Emptying,
                     Unsending, Sents>>
      /\ Locking' = Locking + 1
      /\ Again' = Again + 1
  BY <1>0, <1>1 DEF Sizes, Moved, Tally, Hits
<1>3. Sizes'
  BY <1>1, SizesNext DEF Moved
<1>4. Counting'
  BY <1>0, <1>2, <1>3 DEF CloseCreated, Sizes, Counting, LockOK, ReceiveOK, PhaseOK, SenderOK, Free, Held, Unlock
<1>. QED BY <1>0, <1>1, <1>2, <1>4, PlainStep DEF CloseCreated, Free, Held, Unlock

LEMMA CloseActiveStep ==
  ASSUME IInv, NEW t \in Threads, CloseActive(t)
  PROVE  IInv'
<1>. USE DEF None, Only, OpenLabels, ReceiveLabels, FillLabels, SendLabels, SubmitLabels, LockLabels,
             LeaveLabels, sendVars, connVars, ioVars
<1>0. /\ TypeOK /\ Counting /\ UnsendOK /\ FitOK /\ QueuesOK /\ BytesOK /\ Sizes
      /\ state \in {"Created", "Active", "Closing", "Closed"} /\ NoThread \notin Threads
      /\ receives \in Nat /\ Len(sends) \in Nat /\ isSending \in BOOLEAN
      /\ ioLock \in Threads \union {NoThread}
  BY SizesOK, RioSessionConstants DEF IInv, TypeOK, Threads
<1>1. CASE At(t, "close") /\ Free(t)
  <2>1. Moved(t, "close", "closeCount", None)
    BY <1>0, <1>1, GoesOn DEF CloseActive, Labels
  <2>2. /\ UNCHANGED <<Opening, Receiving, Filling, Sending, Submitting, Emptying, Unsending,
                       Sents, Again>>
        /\ Locking' = Locking + 1
        /\ Leaving' = Leaving - 1
    BY <1>0, <2>1 DEF Sizes, Moved, Tally, Hits
  <2>3. Sizes'
    BY <2>1, SizesNext DEF Moved
  <2>4. Counting'
    BY <1>0, <1>1, <2>2, <2>3 DEF CloseActive, Sizes, Counting, LockOK, ReceiveOK, PhaseOK, SenderOK, Free, Held, Unlock
  <2>. QED BY <1>0, <1>1, <2>1, <2>2, <2>4, PlainStep DEF CloseActive, Free, Held, Unlock
<1>2. CASE At(t, "closeAgain") /\ Held(t)
  <2>1. Moved(t, "closeAgain", "closeCount", None)
    BY <1>0, <1>2, GoesOn DEF CloseActive, Labels
  <2>2. /\ UNCHANGED <<Opening, Receiving, Filling, Sending, Submitting, Locking, Emptying,
                       Unsending, Sents>>
        /\ Leaving' = Leaving - 1
        /\ Again' = Again - 1
    BY <1>0, <2>1 DEF Sizes, Moved, Tally, Hits
  <2>3. Sizes'
    BY <2>1, SizesNext DEF Moved
  <2>4. Counting'
    BY <1>0, <1>2, <2>2, <2>3 DEF CloseActive, Sizes, Counting, LockOK, ReceiveOK, PhaseOK, SenderOK, Free, Held, Unlock
  <2>. QED BY <1>0, <1>2, <2>1, <2>2, <2>4, PlainStep DEF CloseActive, Free, Held, Unlock
<1>. QED BY <1>0, <1>1, <1>2 DEF CloseActive, Free, Held

LEMMA CloseNothingStep ==
  ASSUME IInv, NEW t \in Threads, CloseNothing(t)
  PROVE  IInv'
<1>. USE DEF None, Only, OpenLabels, ReceiveLabels, FillLabels, SendLabels, SubmitLabels, LockLabels,
             LeaveLabels, sendVars, connVars, ioVars
<1>0. /\ TypeOK /\ Counting /\ UnsendOK /\ FitOK /\ QueuesOK /\ BytesOK /\ Sizes
      /\ state \in {"Created", "Active", "Closing", "Closed"} /\ NoThread \notin Threads
      /\ receives \in Nat /\ Len(sends) \in Nat /\ isSending \in BOOLEAN
      /\ ioLock \in Threads \union {NoThread}
  BY SizesOK, RioSessionConstants DEF IInv, TypeOK, Threads
<1>1. CASE At(t, "close") /\ state \in {"Closing", "Closed"} /\ ioLock = NoThread /\ UNCHANGED ioLock
  <2>1. Moved(t, "close", None, None)
    BY <1>0, <1>1, Returns DEF CloseNothing, Labels
  <2>2. /\ UNCHANGED <<Opening, Receiving, Filling, Sending, Submitting, Locking, Emptying,
                       Unsending, Sents, Again>>
        /\ Leaving' = Leaving - 1
    BY <1>0, <2>1 DEF Sizes, Moved, Tally, Hits
  <2>3. Sizes'
    BY <2>1, SizesNext DEF Moved
  <2>4. Counting'
    BY <1>0, <1>1, <2>2, <2>3 DEF CloseNothing, Sizes, Counting, LockOK, ReceiveOK, PhaseOK, SenderOK, Free, Held, Unlock
  <2>. QED BY <1>0, <1>1, <2>1, <2>2, <2>4, PlainStep DEF CloseNothing, Free, Held, Unlock
<1>2. CASE At(t, "closeAgain") /\ state # "Active" /\ Unlock(t)
  <2>1. Moved(t, "closeAgain", None, None)
    BY <1>0, <1>2, Returns DEF CloseNothing, Labels
  <2>2. /\ UNCHANGED <<Opening, Receiving, Filling, Sending, Submitting, Emptying, Unsending,
                       Sents>>
        /\ Locking' = Locking - 1
        /\ Leaving' = Leaving - 1
        /\ Again' = Again - 1
    BY <1>0, <2>1 DEF Sizes, Moved, Tally, Hits
  <2>3. Sizes'
    BY <2>1, SizesNext DEF Moved
  <2>4. Counting'
    BY <1>0, <1>2, <2>2, <2>3 DEF CloseNothing, Sizes, Counting, LockOK, ReceiveOK, PhaseOK, SenderOK, Free, Held, Unlock
  <2>. QED BY <1>0, <1>2, <2>1, <2>2, <2>4, PlainStep DEF CloseNothing, Free, Held, Unlock
<1>. QED BY <1>0, <1>1, <1>2 DEF CloseNothing

LEMMA CloseCountStep ==
  ASSUME IInv, NEW t \in Threads, CloseCount(t)
  PROVE  IInv'
<1>. USE DEF None, Only, OpenLabels, ReceiveLabels, FillLabels, SendLabels, SubmitLabels, LockLabels,
             LeaveLabels, sendVars, connVars, ioVars
<1>0. /\ TypeOK /\ Counting /\ UnsendOK /\ FitOK /\ QueuesOK /\ BytesOK /\ Sizes
      /\ state \in {"Created", "Active", "Closing", "Closed"} /\ NoThread \notin Threads
      /\ receives \in Nat /\ Len(sends) \in Nat /\ isSending \in BOOLEAN
      /\ ioLock \in Threads \union {NoThread}
  BY SizesOK, RioSessionConstants DEF IInv, TypeOK, Threads
<1>1. CASE ioCount = 0
  <2>1. Moved(t, "closeCount", "finalize", None)
    BY <1>0, <1>1, GoesOn DEF CloseCount, Labels
  <2>2. /\ UNCHANGED <<Opening, Receiving, Filling, Sending, Submitting, Leaving, Emptying,
                       Unsending, Sents, Again>>
        /\ Locking' = Locking - 1
    BY <1>0, <2>1 DEF Sizes, Moved, Tally, Hits
  <2>3. Sizes'
    BY <2>1, SizesNext DEF Moved
  <2>4. Counting'
    BY <1>0, <1>1, <2>2, <2>3 DEF CloseCount, Sizes, Counting, LockOK, ReceiveOK, PhaseOK, SenderOK, Free, Held, Unlock
  <2>. QED BY <1>0, <1>1, <2>1, <2>2, <2>4, PlainStep DEF CloseCount, Free, Held, Unlock
<1>2. CASE ioCount # 0
  <2>1. Moved(t, "closeCount", None, None)
    BY <1>0, <1>2, Returns DEF CloseCount, Labels
  <2>2. /\ UNCHANGED <<Opening, Receiving, Filling, Sending, Submitting, Leaving, Emptying,
                       Unsending, Sents, Again>>
        /\ Locking' = Locking - 1
    BY <1>0, <2>1 DEF Sizes, Moved, Tally, Hits
  <2>3. Sizes'
    BY <2>1, SizesNext DEF Moved
  <2>4. Counting'
    BY <1>0, <1>2, <2>2, <2>3 DEF CloseCount, Sizes, Counting, LockOK, ReceiveOK, PhaseOK, SenderOK, Free, Held, Unlock
  <2>. QED BY <1>0, <1>2, <2>1, <2>2, <2>4, PlainStep DEF CloseCount, Free, Held, Unlock
<1>. QED BY <1>0, <1>1, <1>2 DEF CloseCount

LEMMA FinalizeCloseStep ==
  ASSUME IInv, NEW t \in Threads, FinalizeClose(t)
  PROVE  IInv'
<1>. USE DEF None, Only, OpenLabels, ReceiveLabels, FillLabels, SendLabels, SubmitLabels, LockLabels,
             LeaveLabels, sendVars, connVars, ioVars
<1>0. /\ TypeOK /\ Counting /\ UnsendOK /\ FitOK /\ QueuesOK /\ BytesOK /\ Sizes
      /\ state \in {"Created", "Active", "Closing", "Closed"} /\ NoThread \notin Threads
      /\ receives \in Nat /\ Len(sends) \in Nat /\ isSending \in BOOLEAN
      /\ ioLock \in Threads \union {NoThread}
  BY SizesOK, RioSessionConstants DEF IInv, TypeOK, Threads
<1>1. CASE state = "Closing"
  <2>1. Moved(t, "finalize", "notify", None)
    BY <1>0, <1>1, GoesOn DEF FinalizeClose, Labels
  <2>2. /\ UNCHANGED <<Opening, Receiving, Filling, Sending, Submitting, Locking, Leaving,
                       Emptying, Unsending, Sents, Again>>
    BY <1>0, <2>1 DEF Sizes, Moved, Tally, Hits
  <2>3. Sizes'
    BY <2>1, SizesNext DEF Moved
  <2>4. Counting'
    BY <1>0, <1>1, <2>2, <2>3 DEF FinalizeClose, Sizes, Counting, LockOK, ReceiveOK, PhaseOK, SenderOK, Free, Held, Unlock
  <2>. QED BY <1>0, <1>1, <2>1, <2>2, <2>4, PlainStep DEF FinalizeClose, Free, Held, Unlock
<1>2. CASE state # "Closing"
  <2>1. Moved(t, "finalize", None, None)
    BY <1>0, <1>2, Returns DEF FinalizeClose, Labels
  <2>2. /\ UNCHANGED <<Opening, Receiving, Filling, Sending, Submitting, Locking, Leaving,
                       Emptying, Unsending, Sents, Again>>
    BY <1>0, <2>1 DEF Sizes, Moved, Tally, Hits
  <2>3. Sizes'
    BY <2>1, SizesNext DEF Moved
  <2>4. Counting'
    BY <1>0, <1>2, <2>2, <2>3 DEF FinalizeClose, Sizes, Counting, LockOK, ReceiveOK, PhaseOK, SenderOK, Free, Held, Unlock
  <2>. QED BY <1>0, <1>2, <2>1, <2>2, <2>4, PlainStep DEF FinalizeClose, Free, Held, Unlock
<1>. QED BY <1>0, <1>1, <1>2 DEF FinalizeClose

LEMMA OnDisconnectedStep ==
  ASSUME IInv, NEW t \in Threads, OnDisconnected(t)
  PROVE  IInv'
<1>. USE DEF None, Only, OpenLabels, ReceiveLabels, FillLabels, SendLabels, SubmitLabels, LockLabels,
             LeaveLabels, sendVars, connVars, ioVars
<1>0. /\ TypeOK /\ Counting /\ UnsendOK /\ FitOK /\ QueuesOK /\ BytesOK /\ Sizes
      /\ state \in {"Created", "Active", "Closing", "Closed"} /\ NoThread \notin Threads
      /\ receives \in Nat /\ Len(sends) \in Nat /\ isSending \in BOOLEAN
      /\ ioLock \in Threads \union {NoThread}
  BY SizesOK, RioSessionConstants DEF IInv, TypeOK, Threads
<1>1. Moved(t, "notify", None, None)
  BY <1>0, Returns DEF OnDisconnected, Labels
<1>2. /\ UNCHANGED <<Opening, Receiving, Filling, Sending, Submitting, Locking, Leaving,
                     Emptying, Unsending, Sents, Again>>
  BY <1>0, <1>1 DEF Sizes, Moved, Tally, Hits
<1>3. Sizes'
  BY <1>1, SizesNext DEF Moved
<1>4. Counting'
  BY <1>0, <1>2, <1>3 DEF OnDisconnected, Sizes, Counting, LockOK, ReceiveOK, PhaseOK, SenderOK, Free, Held, Unlock
<1>. QED BY <1>0, <1>1, <1>2, <1>4, PlainStep DEF OnDisconnected, Free, Held, Unlock

LEMMA RegisterConnectStep ==
  ASSUME IInv, NEW t \in Threads, RegisterConnect(t)
  PROVE  IInv'
<1>. USE DEF None, Only, OpenLabels, ReceiveLabels, FillLabels, SendLabels, SubmitLabels, LockLabels,
             LeaveLabels, sendVars, connVars, ioVars
<1>0. /\ TypeOK /\ Counting /\ UnsendOK /\ FitOK /\ QueuesOK /\ BytesOK /\ Sizes
      /\ state \in {"Created", "Active", "Closing", "Closed"} /\ NoThread \notin Threads
      /\ receives \in Nat /\ Len(sends) \in Nat /\ isSending \in BOOLEAN
      /\ ioLock \in Threads \union {NoThread}
  BY SizesOK, RioSessionConstants DEF IInv, TypeOK, Threads
<1>1. Moved(t, "register", "connecting", None)
  BY <1>0, GoesOn DEF RegisterConnect, Labels
<1>2. /\ UNCHANGED <<Opening, Receiving, Filling, Sending, Submitting, Locking, Leaving,
                     Emptying, Unsending, Sents, Again>>
  BY <1>0, <1>1 DEF Sizes, Moved, Tally, Hits
<1>3. Sizes'
  BY <1>1, SizesNext DEF Moved
<1>4. Counting'
  BY <1>0, <1>2, <1>3 DEF RegisterConnect, Sizes, Counting, LockOK, ReceiveOK, PhaseOK, SenderOK, Free, Held, Unlock
<1>. QED BY <1>0, <1>1, <1>2, <1>4, PlainStep DEF RegisterConnect, Free, Held, Unlock

LEMMA ConnectFailsStep ==
  ASSUME IInv, NEW t \in Threads, ConnectFails(t)
  PROVE  IInv'
<1>. USE DEF None, Only, OpenLabels, ReceiveLabels, FillLabels, SendLabels, SubmitLabels, LockLabels,
             LeaveLabels, sendVars, connVars, ioVars
<1>0. /\ TypeOK /\ Counting /\ UnsendOK /\ FitOK /\ QueuesOK /\ BytesOK /\ Sizes
      /\ state \in {"Created", "Active", "Closing", "Closed"} /\ NoThread \notin Threads
      /\ receives \in Nat /\ Len(sends) \in Nat /\ isSending \in BOOLEAN
      /\ ioLock \in Threads \union {NoThread}
  BY SizesOK, RioSessionConstants DEF IInv, TypeOK, Threads
<1>1. CASE At(t, "register")
  <2>1. Moved(t, "register", "notify", None)
    BY <1>0, <1>1, GoesOn DEF ConnectFails, FailConnect, Labels
  <2>2. /\ UNCHANGED <<Filling, Sending, Submitting, Locking, Leaving, Emptying, Unsending,
                       Sents, Again>>
        /\ Opening' = Opening - 1
        /\ Receiving' = Receiving - 1
    BY <1>0, <2>1 DEF Sizes, Moved, Tally, Hits
  <2>3. Sizes'
    BY <2>1, SizesNext DEF Moved
  <2>4. Counting'
    BY <1>0, <1>1, <2>2, <2>3 DEF ConnectFails, FailConnect, Sizes, Counting, LockOK, ReceiveOK, PhaseOK, SenderOK, Free, Held, Unlock
  <2>. QED BY <1>0, <1>1, <2>1, <2>2, <2>4, PlainStep DEF ConnectFails, FailConnect, Free, Held, Unlock
<1>2. CASE At(t, "connecting")
  <2>1. Moved(t, "connecting", "notify", None)
    BY <1>0, <1>2, GoesOn DEF ConnectFails, FailConnect, Labels
  <2>2. /\ UNCHANGED <<Filling, Sending, Submitting, Locking, Leaving, Emptying, Unsending,
                       Sents, Again>>
        /\ Opening' = Opening - 1
        /\ Receiving' = Receiving - 1
    BY <1>0, <2>1 DEF Sizes, Moved, Tally, Hits
  <2>3. Sizes'
    BY <2>1, SizesNext DEF Moved
  <2>4. Counting'
    BY <1>0, <1>2, <2>2, <2>3 DEF ConnectFails, FailConnect, Sizes, Counting, LockOK, ReceiveOK, PhaseOK, SenderOK, Free, Held, Unlock
  <2>. QED BY <1>0, <1>2, <2>1, <2>2, <2>4, PlainStep DEF ConnectFails, FailConnect, Free, Held, Unlock
<1>. QED BY <1>0, <1>1, <1>2 DEF ConnectFails

LEMMA ProcessConnectExStep ==
  ASSUME IInv, NEW t \in Threads, ProcessConnectEx(t)
  PROVE  IInv'
<1>. USE DEF None, Only, OpenLabels, ReceiveLabels, FillLabels, SendLabels, SubmitLabels, LockLabels,
             LeaveLabels, sendVars, connVars, ioVars
<1>0. /\ TypeOK /\ Counting /\ UnsendOK /\ FitOK /\ QueuesOK /\ BytesOK /\ Sizes
      /\ state \in {"Created", "Active", "Closing", "Closed"} /\ NoThread \notin Threads
      /\ receives \in Nat /\ Len(sends) \in Nat /\ isSending \in BOOLEAN
      /\ ioLock \in Threads \union {NoThread}
  BY SizesOK, RioSessionConstants DEF IInv, TypeOK, Threads
<1>1. Moved(t, "connecting", "init", None)
  BY <1>0, GoesOn DEF ProcessConnectEx, Labels
<1>2. /\ UNCHANGED <<Opening, Receiving, Filling, Sending, Submitting, Locking, Leaving,
                     Emptying, Unsending, Sents, Again>>
  BY <1>0, <1>1 DEF Sizes, Moved, Tally, Hits
<1>3. Sizes'
  BY <1>1, SizesNext DEF Moved
<1>4. Counting'
  BY <1>0, <1>2, <1>3 DEF ProcessConnectEx, Sizes, Counting, LockOK, ReceiveOK, PhaseOK, SenderOK, Free, Held, Unlock
<1>. QED BY <1>0, <1>1, <1>2, <1>4, PlainStep DEF ProcessConnectEx, Free, Held, Unlock

LEMMA SessionNotOpenedStep ==
  ASSUME IInv, NEW t \in Threads, SessionNotOpened(t)
  PROVE  IInv'
<1>. USE DEF None, Only, OpenLabels, ReceiveLabels, FillLabels, SendLabels, SubmitLabels, LockLabels,
             LeaveLabels, sendVars, connVars, ioVars
<1>0. /\ TypeOK /\ Counting /\ UnsendOK /\ FitOK /\ QueuesOK /\ BytesOK /\ Sizes
      /\ state \in {"Created", "Active", "Closing", "Closed"} /\ NoThread \notin Threads
      /\ receives \in Nat /\ Len(sends) \in Nat /\ isSending \in BOOLEAN
      /\ ioLock \in Threads \union {NoThread}
  BY SizesOK, RioSessionConstants DEF IInv, TypeOK, Threads
<1>1. CASE way = "connect"
  <2>1. Moved(t, "init", "notify", None)
    BY <1>0, <1>1, GoesOn DEF SessionNotOpened, FailConnect, Labels
  <2>2. /\ UNCHANGED <<Filling, Sending, Submitting, Locking, Leaving, Emptying, Unsending,
                       Sents, Again>>
        /\ Opening' = Opening - 1
        /\ Receiving' = Receiving - 1
    BY <1>0, <2>1 DEF Sizes, Moved, Tally, Hits
  <2>3. Sizes'
    BY <2>1, SizesNext DEF Moved
  <2>4. Counting'
    BY <1>0, <1>1, <2>2, <2>3 DEF SessionNotOpened, FailConnect, Sizes, Counting, LockOK, ReceiveOK, PhaseOK, SenderOK, Free, Held, Unlock
  <2>. QED BY <1>0, <1>1, <2>1, <2>2, <2>4, PlainStep DEF SessionNotOpened, FailConnect, Free, Held, Unlock
<1>2. CASE way # "connect"
  <2>1. Moved(t, "init", None, None)
    BY <1>0, <1>2, Returns DEF SessionNotOpened, Labels
  <2>2. /\ UNCHANGED <<Filling, Sending, Submitting, Locking, Leaving, Emptying, Unsending,
                       Sents, Again>>
        /\ Opening' = Opening - 1
        /\ Receiving' = Receiving - 1
    BY <1>0, <2>1 DEF Sizes, Moved, Tally, Hits
  <2>3. Sizes'
    BY <2>1, SizesNext DEF Moved
  <2>4. Counting'
    BY <1>0, <1>2, <2>2, <2>3 DEF SessionNotOpened, Sizes, Counting, LockOK, ReceiveOK, PhaseOK, SenderOK, Free, Held, Unlock
  <2>. QED BY <1>0, <1>2, <2>1, <2>2, <2>4, PlainStep DEF SessionNotOpened, Free, Held, Unlock
<1>. QED BY <1>0, <1>1, <1>2 DEF SessionNotOpened

LEMMA OnConnectedStep ==
  ASSUME IInv, NEW t \in Threads, OnConnected(t)
  PROVE  IInv'
<1>. USE DEF None, Only, OpenLabels, ReceiveLabels, FillLabels, SendLabels, SubmitLabels, LockLabels,
             LeaveLabels, sendVars, connVars, ioVars
<1>0. /\ TypeOK /\ Counting /\ UnsendOK /\ FitOK /\ QueuesOK /\ BytesOK /\ Sizes
      /\ state \in {"Created", "Active", "Closing", "Closed"} /\ NoThread \notin Threads
      /\ receives \in Nat /\ Len(sends) \in Nat /\ isSending \in BOOLEAN
      /\ ioLock \in Threads \union {NoThread}
  BY SizesOK, RioSessionConstants DEF IInv, TypeOK, Threads
<1>1. CASE Goto(t, "opened")
  <2>1. Moved(t, "onConnected", "opened", None)
    BY <1>0, <1>1, GoesOn DEF OnConnected, Labels
  <2>2. /\ UNCHANGED <<Opening, Receiving, Filling, Sending, Submitting, Locking, Leaving,
                       Emptying, Unsending, Sents, Again>>
    BY <1>0, <2>1 DEF Sizes, Moved, Tally, Hits
  <2>3. Sizes'
    BY <2>1, SizesNext DEF Moved
  <2>4. Counting'
    BY <1>0, <1>1, <2>2, <2>3 DEF OnConnected, Sizes, Counting, LockOK, ReceiveOK, PhaseOK, SenderOK, Free, Held, Unlock
  <2>. QED BY <1>0, <1>1, <2>1, <2>2, <2>4, PlainStep DEF OnConnected, Free, Held, Unlock
<1>2. CASE Call(t, "close", "opened")
  <2>1. Moved(t, "onConnected", "close", "opened")
    BY <1>0, <1>2, Calls DEF OnConnected, Labels
  <2>2. /\ UNCHANGED <<Opening, Receiving, Filling, Sending, Submitting, Locking, Emptying,
                       Unsending, Sents, Again>>
        /\ Leaving' = Leaving + 1
    BY <1>0, <2>1 DEF Sizes, Moved, Tally, Hits
  <2>3. Sizes'
    BY <2>1, SizesNext DEF Moved
  <2>4. Counting'
    BY <1>0, <1>2, <2>2, <2>3 DEF OnConnected, Sizes, Counting, LockOK, ReceiveOK, PhaseOK, SenderOK, Free, Held, Unlock
  <2>. QED BY <1>0, <1>2, <2>1, <2>2, <2>4, PlainStep DEF OnConnected, Free, Held, Unlock
<1>3. CASE Call(t, "send", "opened")
  <2>1. Moved(t, "onConnected", "send", "opened")
    BY <1>0, <1>3, Calls DEF OnConnected, Labels
  <2>2. /\ UNCHANGED <<Opening, Receiving, Filling, Sending, Submitting, Locking, Leaving,
                       Emptying, Unsending, Sents, Again>>
    BY <1>0, <2>1 DEF Sizes, Moved, Tally, Hits
  <2>3. Sizes'
    BY <2>1, SizesNext DEF Moved
  <2>4. Counting'
    BY <1>0, <1>3, <2>2, <2>3 DEF OnConnected, Sizes, Counting, LockOK, ReceiveOK, PhaseOK, SenderOK, Free, Held, Unlock
  <2>. QED BY <1>0, <1>3, <2>1, <2>2, <2>4, PlainStep DEF OnConnected, Free, Held, Unlock
<1>. QED BY <1>0, <1>1, <1>2, <1>3 DEF OnConnected

LEMMA OpenedStep ==
  ASSUME IInv, NEW t \in Threads, Opened(t)
  PROVE  IInv'
<1>. USE DEF None, Only, OpenLabels, ReceiveLabels, FillLabels, SendLabels, SubmitLabels, LockLabels,
             LeaveLabels, sendVars, connVars, ioVars
<1>0. /\ TypeOK /\ Counting /\ UnsendOK /\ FitOK /\ QueuesOK /\ BytesOK /\ Sizes
      /\ state \in {"Created", "Active", "Closing", "Closed"} /\ NoThread \notin Threads
      /\ receives \in Nat /\ Len(sends) \in Nat /\ isSending \in BOOLEAN
      /\ ioLock \in Threads \union {NoThread}
  BY SizesOK, RioSessionConstants DEF IInv, TypeOK, Threads
<1>1. CASE way = "connect" /\ canceled
  <2>1. Moved(t, "opened", "close", None)
    BY <1>0, <1>1, GoesOn DEF Opened, Labels
  <2>2. /\ UNCHANGED <<Opening, Filling, Sending, Submitting, Locking, Emptying, Unsending,
                       Sents, Again>>
        /\ Receiving' = Receiving - 1
        /\ Leaving' = Leaving + 1
    BY <1>0, <2>1 DEF Sizes, Moved, Tally, Hits
  <2>3. Sizes'
    BY <2>1, SizesNext DEF Moved
  <2>4. Counting'
    BY <1>0, <1>1, <2>2, <2>3 DEF Opened, Sizes, Counting, LockOK, ReceiveOK, PhaseOK, SenderOK, Free, Held, Unlock
  <2>. QED BY <1>0, <1>1, <2>1, <2>2, <2>4, PlainStep DEF Opened, Free, Held, Unlock
<1>2. CASE ~(way = "connect" /\ canceled)
  <2>1. Moved(t, "opened", "post", None)
    BY <1>0, <1>2, GoesOn DEF Opened, Labels
  <2>2. /\ UNCHANGED <<Opening, Receiving, Filling, Sending, Submitting, Locking, Leaving,
                       Emptying, Unsending, Sents, Again>>
    BY <1>0, <2>1 DEF Sizes, Moved, Tally, Hits
  <2>3. Sizes'
    BY <2>1, SizesNext DEF Moved
  <2>4. Counting'
    BY <1>0, <1>2, <2>2, <2>3 DEF Opened, Sizes, Counting, LockOK, ReceiveOK, PhaseOK, SenderOK, Free, Held, Unlock
  <2>. QED BY <1>0, <1>2, <2>1, <2>2, <2>4, PlainStep DEF Opened, Free, Held, Unlock
<1>. QED BY <1>0, <1>1, <1>2 DEF Opened

LEMMA PostReceiveStep ==
  ASSUME IInv, NEW t \in Threads, PostReceive(t)
  PROVE  IInv'
<1>. USE DEF None, Only, OpenLabels, ReceiveLabels, FillLabels, SendLabels, SubmitLabels, LockLabels,
             LeaveLabels, sendVars, connVars, ioVars
<1>0. /\ TypeOK /\ Counting /\ UnsendOK /\ FitOK /\ QueuesOK /\ BytesOK /\ Sizes
      /\ state \in {"Created", "Active", "Closing", "Closed"} /\ NoThread \notin Threads
      /\ receives \in Nat /\ Len(sends) \in Nat /\ isSending \in BOOLEAN
      /\ ioLock \in Threads \union {NoThread}
  BY SizesOK, RioSessionConstants DEF IInv, TypeOK, Threads
<1>1. CASE state = "Active"
  <2>1. Moved(t, "post", "submit", None)
    BY <1>0, <1>1, GoesOn DEF PostReceive, Labels
  <2>2. /\ UNCHANGED <<Opening, Receiving, Filling, Sending, Submitting, Leaving, Emptying,
                       Unsending, Sents, Again>>
        /\ Locking' = Locking + 1
    BY <1>0, <2>1 DEF Sizes, Moved, Tally, Hits
  <2>3. Sizes'
    BY <2>1, SizesNext DEF Moved
  <2>4. Counting'
    BY <1>0, <1>1, <2>2, <2>3 DEF PostReceive, Sizes, Counting, LockOK, ReceiveOK, PhaseOK, SenderOK, Free, Held, Unlock
  <2>. QED BY <1>0, <1>1, <2>1, <2>2, <2>4, PlainStep DEF PostReceive, Free, Held, Unlock
<1>2. CASE state # "Active"
  <2>1. Moved(t, "post", None, None)
    BY <1>0, <1>2, Returns DEF PostReceive, Labels
  <2>2. /\ UNCHANGED <<Opening, Filling, Sending, Submitting, Locking, Leaving, Emptying,
                       Unsending, Sents, Again>>
        /\ Receiving' = Receiving - 1
    BY <1>0, <2>1 DEF Sizes, Moved, Tally, Hits
  <2>3. Sizes'
    BY <2>1, SizesNext DEF Moved
  <2>4. Counting'
    BY <1>0, <1>2, <2>2, <2>3 DEF PostReceive, Sizes, Counting, LockOK, ReceiveOK, PhaseOK, SenderOK, Free, Held, Unlock
  <2>. QED BY <1>0, <1>2, <2>1, <2>2, <2>4, PlainStep DEF PostReceive, Free, Held, Unlock
<1>. QED BY <1>0, <1>1, <1>2 DEF PostReceive

LEMMA SubmitReceiveStep ==
  ASSUME IInv, NEW t \in Threads, SubmitReceive(t)
  PROVE  IInv'
<1>. USE DEF None, Only, OpenLabels, ReceiveLabels, FillLabels, SendLabels, SubmitLabels, LockLabels,
             LeaveLabels, sendVars, connVars, ioVars
<1>0. /\ TypeOK /\ Counting /\ UnsendOK /\ FitOK /\ QueuesOK /\ BytesOK /\ Sizes
      /\ state \in {"Created", "Active", "Closing", "Closed"} /\ NoThread \notin Threads
      /\ receives \in Nat /\ Len(sends) \in Nat /\ isSending \in BOOLEAN
      /\ ioLock \in Threads \union {NoThread}
  BY SizesOK, RioSessionConstants DEF IInv, TypeOK, Threads
<1>1. Moved(t, "submit", None, None)
  BY <1>0, Returns DEF SubmitReceive, Labels
<1>2. /\ UNCHANGED <<Opening, Filling, Sending, Submitting, Leaving, Emptying, Unsending,
                     Sents, Again>>
      /\ Receiving' = Receiving - 1
      /\ Locking' = Locking - 1
  BY <1>0, <1>1 DEF Sizes, Moved, Tally, Hits
<1>3. Sizes'
  BY <1>1, SizesNext DEF Moved
<1>4. Counting'
  BY <1>0, <1>2, <1>3 DEF SubmitReceive, Sizes, Counting, LockOK, ReceiveOK, PhaseOK, SenderOK, Free, Held, Unlock
<1>. QED BY <1>0, <1>1, <1>2, <1>4, PlainStep DEF SubmitReceive, Free, Held, Unlock

LEMMA SubmitReceiveFailsStep ==
  ASSUME IInv, NEW t \in Threads, SubmitReceiveFails(t)
  PROVE  IInv'
<1>. USE DEF None, Only, OpenLabels, ReceiveLabels, FillLabels, SendLabels, SubmitLabels, LockLabels,
             LeaveLabels, sendVars, connVars, ioVars
<1>0. /\ TypeOK /\ Counting /\ UnsendOK /\ FitOK /\ QueuesOK /\ BytesOK /\ Sizes
      /\ state \in {"Created", "Active", "Closing", "Closed"} /\ NoThread \notin Threads
      /\ receives \in Nat /\ Len(sends) \in Nat /\ isSending \in BOOLEAN
      /\ ioLock \in Threads \union {NoThread}
  BY SizesOK, RioSessionConstants DEF IInv, TypeOK, Threads
<1>1. Moved(t, "submit", "close", None)
  BY <1>0, GoesOn DEF SubmitReceiveFails, Labels
<1>2. /\ UNCHANGED <<Opening, Filling, Sending, Submitting, Emptying, Unsending, Sents,
                     Again>>
      /\ Receiving' = Receiving - 1
      /\ Locking' = Locking - 1
      /\ Leaving' = Leaving + 1
  BY <1>0, <1>1 DEF Sizes, Moved, Tally, Hits
<1>3. Sizes'
  BY <1>1, SizesNext DEF Moved
<1>4. Counting'
  BY <1>0, <1>2, <1>3 DEF SubmitReceiveFails, Sizes, Counting, LockOK, ReceiveOK, PhaseOK, SenderOK, Free, Held, Unlock
<1>. QED BY <1>0, <1>1, <1>2, <1>4, PlainStep DEF SubmitReceiveFails, Free, Held, Unlock

LEMMA PostReceiveFailsStep ==
  ASSUME IInv, NEW t \in Threads, PostReceiveFails(t)
  PROVE  IInv'
<1>. USE DEF None, Only, OpenLabels, ReceiveLabels, FillLabels, SendLabels, SubmitLabels, LockLabels,
             LeaveLabels, sendVars, connVars, ioVars
<1>0. /\ TypeOK /\ Counting /\ UnsendOK /\ FitOK /\ QueuesOK /\ BytesOK /\ Sizes
      /\ state \in {"Created", "Active", "Closing", "Closed"} /\ NoThread \notin Threads
      /\ receives \in Nat /\ Len(sends) \in Nat /\ isSending \in BOOLEAN
      /\ ioLock \in Threads \union {NoThread}
  BY SizesOK, RioSessionConstants DEF IInv, TypeOK, Threads
<1>1. Moved(t, "post", "close", None)
  BY <1>0, GoesOn DEF PostReceiveFails, Labels
<1>2. /\ UNCHANGED <<Opening, Filling, Sending, Submitting, Locking, Emptying, Unsending,
                     Sents, Again>>
      /\ Receiving' = Receiving - 1
      /\ Leaving' = Leaving + 1
  BY <1>0, <1>1 DEF Sizes, Moved, Tally, Hits
<1>3. Sizes'
  BY <1>1, SizesNext DEF Moved
<1>4. Counting'
  BY <1>0, <1>2, <1>3 DEF PostReceiveFails, Sizes, Counting, LockOK, ReceiveOK, PhaseOK, SenderOK, Free, Held, Unlock
<1>. QED BY <1>0, <1>1, <1>2, <1>4, PlainStep DEF PostReceiveFails, Free, Held, Unlock

LEMMA SendFailsStep ==
  ASSUME IInv, NEW t \in Threads, SendFails(t)
  PROVE  IInv'
<1>. USE DEF None, Only, OpenLabels, ReceiveLabels, FillLabels, SendLabels, SubmitLabels, LockLabels,
             LeaveLabels, sendVars, connVars, ioVars
<1>0. /\ TypeOK /\ Counting /\ UnsendOK /\ FitOK /\ QueuesOK /\ BytesOK /\ Sizes
      /\ state \in {"Created", "Active", "Closing", "Closed"} /\ NoThread \notin Threads
      /\ receives \in Nat /\ Len(sends) \in Nat /\ isSending \in BOOLEAN
      /\ ioLock \in Threads \union {NoThread}
  BY SizesOK, RioSessionConstants DEF IInv, TypeOK, Threads
<1>1. Moved(t, "send", "close", None)
  BY <1>0, GoesOn DEF SendFails, Labels
<1>2. /\ UNCHANGED <<Opening, Receiving, Filling, Sending, Submitting, Locking, Emptying,
                     Unsending, Sents, Again>>
      /\ Leaving' = Leaving + 1
  BY <1>0, <1>1 DEF Sizes, Moved, Tally, Hits
<1>3. Sizes'
  BY <1>1, SizesNext DEF Moved
<1>4. Counting'
  BY <1>0, <1>2, <1>3 DEF SendFails, Sizes, Counting, LockOK, ReceiveOK, PhaseOK, SenderOK, Free, Held, Unlock
<1>. QED BY <1>0, <1>1, <1>2, <1>4, PlainStep DEF SendFails, Free, Held, Unlock

LEMMA FlushSendStep ==
  ASSUME IInv, NEW t \in Threads, FlushSend(t)
  PROVE  IInv'
<1>. USE DEF None, Only, OpenLabels, ReceiveLabels, FillLabels, SendLabels, SubmitLabels, LockLabels,
             LeaveLabels, sendVars, connVars, ioVars
<1>0. /\ TypeOK /\ Counting /\ UnsendOK /\ FitOK /\ QueuesOK /\ BytesOK /\ Sizes
      /\ state \in {"Created", "Active", "Closing", "Closed"} /\ NoThread \notin Threads
      /\ receives \in Nat /\ Len(sends) \in Nat /\ isSending \in BOOLEAN
      /\ ioLock \in Threads \union {NoThread}
  BY SizesOK, RioSessionConstants DEF IInv, TypeOK, Threads
<1>1. CASE state = "Active"
  <2>1. Moved(t, "flush", "segments", None)
    BY <1>0, <1>1, GoesOn DEF FlushSend, Labels
  <2>2. /\ UNCHANGED <<Opening, Receiving, Filling, Sending, Leaving, Emptying, Unsending,
                       Sents, Again>>
        /\ Submitting' = Submitting + 1
        /\ Locking' = Locking + 1
    BY <1>0, <2>1 DEF Sizes, Moved, Tally, Hits
  <2>3. Sizes'
    BY <2>1, SizesNext DEF Moved
  <2>4. Counting'
    BY <1>0, <1>1, <2>2, <2>3 DEF FlushSend, Sizes, Counting, LockOK, ReceiveOK, PhaseOK, SenderOK, Free, Held, Unlock
  <2>. QED BY <1>0, <1>1, <2>1, <2>2, <2>4, PlainStep DEF FlushSend, Free, Held, Unlock
<1>2. CASE state # "Active"
  <2>1. Moved(t, "flush", "unsend", None)
    BY <1>0, <1>2, GoesOn DEF FlushSend, Labels
  <2>2. /\ UNCHANGED <<Opening, Receiving, Submitting, Locking, Leaving, Emptying, Sents,
                       Again>>
        /\ Filling' = Filling - 1
        /\ Sending' = Sending - 1
        /\ Unsending' = Unsending + 1
    BY <1>0, <2>1 DEF Sizes, Moved, Tally, Hits
  <2>3. Sizes'
    BY <2>1, SizesNext DEF Moved
  <2>4. Counting'
    BY <1>0, <1>2, <2>2, <2>3 DEF FlushSend, Sizes, Counting, LockOK, ReceiveOK, PhaseOK, SenderOK, Free, Held, Unlock
  <2>. QED BY <1>0, <1>2, <2>1, <2>2, <2>4, PlainStep DEF FlushSend, Free, Held, Unlock
<1>. QED BY <1>0, <1>1, <1>2 DEF FlushSend

LEMMA OnReceiveCompletedStep ==
  ASSUME IInv, NEW t \in Threads, OnReceiveCompleted(t)
  PROVE  IInv'
<1>. USE DEF None, Only, OpenLabels, ReceiveLabels, FillLabels, SendLabels, SubmitLabels, LockLabels,
             LeaveLabels, sendVars, connVars, ioVars
<1>0. /\ TypeOK /\ Counting /\ UnsendOK /\ FitOK /\ QueuesOK /\ BytesOK /\ Sizes
      /\ state \in {"Created", "Active", "Closing", "Closed"} /\ NoThread \notin Threads
      /\ receives \in Nat /\ Len(sends) \in Nat /\ isSending \in BOOLEAN
      /\ ioLock \in Threads \union {NoThread}
  BY SizesOK, RioSessionConstants DEF IInv, TypeOK, Threads
<1>01. UNCHANGED <<state, ioLock, receives, sends, isSending, ring, overflow, accepted, wire>>
  BY DEF OnReceiveCompleted
<1>1. CASE At(t, "gotData") /\ state # "Active"
  <2>1. Moved(t, "gotData", None, None)
    BY <1>0, <1>1, Returns DEF OnReceiveCompleted, Labels, At
  <2>2. /\ UNCHANGED <<Opening, Filling, Sending, Submitting, Locking, Leaving, Emptying,
                       Unsending, Sents, Again>>
        /\ Receiving' = Receiving - 1
    BY <1>0, <2>1 DEF Sizes, Moved, Tally, Hits
  <2>3. Sizes'
    BY <2>1, SizesNext DEF Moved
  <2>4. Counting'
    <3>1. LockOK' /\ ReceiveOK'
      BY <1>0, <1>01, <2>2, <2>3 DEF Sizes, Counting, LockOK, ReceiveOK
    <3>2. PhaseOK'
      BY <1>0, <1>01, <2>2, <2>3 DEF Sizes, Counting, PhaseOK
    <3>3. SenderOK'
      BY <1>0, <1>01, <2>2, <2>3 DEF Sizes, Counting, SenderOK
    <3>. QED BY <3>1, <3>2, <3>3 DEF Counting
  <2>. QED BY <1>0, <1>1, <2>1, <2>2, <2>4, PlainStep DEF OnReceiveCompleted, Free, Held, Unlock
<1>2. CASE At(t, "gotError") /\ state # "Active"
  <2>1. Moved(t, "gotError", None, None)
    BY <1>0, <1>2, Returns DEF OnReceiveCompleted, Labels, At
  <2>2. /\ UNCHANGED <<Opening, Filling, Sending, Submitting, Locking, Leaving, Emptying,
                       Unsending, Sents, Again>>
        /\ Receiving' = Receiving - 1
    BY <1>0, <2>1 DEF Sizes, Moved, Tally, Hits
  <2>3. Sizes'
    BY <2>1, SizesNext DEF Moved
  <2>4. Counting'
    <3>1. LockOK' /\ ReceiveOK'
      BY <1>0, <1>01, <2>2, <2>3 DEF Sizes, Counting, LockOK, ReceiveOK
    <3>2. PhaseOK'
      BY <1>0, <1>01, <2>2, <2>3 DEF Sizes, Counting, PhaseOK
    <3>3. SenderOK'
      BY <1>0, <1>01, <2>2, <2>3 DEF Sizes, Counting, SenderOK
    <3>. QED BY <3>1, <3>2, <3>3 DEF Counting
  <2>. QED BY <1>0, <1>2, <2>1, <2>2, <2>4, PlainStep DEF OnReceiveCompleted, Free, Held, Unlock
<1>3. CASE At(t, "gotError") /\ state = "Active"
  <2>1. Moved(t, "gotError", "close", None)
    BY <1>0, <1>3, GoesOn DEF OnReceiveCompleted, Labels, At
  <2>2. /\ UNCHANGED <<Opening, Filling, Sending, Submitting, Locking, Emptying, Unsending,
                       Sents, Again>>
        /\ Receiving' = Receiving - 1
        /\ Leaving' = Leaving + 1
    BY <1>0, <2>1 DEF Sizes, Moved, Tally, Hits
  <2>3. Sizes'
    BY <2>1, SizesNext DEF Moved
  <2>4. Counting'
    <3>1. LockOK' /\ ReceiveOK'
      BY <1>0, <1>01, <2>2, <2>3 DEF Sizes, Counting, LockOK, ReceiveOK
    <3>2. PhaseOK'
      BY <1>0, <1>01, <2>2, <2>3 DEF Sizes, Counting, PhaseOK
    <3>3. SenderOK'
      BY <1>0, <1>01, <2>2, <2>3 DEF Sizes, Counting, SenderOK
    <3>. QED BY <3>1, <3>2, <3>3 DEF Counting
  <2>. QED BY <1>0, <1>3, <2>1, <2>2, <2>4, PlainStep DEF OnReceiveCompleted, Free, Held, Unlock
<1>4. CASE At(t, "gotData") /\ state = "Active"
  <2>1. Moved(t, "gotData", "onData", None)
    BY <1>0, <1>4, GoesOn DEF OnReceiveCompleted, Labels, At
  <2>2. /\ UNCHANGED <<Opening, Receiving, Filling, Sending, Submitting, Locking, Leaving,
                       Emptying, Unsending, Sents, Again>>
    BY <1>0, <2>1 DEF Sizes, Moved, Tally, Hits
  <2>3. Sizes'
    BY <2>1, SizesNext DEF Moved
  <2>4. Counting'
    BY <1>0, <1>4, <2>2, <2>3 DEF OnReceiveCompleted, Sizes, Counting, LockOK, ReceiveOK, PhaseOK, SenderOK, Free, Held, Unlock
  <2>. QED BY <1>0, <1>4, <2>1, <2>2, <2>4, PlainStep DEF OnReceiveCompleted, Free, Held, Unlock
<1>. QED BY <1>0, <1>1, <1>2, <1>3, <1>4 DEF OnReceiveCompleted

LEMMA OnDataReceivedStep ==
  ASSUME IInv, NEW t \in Threads, OnDataReceived(t)
  PROVE  IInv'
<1>. USE DEF None, Only, OpenLabels, ReceiveLabels, FillLabels, SendLabels, SubmitLabels, LockLabels,
             LeaveLabels, sendVars, connVars, ioVars
<1>0. /\ TypeOK /\ Counting /\ UnsendOK /\ FitOK /\ QueuesOK /\ BytesOK /\ Sizes
      /\ state \in {"Created", "Active", "Closing", "Closed"} /\ NoThread \notin Threads
      /\ receives \in Nat /\ Len(sends) \in Nat /\ isSending \in BOOLEAN
      /\ ioLock \in Threads \union {NoThread}
  BY SizesOK, RioSessionConstants DEF IInv, TypeOK, Threads
<1>1. CASE Goto(t, "post")
  <2>1. Moved(t, "onData", "post", None)
    BY <1>0, <1>1, GoesOn DEF OnDataReceived, Labels
  <2>2. /\ UNCHANGED <<Opening, Receiving, Filling, Sending, Submitting, Locking, Leaving,
                       Emptying, Unsending, Sents, Again>>
    BY <1>0, <2>1 DEF Sizes, Moved, Tally, Hits
  <2>3. Sizes'
    BY <2>1, SizesNext DEF Moved
  <2>4. Counting'
    BY <1>0, <1>1, <2>2, <2>3 DEF OnDataReceived, Sizes, Counting, LockOK, ReceiveOK, PhaseOK, SenderOK, Free, Held, Unlock
  <2>. QED BY <1>0, <1>1, <2>1, <2>2, <2>4, PlainStep DEF OnDataReceived, Free, Held, Unlock
<1>2. CASE Call(t, "close", "post")
  <2>1. Moved(t, "onData", "close", "post")
    BY <1>0, <1>2, Calls DEF OnDataReceived, Labels
  <2>2. /\ UNCHANGED <<Opening, Receiving, Filling, Sending, Submitting, Locking, Emptying,
                       Unsending, Sents, Again>>
        /\ Leaving' = Leaving + 1
    BY <1>0, <2>1 DEF Sizes, Moved, Tally, Hits
  <2>3. Sizes'
    BY <2>1, SizesNext DEF Moved
  <2>4. Counting'
    BY <1>0, <1>2, <2>2, <2>3 DEF OnDataReceived, Sizes, Counting, LockOK, ReceiveOK, PhaseOK, SenderOK, Free, Held, Unlock
  <2>. QED BY <1>0, <1>2, <2>1, <2>2, <2>4, PlainStep DEF OnDataReceived, Free, Held, Unlock
<1>3. CASE Call(t, "send", "post")
  <2>1. Moved(t, "onData", "send", "post")
    BY <1>0, <1>3, Calls DEF OnDataReceived, Labels
  <2>2. /\ UNCHANGED <<Opening, Receiving, Filling, Sending, Submitting, Locking, Leaving,
                       Emptying, Unsending, Sents, Again>>
    BY <1>0, <2>1 DEF Sizes, Moved, Tally, Hits
  <2>3. Sizes'
    BY <2>1, SizesNext DEF Moved
  <2>4. Counting'
    BY <1>0, <1>3, <2>2, <2>3 DEF OnDataReceived, Sizes, Counting, LockOK, ReceiveOK, PhaseOK, SenderOK, Free, Held, Unlock
  <2>. QED BY <1>0, <1>3, <2>1, <2>2, <2>4, PlainStep DEF OnDataReceived, Free, Held, Unlock
<1>. QED BY <1>0, <1>1, <1>2, <1>3 DEF OnDataReceived

LEMMA DispatchEndsStep ==
  ASSUME IInv, NEW t \in Threads, DispatchEnds(t)
  PROVE  IInv'
<1>. USE DEF None, Only, OpenLabels, ReceiveLabels, FillLabels, SendLabels, SubmitLabels, LockLabels,
             LeaveLabels, sendVars, connVars, ioVars
<1>0. /\ TypeOK /\ Counting /\ UnsendOK /\ FitOK /\ QueuesOK /\ BytesOK /\ Sizes
      /\ state \in {"Created", "Active", "Closing", "Closed"} /\ NoThread \notin Threads
      /\ receives \in Nat /\ Len(sends) \in Nat /\ isSending \in BOOLEAN
      /\ ioLock \in Threads \union {NoThread}
  BY SizesOK, RioSessionConstants DEF IInv, TypeOK, Threads
<1>1. CASE ioCount' = 0
  <2>1. Moved(t, "exit", "reachedZero", None)
    BY <1>0, <1>1, GoesOn DEF DispatchEnds, Labels
  <2>2. /\ UNCHANGED <<Opening, Receiving, Filling, Sending, Submitting, Locking, Leaving,
                       Emptying, Unsending, Sents, Again>>
    BY <1>0, <2>1 DEF Sizes, Moved, Tally, Hits
  <2>3. Sizes'
    BY <2>1, SizesNext DEF Moved
  <2>4. Counting'
    BY <1>0, <1>1, <2>2, <2>3 DEF DispatchEnds, Sizes, Counting, LockOK, ReceiveOK, PhaseOK, SenderOK, Free, Held, Unlock
  <2>. QED BY <1>0, <1>1, <2>1, <2>2, <2>4, PlainStep DEF DispatchEnds, Free, Held, Unlock
<1>2. CASE ioCount' # 0
  <2>1. Moved(t, "exit", None, None)
    BY <1>0, <1>2, Returns DEF DispatchEnds, Labels
  <2>2. /\ UNCHANGED <<Opening, Receiving, Filling, Sending, Submitting, Locking, Leaving,
                       Emptying, Unsending, Sents, Again>>
    BY <1>0, <2>1 DEF Sizes, Moved, Tally, Hits
  <2>3. Sizes'
    BY <2>1, SizesNext DEF Moved
  <2>4. Counting'
    BY <1>0, <1>2, <2>2, <2>3 DEF DispatchEnds, Sizes, Counting, LockOK, ReceiveOK, PhaseOK, SenderOK, Free, Held, Unlock
  <2>. QED BY <1>0, <1>2, <2>1, <2>2, <2>4, PlainStep DEF DispatchEnds, Free, Held, Unlock
<1>. QED BY <1>0, <1>1, <1>2 DEF DispatchEnds

LEMMA OnIoCountReachedZeroStep ==
  ASSUME IInv, NEW t \in Threads, OnIoCountReachedZero(t)
  PROVE  IInv'
<1>. USE DEF None, Only, OpenLabels, ReceiveLabels, FillLabels, SendLabels, SubmitLabels, LockLabels,
             LeaveLabels, sendVars, connVars, ioVars
<1>0. /\ TypeOK /\ Counting /\ UnsendOK /\ FitOK /\ QueuesOK /\ BytesOK /\ Sizes
      /\ state \in {"Created", "Active", "Closing", "Closed"} /\ NoThread \notin Threads
      /\ receives \in Nat /\ Len(sends) \in Nat /\ isSending \in BOOLEAN
      /\ ioLock \in Threads \union {NoThread}
  BY SizesOK, RioSessionConstants DEF IInv, TypeOK, Threads
<1>1. CASE state = "Closing"
  <2>1. Moved(t, "reachedZero", "finalize", None)
    BY <1>0, <1>1, GoesOn DEF OnIoCountReachedZero, Labels
  <2>2. /\ UNCHANGED <<Opening, Receiving, Filling, Sending, Submitting, Locking, Leaving,
                       Emptying, Unsending, Sents, Again>>
    BY <1>0, <2>1 DEF Sizes, Moved, Tally, Hits
  <2>3. Sizes'
    BY <2>1, SizesNext DEF Moved
  <2>4. Counting'
    BY <1>0, <1>1, <2>2, <2>3 DEF OnIoCountReachedZero, Sizes, Counting, LockOK, ReceiveOK, PhaseOK, SenderOK, Free, Held, Unlock
  <2>. QED BY <1>0, <1>1, <2>1, <2>2, <2>4, PlainStep DEF OnIoCountReachedZero, Free, Held, Unlock
<1>2. CASE state # "Closing"
  <2>1. Moved(t, "reachedZero", None, None)
    BY <1>0, <1>2, Returns DEF OnIoCountReachedZero, Labels
  <2>2. /\ UNCHANGED <<Opening, Receiving, Filling, Sending, Submitting, Locking, Leaving,
                       Emptying, Unsending, Sents, Again>>
    BY <1>0, <2>1 DEF Sizes, Moved, Tally, Hits
  <2>3. Sizes'
    BY <2>1, SizesNext DEF Moved
  <2>4. Counting'
    BY <1>0, <1>2, <2>2, <2>3 DEF OnIoCountReachedZero, Sizes, Counting, LockOK, ReceiveOK, PhaseOK, SenderOK, Free, Held, Unlock
  <2>. QED BY <1>0, <1>2, <2>1, <2>2, <2>4, PlainStep DEF OnIoCountReachedZero, Free, Held, Unlock
<1>. QED BY <1>0, <1>1, <1>2 DEF OnIoCountReachedZero

LEMMA TakeReceiveStep ==
  ASSUME IInv, NEW t \in Threads, TakeReceive(t)
  PROVE  IInv'
<1>. USE DEF None, Only, OpenLabels, ReceiveLabels, FillLabels, SendLabels, SubmitLabels, LockLabels,
             LeaveLabels, sendVars, connVars, ioVars
<1>0. /\ TypeOK /\ Counting /\ UnsendOK /\ FitOK /\ QueuesOK /\ BytesOK /\ Sizes
      /\ state \in {"Created", "Active", "Closing", "Closed"} /\ NoThread \notin Threads
      /\ receives \in Nat /\ Len(sends) \in Nat /\ isSending \in BOOLEAN
      /\ ioLock \in Threads \union {NoThread}
  BY SizesOK, RioSessionConstants DEF IInv, TypeOK, Threads
<1>1. CASE stack' = [stack EXCEPT ![t] = <<"gotData", "exit">>]
  <2>1. Moved(t, None, "gotData", "exit")
    BY <1>0, <1>1, Handles DEF TakeReceive, Labels
  <2>2. /\ UNCHANGED <<Opening, Filling, Sending, Submitting, Locking, Leaving, Emptying,
                       Unsending, Sents, Again>>
        /\ Receiving' = Receiving + 1
    BY <1>0, <2>1 DEF Sizes, Moved, Tally, Hits
  <2>3. Sizes'
    BY <2>1, SizesNext DEF Moved
  <2>4. Counting'
    BY <1>0, <1>1, <2>2, <2>3 DEF TakeReceive, Sizes, Counting, LockOK, ReceiveOK, PhaseOK, SenderOK, Free, Held, Unlock
  <2>. QED BY <1>0, <1>1, <2>1, <2>2, <2>4, PlainStep DEF TakeReceive, Free, Held, Unlock
<1>2. CASE stack' = [stack EXCEPT ![t] = <<"gotError", "exit">>]
  <2>1. Moved(t, None, "gotError", "exit")
    BY <1>0, <1>2, Handles DEF TakeReceive, Labels
  <2>2. /\ UNCHANGED <<Opening, Filling, Sending, Submitting, Locking, Leaving, Emptying,
                       Unsending, Sents, Again>>
        /\ Receiving' = Receiving + 1
    BY <1>0, <2>1 DEF Sizes, Moved, Tally, Hits
  <2>3. Sizes'
    BY <2>1, SizesNext DEF Moved
  <2>4. Counting'
    BY <1>0, <1>2, <2>2, <2>3 DEF TakeReceive, Sizes, Counting, LockOK, ReceiveOK, PhaseOK, SenderOK, Free, Held, Unlock
  <2>. QED BY <1>0, <1>2, <2>1, <2>2, <2>4, PlainStep DEF TakeReceive, Free, Held, Unlock
<1>. QED BY <1>0, <1>1, <1>2 DEF TakeReceive

LEMMA UserCallsStep ==
  ASSUME IInv, NEW t \in Threads, UserCalls(t)
  PROVE  IInv'
<1>. USE DEF None, Only, OpenLabels, ReceiveLabels, FillLabels, SendLabels, SubmitLabels, LockLabels,
             LeaveLabels, sendVars, connVars, ioVars
<1>0. /\ TypeOK /\ Counting /\ UnsendOK /\ FitOK /\ QueuesOK /\ BytesOK /\ Sizes
      /\ state \in {"Created", "Active", "Closing", "Closed"} /\ NoThread \notin Threads
      /\ receives \in Nat /\ Len(sends) \in Nat /\ isSending \in BOOLEAN
      /\ ioLock \in Threads \union {NoThread}
  BY SizesOK, RioSessionConstants DEF IInv, TypeOK, Threads
<1>1. CASE stack' = [stack EXCEPT ![t] = <<"send">>]
  <2>1. Moved(t, None, "send", None)
    BY <1>0, <1>1, Begins DEF UserCalls, Labels
  <2>2. /\ UNCHANGED <<Opening, Receiving, Filling, Sending, Submitting, Locking, Leaving,
                       Emptying, Unsending, Sents, Again>>
    BY <1>0, <2>1 DEF Sizes, Moved, Tally, Hits
  <2>3. Sizes'
    BY <2>1, SizesNext DEF Moved
  <2>4. Counting'
    BY <1>0, <1>1, <2>2, <2>3 DEF UserCalls, Sizes, Counting, LockOK, ReceiveOK, PhaseOK, SenderOK, Free, Held, Unlock
  <2>. QED BY <1>0, <1>1, <2>1, <2>2, <2>4, PlainStep DEF UserCalls, Free, Held, Unlock
<1>2. CASE stack' = [stack EXCEPT ![t] = <<"close">>]
  <2>1. Moved(t, None, "close", None)
    BY <1>0, <1>2, Begins DEF UserCalls, Labels
  <2>2. /\ UNCHANGED <<Opening, Receiving, Filling, Sending, Submitting, Locking, Emptying,
                       Unsending, Sents, Again>>
        /\ Leaving' = Leaving + 1
    BY <1>0, <2>1 DEF Sizes, Moved, Tally, Hits
  <2>3. Sizes'
    BY <2>1, SizesNext DEF Moved
  <2>4. Counting'
    BY <1>0, <1>2, <2>2, <2>3 DEF UserCalls, Sizes, Counting, LockOK, ReceiveOK, PhaseOK, SenderOK, Free, Held, Unlock
  <2>. QED BY <1>0, <1>2, <2>1, <2>2, <2>4, PlainStep DEF UserCalls, Free, Held, Unlock
<1>. QED BY <1>0, <1>1, <1>2 DEF UserCalls

(* Where a thread is, is counted.                                            *)
LEMMA AtCounts ==
  ASSUME TypeOK, NEW t \in Threads, NEW label, At(t, label)
  PROVE  /\ label \in FillLabels => Filling > 0
         /\ label \in SendLabels => Sending > 0
         /\ label \in SubmitLabels => Submitting > 0
         /\ label \in OpenLabels => Opening > 0
         /\ label = "flushNothing" => Emptying > 0
         /\ label = "unsend" => Unsending > 0
         /\ label = "sent" => Sents > 0
<1>1. stack[t] \in Seq(Labels) /\ stack[t] # <<>> /\ Head(stack[t]) = label
  BY DEF TypeOK, At
<1>2. 1 \in DOMAIN stack[t] /\ stack[t][1] = label
  BY <1>1
<1>3. \A L : label \in L => Frames(L) > 0
  BY <1>2, WithinCounts DEF Within
<1>. QED BY <1>3 DEF Filling, Sending, Submitting, Opening, Emptying, Unsending, Sents, Only

(* Nobody who waits to send cleans up while the session is not active.       *)
LEMMA NobodyUnsends ==
  ASSUME stack' \in [Threads -> Seq(Labels)], Unsending' = 0
  PROVE  \A u \in Threads : Closes(stack'[u])
<1>1. "unsend" \in Only("unsend") /\ Frames(Only("unsend"))' = 0
  BY DEF Only, Unsending
<1>2. ASSUME NEW u \in Threads, NEW i \in DOMAIN stack'[u], stack'[u][i] = "unsend" PROVE FALSE
  <2>1. Within(u, "unsend")'
    BY <1>2 DEF Within
  <2>2. Frames(Only("unsend"))' > 0
    BY <1>1, <2>1, WithinCountsNext
  <2>. QED BY <1>1, <2>2
<1>. QED BY <1>2 DEF Closes

LEMMA SessionOpenedStep ==
  ASSUME IInv, NEW t \in Threads, SessionOpened(t)
  PROVE  IInv'
<1>. USE DEF None, Only, OpenLabels, ReceiveLabels, FillLabels, SendLabels, SubmitLabels, LockLabels,
             LeaveLabels, sendVars, connVars, ioVars
<1>0. /\ TypeOK /\ Counting /\ UnsendOK /\ FitOK /\ QueuesOK /\ BytesOK /\ Sizes
      /\ receives \in Nat
  BY SizesOK DEF IInv, TypeOK
<1>1. Moved(t, "init", "onConnected", None)
  BY <1>0, GoesOn DEF SessionOpened, Labels
<1>2. /\ UNCHANGED <<Receiving, Filling, Sending, Submitting, Locking, Leaving, Emptying,
                     Unsending, Sents, Again>>
      /\ Opening' = Opening - 1
  BY <1>0, <1>1 DEF Sizes, Moved, Tally, Hits
<1>3. Sizes' /\ stack' \in [Threads -> Seq(Labels)]
  BY <1>1, SizesNext DEF Moved
<1>4. /\ state' = "Active" /\ ring' = <<>> /\ isSending' = FALSE
      /\ UNCHANGED <<ioLock, receives, sends, overflow, accepted, wire, segment>>
  BY DEF SessionOpened
<1>5. /\ Sending = 0 /\ Unsending = 0 /\ sends = <<>> /\ overflow = <<>> /\ accepted = 0 /\ wire = <<>>
      /\ Submitting = 0 /\ Opening' = 0
  <2>1. Opening > 0
    BY <1>0, AtCounts DEF SessionOpened
  <2>. QED BY <1>0, <1>2, <2>1 DEF Counting, PhaseOK, ReceiveOK, Sizes
<1>6. TypeOK'
  <2>1. <<>> \in Seq(Nat)
    OBVIOUS
  <2>2. ring' \in Seq(Nat) /\ isSending' \in BOOLEAN /\ state' \in {"Created", "Active", "Closing", "Closed"}
    BY <1>4, <2>1
  <2>. QED BY <1>0, <1>3, <1>4, <2>2 DEF TypeOK
<1>7. Counting'
  <2>1. LockOK' /\ ReceiveOK'
    BY <1>0, <1>2, <1>4 DEF Counting, LockOK, ReceiveOK
  <2>2. Len(sends') = 0
    BY <1>4, <1>5
  <2>3. PhaseOK' /\ SenderOK'
    BY <1>0, <1>2, <1>3, <1>4, <1>5, <2>2 DEF Counting, PhaseOK, SenderOK, Sizes
  <2>. QED BY <2>1, <2>3 DEF Counting
<1>8. UnsendOK'
  BY <1>2, <1>3, <1>5, NobodyUnsends DEF UnsendOK
<1>9. FitOK' /\ QueuesOK' /\ Base' = 0
  <2>1. /\ DOMAIN ring' = {} /\ Len(ring') = 0 /\ DOMAIN overflow' = {} /\ Len(overflow') = 0
        /\ overflow' = <<>> /\ 0..0 - 1 = {}
    BY <1>4, <1>5
  <2>2. Base' = 0
    <3>1. Base' = accepted' - Len(overflow') - Len(ring') /\ accepted' = 0
      BY <1>4, <1>5 DEF Base
    <3>2. \A x, y, z : x = 0 /\ y = 0 /\ z = 0 => x - y - z = 0
      OBVIOUS
    <3>3. accepted' - Len(overflow') - Len(ring') = 0
      BY <2>1, <3>1, <3>2
    <3>. QED BY <3>1, <3>3
  <2>. QED BY <2>1, <2>2 DEF FitOK, QueuesOK, Numbered, Fitting
<1>10. BytesOK'
  <2>1. /\ wire' = <<>> /\ Len(wire') = 0 /\ DOMAIN wire' = {} /\ DOMAIN sends' = {}
    BY <1>4, <1>5
  <2>2. \A u \in Threads : ~ Within(u, "sent")' /\ ~ Within(u, "submitSend")'
    BY <1>2, <1>3, <1>5, NobodySends
  <2>. QED BY <1>9, <2>1, <2>2, BytesAlone DEF Numbered
<1>. QED BY <1>6, <1>7, <1>8, <1>9, <1>10 DEF IInv

LEMMA SendStep ==
  ASSUME IInv, NEW t \in Threads, Send(t)
  PROVE  IInv'
<1>. USE DEF None, Only, OpenLabels, ReceiveLabels, FillLabels, SendLabels, SubmitLabels, LockLabels,
             LeaveLabels, sendVars, connVars, ioVars
<1>0. /\ TypeOK /\ Counting /\ UnsendOK /\ FitOK /\ QueuesOK /\ BytesOK /\ Sizes
      /\ state \in {"Created", "Active", "Closing", "Closed"} /\ NoThread \notin Threads
      /\ receives \in Nat /\ Len(sends) \in Nat /\ isSending \in BOOLEAN
      /\ ioLock \in Threads \union {NoThread}
  BY SizesOK, RioSessionConstants DEF IInv, TypeOK, Threads
<1>1. CASE state = "Active"
  <2>0. At(t, "send") /\ UNCHANGED <<state, ioLock, receives, sends, wire, segment>> /\ isSending' = TRUE
    BY <1>1 DEF Send
  <2>1. PICK size \in 1..RingSize :
          accepted' = accepted + size /\ Queue([i \in 1..size |-> accepted + i])
    BY <1>1 DEF Send
  <2>2. overflow # <<>> => ring # <<>>
    BY <1>0 DEF Counting, SenderOK
  <2>3. /\ ring' \in Seq(Nat) /\ overflow' \in Seq(Item) /\ accepted' \in Nat
        /\ FitOK' /\ QueuesOK' /\ Base' = Base
        /\ Len(ring) <= Len(ring)' /\ ring' # <<>>
    BY ONLY <1>0, <2>1, <2>2, SendQueues
  <2>4. \/ isSending /\ Moved(t, "send", None, None)
        \/ ~ isSending /\ Moved(t, "send", "flush", None)
    <3>1. CASE isSending
      BY <1>0, <1>1, <2>0, <3>1, Returns DEF Send
    <3>2. CASE ~ isSending
      BY <1>0, <1>1, <2>0, <3>2, GoesOn DEF Send, Labels
    <3>. QED BY <3>1, <3>2
  <2>5. /\ UNCHANGED <<Opening, Receiving, Submitting, Locking, Leaving, Emptying, Unsending, Sents>>
        /\ \/ isSending /\ Sending' = Sending
           \/ ~ isSending /\ Sending' = Sending + 1
    BY <1>0, <2>4 DEF Sizes, Moved, Tally, Hits
  <2>6. Sizes' /\ stack' \in [Threads -> Seq(Labels)]
    BY <2>4, SizesNext DEF Moved
  <2>7. TypeOK'
    BY <1>0, <2>0, <2>3, <2>6 DEF TypeOK
  <2>8. Counting'
    <3>1. LockOK' /\ ReceiveOK'
      BY <1>0, <2>0, <2>5 DEF Counting, LockOK, ReceiveOK
    <3>2. PhaseOK'
      BY <1>0, <1>1, <2>0, <2>5 DEF Counting, PhaseOK
    <3>3. SenderOK'
      <4>1. /\ Sending \in Nat /\ Sending' \in Nat /\ Leaving \in Nat /\ Len(sends') = Len(sends)
            /\ Leaving' = Leaving /\ Emptying' = 0
            /\ Sending + Len(sends) <= 1
            /\ Sending + Len(sends) > 0 => isSending
            /\ isSending => Sending + Len(sends) > 0 \/ Leaving > 0
        BY <1>0, <1>1, <2>0, <2>5, <2>6 DEF Counting, SenderOK, Sizes
      <4>2. Sending' + Len(sends') <= 1 /\ (Sending' + Len(sends') > 0 \/ Leaving' > 0)
        BY ONLY <1>0, <2>5, <4>1
      <4>. QED BY <2>0, <2>3, <4>1, <4>2 DEF SenderOK
    <3>. QED BY <3>1, <3>2, <3>3 DEF Counting
  <2>9. UnsendOK'
    BY <1>0, <1>1, <2>4 DEF UnsendOK, Moved
  <2>10. BytesOK'
    <3>1. \A u \in Threads : \A l \in {"sent", "submitSend"} :
            Within(u, l)' => Within(u, l) /\ segment'[u] = segment[u]
      BY <2>0, <2>4 DEF Moved
    <3>2. UNCHANGED <<wire, sends>> /\ Sents' = Sents
      BY <2>0, <2>5
    <3>. QED BY ONLY <1>0, <1>1, <2>3, <3>1, <3>2, BytesKept
  <2>. QED BY <2>3, <2>7, <2>8, <2>9, <2>10 DEF IInv
<1>2. CASE state # "Active"
  <2>1. Moved(t, "send", None, None)
    BY <1>0, <1>2, Returns DEF Send, Labels
  <2>2. /\ UNCHANGED <<Opening, Receiving, Filling, Sending, Submitting, Locking, Leaving,
                       Emptying, Unsending, Sents, Again>>
    BY <1>0, <2>1 DEF Sizes, Moved, Tally, Hits
  <2>3. Sizes'
    BY <2>1, SizesNext DEF Moved
  <2>4. Counting'
    BY <1>0, <1>2, <2>2, <2>3 DEF Send, Sizes, Counting, LockOK, ReceiveOK, PhaseOK, SenderOK, Free, Held, Unlock
  <2>. QED BY <1>0, <1>2, <2>1, <2>2, <2>4, PlainStep DEF Send, Free, Held, Unlock
<1>. QED BY <1>0, <1>1, <1>2

LEMMA GetSendBuffersStep ==
  ASSUME IInv, NEW t \in Threads, GetSendBuffers(t)
  PROVE  IInv'
<1>. USE DEF None, Only, OpenLabels, ReceiveLabels, FillLabels, SendLabels, SubmitLabels, LockLabels,
             LeaveLabels, sendVars, connVars, ioVars
<1>0. /\ TypeOK /\ Counting /\ UnsendOK /\ FitOK /\ QueuesOK /\ BytesOK /\ Sizes
      /\ receives \in Nat /\ Len(sends) \in Nat /\ isSending \in BOOLEAN
  BY SizesOK DEF IInv, TypeOK
<1>1. /\ Filling > 0 /\ Sending > 0 /\ Submitting > 0
  BY <1>0, AtCounts DEF GetSendBuffers
<1>2. /\ Filling = 1 /\ Sending = 1 /\ Sents = 0 /\ sends = <<>> /\ state = "Active" /\ ring # <<>>
  <2>1. /\ Sending + Len(sends) <= 1 /\ state = "Active"
    BY <1>0, <1>1 DEF Counting, SenderOK, PhaseOK
  <2>2. Sending = 1 /\ Len(sends) = 0 /\ Filling = 1 /\ Sents = 0
    BY <1>0, <1>1, <2>1 DEF Sizes
  <2>3. ring # <<>>
    BY <1>0, <2>1, <2>2 DEF Counting, SenderOK
  <2>4. sends \in Seq(Seq(Nat))
    BY <1>0 DEF TypeOK
  <2>. QED BY <2>1, <2>2, <2>3, <2>4
<1>3. PICK n \in 1..Len(ring) : segment' = [segment EXCEPT ![t] = SubSeq(ring, 1, n)]
  BY <1>2 DEF GetSendBuffers
<1>4. UNCHANGED <<state, ioLock, receives, sends, ring, overflow, isSending, accepted, wire>>
  BY DEF GetSendBuffers, Held
<1>5. Moved(t, "segments", "submitSend", None)
  BY <1>0, <1>2, GoesOn DEF GetSendBuffers, Labels
<1>6. /\ UNCHANGED <<Opening, Receiving, Filling, Sending, Submitting, Locking, Leaving,
                     Emptying, Unsending, Sents, Again>>
  BY <1>0, <1>5 DEF Sizes, Moved, Tally, Hits
<1>7. stack' \in [Threads -> Seq(Labels)]
  BY <1>5 DEF Moved
<1>8. /\ SubSeq(ring, 1, n) \in Seq(Nat) /\ Len(SubSeq(ring, 1, n)) = n /\ n <= Len(ring)
      /\ Numbered(SubSeq(ring, 1, n), Len(wire))
  <2>1. ring \in Seq(Nat) /\ Len(ring) \in Nat /\ n \in Nat /\ n <= Len(ring) /\ Len(wire) \in Nat
    BY <1>0 DEF TypeOK
  <2>2. Base = Len(wire) /\ Numbered(ring, Base)
    BY <1>0, <1>2 DEF BytesOK, QueuesOK
  <2>3. /\ SubSeq(ring, 0 + 1, n) \in Seq(Nat) /\ Len(SubSeq(ring, 0 + 1, n)) = n - 0
        /\ Numbered(SubSeq(ring, 0 + 1, n), Len(wire) + 0)
    <3>1. Len(wire) \in Int /\ 0 \in Nat /\ 0 <= n /\ Numbered(ring, Len(wire))
      BY <2>1, <2>2
    <3>. QED BY ONLY <2>1, <3>1, NumberedPart
  <2>4. 0 + 1 = 1 /\ n - 0 = n /\ Len(wire) + 0 = Len(wire)
    BY <2>1
  <2>. QED BY ONLY <2>1, <2>3, <2>4
<1>9. segment' \in [Threads -> Seq(Nat)] /\ segment'[t] = SubSeq(ring, 1, n)
      /\ \A u \in Threads \ {t} : segment'[u] = segment[u]
  BY <1>0, <1>3, <1>8 DEF TypeOK
<1>10. TypeOK'
  BY <1>0, <1>4, <1>7, <1>9 DEF TypeOK
<1>11. Counting'
  BY <1>0, <1>4, <1>6 DEF Counting, LockOK, ReceiveOK, PhaseOK, SenderOK
<1>12. UnsendOK'
  BY <1>0, <1>2, <1>5 DEF UnsendOK, Moved
<1>13. FitOK' /\ QueuesOK' /\ Base' = Base
  BY <1>0, <1>4 DEF FitOK, QueuesOK, Base, Numbered, Fitting, Starts
<1>14. BytesOK'
  <2>1. \A u \in Threads : ~ Within(u, "sent")'
    <3>1. "sent" \in Only("sent") /\ Frames(Only("sent"))' = 0
      BY <1>2, <1>6 DEF Sents
    <3>2. ASSUME NEW u \in Threads, Within(u, "sent")' PROVE FALSE
      <4>1. Frames(Only("sent"))' > 0
        BY <1>7, <3>1, <3>2, WithinCountsNext
      <4>. QED BY <3>1, <4>1
    <3>. QED BY <3>2
  <2>2. ASSUME NEW u \in Threads, Within(u, "submitSend")'
        PROVE  Numbered(segment'[u], Len(wire)) /\ Len(segment'[u]) <= Len(ring)
    <3>1. CASE u = t
      BY <1>8, <1>9, <3>1
    <3>2. CASE u # t
      BY <1>0, <1>5, <1>9, <2>2, <3>2 DEF Moved, BytesOK
    <3>. QED BY <3>1, <3>2
  <2>3. Numbered(wire, 0) /\ Base = Len(wire) /\ DOMAIN sends = {}
    BY <1>0, <1>2 DEF BytesOK
  <2>. QED BY <1>4, <1>13, <2>1, <2>2, <2>3 DEF BytesOK, Numbered
<1>. QED BY <1>10, <1>11, <1>12, <1>13, <1>14 DEF IInv

(* A sender that holds the lock always finds bytes in the ring.              *)
LEMMA FlushNothingStep ==
  ASSUME IInv, NEW t \in Threads, FlushNothing(t)
  PROVE  IInv'
<1>1. Emptying > 0 /\ Emptying = 0
  BY AtCounts DEF FlushNothing, IInv, Counting, SenderOK
<1>. QED BY <1>1

LEMMA SubmitSendStep ==
  ASSUME IInv, NEW t \in Threads, SubmitSend(t)
  PROVE  IInv'
<1>. USE DEF None, Only, OpenLabels, ReceiveLabels, FillLabels, SendLabels, SubmitLabels, LockLabels,
             LeaveLabels, sendVars, connVars, ioVars
<1>0. /\ TypeOK /\ Counting /\ UnsendOK /\ FitOK /\ QueuesOK /\ BytesOK /\ Sizes
      /\ NoThread \notin Threads /\ sends \in Seq(Seq(Nat))
      /\ segment \in [Threads -> Seq(Nat)] /\ receives \in Nat /\ Len(sends) \in Nat
  BY SizesOK, RioSessionConstants DEF IInv, TypeOK, Threads
<1>1. At(t, "submitSend")
  BY DEF SubmitSend
<1>2. Filling > 0 /\ Sending > 0 /\ Submitting > 0
  BY <1>0, <1>1, AtCounts
<1>3. Sending = 1 /\ Sents = 0 /\ sends = <<>> /\ state = "Active" /\ isSending /\ ring # <<>> /\ Emptying = 0
  <2>1. Sending + Len(sends) <= 1 /\ state = "Active" /\ Emptying = 0
    BY <1>0, <1>2 DEF Counting, SenderOK, PhaseOK
  <2>2. Sending = 1 /\ Len(sends) = 0 /\ Sents = 0
    BY <1>0, <1>2, <2>1 DEF Sizes
  <2>. QED BY <1>0, <1>2, <2>1, <2>2 DEF Counting, SenderOK
<1>4. /\ sends' = Append(sends, segment[t]) /\ segment' = [segment EXCEPT ![t] = <<>>]
      /\ UNCHANGED <<state, receives, ring, overflow, isSending, accepted, wire>> /\ Unlock(t)
  BY DEF SubmitSend
<1>5. sends' = <<segment[t]>> /\ Len(sends') = 1 /\ segment[t] \in Seq(Nat)
  BY <1>0, <1>3, <1>4
<1>6. Moved(t, "submitSend", None, None)
  BY <1>0, <1>1, Returns DEF SubmitSend
<1>7. /\ UNCHANGED <<Opening, Receiving, Leaving, Emptying, Unsending, Sents, Again>>
      /\ Filling' = Filling - 1 /\ Sending' = Sending - 1
      /\ Submitting' = Submitting - 1 /\ Locking' = Locking - 1
  BY <1>0, <1>6 DEF Sizes, Moved, Tally, Hits
<1>8. Sizes' /\ stack' \in [Threads -> Seq(Labels)]
  BY <1>6, SizesNext DEF Moved
<1>9. TypeOK'
  <2>1. <<>> \in Seq(Nat) /\ sends' \in Seq(Seq(Nat))
    BY <1>5
  <2>2. segment' \in [Threads -> Seq(Nat)]
    BY <1>0, <1>4, <2>1
  <2>. QED BY <1>0, <1>4, <1>8, <2>1, <2>2 DEF TypeOK, Unlock
<1>10. Counting'
  <2>1. LockOK'
    BY <1>0, <1>4, <1>7 DEF Counting, LockOK, Unlock
  <2>2. ReceiveOK' /\ PhaseOK'
    BY <1>0, <1>3, <1>4, <1>7 DEF Counting, ReceiveOK, PhaseOK
  <2>3. Sending' = 0 /\ Sending' + Len(sends') = 1
    BY <1>3, <1>5, <1>7
  <2>4. SenderOK'
    BY <1>3, <1>4, <1>7, <2>3 DEF SenderOK
  <2>. QED BY <2>1, <2>2, <2>4 DEF Counting
<1>11. UnsendOK'
  BY <1>0, <1>3, <1>6 DEF UnsendOK, Moved
<1>12. FitOK' /\ QueuesOK' /\ Base' = Base
  BY <1>0, <1>4 DEF FitOK, QueuesOK, Base, Numbered, Fitting, Starts
<1>13. BytesOK'
  <2>1. \A u \in Threads : ~ Within(u, "sent")' /\ ~ Within(u, "submitSend")'
    BY <1>3, <1>7, <1>8, NobodySends
  <2>2. Numbered(segment[t], Len(wire)) /\ Len(segment[t]) <= Len(ring)
    BY <1>0, <1>1, SegmentAt
  <2>3. Base = Len(wire) /\ Numbered(wire, 0)
    BY <1>0, <1>3 DEF BytesOK
  <2>4. DOMAIN sends' = {1} /\ sends'[1] = segment[t]
    BY <1>5
  <2>. QED BY <1>4, <1>12, <2>1, <2>2, <2>3, <2>4, BytesAlone DEF Numbered
<1>. QED BY <1>9, <1>10, <1>11, <1>12, <1>13 DEF IInv

LEMMA SubmitSendFailsStep ==
  ASSUME IInv, NEW t \in Threads, SubmitSendFails(t)
  PROVE  IInv'
<1>. USE DEF None, Only, OpenLabels, ReceiveLabels, FillLabels, SendLabels, SubmitLabels, LockLabels,
             LeaveLabels, sendVars, connVars, ioVars
<1>0. /\ TypeOK /\ Counting /\ UnsendOK /\ FitOK /\ QueuesOK /\ BytesOK /\ Sizes
      /\ NoThread \notin Threads /\ sends \in Seq(Seq(Nat))
      /\ segment \in [Threads -> Seq(Nat)] /\ receives \in Nat /\ Len(sends) \in Nat
  BY SizesOK, RioSessionConstants DEF IInv, TypeOK, Threads
<1>1. At(t, "submitSend")
  BY DEF SubmitSendFails
<1>2. Filling > 0 /\ Sending > 0 /\ Submitting > 0
  BY <1>0, <1>1, AtCounts
<1>3. Sending = 1 /\ Sents = 0 /\ sends = <<>> /\ state = "Active" /\ isSending /\ ring # <<>> /\ Emptying = 0
  <2>1. Sending + Len(sends) <= 1 /\ state = "Active" /\ Emptying = 0
    BY <1>0, <1>2 DEF Counting, SenderOK, PhaseOK
  <2>2. Sending = 1 /\ Len(sends) = 0 /\ Sents = 0
    BY <1>0, <1>2, <2>1 DEF Sizes
  <2>. QED BY <1>0, <1>2, <2>1, <2>2 DEF Counting, SenderOK
<1>4. /\ segment' = [segment EXCEPT ![t] = <<>>]
      /\ UNCHANGED <<state, receives, sends, ring, overflow, isSending, accepted, wire>> /\ Unlock(t)
  BY DEF SubmitSendFails
<1>5. Moved(t, "submitSend", "close", "unsend")
  BY <1>0, <1>1, Calls DEF SubmitSendFails, Labels
<1>6. /\ UNCHANGED <<Opening, Receiving, Emptying, Sents, Again>>
      /\ Filling' = Filling - 1 /\ Sending' = Sending - 1
      /\ Submitting' = Submitting - 1 /\ Locking' = Locking - 1
      /\ Leaving' = Leaving + 1 /\ Unsending' = Unsending + 1
  BY <1>0, <1>5 DEF Sizes, Moved, Tally, Hits
<1>7. Sizes' /\ stack' \in [Threads -> Seq(Labels)]
  BY <1>5, SizesNext DEF Moved
<1>8. TypeOK'
  <2>1. <<>> \in Seq(Nat)
    OBVIOUS
  <2>2. segment' \in [Threads -> Seq(Nat)]
    BY <1>0, <1>4, <2>1
  <2>. QED BY <1>0, <1>4, <1>7, <2>2 DEF TypeOK, Unlock
<1>9. Counting'
  <2>1. LockOK'
    BY <1>0, <1>4, <1>6 DEF Counting, LockOK, Unlock
  <2>2. ReceiveOK' /\ PhaseOK'
    BY <1>0, <1>3, <1>4, <1>6 DEF Counting, ReceiveOK, PhaseOK
  <2>3. Sending' = 0 /\ Len(sends') = 0 /\ Leaving' > 0
    BY <1>0, <1>3, <1>4, <1>6 DEF Sizes
  <2>4. SenderOK'
    BY <1>3, <1>4, <1>6, <2>3 DEF SenderOK
  <2>. QED BY <2>1, <2>2, <2>4 DEF Counting
<1>10. UnsendOK'
  BY <1>0, <1>3, <1>5 DEF UnsendOK, Moved
<1>11. FitOK' /\ QueuesOK' /\ Base' = Base
  BY <1>0, <1>4 DEF FitOK, QueuesOK, Base, Numbered, Fitting, Starts
<1>12. BytesOK'
  <2>1. \A u \in Threads : ~ Within(u, "sent")' /\ ~ Within(u, "submitSend")'
    BY <1>3, <1>6, <1>7, NobodySends
  <2>2. Base = Len(wire) /\ Numbered(wire, 0) /\ DOMAIN sends' = {}
    BY <1>0, <1>3, <1>4 DEF BytesOK
  <2>. QED BY <1>4, <1>11, <2>1, <2>2, BytesAlone DEF Numbered
<1>. QED BY <1>8, <1>9, <1>10, <1>11, <1>12 DEF IInv

LEMMA UnsendStep ==
  ASSUME IInv, NEW t \in Threads, Unsend(t)
  PROVE  IInv'
<1>. USE DEF None, Only, OpenLabels, ReceiveLabels, FillLabels, SendLabels, SubmitLabels, LockLabels,
             LeaveLabels, sendVars, connVars, ioVars
<1>0. /\ TypeOK /\ Counting /\ UnsendOK /\ FitOK /\ QueuesOK /\ BytesOK /\ Sizes
      /\ receives \in Nat /\ Len(sends) \in Nat
  BY SizesOK DEF IInv, TypeOK
<1>1. At(t, "unsend") /\ isSending' = FALSE
      /\ UNCHANGED <<state, ioLock, receives, sends, ring, overflow, accepted, wire, segment>>
  BY DEF Unsend
<1>2. state # "Active" /\ state # "Created"
  <2>1. stack[t] \in Seq(Labels) /\ stack[t] # <<>> /\ Head(stack[t]) = "unsend"
    BY <1>0, <1>1 DEF TypeOK, At
  <2>2. 1 \in DOMAIN stack[t] /\ stack[t][1] = "unsend"
    BY <2>1
  <2>3. ~ Closes(stack[t])
    BY <2>2 DEF Closes
  <2>4. Unsending > 0
    BY <1>0, <1>1, AtCounts
  <2>. QED BY <1>0, <2>3, <2>4 DEF UnsendOK, Counting, PhaseOK
<1>3. Moved(t, "unsend", None, None)
  BY <1>0, <1>1, Returns DEF Unsend
<1>4. /\ UNCHANGED <<Opening, Receiving, Filling, Sending, Submitting, Locking, Leaving, Emptying,
                     Sents, Again>>
      /\ Unsending' = Unsending - 1
  BY <1>0, <1>3 DEF Sizes, Moved, Tally, Hits
<1>5. stack' \in [Threads -> Seq(Labels)]
  BY <1>3 DEF Moved
<1>6. TypeOK'
  BY <1>0, <1>1, <1>5 DEF TypeOK
<1>7. Counting'
  BY <1>0, <1>1, <1>2, <1>4 DEF Counting, LockOK, ReceiveOK, PhaseOK, SenderOK
<1>8. UnsendOK'
  BY <1>1, <1>2 DEF UnsendOK
<1>9. FitOK' /\ QueuesOK' /\ Base' = Base
  BY <1>0, <1>1 DEF FitOK, QueuesOK, Base, Numbered, Fitting, Starts
<1>10. BytesOK'
  <2>1. \A u \in Threads : \A l \in {"sent", "submitSend"} :
          Within(u, l)' => Within(u, l) /\ segment'[u] = segment[u]
    BY <1>1, <1>3 DEF Moved
  <2>2. Len(ring) <= Len(ring)' /\ ring' \in Seq(Nat)
    BY <1>0, <1>1 DEF TypeOK
  <2>. QED BY <1>0, <1>1, <1>4, <1>9, <2>1, <2>2, BytesKept
<1>. QED BY <1>6, <1>7, <1>8, <1>9, <1>10 DEF IInv

(* A thread that handles the completion of a send is the only sender.        *)
LEMMA SentAlone ==
  ASSUME IInv, NEW t \in Threads, At(t, "sent")
  PROVE  Sending = 1 /\ Sents = 1 /\ Filling = 0 /\ Emptying = 0 /\ sends = <<>> /\ state # "Created"
<1>1. TypeOK /\ Sizes /\ SenderOK /\ PhaseOK /\ sends \in Seq(Seq(Nat)) /\ Len(sends) \in Nat
  BY SizesOK DEF IInv, Counting, TypeOK
<1>2. Sents > 0 /\ Sending > 0
  BY <1>1, AtCounts DEF SendLabels
<1>3. Sending = 1 /\ Sents = 1 /\ Filling = 0 /\ Emptying = 0 /\ Len(sends) = 0
  BY <1>1, <1>2 DEF Sizes, SenderOK
<1>. QED BY <1>1, <1>2, <1>3 DEF PhaseOK

(* After the one completion is handled nobody has a segment of the ring.     *)
LEMMA NobodyAfterSent ==
  ASSUME TypeOK, NEW t \in Threads, NEW b, b # "submitSend", b # "sent",
         Moved(t, "sent", b, None), Filling = 0, Sents' = 0
  PROVE  \A u \in Threads : ~ Within(u, "sent")' /\ ~ Within(u, "submitSend")'
<1>1. /\ stack' \in [Threads -> Seq(Labels)]
      /\ "sent" \in Only("sent") /\ Frames(Only("sent"))' = 0
      /\ "submitSend" \in FillLabels /\ Frames(FillLabels) = 0
  BY DEF Moved, Only, Sents, Filling, FillLabels
<1>2. ASSUME NEW u \in Threads, Within(u, "sent")' PROVE FALSE
  <2>1. Frames(Only("sent"))' > 0
    BY <1>1, <1>2, WithinCountsNext
  <2>. QED BY <1>1, <2>1
<1>3. ASSUME NEW u \in Threads, Within(u, "submitSend")' PROVE FALSE
  <2>1. Within(u, "submitSend")
    BY <1>3 DEF Moved, None
  <2>2. Frames(FillLabels) > 0
    BY <1>1, <2>1, WithinCounts
  <2>. QED BY <1>1, <2>2
<1>. QED BY <1>2, <1>3

LEMMA OnSendCompletedStep ==
  ASSUME IInv, NEW t \in Threads, OnSendCompleted(t)
  PROVE  IInv'
<1>. USE DEF None, Only, OpenLabels, ReceiveLabels, FillLabels, SendLabels, SubmitLabels, LockLabels,
             LeaveLabels, sendVars, connVars, ioVars
<1>0. /\ TypeOK /\ Counting /\ UnsendOK /\ FitOK /\ QueuesOK /\ BytesOK /\ Sizes
      /\ segment \in [Threads -> Seq(Nat)] /\ receives \in Nat /\ Len(sends) \in Nat
  BY SizesOK DEF IInv, TypeOK
<1>1. /\ At(t, "sent") /\ state = "Active" /\ Refill(Unsent(t))
      /\ isSending' = (ring' # <<>> \/ overflow' # <<>>)
      /\ segment' = [segment EXCEPT ![t] = <<>>]
      /\ UNCHANGED <<state, ioLock, receives, sends, accepted, wire>>
      /\ IF isSending' THEN Goto(t, "flush") ELSE Return(t)
  BY DEF OnSendCompleted
<1>2. Sending = 1 /\ Sents = 1 /\ Filling = 0 /\ Emptying = 0 /\ sends = <<>>
  BY <1>1, SentAlone
<1>3. Len(segment[t]) <= Len(ring) /\ Base = Len(wire) - Len(segment[t])
  BY <1>0, <1>1, SegmentAt
<1>4. /\ ring' \in Seq(Nat) /\ overflow' \in Seq(Item)
      /\ FitOK' /\ QueuesOK' /\ Base' = Base + Len(segment[t])
      /\ overflow' # <<>> => ring' # <<>>
  BY <1>0, <1>1, <1>3, CompletedQueues
<1>5. isSending' \in BOOLEAN /\ (isSending' <=> ring' # <<>>)
  BY <1>1, <1>4
<1>6. \/ isSending' /\ Moved(t, "sent", "flush", None)
      \/ ~ isSending' /\ Moved(t, "sent", None, None)
  <2>1. CASE isSending'
    BY <1>0, <1>1, <2>1, GoesOn DEF Labels
  <2>2. CASE ~ isSending'
    BY <1>0, <1>1, <2>2, Returns
  <2>. QED BY <2>1, <2>2
<1>7. /\ UNCHANGED <<Opening, Receiving, Submitting, Locking, Leaving, Emptying, Unsending>>
      /\ Sents' = Sents - 1
      /\ \/ isSending' /\ Sending' = Sending
         \/ ~ isSending' /\ Sending' = Sending - 1
  BY <1>0, <1>6 DEF Sizes, Moved, Tally, Hits
<1>8. stack' \in [Threads -> Seq(Labels)]
  BY <1>6 DEF Moved
<1>9. TypeOK'
  <2>1. <<>> \in Seq(Nat)
    OBVIOUS
  <2>2. segment' \in [Threads -> Seq(Nat)]
    BY <1>0, <1>1, <2>1
  <2>. QED BY <1>0, <1>1, <1>4, <1>5, <1>8, <2>2 DEF TypeOK
<1>10. Counting'
  <2>1. LockOK' /\ ReceiveOK' /\ PhaseOK'
    BY <1>0, <1>1, <1>7 DEF Counting, LockOK, ReceiveOK, PhaseOK
  <2>2. Len(sends') = 0 /\ Emptying' = 0
    BY <1>1, <1>2, <1>7
  <2>3. \/ isSending' /\ Sending' = 1
        \/ ~ isSending' /\ Sending' = 0
    BY <1>2, <1>7
  <2>4. SenderOK'
    BY <1>4, <1>5, <2>2, <2>3 DEF SenderOK
  <2>. QED BY <2>1, <2>4 DEF Counting
<1>11. UnsendOK'
  BY <1>0, <1>1, <1>6 DEF UnsendOK, Moved
<1>12. BytesOK'
  <2>1. \A u \in Threads : ~ Within(u, "sent")' /\ ~ Within(u, "submitSend")'
    <3>1. \A b \in {"flush", None} :
            Moved(t, "sent", b, None) =>
              \A u \in Threads : ~ Within(u, "sent")' /\ ~ Within(u, "submitSend")'
      BY <1>0, <1>2, <1>7, NobodyAfterSent
    <3>. QED BY <1>6, <3>1
  <2>2. Base' = Len(wire)'
    <3>1. Len(wire) \in Nat /\ Len(segment[t]) \in Nat
      BY <1>0 DEF TypeOK
    <3>. QED BY <1>1, <1>3, <1>4, <3>1
  <2>3. Numbered(wire, 0)' /\ DOMAIN sends' = {}
    BY <1>0, <1>1, <1>2 DEF BytesOK, Numbered
  <2>. QED BY <2>1, <2>2, <2>3, BytesAlone
<1>. QED BY <1>4, <1>9, <1>10, <1>11, <1>12 DEF IInv

LEMMA OnSendFailedStep ==
  ASSUME IInv, NEW t \in Threads, OnSendFailed(t)
  PROVE  IInv'
<1>. USE DEF None, Only, OpenLabels, ReceiveLabels, FillLabels, SendLabels, SubmitLabels, LockLabels,
             LeaveLabels, sendVars, connVars, ioVars
<1>0. /\ TypeOK /\ Counting /\ UnsendOK /\ FitOK /\ QueuesOK /\ BytesOK /\ Sizes
      /\ segment \in [Threads -> Seq(Nat)] /\ receives \in Nat /\ Len(sends) \in Nat
      /\ isSending \in BOOLEAN
  BY SizesOK DEF IInv, TypeOK
<1>1. /\ At(t, "sent") /\ segment' = [segment EXCEPT ![t] = <<>>]
      /\ UNCHANGED <<state, ioLock, receives, sends, ring, overflow, accepted, wire>>
      /\ state = "Active" => segment[t] = <<>> /\ Goto(t, "close") /\ isSending' = FALSE
      /\ state # "Active" => Return(t) /\ isSending' = isSending
  BY DEF OnSendFailed
<1>2. Sending = 1 /\ Sents = 1 /\ Filling = 0 /\ Emptying = 0 /\ sends = <<>> /\ state # "Created"
  BY <1>1, SentAlone
<1>3. \/ state = "Active" /\ Moved(t, "sent", "close", None)
      \/ state # "Active" /\ Moved(t, "sent", None, None)
  <2>1. CASE state = "Active"
    BY <1>0, <1>1, <2>1, GoesOn DEF Labels
  <2>2. CASE state # "Active"
    BY <1>0, <1>1, <2>2, Returns
  <2>. QED BY <2>1, <2>2
<1>4. /\ UNCHANGED <<Opening, Receiving, Filling, Submitting, Locking, Emptying, Unsending, Again>>
      /\ Sending' = Sending - 1 /\ Sents' = Sents - 1
      /\ state = "Active" => Leaving' = Leaving + 1
  BY <1>0, <1>3 DEF Sizes, Moved, Tally, Hits
<1>5. stack' \in [Threads -> Seq(Labels)]
  BY <1>3 DEF Moved
<1>6. TypeOK'
  <2>1. <<>> \in Seq(Nat)
    OBVIOUS
  <2>2. segment' \in [Threads -> Seq(Nat)]
    BY <1>0, <1>1, <2>1
  <2>. QED BY <1>0, <1>1, <1>5, <2>2 DEF TypeOK
<1>7. Counting'
  <2>1. LockOK' /\ ReceiveOK' /\ PhaseOK'
    BY <1>0, <1>1, <1>2, <1>4 DEF Counting, LockOK, ReceiveOK, PhaseOK
  <2>2. Len(sends') = 0 /\ Sending' = 0 /\ Emptying' = 0 /\ (state = "Active" => Leaving' > 0)
    BY <1>0, <1>1, <1>2, <1>4 DEF Sizes
  <2>3. SenderOK'
    BY <1>0, <1>1, <2>2 DEF Counting, SenderOK
  <2>. QED BY <2>1, <2>3 DEF Counting
<1>8. UnsendOK'
  BY <1>0, <1>1, <1>3 DEF UnsendOK, Moved
<1>9. FitOK' /\ QueuesOK' /\ Base' = Base
  BY <1>0, <1>1 DEF FitOK, QueuesOK, Base, Numbered, Fitting, Starts
<1>10. BytesOK'
  <2>1. \A u \in Threads : ~ Within(u, "sent")' /\ ~ Within(u, "submitSend")'
    <3>1. \A b \in {"close", None} :
            Moved(t, "sent", b, None) =>
              \A u \in Threads : ~ Within(u, "sent")' /\ ~ Within(u, "submitSend")'
      BY <1>0, <1>2, <1>4, NobodyAfterSent
    <3>. QED BY <1>3, <3>1
  <2>2. ASSUME state = "Active" PROVE Base = Len(wire)
    <3>1. Base = Len(wire) - Len(segment[t]) /\ Len(segment[t]) = 0 /\ Len(wire) \in Nat
      BY <1>0, <1>1, <2>2, SegmentAt DEF TypeOK
    <3>. QED BY <3>1
  <2>3. Numbered(wire, 0)' /\ DOMAIN sends' = {}
    BY <1>0, <1>1, <1>2 DEF BytesOK, Numbered
  <2>. QED BY <1>1, <1>9, <2>1, <2>2, <2>3, BytesAlone
<1>. QED BY <1>6, <1>7, <1>8, <1>9, <1>10 DEF IInv

LEMMA TakeSendStep ==
  ASSUME IInv, NEW t \in Threads, TakeSend(t)
  PROVE  IInv'
<1>. USE DEF None, Only, OpenLabels, ReceiveLabels, FillLabels, SendLabels, SubmitLabels, LockLabels,
             LeaveLabels, sendVars, connVars, ioVars
<1>0. /\ TypeOK /\ Counting /\ UnsendOK /\ FitOK /\ QueuesOK /\ BytesOK /\ Sizes
      /\ sends \in Seq(Seq(Nat)) /\ wire \in Seq(Nat) /\ segment \in [Threads -> Seq(Nat)]
      /\ receives \in Nat /\ Len(sends) \in Nat /\ Len(wire) \in Nat
  BY SizesOK DEF IInv, TypeOK
<1>1. /\ sends # <<>> /\ sends' = Tail(sends)
      /\ UNCHANGED <<state, ioLock, receives, ring, overflow, isSending, accepted>>
  BY DEF TakeSend
<1>2. /\ Len(sends) = 1 /\ Sending = 0 /\ Sents = 0 /\ Emptying = 0 /\ Submitting = 0 /\ state # "Created"
      /\ 1 \in DOMAIN sends /\ Head(sends) = sends[1] /\ sends[1] \in Seq(Nat)
  <2>1. /\ Len(sends) > 0 /\ 1 \in DOMAIN sends /\ Head(sends) = sends[1] /\ sends[1] \in Seq(Nat)
    BY <1>0, <1>1
  <2>2. Len(sends) = 1 /\ Sending = 0 /\ Sents = 0 /\ Emptying = 0 /\ Submitting = 0
    <3>1. Sending + Len(sends) <= 1 /\ Emptying = 0
      BY <1>0 DEF Counting, SenderOK
    <3>2. Sending \in Nat /\ Sents \in Nat /\ Filling \in Nat /\ Submitting \in Nat
          /\ Submitting <= Sending /\ Sending = Filling + Emptying + Sents
      BY <1>0 DEF Sizes
    <3>3. Len(sends) \in Nat /\ Len(sends) > 0
      BY <1>0, <2>1
    <3>4. Len(sends) = 1 /\ Sending = 0
      <4>1. \A x, y \in Nat : x + y <= 1 /\ y > 0 => y = 1 /\ x = 0
        OBVIOUS
      <4>. QED BY <3>1, <3>2, <3>3, <4>1
    <3>5. Filling + Sents = 0 /\ Submitting = 0
      BY ONLY <3>1, <3>2, <3>4
    <3>. QED BY ONLY <3>1, <3>2, <3>4, <3>5
  <2>. QED BY <1>0, <1>1, <2>1, <2>2 DEF Counting, PhaseOK
<1>3. sends' = <<>> /\ Len(sends') = 0 /\ DOMAIN sends' = {}
  <2>1. Tail(sends) \in Seq(Seq(Nat)) /\ Len(Tail(sends)) = 0
    BY <1>0, <1>1, <1>2
  <2>2. \A q \in Seq(Seq(Nat)) : Len(q) = 0 => q = <<>>
    OBVIOUS
  <2>3. sends' = <<>>
    BY ONLY <1>1, <2>1, <2>2
  <2>. QED BY <2>3
<1>4. PICK n \in 0..Len(sends[1]) :
        /\ segment' = [segment EXCEPT ![t] = SubSeq(sends[1], 1, n)]
        /\ wire' = wire \o SubSeq(sends[1], 1, n)
  BY <1>2 DEF TakeSend
<1>5. /\ SubSeq(sends[1], 1, n) \in Seq(Nat) /\ Len(SubSeq(sends[1], 1, n)) = n
      /\ Numbered(SubSeq(sends[1], 1, n), Len(wire)) /\ n \in Nat /\ n <= Len(sends[1])
  <2>1. sends[1] \in Seq(Nat) /\ Len(sends[1]) \in Nat /\ n \in Nat /\ 0 <= n /\ n <= Len(sends[1])
    BY <1>2
  <2>2. Numbered(sends[1], Len(wire)) /\ Len(wire) \in Int /\ 0 \in Nat
    BY <1>0, <1>2 DEF BytesOK
  <2>3. /\ SubSeq(sends[1], 0 + 1, n) \in Seq(Nat) /\ Len(SubSeq(sends[1], 0 + 1, n)) = n - 0
        /\ Numbered(SubSeq(sends[1], 0 + 1, n), Len(wire) + 0)
    BY ONLY <2>1, <2>2, NumberedPart
  <2>4. 0 + 1 = 1 /\ n - 0 = n /\ Len(wire) + 0 = Len(wire)
    BY <1>0, <2>1
  <2>. QED BY ONLY <2>1, <2>3, <2>4
<1>6. /\ segment' \in [Threads -> Seq(Nat)] /\ Len(segment'[t]) = n
  BY <1>0, <1>4, <1>5
<1>7. wire' \in Seq(Nat) /\ Len(wire') = Len(wire) + n /\ Numbered(wire', 0)
  <2>1. Numbered(wire, 0) /\ 0 \in Int /\ 0 + Len(wire) = Len(wire)
    BY <1>0 DEF BytesOK
  <2>2. ASSUME NEW y \in Seq(Nat), Numbered(y, Len(wire))
        PROVE  wire \o y \in Seq(Nat) /\ Len(wire \o y) = Len(wire) + Len(y) /\ Numbered(wire \o y, 0)
    BY <1>0, <2>1, <2>2, NumberedJoin
  <2>. QED BY <1>4, <1>5, <2>2
<1>8. Moved(t, None, "sent", "exit")
  BY <1>0, Handles DEF TakeSend, Labels
<1>9. /\ UNCHANGED <<Opening, Receiving, Filling, Submitting, Locking, Leaving, Emptying, Unsending, Again>>
      /\ Sending' = Sending + 1 /\ Sents' = Sents + 1
  BY <1>0, <1>8 DEF Sizes, Moved, Tally, Hits
<1>10. stack' \in [Threads -> Seq(Labels)]
  BY <1>8 DEF Moved
<1>11. TypeOK'
  <2>1. sends' \in Seq(Seq(Nat))
    BY <1>0, <1>1
  <2>. QED BY <1>0, <1>1, <1>6, <1>7, <1>10, <2>1 DEF TypeOK
<1>12. Counting'
  <2>1. LockOK' /\ ReceiveOK' /\ PhaseOK'
    BY <1>0, <1>1, <1>2, <1>9 DEF Counting, LockOK, ReceiveOK, PhaseOK
  <2>2. Sending' = 1 /\ Emptying' = 0
    BY <1>2, <1>9
  <2>3. SenderOK'
    <3>1. /\ Sending + Len(sends) > 0
          /\ overflow # <<>> => ring # <<>>
          /\ state = "Active" => (Sending + Len(sends) > 0 => isSending)
      BY <1>0, <1>2 DEF Counting, SenderOK
    <3>2. state = "Active" => (isSending => ring # <<>>)
      BY <1>0 DEF Counting, SenderOK
    <3>3. Sending' + Len(sends') = 1
      BY ONLY <1>3, <2>2
    <3>4. Sending' + Len(sends') <= 1 /\ Sending' + Len(sends') > 0
      BY ONLY <3>3
    <3>5. /\ overflow' # <<>> => ring' # <<>>
          /\ state' = "Active" => isSending' /\ ring' # <<>>
      BY ONLY <1>1, <3>1, <3>2
    <3>. QED BY ONLY <2>2, <3>4, <3>5 DEF SenderOK
  <2>. QED BY <2>1, <2>3 DEF Counting
<1>13. UnsendOK'
  BY <1>0, <1>1, <1>8 DEF UnsendOK, Moved
<1>14. FitOK' /\ QueuesOK' /\ Base' = Base
  BY <1>0, <1>1 DEF FitOK, QueuesOK, Base, Numbered, Fitting, Starts
<1>15. BytesOK'
  <2>1. \A u \in Threads : ~ Within(u, "sent") /\ ~ Within(u, "submitSend")
    <3>1. /\ "sent" \in SendLabels /\ "submitSend" \in SendLabels /\ Frames(SendLabels) = 0
      BY <1>2 DEF Sending
    <3>2. ASSUME NEW u \in Threads, NEW l \in {"sent", "submitSend"}, Within(u, l) PROVE FALSE
      <4>1. Frames(SendLabels) > 0
        BY <1>0, <3>1, <3>2, WithinCounts
      <4>. QED BY <3>1, <4>1
    <3>. QED BY <3>2
  <2>2. \A u \in Threads : (Within(u, "sent")' => u = t) /\ ~ Within(u, "submitSend")'
    BY <1>8, <2>1 DEF Moved
  <2>3. ASSUME state = "Active" PROVE n <= Len(ring) /\ Base = Len(wire') - n
    <3>1. Base = Len(wire) /\ Len(sends[1]) <= Len(ring)
      BY <1>0, <1>2, <2>3 DEF BytesOK
    <3>2. Len(ring) \in Nat /\ Len(sends[1]) \in Nat
      BY <1>0, <1>2 DEF TypeOK
    <3>. QED BY <1>0, <1>5, <1>7, <3>1, <3>2
  <2>4. Sents' = 1
    BY <1>2, <1>9
  <2>. QED BY <1>1, <1>3, <1>6, <1>7, <1>14, <2>2, <2>3, <2>4 DEF BytesOK, Numbered
<1>. QED BY <1>11, <1>12, <1>13, <1>14, <1>15 DEF IInv

-----------------------------------------------------------------------------
(* Induction.                                                                *)
LEMMA CloseOK == ASSUME IInv, NEW t \in Threads, Close(t) PROVE IInv'
  BY CloseCreatedStep, CloseActiveStep, CloseNothingStep, CloseCountStep, FinalizeCloseStep,
     OnDisconnectedStep DEF Close

LEMMA ReceivesOK == ASSUME IInv, NEW t \in Threads, Receive(t) PROVE IInv'
  BY PostReceiveStep, SubmitReceiveStep, SubmitReceiveFailsStep, PostReceiveFailsStep DEF Receive

LEMMA FlushOK == ASSUME IInv, NEW t \in Threads, Flush(t) PROVE IInv'
  BY SendStep, SendFailsStep, FlushSendStep, GetSendBuffersStep, FlushNothingStep, SubmitSendStep,
     SubmitSendFailsStep, UnsendStep DEF Flush

LEMMA OpenSessionOK == ASSUME IInv, NEW t \in Threads, OpenSession(t) PROVE IInv'
  BY RegisterConnectStep, ConnectFailsStep, ProcessConnectExStep, SessionOpenedStep,
     SessionNotOpenedStep, OnConnectedStep, OpenedStep DEF OpenSession

LEMMA DispatchOK == ASSUME IInv, NEW t \in Threads, Dispatch(t) PROVE IInv'
  BY OnReceiveCompletedStep, OnDataReceivedStep, OnSendCompletedStep, OnSendFailedStep,
     DispatchEndsStep, OnIoCountReachedZeroStep DEF Dispatch

LEMMA NextOK == IInv /\ SessionNext => IInv'
<1> SUFFICES ASSUME IInv, SessionNext PROVE IInv'
  OBVIOUS
<1>0. Workers \subseteq Threads /\ Users \subseteq Threads
  BY DEF Threads
<1>1. ASSUME NEW t \in Threads, Runs(t) PROVE IInv'
  BY <1>1, CloseOK, ReceivesOK, FlushOK, OpenSessionOK, DispatchOK DEF Runs
<1>2. ASSUME NEW w \in Workers, TakeReceive(w) \/ TakeSend(w) PROVE IInv'
  BY <1>0, <1>2, TakeReceiveStep, TakeSendStep
<1>3. ASSUME NEW u \in Users, UserCalls(u) PROVE IInv'
  BY <1>0, <1>3, UserCallsStep
<1>. QED BY <1>1, <1>2, <1>3 DEF SessionNext

LEMMA StutterOK == IInv /\ UNCHANGED sessionVars => IInv'
<1> SUFFICES ASSUME IInv, UNCHANGED sessionVars PROVE IInv'
  OBVIOUS
<1>0. /\ UNCHANGED <<state, ioLock, receives, sends, ring, overflow, isSending, accepted, wire, segment, stack>>
  BY DEF sessionVars, connVars, ioVars, sendVars
<1>1. /\ UNCHANGED <<Opening, Receiving, Filling, Sending, Submitting, Locking, Leaving, Emptying>>
      /\ UNCHANGED <<Unsending, Sents, Again, Base>>
  BY <1>0 DEF Frames, Opening, Receiving, Filling, Sending, Submitting, Locking, Leaving, Emptying,
              Unsending, Sents, Again, Base
<1>2. TypeOK'
  BY <1>0 DEF IInv, TypeOK
<1>3. Counting'
  BY <1>0, <1>1 DEF IInv, Counting, LockOK, ReceiveOK, PhaseOK, SenderOK
<1>4. UnsendOK' /\ FitOK' /\ QueuesOK'
  BY <1>0, <1>1 DEF IInv, UnsendOK, Closes, FitOK, Fitting, Starts, QueuesOK, Numbered
<1>5. BytesOK'
  BY <1>0, <1>1 DEF IInv, BytesOK, Numbered, Within
<1>. QED BY <1>2, <1>3, <1>4, <1>5 DEF IInv

LEMMA InitOK == SessionInit => IInv
<1> SUFFICES ASSUME SessionInit PROVE IInv
  OBVIOUS
<1> DEFINE none == [u \in Threads |-> <<>>]
           first == IF way = "connect" THEN "register" ELSE "init"
<1>0. /\ state = "Created" /\ ioLock = NoThread /\ receives = 0 /\ sends = <<>> /\ ring = <<>>
      /\ overflow = <<>> /\ isSending = FALSE /\ segment = none /\ accepted = 0 /\ wire = <<>>
      /\ stack = [u \in Threads |-> IF u = Opener THEN <<first>> ELSE <<>>]
  BY DEF SessionInit
<1>1. first \in {"register", "init"} /\ first \in Labels /\ Opener \in Threads
  BY DEF Labels, Threads
<1>2. none \in Stacks(Threads, Labels)
  <2>1. <<>> \in Seq(Labels)
    OBVIOUS
  <2>. QED BY <2>1 DEF Stacks
<1>3. \A L : CountOf(none, L) = 0
  BY ThreadsFinite, NoFrames
<1>. HIDE DEF first
<1>4. stack = Pushed(none, Opener, first)
  <2>1. <<first>> \o <<>> = <<first>>
    OBVIOUS
  <2>. QED BY <1>0, <1>1, <2>1 DEF Pushed
<1>. HIDE DEF none
<1>5. stack \in Stacks(Threads, Labels) /\ \A L : Frames(L) = Hits(first, L)
  <2>1. /\ Pushed(none, Opener, first) \in Stacks(Threads, Labels)
        /\ \A L : CountOf(Pushed(none, Opener, first), L) = CountOf(none, L) + Hits(first, L)
    BY ONLY <1>1, <1>2, ThreadsFinite, PushCount
  <2>. QED BY <1>3, <1>4, <2>1, HitsType DEF Frames
<1>6. TypeOK
  <2>1. \A S : <<>> \in Seq(S)
    OBVIOUS
  <2>2. segment \in [Threads -> Seq(Nat)]
    BY <1>0, <2>1 DEF none
  <2>. QED BY <1>0, <1>5, <2>1, <2>2 DEF TypeOK, Stacks
<1>7. /\ Receiving = 1 /\ Locking = 0 /\ Submitting = 0 /\ Sending = 0 /\ Unsending = 0 /\ Emptying = 0
  BY <1>1, <1>5 DEF Receiving, Locking, Submitting, Sending, Unsending, Emptying, Hits, ReceiveLabels,
       OpenLabels, LockLabels, SubmitLabels, SendLabels, FillLabels, Only
<1>8. Counting
  BY <1>0, <1>7 DEF Counting, LockOK, ReceiveOK, PhaseOK, SenderOK
<1>9. UnsendOK
  BY <1>0 DEF UnsendOK
<1>10. /\ DOMAIN ring = {} /\ Len(ring) = 0 /\ DOMAIN overflow = {} /\ Len(overflow) = 0 /\ 0..0 - 1 = {}
       /\ DOMAIN wire = {} /\ DOMAIN sends = {}
  BY <1>0
<1>11. Base = 0
  <2>1. \A x, y, z : x = 0 /\ y = 0 /\ z = 0 => x - y - z = 0
    OBVIOUS
  <2>2. accepted - Len(overflow) - Len(ring) = 0
    <3>1. accepted = 0 /\ Len(overflow) = 0 /\ Len(ring) = 0
      BY <1>0, <1>10
    <3>. QED BY ONLY <2>1, <3>1
  <2>. QED BY <2>2 DEF Base
<1>12. FitOK /\ QueuesOK
  BY <1>0, <1>10, <1>11 DEF FitOK, Fitting, QueuesOK, Numbered
<1>13. \A u \in Threads : ~ Within(u, "submitSend")
  <2>1. "submitSend" \in SubmitLabels /\ Frames(SubmitLabels) = 0
    BY <1>7 DEF SubmitLabels, Submitting
  <2>2. ASSUME NEW u \in Threads, Within(u, "submitSend") PROVE FALSE
    <3>1. Frames(SubmitLabels) > 0
      BY <1>6, <2>1, <2>2, WithinCounts
    <3>. QED BY <2>1, <3>1
  <2>. QED BY <2>2
<1>14. BytesOK
  BY <1>0, <1>10, <1>13 DEF BytesOK, Numbered
<1>. QED BY <1>6, <1>8, <1>9, <1>12, <1>14 DEF IInv

(* The invariant that carries the other theorems.                            *)
THEOREM Inductive == SessionSpec => []IInv
<1>1. IInv /\ [SessionNext]_sessionVars => IInv'
  BY NextOK, StutterOK
<1>. QED BY InitOK, <1>1, PTL DEF SessionSpec

-----------------------------------------------------------------------------
(* Every variable of the session keeps to its type.                          *)
THEOREM TypeCorrect == SessionSpec => []TypeOK
<1>1. IInv => TypeOK
  BY DEF IInv
<1>. QED BY Inductive, <1>1, PTL

(* Threads that are in one of these calls are no more than the frames.       *)
LEMMA ThreadsAt ==
  ASSUME TypeOK, NEW P, NEW L, P \subseteq L
  PROVE  LET H == {t \in Threads : \E p \in P : At(t, p)} IN
         Cardinality(H) \in Nat /\ Cardinality(H) <= Frames(L)
<1> DEFINE H == {t \in Threads : \E p \in P : At(t, p)}
           F == FramesOf(stack, L)
           f == [t \in H |-> <<t, Len(stack[t])>>]
<1>1. stack \in Stacks(Threads, Labels)
  BY StackType
<1>2. \A t \in H : <<t, Len(stack[t])>> \in F
  <2>1. \A t \in H : stack[t] # <<>> /\ Head(stack[t]) \in L
    BY DEF At
  <2>. QED BY <1>1, <2>1, TopFrame
<1>3. IsFiniteSet(F) /\ Cardinality(F) = Frames(L)
  BY <1>1, FramesFinite, ThreadsFinite DEF Frames, CountOf
<1>4. IsFiniteSet(H)
  BY ThreadsFinite, FS_Subset
<1>. HIDE DEF H, F
<1>5. f \in Injection(H, F)
  <2>1. f \in [H -> F]
    BY <1>2
  <2>2. \A t, u \in H : f[t] = f[u] => t = u
    OBVIOUS
  <2>. QED BY <2>1, <2>2 DEF Injection, IsInjective
<1>6. Cardinality(H) <= Cardinality(F)
  BY <1>3, <1>5, FS_Injection
<1>. QED BY <1>3, <1>4, <1>6, FS_CardinalityType DEF H

(* One receive is outstanding or being handled, at most: OnDataReceived() is *)
(* never run by two workers at a time, whatever threads close or send.       *)
THEOREM OneReceiveAtATimeHolds == SessionSpec => []OneReceiveAtATime
<1>1. IInv => OneReceiveAtATime
  <2> SUFFICES ASSUME IInv PROVE OneReceiveAtATime
    OBVIOUS
  <2>1. TypeOK /\ Sizes /\ ReceiveOK /\ receives \in Nat
    BY SizesOK DEF IInv, Counting, TypeOK
  <2> DEFINE P == {"gotData", "onData", "submit"}
             H == {t \in Threads : \E p \in P : At(t, p)}
  <2>2. P \subseteq ReceiveLabels
    BY DEF ReceiveLabels
  <2>3. Cardinality(H) \in Nat /\ Cardinality(H) <= Receiving
    BY <2>1, <2>2, ThreadsAt DEF Receiving
  <2>4. receives + Cardinality(H) <= 1
    <3>. HIDE DEF H
    <3>. QED BY <2>1, <2>3 DEF Sizes, ReceiveOK
  <2>. QED BY <2>4 DEF OneReceiveAtATime
<1>. QED BY Inductive, <1>1, PTL

(* The bytes that have left are the first ones that were accepted, in order. *)
THEOREM SentInOrderHolds == SessionSpec => []SentInOrder
<1>1. IInv => SentInOrder
  <2> SUFFICES ASSUME IInv PROVE SentInOrder
    OBVIOUS
  <2>1. wire \in Seq(Nat) /\ \A i \in 1..Len(wire) : wire[i] = i
    BY DEF IInv, TypeOK, BytesOK, Numbered
  <2>2. wire = [i \in 1..Len(wire) |-> wire[i]]
    BY <2>1
  <2>. QED BY <2>1, <2>2 DEF SentInOrder
<1>. QED BY Inductive, <1>1, PTL

(* What an active session has to send has a request, or a thread that is in  *)
(* a call of the session.                                                    *)
THEOREM NoStrandedSendHolds == SessionSpec => []NoStrandedSend
<1>1. IInv => NoStrandedSend
  <2> SUFFICES ASSUME IInv, state = "Active", ring # <<>> \/ overflow # <<>>, sends = <<>>,
                      \A t \in Threads : stack[t] = <<>>
               PROVE  FALSE
    BY DEF NoStrandedSend
  <2>1. TypeOK /\ SenderOK
    BY DEF IInv, Counting
  <2>2. stack = [t \in Threads |-> <<>>]
    BY <2>1 DEF TypeOK
  <2>3. Sending = 0 /\ Leaving = 0
    BY <2>2, NoFrames, ThreadsFinite DEF Sending, Leaving, Frames
  <2>4. Len(sends) = 0
    OBVIOUS
  <2>. QED BY <2>1, <2>3, <2>4 DEF SenderOK
<1>. QED BY Inductive, <1>1, PTL


-----------------------------------------------------------------------------
(* RioCore, for any finite sets of workers, submitters and closers, any size *)
(* of a batch and any number of requests: what a shutdown destroys is no     *)
(* longer in use, and every worker it waits for is woken.                    *)

(* The invariant says of a core where its threads may be ...                 *)
WorkerPlaces == {"none", "loop", "drainRecv", "drainSend", "test", "notifyRecv", "notifySend",
                 "testAgain", "wait", "dispatch", "gone"}
CloserPlaces == {"idle", "awaitOther", "join", "drain", "destroy", "finish"}

CoreTypeOK ==
    /\ coreState \in {"Initialized", "Running", "Stopping", "Stopped", "Faulted", "Closed"}
    /\ corrupt \in BOOLEAN /\ workerRunning \in BOOLEAN
    /\ shutdownRuns \in BOOLEAN /\ shutdownDone \in BOOLEAN /\ destroyed \in BOOLEAN
    /\ outstanding \in Int
    /\ submitting \subseteq CoreWorkers \union Submitters /\ counted \subseteq submitting
    /\ issued \in Nat
    /\ kernel \in [Queues -> Nat] /\ done \in [Queues -> Nat] /\ armed \in [Queues -> BOOLEAN]
    /\ packets \in [{"stop", "recv", "send"} -> Nat]
    /\ DOMAIN pc = CoreThreads
    /\ \A w \in CoreWorkers : pc[w] \in WorkerPlaces
    /\ \A k \in Closers : pc[k] \in CloserPlaces
    /\ batch \in [CoreWorkers -> 0..Batch]
    /\ \A w \in CoreWorkers : batch[w] > 0 <=> pc[w] = "dispatch"

(* ... what the count covers: after a corrupt queue it may be too high ...   *)
InFlight == Cardinality(counted) + Total(kernel) + Total(done) + InBatches
IoCounted == outstanding >= InFlight /\ (~corrupt => outstanding = InFlight)

(* ... that a shutdown finds nobody in SubmitIo() and lets nobody in ...     *)
ShuttingDown == \E k \in Closers : pc[k] \in {"join", "drain", "destroy", "finish"}
WorkersLeft == \E k \in Closers : pc[k] \in {"drain", "destroy", "finish"}

DoorClosed ==
    shutdownRuns \/ destroyed \/ ShuttingDown =>
        coreState # "Running" /\ submitting = {} /\ pc["starter"] = "idle"

NobodyLeft ==
    /\ destroyed \/ WorkersLeft => Joined
    /\ destroyed => Total(kernel) = 0 /\ Total(done) = 0

(* ... that a core that no longer runs has posted a stop packet for every    *)
(* worker that may go to sleep ...                                           *)
Active == {w \in CoreWorkers : pc[w] \notin {"none", "loop", "gone"}}
EnoughStops ==
    IF coreState = "Running" THEN workerRunning ELSE Cardinality(Active) <= packets["stop"]

(* ... and that a queue no worker will look into again before it sleeps has  *)
(* a packet of its own under way, or is empty and registered for one.        *)
Listens(w, q) == pc[w] \in {"testAgain", "wait"} \union IF q = "recv" THEN {"notifySend"} ELSE {}
Armed ==
    \A q \in Queues : (\A w \in CoreWorkers : Listens(w, q)) =>
        packets[q] > 0 \/ (armed[q] /\ done[q] = 0)

CoreInv == CoreTypeOK /\ IoCounted /\ DoorClosed /\ NobodyLeft /\ EnoughStops /\ Armed

-----------------------------------------------------------------------------
LEMMA TakenAtMost ==
  ASSUME NEW d \in Nat
  PROVE  /\ Min({d, Batch}) \in 0..Batch /\ Min({d, Batch}) <= d
         /\ Min({d, Batch}) = 0 <=> d = 0
<1>1. Batch \in Nat \ {0}
  BY RioCoreConstants
<1>2. \E x \in {d, Batch} : \A y \in {d, Batch} : x <= y
  BY <1>1
<1>3. Min({d, Batch}) \in {d, Batch} /\ \A y \in {d, Batch} : Min({d, Batch}) <= y
  BY <1>2 DEF Min
<1>. QED BY <1>1, <1>3

(* The results in batches, counted.                                          *)
BatchOf(b) == {p \in CoreWorkers \X (1..Batch) : p[2] <= b[p[1]]}

LEMMA BatchesFinite ==
  ASSUME NEW b \in [CoreWorkers -> 0..Batch]
  PROVE  /\ IsFiniteSet(BatchOf(b)) /\ Cardinality(BatchOf(b)) \in Nat
         /\ (\A w \in CoreWorkers : b[w] = 0) <=> Cardinality(BatchOf(b)) = 0
<1>1. IsFiniteSet(CoreWorkers \X (1..Batch))
  <2>1. IsFiniteSet(1..Batch)
    BY RioCoreConstants, FS_Interval
  <2>. QED BY <2>1, RioCoreThreads, FS_Product
<1>2. IsFiniteSet(BatchOf(b))
  BY <1>1, FS_Subset DEF BatchOf
<1>3. Cardinality(BatchOf(b)) \in Nat /\ (Cardinality(BatchOf(b)) = 0 <=> BatchOf(b) = {})
  BY <1>2, FS_CardinalityType, FS_EmptySet
<1>4. (\A w \in CoreWorkers : b[w] = 0) <=> BatchOf(b) = {}
  <2>1. ASSUME \A w \in CoreWorkers : b[w] = 0 PROVE BatchOf(b) = {}
    BY <2>1, RioCoreConstants DEF BatchOf
  <2>2. ASSUME NEW w \in CoreWorkers, b[w] # 0 PROVE <<w, 1>> \in BatchOf(b)
    BY <2>2, RioCoreConstants DEF BatchOf
  <2>. QED BY <2>1, <2>2
<1>. QED BY <1>2, <1>3, <1>4

LEMMA BatchesChange ==
  ASSUME NEW b \in [CoreWorkers -> 0..Batch], NEW w \in CoreWorkers, NEW n \in 0..Batch
  PROVE  Cardinality(BatchOf([b EXCEPT ![w] = n])) = Cardinality(BatchOf(b)) - b[w] + n
<1> DEFINE Others == {p \in (CoreWorkers \ {w}) \X (1..Batch) : p[2] <= b[p[1]]}
           Own(m) == {w} \X (1..m)
<1>1. ASSUME NEW c \in [CoreWorkers -> 0..Batch], \A v \in CoreWorkers \ {w} : c[v] = b[v]
      PROVE  /\ BatchOf(c) = Others \union Own(c[w]) /\ Others \intersect Own(c[w]) = {}
             /\ Cardinality(BatchOf(c)) = Cardinality(Others) + c[w]
             /\ Cardinality(Others) \in Nat
  <2>1. BatchOf(c) = Others \union Own(c[w])
    <3>1. ASSUME NEW v \in CoreWorkers, NEW i \in 1..Batch
          PROVE  <<v, i>> \in BatchOf(c) <=> <<v, i>> \in Others \union Own(c[w])
      <4>1. <<v, i>> \in BatchOf(c) <=> i <= c[v]
        BY DEF BatchOf
      <4>2. CASE v = w
        BY <4>1, <4>2, RioCoreConstants
      <4>3. CASE v # w
        BY <4>1, <4>3, <1>1
      <4>. QED BY <4>2, <4>3
    <3>2. BatchOf(c) \subseteq CoreWorkers \X (1..Batch)
      BY DEF BatchOf
    <3>3. Others \union Own(c[w]) \subseteq CoreWorkers \X (1..Batch)
      <4>1. 1..c[w] \subseteq 1..Batch
        BY RioCoreConstants
      <4>. QED BY <4>1
    <3>. QED BY ONLY <3>1, <3>2, <3>3
  <2>2. Others \intersect Own(c[w]) = {}
    OBVIOUS
  <2>3. IsFiniteSet(Others)
    <3>1. Others \subseteq BatchOf(b)
      BY DEF BatchOf
    <3>. QED BY <3>1, BatchesFinite, FS_Subset
  <2>4. IsFiniteSet(Own(c[w])) /\ Cardinality(Own(c[w])) = c[w]
    <3>1. IsFiniteSet({w}) /\ Cardinality({w}) = 1
      BY FS_Singleton
    <3>2. c[w] \in Nat
      BY RioCoreConstants
    <3>3. IsFiniteSet(1..c[w]) /\ Cardinality(1..c[w]) = c[w]
      BY <3>2, FS_Interval
    <3>4. IsFiniteSet({w} \X (1..c[w])) /\ Cardinality({w} \X (1..c[w])) = 1 * c[w]
      BY <3>1, <3>3, FS_Product
    <3>. QED BY <3>2, <3>4
  <2>5. Cardinality(Others \union Own(c[w]))
        = Cardinality(Others) + Cardinality(Own(c[w])) - Cardinality({})
    BY ONLY <2>2, <2>3, <2>4, FS_Union
  <2>6. Cardinality({}) = 0 /\ Cardinality(Others) \in Nat
    BY <2>3, FS_EmptySet, FS_CardinalityType
  <2>7. c[w] \in Nat
    BY RioCoreConstants
  <2>. HIDE DEF Others, Own
  <2>. QED BY <2>1, <2>2, <2>4, <2>5, <2>6, <2>7
<1> DEFINE c == [b EXCEPT ![w] = n]
<1>2. c \in [CoreWorkers -> 0..Batch] /\ c[w] = n /\ \A v \in CoreWorkers \ {w} : c[v] = b[v]
  OBVIOUS
<1>. HIDE DEF Others, Own, c
<1>3. Cardinality(BatchOf(c)) = Cardinality(Others) + n /\ Cardinality(Others) \in Nat
  BY <1>1, <1>2
<1>4. Cardinality(BatchOf(b)) = Cardinality(Others) + b[w]
  BY <1>1
<1>5. b[w] \in Nat /\ n \in Nat
  BY RioCoreConstants
<1>. QED BY <1>3, <1>4, <1>5 DEF c

LEMMA BatchesType ==
  ASSUME CoreTypeOK
  PROVE  /\ InBatches \in Nat
         /\ InBatches = 0 => \A w \in CoreWorkers : batch[w] = 0
         /\ InBatches' = Cardinality(BatchOf(batch'))
         /\ UNCHANGED batch => InBatches' = InBatches
  BY BatchesFinite DEF CoreTypeOK, InBatches, BatchOf

LEMMA BatchesStep ==
  ASSUME CoreTypeOK, NEW w \in CoreWorkers, NEW n \in 0..Batch, batch' = [batch EXCEPT ![w] = n]
  PROVE  InBatches' = InBatches - batch[w] + n
<1>1. InBatches = Cardinality(BatchOf(batch)) /\ InBatches' = Cardinality(BatchOf(batch'))
  BY DEF InBatches, BatchOf
<1>. QED BY <1>1, BatchesChange DEF CoreTypeOK

(* A set one of whose members comes or goes.                                 *)
LEMMA CountedChange ==
  ASSUME CoreTypeOK
  PROVE  /\ Cardinality(counted) \in Nat /\ (Cardinality(counted) = 0 <=> counted = {})
         /\ \A t : Cardinality(counted \union {t}) = Cardinality(counted) + (IF t \in counted THEN 0 ELSE 1)
         /\ \A t : Cardinality(counted \ {t}) = Cardinality(counted) - (IF t \in counted THEN 1 ELSE 0)
<1>1. IsFiniteSet(counted)
  <2>1. IsFiniteSet(CoreWorkers \union Submitters)
    BY RioCoreThreads, FS_Union
  <2>. QED BY <2>1, FS_Subset DEF CoreTypeOK
<1>2. Cardinality(counted) \in Nat /\ (Cardinality(counted) = 0 <=> counted = {})
  BY <1>1, FS_CardinalityType, FS_EmptySet
<1>. QED BY <1>1, <1>2, FS_AddElement, FS_RemoveElement

LEMMA ActiveChange ==
  /\ IsFiniteSet(Active) /\ Cardinality(Active) \in Nat
  /\ Active' \subseteq Active => Cardinality(Active') <= Cardinality(Active) /\ Cardinality(Active') \in Nat
  /\ \A w \in Active : Active' = Active \ {w} => Cardinality(Active') = Cardinality(Active) - 1
  /\ Cardinality(CoreWorkers) \in Nat /\ Cardinality(Active) <= Cardinality(CoreWorkers)
  /\ Cardinality(Active') \in Nat /\ Cardinality(Active') <= Cardinality(CoreWorkers)
  /\ Cardinality(Created) \in Nat
  /\ Active \subseteq Created => Cardinality(Active) <= Cardinality(Created)
<1>1. /\ IsFiniteSet(CoreWorkers) /\ Active \subseteq CoreWorkers /\ Active' \subseteq CoreWorkers
      /\ Created \subseteq CoreWorkers
  BY RioCoreThreads DEF Active, Created
<1>2. IsFiniteSet(Active) /\ IsFiniteSet(Active') /\ IsFiniteSet(Created)
  BY <1>1, FS_Subset
<1>3. /\ Cardinality(Active) \in Nat /\ Cardinality(Active') \in Nat /\ Cardinality(Created) \in Nat
      /\ Cardinality(CoreWorkers) \in Nat
  BY <1>1, <1>2, FS_CardinalityType
<1>4. /\ Active' \subseteq Active => Cardinality(Active') <= Cardinality(Active)
      /\ Active \subseteq Created => Cardinality(Active) <= Cardinality(Created)
      /\ Cardinality(Active) <= Cardinality(CoreWorkers)
      /\ Cardinality(Active') <= Cardinality(CoreWorkers)
  BY <1>1, <1>2, FS_Subset
<1>5. \A w \in Active : Active' = Active \ {w} => Cardinality(Active') = Cardinality(Active) - 1
  BY <1>2, FS_RemoveElement
<1>. QED BY <1>2, <1>3, <1>4, <1>5

-----------------------------------------------------------------------------
(* Who moves, and who does not.                                              *)
LEMMA WorkerMoves ==
  ASSUME CoreTypeOK, NEW w \in CoreWorkers, NEW p \in WorkerPlaces, Move(w, p)
  PROVE  /\ DOMAIN pc' = CoreThreads /\ pc'["starter"] = pc["starter"]
         /\ pc'[w] = p /\ \A v \in CoreWorkers \ {w} : pc'[v] = pc[v]
         /\ \A v \in CoreWorkers : pc'[v] \in WorkerPlaces
         /\ \A k \in Closers : pc'[k] = pc[k] /\ pc'[k] \in CloserPlaces
         /\ (ShuttingDown' <=> ShuttingDown) /\ (WorkersLeft' <=> WorkersLeft)
<1>1. /\ w \in CoreThreads /\ \A k \in Closers : k # w /\ k \in CoreThreads
      /\ \A v \in CoreWorkers : v \in CoreThreads
      /\ "starter" # w /\ "starter" \in CoreThreads
  BY RioCoreThreads DEF CoreThreads
<1>2. /\ DOMAIN pc' = CoreThreads /\ pc'["starter"] = pc["starter"]
      /\ pc'[w] = p /\ \A v \in CoreWorkers \ {w} : pc'[v] = pc[v]
      /\ \A k \in Closers : pc'[k] = pc[k]
  BY <1>1 DEF Move, CoreTypeOK
<1>3. \A v \in CoreWorkers : pc'[v] \in WorkerPlaces
  BY <1>2 DEF CoreTypeOK
<1>4. \A k \in Closers : pc'[k] \in CloserPlaces
  BY <1>2 DEF CoreTypeOK
<1>. QED BY <1>2, <1>3, <1>4 DEF ShuttingDown, WorkersLeft

LEMMA CloserMoves ==
  ASSUME CoreTypeOK, NEW k \in Closers, NEW p \in CloserPlaces, Move(k, p)
  PROVE  /\ DOMAIN pc' = CoreThreads /\ pc'["starter"] = pc["starter"]
         /\ pc'[k] = p /\ \A j \in Closers \ {k} : pc'[j] = pc[j]
         /\ \A v \in CoreWorkers : pc'[v] = pc[v] /\ pc'[v] \in WorkerPlaces
         /\ \A j \in Closers : pc'[j] \in CloserPlaces
         /\ Active' = Active /\ (Joined' <=> Joined)
         /\ \A v \in CoreWorkers, q \in Queues : Listens(v, q)' <=> Listens(v, q)
<1>1. /\ k \in CoreThreads /\ \A w \in CoreWorkers : k # w /\ w \in CoreThreads
      /\ \A v \in Closers : v \in CoreThreads
      /\ "starter" # k /\ "starter" \in CoreThreads
  BY RioCoreThreads DEF CoreThreads
<1>2. /\ DOMAIN pc' = CoreThreads /\ pc'["starter"] = pc["starter"]
      /\ pc'[k] = p /\ \A j \in Closers \ {k} : pc'[j] = pc[j]
      /\ \A v \in CoreWorkers : pc'[v] = pc[v]
  BY <1>1 DEF Move, CoreTypeOK
<1>3. /\ \A v \in CoreWorkers : pc'[v] \in WorkerPlaces
      /\ \A j \in Closers : pc'[j] \in CloserPlaces
  BY <1>2 DEF CoreTypeOK
<1>. QED BY <1>2, <1>3 DEF Active, Joined, Listens

LEMMA StarterMoves ==
  ASSUME CoreTypeOK, NEW p, Move("starter", p)
  PROVE  /\ DOMAIN pc' = CoreThreads /\ pc'["starter"] = p
         /\ \A v \in CoreWorkers : pc'[v] = pc[v] /\ pc'[v] \in WorkerPlaces
         /\ \A k \in Closers : pc'[k] = pc[k] /\ pc'[k] \in CloserPlaces
         /\ (ShuttingDown' <=> ShuttingDown) /\ (WorkersLeft' <=> WorkersLeft)
         /\ Active' = Active /\ (Joined' <=> Joined)
         /\ \A v \in CoreWorkers, q \in Queues : Listens(v, q)' <=> Listens(v, q)
<1>1. /\ \A v \in CoreWorkers \union Closers : v \in CoreThreads /\ v # "starter"
      /\ "starter" \in CoreThreads
  BY RioCoreThreads DEF CoreThreads
<1>2. /\ DOMAIN pc' = CoreThreads /\ pc'["starter"] = p
      /\ \A v \in CoreWorkers : pc'[v] = pc[v]
      /\ \A k \in Closers : pc'[k] = pc[k]
  BY <1>1 DEF Move, CoreTypeOK
<1>3. /\ \A v \in CoreWorkers : pc'[v] \in WorkerPlaces
      /\ \A j \in Closers : pc'[j] \in CloserPlaces
  BY <1>2 DEF CoreTypeOK
<1>. QED BY <1>2, <1>3 DEF ShuttingDown, WorkersLeft, Active, Joined, Listens

(* A step at which no thread moves.                                          *)
LEMMA NobodyMoves ==
  ASSUME CoreTypeOK, UNCHANGED pc
  PROVE  /\ DOMAIN pc' = CoreThreads /\ pc'["starter"] = pc["starter"]
         /\ \A v \in CoreWorkers : pc'[v] = pc[v] /\ pc'[v] \in WorkerPlaces
         /\ \A k \in Closers : pc'[k] = pc[k] /\ pc'[k] \in CloserPlaces
         /\ (ShuttingDown' <=> ShuttingDown) /\ (WorkersLeft' <=> WorkersLeft)
         /\ Active' = Active /\ (Joined' <=> Joined)
         /\ \A v \in CoreWorkers, q \in Queues : Listens(v, q)' <=> Listens(v, q)
  BY DEF CoreTypeOK, ShuttingDown, WorkersLeft, Active, Joined, Listens

(* The sums over the two queues.                                             *)
LEMMA Totals ==
  ASSUME NEW f \in [Queues -> Nat], NEW q \in Queues
  PROVE  /\ Total(f) \in Nat /\ f[q] \in Nat /\ f[q] <= Total(f)
         /\ Total(f) = 0 => \A r \in Queues : f[r] = 0
  BY DEF Total, Queues

-----------------------------------------------------------------------------
(* The start.                                                                *)
LEMMA StartWorkerStep ==
  ASSUME CoreInv, NEW w \in CoreWorkers, StartWorker(w)
  PROVE  CoreInv'
<1>. USE DEF CoreInv
<1>1. /\ pc["starter"] = "start" /\ pc[w] = "none" /\ Move(w, "loop")
      /\ UNCHANGED <<flagVars, lifeVars, ioVarsOfCore, queueVars, packets, batch>>
  BY DEF StartWorker
<1>2. /\ DOMAIN pc' = CoreThreads /\ pc'["starter"] = pc["starter"]
      /\ pc'[w] = "loop" /\ \A v \in CoreWorkers \ {w} : pc'[v] = pc[v]
      /\ \A v \in CoreWorkers : pc'[v] \in WorkerPlaces
      /\ \A k \in Closers : pc'[k] = pc[k] /\ pc'[k] \in CloserPlaces
      /\ (ShuttingDown' <=> ShuttingDown) /\ (WorkersLeft' <=> WorkersLeft)
  BY <1>1, WorkerMoves DEF WorkerPlaces
<1>3. CoreTypeOK'
  BY <1>1, <1>2 DEF CoreTypeOK, flagVars, lifeVars, ioVarsOfCore, queueVars
<1>4. IoCounted'
  BY <1>1, BatchesType DEF IoCounted, InFlight, flagVars, ioVarsOfCore, queueVars, Total
<1>5. DoorClosed'
  BY <1>1, <1>2 DEF DoorClosed, flagVars, lifeVars, ioVarsOfCore
<1>6. NobodyLeft'
  BY <1>1, <1>2 DEF NobodyLeft, DoorClosed, ShuttingDown, WorkersLeft, lifeVars
<1>7. EnoughStops'
  <2>1. Active' \subseteq Active
    BY <1>1, <1>2 DEF Active
  <2>. QED BY <1>1, <2>1, ActiveChange DEF EnoughStops, CoreTypeOK, flagVars
<1>8. Armed'
  BY <1>1, <1>2 DEF Armed, Listens, queueVars
<1>. QED BY <1>3, <1>4, <1>5, <1>6, <1>7, <1>8

LEMMA StarterStep ==
  ASSUME CoreInv, Started \/ StartFails \/ StartFailed
  PROVE  CoreInv'
<1>. USE DEF CoreInv
<1>1. PICK p \in {"idle", "joinStarted"} : Move("starter", p)
  BY DEF Started, StartFails, StartFailed
<1>2. /\ DOMAIN pc' = CoreThreads /\ pc'["starter"] = p
      /\ \A v \in CoreWorkers : pc'[v] = pc[v] /\ pc'[v] \in WorkerPlaces
      /\ \A k \in Closers : pc'[k] = pc[k] /\ pc'[k] \in CloserPlaces
      /\ (ShuttingDown' <=> ShuttingDown) /\ (WorkersLeft' <=> WorkersLeft)
      /\ Active' = Active /\ (Joined' <=> Joined)
      /\ \A v \in CoreWorkers, q \in Queues : Listens(v, q)' <=> Listens(v, q)
  BY <1>1, StarterMoves
<1>3. /\ pc["starter"] \in {"start", "joinStarted"}
      /\ UNCHANGED <<corrupt, lifeVars, ioVarsOfCore, queueVars, batch>>
      /\ packets' \in [{"stop", "recv", "send"} -> Nat]
      /\ \A q \in Queues : packets'[q] = packets[q]
      /\ coreState' \in {coreState, "Stopping", "Initialized"} /\ workerRunning' \in BOOLEAN
  <2>1. CASE Started \/ StartFailed
    BY <2>1 DEF Started, StartFailed, flagVars, CoreTypeOK
  <2>2. CASE StartFails
    <3>1. /\ packets' = [packets EXCEPT !["stop"] = packets["stop"] + Cardinality(Created)]
          /\ Cardinality(Created) \in Nat /\ packets \in [{"stop", "recv", "send"} -> Nat]
      BY <2>2, ActiveChange DEF StartFails, WakeWorkers, CoreTypeOK
    <3>2. packets["stop"] + Cardinality(Created) \in Nat
      BY <3>1
    <3>3. /\ packets' \in [{"stop", "recv", "send"} -> Nat]
          /\ \A q \in Queues : packets'[q] = packets[q]
      BY <3>1, <3>2 DEF Queues
    <3>. QED BY <2>2, <3>3 DEF StartFails, CoreTypeOK
  <2>. QED BY <2>1, <2>2
<1>4. CoreTypeOK'
  BY <1>2, <1>3 DEF CoreTypeOK, lifeVars, ioVarsOfCore, queueVars
<1>5. IoCounted'
  BY <1>3, BatchesType DEF IoCounted, InFlight, ioVarsOfCore, queueVars, Total
<1>6. DoorClosed'
  BY <1>2, <1>3 DEF DoorClosed, lifeVars, ioVarsOfCore
<1>7. NobodyLeft'
  BY <1>2, <1>3 DEF NobodyLeft, DoorClosed, lifeVars, ioVarsOfCore, queueVars, Total
<1>8. EnoughStops'
  <2>1. CASE Started
    BY <1>2, <2>1 DEF Started, EnoughStops, flagVars
  <2>2. CASE StartFails
    <3>1. Active \subseteq Created
      BY DEF Active, Created
    <3>2. packets'["stop"] = packets["stop"] + Cardinality(Created) /\ coreState' = "Stopping"
      BY <2>2 DEF StartFails, WakeWorkers, CoreTypeOK
    <3>. QED BY <1>2, <3>1, <3>2, ActiveChange DEF EnoughStops, CoreTypeOK
  <2>3. CASE StartFailed
    <3>1. Active = {}
      BY <2>3 DEF StartFailed, Joined, Active
    <3>2. coreState' = "Initialized" /\ packets'["stop"] \in Nat /\ Active' = {}
      BY <1>2, <1>3, <2>3, <3>1 DEF StartFailed
    <3>. QED BY <3>2, FS_EmptySet DEF EnoughStops
  <2>. QED BY <2>1, <2>2, <2>3
<1>9. Armed'
  BY <1>2, <1>3 DEF Armed, queueVars
<1>. QED BY <1>4, <1>5, <1>6, <1>7, <1>8, <1>9

-----------------------------------------------------------------------------
(* Submissions.                                                              *)
LEMMA SubmitTestStep ==
  ASSUME CoreInv, NEW t \in CoreWorkers \union Submitters, SubmitTest(t)
  PROVE  CoreInv'
<1>. USE DEF CoreInv
<1>1. /\ coreState = "Running" /\ submitting' = submitting \union {t}
      /\ UNCHANGED <<flagVars, lifeVars, outstanding, counted, issued, kernel, queueVars, packets, pc, batch>>
  BY DEF SubmitTest
<1>3. CoreTypeOK'
  BY <1>1 DEF CoreTypeOK, flagVars, lifeVars, queueVars
<1>4. IoCounted'
  BY <1>1, BatchesType DEF IoCounted, InFlight, flagVars, queueVars, Total
<1>5. DoorClosed'
  BY <1>1, NobodyMoves DEF DoorClosed, flagVars, lifeVars
<1>6. NobodyLeft'
  BY <1>1, NobodyMoves DEF NobodyLeft, lifeVars, queueVars, Total
<1>7. EnoughStops'
  BY <1>1, NobodyMoves DEF EnoughStops, flagVars
<1>8. Armed'
  BY <1>1, NobodyMoves DEF Armed, queueVars
<1>. QED BY <1>3, <1>4, <1>5, <1>6, <1>7, <1>8

LEMMA SubmitStepStep ==
  ASSUME CoreInv, NEW t \in CoreWorkers \union Submitters, SubmitStep(t)
  PROVE  CoreInv'
<1>. USE DEF CoreInv
<1>1. /\ UNCHANGED <<flagVars, lifeVars, queueVars, packets, pc, batch>>
      /\ submitting' \subseteq submitting /\ counted' \subseteq submitting' /\ t \in submitting
      /\ issued' \in Nat
  BY DEF SubmitStep, SubmitCount, SubmitFails, SubmitEnd, CoreTypeOK
<1>2. /\ outstanding' \in Int /\ kernel' \in [Queues -> Nat]
      /\ outstanding' - outstanding = InFlight' - InFlight
      /\ Total(kernel)' \in Nat /\ Total(kernel) \in Nat /\ Total(done)' = Total(done) /\ Total(done) \in Nat
      /\ InFlight \in Int /\ InFlight' \in Int
  <2>1. /\ Total(done)' = Total(done) /\ InBatches' = InBatches /\ InBatches \in Nat
        /\ Total(done) \in Nat /\ Total(kernel) \in Nat
    BY <1>1, BatchesType, Totals DEF queueVars, CoreTypeOK, Total, Queues
  <2>2. CASE SubmitCount(t)
    BY <2>1, <2>2, CountedChange DEF SubmitCount, InFlight, Total, CoreTypeOK
  <2>3. CASE SubmitFails(t)
    BY <2>1, <2>3, CountedChange DEF SubmitFails, InFlight, Total, CoreTypeOK
  <2>4. ASSUME NEW q \in Queues, SubmitEnd(t, q)
        PROVE  /\ outstanding' \in Int /\ kernel' \in [Queues -> Nat]
               /\ outstanding' - outstanding = InFlight' - InFlight
               /\ Total(kernel)' \in Nat /\ InFlight \in Int /\ InFlight' \in Int
    <3>1. t \in counted /\ counted' = counted \ {t} /\ outstanding' = outstanding
          /\ kernel' = [kernel EXCEPT ![q] = kernel[q] + 1]
      BY <2>4 DEF SubmitEnd
    <3>2. kernel' \in [Queues -> Nat] /\ Total(kernel') = Total(kernel) + 1
      <4>1. kernel \in [Queues -> Nat] /\ kernel[q] + 1 \in Nat /\ kernel[q] \in Nat /\ Total(kernel) \in Nat
        BY Totals DEF CoreTypeOK
      <4>2. Total([kernel EXCEPT ![q] = kernel[q] + 1]) = Total(kernel) - kernel[q] + (kernel[q] + 1)
        BY <4>1 DEF Total, Queues
      <4>. QED BY <3>1, <4>1, <4>2
    <3>3. Total(kernel)' = Total(kernel')
      BY DEF Total
    <3>4. Cardinality(counted') = Cardinality(counted) - 1 /\ Cardinality(counted) \in Nat
      BY <3>1, CountedChange
    <3>. QED BY <2>1, <3>1, <3>2, <3>3, <3>4 DEF InFlight, CoreTypeOK
  <2>. QED BY <2>1, <2>2, <2>3, <2>4 DEF SubmitStep
<1>3. CoreTypeOK'
  BY <1>1, <1>2 DEF CoreTypeOK, flagVars, lifeVars, queueVars
<1>4. IoCounted'
  BY <1>1, <1>2 DEF IoCounted, flagVars, CoreTypeOK
<1>5. DoorClosed'
  BY <1>1, NobodyMoves DEF DoorClosed, flagVars, lifeVars
<1>6. NobodyLeft'
  BY <1>1, NobodyMoves DEF NobodyLeft, DoorClosed, lifeVars
<1>7. EnoughStops'
  BY <1>1, NobodyMoves DEF EnoughStops, flagVars
<1>8. Armed'
  BY <1>1, NobodyMoves DEF Armed, queueVars
<1>. QED BY <1>3, <1>4, <1>5, <1>6, <1>7, <1>8

LEMMA CompleteStep ==
  ASSUME CoreInv, NEW q \in Queues, Complete(q)
  PROVE  CoreInv'
<1>. USE DEF CoreInv
<1>1. /\ kernel[q] > 0 /\ kernel' = [kernel EXCEPT ![q] = kernel[q] - 1]
      /\ done' = [done EXCEPT ![q] = done[q] + 1]
      /\ armed' = [armed EXCEPT ![q] = FALSE]
      /\ packets' = IF armed[q] THEN [packets EXCEPT ![q] = packets[q] + 1] ELSE packets
      /\ UNCHANGED <<flagVars, lifeVars, outstanding, submitting, counted, issued, pc, batch>>
  BY DEF Complete
<1>2. /\ kernel' \in [Queues -> Nat] /\ Total(kernel)' = Total(kernel) - 1 /\ Total(kernel) > 0
      /\ done' \in [Queues -> Nat] /\ Total(done)' = Total(done) + 1
      /\ Total(kernel) \in Nat /\ Total(done) \in Nat
  <2>1. Total(kernel)' = Total(kernel') /\ Total(done)' = Total(done')
    BY DEF Total
  <2>2. /\ kernel \in [Queues -> Nat] /\ kernel[q] - 1 \in Nat /\ kernel[q] \in Nat
        /\ done \in [Queues -> Nat] /\ done[q] + 1 \in Nat /\ done[q] \in Nat
        /\ Total(kernel) \in Nat /\ kernel[q] <= Total(kernel) /\ Total(done) \in Nat
    BY <1>1, Totals DEF CoreTypeOK
  <2>3. /\ Total([kernel EXCEPT ![q] = kernel[q] - 1]) = Total(kernel) - kernel[q] + (kernel[q] - 1)
        /\ Total([done EXCEPT ![q] = done[q] + 1]) = Total(done) - done[q] + (done[q] + 1)
    BY <2>2 DEF Total, Queues
  <2>. QED BY <1>1, <2>1, <2>2, <2>3
<1>3. /\ packets' \in [{"stop", "recv", "send"} -> Nat] /\ packets'["stop"] = packets["stop"]
      /\ \A r \in Queues : packets'[r] >= packets[r] /\ (r = q /\ armed[q] => packets'[r] > 0)
  BY <1>1 DEF CoreTypeOK, Queues
<1>4. CoreTypeOK'
  BY <1>1, <1>2, <1>3 DEF CoreTypeOK, flagVars, lifeVars
<1>5. IoCounted'
  <2>1. InBatches' = InBatches /\ InBatches \in Nat /\ Cardinality(counted) \in Nat
    BY <1>1, BatchesType, CountedChange
  <2>2. InFlight' = InFlight
    BY <1>1, <1>2, <2>1 DEF InFlight
  <2>. QED BY <1>1, <2>2 DEF IoCounted, flagVars
<1>6. DoorClosed'
  BY <1>1, NobodyMoves DEF DoorClosed, flagVars, lifeVars
<1>7. NobodyLeft'
  BY <1>1, <1>2, NobodyMoves DEF NobodyLeft, lifeVars
<1>8. EnoughStops'
  BY <1>1, <1>3, NobodyMoves DEF EnoughStops, flagVars
<1>9. Armed'
  BY <1>1, <1>3, NobodyMoves DEF Armed, CoreTypeOK, Queues
<1>. QED BY <1>4, <1>5, <1>6, <1>7, <1>8, <1>9

-----------------------------------------------------------------------------
(* The workers.                                                              *)
LEMMA WorkerLoopStep ==
  ASSUME CoreInv, NEW w \in CoreWorkers, WorkerLoop(w)
  PROVE  CoreInv'
<1>. USE DEF CoreInv
<1> DEFINE p == IF coreState = "Running" THEN "drainRecv" ELSE "gone"
<1>1. /\ pc[w] = "loop" /\ Move(w, p) /\ p \in WorkerPlaces
      /\ workerRunning' = (workerRunning /\ \E v \in CoreWorkers : pc'[v] \notin {"none", "gone"})
      /\ UNCHANGED <<coreState, corrupt, lifeVars, ioVarsOfCore, queueVars, packets, batch>>
  BY DEF WorkerLoop, WorkerPlaces
<1>2. /\ DOMAIN pc' = CoreThreads /\ pc'["starter"] = pc["starter"]
      /\ pc'[w] = p /\ \A v \in CoreWorkers \ {w} : pc'[v] = pc[v]
      /\ \A v \in CoreWorkers : pc'[v] \in WorkerPlaces
      /\ \A k \in Closers : pc'[k] = pc[k] /\ pc'[k] \in CloserPlaces
      /\ (ShuttingDown' <=> ShuttingDown) /\ (WorkersLeft' <=> WorkersLeft)
  BY <1>1, WorkerMoves
<1>3. CoreTypeOK'
  BY <1>1, <1>2 DEF CoreTypeOK, lifeVars, ioVarsOfCore, queueVars
<1>4. IoCounted'
  BY <1>1, BatchesType DEF IoCounted, InFlight, ioVarsOfCore, queueVars, Total
<1>5. DoorClosed'
  BY <1>1, <1>2 DEF DoorClosed, lifeVars, ioVarsOfCore
<1>6. NobodyLeft'
  BY <1>1, <1>2 DEF NobodyLeft, Joined, lifeVars, ioVarsOfCore, queueVars, Total
<1>7. EnoughStops'
  <2>1. CASE coreState = "Running"
    BY <1>1, <1>2, <2>1 DEF EnoughStops
  <2>2. CASE coreState # "Running"
    <3>1. Active' \subseteq Active
      BY <1>1, <1>2, <2>2 DEF Active
    <3>. QED BY <1>1, <2>2, <3>1, ActiveChange DEF EnoughStops, CoreTypeOK
  <2>. QED BY <2>1, <2>2
<1>8. Armed'
  <2>1. \A q \in Queues : ~Listens(w, q)'
    BY <1>2 DEF Listens
  <2>. QED BY <2>1 DEF Armed
<1>. QED BY <1>3, <1>4, <1>5, <1>6, <1>7, <1>8

(* What all drains have in common: what leaves the queue is in the batch.    *)
LEMMA Drains ==
  ASSUME CoreInv, NEW w \in CoreWorkers, NEW q \in Queues, NEW next \in WorkerPlaces \ {"dispatch", "none", "gone"},
         pc[w] \notin {"none", "loop", "gone", "dispatch"}, DrainOr(w, q, next),
         UNCHANGED <<flagVars, lifeVars, ioVarsOfCore>>,
         armed' \in [Queues -> BOOLEAN], packets' \in [{"stop", "recv", "send"} -> Nat]
  PROVE  /\ CoreTypeOK' /\ IoCounted' /\ DoorClosed' /\ NobodyLeft'
         /\ pc'[w] = (IF done[q] > 0 THEN "dispatch" ELSE next)
         /\ \A v \in CoreWorkers \ {w} : pc'[v] = pc[v]
         /\ \A r \in Queues : done[r] = 0 => done'[r] = 0
         /\ \A r \in Queues \ {q} : done'[r] = done[r]
         /\ w \in Active /\ Active' \subseteq Active
<1>. USE DEF CoreInv
<1> DEFINE n == Min({done[q], Batch})
           p == IF n > 0 THEN "dispatch" ELSE next
<1>1. /\ done' = [done EXCEPT ![q] = done[q] - n]
      /\ batch' = [batch EXCEPT ![w] = n]
      /\ Move(w, p)
  BY DEF DrainOr
<1>2. done[q] \in Nat /\ n \in 0..Batch /\ n <= done[q] /\ (n = 0 <=> done[q] = 0) /\ n \in Nat
  <2>1. done[q] \in Nat
    BY DEF CoreTypeOK
  <2>. QED BY <2>1, TakenAtMost, RioCoreConstants
<1>. HIDE DEF n
<1>3. p \in WorkerPlaces
  BY DEF WorkerPlaces
<1>4. /\ DOMAIN pc' = CoreThreads /\ pc'["starter"] = pc["starter"]
      /\ pc'[w] = p /\ \A v \in CoreWorkers \ {w} : pc'[v] = pc[v]
      /\ \A v \in CoreWorkers : pc'[v] \in WorkerPlaces
      /\ \A k \in Closers : pc'[k] = pc[k] /\ pc'[k] \in CloserPlaces
      /\ (ShuttingDown' <=> ShuttingDown) /\ (WorkersLeft' <=> WorkersLeft)
  BY <1>1, <1>3, WorkerMoves
<1>5. batch[w] = 0
  BY DEF CoreTypeOK
<1>6. /\ done' \in [Queues -> Nat] /\ Total(done)' = Total(done) - n /\ Total(done) \in Nat
  BY <1>1, <1>2 DEF Total, Queues, CoreTypeOK
<1>7. InBatches' = InBatches + n /\ InBatches \in Nat
  <2>1. InBatches' = InBatches - batch[w] + n
    BY <1>1, <1>2, BatchesStep, Zenon
  <2>. QED BY <1>2, <1>5, <2>1, BatchesType
<1>8. CoreTypeOK'
  <2>1. batch' \in [CoreWorkers -> 0..Batch]
    BY <1>1, <1>2 DEF CoreTypeOK
  <2>2. ASSUME NEW v \in CoreWorkers PROVE batch'[v] > 0 <=> pc'[v] = "dispatch"
    BY <1>1, <1>2, <1>4 DEF CoreTypeOK
  <2>. QED BY <1>4, <1>6, <2>1, <2>2 DEF CoreTypeOK, flagVars, lifeVars, ioVarsOfCore
<1>9. IoCounted'
  <2>1. Cardinality(counted) \in Nat /\ Total(kernel) \in Nat /\ Total(kernel)' = Total(kernel)
    BY CountedChange DEF Total, ioVarsOfCore, CoreTypeOK, Queues
  <2>2. InFlight' = InFlight
    BY <1>2, <1>6, <1>7, <2>1 DEF InFlight, ioVarsOfCore
  <2>. QED BY <2>2 DEF IoCounted, flagVars, ioVarsOfCore
<1>10. DoorClosed'
  BY <1>4 DEF DoorClosed, flagVars, lifeVars, ioVarsOfCore
<1>11. NobodyLeft'
  <2>1. ~Joined
    BY DEF Joined
  <2>. QED BY <1>4, <2>1 DEF NobodyLeft, lifeVars
<1>12. w \in Active /\ Active' \subseteq Active
  BY <1>4 DEF Active
<1>13. /\ \A r \in Queues : done[r] = 0 => done'[r] = 0
       /\ \A r \in Queues \ {q} : done'[r] = done[r]
  BY <1>1, <1>2 DEF CoreTypeOK
<1>. QED BY <1>2, <1>4, <1>8, <1>9, <1>10, <1>11, <1>12, <1>13

LEMMA DrainFirstStep ==
  ASSUME CoreInv, NEW w \in CoreWorkers, DrainFirst(w)
  PROVE  CoreInv'
<1>1. PICK q \in Queues, next \in {"drainSend", "test"} :
        /\ pc[w] \in {"drainRecv", "drainSend"} /\ DrainOr(w, q, next)
        /\ UNCHANGED <<flagVars, lifeVars, ioVarsOfCore, armed, packets>>
  BY DEF DrainFirst, Queues
<1>2. next \in WorkerPlaces \ {"dispatch", "none", "gone"} /\ pc[w] \notin {"none", "loop", "gone", "dispatch"}
      /\ armed' \in [Queues -> BOOLEAN] /\ packets' \in [{"stop", "recv", "send"} -> Nat]
  BY <1>1 DEF WorkerPlaces, CoreInv, CoreTypeOK
<1>3. /\ CoreTypeOK' /\ IoCounted' /\ DoorClosed' /\ NobodyLeft'
      /\ pc'[w] = (IF done[q] > 0 THEN "dispatch" ELSE next)
      /\ Active' \subseteq Active
  BY <1>1, <1>2, Drains
<1>4. EnoughStops'
  BY <1>1, <1>3, ActiveChange DEF EnoughStops, CoreInv, CoreTypeOK, flagVars
<1>5. Armed'
  <2>1. \A r \in Queues : ~Listens(w, r)'
    BY <1>3 DEF Listens
  <2>. QED BY <2>1 DEF Armed
<1>. QED BY <1>3, <1>4, <1>5 DEF CoreInv

LEMMA NotifyAndDrainStep ==
  ASSUME CoreInv, NEW w \in CoreWorkers, NotifyAndDrain(w)
  PROVE  CoreInv'
<1>. USE DEF CoreInv
<1>1. PICK q \in Queues :
        /\ pc[w] = IF q = "recv" THEN "notifyRecv" ELSE "notifySend"
        /\ \/ armed' = [armed EXCEPT ![q] = TRUE] /\ UNCHANGED packets
           \/ done[q] > 0 /\ ~armed[q] /\ packets' = [packets EXCEPT ![q] = packets[q] + 1] /\ UNCHANGED armed
        /\ DrainOr(w, q, IF q = "recv" THEN "notifySend" ELSE "testAgain")
        /\ UNCHANGED <<flagVars, lifeVars, ioVarsOfCore>>
  BY DEF NotifyAndDrain
<1> DEFINE next == IF q = "recv" THEN "notifySend" ELSE "testAgain"
<1>2. next \in WorkerPlaces \ {"dispatch", "none", "gone"} /\ pc[w] \notin {"none", "loop", "gone", "dispatch"}
  BY <1>1 DEF WorkerPlaces
<1>3. /\ armed' \in [Queues -> BOOLEAN] /\ packets' \in [{"stop", "recv", "send"} -> Nat]
      /\ packets'["stop"] = packets["stop"]
      /\ \A r \in Queues \ {q} : packets'[r] = packets[r] /\ armed'[r] = armed[r]
      /\ done[q] = 0 => armed'[q]
  <2>1. CASE armed' = [armed EXCEPT ![q] = TRUE] /\ UNCHANGED packets
    BY <2>1 DEF CoreTypeOK, Queues
  <2>2. CASE done[q] > 0 /\ packets' = [packets EXCEPT ![q] = packets[q] + 1] /\ UNCHANGED armed
    BY <2>2 DEF CoreTypeOK, Queues
  <2>. QED BY <1>1, <2>1, <2>2
<1>4. /\ CoreTypeOK' /\ IoCounted' /\ DoorClosed' /\ NobodyLeft'
      /\ pc'[w] = (IF done[q] > 0 THEN "dispatch" ELSE next)
      /\ \A v \in CoreWorkers \ {w} : pc'[v] = pc[v]
      /\ \A r \in Queues : done[r] = 0 => done'[r] = 0
      /\ \A r \in Queues \ {q} : done'[r] = done[r]
      /\ Active' \subseteq Active
  BY <1>1, <1>2, <1>3, Drains
<1>5. EnoughStops'
  BY <1>1, <1>3, <1>4, ActiveChange DEF EnoughStops, CoreTypeOK, flagVars
<1>6. ASSUME NEW r \in Queues, \A v \in CoreWorkers : Listens(v, r)'
      PROVE  packets'[r] > 0 \/ (armed'[r] /\ done'[r] = 0)
  <2>1. done[q] = 0 /\ pc'[w] = next
    <3>1. Listens(w, r)'
      BY <1>6
    <3>2. pc'[w] # "dispatch"
      BY <3>1 DEF Listens
    <3>. QED BY <1>4, <3>2 DEF CoreTypeOK
  <2>2. CASE r = q
    BY <1>3, <1>4, <2>1, <2>2
  <2>3. CASE r # q
    <3>1. Listens(w, r)
      <4>1. Listens(w, r)'
        BY <1>6
      <4>. QED BY <1>1, <2>1, <2>3, <4>1 DEF Listens, Queues
    <3>2. \A v \in CoreWorkers \ {w} : Listens(v, r)
      BY <1>4, <1>6 DEF Listens
    <3>3. packets[r] > 0 \/ (armed[r] /\ done[r] = 0)
      BY <3>1, <3>2 DEF Armed
    <3>. QED BY <1>3, <1>4, <2>3, <3>3
  <2>. QED BY <2>2, <2>3
<1>7. Armed'
  BY <1>6 DEF Armed
<1>. QED BY <1>4, <1>5, <1>7

LEMMA TakeQueuePacketStep ==
  ASSUME CoreInv, NEW w \in CoreWorkers, TakeQueuePacket(w)
  PROVE  CoreInv'
<1>. USE DEF CoreInv
<1>1. PICK q \in Queues :
        /\ pc[w] = "wait" /\ packets[q] > 0
        /\ packets' = [packets EXCEPT ![q] = packets[q] - 1]
        /\ DrainOr(w, q, "loop")
        /\ UNCHANGED <<flagVars, lifeVars, ioVarsOfCore, armed>>
  BY DEF TakeQueuePacket
<1>2. /\ "loop" \in WorkerPlaces \ {"dispatch", "none", "gone"} /\ pc[w] \notin {"none", "loop", "gone", "dispatch"}
      /\ armed' \in [Queues -> BOOLEAN] /\ packets' \in [{"stop", "recv", "send"} -> Nat]
      /\ packets'["stop"] = packets["stop"]
  BY <1>1 DEF WorkerPlaces, CoreTypeOK, Queues
<1>3. /\ CoreTypeOK' /\ IoCounted' /\ DoorClosed' /\ NobodyLeft'
      /\ pc'[w] = (IF done[q] > 0 THEN "dispatch" ELSE "loop")
      /\ Active' \subseteq Active
  BY <1>1, <1>2, Drains
<1>4. EnoughStops'
  BY <1>1, <1>2, <1>3, ActiveChange DEF EnoughStops, CoreTypeOK, flagVars
<1>5. Armed'
  <2>1. \A r \in Queues : ~Listens(w, r)'
    BY <1>3 DEF Listens
  <2>. QED BY <2>1 DEF Armed
<1>. QED BY <1>3, <1>4, <1>5

(* A worker that goes back to its loop without having drained: the count is  *)
(* what it was, and the worker needs no stop packet any more.                *)
LEMMA WorkerReturns ==
  ASSUME CoreInv, NEW w \in CoreWorkers, NEW p \in WorkerPlaces \ {"dispatch", "none", "gone"}, Move(w, p),
         pc[w] \notin {"none", "loop", "gone", "dispatch"},
         UNCHANGED <<workerRunning, lifeVars, ioVarsOfCore, queueVars, batch>>,
         corrupt' \in BOOLEAN, corrupt => corrupt',
         coreState' \in {"Initialized", "Running", "Stopping", "Stopped", "Faulted", "Closed"},
         coreState # "Running" => coreState' # "Running",
         packets' \in [{"stop", "recv", "send"} -> Nat]
  PROVE  /\ CoreTypeOK' /\ IoCounted' /\ DoorClosed' /\ NobodyLeft'
         /\ pc'[w] = p /\ \A v \in CoreWorkers \ {w} : pc'[v] = pc[v]
         /\ w \in Active /\ Active' \subseteq Active
         /\ p = "loop" => Active' = Active \ {w}
<1>. USE DEF CoreInv
<1>1. /\ DOMAIN pc' = CoreThreads /\ pc'["starter"] = pc["starter"]
      /\ pc'[w] = p /\ \A v \in CoreWorkers \ {w} : pc'[v] = pc[v]
      /\ \A v \in CoreWorkers : pc'[v] \in WorkerPlaces
      /\ \A k \in Closers : pc'[k] = pc[k] /\ pc'[k] \in CloserPlaces
      /\ (ShuttingDown' <=> ShuttingDown) /\ (WorkersLeft' <=> WorkersLeft)
  BY WorkerMoves
<1>2. CoreTypeOK'
  <2>1. \A v \in CoreWorkers : batch'[v] > 0 <=> pc'[v] = "dispatch"
    BY <1>1 DEF CoreTypeOK
  <2>. QED BY <1>1, <2>1 DEF CoreTypeOK, lifeVars, ioVarsOfCore, queueVars
<1>3. IoCounted'
  BY BatchesType DEF IoCounted, InFlight, ioVarsOfCore, queueVars, Total
<1>4. DoorClosed'
  BY <1>1 DEF DoorClosed, lifeVars, ioVarsOfCore
<1>5. NobodyLeft'
  <2>1. ~Joined
    BY DEF Joined
  <2>. QED BY <1>1, <2>1 DEF NobodyLeft, lifeVars
<1>6. /\ w \in Active /\ Active' \subseteq Active
      /\ p = "loop" => Active' = Active \ {w}
  BY <1>1 DEF Active
<1>. QED BY <1>1, <1>2, <1>3, <1>4, <1>5, <1>6

LEMMA DrainFailsStep ==
  ASSUME CoreInv, NEW w \in CoreWorkers, DrainFails(w)
  PROVE  CoreInv'
<1>. USE DEF CoreInv
<1>1. PICK queued \in [{"stop", "recv", "send"} -> Nat] :
        queued["stop"] = packets["stop"] /\ MarkFaulted(queued)
  <2>1. \A q \in Queues : packets[q] > 0 =>
          /\ [packets EXCEPT ![q] = packets[q] - 1] \in [{"stop", "recv", "send"} -> Nat]
          /\ [packets EXCEPT ![q] = packets[q] - 1]["stop"] = packets["stop"]
    BY DEF CoreTypeOK, Queues
  <2>. QED BY <2>1 DEF DrainFails, CoreTypeOK
<1>2. /\ pc[w] \in {"drainRecv", "drainSend", "notifyRecv", "notifySend", "wait"} /\ Move(w, "loop")
      /\ UNCHANGED <<workerRunning, lifeVars, ioVarsOfCore, queueVars, batch>>
  BY DEF DrainFails
<1>3. /\ corrupt' = TRUE /\ coreState' # "Running"
      /\ coreState' \in {"Initialized", "Running", "Stopping", "Stopped", "Faulted", "Closed"}
      /\ packets' = [queued EXCEPT !["stop"] = queued["stop"] + Cardinality(CoreWorkers)]
  BY <1>1 DEF MarkFaulted, WakeWorkers, CoreTypeOK
<1>4. packets' \in [{"stop", "recv", "send"} -> Nat] /\ packets'["stop"] >= Cardinality(CoreWorkers)
  BY <1>1, <1>3, ActiveChange DEF CoreTypeOK
<1>5. "loop" \in WorkerPlaces \ {"dispatch", "none", "gone"}
  BY DEF WorkerPlaces
<1>6. CoreTypeOK' /\ IoCounted' /\ DoorClosed' /\ NobodyLeft' /\ pc'[w] = "loop"
  BY <1>2, <1>3, <1>4, <1>5, WorkerReturns
<1>7. EnoughStops'
  BY <1>3, <1>4, ActiveChange DEF EnoughStops, CoreTypeOK
<1>8. Armed'
  <2>1. \A r \in Queues : ~Listens(w, r)'
    BY <1>6 DEF Listens
  <2>. QED BY <2>1 DEF Armed
<1>. QED BY <1>6, <1>7, <1>8

LEMMA TestStoppedStep ==
  ASSUME CoreInv, NEW w \in CoreWorkers, TestStopped(w)
  PROVE  CoreInv'
<1>. USE DEF CoreInv
<1>1. PICK p \in {"loop", "notifyRecv", "wait"} :
        /\ pc[w] \in {"test", "testAgain"} /\ Move(w, p)
        /\ p = "wait" => pc[w] = "testAgain"
        /\ coreState' \in {coreState, "Stopped"} /\ (coreState' = coreState \/ coreState = "Stopping")
        /\ UNCHANGED <<corrupt, workerRunning, lifeVars, ioVarsOfCore, queueVars, packets, batch>>
  BY DEF TestStopped
<1>2. /\ p \in WorkerPlaces \ {"dispatch", "none", "gone"} /\ pc[w] \notin {"none", "loop", "gone", "dispatch"}
      /\ corrupt' \in BOOLEAN /\ packets' \in [{"stop", "recv", "send"} -> Nat]
      /\ coreState' \in {"Initialized", "Running", "Stopping", "Stopped", "Faulted", "Closed"}
      /\ coreState # "Running" => coreState' # "Running"
      /\ corrupt => corrupt'
      /\ UNCHANGED <<workerRunning, lifeVars, ioVarsOfCore, queueVars, batch>>
  BY <1>1 DEF WorkerPlaces, CoreTypeOK
<1>3. /\ CoreTypeOK' /\ IoCounted' /\ DoorClosed' /\ NobodyLeft'
      /\ pc'[w] = p /\ \A v \in CoreWorkers \ {w} : pc'[v] = pc[v]
      /\ Active' \subseteq Active
  BY <1>1, <1>2, WorkerReturns
<1>4. EnoughStops'
  BY <1>1, <1>3, ActiveChange DEF EnoughStops, CoreTypeOK
<1>5. Armed'
  <2>1. \A r \in Queues, v \in CoreWorkers : Listens(v, r)' => Listens(v, r)
    BY <1>1, <1>3 DEF Listens
  <2>. QED BY <1>1, <2>1 DEF Armed, queueVars
<1>. QED BY <1>3, <1>4, <1>5

LEMMA TakeStopPacketStep ==
  ASSUME CoreInv, NEW w \in CoreWorkers, TakeStopPacket(w)
  PROVE  CoreInv'
<1>. USE DEF CoreInv
<1>1. /\ pc[w] = "wait" /\ packets["stop"] > 0 /\ Move(w, "loop")
      /\ packets' = [packets EXCEPT !["stop"] = packets["stop"] - 1]
      /\ coreState' \in {coreState, "Stopped"} /\ (coreState' = coreState \/ coreState = "Stopping")
      /\ UNCHANGED <<corrupt, workerRunning, lifeVars, ioVarsOfCore, queueVars, batch>>
  BY DEF TakeStopPacket
<1>2. /\ "loop" \in WorkerPlaces \ {"dispatch", "none", "gone"} /\ pc[w] \notin {"none", "loop", "gone", "dispatch"}
      /\ corrupt' \in BOOLEAN /\ packets' \in [{"stop", "recv", "send"} -> Nat]
      /\ packets'["stop"] = packets["stop"] - 1
      /\ coreState' \in {"Initialized", "Running", "Stopping", "Stopped", "Faulted", "Closed"}
      /\ coreState # "Running" => coreState' # "Running"
      /\ corrupt => corrupt'
      /\ UNCHANGED <<workerRunning, lifeVars, ioVarsOfCore, queueVars, batch>>
  BY <1>1 DEF WorkerPlaces, CoreTypeOK
<1>3. /\ CoreTypeOK' /\ IoCounted' /\ DoorClosed' /\ NobodyLeft'
      /\ pc'[w] = "loop" /\ w \in Active /\ Active' = Active \ {w}
  BY <1>1, <1>2, WorkerReturns
<1>4. EnoughStops'
  <2>1. Cardinality(Active') = Cardinality(Active) - 1 /\ Cardinality(Active) \in Nat
    BY <1>3, ActiveChange
  <2>. QED BY <1>1, <1>2, <2>1 DEF EnoughStops, CoreTypeOK
<1>5. Armed'
  <2>1. \A r \in Queues : ~Listens(w, r)'
    BY <1>3 DEF Listens
  <2>. QED BY <2>1 DEF Armed
<1>. QED BY <1>3, <1>4, <1>5

LEMMA ResultDispatchedStep ==
  ASSUME CoreInv, NEW w \in CoreWorkers, ResultDispatched(w)
  PROVE  CoreInv'
<1>. USE DEF CoreInv
<1>1. PICK n \in 0..Batch, p \in {"loop", "dispatch"} :
        /\ (p = "loop" /\ Move(w, p)) \/ (p = "dispatch" /\ UNCHANGED pc)
        /\ batch' = [batch EXCEPT ![w] = n]
        /\ n < batch[w] /\ (n = batch[w] - 1 \/ corrupt) /\ (n > 0 <=> p = "dispatch")
  <2>1. /\ batch[w] \in 1..Batch /\ Batch \in Nat /\ batch[w] - 1 \in 0..Batch /\ 0 \in 0..Batch
    BY RioCoreConstants DEF ResultDispatched, CoreTypeOK
  <2>2. CASE corrupt \/ batch[w] = 1
    <3>1. Move(w, "loop") /\ batch' = [batch EXCEPT ![w] = 0]
      BY <2>2 DEF ResultDispatched
    <3>2. 0 < batch[w] /\ (0 = batch[w] - 1 \/ corrupt) /\ ~(0 > 0)
      BY <2>1, <2>2
    <3>. QED BY <2>1, <3>1, <3>2
  <2>3. CASE ~(corrupt \/ batch[w] = 1)
    <3>1. UNCHANGED pc /\ batch' = [batch EXCEPT ![w] = batch[w] - 1]
      BY <2>3 DEF ResultDispatched
    <3>2. batch[w] - 1 < batch[w] /\ batch[w] - 1 > 0
      BY <2>1, <2>3
    <3>. QED BY <2>1, <3>1, <3>2
  <2>. QED BY <2>2, <2>3
<1>2. /\ pc[w] = "dispatch" /\ w \notin submitting /\ outstanding' = outstanding - 1
      /\ UNCHANGED <<flagVars, lifeVars, submitting, counted, issued, kernel, queueVars, packets>>
  BY DEF ResultDispatched
<1>4. /\ DOMAIN pc' = CoreThreads /\ pc'["starter"] = pc["starter"]
      /\ pc'[w] = p /\ \A v \in CoreWorkers \ {w} : pc'[v] = pc[v]
      /\ \A v \in CoreWorkers : pc'[v] \in WorkerPlaces
      /\ \A k \in Closers : pc'[k] = pc[k] /\ pc'[k] \in CloserPlaces
      /\ (ShuttingDown' <=> ShuttingDown) /\ (WorkersLeft' <=> WorkersLeft)
  <2>1. "loop" \in WorkerPlaces
    BY DEF WorkerPlaces
  <2>2. CASE p = "loop" /\ Move(w, p)
    BY <2>1, <2>2, WorkerMoves
  <2>3. CASE p = "dispatch" /\ UNCHANGED pc
    BY <1>2, <2>3, NobodyMoves
  <2>. QED BY <1>1, <2>2, <2>3
<1>5. n \in Nat /\ batch[w] \in Nat
  BY RioCoreConstants DEF CoreTypeOK
<1>6. CoreTypeOK'
  <2>1. batch' \in [CoreWorkers -> 0..Batch]
    BY <1>1 DEF CoreTypeOK
  <2>2. ASSUME NEW v \in CoreWorkers PROVE batch'[v] > 0 <=> pc'[v] = "dispatch"
    BY <1>1, <1>4, <1>5 DEF CoreTypeOK
  <2>. QED BY <1>2, <1>4, <2>1, <2>2 DEF CoreTypeOK, flagVars, lifeVars, queueVars
<1>7. IoCounted'
  <2>1. InBatches' = InBatches - batch[w] + n
    BY <1>1, BatchesStep, Zenon
  <2>2. InBatches \in Nat /\ Cardinality(counted) \in Nat /\ Total(kernel) \in Nat /\ Total(done) \in Nat
    BY BatchesType, CountedChange DEF Total, Queues, CoreTypeOK
  <2>3. InFlight' = InFlight - batch[w] + n /\ InFlight \in Nat
    <3>1. counted' = counted /\ Total(kernel)' = Total(kernel) /\ Total(done)' = Total(done)
      BY <1>2 DEF Total, queueVars
    <3>. QED BY <1>5, <2>1, <2>2, <3>1 DEF InFlight
  <2>. QED BY <1>1, <1>2, <1>5, <2>3 DEF IoCounted, flagVars, CoreTypeOK
<1>8. DoorClosed'
  BY <1>2, <1>4 DEF DoorClosed, flagVars, lifeVars
<1>9. NobodyLeft'
  <2>1. ~Joined
    BY <1>2 DEF Joined
  <2>. QED BY <1>2, <1>4, <2>1 DEF NobodyLeft, lifeVars
<1>10. EnoughStops'
  <2>1. Active' \subseteq Active
    BY <1>2, <1>4 DEF Active
  <2>. QED BY <1>2, <2>1, ActiveChange DEF EnoughStops, CoreTypeOK, flagVars
<1>11. Armed'
  <2>1. \A r \in Queues : ~Listens(w, r)'
    BY <1>4 DEF Listens
  <2>. QED BY <2>1 DEF Armed
<1>. QED BY <1>6, <1>7, <1>8, <1>9, <1>10, <1>11

-----------------------------------------------------------------------------
(* The stop and the shutdown.                                                *)
LEMMA Stops ==
  ASSUME CoreInv, StopInternal, UNCHANGED <<corrupt, workerRunning, destroyed, shutdownDone, ioVarsOfCore, queueVars, batch>>,
         NEW k \in Closers, pc[k] = "idle", Move(k, "join") \/ UNCHANGED pc,
         shutdownRuns' \in BOOLEAN, pc["starter"] = "idle"
  PROVE  CoreInv'
<1>. USE DEF CoreInv
<1>1. /\ DOMAIN pc' = CoreThreads /\ pc'["starter"] = pc["starter"]
      /\ pc'[k] \in {"idle", "join"} /\ \A j \in Closers \ {k} : pc'[j] = pc[j]
      /\ \A v \in CoreWorkers : pc'[v] = pc[v] /\ pc'[v] \in WorkerPlaces
      /\ \A j \in Closers : pc'[j] \in CloserPlaces
      /\ Active' = Active /\ (Joined' <=> Joined)
      /\ \A v \in CoreWorkers, q \in Queues : Listens(v, q)' <=> Listens(v, q)
  <2>1. "join" \in CloserPlaces
    BY DEF CloserPlaces
  <2>2. CASE Move(k, "join")
    BY <2>1, <2>2, CloserMoves
  <2>3. CASE UNCHANGED pc
    BY <2>3, NobodyMoves
  <2>. QED BY <2>2, <2>3
<1>2. /\ submitting = {} /\ coreState' # "Running" /\ coreState' \in {coreState, "Stopping"}
      /\ coreState = "Running" => coreState' = "Stopping"
      /\ packets' \in [{"stop", "recv", "send"} -> Nat]
      /\ \A q \in Queues : packets'[q] = packets[q]
      /\ packets'["stop"] >= packets["stop"]
      /\ coreState' \in {"Stopping", "Faulted"} /\ workerRunning => packets'["stop"] >= Cardinality(CoreWorkers)
  <2>1. /\ submitting = {} /\ coreState' # "Running" /\ coreState' \in {coreState, "Stopping"}
        /\ coreState = "Running" => coreState' = "Stopping"
    BY DEF StopInternal
  <2>2. /\ packets \in [{"stop", "recv", "send"} -> Nat] /\ Cardinality(CoreWorkers) \in Nat
    BY ActiveChange DEF CoreTypeOK
  <2>3. CASE coreState' \in {"Stopping", "Faulted"} /\ workerRunning
    <3>1. packets' = [packets EXCEPT !["stop"] = packets["stop"] + Cardinality(CoreWorkers)]
      BY <2>3 DEF StopInternal, WakeWorkers
    <3>. QED BY <2>1, <2>2, <3>1 DEF Queues
  <2>4. CASE ~(coreState' \in {"Stopping", "Faulted"} /\ workerRunning)
    <3>1. packets' = packets
      BY <2>4 DEF StopInternal
    <3>. QED BY <2>1, <2>2, <2>4, <3>1 DEF Queues
  <2>. QED BY <2>3, <2>4
<1>3. CoreTypeOK'
  BY <1>1, <1>2 DEF CoreTypeOK, ioVarsOfCore, queueVars
<1>4. IoCounted'
  BY BatchesType DEF IoCounted, InFlight, ioVarsOfCore, queueVars, Total
<1>5. DoorClosed'
  BY <1>1, <1>2 DEF DoorClosed, ioVarsOfCore
<1>6. NobodyLeft'
  <2>1. WorkersLeft' => WorkersLeft
    BY <1>1 DEF WorkersLeft
  <2>. QED BY <1>1, <2>1 DEF NobodyLeft, ioVarsOfCore, queueVars, Total
<1>7. EnoughStops'
  <2>1. CASE coreState = "Running"
    BY <1>1, <1>2, <2>1, ActiveChange DEF EnoughStops, CoreTypeOK
  <2>2. CASE coreState # "Running"
    BY <1>1, <1>2, <2>2, ActiveChange DEF EnoughStops, CoreTypeOK
  <2>. QED BY <2>1, <2>2
<1>8. Armed'
  BY <1>1, <1>2 DEF Armed, queueVars
<1>. QED BY <1>3, <1>4, <1>5, <1>6, <1>7, <1>8

LEMMA RequestStopStep ==
  ASSUME CoreInv, NEW k \in Closers, RequestStop(k)
  PROVE  CoreInv'
<1>1. /\ pc[k] = "idle" /\ pc["starter"] = "idle" /\ StopInternal
      /\ UNCHANGED <<corrupt, workerRunning, lifeVars, ioVarsOfCore, queueVars, pc, batch>>
      /\ shutdownRuns' \in BOOLEAN
  BY DEF RequestStop, lifeVars, CoreInv, CoreTypeOK
<1>2. UNCHANGED <<corrupt, workerRunning, destroyed, shutdownDone, ioVarsOfCore, queueVars, batch>>
  BY <1>1 DEF lifeVars
<1>. QED BY <1>1, <1>2, Stops

(* A closer moves on, or drains, and nothing else happens.                   *)
LEMMA CloserGoesOn ==
  ASSUME CoreInv, NEW k \in Closers, NEW p \in CloserPlaces, Move(k, p),
         UNCHANGED <<corrupt, ioVarsOfCore, queueVars, packets, batch>>,
         workerRunning' \in BOOLEAN, shutdownRuns' \in BOOLEAN, shutdownDone' \in BOOLEAN,
         shutdownRuns' => shutdownRuns,
         p \in {"join", "drain", "destroy", "finish"} => pc[k] \in {"join", "drain", "destroy", "finish"},
         p \in {"drain", "destroy", "finish"} => Joined,
         destroyed' \in BOOLEAN,
         destroyed' => destroyed \/ (pc[k] = "destroy" /\ outstanding = 0),
         coreState' = coreState
           \/ (pc[k] = "finish" /\ coreState' \in {"Closed", "Faulted", "Stopping"}),
         workerRunning' = workerRunning \/ pc[k] = "join"
  PROVE  CoreInv'
<1>. USE DEF CoreInv
<1>1. /\ DOMAIN pc' = CoreThreads /\ pc'["starter"] = pc["starter"]
      /\ pc'[k] = p /\ \A j \in Closers \ {k} : pc'[j] = pc[j]
      /\ \A v \in CoreWorkers : pc'[v] = pc[v] /\ pc'[v] \in WorkerPlaces
      /\ \A j \in Closers : pc'[j] \in CloserPlaces
      /\ Active' = Active /\ (Joined' <=> Joined)
      /\ \A v \in CoreWorkers, q \in Queues : Listens(v, q)' <=> Listens(v, q)
  BY CloserMoves
<1>2. /\ ShuttingDown' => ShuttingDown
      /\ WorkersLeft' => WorkersLeft \/ Joined
      /\ pc[k] \in {"join", "drain", "destroy", "finish"} => ShuttingDown
      /\ pc[k] \in {"drain", "destroy", "finish"} => WorkersLeft
  BY <1>1 DEF ShuttingDown, WorkersLeft
<1>3. CoreTypeOK'
  BY <1>1 DEF CoreTypeOK, ioVarsOfCore, queueVars
<1>4. IoCounted'
  BY BatchesType DEF IoCounted, InFlight, ioVarsOfCore, queueVars, Total
<1>5. DoorClosed'
  <2>1. (shutdownRuns' \/ destroyed' \/ ShuttingDown') => (shutdownRuns \/ destroyed \/ ShuttingDown)
    BY <1>2
  <2>2. coreState # "Running" => coreState' # "Running"
    OBVIOUS
  <2>. QED BY <1>1, <2>1, <2>2 DEF DoorClosed, ioVarsOfCore
<1>6. NobodyLeft'
  <2>1. destroyed' \/ WorkersLeft' => Joined
    BY <1>2 DEF NobodyLeft
  <2>2. ASSUME destroyed', ~destroyed PROVE Total(kernel) = 0 /\ Total(done) = 0
    <3>1. /\ InBatches \in Nat /\ Cardinality(counted) \in Nat
          /\ Total(kernel) \in Nat /\ Total(done) \in Nat
      BY BatchesType, CountedChange DEF Total, Queues, CoreTypeOK
    <3>2. outstanding = 0
      BY <2>2
    <3>. QED BY <3>1, <3>2 DEF IoCounted, InFlight
  <2>3. Total(kernel)' = Total(kernel) /\ Total(done)' = Total(done)
    BY DEF Total, ioVarsOfCore, queueVars
  <2>. QED BY <1>1, <2>1, <2>2, <2>3 DEF NobodyLeft
<1>7. EnoughStops'
  <2>1. (pc[k] = "finish" \/ pc[k] = "join") => coreState # "Running"
    BY <1>2 DEF DoorClosed
  <2>2. coreState' = "Running" => coreState = "Running" /\ workerRunning' = workerRunning
    BY <2>1
  <2>3. coreState' # "Running" => coreState # "Running"
    BY <2>1
  <2>. QED BY <1>1, <2>2, <2>3 DEF EnoughStops
<1>8. Armed'
  BY <1>1 DEF Armed, queueVars
<1>. QED BY <1>3, <1>4, <1>5, <1>6, <1>7, <1>8

LEMMA ShutdownStepStep ==
  ASSUME CoreInv, NEW k \in Closers,
         AwaitOther(k) \/ JoinWorkers(k) \/ DrainEnds(k) \/ DestroyResources(k) \/ FinishShutdown(k)
  PROVE  CoreInv'
<1>. USE DEF CoreInv
<1>1. pc[k] \in {"drain", "destroy", "finish"} => Joined
  BY DEF NobodyLeft, WorkersLeft
<1>2. {"idle", "drain", "destroy", "finish"} \subseteq CloserPlaces
  BY DEF CloserPlaces
<1>3. CASE AwaitOther(k)
  BY <1>2, <1>3, CloserGoesOn DEF AwaitOther, flagVars, lifeVars, CoreTypeOK
<1>4. CASE JoinWorkers(k)
  BY <1>2, <1>4, CloserGoesOn DEF JoinWorkers, lifeVars, CoreTypeOK
<1>5. CASE DrainEnds(k)
  BY <1>1, <1>2, <1>5, CloserGoesOn DEF DrainEnds, flagVars, lifeVars, CoreTypeOK
<1>6. CASE DestroyResources(k)
  BY <1>1, <1>2, <1>6, CloserGoesOn DEF DestroyResources, flagVars, CoreTypeOK
<1>7. CASE FinishShutdown(k)
  BY <1>1, <1>2, <1>7, CloserGoesOn DEF FinishShutdown, CoreTypeOK
<1>. QED BY <1>3, <1>4, <1>5, <1>6, <1>7

LEMMA ShutdownEntry ==
  ASSUME CoreInv, NEW k \in Closers, Shutdown(k)
  PROVE  CoreInv'
<1>. USE DEF CoreInv
<1>1. CASE shutdownRuns
  <2>1. /\ Move(k, "awaitOther") /\ "awaitOther" \in CloserPlaces
        /\ UNCHANGED <<coreState, packets, shutdownRuns>>
        /\ UNCHANGED <<corrupt, workerRunning, shutdownDone, destroyed, ioVarsOfCore, queueVars, batch>>
    BY <1>1 DEF Shutdown, CloserPlaces
  <2>. QED BY <2>1, CloserGoesOn DEF CoreTypeOK
<1>2. CASE ~shutdownRuns
  <2>1. /\ Move(k, "join") /\ shutdownRuns' \in BOOLEAN /\ StopInternal
        /\ pc[k] = "idle" /\ pc["starter"] = "idle"
        /\ UNCHANGED <<corrupt, workerRunning, destroyed, shutdownDone, ioVarsOfCore, queueVars, batch>>
    BY <1>2 DEF Shutdown
  <2>. QED BY <2>1, Stops
<1>. QED BY <1>1, <1>2

LEMMA DrainOnceStep ==
  ASSUME CoreInv, NEW k \in Closers, DrainOnce(k)
  PROVE  CoreInv'
<1>. USE DEF CoreInv
<1>1. PICK q \in Queues :
        /\ done' = [done EXCEPT ![q] = done[q] - Min({done[q], Batch})]
        /\ outstanding' = outstanding - Min({done[q], Batch})
  BY DEF DrainOnce
<1> DEFINE n == Min({done[q], Batch})
<1>2. done[q] \in Nat /\ n \in Nat /\ n <= done[q]
  <2>1. done[q] \in Nat
    BY DEF CoreTypeOK
  <2>. QED BY <2>1, TakenAtMost, RioCoreConstants
<1>. HIDE DEF n
<1>3. UNCHANGED <<flagVars, lifeVars, submitting, counted, issued, kernel, armed, packets, pc, batch>>
  BY DEF DrainOnce
<1>4. /\ done' \in [Queues -> Nat] /\ Total(done)' = Total(done) - n /\ Total(done) \in Nat
      /\ Total(done) = 0 => Total(done)' = 0
      /\ \A r \in Queues : done[r] = 0 => done'[r] = 0
  BY <1>1, <1>2 DEF Total, Queues, CoreTypeOK, n
<1>5. CoreTypeOK'
  BY <1>1, <1>2, <1>3, <1>4 DEF CoreTypeOK, flagVars, lifeVars, n
<1>6. IoCounted'
  <2>1. /\ InBatches' = InBatches /\ InBatches \in Nat /\ Cardinality(counted) \in Nat
        /\ Total(kernel)' = Total(kernel) /\ Total(kernel) \in Nat /\ counted' = counted
    BY <1>3, BatchesType, CountedChange DEF Total, Queues, CoreTypeOK
  <2>2. InFlight' = InFlight - n /\ InFlight \in Nat
    BY <1>2, <1>4, <2>1 DEF InFlight
  <2>3. outstanding' = outstanding - n /\ outstanding \in Int /\ corrupt' = corrupt
    BY <1>1, <1>3 DEF flagVars, CoreTypeOK, n
  <2>. QED BY <1>2, <2>2, <2>3 DEF IoCounted
<1>7. DoorClosed'
  BY <1>3, NobodyMoves DEF DoorClosed, flagVars, lifeVars
<1>8. NobodyLeft'
  BY <1>3, <1>4, NobodyMoves DEF NobodyLeft, lifeVars, Total
<1>9. EnoughStops'
  BY <1>3, NobodyMoves DEF EnoughStops, flagVars
<1>10. Armed'
  BY <1>3, <1>4, NobodyMoves DEF Armed
<1>. QED BY <1>5, <1>6, <1>7, <1>8, <1>9, <1>10

-----------------------------------------------------------------------------
LEMMA CoreInitOK == CoreInit => CoreInv
<1>. SUFFICES ASSUME CoreInit PROVE CoreInv
  OBVIOUS
<1>1. /\ \A w \in CoreWorkers : w \in CoreThreads /\ pc[w] = "none" /\ w # "starter"
      /\ \A k \in Closers : pc[k] = "idle"
      /\ DOMAIN pc = CoreThreads
  BY RioCoreThreads DEF CoreInit, CoreThreads
<1>2. CoreTypeOK
  <2>1. /\ batch \in [CoreWorkers -> 0..Batch] /\ \A w \in CoreWorkers : batch[w] = 0
        /\ packets \in [{"stop", "recv", "send"} -> Nat]
        /\ kernel \in [Queues -> Nat] /\ done \in [Queues -> Nat] /\ armed \in [Queues -> BOOLEAN]
    BY RioCoreConstants DEF CoreInit
  <2>2. /\ \A w \in CoreWorkers : pc[w] \in WorkerPlaces /\ ~(batch[w] > 0) /\ pc[w] # "dispatch"
        /\ \A k \in Closers : pc[k] \in CloserPlaces
    BY <1>1, <2>1 DEF WorkerPlaces, CloserPlaces
  <2>3. \A w \in CoreWorkers : batch[w] > 0 <=> pc[w] = "dispatch"
    BY <2>2
  <2>4. /\ coreState \in {"Initialized", "Running", "Stopping", "Stopped", "Faulted", "Closed"}
        /\ outstanding \in Int /\ issued \in Nat
        /\ submitting \subseteq CoreWorkers \union Submitters /\ counted \subseteq submitting
    BY SMT DEF CoreInit
  <2>5. /\ corrupt \in BOOLEAN /\ workerRunning \in BOOLEAN
        /\ shutdownRuns \in BOOLEAN /\ shutdownDone \in BOOLEAN /\ destroyed \in BOOLEAN
    BY Zenon DEF CoreInit
  <2>. QED BY <1>1, <2>1, <2>2, <2>3, <2>4, <2>5 DEF CoreTypeOK
<1>3. IoCounted
  <2>1. InBatches = 0
    <3>1. batch \in [CoreWorkers -> 0..Batch] /\ \A w \in CoreWorkers : batch[w] = 0
      BY RioCoreConstants DEF CoreInit
    <3>. QED BY <3>1, BatchesFinite DEF InBatches, BatchOf
  <2>2. Total(kernel) = 0 /\ Total(done) = 0 /\ Cardinality(counted) = 0
    BY FS_EmptySet DEF CoreInit, Total, Queues
  <2>. QED BY <2>1, <2>2 DEF CoreInit, IoCounted, InFlight
<1>4. DoorClosed /\ NobodyLeft
  BY <1>1 DEF CoreInit, DoorClosed, NobodyLeft, ShuttingDown, WorkersLeft
<1>5. EnoughStops
  BY DEF CoreInit, EnoughStops
<1>6. Armed
  BY <1>1, RioCoreThreads DEF Armed, Listens
<1>. QED BY <1>2, <1>3, <1>4, <1>5, <1>6 DEF CoreInv

LEMMA CoreStep == CoreInv /\ CoreNext => CoreInv'
<1>. SUFFICES ASSUME CoreInv, CoreNext PROVE CoreInv'
  OBVIOUS
<1>1. CASE StartStep
  BY <1>1, StartWorkerStep, StarterStep DEF StartStep
<1>2. ASSUME NEW s \in Submitters, SubmitTest(s) PROVE CoreInv'
  BY <1>2, SubmitTestStep
<1>3. ASSUME NEW t \in Submitters \union CoreWorkers, SubmitStep(t) PROVE CoreInv'
  BY <1>3, SubmitStepStep
<1>4. ASSUME NEW q \in Queues, Complete(q) PROVE CoreInv'
  BY <1>4, CompleteStep
<1>5. ASSUME NEW w \in CoreWorkers, Work(w) \/ DrainFails(w) \/ DispatchSubmits(w) PROVE CoreInv'
  <2>1. CASE DispatchSubmits(w)
    BY <2>1, SubmitTestStep DEF DispatchSubmits
  <2>. QED BY <1>5, <2>1, WorkerLoopStep, DrainFirstStep, NotifyAndDrainStep, TestStoppedStep,
              TakeStopPacketStep, TakeQueuePacketStep, ResultDispatchedStep, DrainFailsStep DEF Work
<1>6. ASSUME NEW k \in Closers, RequestStop(k) \/ Shutdown(k) \/ ShutdownStep(k) PROVE CoreInv'
  BY <1>6, RequestStopStep, ShutdownEntry, ShutdownStepStep, DrainOnceStep DEF ShutdownStep
<1>. QED BY <1>1, <1>2, <1>3, <1>4, <1>5, <1>6 DEF CoreNext

LEMMA CoreStutter == CoreInv /\ UNCHANGED coreVars => CoreInv'
  BY DEF coreVars, flagVars, lifeVars, ioVarsOfCore, queueVars, CoreInv, CoreTypeOK, IoCounted, InFlight, InBatches,
         DoorClosed, NobodyLeft, EnoughStops, Armed, Total, ShuttingDown, WorkersLeft, Joined, Active, Listens

(* The invariant of a core holds of every number of workers, submitters,     *)
(* closers and requests, and of every size of a batch.                       *)
THEOREM CoreInductive == CoreSpec => []CoreInv
<1>. QED BY CoreInitOK, CoreStep, CoreStutter, PTL DEF CoreSpec

(* What Shutdown() destroys is not in use: CRioCore closes its queues and    *)
(* its IOCP when the count of outstanding requests is zero, and that count   *)
(* leaves nothing out.                                                       *)
THEOREM CoreDestroyedAfterLastUse == CoreSpec => []DestroyedAfterLastUse
<1>1. CoreInv => DestroyedAfterLastUse
  BY DEF CoreInv, IoCounted, InFlight, DoorClosed, NobodyLeft, DestroyedAfterLastUse, OutstandingCounted
<1>. QED BY <1>1, CoreInductive, PTL

(* No completion waits for a worker that nobody wakes, and no Shutdown()     *)
(* for a worker that has no packet to wake up by.                            *)
THEOREM CoreWorkersWoken == CoreSpec => []WorkersWoken
<1>1. CoreInv => WorkersWoken
  <2>. SUFFICES ASSUME CoreInv PROVE WorkersWoken
    OBVIOUS
  <2>1. ASSUME \A w \in CoreWorkers : pc[w] = "wait", Total(done) > 0
        PROVE  \E q \in Queues : done[q] > 0 /\ packets[q] > 0
    <3>1. \E q \in Queues : done[q] > 0
      BY <2>1 DEF Total, Queues, CoreInv, CoreTypeOK
    <3>2. \A q \in Queues : done[q] > 0 => packets[q] > 0
      BY <2>1 DEF CoreInv, Armed, Listens
    <3>. QED BY <3>1, <3>2
  <2>2. shutdownRuns => Cardinality(Active) <= packets["stop"]
    BY DEF CoreInv, DoorClosed, EnoughStops
  <2>. QED BY <2>1, <2>2 DEF WorkersWoken, Active
<1>. QED BY <1>1, CoreInductive, PTL

=============================================================================
