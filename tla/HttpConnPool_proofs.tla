----------------------- MODULE HttpConnPool_proofs -----------------------
(* Proofs about HttpConnPool: a request is with one thread, one session or   *)
(* the queue until its callback is called, once; a session is with one       *)
(* request.                                                                  *)
EXTENDS HttpConnPool, FiniteSetTheorems, TLAPS

(* Where the threads can be, and what the variables hold.                    *)
Steps == {"idle", "new", "submit", "connect", "begin", "send", "sent", "callback", "give",
          "down", "release", "scan"}
CloserSteps == {"idle", "stop", "join", "drain", "fail", "closed"}
ConnStates == {"none", "connecting", "up", "closing", "lost", "gone"}
Cores == [request : Requests \union {NoRequest}, sending : BOOLEAN,
          deferred : {"none", "success", "failure"},
          fed : BOOLEAN, timedOut : BOOLEAN, close : BOOLEAN]
Calls == [step : Steps \union CloserSteps, req : Requests \union {NoRequest},
          ses : Links \union {NoLink}, ok : BOOLEAN]

HttpTypeOK ==
    /\ conn \in [Links -> ConnStates] /\ core \in [Links -> Cores]
    /\ idle \in Seq(Links) /\ pending \in Seq(Requests) /\ connected \in SUBSET Links
    /\ poolClosed \in BOOLEAN /\ stopped \in BOOLEAN
    /\ reconnects \in Nat /\ scan \in SUBSET Links
    /\ thread \in [HttpThreads -> Calls]
    /\ left \in [Requests -> Int] /\ late \in SUBSET Requests
    /\ answered \in [Requests -> Nat]

(* A request is carried by one thread, awaited by one session, queued, or    *)
(* answered.                                                                 *)
Holding == {"new", "submit", "begin", "callback"}
Carries(t, r) == thread[t].req = r /\ thread[t].step \in Holding
Carried(r) == \E t \in HttpThreads : Carries(t, r)
Awaited(r) == \E s \in Links : core[s].request = r
Members(q, x) == \E i \in DOMAIN q : q[i] = x
Distinct(q) == \A i, j \in DOMAIN q : q[i] = q[j] => i = j
Queued(r) == Members(pending, r)

RequestsOnce ==
    /\ Distinct(pending)
    /\ \A r \in Requests :
         /\ \A t, u \in HttpThreads : Carries(t, r) /\ Carries(u, r) => t = u
         /\ \A s, l \in Links : core[s].request = r /\ core[l].request = r => s = l
         /\ Carried(r) => ~Awaited(r) /\ ~Queued(r)
         /\ Awaited(r) => ~Queued(r)
         /\ answered[r] = IF Carried(r) \/ Awaited(r) \/ Queued(r) THEN 0 ELSE 1

(* A session is with one thread that is about to use it, or idle, or awaits  *)
(* the response to what was sent, or is not yet connected.                   *)
Has(t, s) ==
    /\ thread[t].ses = s
    /\ \/ thread[t].step \in {"begin", "give", "send", "sent"}
       \/ thread[t].step = "callback" /\ thread[t].ok /\ IsUp(s)
Had(s) == \E t \in HttpThreads : Has(t, s)
Offered(s) == Members(idle, s)
Awaits(s) == ~Told(s) /\ ~core[s].sending
Unused(s) == conn[s] \in {"none", "connecting"}

SessionsOnce ==
    /\ Distinct(idle)
    /\ \A s \in Links :
         /\ \A t, u \in HttpThreads : Has(t, s) /\ Has(u, s) => t = u
         /\ Had(s) => ~Offered(s) /\ ~Awaits(s) /\ ~Unused(s)
         /\ Offered(s) => ~Awaits(s) /\ ~Unused(s)
         /\ Awaits(s) => ~Unused(s)

(* The flag m_sendInProgress is the sender.  While the session awaits, the   *)
(* sender has its request; the end of the session comes for a request that   *)
(* was sent.                                                                 *)
SendersOK ==
    /\ \A s \in Links : core[s].sending <=> \E t \in HttpThreads : SentBy(t, s)
    /\ \A t \in HttpThreads, s \in Links : SentBy(t, s) /\ ~Told(s) =>
         /\ thread[t].req = core[s].request
         /\ conn[s] \notin {"up", "closing"} => ~(thread[t].step = "sent" /\ thread[t].ok)
    /\ \A s \in Links : Awaits(s) => conn[s] \in {"up", "closing"}

(* A session in use is listed as connected, until its end.                   *)
Known(s) == s \in connected \/ conn[s] \in {"lost", "gone"}
Using == {"begin", "send", "sent", "callback", "give"}

ThreadOK(t) ==
    /\ thread[t].step \in IF t = Closer THEN CloserSteps ELSE Steps
    /\ thread[t].step \in Holding \union {"send", "sent"} => thread[t].req \in Requests
    /\ IF thread[t].step \in Using THEN thread[t].ses \in Links /\ Known(thread[t].ses)
                                   ELSE thread[t].ses = NoLink
    /\ thread[t].step \in {"down", "release"} => t \in Links /\ conn[t] = "lost"
    /\ thread[t].step = "release" => t \notin connected
ThreadsOK == \A t \in HttpThreads : ThreadOK(t)

LinksOK ==
    /\ \A s \in connected : conn[s] \in {"up", "closing", "lost"}
    /\ \A s \in Links : Offered(s) => Known(s)
    /\ \A s \in Links : ~Told(s) \/ conn[s] = "up" => Known(s)

(* Nothing is queued once the pool is closed, nor served without workers.    *)
ClosingOK ==
    /\ poolClosed <=> ~Is(Closer, "idle")
    /\ Is(Closer, "closed") => pending = <<>>
    /\ ~WorkersRun => \A s \in Links : conn[s] \in {"none", "connecting", "gone"}

HttpOK ==
    /\ RequestsOnce /\ SessionsOnce
    /\ SendersOK /\ ThreadsOK /\ LinksOK /\ ClosingOK

HttpInv == HttpTypeOK /\ HttpOK

-----------------------------------------------------------------------------
(* The queues: what a sequence without repetitions has after each of the     *)
(* operations on it.                                                         *)
LEMMA Ranks ==
  ASSUME NEW K, IsFiniteSet(K), K \subseteq Nat,
         NEW f, f = [i \in K |-> Cardinality({j \in K : j <= i})]
  PROVE  f \in Bijection(K, 1..Cardinality(K)) /\ Cardinality(K) \in Nat
<1>1. Cardinality(K) \in Nat
  BY FS_CardinalityType
<1>2. ASSUME NEW i \in K
      PROVE  /\ IsFiniteSet({j \in K : j <= i}) /\ f[i] \in 1..Cardinality(K)
  <2> DEFINE B == {j \in K : j <= i}
  <2>1. B \subseteq K /\ i \in B
    OBVIOUS
  <2>2. IsFiniteSet(B) /\ Cardinality(B) <= Cardinality(K)
    BY ONLY <2>1, IsFiniteSet(K), FS_Subset
  <2>3. Cardinality(B) \in Nat /\ Cardinality(B) # 0
    BY ONLY <2>1, <2>2, FS_CardinalityType, FS_EmptySet
  <2>4. f[i] = Cardinality(B)
    OBVIOUS
  <2>5. IsFiniteSet({j \in K : j <= i})
    BY <2>2
  <2>. HIDE DEF B
  <2>. QED BY <1>1, <2>2, <2>3, <2>4, <2>5
<1>3. ASSUME NEW i \in K, NEW k \in K, i < k PROVE f[i] < f[k]
  <2> DEFINE B == {j \in K : j <= i}
             C == {j \in K : j <= k}
  <2>0. i \in Nat /\ k \in Nat /\ \A j \in K : j \in Nat
    OBVIOUS
  <2>1. B \subseteq C /\ k \in C /\ k \notin B
    <3>1. k <= k /\ ~(k <= i) /\ \A j \in K : j <= i => j <= k
      BY <1>3, <2>0
    <3>. QED BY <3>1
  <2>2. IsFiniteSet(B) /\ IsFiniteSet(C)
    BY <1>2
  <2>3. f[i] = Cardinality(B) /\ f[k] = Cardinality(C)
    OBVIOUS
  <2>. HIDE DEF B, C
  <2>4. Cardinality(B) <= Cardinality(C) /\ (Cardinality(B) = Cardinality(C) => B = C)
    BY ONLY <2>1, <2>2, FS_Subset
  <2>5. Cardinality(B) \in Nat /\ Cardinality(C) \in Nat
    BY ONLY <2>2, FS_CardinalityType
  <2>. QED BY <2>1, <2>3, <2>4, <2>5
<1>4. f \in Injection(K, 1..Cardinality(K))
  <2>1. f \in [K -> 1..Cardinality(K)]
    BY <1>2
  <2>2. ASSUME NEW i \in K, NEW k \in K, f[i] = f[k] PROVE i = k
    <3>1. i \in Nat /\ k \in Nat /\ f[i] \in Nat /\ f[k] \in Nat
      BY <1>1, <1>2
    <3>2. ~(i < k) /\ ~(k < i)
      BY <1>3, <2>2, <3>1
    <3>. QED BY <3>1, <3>2
  <2>. QED BY <2>1, <2>2 DEF Injection, IsInjective
<1>5. IsFiniteSet(1..Cardinality(K)) /\ Cardinality(1..Cardinality(K)) = Cardinality(K)
  BY <1>1, FS_Interval
<1>6. f \in Surjection(K, 1..Cardinality(K))
  BY ONLY <1>4, <1>5, FS_Injection
<1>. QED BY <1>1, <1>4, <1>6 DEF Bijection

LEMMA WithoutOf ==
  ASSUME NEW S, NEW q \in Seq(S), Distinct(q), NEW V
  PROVE  /\ Without(q, V) \in Seq(S) /\ Distinct(Without(q, V))
         /\ \A x : Members(Without(q, V), x) <=> Members(q, x) /\ x \notin V
<1> DEFINE K == {i \in DOMAIN q : q[i] \notin V}
           f == [i \in K |-> Cardinality({j \in K : j <= i})]
           Choice(k) == CHOOSE i \in K : Cardinality({j \in K : j <= i}) = k
           at == [k \in 1..Cardinality(K) |-> Choice(k)]
           w == [k \in 1..Cardinality(K) |-> q[at[k]]]
<1>1. IsFiniteSet(K) /\ K \subseteq Nat /\ DOMAIN q = 1..Len(q) /\ Len(q) \in Nat
  <2>1. DOMAIN q = 1..Len(q) /\ Len(q) \in Nat
    OBVIOUS
  <2>2. IsFiniteSet(1..Len(q))
    BY <2>1, FS_Interval
  <2>3. K \subseteq 1..Len(q) /\ K \subseteq Nat
    BY <2>1
  <2>. HIDE DEF K
  <2>4. IsFiniteSet(K)
    BY ONLY <2>2, <2>3, FS_Subset
  <2>. QED BY <2>1, <2>3, <2>4
<1>2. Without(q, V) = w /\ \A k : Choice(k) = CHOOSE i \in K : f[i] = k
  <2>1. \A i \in K : f[i] = Cardinality({j \in K : j <= i})
    OBVIOUS
  <2>2. Without(q, V) = [k \in 1..Cardinality(K) |-> q[Choice(k)]]
    BY DEF Without
  <2>3. w = [k \in 1..Cardinality(K) |-> q[Choice(k)]]
    <3>. HIDE DEF K, Choice
    <3>. QED OBVIOUS
  <2>4. \A k : Choice(k) = CHOOSE i \in K : f[i] = k
    <3>. HIDE DEF K, f
    <3>. QED BY <2>1
  <2>. QED BY ONLY <2>2, <2>3, <2>4
<1>3. f \in Bijection(K, 1..Cardinality(K)) /\ Cardinality(K) \in Nat
  <2>. HIDE DEF K
  <2>. QED BY ONLY <1>1, Ranks
<1>4. \A k \in 1..Cardinality(K) : at[k] \in K /\ f[at[k]] = k
  <2>. HIDE DEF K, f
  <2>1. \A k \in 1..Cardinality(K) : \E i \in K : f[i] = k
    BY <1>3 DEF Bijection, Surjection
  <2>2. \A k \in 1..Cardinality(K) : at[k] = Choice(k)
    OBVIOUS
  <2>. HIDE DEF Choice, at
  <2>. QED BY <1>2, <2>1, <2>2
<1>5. \A i \in K : f[i] \in 1..Cardinality(K) /\ at[f[i]] = i
  <2>. HIDE DEF K, f, at
  <2>1. \A i \in K : f[i] \in 1..Cardinality(K)
    BY <1>3 DEF Bijection, Surjection
  <2>2. \A i, j \in K : f[i] = f[j] => i = j
    BY <1>3 DEF Bijection, Injection, IsInjective
  <2>. QED BY <1>4, <2>1, <2>2
<1>6. \A i \in K : i \in DOMAIN q /\ q[i] \in S /\ q[i] \notin V
  BY <1>1
<1>7. \A i \in DOMAIN q : q[i] \notin V => i \in K
  OBVIOUS
<1>. HIDE DEF K, f, at
<1>8. w \in Seq(S)
  BY <1>3, <1>4, <1>6
<1>9. DOMAIN w = 1..Cardinality(K) /\ \A k \in DOMAIN w : w[k] = q[at[k]]
  OBVIOUS
<1>. HIDE DEF w
<1>10. Distinct(w)
  BY <1>4, <1>6, <1>9 DEF Distinct
<1>11. \A x : Members(w, x) <=> Members(q, x) /\ x \notin V
  BY <1>4, <1>5, <1>6, <1>7, <1>9 DEF Members
<1>. QED BY <1>2, <1>8, <1>10, <1>11

LEMMA QueueOps ==
  ASSUME NEW S, NEW q \in Seq(S), Distinct(q)
  PROVE  /\ \A x \in S : ~Members(q, x) =>
              /\ Append(q, x) \in Seq(S) /\ Distinct(Append(q, x))
              /\ \A y : Members(Append(q, x), y) <=> Members(q, y) \/ y = x
              /\ <<x>> \o q \in Seq(S) /\ Distinct(<<x>> \o q)
              /\ \A y : Members(<<x>> \o q, y) <=> Members(q, y) \/ y = x
         /\ q # <<>> =>
              /\ Head(q) \in S /\ Members(q, Head(q)) /\ Tail(q) \in Seq(S) /\ Distinct(Tail(q))
              /\ \A y : Members(Tail(q), y) <=> Members(q, y) /\ y # Head(q)
         /\ \A i \in DOMAIN q :
              /\ SubSeq(q, 1, i - 1) \in Seq(S) /\ Distinct(SubSeq(q, 1, i - 1))
              /\ q[i] \in S /\ Members(q, q[i])
              /\ \A y : Members(SubSeq(q, 1, i - 1), y) => Members(q, y) /\ y # q[i]
         /\ <<>> \in Seq(S) /\ Distinct(<<>>) /\ \A y : ~Members(<<>>, y)
         /\ \A y : Members(q, y) => y \in S
<1>0. DOMAIN q = 1..Len(q) /\ Len(q) \in Nat /\ \A i \in 1..Len(q) : q[i] \in S
  OBVIOUS
<1>1. ASSUME NEW x \in S, ~Members(q, x)
      PROVE  /\ Append(q, x) \in Seq(S) /\ Distinct(Append(q, x))
             /\ \A y : Members(Append(q, x), y) <=> Members(q, y) \/ y = x
  <2> DEFINE w == Append(q, x)
  <2>1. /\ w \in Seq(S) /\ DOMAIN w = 1..(Len(q) + 1) /\ w[Len(q) + 1] = x
        /\ \A i \in 1..Len(q) : w[i] = q[i]
    OBVIOUS
  <2>. HIDE DEF w
  <2>2. Distinct(w) /\ \A y : Members(w, y) <=> Members(q, y) \/ y = x
    BY <1>0, <1>1, <2>1 DEF Members, Distinct
  <2>. QED BY <2>1, <2>2 DEF w
<1>2. ASSUME NEW x \in S, ~Members(q, x)
      PROVE  /\ <<x>> \o q \in Seq(S) /\ Distinct(<<x>> \o q)
             /\ \A y : Members(<<x>> \o q, y) <=> Members(q, y) \/ y = x
  <2> DEFINE w == <<x>> \o q
  <2>1. /\ w \in Seq(S) /\ DOMAIN w = 1..(Len(q) + 1) /\ w[1] = x
        /\ \A i \in 2..(Len(q) + 1) : w[i] = q[i - 1] /\ i - 1 \in 1..Len(q)
    OBVIOUS
  <2>. HIDE DEF w
  <2>2. \A i \in 1..Len(q) : i + 1 \in 2..(Len(q) + 1) /\ w[i + 1] = q[i]
    BY <1>0, <2>1
  <2>3. Distinct(w)
    <3> SUFFICES ASSUME NEW i \in DOMAIN w, NEW j \in DOMAIN w, w[i] = w[j] PROVE i = j
      BY DEF Distinct
    <3>1. CASE i = 1 \/ j = 1
      <4>1. ASSUME NEW k \in DOMAIN w, k # 1 PROVE w[k] # x
        <5>1. k \in 2..(Len(q) + 1)
          BY <1>0, <2>1, <4>1
        <5>. QED BY <1>0, <1>2, <2>1, <5>1 DEF Members
      <4>. QED BY <2>1, <3>1, <4>1
    <3>2. CASE i # 1 /\ j # 1
      <4>1. i \in 2..(Len(q) + 1) /\ j \in 2..(Len(q) + 1)
        BY <1>0, <2>1, <3>2
      <4>2. q[i - 1] = q[j - 1] /\ i - 1 \in DOMAIN q /\ j - 1 \in DOMAIN q
        BY <1>0, <2>1, <4>1
      <4>3. i - 1 = j - 1
        BY <4>2 DEF Distinct
      <4>. QED BY <1>0, <4>1, <4>3
    <3>. QED BY <3>1, <3>2
  <2>4. ASSUME NEW y PROVE Members(w, y) <=> Members(q, y) \/ y = x
    <3>1. ASSUME Members(w, y) PROVE Members(q, y) \/ y = x
      <4>1. PICK i \in DOMAIN w : w[i] = y
        BY <3>1 DEF Members
      <4>2. i = 1 \/ i \in 2..(Len(q) + 1)
        BY <1>0, <2>1
      <4>. QED BY <1>0, <2>1, <4>1, <4>2 DEF Members
    <3>2. ASSUME Members(q, y) \/ y = x PROVE Members(w, y)
      <4>1. 1 \in DOMAIN w /\ \A i \in DOMAIN q : i + 1 \in DOMAIN w
        BY <1>0, <2>1
      <4>. QED BY <1>0, <2>1, <2>2, <3>2, <4>1 DEF Members
    <3>. QED BY <3>1, <3>2
  <2>. QED BY <2>1, <2>3, <2>4 DEF w
<1>3. ASSUME q # <<>>
      PROVE  /\ Head(q) \in S /\ Members(q, Head(q)) /\ Tail(q) \in Seq(S) /\ Distinct(Tail(q))
             /\ \A y : Members(Tail(q), y) <=> Members(q, y) /\ y # Head(q)
  <2> DEFINE w == Tail(q)
  <2>1. /\ w \in Seq(S) /\ DOMAIN w = 1..(Len(q) - 1) /\ Len(q) >= 1 /\ Head(q) = q[1]
        /\ \A i \in 1..(Len(q) - 1) : w[i] = q[i + 1] /\ i + 1 \in 1..Len(q)
    BY <1>3
  <2>. HIDE DEF w
  <2>2. Head(q) \in S /\ Members(q, Head(q))
    BY <1>0, <2>1 DEF Members
  <2>3. Distinct(w)
    <3> SUFFICES ASSUME NEW i \in DOMAIN w, NEW j \in DOMAIN w, w[i] = w[j] PROVE i = j
      BY DEF Distinct
    <3>1. q[i + 1] = q[j + 1] /\ i + 1 \in DOMAIN q /\ j + 1 \in DOMAIN q
      BY <1>0, <2>1
    <3>2. i + 1 = j + 1
      BY <3>1 DEF Distinct
    <3>. QED BY <2>1, <3>2
  <2>4. ASSUME NEW y PROVE Members(w, y) <=> Members(q, y) /\ y # Head(q)
    <3>1. ASSUME Members(w, y) PROVE Members(q, y) /\ y # Head(q)
      <4>1. PICK i \in DOMAIN w : w[i] = y
        BY <3>1 DEF Members
      <4>2. q[i + 1] = y /\ i + 1 \in DOMAIN q /\ 1 \in DOMAIN q /\ i + 1 # 1
        BY <1>0, <2>1, <4>1
      <4>. QED BY <2>1, <4>2 DEF Members, Distinct
    <3>2. ASSUME Members(q, y), y # Head(q) PROVE Members(w, y)
      <4>1. PICK i \in DOMAIN q : q[i] = y
        BY <3>2 DEF Members
      <4>2. i # 1
        BY <2>1, <3>2, <4>1
      <4>3. i - 1 \in DOMAIN w /\ (i - 1) + 1 = i
        BY <1>0, <2>1, <4>2
      <4>4. w[i - 1] = y
        BY <2>1, <4>1, <4>3
      <4>. QED BY <4>3, <4>4 DEF Members
    <3>. QED BY <3>1, <3>2
  <2>. QED BY <2>1, <2>2, <2>3, <2>4 DEF w
<1>4. ASSUME NEW i \in DOMAIN q
      PROVE  /\ SubSeq(q, 1, i - 1) \in Seq(S) /\ Distinct(SubSeq(q, 1, i - 1))
             /\ q[i] \in S /\ Members(q, q[i])
             /\ \A y : Members(SubSeq(q, 1, i - 1), y) => Members(q, y) /\ y # q[i]
  <2> DEFINE w == SubSeq(q, 1, i - 1)
  <2>1. /\ w \in Seq(S) /\ DOMAIN w = 1..(i - 1)
        /\ \A j \in 1..(i - 1) : w[j] = q[j] /\ j \in 1..Len(q) /\ j # i
    BY <1>0
  <2>. HIDE DEF w
  <2>2. Distinct(w) /\ \A y : Members(w, y) => Members(q, y) /\ y # q[i]
    BY <1>0, <2>1 DEF Distinct, Members
  <2>3. q[i] \in S /\ Members(q, q[i])
    BY <1>0 DEF Members
  <2>. QED BY <2>1, <2>2, <2>3 DEF w
<1>5. <<>> \in Seq(S) /\ Distinct(<<>>) /\ \A y : ~Members(<<>>, y)
  BY DEF Distinct, Members
<1>6. \A y : Members(q, y) => y \in S
  BY <1>0 DEF Members
<1>. QED BY <1>1, <1>2, <1>3, <1>4, <1>5, <1>6
LEMMA LastOf ==
  ASSUME NEW K, IsFiniteSet(K), K \subseteq Nat, K # {}
  PROVE  \E k \in K : \A j \in K : j <= k
<1> DEFINE f == [i \in K |-> Cardinality({j \in K : j <= i})]
<1>1. f \in Bijection(K, 1..Cardinality(K)) /\ Cardinality(K) \in Nat
  BY Ranks
<1>2. Cardinality(K) \in 1..Cardinality(K)
  BY <1>1, FS_EmptySet
<1>3. PICK k \in K : f[k] = Cardinality(K)
  <2>. HIDE DEF f
  <2>. QED BY <1>1, <1>2 DEF Bijection, Surjection
<1> DEFINE B == {j \in K : j <= k}
<1>4. B \subseteq K /\ Cardinality(B) = Cardinality(K)
  BY <1>3
<1>5. B = K
  <2>. HIDE DEF B
  <2>. QED BY <1>4, FS_Subset
<1>. QED BY <1>5

(* The session that was offered last, of those still connected.              *)
LEMMA UsableLast ==
  ASSUME idle \in Seq(Links), Usable # {}
  PROVE  (CHOOSE k \in Usable : \A j \in Usable : j <= k) \in Usable
<1>1. IsFiniteSet(Usable) /\ Usable \subseteq Nat
  <2>1. DOMAIN idle = 1..Len(idle) /\ Len(idle) \in Nat
    OBVIOUS
  <2>2. IsFiniteSet(1..Len(idle))
    BY <2>1, FS_Interval
  <2>3. Usable \subseteq 1..Len(idle) /\ Usable \subseteq Nat
    BY <2>1 DEF Usable
  <2>. QED BY <2>2, <2>3, FS_Subset
<1>2. \E k \in Usable : \A j \in Usable : j <= k
  BY ONLY <1>1, Usable # {}, LastOf
<1>. QED BY <1>2

-----------------------------------------------------------------------------
(* What a step may change.                                                   *)

LEMMA StepsAre ==
  /\ \A p \in {"idle", "new", "submit", "connect", "begin", "send", "sent", "callback", "give",
               "down", "release", "scan", "stop", "join", "drain", "fail", "closed"} :
       p \in Steps \union CloserSteps
  BY DEF Steps, CloserSteps

(* Every step keeps the types.                                               *)
LEMMA CallsAre ==
  ASSUME NEW c \in Calls
  PROVE  /\ \A p \in Steps \union CloserSteps : [c EXCEPT !.step = p] \in Calls
         /\ \A p \in Steps \union CloserSteps, r \in Requests \union {NoRequest} :
              /\ [Resting EXCEPT !.step = p, !.req = r] \in Calls
              /\ [c EXCEPT !.step = p, !.req = r] \in Calls
         /\ \A p \in Steps \union CloserSteps, s \in Links \union {NoLink} :
              /\ [Resting EXCEPT !.step = p, !.ses = s] \in Calls
              /\ [c EXCEPT !.step = p, !.ses = s] \in Calls
         /\ \A p \in Steps \union CloserSteps, b \in BOOLEAN : [c EXCEPT !.step = p, !.ok = b] \in Calls
         /\ \A p \in Steps \union CloserSteps : [Resting EXCEPT !.step = p] \in Calls
         /\ Resting \in Calls
<1>1. Resting \in Calls
  BY StepsAre DEF Calls, Resting
<1> DEFINE P == Steps \union CloserSteps
<1>2. \A d \in Calls : /\ \A p \in P : [d EXCEPT !.step = p] \in Calls
                       /\ \A p \in P, r \in Requests \union {NoRequest} :
                            [d EXCEPT !.step = p, !.req = r] \in Calls
                       /\ \A p \in P, s \in Links \union {NoLink} :
                            [d EXCEPT !.step = p, !.ses = s] \in Calls
                       /\ \A p \in P, b \in BOOLEAN : [d EXCEPT !.step = p, !.ok = b] \in Calls
  BY DEF Calls
<1>. QED BY <1>1, <1>2

LEMMA TypeTurn ==
  ASSUME thread \in [HttpThreads -> Calls], NEW t \in HttpThreads
  PROVE  /\ thread[t] \in Calls
         /\ \A p \in Steps \union CloserSteps : ToStep(t, p) => thread' \in [HttpThreads -> Calls]
         /\ Returns(t) => thread' \in [HttpThreads -> Calls]
         /\ \A s \in Links, ok \in BOOLEAN :
              core[s] \in Cores /\ CallBack(t, s, ok) => thread' \in [HttpThreads -> Calls]
<1>1. thread[t] \in Calls
  OBVIOUS
<1>2. \A c \in Calls : [thread EXCEPT ![t] = c] \in [HttpThreads -> Calls]
  OBVIOUS
<1>3. ASSUME NEW p \in Steps \union CloserSteps, ToStep(t, p) PROVE thread' \in [HttpThreads -> Calls]
  BY <1>1, <1>2, <1>3, CallsAre DEF ToStep
<1>4. ASSUME Returns(t) PROVE thread' \in [HttpThreads -> Calls]
  BY <1>1, <1>2, <1>4, CallsAre, StepsAre DEF Returns
<1>5. ASSUME NEW s \in Links, NEW ok \in BOOLEAN, core[s] \in Cores, CallBack(t, s, ok)
      PROVE  thread' \in [HttpThreads -> Calls]
  <2>1. [step |-> "callback", req |-> core[s].request, ses |-> s, ok |-> ok] \in Calls
    BY <1>5, StepsAre DEF Calls, Cores
  <2>. QED BY <1>2, <1>5, <2>1 DEF CallBack
<1>. QED BY <1>1, <1>3, <1>4, <1>5

LEMMA CutType ==
  ASSUME conn \in [Links -> ConnStates], NEW s \in Links
  PROVE  Cut(s) \in ConnStates /\ [conn EXCEPT ![s] = Cut(s)] \in [Links -> ConnStates]
  BY DEF Cut, ConnStates

LEMMA AnswerType ==
  ASSUME answered \in [Requests -> Nat], late \in SUBSET Requests, NEW R, Answer(R)
  PROVE  answered' \in [Requests -> Nat] /\ late' \in SUBSET Requests
  BY DEF Answer

LEMMA ReconnectType ==
  ASSUME reconnects \in Nat, ScheduleReconnect
  PROVE  reconnects' \in Nat
  BY DEF ScheduleReconnect

LEMMA SubmitAgainType ==
  ASSUME HttpTypeOK, NEW t \in HttpThreads, thread[t].req \in Requests, thread[t].ses \in Links,
         SubmitAgain(t), core' \in [Links -> Cores]
  PROVE  HttpTypeOK'
<1>1. conn' \in [Links -> ConnStates] /\ reconnects' \in Nat
  BY CutType, ReconnectType DEF SubmitAgain, DiscardSession, HttpTypeOK
<1>2. thread' \in [HttpThreads -> Calls]
  BY CallsAre, StepsAre, TypeTurn DEF HttpTypeOK, SubmitAgain
<1>3. left' \in [Requests -> Int]
  BY DEF HttpTypeOK, SubmitAgain
<1>. QED BY <1>1, <1>2, <1>3 DEF HttpTypeOK, SubmitAgain, listVars, tellVars

LEMMA NotBegunType ==
  ASSUME HttpTypeOK, NEW t \in HttpThreads, thread[t].req \in Requests, thread[t].ses \in Links,
         NotBegun(t), core' \in [Links -> Cores]
  PROVE  HttpTypeOK'
<1>1. CASE SubmitAgain(t)
  BY <1>1, SubmitAgainType
<1>2. CASE ~SubmitAgain(t)
  <2>1. /\ Answer({thread[t].req}) /\ DiscardSession(thread[t].ses) /\ Returns(t)
        /\ UNCHANGED <<listVars, poolClosed, stopped, scan, left>>
    BY <1>2 DEF NotBegun
  <2>2. conn' \in [Links -> ConnStates] /\ reconnects' \in Nat
    BY <2>1, CutType, ReconnectType DEF DiscardSession, HttpTypeOK
  <2>3. thread' \in [HttpThreads -> Calls]
    BY <2>1, TypeTurn DEF HttpTypeOK
  <2>4. answered' \in [Requests -> Nat] /\ late' \in SUBSET Requests
    BY <2>1, AnswerType DEF HttpTypeOK
  <2>. QED BY <2>1, <2>2, <2>3, <2>4 DEF HttpTypeOK, listVars
<1>. QED BY <1>1, <1>2

(* Thread t turns to c; a request or a session it is with is so before it    *)
(* turns.                                                                    *)
Turns(t, c) == thread' = [thread EXCEPT ![t] = c]

(* No request moves.                                                         *)
LEMMA RequestsStay ==
  ASSUME RequestsOnce,
         Distinct(pending)', answered' = answered,
         \A r \in Requests : /\ \A u \in HttpThreads : Carries(u, r)' <=> Carries(u, r)
                             /\ \A l \in Links : core'[l].request = r <=> core[l].request = r
                             /\ Queued(r)' <=> Queued(r)
  PROVE  RequestsOnce'
<1>1. \A r \in Requests : /\ Carried(r)' <=> Carried(r)
                          /\ Awaited(r)' <=> Awaited(r)
  BY DEF Carried, Awaited
<1>. QED BY <1>1 DEF RequestsOnce

(* Request m leaves thread t, session s or the queue for another of them, or *)
(* is answered.                                                              *)
AwaitedBy(s, m) == s \in Links /\ core[s].request = m

LEMMA RequestMoves ==
  ASSUME RequestsOnce, NEW t \in HttpThreads, NEW s, NEW m \in Requests,
         Distinct(pending)',
         \A u \in HttpThreads, r \in Requests : u # t \/ r # m => (Carries(u, r)' <=> Carries(u, r)),
         \A l \in Links, r \in Requests : l # s \/ r # m => (core'[l].request = r <=> core[l].request = r),
         \A r \in Requests \ {m} : answered'[r] = answered[r] /\ (Queued(r)' <=> Queued(r)),
         Carries(t, m) \/ AwaitedBy(s, m) \/ Queued(m),
         Carries(t, m)' => ~AwaitedBy(s, m)' /\ ~Queued(m)',
         AwaitedBy(s, m)' => ~Queued(m)',
         answered'[m] = IF Carries(t, m)' \/ AwaitedBy(s, m)' \/ Queued(m)' THEN 0 ELSE 1
  PROVE  RequestsOnce'
<1>1. /\ \A u \in HttpThreads \ {t} : ~Carries(u, m)
      /\ \A l \in Links \ {s} : core[l].request # m
  BY DEF RequestsOnce, Carried, Awaited, AwaitedBy
<1>2. /\ \A u \in HttpThreads \ {t} : ~Carries(u, m)'
      /\ \A l \in Links \ {s} : core'[l].request # m
  BY <1>1
<1>3. \A r \in Requests \ {m} : /\ Carried(r)' <=> Carried(r)
                                /\ Awaited(r)' <=> Awaited(r)
  BY DEF Carried, Awaited
<1>4. /\ Carried(m)' <=> Carries(t, m)'
      /\ Awaited(m)' <=> AwaitedBy(s, m)'
  BY <1>2 DEF Carried, Awaited, AwaitedBy
<1>5. ASSUME NEW r \in Requests
      PROVE  /\ \A v, u \in HttpThreads : Carries(v, r)' /\ Carries(u, r)' => v = u
             /\ \A k, l \in Links : core'[k].request = r /\ core'[l].request = r => k = l
  <2>1. CASE r = m
    BY <1>2, <2>1
  <2>2. CASE r # m
    BY <2>2 DEF RequestsOnce
  <2>. QED BY <2>1, <2>2
<1>. QED BY <1>3, <1>4, <1>5 DEF RequestsOnce

(* No session gets a user it did not have.                                   *)
LEMMA SessionsStay ==
  ASSUME SessionsOnce, Distinct(idle)',
         \A l \in Links : /\ \A u \in HttpThreads : Has(u, l)' => Has(u, l)
                          /\ Offered(l)' => Offered(l)
                          /\ Awaits(l)' => Awaits(l)
                          /\ Unused(l)' => Unused(l)
  PROVE  SessionsOnce'
<1>1. \A l \in Links : Had(l)' => Had(l)
  BY DEF Had
<1>. QED BY <1>1 DEF SessionsOnce

(* Session s passes from one of its uses to another, by thread t.            *)
LEMMA SessionPasses ==
  ASSUME SessionsOnce, NEW t \in HttpThreads, NEW s \in Links,
         Distinct(idle)',
         \A u \in HttpThreads, l \in Links : u # t \/ l # s => (Has(u, l)' => Has(u, l)),
         \A l \in Links \ {s} : /\ Offered(l)' => Offered(l)
                                /\ Awaits(l)' => Awaits(l)
                                /\ Unused(l)' => Unused(l),
         Has(t, s) \/ Offered(s) \/ Awaits(s) \/ Unused(s),
         Has(t, s)' => ~Offered(s)' /\ ~Awaits(s)' /\ ~Unused(s)',
         Offered(s)' => ~Awaits(s)' /\ ~Unused(s)',
         Awaits(s)' => ~Unused(s)'
  PROVE  SessionsOnce'
<1>1. \A u \in HttpThreads \ {t} : ~Has(u, s)
  BY DEF SessionsOnce, Had
<1>2. \A u \in HttpThreads \ {t} : ~Has(u, s)'
  BY <1>1
<1>3. \A l \in Links \ {s} : Had(l)' => Had(l)
  BY DEF Had
<1>4. Had(s)' => Has(t, s)'
  BY <1>2 DEF Had
<1>5. ASSUME NEW l \in Links
      PROVE  \A v, u \in HttpThreads : Has(v, l)' /\ Has(u, l)' => v = u
  <2>1. CASE l = s
    BY <1>2, <2>1
  <2>2. CASE l # s
    BY <2>2 DEF SessionsOnce
  <2>. QED BY <2>1, <2>2
<1>. QED BY <1>3, <1>4, <1>5 DEF SessionsOnce

(* The senders stay where they are.                                          *)
LEMMA SendersStay ==
  ASSUME SendersOK,
         \A u \in HttpThreads, l \in Links : SentBy(u, l)' <=> SentBy(u, l),
         \A u \in HttpThreads, l \in Links : SentBy(u, l)' => thread'[u] = thread[u],
         \A l \in Links : /\ core'[l].sending = core[l].sending
                          /\ ~Told(l)' => /\ core'[l].request = core[l].request
                                          /\ conn[l] \in {"up", "closing"} => conn'[l] \in {"up", "closing"}
  PROVE  SendersOK'
<1>1. \A l \in Links : ~Told(l)' => ~Told(l)
  BY DEF Told
<1>2. \A l \in Links : Awaits(l)' => Awaits(l)
  BY <1>1 DEF Awaits
<1>. QED BY <1>1, <1>2 DEF SendersOK, Awaits

(* The other threads stay as they should be.                                 *)
LEMMA ThreadsTurn ==
  ASSUME HttpTypeOK, ThreadsOK, NEW t \in HttpThreads, NEW c, Turns(t, c), ThreadOK(t)',
         \A l \in Links : Known(l) => Known(l)',
         \A l \in Links \ {t} : /\ conn[l] = "lost" => conn'[l] = "lost"
                                /\ l \notin connected => l \notin connected'
  PROVE  ThreadsOK'
<1>1. ASSUME NEW u \in HttpThreads, u # t PROVE ThreadOK(u)'
  <2>1. thread'[u] = thread[u]
    BY <1>1 DEF Turns, HttpTypeOK
  <2>2. ThreadOK(u)
    BY DEF ThreadsOK
  <2>. QED BY <1>1, <2>1, <2>2 DEF ThreadOK
<1>. QED BY <1>1 DEF ThreadsOK

LEMMA ThreadsStay ==
  ASSUME ThreadsOK, thread' = thread,
         \A l \in Links : /\ Known(l) => Known(l)'
                          /\ conn[l] = "lost" => conn'[l] = "lost"
                          /\ l \notin connected => l \notin connected'
  PROVE  ThreadsOK'
<1>1. ASSUME NEW u \in HttpThreads PROVE ThreadOK(u)'
  <2>1. ThreadOK(u)
    BY DEF ThreadsOK
  <2>. QED BY <2>1 DEF ThreadOK
<1>. QED BY <1>1 DEF ThreadsOK

LEMMA ThreadIs ==
  ASSUME ThreadsOK, NEW t \in HttpThreads, thread[t].step \notin CloserSteps
  PROVE  /\ t # Closer /\ thread[t].step \in Steps
         /\ thread[t].step \in Holding \union {"send", "sent"} => thread[t].req \in Requests
         /\ thread[t].step \in Using => thread[t].ses \in Links /\ Known(thread[t].ses)
  BY DEF ThreadsOK, ThreadOK

LEMMA PoolStepsTyped ==
  ASSUME HttpInv, NEW t \in HttpThreads,
         \/ SubmitClosed(t) \/ SubmitIdle(t) \/ SubmitQueued(t) \/ ConnectOneMore(t) \/ ConnectFails(t)
         \/ RetryFailed(t) \/ Discard(t) \/ Reuse(t) \/ DispatchNext(t) \/ BecomeIdle(t)
  PROVE  HttpTypeOK'
<1>. USE DEF HttpInv, HttpOK, HttpTypeOK, listVars, timerVars, tellVars
<1>1. CASE SubmitClosed(t)
  BY <1>1, TypeTurn, AnswerType DEF SubmitClosed
<1>2. CASE SubmitIdle(t)
  <2> DEFINE i == CHOOSE k \in Usable : \A j \in Usable : j <= k
  <2>1. /\ idle' = SubSeq(idle, 1, i - 1)
        /\ thread' = [thread EXCEPT ![t].step = "begin", ![t].ses = idle[i]]
        /\ UNCHANGED <<conn, core, pending, connected, poolClosed, timerVars, left, tellVars>>
    BY <1>2 DEF SubmitIdle
  <2>2. i \in Usable
    BY <1>2, UsableLast DEF SubmitIdle
  <2>. HIDE DEF i
  <2>3. i \in DOMAIN idle
    BY <2>2 DEF Usable
  <2>4. idle' \in Seq(Links) /\ idle[i] \in Links
    BY <2>1, <2>3, QueueOps DEF SessionsOnce
  <2>5. thread' \in [HttpThreads -> Calls]
    BY <2>1, <2>4, CallsAre, StepsAre, TypeTurn
  <2>. QED BY <2>1, <2>4, <2>5
<1>3. CASE SubmitQueued(t)
  <2>1. thread[t].req \in Requests
    BY <1>3 DEF SubmitQueued, Submitting, Holding, ThreadsOK, ThreadOK
  <2>2. pending' \in Seq(Requests)
    BY <1>3, <2>1 DEF SubmitQueued
  <2>3. thread' \in [HttpThreads -> Calls]
    BY <1>3, TypeTurn, StepsAre DEF SubmitQueued
  <2>. QED BY <1>3, <2>2, <2>3 DEF SubmitQueued
<1>4. CASE ConnectOneMore(t)
  <2>1. conn' \in [Links -> ConnStates]
    BY <1>4 DEF ConnectOneMore, ConnStates
  <2>. QED BY <1>4, <2>1, TypeTurn DEF ConnectOneMore
<1>5. CASE ConnectFails(t)
  BY <1>5, TypeTurn, ReconnectType DEF ConnectFails
<1>6. CASE RetryFailed(t)
  <2>1. thread[t].req \in Requests /\ thread[t].ses \in Links
    BY <1>6 DEF RetryFailed, Is, Holding, Using, ThreadsOK, ThreadOK
  <2>. QED BY <1>6, <2>1, SubmitAgainType DEF RetryFailed
<1>7. CASE Discard(t)
  <2>1. thread[t].req \in Requests /\ thread[t].ses \in Links
    BY <1>7 DEF Discard, Is, Holding, Using, ThreadsOK, ThreadOK
  <2>2. conn' \in [Links -> ConnStates] /\ reconnects' \in Nat
    BY <1>7, <2>1, CutType, ReconnectType DEF DiscardSession, Discard
  <2>. QED BY <1>7, <2>2, TypeTurn, AnswerType DEF Discard
<1>8. CASE Reuse(t)
  <2>1. thread[t].ses \in Links
    BY <1>8 DEF Reuse, Is, Using, ThreadsOK, ThreadOK
  <2>2. thread' \in [HttpThreads -> Calls]
    BY <1>8, <2>1, CallsAre, StepsAre, TypeTurn DEF Reuse
  <2>. QED BY <1>8, <2>2, AnswerType DEF Reuse
<1>9. CASE DispatchNext(t)
  <2>1. pending' \in Seq(Requests) /\ Head(pending) \in Requests
    BY <1>9 DEF DispatchNext
  <2>2. thread' \in [HttpThreads -> Calls]
    BY <1>9, <2>1, CallsAre, StepsAre, TypeTurn DEF DispatchNext
  <2>. QED BY <1>9, <2>1, <2>2 DEF DispatchNext
<1>10. CASE BecomeIdle(t)
  <2>1. thread[t].ses \in Links
    BY <1>10 DEF BecomeIdle, Is, Using, ThreadsOK, ThreadOK
  <2>2. idle' \in Seq(Links)
    BY <1>10, <2>1 DEF BecomeIdle
  <2>. QED BY <1>10, <2>2, TypeTurn DEF BecomeIdle
<1>. QED BY <1>1, <1>2, <1>3, <1>4, <1>5, <1>6, <1>7, <1>8, <1>9, <1>10

LEMMA SendStepsTyped ==
  ASSUME HttpInv, NEW t \in HttpThreads,
         \/ Begin(t) \/ SendBytes(t)
         \/ SentAnswered(t) \/ Sent(t) \/ SentTold(t) \/ SentFailed(t)
  PROVE  HttpTypeOK'
<1>. USE DEF HttpInv, HttpOK, HttpTypeOK, listVars, timerVars, tellVars
<1> DEFINE s == thread[t].ses
<1>1. s \in Links /\ thread[t].req \in Requests
  BY DEF Begin, SendBytes, SentAnswered, Sent, SentTold, SentFailed, Is, Holding, Using, ThreadsOK, ThreadOK
<1>2. core[s] \in Cores
  BY <1>1
<1>. HIDE DEF s
<1>3. \A c \in Cores : /\ [core EXCEPT ![s] = c] \in [Links -> Cores]
                       /\ [c EXCEPT !.sending = FALSE] \in Cores
                       /\ [c EXCEPT !.sending = FALSE, !.deferred = "none", !.request = NoRequest] \in Cores
  BY <1>1 DEF Cores
<1>4. SendOver(s) => core' \in [Links -> Cores]
  BY <1>2, <1>3 DEF SendOver
<1>5. CASE Begin(t)
  <2>1. [Fresh EXCEPT !.request = thread[t].req, !.sending = TRUE] \in Cores
    BY <1>1 DEF Fresh, Cores
  <2>2. CASE Told(s)
    <3>. HIDE DEF HttpInv, HttpOK, HttpTypeOK, listVars, timerVars, tellVars
    <3>0. core' = [core EXCEPT ![s] = [Fresh EXCEPT !.request = thread[t].req, !.sending = TRUE]]
      BY <1>5, <2>2 DEF Begin, s
    <3>. USE DEF HttpInv, HttpOK, HttpTypeOK, listVars, timerVars, tellVars
    <3>1. core' \in [Links -> Cores]
      BY ONLY <1>3, <2>1, <3>0
    <3>. QED BY <1>5, <2>2, <3>1, TypeTurn, StepsAre DEF Begin, s
  <2>3. CASE ~Told(s)
    <3>1. NotBegun(t) /\ core' = core
      BY <1>5, <2>3 DEF Begin, s
    <3>. QED BY <1>1, <3>1, NotBegunType DEF s
  <2>. QED BY <2>2, <2>3
<1>6. CASE SendBytes(t)
  <2>1. PICK ok \in BOOLEAN :
          /\ thread' = [thread EXCEPT ![t].step = "sent", ![t].ok = ok]
          /\ \/ UNCHANGED conn
             \/ ~ok /\ conn' = [conn EXCEPT ![s] = Cut(s)]
    BY <1>6 DEF SendBytes, s
  <2>2. conn' \in [Links -> ConnStates]
    BY <1>1, <2>1, CutType
  <2>3. thread' \in [HttpThreads -> Calls]
    BY <2>1, CallsAre, StepsAre, TypeTurn
  <2>. QED BY <1>6, <2>2, <2>3 DEF SendBytes
<1>7. CASE SentAnswered(t)
  BY <1>1, <1>2, <1>4, <1>7, TypeTurn DEF SentAnswered, s
<1>8. CASE Sent(t)
  <2>1. core' \in [Links -> Cores]
    BY <1>2, <1>3, <1>8 DEF Sent, s
  <2>. QED BY <1>8, <2>1, TypeTurn DEF Sent
<1>9. CASE SentTold(t)
  BY <1>4, <1>9, TypeTurn DEF SentTold, s
<1>10. CASE SentFailed(t)
  BY <1>1, <1>4, <1>10, NotBegunType DEF SentFailed, s
<1>. QED BY <1>5, <1>6, <1>7, <1>8, <1>9, <1>10

LEMMA LinkStepsTyped ==
  ASSUME HttpInv, NEW s \in Links,
         \/ OnSessionConnected(s) \/ Broken(s) \/ FeedMore(s) \/ FeedComplete(s)
         \/ OnSessionDisconnected(s) \/ Down(s) \/ ReleaseSession(s)
  PROVE  HttpTypeOK'
<1>. USE DEF HttpInv, HttpOK, HttpTypeOK, listVars, timerVars, tellVars
<1>0. s \in HttpThreads /\ core[s] \in Cores
  BY DEF HttpThreads
<1>1. \A c \in Cores : /\ [core EXCEPT ![s] = c] \in [Links -> Cores]
                       /\ [c EXCEPT !.fed = TRUE] \in Cores
                       /\ [c EXCEPT !.request = NoRequest] \in Cores
                       /\ [c EXCEPT !.request = NoRequest, !.deferred = "none"] \in Cores
                       /\ \A b \in BOOLEAN :
                            /\ [c EXCEPT !.fed = TRUE, !.close = b] \in Cores
                            /\ \A d \in {"success", "failure"} : [c EXCEPT !.deferred = d] \in Cores
  BY DEF Cores
<1>2. \A x \in ConnStates : [conn EXCEPT ![s] = x] \in [Links -> ConnStates]
  OBVIOUS
<1>3. CASE OnSessionConnected(s)
  <2>1. conn' \in [Links -> ConnStates]
    BY <1>2, <1>3 DEF OnSessionConnected, ConnStates
  <2>2. thread' \in [HttpThreads -> Calls]
    BY <1>0, <1>3, CallsAre, StepsAre, TypeTurn DEF OnSessionConnected
  <2>. QED BY <1>3, <2>1, <2>2 DEF OnSessionConnected
<1>4. CASE Broken(s)
  BY <1>2, <1>4 DEF Broken, ConnStates
<1>5. CASE FeedMore(s)
  <2>1. core' \in [Links -> Cores]
    BY <1>0, <1>1, <1>5 DEF FeedMore
  <2>. QED BY <1>5, <2>1 DEF FeedMore, Receiving
<1>6. CASE FeedComplete(s)
  <2>1. PICK success \in BOOLEAN, close \in BOOLEAN :
          LET parsed == [core[s] EXCEPT !.fed = TRUE, !.close = close]
          IN  IF core[s].sending
              THEN /\ core' = [core EXCEPT ![s] =
                                [parsed EXCEPT !.deferred = IF success THEN "success" ELSE "failure"]]
                   /\ UNCHANGED thread
              ELSE /\ core' = [core EXCEPT ![s] = [parsed EXCEPT !.request = NoRequest]]
                   /\ CallBack(s, s, success)
    BY <1>6 DEF FeedComplete
  <2> DEFINE parsed == [core[s] EXCEPT !.fed = TRUE, !.close = close]
  <2>2. parsed \in Cores
    BY <1>0, <1>1
  <2>. HIDE DEF parsed
  <2>3. \A b : (IF b THEN "success" ELSE "failure") \in {"success", "failure"}
    OBVIOUS
  <2>4. core' \in [Links -> Cores] /\ thread' \in [HttpThreads -> Calls]
    <3>1. CASE core[s].sending
      <4>1. core' = [core EXCEPT ![s] = [parsed EXCEPT !.deferred = IF success THEN "success" ELSE "failure"]]
            /\ thread' = thread
        BY <2>1, <3>1 DEF parsed
      <4>. QED BY <1>1, <2>2, <2>3, <4>1
    <3>2. CASE ~core[s].sending
      <4>1. core' = [core EXCEPT ![s] = [parsed EXCEPT !.request = NoRequest]] /\ CallBack(s, s, success)
        BY <2>1, <3>2 DEF parsed
      <4>2. core' \in [Links -> Cores]
        BY <1>1, <2>2, <4>1
      <4>3. thread' \in [HttpThreads -> Calls]
        BY <1>0, <4>1, TypeTurn
      <4>. QED BY <4>2, <4>3
    <3>. QED BY <3>1, <3>2
  <2>. QED BY <1>6, <2>4 DEF FeedComplete, Receiving
<1>7. CASE OnSessionDisconnected(s)
  <2>1. conn' \in [Links -> ConnStates]
    BY <1>2, <1>7 DEF OnSessionDisconnected, ConnStates
  <2>2. core' \in [Links -> Cores]
    <3>1. core' = core \/ core' = [core EXCEPT ![s] = [core[s] EXCEPT !.request = NoRequest, !.deferred = "none"]]
      BY <1>7 DEF OnSessionDisconnected
    <3>. QED BY <1>0, <1>1, <3>1
  <2>3. thread' \in [HttpThreads -> Calls]
    <3>1. CASE Told(s)
      BY <1>0, <1>7, <3>1, TypeTurn, StepsAre DEF OnSessionDisconnected
    <3>2. CASE ~Told(s)
      <4>1. \E ok \in BOOLEAN : CallBack(s, s, ok)
        BY <1>7, <3>2 DEF OnSessionDisconnected
      <4>. QED BY <1>0, <4>1, TypeTurn
    <3>. QED BY <3>1, <3>2
  <2>. QED BY <1>7, <2>1, <2>2, <2>3 DEF OnSessionDisconnected
<1>8. CASE Down(s)
  <2>1. idle' \in Seq(Links)
    BY <1>8, WithoutOf DEF Down, SessionsOnce
  <2>. QED BY <1>0, <1>8, <2>1, TypeTurn, StepsAre, ReconnectType DEF Down
<1>9. CASE ReleaseSession(s)
  <2>1. conn' \in [Links -> ConnStates]
    BY <1>2, <1>9 DEF ReleaseSession, ConnStates
  <2>. QED BY <1>0, <1>9, <2>1, TypeTurn, StepsAre DEF ReleaseSession
<1>. QED BY <1>3, <1>4, <1>5, <1>6, <1>7, <1>8, <1>9

LEMMA TimerStepsTyped ==
  ASSUME HttpInv,
         \/ \E r \in Requests : TimePasses(r)
         \/ Reconnect \/ ScanTimeouts \/ CheckTimeout
         \/ CloseBegins \/ StopTaskThread \/ CloseService \/ SessionsEmpty \/ FailPendingRequests
  PROVE  HttpTypeOK'
<1>. USE DEF HttpInv, HttpOK, HttpTypeOK, listVars, timerVars, tellVars
<1>0. TaskThread \in HttpThreads /\ Closer \in HttpThreads
  BY DEF HttpThreads
<1>1. CASE \E r \in Requests : TimePasses(r)
  BY <1>1 DEF TimePasses
<1>2. CASE Reconnect
  BY <1>0, <1>2, TypeTurn, StepsAre DEF Reconnect
<1>3. CASE ScanTimeouts
  <2>1. pending' \in Seq(Requests)
    BY <1>3, WithoutOf DEF ScanTimeouts, RequestsOnce
  <2>2. thread' \in [HttpThreads -> Calls]
    BY <1>0, <1>3, TypeTurn, StepsAre DEF ScanTimeouts
  <2>. QED BY <1>3, <2>1, <2>2, AnswerType DEF ScanTimeouts
<1>4. CASE CheckTimeout
  <2>1. PICK s \in scan :
          /\ scan' = scan \ {s}
          /\ IF core[s].request \in late /\ core[s].deferred = "none"
             THEN /\ core' = [core EXCEPT ![s] = [@ EXCEPT !.timedOut = TRUE, !.request = NoRequest]]
                  /\ CallBack(TaskThread, s, FALSE)
             ELSE /\ ToStep(TaskThread, IF scan = {s} THEN "idle" ELSE "scan")
                  /\ UNCHANGED core
    BY <1>4 DEF CheckTimeout
  <2>2. s \in Links /\ core[s] \in Cores
    OBVIOUS
  <2>3. core' \in [Links -> Cores]
    <3>1. core' = core \/ core' = [core EXCEPT ![s] = [core[s] EXCEPT !.timedOut = TRUE, !.request = NoRequest]]
      BY <2>1
    <3>2. \A c \in Cores : [c EXCEPT !.timedOut = TRUE, !.request = NoRequest] \in Cores
      BY DEF Cores
    <3>. QED BY <2>2, <3>1, <3>2
  <2>4. thread' \in [HttpThreads -> Calls]
    BY <1>0, <2>1, <2>2, TypeTurn, StepsAre
  <2>. QED BY <1>4, <2>1, <2>3, <2>4 DEF CheckTimeout
<1>5. CASE CloseBegins
  BY <1>0, <1>5, TypeTurn, StepsAre DEF CloseBegins
<1>6. CASE StopTaskThread
  BY <1>0, <1>6, TypeTurn, StepsAre DEF StopTaskThread
<1>7. CASE CloseService
  <2>1. conn' \in [Links -> ConnStates]
    BY <1>7, CutType DEF CloseService
  <2>. QED BY <1>0, <1>7, <2>1, TypeTurn, StepsAre DEF CloseService
<1>8. CASE SessionsEmpty
  BY <1>0, <1>8, TypeTurn, StepsAre DEF SessionsEmpty
<1>9. CASE FailPendingRequests
  BY <1>0, <1>9, TypeTurn, StepsAre, AnswerType DEF FailPendingRequests
<1>. QED BY <1>1, <1>2, <1>3, <1>4, <1>5, <1>6, <1>7, <1>8, <1>9

(* Where requests, sessions and senders are after thread t has turned to c.  *)
LEMMA Turned ==
  ASSUME HttpTypeOK, NEW t \in HttpThreads, NEW c, Turns(t, c)
  PROVE  /\ thread'[t] = c /\ \A u \in HttpThreads \ {t} : thread'[u] = thread[u]
         /\ \A u \in HttpThreads : \A r :
              Carries(u, r)' <=> IF u = t THEN c.req = r /\ c.step \in Holding ELSE Carries(u, r)
         /\ \A u \in HttpThreads : \A l :
              SentBy(u, l)' <=> IF u = t THEN c.ses = l /\ c.step \in {"send", "sent"} ELSE SentBy(u, l)
         /\ \A l : /\ (IsUp(l)' => IsUp(l)) => \A u \in HttpThreads \ {t} : Has(u, l)' => Has(u, l)
                   /\ Has(t, l)' <=> /\ c.ses = l
                                     /\ \/ c.step \in {"begin", "give", "send", "sent"}
                                        \/ c.step = "callback" /\ c.ok /\ IsUp(l)'
<1>1. thread'[t] = c /\ \A u \in HttpThreads \ {t} : thread'[u] = thread[u]
  BY DEF Turns, HttpTypeOK
<1>2. \A u \in HttpThreads : \A r :
        Carries(u, r)' <=> IF u = t THEN c.req = r /\ c.step \in Holding ELSE Carries(u, r)
  BY <1>1 DEF Carries
<1>3. \A u \in HttpThreads : \A l :
        SentBy(u, l)' <=> IF u = t THEN c.ses = l /\ c.step \in {"send", "sent"} ELSE SentBy(u, l)
  BY <1>1 DEF SentBy
<1>4. \A l : (IsUp(l)' => IsUp(l)) => \A u \in HttpThreads \ {t} : Has(u, l)' => Has(u, l)
  BY <1>1 DEF Has
<1>5. \A l : Has(t, l)' <=> /\ c.ses = l
                            /\ \/ c.step \in {"begin", "give", "send", "sent"}
                               \/ c.step = "callback" /\ c.ok /\ IsUp(l)'
  BY <1>1 DEF Has
<1>. QED BY <1>1, <1>2, <1>3, <1>4, <1>5

(* At most a connection in use is cut.                                       *)
ConnSoft ==
    /\ connected' = connected
    /\ \A l \in Links :
         /\ Unused(l)' => Unused(l)
         /\ IsUp(l)' => IsUp(l)
         /\ conn[l] \in {"up", "closing"} => conn'[l] \in {"up", "closing"}
         /\ Known(l)' <=> Known(l)
         /\ conn'[l] = "lost" <=> conn[l] = "lost"
         /\ conn[l] \in {"none", "connecting", "gone"} => conn'[l] \in {"none", "connecting", "gone"}

LEMMA ConnCut ==
  ASSUME HttpTypeOK, LinksOK, connected' = connected,
         \/ conn' = conn
         \/ \E s \in Links : Known(s) /\ conn' = [conn EXCEPT ![s] = Cut(s)]
         \/ \E s \in Links : conn[s] = "none" /\ conn' = [conn EXCEPT ![s] = "connecting"]
  PROVE  ConnSoft
<1>1. CASE conn' = conn
  BY <1>1 DEF ConnSoft, Unused, IsUp, Known
<1>2. ASSUME NEW s \in Links, Known(s), conn' = [conn EXCEPT ![s] = Cut(s)] PROVE ConnSoft
  <2>1. conn[s] \in {"up", "closing", "lost", "gone"}
    BY <1>2 DEF Known, LinksOK
  <2>2. /\ conn'[s] = IF conn[s] = "up" THEN "closing" ELSE conn[s]
        /\ \A l \in Links \ {s} : conn'[l] = conn[l]
    BY <1>2, <2>1 DEF Cut, HttpTypeOK
  <2>. QED BY <2>1, <2>2 DEF ConnSoft, Unused, IsUp, Known
<1>3. ASSUME NEW s \in Links, conn[s] = "none", conn' = [conn EXCEPT ![s] = "connecting"] PROVE ConnSoft
  <2>1. conn'[s] = "connecting" /\ \A l \in Links \ {s} : conn'[l] = conn[l]
    BY <1>3 DEF HttpTypeOK
  <2>. QED BY <1>3, <2>1 DEF ConnSoft, Unused, IsUp, Known
<1>. QED BY <1>1, <1>2, <1>3

(* What every step of a thread in the pool needs, beside the requests, the   *)
(* sessions and the senders.                                                 *)
LEMMA PoolKeeps ==
  ASSUME HttpInv, NEW t \in HttpThreads, t # Closer, NEW c, Turns(t, c), ConnSoft, ThreadOK(t)',
         poolClosed' = poolClosed, poolClosed /\ pending = <<>> => pending' = <<>>,
         \A l \in Links : (Offered(l)' => Known(l)) /\ (~Told(l)' => Known(l))
  PROVE  ThreadsOK' /\ LinksOK' /\ ClosingOK'
<1>. USE DEF HttpInv, HttpOK
<1>1. ThreadsOK'
  BY ThreadsTurn DEF ConnSoft
<1>2. LinksOK'
  <2>1. \A s \in connected' : conn'[s] \in {"up", "closing", "lost"}
    BY DEF ConnSoft, LinksOK, HttpTypeOK
  <2>2. \A s \in Links : ~Told(s)' \/ conn'[s] = "up" => Known(s)'
    BY DEF ConnSoft, LinksOK, IsUp
  <2>3. \A s \in Links : Offered(s)' => Known(s)'
    BY DEF ConnSoft
  <2>. QED BY <2>1, <2>2, <2>3 DEF LinksOK
<1>3. ClosingOK'
  <2>1. Closer \in HttpThreads
    BY DEF HttpThreads
  <2>2. thread'[Closer] = thread[Closer]
    BY <2>1, Turned
  <2>. QED BY <2>2 DEF ClosingOK, Is, WorkersRun, ConnSoft
<1>. QED BY <1>1, <1>2, <1>3

LEMMA PoolKeepsCores ==
  ASSUME HttpInv, NEW t \in HttpThreads, t # Closer, NEW c, Turns(t, c), ConnSoft, ThreadOK(t)',
         poolClosed' = poolClosed, poolClosed /\ pending = <<>> => pending' = <<>>,
         \A l \in Links : Offered(l)' => Known(l),
         core' = core
  PROVE  ThreadsOK' /\ LinksOK' /\ ClosingOK'
<1>1. \A l \in Links : ~Told(l)' => Known(l)
  BY DEF Told, LinksOK, HttpInv, HttpOK
<1>. QED BY <1>1, PoolKeeps

(* The call that handled a request returns.                                  *)
Rests(c) == c.req = NoRequest /\ c.ses = NoLink /\ c.step \in {"idle", "scan", "down"}

LEMMA ReturnsOK ==
  ASSUME HttpTypeOK, NEW t \in HttpThreads, t # Closer, Returns(t), ConnSoft
  PROVE  \E c : Turns(t, c) /\ Rests(c) /\ ThreadOK(t)'
<1> DEFINE p == IF t \in Links /\ conn[t] = "lost" THEN "down"
                ELSE IF t = TaskThread /\ scan # {} THEN "scan" ELSE "idle"
           c == [Resting EXCEPT !.step = p]
<1>1. Turns(t, c)
  BY DEF Turns, Returns
<1>2. c.step = p /\ c.req = NoRequest /\ c.ses = NoLink
  BY DEF Resting
<1>3. p \in {"idle", "scan", "down"} /\ (p = "down" => t \in Links /\ conn[t] = "lost")
  OBVIOUS
<1>. HIDE DEF c, p
<1>4. thread'[t] = c
  BY <1>1, Turned
<1>5. ThreadOK(t)'
  BY <1>2, <1>3, <1>4 DEF ThreadOK, Steps, Holding, Using, ConnSoft
<1>. QED BY <1>1, <1>2, <1>3, <1>5 DEF Rests

-----------------------------------------------------------------------------
(* The steps of Submit(), DispatchOrIdle() and OnRequestComplete().          *)
Answers(m) ==
    /\ answered'[m] = answered[m] + 1
    /\ \A r \in Requests \ {m} : answered'[r] = answered[r]

LEMMA AnswerOf ==
  ASSUME HttpTypeOK, NEW m \in Requests, Answer({m})
  PROVE  Answers(m)
  BY DEF Answer, Answers, HttpTypeOK

(* A request that a thread is done with is answered.                         *)
LEMMA CarriedAnswered ==
  ASSUME HttpInv, NEW t \in HttpThreads, NEW c, Turns(t, c), NEW m \in Requests, Carries(t, m),
         c.step \notin Holding, Answers(m), core' = core, pending' = pending
  PROVE  RequestsOnce'
<1>. USE DEF HttpInv, HttpOK
<1>1. \A r \in Requests : Carries(t, r) => r = m
  BY DEF Carries
<1>2. \A u \in HttpThreads : \A r : Carries(u, r)' <=> u # t /\ Carries(u, r)
  BY Turned
<1>3. \A r : Queued(r)' <=> Queued(r)
  BY DEF Queued
<1>4. answered[m] = 0 /\ ~Queued(m)
  BY DEF RequestsOnce, Carried
<1>5. Distinct(pending)'
  BY DEF RequestsOnce
<1>6. ~AwaitedBy(NoLink, m) /\ ~AwaitedBy(NoLink, m)'
  BY HttpConnPoolConstants DEF AwaitedBy
<1>. QED BY <1>1, <1>2, <1>3, <1>4, <1>5, <1>6, RequestMoves DEF Answers

(* A thread that turns away from a session it had, or never had one.         *)
LEMMA SessionLeft ==
  ASSUME HttpInv, NEW t \in HttpThreads, NEW c, Turns(t, c), c.ses = NoLink, ConnSoft,
         core' = core, \A l : Offered(l)' => Offered(l), Distinct(idle)'
  PROVE  SessionsOnce'
<1>. USE DEF HttpInv, HttpOK
<1>1. \A l \in Links : ~Has(t, l)'
  BY Turned, HttpConnPoolConstants
<1>2. \A l \in Links : \A u \in HttpThreads : Has(u, l)' => Has(u, l)
  BY <1>1, Turned DEF ConnSoft
<1>3. \A l \in Links : (Awaits(l)' => Awaits(l)) /\ (Unused(l)' => Unused(l))
  BY DEF ConnSoft, Awaits, Told
<1>. QED BY <1>2, <1>3, SessionsStay

(* A thread that is no sender, before and after.                             *)
LEMMA NoSender ==
  ASSUME HttpInv, NEW t \in HttpThreads, NEW c, Turns(t, c),
         thread[t].step \notin {"send", "sent"}, c.step \notin {"send", "sent"},
         \A l \in Links : conn[l] \in {"up", "closing"} => conn'[l] \in {"up", "closing"},
         core' = core
  PROVE  SendersOK'
<1>. USE DEF HttpInv, HttpOK
<1>1. \A u \in HttpThreads, l \in Links : SentBy(u, l)' <=> SentBy(u, l)
  BY Turned DEF SentBy
<1>2. \A u \in HttpThreads, l \in Links : SentBy(u, l)' => thread'[u] = thread[u]
  BY Turned DEF SentBy
<1>. QED BY <1>1, <1>2, SendersStay

LEMMA SubmitClosedStep ==
  ASSUME HttpInv, NEW t \in HttpThreads, SubmitClosed(t)
  PROVE  HttpOK'
<1>. USE DEF HttpInv, HttpOK
<1>1. /\ thread[t].step \in {"new", "submit"} /\ Answer({thread[t].req}) /\ Returns(t)
      /\ UNCHANGED <<conn, core, listVars, poolClosed>>
  BY DEF SubmitClosed, Submitting
<1>2. t # Closer /\ thread[t].req \in Requests
  BY <1>1, ThreadIs DEF CloserSteps, Holding
<1>3. ConnSoft
  BY <1>1, ConnCut DEF listVars
<1>4. PICK c : Turns(t, c) /\ Rests(c) /\ ThreadOK(t)'
  BY <1>1, <1>2, <1>3, ReturnsOK
<1>5. RequestsOnce'
  BY <1>1, <1>2, <1>4, AnswerOf, CarriedAnswered DEF listVars, Rests, Holding, Carries
<1>6. SessionsOnce'
  BY <1>1, <1>3, <1>4, SessionLeft DEF listVars, Rests, Offered, SessionsOnce
<1>7. SendersOK'
  BY <1>1, <1>4, NoSender DEF Rests
<1>8. ThreadsOK' /\ LinksOK' /\ ClosingOK'
  BY <1>1, <1>2, <1>3, <1>4, PoolKeepsCores DEF LinksOK, Offered, listVars
<1>. QED BY <1>5, <1>6, <1>7, <1>8

LEMMA SubmitIdleStep ==
  ASSUME HttpInv, NEW t \in HttpThreads, SubmitIdle(t)
  PROVE  HttpOK'
<1>. USE DEF HttpInv, HttpOK
<1> DEFINE i == CHOOSE k \in Usable : \A j \in Usable : j <= k
<1>0. PICK s : s = idle[i]
  OBVIOUS
<1> DEFINE c == [thread[t] EXCEPT !.step = "begin", !.ses = s]
<1>1. /\ thread[t].step \in {"new", "submit"} /\ idle' = SubSeq(idle, 1, i - 1)
      /\ thread' = [thread EXCEPT ![t].step = "begin", ![t].ses = s]
      /\ UNCHANGED <<conn, core, pending, connected, poolClosed, answered>>
  BY <1>0 DEF SubmitIdle, Submitting, tellVars
<1>2. t # Closer /\ thread[t].req \in Requests
  BY <1>1, ThreadIs DEF CloserSteps, Holding
<1>3. i \in DOMAIN idle
  <2>1. i \in Usable
    BY UsableLast DEF SubmitIdle, HttpTypeOK
  <2>. HIDE DEF i
  <2>. QED BY <2>1 DEF Usable
<1>. HIDE DEF i
<1>4. /\ s \in Links /\ Offered(s) /\ Distinct(idle)' /\ ~Offered(s)' /\ \A l : Offered(l)' => Offered(l)
  <2>1. idle \in Seq(Links) /\ Distinct(idle)
    BY DEF HttpTypeOK, SessionsOnce
  <2>2. /\ s \in Links /\ Members(idle, s) /\ Distinct(SubSeq(idle, 1, i - 1))
        /\ \A l : Members(SubSeq(idle, 1, i - 1), l) => Members(idle, l) /\ l # s
    BY ONLY <1>0, <1>3, <2>1, QueueOps
  <2>. QED BY <1>1, <2>2 DEF Offered
<1>5. Turns(t, c) /\ c.step = "begin" /\ c.ses = s /\ c.req = thread[t].req
  BY <1>1 DEF Turns, HttpTypeOK, Calls
<1>. HIDE DEF c
<1>6. ConnSoft
  BY <1>1, ConnCut
<1>7. Known(s)
  BY <1>4 DEF LinksOK
<1>8. ThreadOK(t)'
  <2>1. thread'[t] = c
    BY <1>5, Turned
  <2>. QED BY <1>1, <1>2, <1>4, <1>5, <1>7, <2>1 DEF ThreadOK, Steps, Using, Known
<1>9. RequestsOnce'
  <2>1. \A u \in HttpThreads : \A r : Carries(u, r)' <=> Carries(u, r)
    <3>1. \A r : Carries(t, r) <=> thread[t].req = r
      BY <1>1 DEF Carries, Holding
    <3>2. \A u \in HttpThreads : \A r : Carries(u, r)' <=> IF u = t THEN thread[t].req = r ELSE Carries(u, r)
      BY <1>5, Turned DEF Holding
    <3>. QED BY <3>1, <3>2
  <2>. QED BY <1>1, <2>1, RequestsStay DEF RequestsOnce, Queued
<1>10. SessionsOnce'
  <2>1. \A u \in HttpThreads, l \in Links : u # t \/ l # s => (Has(u, l)' => Has(u, l))
    BY <1>5, <1>6, Turned DEF ConnSoft
  <2>2. \A l \in Links : (Awaits(l)' => Awaits(l)) /\ (Unused(l)' => Unused(l))
    BY <1>1 DEF Awaits, Told, Unused
  <2>3. ~Awaits(s) /\ ~Unused(s)
    BY <1>4 DEF SessionsOnce
  <2>. QED BY <1>4, <2>1, <2>2, <2>3, SessionPasses
<1>11. SendersOK'
  BY <1>1, <1>5, NoSender
<1>12. ThreadsOK' /\ LinksOK' /\ ClosingOK'
  BY <1>1, <1>2, <1>4, <1>5, <1>6, <1>8, PoolKeepsCores DEF LinksOK, Offered, listVars
<1>. QED BY <1>9, <1>10, <1>11, <1>12

LEMMA SubmitQueuedStep ==
  ASSUME HttpInv, NEW t \in HttpThreads, SubmitQueued(t)
  PROVE  HttpOK'
<1>. USE DEF HttpInv, HttpOK
<1>0. PICK m : m = thread[t].req
  OBVIOUS
<1>1. /\ thread[t].step \in {"new", "submit"} /\ ~poolClosed /\ idle' = <<>>
      /\ pending' = Append(pending, m) \/ pending' = <<m>> \o pending
      /\ ToStep(t, "connect") \/ Returns(t)
      /\ UNCHANGED <<conn, core, connected, poolClosed, answered>>
  BY <1>0 DEF SubmitQueued, Submitting, tellVars
<1>2. t # Closer /\ m \in Requests /\ Carries(t, m)
  BY <1>0, <1>1, ThreadIs DEF CloserSteps, Holding, Carries
<1>3. ConnSoft
  BY <1>1, ConnCut
<1>4. PICK c : Turns(t, c) /\ c.ses = NoLink /\ c.step \notin Holding \union Using /\ ThreadOK(t)'
  <2>1. CASE ToStep(t, "connect")
    <3> DEFINE c == [thread[t] EXCEPT !.step = "connect"]
    <3>1. thread[t].ses = NoLink
      BY <1>1 DEF ThreadsOK, ThreadOK, Using
    <3>2. Turns(t, c) /\ c.ses = NoLink /\ c.step = "connect"
      BY <2>1, <3>1 DEF Turns, ToStep, HttpTypeOK, Calls
    <3>. HIDE DEF c
    <3>3. thread'[t] = c
      BY <3>2, Turned
    <3>4. ThreadOK(t)'
      BY <1>2, <3>2, <3>3 DEF ThreadOK, Steps, Holding, Using
    <3>. QED BY <3>2, <3>4 DEF Holding, Using
  <2>2. CASE Returns(t)
    BY <1>2, <1>3, <2>2, ReturnsOK DEF Rests, Holding, Using
  <2>. QED BY <1>1, <2>1, <2>2
<1>5. /\ ~Queued(m) /\ answered[m] = 0 /\ ~Awaited(m)
  BY <1>2 DEF RequestsOnce, Carried
<1>6. Distinct(pending)' /\ \A r : Queued(r)' <=> Queued(r) \/ r = m
  <2>1. pending \in Seq(Requests) /\ Distinct(pending)
    BY DEF HttpTypeOK, RequestsOnce
  <2>2. ~Members(pending, m)
    BY <1>5 DEF Queued
  <2>3. m \in Requests
    BY <1>2
  <2>4. /\ Distinct(Append(pending, m)) /\ \A y : Members(Append(pending, m), y) <=> Members(pending, y) \/ y = m
        /\ Distinct(<<m>> \o pending) /\ \A y : Members(<<m>> \o pending, y) <=> Members(pending, y) \/ y = m
    BY ONLY <2>1, <2>2, <2>3, QueueOps
  <2>. QED BY <1>1, <2>4 DEF Queued
<1>7. RequestsOnce'
  <2>1. \A r \in Requests : Carries(t, r) => r = m
    BY <1>0 DEF Carries
  <2>2. \A u \in HttpThreads : \A r : Carries(u, r)' <=> u # t /\ Carries(u, r)
    BY <1>4, Turned
  <2>3. ~AwaitedBy(NoLink, m) /\ ~AwaitedBy(NoLink, m)'
    BY HttpConnPoolConstants DEF AwaitedBy
  <2>. QED BY <1>1, <1>2, <1>5, <1>6, <2>1, <2>2, <2>3, RequestMoves
<1>8. SessionsOnce'
  <2>1. Distinct(idle)' /\ \A l : ~Offered(l)'
    BY <1>1 DEF Distinct, Offered, Members
  <2>. QED BY <1>1, <1>3, <1>4, <2>1, SessionLeft
<1>9. SendersOK'
  BY <1>1, <1>4, NoSender DEF Using
<1>10. ThreadsOK' /\ LinksOK' /\ ClosingOK'
  <2>1. \A l : ~Offered(l)'
    BY <1>1 DEF Offered, Members
  <2>. QED BY <1>1, <1>2, <1>3, <1>4, <2>1, PoolKeepsCores DEF LinksOK, Offered, listVars
<1>. QED BY <1>7, <1>8, <1>9, <1>10

(* A thread that only makes a connection, or none.                           *)
LEMMA ConnectStep ==
  ASSUME HttpInv, NEW t \in HttpThreads, ConnectOneMore(t) \/ ConnectFails(t)
  PROVE  HttpOK'
<1>. USE DEF HttpInv, HttpOK
<1>1. /\ thread[t].step = "connect" /\ Returns(t)
      /\ UNCHANGED <<core, idle, pending, connected, poolClosed, answered>>
      /\ conn' = conn \/ \E s \in Links : conn[s] = "none" /\ conn' = [conn EXCEPT ![s] = "connecting"]
  BY DEF ConnectOneMore, ConnectFails, Is, listVars, tellVars
<1>2. t # Closer
  BY <1>1, ThreadIs DEF CloserSteps
<1>3. ConnSoft
  BY <1>1, ConnCut
<1>4. PICK c : Turns(t, c) /\ Rests(c) /\ ThreadOK(t)'
  BY <1>1, <1>2, <1>3, ReturnsOK
<1>5. RequestsOnce'
  <2>1. \A u \in HttpThreads : \A r : Carries(u, r)' <=> Carries(u, r)
    BY <1>1, <1>4, Turned DEF Carries, Holding, Rests
  <2>. QED BY <1>1, <2>1, RequestsStay DEF RequestsOnce, Queued
<1>6. SessionsOnce'
  BY <1>1, <1>3, <1>4, SessionLeft DEF Rests, Offered, SessionsOnce
<1>7. SendersOK'
  BY <1>1, <1>3, <1>4, NoSender DEF Rests, ConnSoft
<1>8. ThreadsOK' /\ LinksOK' /\ ClosingOK'
  BY <1>1, <1>2, <1>3, <1>4, PoolKeepsCores DEF LinksOK, Offered, listVars
<1>. QED BY <1>5, <1>6, <1>7, <1>8

LEMMA DiscardStep ==
  ASSUME HttpInv, NEW t \in HttpThreads, Discard(t)
  PROVE  HttpOK'
<1>. USE DEF HttpInv, HttpOK
<1>1. /\ thread[t].step = "callback" /\ Answer({thread[t].req}) /\ Returns(t)
      /\ conn' = [conn EXCEPT ![thread[t].ses] = Cut(thread[t].ses)]
      /\ UNCHANGED <<core, listVars, poolClosed>>
  BY DEF Discard, Is, DiscardSession
<1>2. t # Closer /\ thread[t].req \in Requests /\ thread[t].ses \in Links /\ Known(thread[t].ses)
  BY <1>1, ThreadIs DEF CloserSteps, Holding, Using
<1>3. ConnSoft
  BY <1>1, <1>2, ConnCut DEF listVars
<1>4. PICK c : Turns(t, c) /\ Rests(c) /\ ThreadOK(t)'
  BY <1>1, <1>2, <1>3, ReturnsOK
<1>5. RequestsOnce'
  BY <1>1, <1>2, <1>4, AnswerOf, CarriedAnswered DEF listVars, Rests, Holding, Carries
<1>6. SessionsOnce'
  BY <1>1, <1>3, <1>4, SessionLeft DEF listVars, Rests, Offered, SessionsOnce
<1>7. SendersOK'
  BY <1>1, <1>3, <1>4, NoSender DEF Rests, ConnSoft
<1>8. ThreadsOK' /\ LinksOK' /\ ClosingOK'
  BY <1>1, <1>2, <1>3, <1>4, PoolKeepsCores DEF LinksOK, Offered, listVars
<1>. QED BY <1>5, <1>6, <1>7, <1>8

LEMMA ReuseStep ==
  ASSUME HttpInv, NEW t \in HttpThreads, Reuse(t)
  PROVE  HttpOK'
<1>. USE DEF HttpInv, HttpOK
<1> DEFINE s == thread[t].ses
           c == [Resting EXCEPT !.step = "give", !.ses = s]
<1>1. /\ thread[t].step = "callback" /\ thread[t].ok /\ IsUp(s) /\ Answer({thread[t].req})
      /\ Turns(t, c)
      /\ UNCHANGED <<conn, core, listVars, poolClosed>>
  BY DEF Reuse, Is, Turns
<1>2. t # Closer /\ thread[t].req \in Requests /\ s \in Links /\ Known(s)
  BY <1>1, ThreadIs DEF CloserSteps, Holding, Using
<1>3. ConnSoft
  BY <1>1, ConnCut DEF listVars
<1>4. c.step = "give" /\ c.ses = s /\ Has(t, s)
  BY <1>1 DEF Resting, Has
<1>. HIDE DEF c, s
<1>5. ThreadOK(t)'
  <2>1. thread'[t] = c
    BY <1>1, Turned
  <2>. QED BY <1>2, <1>3, <1>4, <2>1 DEF ThreadOK, Steps, Using, Holding, ConnSoft
<1>6. RequestsOnce'
  BY <1>1, <1>2, <1>4, AnswerOf, CarriedAnswered DEF listVars, Holding, Carries
<1>7. SessionsOnce'
  <2>1. \A l \in Links : \A u \in HttpThreads : Has(u, l)' => Has(u, l)
    BY <1>1, <1>3, <1>4, Turned DEF ConnSoft
  <2>. QED BY <1>1, <2>1, SessionsStay DEF listVars, Offered, SessionsOnce, Awaits, Told, Unused
<1>8. SendersOK'
  BY <1>1, <1>4, NoSender
<1>9. ThreadsOK' /\ LinksOK' /\ ClosingOK'
  BY <1>1, <1>2, <1>3, <1>5, PoolKeepsCores DEF LinksOK, Offered, listVars
<1>. QED BY <1>6, <1>7, <1>8, <1>9

LEMMA DispatchNextStep ==
  ASSUME HttpInv, NEW t \in HttpThreads, DispatchNext(t)
  PROVE  HttpOK'
<1>. USE DEF HttpInv, HttpOK
<1>0. PICK s, m : s = thread[t].ses /\ m = Head(pending)
  OBVIOUS
<1> DEFINE c == [thread[t] EXCEPT !.step = "begin", !.req = m]
<1>1. /\ thread[t].step = "give" /\ pending # <<>> /\ pending' = Tail(pending)
      /\ thread' = [thread EXCEPT ![t].step = "begin", ![t].req = m]
      /\ UNCHANGED <<conn, core, idle, connected, poolClosed, answered>>
  BY <1>0 DEF DispatchNext, Is, tellVars
<1>2. t # Closer /\ s \in Links /\ Known(s)
  BY <1>0, <1>1, ThreadIs DEF CloserSteps, Using
<1>3. ConnSoft
  BY <1>1, ConnCut
<1>4. Turns(t, c) /\ c.step = "begin" /\ c.ses = s /\ c.req = m /\ Has(t, s)
  BY <1>0, <1>1 DEF Turns, HttpTypeOK, Calls, Has
<1>5. /\ m \in Requests /\ Queued(m) /\ Distinct(pending)'
      /\ \A r : Queued(r)' <=> Queued(r) /\ r # m
  BY <1>0, <1>1, QueueOps DEF HttpTypeOK, RequestsOnce, Queued
<1>. HIDE DEF c
<1>6. ThreadOK(t)'
  <2>1. thread'[t] = c
    BY <1>4, Turned
  <2>. QED BY <1>2, <1>3, <1>4, <1>5, <2>1 DEF ThreadOK, Steps, Using, Holding, ConnSoft
<1>7. RequestsOnce'
  <2>1. \A u \in HttpThreads : \A r : Carries(u, r)' <=> IF u = t THEN r = m ELSE Carries(u, r)
    BY <1>4, Turned DEF Holding
  <2>2. ~Carries(t, m) /\ \A r : ~Carries(t, r)
    BY <1>1 DEF Carries, Holding
  <2>3. ~AwaitedBy(NoLink, m) /\ ~AwaitedBy(NoLink, m)'
    BY HttpConnPoolConstants DEF AwaitedBy
  <2>4. answered[m] = 0
    BY <1>5 DEF RequestsOnce
  <2>. QED BY <1>1, <1>5, <2>1, <2>2, <2>3, <2>4, RequestMoves
<1>8. SessionsOnce'
  <2>1. \A l \in Links : \A u \in HttpThreads : Has(u, l)' => Has(u, l)
    BY <1>3, <1>4, Turned DEF ConnSoft
  <2>. QED BY <1>1, <2>1, SessionsStay DEF Offered, SessionsOnce, Awaits, Told, Unused
<1>9. SendersOK'
  BY <1>1, <1>4, NoSender
<1>10. ThreadsOK' /\ LinksOK' /\ ClosingOK'
  BY <1>1, <1>2, <1>3, <1>4, <1>6, PoolKeepsCores DEF LinksOK, Offered, listVars
<1>. QED BY <1>7, <1>8, <1>9, <1>10

LEMMA BecomeIdleStep ==
  ASSUME HttpInv, NEW t \in HttpThreads, BecomeIdle(t)
  PROVE  HttpOK'
<1>. USE DEF HttpInv, HttpOK
<1>0. PICK s : s = thread[t].ses
  OBVIOUS
<1>1. /\ thread[t].step = "give" /\ idle' = Append(idle, s) /\ Returns(t)
      /\ UNCHANGED <<conn, core, pending, connected, poolClosed, answered>>
  BY <1>0 DEF BecomeIdle, Is, tellVars
<1>2. t # Closer /\ s \in Links /\ Known(s) /\ Has(t, s)
  BY <1>0, <1>1, ThreadIs DEF CloserSteps, Using, Has
<1>3. ConnSoft
  BY <1>1, ConnCut
<1>4. PICK c : Turns(t, c) /\ Rests(c) /\ ThreadOK(t)'
  BY <1>1, <1>2, <1>3, ReturnsOK
<1>5. ~Offered(s) /\ ~Awaits(s) /\ ~Unused(s)
  BY <1>2 DEF SessionsOnce, Had
<1>6. Distinct(idle)' /\ \A l : Offered(l)' <=> Offered(l) \/ l = s
  <2>1. idle \in Seq(Links) /\ Distinct(idle) /\ s \in Links /\ ~Members(idle, s)
    BY <1>2, <1>5 DEF HttpTypeOK, SessionsOnce, Offered
  <2>2. /\ Distinct(Append(idle, s))
        /\ \A l : Members(Append(idle, s), l) <=> Members(idle, l) \/ l = s
    BY ONLY <2>1, QueueOps
  <2>. QED BY <1>1, <2>2 DEF Offered
<1>7. RequestsOnce'
  <2>1. \A u \in HttpThreads : \A r : Carries(u, r)' <=> Carries(u, r)
    BY <1>1, <1>4, Turned DEF Carries, Holding, Rests
  <2>. QED BY <1>1, <2>1, RequestsStay DEF RequestsOnce, Queued
<1>8. SessionsOnce'
  <2>1. \A l \in Links : ~Has(t, l)'
    BY <1>4, Turned, HttpConnPoolConstants DEF Rests
  <2>2. \A u \in HttpThreads, l \in Links : Has(u, l)' => Has(u, l)
    BY <1>3, <1>4, <2>1, Turned DEF ConnSoft
  <2>3. \A l \in Links : (Awaits(l)' => Awaits(l)) /\ (Unused(l)' => Unused(l))
    BY <1>1 DEF Awaits, Told, Unused
  <2>. QED BY <1>2, <1>5, <1>6, <2>1, <2>2, <2>3, SessionPasses
<1>9. SendersOK'
  BY <1>1, <1>4, NoSender DEF Rests
<1>10. ThreadsOK' /\ LinksOK' /\ ClosingOK'
  BY <1>1, <1>2, <1>3, <1>4, <1>6, PoolKeepsCores DEF LinksOK, Offered, listVars
<1>. QED BY <1>7, <1>8, <1>9, <1>10

-----------------------------------------------------------------------------
(* The steps of DispatchToSession() and BeginRequest().                      *)

(* A thread that has a session is its only user, and maybe its sender.       *)
LEMMA OneUser ==
  ASSUME HttpInv, NEW t \in HttpThreads, NEW s \in Links, Has(t, s)
  PROVE  /\ \A u \in HttpThreads : SentBy(u, s) => u = t
         /\ core[s].sending <=> SentBy(t, s)
         /\ ~SentBy(t, s) => Told(s)
         /\ ~Unused(s) /\ ~Offered(s)
<1>. USE DEF HttpInv, HttpOK
<1>1. \A u \in HttpThreads : SentBy(u, s) => Has(u, s)
  BY DEF SentBy, Has
<1>2. \A u \in HttpThreads : SentBy(u, s) => u = t
  BY <1>1 DEF SessionsOnce
<1>3. core[s].sending <=> SentBy(t, s)
  BY <1>2 DEF SendersOK
<1>4. ~Awaits(s) /\ ~Unused(s) /\ ~Offered(s)
  BY DEF SessionsOnce, Had
<1>. QED BY <1>2, <1>3, <1>4 DEF Awaits

(* The thread that has session s becomes its sender, goes on, or is done.    *)
LEMMA SendersTurn ==
  ASSUME HttpInv, NEW t \in HttpThreads, NEW c, Turns(t, c), NEW s \in Links, Has(t, s),
         \A l \in Links \ {s} : core'[l] = core[l],
         \A l \in Links : conn[l] \in {"up", "closing"} => conn'[l] \in {"up", "closing"},
         c.ses # s => c.step \notin {"send", "sent"},
         core'[s].sending <=> c.ses = s /\ c.step \in {"send", "sent"},
         core'[s].sending /\ ~Told(s)' =>
           /\ c.req = core'[s].request
           /\ conn'[s] \notin {"up", "closing"} => ~(c.step = "sent" /\ c.ok),
         Awaits(s)' => conn'[s] \in {"up", "closing"}
  PROVE  SendersOK'
<1>. USE DEF HttpInv, HttpOK
<1>1. /\ \A u \in HttpThreads \ {t} : ~SentBy(u, s)' /\ \A l : SentBy(u, l)' <=> SentBy(u, l)
      /\ \A l \in Links \ {s} : ~SentBy(t, l)' /\ ~SentBy(t, l)
      /\ SentBy(t, s)' <=> core'[s].sending
  BY Turned, OneUser DEF Has, SentBy
<1>2. thread'[t] = c /\ \A u \in HttpThreads \ {t} : thread'[u] = thread[u]
  BY Turned
<1>3. \A l \in Links \ {s} : (Told(l)' <=> Told(l)) /\ (Awaits(l)' <=> Awaits(l))
  BY DEF Told, Awaits
<1>4. ASSUME NEW l \in Links PROVE core'[l].sending <=> \E u \in HttpThreads : SentBy(u, l)'
  <2>1. CASE l = s
    BY <1>1, <2>1
  <2>2. CASE l # s
    BY <1>1, <2>2 DEF SendersOK
  <2>. QED BY <2>1, <2>2
<1>5. ASSUME NEW u \in HttpThreads, NEW l \in Links, SentBy(u, l)', ~Told(l)'
      PROVE  /\ thread'[u].req = core'[l].request
             /\ conn'[l] \notin {"up", "closing"} => ~(thread'[u].step = "sent" /\ thread'[u].ok)
  <2>1. CASE l = s
    BY <1>1, <1>2, <1>5, <2>1
  <2>2. CASE l # s
    BY <1>1, <1>2, <1>3, <1>5, <2>2 DEF SendersOK
  <2>. QED BY <2>1, <2>2
<1>6. \A l \in Links : Awaits(l)' => conn'[l] \in {"up", "closing"}
  BY <1>3 DEF SendersOK
<1>. QED BY <1>4, <1>5, <1>6 DEF SendersOK

(* The thread that has session s stays with it, or leaves it.                *)
LEMMA SessionKept ==
  ASSUME HttpInv, NEW t \in HttpThreads, NEW c, Turns(t, c), NEW s \in Links, Has(t, s),
         ConnSoft, idle' = idle, c.ses \in {s, NoLink},
         \A l \in Links \ {s} : core'[l] = core[l], ~Awaits(s)'
  PROVE  SessionsOnce'
<1>. USE DEF HttpInv, HttpOK
<1>1. \A l \in Links : Has(t, l)' => l = s
  BY Turned, HttpConnPoolConstants
<1>2. \A u \in HttpThreads, l \in Links : Has(u, l)' => Has(u, l)
  BY <1>1, Turned DEF ConnSoft
<1>3. \A l \in Links : Awaits(l)' => Awaits(l)
  BY DEF Awaits, Told
<1>. QED BY <1>2, <1>3, SessionsStay DEF ConnSoft, Offered, SessionsOnce

(* SendBytes() and Sent(): the request stays awaited by its session.         *)
LEMMA CoreOver ==
  ASSUME HttpTypeOK, NEW s \in Links, SendOver(s)
  PROVE  /\ core'[s].sending = FALSE /\ core'[s].request = NoRequest
         /\ \A l \in Links \ {s} : core'[l] = core[l]
         /\ Told(s)' /\ ~Awaits(s)'
<1>1. core'[s] = [core[s] EXCEPT !.sending = FALSE, !.deferred = "none", !.request = NoRequest]
  BY DEF SendOver, HttpTypeOK
<1>2. core'[s].sending = FALSE /\ core'[s].request = NoRequest
  BY <1>1 DEF HttpTypeOK, Cores
<1>3. \A l \in Links \ {s} : core'[l] = core[l]
  BY DEF SendOver, HttpTypeOK
<1>. QED BY <1>2, <1>3 DEF Told, Awaits

LEMMA BeginStep ==
  ASSUME HttpInv, NEW t \in HttpThreads, Begin(t)
  PROVE  HttpOK'
<1>. USE DEF HttpInv, HttpOK
<1>0. PICK s, m : s = thread[t].ses /\ m = thread[t].req
  OBVIOUS
<1> DEFINE c == [thread[t] EXCEPT !.step = "send"]
<1>1. thread[t].step = "begin"
  BY DEF Begin, Is
<1>2. t # Closer /\ s \in Links /\ Known(s) /\ m \in Requests /\ Has(t, s) /\ Carries(t, m)
  BY <1>0, <1>1, ThreadIs DEF CloserSteps, Using, Holding, Has, Carries
<1>3. Told(s)
  BY <1>1, <1>2, OneUser DEF SentBy
<1>4. /\ core' = [core EXCEPT ![s] = [Fresh EXCEPT !.request = m, !.sending = TRUE]]
      /\ ToStep(t, "send")
      /\ UNCHANGED <<conn, idle, pending, connected, poolClosed, answered>>
  BY <1>0, <1>3 DEF Begin, listVars, tellVars
<1>5. Turns(t, c) /\ c.step = "send" /\ c.ses = s /\ c.req = m
  BY <1>0, <1>4 DEF Turns, ToStep, HttpTypeOK, Calls
<1>. HIDE DEF c
<1>6. /\ core'[s].request = m /\ core'[s].sending
      /\ \A l \in Links \ {s} : core'[l] = core[l]
  BY <1>2, <1>4 DEF HttpTypeOK, Fresh
<1>7. ConnSoft
  BY <1>4, ConnCut
<1>8. ThreadOK(t)'
  <2>1. thread'[t] = c
    BY <1>5, Turned
  <2>. QED BY <1>2, <1>5, <1>7, <2>1 DEF ThreadOK, Steps, Using, Holding, ConnSoft
<1>9. RequestsOnce'
  <2>1. \A r \in Requests : Carries(t, r) => r = m
    BY <1>0 DEF Carries
  <2>2. \A u \in HttpThreads : \A r : Carries(u, r)' <=> u # t /\ Carries(u, r)
    BY <1>5, Turned DEF Holding
  <2>3. ~Queued(m) /\ answered[m] = 0 /\ Distinct(pending)'
    BY <1>2, <1>4 DEF RequestsOnce, Carried
  <2>4. \A r : Queued(r)' <=> Queued(r)
    BY <1>4 DEF Queued
  <2>5. \A l \in Links, r \in Requests : l # s \/ r # m =>
          (core'[l].request = r <=> core[l].request = r)
    BY <1>3, <1>6, HttpConnPoolConstants DEF Told
  <2>6. AwaitedBy(s, m)'
    BY <1>2, <1>6 DEF AwaitedBy
  <2>. QED BY <1>2, <1>4, <2>1, <2>2, <2>3, <2>4, <2>5, <2>6, RequestMoves
<1>10. SessionsOnce'
  BY <1>2, <1>4, <1>5, <1>6, <1>7, SessionKept DEF Awaits
<1>11. SendersOK'
  BY <1>2, <1>4, <1>5, <1>6, <1>7, SendersTurn DEF ConnSoft, Awaits
<1>12. ThreadsOK' /\ LinksOK' /\ ClosingOK'
  <2>1. \A l \in Links : ~Told(l)' => Known(l)
    BY <1>2, <1>6 DEF Told, LinksOK
  <2>2. \A l \in Links : Offered(l)' => Known(l)
    BY <1>4 DEF Offered, LinksOK
  <2>. QED BY <1>2, <1>4, <1>5, <1>7, <1>8, <2>1, <2>2, PoolKeeps
<1>. QED BY <1>9, <1>10, <1>11, <1>12

LEMMA SendBytesStep ==
  ASSUME HttpInv, NEW t \in HttpThreads, SendBytes(t)
  PROVE  HttpOK'
<1>. USE DEF HttpInv, HttpOK
<1>0. PICK s, m : s = thread[t].ses /\ m = thread[t].req
  OBVIOUS
<1>1. /\ thread[t].step = "send"
      /\ UNCHANGED <<core, idle, pending, connected, poolClosed, answered>>
  BY DEF SendBytes, Is, listVars, tellVars
<1>2. PICK ok \in BOOLEAN : /\ ok => IsUp(s)
                            /\ thread' = [thread EXCEPT ![t].step = "sent", ![t].ok = ok]
                            /\ \/ conn' = conn
                               \/ ~ok /\ conn' = [conn EXCEPT ![s] = Cut(s)]
  BY <1>0 DEF SendBytes
<1> DEFINE c == [thread[t] EXCEPT !.step = "sent", !.ok = ok]
<1>3. t # Closer /\ s \in Links /\ Known(s) /\ m \in Requests /\ Has(t, s) /\ SentBy(t, s)
  BY <1>0, <1>1, ThreadIs DEF CloserSteps, Using, Has, SentBy
<1>4. Turns(t, c) /\ c.step = "sent" /\ c.ses = s /\ c.req = m /\ c.ok = ok
  <2>1. thread \in [HttpThreads -> Calls] /\ thread[t] \in Calls
    BY DEF HttpTypeOK
  <2>2. Turns(t, c)
    BY <1>2, <2>1 DEF Turns
  <2>. QED BY <1>0, <2>1, <2>2 DEF Calls
<1>. HIDE DEF c
<1>5. ConnSoft
  BY <1>1, <1>2, <1>3, ConnCut
<1>6. ThreadOK(t)'
  <2>1. thread'[t] = c
    BY <1>4, Turned
  <2>. QED BY <1>3, <1>4, <1>5, <2>1 DEF ThreadOK, Steps, Using, Holding, ConnSoft
<1>7. RequestsOnce'
  <2>1. \A u \in HttpThreads : \A r : Carries(u, r)' <=> Carries(u, r)
    BY <1>1, <1>4, Turned DEF Carries, Holding
  <2>. QED BY <1>1, <2>1, RequestsStay DEF RequestsOnce, Queued
<1>8. SessionsOnce'
  <2>1. core[s].sending
    BY <1>3 DEF SendersOK
  <2>. QED BY <1>1, <1>3, <1>4, <1>5, <2>1, SessionKept DEF Awaits
<1>9. SendersOK'
  <2>1. core[s].sending /\ (~Told(s) => m = core[s].request)
    BY <1>0, <1>3 DEF SendersOK
  <2>2. ok => conn'[s] = "up"
    BY <1>2 DEF IsUp
  <2>. QED BY <1>1, <1>3, <1>4, <1>5, <2>1, <2>2, SendersTurn DEF ConnSoft, Awaits, Told
<1>10. ThreadsOK' /\ LinksOK' /\ ClosingOK'
  BY <1>1, <1>3, <1>4, <1>5, <1>6, PoolKeepsCores DEF LinksOK, Offered
<1>. QED BY <1>7, <1>8, <1>9, <1>10
(* A retry goes back to Submit() with its request.                           *)
LEMMA AgainOK ==
  ASSUME HttpInv, NEW t \in HttpThreads, t # Closer, NEW m \in Requests, m = thread[t].req,
         SubmitAgain(t), ConnSoft
  PROVE  \E c : Turns(t, c) /\ c.step = "submit" /\ c.req = m /\ c.ses = NoLink /\ ThreadOK(t)'
<1>. USE DEF HttpInv, HttpOK
<1> DEFINE c == [Resting EXCEPT !.step = "submit", !.req = m]
<1>1. Turns(t, c)
  BY DEF SubmitAgain, Turns
<1>2. c.step = "submit" /\ c.req = m /\ c.ses = NoLink
  BY DEF Resting
<1>. HIDE DEF c
<1>3. ThreadOK(t)'
  <2>1. thread'[t] = c
    BY <1>1, Turned
  <2>. QED BY <1>2, <2>1 DEF ThreadOK, Steps, Using, Holding
<1>. QED BY <1>1, <1>2, <1>3

LEMMA RetryStep ==
  ASSUME HttpInv, NEW t \in HttpThreads, RetryFailed(t)
  PROVE  HttpOK'
<1>. USE DEF HttpInv, HttpOK
<1>0. PICK s, m : s = thread[t].ses /\ m = thread[t].req
  OBVIOUS
<1>1. /\ thread[t].step = "callback" /\ SubmitAgain(t)
      /\ conn' = [conn EXCEPT ![s] = Cut(s)]
      /\ UNCHANGED <<core, idle, pending, connected, poolClosed, answered>>
  BY <1>0 DEF RetryFailed, Is, SubmitAgain, DiscardSession, listVars, tellVars
<1>2. t # Closer /\ s \in Links /\ Known(s) /\ m \in Requests /\ Carries(t, m)
  BY <1>0, <1>1, ThreadIs DEF CloserSteps, Using, Holding, Carries
<1>3. ConnSoft
  BY <1>1, <1>2, ConnCut
<1>4. PICK c : Turns(t, c) /\ c.step = "submit" /\ c.req = m /\ c.ses = NoLink /\ ThreadOK(t)'
  BY <1>0, <1>1, <1>2, <1>3, AgainOK
<1>5. RequestsOnce'
  <2>1. \A u \in HttpThreads : \A r : Carries(u, r)' <=> Carries(u, r)
    BY <1>0, <1>1, <1>4, Turned DEF Carries, Holding
  <2>. QED BY <1>1, <2>1, RequestsStay DEF RequestsOnce, Queued
<1>6. SessionsOnce'
  BY <1>1, <1>3, <1>4, SessionLeft DEF Offered, SessionsOnce
<1>7. SendersOK'
  BY <1>1, <1>3, <1>4, NoSender DEF ConnSoft
<1>8. ThreadsOK' /\ LinksOK' /\ ClosingOK'
  BY <1>1, <1>2, <1>3, <1>4, PoolKeepsCores DEF LinksOK, Offered
<1>. QED BY <1>5, <1>6, <1>7, <1>8

(* What the sender of session s knows as SendBytes() has returned.           *)
LEMMA SenderIs ==
  ASSUME HttpInv, NEW t \in HttpThreads, Is(t, "sent"), NEW s, s = thread[t].ses
  PROVE  /\ t # Closer /\ s \in Links /\ Known(s) /\ Has(t, s) /\ SentBy(t, s)
         /\ core[s].sending /\ ~Unused(s)
         /\ ~Told(s) => /\ thread[t].req = core[s].request
                        /\ thread[t].ok => conn[s] \in {"up", "closing"}
         /\ \A r \in Requests : ~Carries(t, r)
<1>. USE DEF HttpInv, HttpOK
<1>1. t # Closer /\ s \in Links /\ Known(s) /\ Has(t, s) /\ SentBy(t, s)
  BY ThreadIs DEF Is, CloserSteps, Using, Has, SentBy
<1>2. core[s].sending /\ ~Unused(s)
  BY <1>1, OneUser
<1>3. ~Told(s) => /\ thread[t].req = core[s].request
                  /\ thread[t].ok => conn[s] \in {"up", "closing"}
  BY <1>1 DEF SendersOK, Is
<1>4. \A r \in Requests : ~Carries(t, r)
  BY DEF Is, Carries, Holding
<1>. QED BY <1>1, <1>2, <1>3, <1>4

(* The send is over, and the session is left to itself, or told.             *)
LEMMA OverKeeps ==
  ASSUME HttpInv, NEW t \in HttpThreads, Is(t, "sent"), NEW s, s = thread[t].ses, SendOver(s),
         NEW c, Turns(t, c), c.ses \in {s, NoLink}, c.step \notin {"send", "sent"},
         ThreadOK(t)', ConnSoft, UNCHANGED <<idle, pending, poolClosed>>
  PROVE  SessionsOnce' /\ SendersOK' /\ ThreadsOK' /\ LinksOK' /\ ClosingOK'
<1>. USE DEF HttpInv, HttpOK
<1>1. t # Closer /\ s \in Links /\ Has(t, s)
  BY SenderIs
<1>2. /\ core'[s].sending = FALSE /\ core'[s].request = NoRequest
      /\ \A l \in Links \ {s} : core'[l] = core[l]
      /\ Told(s)' /\ ~Awaits(s)'
  BY <1>1, CoreOver
<1>3. SessionsOnce'
  BY <1>1, <1>2, SessionKept
<1>4. SendersOK'
  BY <1>1, <1>2, SendersTurn DEF ConnSoft
<1>5. ThreadsOK' /\ LinksOK' /\ ClosingOK'
  <2>1. \A l \in Links : ~Told(l)' => Known(l)
    BY <1>1, <1>2 DEF Told, LinksOK
  <2>2. \A l \in Links : Offered(l)' => Known(l)
    BY DEF Offered, LinksOK
  <2>. QED BY <1>1, <2>1, <2>2, PoolKeeps
<1>. QED BY <1>3, <1>4, <1>5

(* The request the session had goes with its sender, or is answered.         *)
LEMMA OverPasses ==
  ASSUME HttpInv, NEW t \in HttpThreads, Is(t, "sent"), NEW s, s = thread[t].ses, SendOver(s),
         ~Told(s), NEW c, Turns(t, c), pending' = pending,
         \/ c.step \in Holding /\ c.req = core[s].request /\ answered' = answered
         \/ c.step \notin Holding /\ Answers(core[s].request)
  PROVE  RequestsOnce'
<1>. USE DEF HttpInv, HttpOK
<1>0. PICK m : m = core[s].request
  OBVIOUS
<1>1. s \in Links /\ \A r \in Requests : ~Carries(t, r)
  BY SenderIs
<1>2. /\ core'[s].request = NoRequest
      /\ \A l \in Links \ {s} : core'[l] = core[l]
  BY <1>1, CoreOver
<1>3. m \in Requests /\ AwaitedBy(s, m)
  BY <1>0, <1>1 DEF Told, AwaitedBy, HttpTypeOK, Cores
<1>4. ~Queued(m) /\ answered[m] = 0 /\ Distinct(pending)'
  BY <1>3 DEF RequestsOnce, AwaitedBy, Awaited
<1>5. \A r : Queued(r)' <=> Queued(r)
  BY DEF Queued
<1>6. \A l \in Links, r \in Requests : l # s \/ r # m =>
        (core'[l].request = r <=> core[l].request = r)
  BY <1>0, <1>2, HttpConnPoolConstants
<1>7. \A u \in HttpThreads : \A r \in Requests : u # t \/ r # m => (Carries(u, r)' <=> Carries(u, r))
  BY <1>0, <1>1, Turned
<1>8. ~AwaitedBy(s, m)'
  BY <1>2, <1>3, HttpConnPoolConstants DEF AwaitedBy
<1>9. Carries(t, m)' <=> c.step \in Holding
  BY <1>0, Turned
<1>10. /\ \A r \in Requests \ {m} : answered'[r] = answered[r]
       /\ answered'[m] = IF Carries(t, m)' THEN 0 ELSE 1
  BY <1>0, <1>4, <1>9 DEF Answers
<1>. QED BY <1>3, <1>4, <1>5, <1>6, <1>7, <1>8, <1>10, RequestMoves

LEMMA SentAnsweredStep ==
  ASSUME HttpInv, NEW t \in HttpThreads, SentAnswered(t)
  PROVE  HttpOK'
<1>. USE DEF HttpInv, HttpOK
<1>0. PICK s, ok : s = thread[t].ses /\ ok = (core[s].deferred = "success")
  OBVIOUS
<1>1. /\ Is(t, "sent") /\ ~Told(s) /\ SendOver(s) /\ CallBack(t, s, ok)
      /\ UNCHANGED <<conn, idle, pending, connected, poolClosed, answered>>
  BY <1>0 DEF SentAnswered, listVars, tellVars
<1>2. t # Closer /\ s \in Links /\ Known(s)
  BY <1>0, <1>1, SenderIs
<1>3. core[s].request \in Requests
  BY <1>1, <1>2 DEF Told, HttpTypeOK, Cores
<1>4. PICK c : /\ Turns(t, c) /\ c.step = "callback" /\ c.req = core[s].request /\ c.ses = s
  <2> DEFINE c == [step |-> "callback", req |-> core[s].request, ses |-> s, ok |-> ok]
  <2>1. Turns(t, c)
    BY <1>1 DEF CallBack, Turns
  <2>2. c.step = "callback" /\ c.req = core[s].request /\ c.ses = s
    OBVIOUS
  <2>. HIDE DEF c
  <2>. QED BY <2>1, <2>2
<1>5. ConnSoft
  BY <1>1, ConnCut
<1>6. ThreadOK(t)'
  <2>1. thread'[t] = c
    BY <1>4, Turned
  <2>. QED BY <1>2, <1>3, <1>4, <1>5, <2>1 DEF ThreadOK, Steps, Using, Holding, ConnSoft
<1>7. RequestsOnce'
  BY <1>0, <1>1, <1>4, OverPasses DEF Holding
<1>. QED BY <1>0, <1>1, <1>4, <1>5, <1>6, <1>7, OverKeeps

LEMMA SentToldStep ==
  ASSUME HttpInv, NEW t \in HttpThreads, SentTold(t)
  PROVE  HttpOK'
<1>. USE DEF HttpInv, HttpOK
<1>0. PICK s : s = thread[t].ses
  OBVIOUS
<1>1. /\ Is(t, "sent") /\ Told(s) /\ SendOver(s) /\ Returns(t)
      /\ UNCHANGED <<conn, idle, pending, connected, poolClosed, answered>>
  BY <1>0 DEF SentTold, listVars, tellVars
<1>2. t # Closer /\ s \in Links /\ \A r \in Requests : ~Carries(t, r)
  BY <1>0, <1>1, SenderIs
<1>3. ConnSoft
  BY <1>1, ConnCut
<1>4. PICK c : Turns(t, c) /\ Rests(c) /\ ThreadOK(t)'
  BY <1>1, <1>2, <1>3, ReturnsOK
<1>5. RequestsOnce'
  <2>1. \A u \in HttpThreads : \A r \in Requests : Carries(u, r)' <=> Carries(u, r)
    BY <1>2, <1>4, Turned DEF Rests, Holding
  <2>2. \A l \in Links, r \in Requests : core'[l].request = r <=> core[l].request = r
    BY <1>1, <1>2, CoreOver DEF Told
  <2>. QED BY <1>1, <2>1, <2>2, RequestsStay DEF RequestsOnce, Queued
<1>. QED BY <1>0, <1>1, <1>3, <1>4, <1>5, OverKeeps DEF Rests

LEMMA SentFailedStep ==
  ASSUME HttpInv, NEW t \in HttpThreads, SentFailed(t)
  PROVE  HttpOK'
<1>. USE DEF HttpInv, HttpOK
<1>0. PICK s, m : s = thread[t].ses /\ m = thread[t].req
  OBVIOUS
<1>1. Is(t, "sent") /\ ~Told(s) /\ SendOver(s) /\ NotBegun(t)
  BY <1>0 DEF SentFailed
<1>2. /\ t # Closer /\ s \in Links /\ Known(s) /\ m = core[s].request
  BY <1>0, <1>1, SenderIs
<1>3. m \in Requests
  BY <1>1, <1>2 DEF Told, HttpTypeOK, Cores
<1>4. /\ conn' = [conn EXCEPT ![s] = Cut(s)]
      /\ UNCHANGED <<idle, pending, connected, poolClosed>>
      /\ \/ SubmitAgain(t) /\ answered' = answered
         \/ Returns(t) /\ Answer({m})
  BY <1>0, <1>1 DEF NotBegun, SubmitAgain, DiscardSession, listVars, tellVars
<1>5. ConnSoft
  BY <1>2, <1>4, ConnCut
<1>6. PICK c : /\ Turns(t, c) /\ ThreadOK(t)' /\ c.ses = NoLink /\ c.step \notin {"send", "sent"}
               /\ \/ c.step \in Holding /\ c.req = m /\ answered' = answered
                  \/ c.step \notin Holding /\ Answers(m)
  <2>1. CASE SubmitAgain(t) /\ answered' = answered
    <3>1. PICK c : Turns(t, c) /\ c.step = "submit" /\ c.req = m /\ c.ses = NoLink /\ ThreadOK(t)'
      BY <1>0, <1>2, <1>3, <1>5, <2>1, AgainOK
    <3>. QED BY <2>1, <3>1 DEF Holding
  <2>2. CASE Returns(t) /\ Answer({m})
    BY <1>2, <1>3, <1>5, <2>2, ReturnsOK, AnswerOf DEF Holding, Rests
  <2>. QED BY <1>4, <2>1, <2>2
<1>7. RequestsOnce'
  BY <1>0, <1>1, <1>2, <1>4, <1>6, OverPasses
<1>. QED BY <1>0, <1>1, <1>4, <1>5, <1>6, <1>7, OverKeeps

(* The response is still to come, or has come and been told already.         *)
LEMMA SentStep ==
  ASSUME HttpInv, NEW t \in HttpThreads, Sent(t)
  PROVE  HttpOK'
<1>. USE DEF HttpInv, HttpOK
<1>0. PICK s : s = thread[t].ses
  OBVIOUS
<1>1. /\ Is(t, "sent") /\ thread[t].ok /\ core' = [core EXCEPT ![s].sending = FALSE] /\ Returns(t)
      /\ UNCHANGED <<conn, idle, pending, connected, poolClosed, answered>>
  BY <1>0 DEF Sent, listVars, tellVars
<1>2. /\ t # Closer /\ s \in Links /\ Has(t, s) /\ ~Unused(s)
      /\ ~Told(s) => conn[s] \in {"up", "closing"}
      /\ \A r \in Requests : ~Carries(t, r)
  BY <1>0, <1>1, SenderIs
<1>3. ConnSoft
  BY <1>1, ConnCut
<1>4. PICK c : Turns(t, c) /\ Rests(c) /\ ThreadOK(t)'
  BY <1>1, <1>2, <1>3, ReturnsOK
<1>5. /\ ~core'[s].sending
      /\ \A l \in Links : core'[l].request = core[l].request
      /\ \A l \in Links \ {s} : core'[l] = core[l]
  BY <1>1, <1>2 DEF HttpTypeOK, Cores
<1>6. RequestsOnce'
  <2>1. \A u \in HttpThreads : \A r \in Requests : Carries(u, r)' <=> Carries(u, r)
    BY <1>2, <1>4, Turned DEF Rests, Holding
  <2>. QED BY <1>1, <1>5, <2>1, RequestsStay DEF RequestsOnce, Queued
<1>7. SessionsOnce'
  <2>1. \A l \in Links : ~Has(t, l)'
    BY <1>4, Turned, HttpConnPoolConstants DEF Rests
  <2>2. \A u \in HttpThreads, l \in Links : Has(u, l)' => Has(u, l)
    BY <1>3, <1>4, <2>1, Turned DEF ConnSoft
  <2>3. \A l \in Links \ {s} : Awaits(l)' => Awaits(l)
    BY <1>5 DEF Awaits, Told
  <2>4. \A l \in Links : (Unused(l)' <=> Unused(l)) /\ (Offered(l)' <=> Offered(l))
    BY <1>1 DEF Unused, Offered
  <2>5. ~Offered(s) /\ ~Unused(s)
    BY <1>2, OneUser
  <2>6. Distinct(idle)'
    BY <1>1 DEF SessionsOnce
  <2>. QED BY <1>2, <2>1, <2>2, <2>3, <2>4, <2>5, <2>6, SessionPasses
<1>8. SendersOK'
  <2>1. Awaits(s)' => conn'[s] \in {"up", "closing"}
    BY <1>1, <1>2, <1>5 DEF Awaits, Told
  <2>2. c.ses # s /\ c.step \notin {"send", "sent"}
    BY <1>2, <1>4, HttpConnPoolConstants DEF Rests
  <2>. QED BY <1>2, <1>3, <1>4, <1>5, <2>1, <2>2, SendersTurn DEF ConnSoft
<1>9. ThreadsOK' /\ LinksOK' /\ ClosingOK'
  <2>1. \A l \in Links : ~Told(l)' => Known(l)
    BY <1>5 DEF Told, LinksOK
  <2>2. \A l \in Links : Offered(l)' => Known(l)
    BY <1>1 DEF Offered, LinksOK
  <2>. QED BY <1>1, <1>2, <1>3, <1>4, <2>1, <2>2, PoolKeeps
<1>. QED BY <1>6, <1>7, <1>8, <1>9
-----------------------------------------------------------------------------
(* The steps of the sessions and their workers.                              *)

(* A thread that takes up neither a request nor a session.                   *)
LEMMA Aside ==
  ASSUME HttpTypeOK, NEW t \in HttpThreads, NEW c, Turns(t, c),
         thread[t].step \notin Holding \union Using, c.step \notin Holding \union Using
  PROVE  /\ \A u \in HttpThreads : \A r : Carries(u, r)' <=> Carries(u, r)
         /\ \A u \in HttpThreads : \A l : SentBy(u, l)' <=> SentBy(u, l)
         /\ \A u \in HttpThreads : \A l : SentBy(u, l)' => thread'[u] = thread[u]
         /\ \A u \in HttpThreads : \A l : (IsUp(l)' => IsUp(l)) => (Has(u, l)' => Has(u, l))
<1>1. \A u \in HttpThreads : \A r : Carries(u, r)' <=> Carries(u, r)
  BY Turned DEF Carries
<1>2. \A u \in HttpThreads : \A l : SentBy(u, l)' <=> SentBy(u, l)
  BY Turned DEF SentBy, Using
<1>3. \A u \in HttpThreads : \A l : SentBy(u, l)' => thread'[u] = thread[u]
  BY <1>2, Turned DEF SentBy, Using
<1>4. \A u \in HttpThreads : \A l : (IsUp(l)' => IsUp(l)) => (Has(u, l)' => Has(u, l))
  BY Turned DEF Using
<1>. QED BY <1>1, <1>2, <1>3, <1>4

(* No request and no session gets another holder.                            *)
LEMMA Quiet ==
  ASSUME HttpInv, pending' = pending, answered' = answered, Distinct(idle)',
         \A u \in HttpThreads : \A r : Carries(u, r)' <=> Carries(u, r),
         \A u \in HttpThreads : \A l : SentBy(u, l)' <=> SentBy(u, l),
         \A u \in HttpThreads : \A l : SentBy(u, l)' => thread'[u] = thread[u],
         \A u \in HttpThreads, l \in Links : Has(u, l)' => Has(u, l),
         \A l \in Links : /\ core'[l].request = core[l].request
                          /\ core'[l].sending = core[l].sending
                          /\ ~Told(l) /\ conn[l] \in {"up", "closing"} => conn'[l] \in {"up", "closing"}
                          /\ Unused(l)' => Unused(l)
                          /\ Offered(l)' => Offered(l)
  PROVE  RequestsOnce' /\ SessionsOnce' /\ SendersOK'
<1>. USE DEF HttpInv, HttpOK
<1>1. RequestsOnce'
  BY RequestsStay DEF RequestsOnce, Queued
<1>2. \A l \in Links : (Told(l)' <=> Told(l)) /\ (Awaits(l)' <=> Awaits(l))
  BY DEF Told, Awaits
<1>3. SessionsOnce'
  BY <1>2, SessionsStay
<1>4. SendersOK'
  BY <1>2, SendersStay
<1>. QED BY <1>1, <1>3, <1>4

LEMMA WorkerIs ==
  ASSUME HttpInv, NEW s \in Links
  PROVE  /\ s \in HttpThreads /\ s # Closer /\ Closer \in HttpThreads
         /\ thread[s].step \notin Holding \union Using => thread[s].ses = NoLink
  BY HttpConnPoolConstants DEF HttpThreads, HttpInv, HttpOK, ThreadsOK, ThreadOK

LEMMA ConnectedStep ==
  ASSUME HttpInv, NEW s \in Links, OnSessionConnected(s)
  PROVE  HttpOK'
<1>. USE DEF HttpInv, HttpOK
<1> DEFINE c == [thread[s] EXCEPT !.step = "give", !.ses = s]
<1>1. /\ conn[s] = "connecting" /\ thread[s].step = "idle" /\ WorkersRun
      /\ conn'[s] = "up" /\ \A l \in Links \ {s} : conn'[l] = conn[l]
      /\ connected' = connected \union {s}
      /\ thread' = [thread EXCEPT ![s].step = "give", ![s].ses = s]
      /\ UNCHANGED <<core, idle, pending, poolClosed, answered>>
  BY DEF OnSessionConnected, Is, tellVars, HttpTypeOK
<1>2. s \in HttpThreads /\ s # Closer /\ Closer \in HttpThreads
  BY WorkerIs
<1>3. Turns(s, c) /\ c.step = "give" /\ c.ses = s
  <2>1. thread \in [HttpThreads -> Calls] /\ thread[s] \in Calls
    BY <1>2 DEF HttpTypeOK
  <2>2. Turns(s, c)
    BY <1>1, <1>2, <2>1 DEF Turns
  <2>. QED BY <2>1, <2>2 DEF Calls
<1>. HIDE DEF c
<1>4. \A l \in Links : Known(l) => l # s /\ Known(l)'
  BY <1>1 DEF Known, LinksOK
<1>5. \A u \in HttpThreads : thread[u].ses # s
  BY <1>4, HttpConnPoolConstants DEF ThreadsOK, ThreadOK
<1>6. thread'[s] = c /\ \A u \in HttpThreads \ {s} : thread'[u] = thread[u]
  BY <1>2, <1>3, Turned
<1>7. RequestsOnce'
  <2>1. \A u \in HttpThreads : \A r : Carries(u, r)' <=> Carries(u, r)
    <3>1. \A r : ~Carries(s, r) /\ ~Carries(s, r)'
      BY <1>1, <1>3, <1>6 DEF Carries, Holding
    <3>2. \A u \in HttpThreads \ {s} : \A r : Carries(u, r)' <=> Carries(u, r)
      BY <1>6 DEF Carries
    <3>. QED BY <3>1, <3>2
  <2>. QED BY <1>1, <2>1, RequestsStay DEF RequestsOnce, Queued
<1>8. SessionsOnce'
  <2>1. \A u \in HttpThreads, l \in Links : u # s \/ l # s => (Has(u, l)' => Has(u, l))
    <3>1. \A u \in HttpThreads, l \in Links : u # s => (Has(u, l)' => Has(u, l))
      <4>1. SUFFICES ASSUME NEW u \in HttpThreads, u # s, NEW l \in Links, Has(u, l)' PROVE Has(u, l)
        OBVIOUS
      <4>2. thread'[u] = thread[u] /\ l # s
        BY <1>5, <1>6, <4>1 DEF Has
      <4>3. IsUp(l)' => IsUp(l)
        BY <1>1, <4>2 DEF IsUp
      <4>. QED BY <4>1, <4>2, <4>3 DEF Has
    <3>2. \A l \in Links : l # s => (Has(s, l)' => Has(s, l))
      BY <1>1, <1>3, <1>6 DEF Has, IsUp
    <3>. QED BY <3>1, <3>2
  <2>2. Unused(s) /\ ~Unused(s)' /\ \A l \in Links \ {s} : Unused(l)' => Unused(l)
    BY <1>1 DEF Unused
  <2>3. \A l : (Awaits(l)' <=> Awaits(l)) /\ (Offered(l)' <=> Offered(l))
    BY <1>1 DEF Awaits, Told, Offered
  <2>4. ~Awaits(s) /\ ~Offered(s) /\ Distinct(idle)'
    BY <1>1, <2>2 DEF SessionsOnce
  <2>. QED BY <1>2, <2>1, <2>2, <2>3, <2>4, SessionPasses
<1>9. SendersOK'
  <2>1. \A u \in HttpThreads, l \in Links : SentBy(u, l)' <=> SentBy(u, l)
    BY <1>1, <1>3, <1>6 DEF SentBy
  <2>2. \A u \in HttpThreads, l \in Links : SentBy(u, l)' => thread'[u] = thread[u]
    BY <1>3, <1>6 DEF SentBy
  <2>. QED BY <1>1, <2>1, <2>2, SendersStay
<1>10. ThreadsOK'
  <2>1. ThreadOK(s)'
    BY <1>1, <1>2, <1>3, <1>6 DEF ThreadOK, Steps, Using, Holding, Known
  <2>. QED BY <1>1, <1>2, <1>3, <1>4, <2>1, ThreadsTurn
<1>11. LinksOK'
  <2>1. \A l \in connected' : conn'[l] \in {"up", "closing", "lost"}
    BY <1>1 DEF LinksOK, HttpTypeOK
  <2>2. \A l \in Links : Offered(l)' => Known(l)'
    BY <1>1, <1>4 DEF LinksOK, Offered
  <2>3. \A l \in Links : ~Told(l)' \/ conn'[l] = "up" => Known(l)'
    BY <1>1, <1>4 DEF LinksOK, Told, Known
  <2>. QED BY <2>1, <2>2, <2>3 DEF LinksOK
<1>12. ClosingOK'
  BY <1>1, <1>2, <1>6 DEF ClosingOK, Is, WorkersRun
<1>. QED BY <1>7, <1>8, <1>9, <1>10, <1>11, <1>12

(* Sessions break, or are closed.                                            *)
LEMMA Breaks ==
  ASSUME HttpInv, connected' = connected, core' = core,
         \A l \in Links : \/ conn'[l] = conn[l]
                          \/ conn[l] \in {"connecting", "up"} /\ conn'[l] = "closing"
  PROVE  \A l \in Links : /\ IsUp(l)' => IsUp(l)
                          /\ Unused(l)' => Unused(l)
                          /\ conn[l] \in {"up", "closing"} => conn'[l] \in {"up", "closing"}
                          /\ Known(l)' <=> Known(l)
                          /\ conn[l] = "lost" => conn'[l] = "lost"
                          /\ l \in connected' => conn'[l] \in {"up", "closing", "lost"}
                          /\ ~Told(l)' \/ conn'[l] = "up" => Known(l)'
  BY DEF HttpInv, HttpOK, LinksOK, IsUp, Unused, Known, Told

LEMMA BrokenStep ==
  ASSUME HttpInv, NEW s \in Links, Broken(s)
  PROVE  HttpOK'
<1>. USE DEF HttpInv, HttpOK
<1>1. /\ conn[s] \in {"connecting", "up"} /\ conn'[s] = "closing" /\ WorkersRun
      /\ \A l \in Links \ {s} : conn'[l] = conn[l]
      /\ UNCHANGED <<core, idle, pending, connected, poolClosed, thread, answered>>
  BY DEF Broken, listVars, tellVars, HttpTypeOK
<1>2. \A l \in Links : \/ conn'[l] = conn[l]
                       \/ conn[l] \in {"connecting", "up"} /\ conn'[l] = "closing"
  BY <1>1
<1>3. RequestsOnce' /\ SessionsOnce' /\ SendersOK'
  <2>1. \A u \in HttpThreads, l \in Links : Has(u, l)' => Has(u, l)
    BY <1>1, <1>2, Breaks DEF Has
  <2>2. /\ \A u \in HttpThreads : \A r : Carries(u, r)' <=> Carries(u, r)
        /\ \A u \in HttpThreads : \A l : SentBy(u, l)' <=> SentBy(u, l)
    BY <1>1 DEF Carries, SentBy
  <2>3. Distinct(idle)' /\ \A l : Offered(l)' <=> Offered(l)
    BY <1>1 DEF SessionsOnce, Offered
  <2>. QED BY <1>1, <1>2, <2>1, <2>2, <2>3, Breaks, Quiet
<1>4. ThreadsOK'
  BY <1>1, <1>2, Breaks, ThreadsStay
<1>5. LinksOK'
  BY <1>1, <1>2, Breaks DEF LinksOK, Offered, HttpTypeOK
<1>6. ClosingOK'
  BY <1>1 DEF ClosingOK, Is, WorkersRun
<1>. QED BY <1>3, <1>4, <1>5, <1>6

(* Nothing the invariant speaks of changes.                                  *)
LEMMA CoresSame ==
  ASSUME HttpInv, UNCHANGED <<conn, idle, pending, connected, poolClosed, thread, answered>>,
         \A l \in Links : /\ core'[l].request = core[l].request
                          /\ core'[l].sending = core[l].sending
  PROVE  HttpOK'
<1>. USE DEF HttpInv, HttpOK
<1>1. RequestsOnce' /\ SessionsOnce' /\ SendersOK'
  <2>1. \A u \in HttpThreads, l \in Links : Has(u, l)' => Has(u, l)
    BY DEF Has, IsUp
  <2>2. /\ \A u \in HttpThreads : \A r : Carries(u, r)' <=> Carries(u, r)
        /\ \A u \in HttpThreads : \A l : SentBy(u, l)' <=> SentBy(u, l)
    BY DEF Carries, SentBy
  <2>3. /\ Distinct(idle)' /\ \A l : Offered(l)' <=> Offered(l)
        /\ \A l : Unused(l)' <=> Unused(l)
    BY DEF SessionsOnce, Offered, Unused
  <2>. QED BY <2>1, <2>2, <2>3, Quiet
<1>2. ThreadsOK'
  BY ThreadsStay DEF Known
<1>3. LinksOK'
  BY DEF LinksOK, Offered, Told, Known
<1>4. ClosingOK'
  BY DEF ClosingOK, Is, WorkersRun
<1>. QED BY <1>1, <1>2, <1>3, <1>4

LEMMA FeedMoreStep ==
  ASSUME HttpInv, NEW s \in Links, FeedMore(s)
  PROVE  HttpOK'
<1>1. UNCHANGED <<conn, idle, pending, connected, poolClosed, thread, answered>>
  BY DEF FeedMore, listVars
<1>2. \A l \in Links : core'[l].request = core[l].request /\ core'[l].sending = core[l].sending
  BY DEF FeedMore, HttpInv, HttpTypeOK, Cores
<1>. QED BY <1>1, <1>2, CoresSame

(* A request that a session awaited is told by thread t.                     *)
LEMMA AwaitedTold ==
  ASSUME HttpInv, NEW s \in Links, ~Told(s), NEW t \in HttpThreads,
         thread[t].step \notin Holding \union Using, NEW ok \in BOOLEAN, CallBack(t, s, ok),
         core'[s].request = NoRequest,
         \A l \in Links \ {s} : core'[l].request = core[l].request,
         UNCHANGED <<pending, answered>>
  PROVE  /\ RequestsOnce' /\ Known(s)
         /\ thread'[t].step = "callback" /\ thread'[t].req \in Requests
         /\ thread'[t].ses = s /\ thread'[t].ok = ok
         /\ \E c : Turns(t, c) /\ c.step = "callback" /\ c.ses = s /\ c.ok = ok
<1>. USE DEF HttpInv, HttpOK
<1>0. PICK m : m = core[s].request
  OBVIOUS
<1> DEFINE c == [step |-> "callback", req |-> m, ses |-> s, ok |-> ok]
<1>1. Turns(t, c)
  BY <1>0 DEF CallBack, Turns
<1>2. c.step = "callback" /\ c.req = m /\ c.ses = s /\ c.ok = ok
  OBVIOUS
<1>. HIDE DEF c
<1>3. m \in Requests /\ AwaitedBy(s, m)
  BY <1>0 DEF Told, AwaitedBy, HttpTypeOK, Cores
<1>4. ~Queued(m) /\ answered[m] = 0 /\ Distinct(pending)'
  BY <1>3 DEF RequestsOnce, AwaitedBy, Awaited
<1>5. \A r : Queued(r)' <=> Queued(r)
  BY DEF Queued
<1>6. \A l \in Links, r \in Requests : l # s \/ r # m =>
        (core'[l].request = r <=> core[l].request = r)
  BY <1>0, HttpConnPoolConstants
<1>7. \A r \in Requests : ~Carries(t, r)
  BY DEF Carries
<1>8. \A u \in HttpThreads : \A r \in Requests : u # t \/ r # m => (Carries(u, r)' <=> Carries(u, r))
  BY <1>1, <1>2, <1>7, Turned
<1>9. ~AwaitedBy(s, m)'
  BY <1>3, HttpConnPoolConstants DEF AwaitedBy
<1>10. Carries(t, m)'
  BY <1>1, <1>2, Turned DEF Holding
<1>11. RequestsOnce'
  BY <1>3, <1>4, <1>5, <1>6, <1>8, <1>9, <1>10, RequestMoves
<1>12. Known(s)
  BY DEF LinksOK
<1>13. thread'[t] = c
  BY <1>1, Turned
<1>. QED BY <1>1, <1>2, <1>3, <1>11, <1>12, <1>13
LEMMA FeedCompleteStep ==
  ASSUME HttpInv, NEW s \in Links, FeedComplete(s)
  PROVE  HttpOK'
<1>. USE DEF HttpInv, HttpOK
<1>1. /\ thread[s].step = "idle" /\ IsUp(s) /\ ~Told(s)
      /\ UNCHANGED <<conn, idle, pending, connected, poolClosed, answered>>
  BY DEF FeedComplete, Receiving, Is, listVars
<1>2. PICK success \in BOOLEAN, close \in BOOLEAN :
        LET parsed == [core[s] EXCEPT !.fed = TRUE, !.close = close]
        IN  IF core[s].sending
            THEN /\ core' = [core EXCEPT ![s] =
                               [parsed EXCEPT !.deferred = IF success THEN "success" ELSE "failure"]]
                 /\ UNCHANGED thread
            ELSE /\ core' = [core EXCEPT ![s] = [parsed EXCEPT !.request = NoRequest]]
                 /\ CallBack(s, s, success)
  BY DEF FeedComplete
<1>3. s \in HttpThreads /\ s # Closer /\ Closer \in HttpThreads /\ thread[s].ses = NoLink
  BY <1>1, WorkerIs DEF Holding, Using
<1>4. CASE core[s].sending
  <2>1. /\ \A l \in Links : core'[l].request = core[l].request /\ core'[l].sending = core[l].sending
        /\ thread' = thread
    <3>1. PICK d \in {"success", "failure"} :
            core' = [core EXCEPT ![s] = [[core[s] EXCEPT !.fed = TRUE, !.close = close] EXCEPT !.deferred = d]]
      BY <1>2, <1>4
    <3>2. thread' = thread
      BY <1>2, <1>4
    <3>3. core'[s] = [[core[s] EXCEPT !.fed = TRUE, !.close = close] EXCEPT !.deferred = d]
      BY <3>1 DEF HttpTypeOK
    <3>4. core'[s].request = core[s].request /\ core'[s].sending = core[s].sending
      BY <3>3 DEF HttpTypeOK, Cores
    <3>5. \A l \in Links \ {s} : core'[l] = core[l]
      BY <3>1 DEF HttpTypeOK
    <3>. QED BY <3>2, <3>4, <3>5
  <2>. QED BY <1>1, <2>1, CoresSame
<1>5. CASE ~core[s].sending
  <2>1. /\ core'[s].request = NoRequest /\ core'[s].sending = core[s].sending
        /\ \A l \in Links \ {s} : core'[l] = core[l]
        /\ CallBack(s, s, success)
    BY <1>2, <1>5 DEF HttpTypeOK, Cores
  <2>2. thread[s].step \notin Holding \union Using
    BY <1>1 DEF Holding, Using
  <2>3. /\ RequestsOnce' /\ Known(s)
        /\ thread'[s].step = "callback" /\ thread'[s].req \in Requests
        /\ thread'[s].ses = s /\ thread'[s].ok = success
        /\ \E c : Turns(s, c) /\ c.step = "callback" /\ c.ses = s /\ c.ok = success
    BY <1>1, <1>3, <2>1, <2>2, AwaitedTold
  <2>4. PICK c : Turns(s, c) /\ c.step = "callback" /\ c.ses = s /\ c.ok = success
    BY <2>3
  <2>5. ConnSoft
    BY <1>1, ConnCut
  <2>6. Told(s)' /\ \A l \in Links \ {s} : (Told(l)' <=> Told(l)) /\ (Awaits(l)' <=> Awaits(l))
    BY <2>1 DEF Told, Awaits
  <2>7. SessionsOnce'
    <3>1. \A u \in HttpThreads, l \in Links : u # s \/ l # s => (Has(u, l)' => Has(u, l))
      BY <1>3, <2>4, <2>5, Turned DEF ConnSoft
    <3>2. \A l : (Unused(l)' <=> Unused(l)) /\ (Offered(l)' <=> Offered(l))
      BY <1>1 DEF Unused, Offered
    <3>3. Awaits(s) /\ ~Awaits(s)'
      BY <1>1, <1>5, <2>6 DEF Awaits
    <3>4. ~Unused(s) /\ ~Offered(s) /\ Distinct(idle)'
      BY <1>1, <3>3 DEF SessionsOnce
    <3>. QED BY <1>3, <2>6, <3>1, <3>2, <3>3, <3>4, SessionPasses
  <2>8. SendersOK'
    <3>1. \A u \in HttpThreads, l \in Links : SentBy(u, l)' <=> SentBy(u, l)
      BY <1>1, <1>3, <2>4, Turned DEF SentBy
    <3>2. \A u \in HttpThreads, l \in Links : SentBy(u, l)' => thread'[u] = thread[u]
      BY <1>3, <2>4, <3>1, Turned DEF SentBy
    <3>. QED BY <1>1, <2>1, <2>6, <3>1, <3>2, SendersStay
  <2>9. ThreadsOK' /\ LinksOK' /\ ClosingOK'
    <3>1. ThreadOK(s)'
      BY <1>3, <2>3, <2>5 DEF ThreadOK, Steps, Using, Holding, ConnSoft
    <3>2. \A l \in Links : ~Told(l)' => Known(l)
      BY <2>6 DEF LinksOK
    <3>3. \A l \in Links : Offered(l)' => Known(l)
      BY <1>1 DEF Offered, LinksOK
    <3>. QED BY <1>1, <1>3, <2>4, <2>5, <3>1, <3>2, <3>3, PoolKeeps
  <2>. QED BY <2>3, <2>7, <2>8, <2>9
<1>. QED BY <1>4, <1>5

(* The end of the session, and its OnDisconnected().                         *)
LEMMA DisconnectedStep ==
  ASSUME HttpInv, NEW s \in Links, OnSessionDisconnected(s)
  PROVE  HttpOK'
<1>. USE DEF HttpInv, HttpOK
<1>1. /\ conn[s] = "closing" /\ thread[s].step = "idle"
      /\ conn'[s] = "lost" /\ \A l \in Links \ {s} : conn'[l] = conn[l]
      /\ UNCHANGED <<idle, pending, connected, poolClosed, answered>>
  BY DEF OnSessionDisconnected, Is, listVars, tellVars, HttpTypeOK
<1>2. s \in HttpThreads /\ s # Closer /\ Closer \in HttpThreads /\ thread[s].ses = NoLink
  BY <1>1, WorkerIs DEF Holding, Using
<1>3. thread[s].step \notin Holding \union Using
  BY <1>1 DEF Holding, Using
<1>20. core \in [Links -> Cores]
  BY DEF HttpTypeOK
<1>21. \/ core' = core /\ core[s].request = NoRequest
       \/ core' = [core EXCEPT ![s] = [core[s] EXCEPT !.request = NoRequest, !.deferred = "none"]]
  <2>. HIDE DEF HttpInv, HttpOK
  <2>. QED BY DEF OnSessionDisconnected, Told
<1>4. \A l \in Links : core'[l].sending = core[l].sending /\ (~Told(l)' => core'[l].request = core[l].request)
  <2>1. \A l \in Links : l # s => core'[l] = core[l]
    BY <1>20, <1>21
  <2>2. core[s] \in Cores
    BY <1>20
  <2>3. core'[s].sending = core[s].sending /\ core'[s].request = NoRequest
    BY ONLY <1>20, <1>21, <2>2, s \in Links DEF Cores
  <2>. QED BY ONLY <2>1, <2>3 DEF Told
<1>5. Told(s)'
  BY ONLY <1>20, <1>21, s \in Links DEF Told, Cores
<1>6. \A l \in Links : (Known(l) => Known(l)') /\ (IsUp(l)' => IsUp(l)) /\ (Unused(l)' => Unused(l))
  BY <1>1 DEF Known, IsUp, Unused
<1>7. /\ RequestsOnce'
      /\ \E c : Turns(s, c) /\ c.step \in {"down", "callback"} /\ (c.step = "callback" => c.ses = s)
      /\ ThreadOK(s)'
  <2>1. CASE Told(s)
    <3> DEFINE c == [thread[s] EXCEPT !.step = "down"]
    <3>1. core' = core /\ Turns(s, c)
      BY <2>1 DEF OnSessionDisconnected, ToStep, Turns, HttpTypeOK
    <3>2. c.step = "down" /\ c.ses = NoLink
      BY <1>2 DEF HttpTypeOK, Calls
    <3>. HIDE DEF c
    <3>3. thread'[s] = c
      BY <1>2, <3>1, Turned
    <3>4. \A u \in HttpThreads : \A r : Carries(u, r)' <=> Carries(u, r)
      BY <1>2, <1>3, <3>1, <3>2, Aside DEF Holding, Using
    <3>5. RequestsOnce'
      BY <1>1, <3>1, <3>4, RequestsStay DEF RequestsOnce, Queued
    <3>6. ThreadOK(s)'
      BY <1>1, <1>2, <3>2, <3>3 DEF ThreadOK, Steps, Using, Holding
    <3>. QED BY <3>1, <3>2, <3>5, <3>6
  <2>2. CASE ~Told(s)
    <3>1. PICK ok \in BOOLEAN : CallBack(s, s, ok)
      BY <2>2 DEF OnSessionDisconnected
    <3>2. core'[s].request = NoRequest /\ \A l \in Links \ {s} : core'[l].request = core[l].request
      BY <2>2 DEF OnSessionDisconnected, HttpTypeOK, Cores
    <3>3. /\ RequestsOnce' /\ Known(s)
          /\ thread'[s].step = "callback" /\ thread'[s].req \in Requests /\ thread'[s].ses = s
          /\ \E c : Turns(s, c) /\ c.step = "callback" /\ c.ses = s
      BY <1>1, <1>2, <1>3, <2>2, <3>1, <3>2, AwaitedTold
    <3>4. ThreadOK(s)'
      BY <1>2, <1>6, <3>3 DEF ThreadOK, Steps, Using, Holding
    <3>. QED BY <3>3, <3>4
  <2>. QED BY <2>1, <2>2
<1>8. PICK c : Turns(s, c) /\ c.step \in {"down", "callback"} /\ (c.step = "callback" => c.ses = s)
  BY <1>7
<1>9. thread'[s] = c /\ \A u \in HttpThreads \ {s} : thread'[u] = thread[u]
  BY <1>2, <1>8, Turned
<1>10. SessionsOnce'
  <2>1. \A u \in HttpThreads, l \in Links : Has(u, l)' => Has(u, l)
    <3>1. \A l \in Links : ~Has(s, l)'
      BY <1>1, <1>8, <1>9 DEF Has, IsUp
    <3>. QED BY <1>6, <1>9, <3>1 DEF Has
  <2>2. \A l \in Links : Awaits(l)' => Awaits(l)
    BY <1>4 DEF Awaits, Told
  <2>3. Distinct(idle)' /\ \A l : Offered(l)' <=> Offered(l)
    BY <1>1 DEF Offered, SessionsOnce
  <2>. QED BY <1>6, <2>1, <2>2, <2>3, SessionsStay
<1>11. SendersOK'
  <2>1. \A u \in HttpThreads, l \in Links : SentBy(u, l)' <=> SentBy(u, l)
    BY <1>1, <1>8, <1>9 DEF SentBy
  <2>2. \A u \in HttpThreads, l \in Links : SentBy(u, l)' => thread'[u] = thread[u]
    BY <1>8, <1>9 DEF SentBy
  <2>3. \A l \in Links : ~Told(l)' => (conn[l] \in {"up", "closing"} => conn'[l] \in {"up", "closing"})
    BY <1>1, <1>5
  <2>. QED BY <1>4, <2>1, <2>2, <2>3, SendersStay
<1>12. ThreadsOK'
  <2>1. \A l \in Links \ {s} : /\ conn[l] = "lost" => conn'[l] = "lost"
                               /\ l \notin connected => l \notin connected'
    BY <1>1
  <2>. QED BY <1>2, <1>6, <1>7, <1>8, <2>1, ThreadsTurn
<1>13. LinksOK'
  <2>1. \A l \in connected' : conn'[l] \in {"up", "closing", "lost"}
    BY <1>1 DEF LinksOK, HttpTypeOK
  <2>2. \A l \in Links : Offered(l)' => Known(l)'
    BY <1>1, <1>6 DEF LinksOK, Offered
  <2>3. \A l \in Links : ~Told(l)' \/ conn'[l] = "up" => Known(l)'
    BY <1>4, <1>6 DEF LinksOK, Told, IsUp
  <2>. QED BY <2>1, <2>2, <2>3 DEF LinksOK
<1>14. ClosingOK'
  BY <1>1, <1>2, <1>9 DEF ClosingOK, Is, WorkersRun
<1>. QED BY <1>7, <1>10, <1>11, <1>12, <1>13, <1>14

(* What the end of the session leaves to do.                                 *)
LEMMA DownStep ==
  ASSUME HttpInv, NEW s \in Links, Down(s) \/ ReleaseSession(s)
  PROVE  HttpOK'
<1>. USE DEF HttpInv, HttpOK
<1>1. /\ thread[s].step \in {"down", "release"} 
      /\ thread[s].step = "release" => s \notin connected
      /\ connected' \subseteq connected /\ (thread[s].step = "down" => s \notin connected')
      /\ connected \ {s} \subseteq connected'
      /\ UNCHANGED <<core, pending, poolClosed, answered>>
      /\ \/ idle' = idle
         \/ idle' = Without(idle, {s})
  BY DEF Down, ReleaseSession, Is, listVars, tellVars, ThreadsOK, ThreadOK, HttpThreads
<1>2. s \in HttpThreads /\ s # Closer /\ Closer \in HttpThreads /\ thread[s].ses = NoLink
  BY <1>1, WorkerIs DEF Holding, Using
<1>3. conn[s] = "lost"
  BY <1>1, <1>2 DEF ThreadsOK, ThreadOK
<1>4. \/ conn' = conn
      \/ conn'[s] = "gone" /\ s \notin connected /\ \A l \in Links \ {s} : conn'[l] = conn[l]
  BY <1>1 DEF Down, ReleaseSession, HttpTypeOK, Is
<1>5. PICK c : /\ Turns(s, c) /\ c.ses = NoLink /\ c.step \in {"release", "idle"}
               /\ c.step = "release" => s \notin connected' /\ conn' = conn
  <2>1. CASE Down(s)
    <3> DEFINE c == [thread[s] EXCEPT !.step = "release"]
    <3>1. Turns(s, c) /\ s \notin connected' /\ conn' = conn
      BY <2>1 DEF Down, ToStep, Turns, HttpTypeOK
    <3>2. c.step = "release" /\ c.ses = NoLink
      BY <1>2 DEF HttpTypeOK, Calls
    <3>. HIDE DEF c
    <3>. QED BY <3>1, <3>2
  <2>2. CASE ReleaseSession(s)
    <3> DEFINE c == [thread[s] EXCEPT !.step = "idle"]
    <3>1. Turns(s, c)
      BY <2>2 DEF ReleaseSession, ToStep, Turns, HttpTypeOK
    <3>2. c.step = "idle" /\ c.ses = NoLink
      BY <1>2 DEF HttpTypeOK, Calls
    <3>. HIDE DEF c
    <3>. QED BY <3>1, <3>2
  <2>. QED BY <2>1, <2>2
<1>6. thread'[s] = c /\ \A u \in HttpThreads \ {s} : thread'[u] = thread[u]
  BY <1>2, <1>5, Turned
<1>7. /\ Distinct(idle)' /\ \A l : Offered(l)' => Offered(l)
  <2>1. idle \in Seq(Links) /\ Distinct(idle)
    BY DEF HttpTypeOK, SessionsOnce
  <2>2. /\ Distinct(Without(idle, {s}))
        /\ \A l : Members(Without(idle, {s}), l) => Members(idle, l)
    BY ONLY <2>1, WithoutOf
  <2>. QED BY <1>1, <2>1, <2>2 DEF Offered
<1>8. \A l \in Links : /\ IsUp(l)' => IsUp(l)
                       /\ Unused(l)' => Unused(l)
                       /\ conn[l] \in {"up", "closing"} => conn'[l] \in {"up", "closing"}
                       /\ Known(l) => Known(l)'
                       /\ l # s => conn'[l] = conn[l]
  BY <1>1, <1>3, <1>4 DEF IsUp, Unused, Known
<1>9. RequestsOnce' /\ SessionsOnce' /\ SendersOK'
  <2>1. thread[s].step \notin Holding \union Using /\ c.step \notin Holding \union Using
    BY <1>1, <1>5 DEF Holding, Using
  <2>2. /\ \A u \in HttpThreads : \A r : Carries(u, r)' <=> Carries(u, r)
        /\ \A u \in HttpThreads : \A l : SentBy(u, l)' <=> SentBy(u, l)
        /\ \A u \in HttpThreads : \A l : SentBy(u, l)' => thread'[u] = thread[u]
        /\ \A u \in HttpThreads : \A l : (IsUp(l)' => IsUp(l)) => (Has(u, l)' => Has(u, l))
    BY <1>2, <1>5, <2>1, Aside
  <2>3. \A u \in HttpThreads, l \in Links : Has(u, l)' => Has(u, l)
    BY <1>8, <2>2
  <2>. QED BY <1>1, <1>7, <1>8, <2>2, <2>3, Quiet
<1>10. ThreadsOK'
  <2>1. ThreadOK(s)'
    BY <1>2, <1>3, <1>5, <1>6 DEF ThreadOK, Steps, Using, Holding
  <2>2. \A l \in Links \ {s} : /\ conn[l] = "lost" => conn'[l] = "lost"
                               /\ l \notin connected => l \notin connected'
    BY <1>1, <1>8
  <2>. QED BY <1>2, <1>5, <1>8, <2>1, <2>2, ThreadsTurn
<1>11. LinksOK'
  <2>1. \A l \in connected' : conn'[l] \in {"up", "closing", "lost"}
    BY <1>1, <1>4, <1>8 DEF LinksOK, HttpTypeOK
  <2>2. \A l \in Links : Offered(l)' => Known(l)'
    BY <1>7, <1>8 DEF LinksOK
  <2>3. \A l \in Links : ~Told(l)' \/ conn'[l] = "up" => Known(l)'
    BY <1>1, <1>8 DEF LinksOK, Told, IsUp
  <2>. QED BY <2>1, <2>2, <2>3 DEF LinksOK
<1>12. ClosingOK'
  BY <1>1, <1>2, <1>3, <1>6 DEF ClosingOK, Is, WorkersRun
<1>. QED BY <1>9, <1>10, <1>11, <1>12
-----------------------------------------------------------------------------
(* The steps of the timer and of Close().                                    *)
LEMMA OthersAre ==
  ASSUME HttpInv
  PROVE  /\ TaskThread \in HttpThreads /\ Closer \in HttpThreads
         /\ TaskThread # Closer /\ TaskThread \notin Links /\ Closer \notin Links
         /\ \A t \in {TaskThread, Closer} :
              thread[t].step \notin Holding \union Using => thread[t].ses = NoLink
  BY HttpConnPoolConstants DEF HttpThreads, HttpInv, HttpOK, ThreadsOK, ThreadOK

(* ToStep() between steps that hold nothing.                                 *)
LEMMA Goes ==
  ASSUME HttpTypeOK, NEW t \in HttpThreads, NEW p, ToStep(t, p)
  PROVE  \E c : Turns(t, c) /\ c.step = p /\ c.ses = thread[t].ses
<1> DEFINE c == [thread[t] EXCEPT !.step = p]
<1>1. Turns(t, c)
  BY DEF Turns, ToStep
<1>2. c.step = p /\ c.ses = thread[t].ses
  BY DEF HttpTypeOK, Calls
<1>. HIDE DEF c
<1>. QED BY <1>1, <1>2

(* The timer goes on to a step that holds nothing.                           *)
LEMMA TimerGoes ==
  ASSUME HttpInv, Is(TaskThread, "idle") \/ Is(TaskThread, "scan"), NEW p \in {"idle", "scan", "connect"},
         ToStep(TaskThread, p), UNCHANGED <<conn, core, idle, connected, poolClosed>>,
         poolClosed /\ pending = <<>> => pending' = <<>>
  PROVE  /\ SessionsOnce' /\ SendersOK' /\ ThreadsOK' /\ LinksOK' /\ ClosingOK'
         /\ \A u \in HttpThreads : \A r : Carries(u, r)' <=> Carries(u, r)
<1>. USE DEF HttpInv, HttpOK
<1> DEFINE t == TaskThread
<1>1. /\ t \in HttpThreads /\ t # Closer
      /\ thread[t].step \notin Holding \union Using /\ thread[t].ses = NoLink
  BY OthersAre DEF Is, Holding, Using
<1>2. PICK c : Turns(t, c) /\ c.step = p /\ c.ses = NoLink
  BY <1>1, Goes
<1>3. c.step \notin Holding \union Using
  BY <1>2 DEF Holding, Using
<1>4. ConnSoft
  BY ConnCut
<1>5. SessionsOnce'
  BY <1>1, <1>2, <1>4, SessionLeft DEF Offered, SessionsOnce
<1>6. SendersOK'
  BY <1>1, <1>2, <1>3, NoSender DEF Using
<1>7. ThreadOK(t)'
  <2>1. thread'[t] = c
    BY <1>1, <1>2, Turned
  <2>. QED BY <1>1, <1>2, <1>3, <2>1 DEF ThreadOK, Steps, Using, Holding
<1>8. ThreadsOK' /\ LinksOK' /\ ClosingOK'
  <2>1. \A l \in Links : Offered(l)' => Known(l)
    BY DEF Offered, LinksOK
  <2>. QED BY <1>1, <1>2, <1>4, <1>7, <2>1, PoolKeepsCores
<1>9. \A u \in HttpThreads : \A r : Carries(u, r)' <=> Carries(u, r)
  BY <1>1, <1>2, <1>3, Aside
<1>. QED BY <1>5, <1>6, <1>8, <1>9

LEMMA ReconnectStep ==
  ASSUME HttpInv, Reconnect
  PROVE  HttpOK'
<1>1. /\ Is(TaskThread, "idle")
      /\ thread' = thread \/ ToStep(TaskThread, "connect")
      /\ UNCHANGED <<conn, core, idle, pending, connected, poolClosed, answered>>
  BY DEF Reconnect, listVars, tellVars
<1>2. CASE thread' = thread
  BY <1>1, <1>2, CoresSame
<1>3. CASE ToStep(TaskThread, "connect")
  <2>1. /\ SessionsOnce' /\ SendersOK' /\ ThreadsOK' /\ LinksOK' /\ ClosingOK'
        /\ \A u \in HttpThreads : \A r : Carries(u, r)' <=> Carries(u, r)
    BY <1>1, <1>3, TimerGoes
  <2>2. RequestsOnce'
    BY <1>1, <2>1, RequestsStay DEF RequestsOnce, Queued, HttpInv, HttpOK
  <2>. QED BY <2>1, <2>2 DEF HttpOK
<1>. QED BY <1>1, <1>2, <1>3

(* Requests leave the queue and are answered.                                *)
LEMMA QueueAnswered ==
  ASSUME HttpInv, core' = core, NEW R, Answer(R),
         \A u \in HttpThreads : \A r : Carries(u, r)' <=> Carries(u, r),
         Distinct(pending)', \A r \in Requests : Queued(r)' <=> Queued(r) /\ r \notin R,
         \A r \in R : Queued(r)
  PROVE  RequestsOnce'
<1>. USE DEF HttpInv, HttpOK
<1>1. ASSUME NEW r \in Requests
      PROVE  /\ (Carried(r)' <=> Carried(r)) /\ (Awaited(r)' <=> Awaited(r))
             /\ answered'[r] = IF r \in R THEN answered[r] + 1 ELSE answered[r]
  BY DEF Carried, Awaited, Answer
<1>2. ASSUME NEW r \in Requests
      PROVE  answered'[r] = IF Carried(r)' \/ Awaited(r)' \/ Queued(r)' THEN 0 ELSE 1
  <2>1. CASE r \in R
    <3>1. Queued(r) /\ ~Queued(r)'
      BY <2>1
    <3>2. ~Carried(r) /\ ~Awaited(r) /\ answered[r] = 0
      BY <3>1 DEF RequestsOnce
    <3>. QED BY <1>1, <2>1, <3>1, <3>2
  <2>2. CASE r \notin R
    BY <1>1, <2>2 DEF RequestsOnce
  <2>. QED BY <2>1, <2>2
<1>3. ASSUME NEW r \in Requests
      PROVE  /\ \A t, u \in HttpThreads : Carries(t, r)' /\ Carries(u, r)' => t = u
             /\ \A s, l \in Links : core'[s].request = r /\ core'[l].request = r => s = l
  BY DEF RequestsOnce
<1>. QED BY <1>1, <1>2, <1>3 DEF RequestsOnce

LEMMA ScanTimeoutsStep ==
  ASSUME HttpInv, ScanTimeouts
  PROVE  HttpOK'
<1>. USE DEF HttpInv, HttpOK
<1>0. PICK p : p = (IF connected = {} THEN "idle" ELSE "scan")
  OBVIOUS
<1>1. /\ Is(TaskThread, "idle") /\ ToStep(TaskThread, p) /\ p \in {"idle", "scan"}
      /\ pending' = Without(pending, late)
      /\ Answer(ToSet(pending) \intersect late)
      /\ UNCHANGED <<conn, core, idle, connected, poolClosed>>
  BY <1>0 DEF ScanTimeouts
<1>2. \A x : x \in ToSet(pending) <=> Members(pending, x)
  BY DEF ToSet, Members
<1>3. /\ pending' \in Seq(Requests) /\ Distinct(pending')
      /\ \A x : Members(pending', x) <=> Members(pending, x) /\ x \notin late
  <2>1. pending \in Seq(Requests) /\ Distinct(pending)
    BY DEF HttpTypeOK, RequestsOnce
  <2>. QED BY ONLY <1>1, <2>1, WithoutOf
<1>4. pending = <<>> => pending' = <<>>
  <2>1. CASE pending = <<>>
    <3>1. \A x : ~Members(pending', x)
      BY <1>3, <2>1 DEF Members
    <3>2. Len(pending') = 0
      <4>1. Len(pending') \in Nat /\ DOMAIN pending' = 1..Len(pending')
        BY <1>3
      <4>2. 1 \notin DOMAIN pending'
        BY <3>1 DEF Members
      <4>. QED BY <4>1, <4>2
    <3>. QED BY <1>3, <3>2
  <2>. QED BY <2>1
<1>5. /\ SessionsOnce' /\ SendersOK' /\ ThreadsOK' /\ LinksOK' /\ ClosingOK'
      /\ \A u \in HttpThreads : \A r : Carries(u, r)' <=> Carries(u, r)
  BY <1>1, <1>4, TimerGoes
<1>6. RequestsOnce'
  BY <1>1, <1>2, <1>3, <1>5, QueueAnswered DEF Queued
<1>. QED BY <1>5, <1>6

LEMMA CheckTimeoutStep ==
  ASSUME HttpInv, CheckTimeout
  PROVE  HttpOK'
<1>. USE DEF HttpInv, HttpOK
<1> DEFINE t == TaskThread
<1>1. /\ Is(t, "scan") /\ UNCHANGED <<conn, idle, pending, connected, poolClosed, answered>>
  BY DEF CheckTimeout, listVars, tellVars
<1>2. /\ t \in HttpThreads /\ t # Closer
      /\ thread[t].step \notin Holding \union Using
  BY <1>1, OthersAre DEF Is, Holding, Using
<1>3. PICK s \in scan :
        IF core[s].request \in late /\ core[s].deferred = "none"
        THEN /\ core' = [core EXCEPT ![s] = [@ EXCEPT !.timedOut = TRUE, !.request = NoRequest]]
             /\ CallBack(t, s, FALSE)
        ELSE /\ ToStep(t, IF scan = {s} THEN "idle" ELSE "scan")
             /\ UNCHANGED core
  BY DEF CheckTimeout
<1>4. CASE core[s].request \in late /\ core[s].deferred = "none"
  <2>1. s \in Links /\ ~Told(s)
    BY <1>4, HttpConnPoolConstants DEF HttpTypeOK, Told
  <2>2. core'[s] = [core[s] EXCEPT !.timedOut = TRUE, !.request = NoRequest]
    BY <1>3, <1>4, <2>1 DEF HttpTypeOK
  <2>3. core'[s].request = NoRequest /\ core'[s].sending = core[s].sending
    BY <2>1, <2>2 DEF HttpTypeOK, Cores
  <2>4. \A l \in Links \ {s} : core'[l] = core[l]
    BY <1>3, <1>4, <2>1 DEF HttpTypeOK
  <2>0. PICK ok \in BOOLEAN : ok = FALSE
    OBVIOUS
  <2>5. CallBack(t, s, ok)
    BY ONLY <1>3, <1>4, <2>0
  <2>6. /\ RequestsOnce' /\ Known(s)
        /\ thread'[t].step = "callback" /\ thread'[t].req \in Requests
        /\ thread'[t].ses = s /\ thread'[t].ok = ok
        /\ \E c : Turns(t, c) /\ c.step = "callback" /\ c.ses = s /\ c.ok = ok
    BY <1>1, <1>2, <2>1, <2>3, <2>4, <2>5, AwaitedTold
  <2>7. PICK c : Turns(t, c) /\ c.step = "callback" /\ c.ses = s /\ c.ok = ok
    BY <2>6
  <2>8. ConnSoft
    BY <1>1, ConnCut
  <2>9. Told(s)' /\ \A l \in Links : ~Told(l)' => ~Told(l) /\ core'[l].request = core[l].request
    BY <2>3, <2>4 DEF Told
  <2>10. \A l \in Links : core'[l].sending = core[l].sending
    BY <2>3, <2>4
  <2>11. SessionsOnce'
    <3>1. \A u \in HttpThreads, l \in Links : Has(u, l)' => Has(u, l)
      BY <1>2, <2>0, <2>7, <2>8, Turned DEF ConnSoft
    <3>2. \A l : (Unused(l)' <=> Unused(l)) /\ (Offered(l)' <=> Offered(l))
      BY <1>1 DEF Unused, Offered
    <3>3. \A l \in Links : Awaits(l)' => Awaits(l)
      BY <2>9, <2>10 DEF Awaits
    <3>4. Distinct(idle)'
      BY <1>1 DEF SessionsOnce
    <3>. QED BY <3>1, <3>2, <3>3, <3>4, SessionsStay
  <2>12. SendersOK'
    <3>1. \A u \in HttpThreads, l \in Links : SentBy(u, l)' <=> SentBy(u, l)
      BY <1>2, <2>7, Turned DEF SentBy, Using
    <3>2. \A u \in HttpThreads, l \in Links : SentBy(u, l)' => thread'[u] = thread[u]
      BY <1>2, <2>7, <3>1, Turned DEF SentBy
    <3>. QED BY <1>1, <2>9, <2>10, <3>1, <3>2, SendersStay
  <2>13. ThreadsOK' /\ LinksOK' /\ ClosingOK'
    <3>1. ThreadOK(t)'
      BY <1>2, <2>1, <2>6, <2>8 DEF ThreadOK, Steps, Using, Holding, ConnSoft
    <3>2. \A l \in Links : ~Told(l)' => Known(l)
      BY <2>9 DEF LinksOK
    <3>3. \A l \in Links : Offered(l)' => Known(l)
      BY <1>1 DEF Offered, LinksOK
    <3>. QED BY <1>1, <1>2, <2>7, <2>8, <3>1, <3>2, <3>3, PoolKeeps
  <2>. QED BY <2>6, <2>11, <2>12, <2>13
<1>5. CASE ~(core[s].request \in late /\ core[s].deferred = "none")
  <2>0. PICK p : p = IF scan = {s} THEN "idle" ELSE "scan"
    OBVIOUS
  <2>1. ToStep(t, p) /\ core' = core /\ p \in {"idle", "scan", "connect"}
    BY <1>3, <1>5, <2>0
  <2>2. /\ SessionsOnce' /\ SendersOK' /\ ThreadsOK' /\ LinksOK' /\ ClosingOK'
        /\ \A u \in HttpThreads : \A r : Carries(u, r)' <=> Carries(u, r)
    BY <1>1, <2>1, TimerGoes
  <2>3. RequestsOnce'
    BY <1>1, <2>1, <2>2, RequestsStay DEF RequestsOnce, Queued
  <2>. QED BY <2>2, <2>3
<1>. QED BY <1>4, <1>5

(* Close() goes on.                                                          *)
LEMMA CloserGoes ==
  ASSUME HttpInv, thread[Closer].step \in CloserSteps, NEW p \in CloserSteps, ToStep(Closer, p),
         UNCHANGED <<core, idle, connected>>,
         \A l \in Links : \/ conn'[l] = conn[l]
                          \/ conn[l] \in {"connecting", "up"} /\ conn'[l] = "closing"
  PROVE  /\ SessionsOnce' /\ SendersOK' /\ ThreadsOK' /\ LinksOK' /\ thread'[Closer].step = p
         /\ \A u \in HttpThreads : \A r : Carries(u, r)' <=> Carries(u, r)
<1>. USE DEF HttpInv, HttpOK
<1>1. /\ Closer \in HttpThreads /\ Closer \notin Links
      /\ thread[Closer].step \notin Holding \union Using /\ thread[Closer].ses = NoLink
  BY OthersAre DEF CloserSteps, Holding, Using
<1>2. PICK c : Turns(Closer, c) /\ c.step = p /\ c.ses = NoLink
  BY <1>1, Goes
<1>3. c.step \notin Holding \union Using
  BY <1>2 DEF CloserSteps, Holding, Using
<1>4. /\ \A u \in HttpThreads : \A r : Carries(u, r)' <=> Carries(u, r)
      /\ \A u \in HttpThreads : \A l : SentBy(u, l)' <=> SentBy(u, l)
      /\ \A u \in HttpThreads : \A l : SentBy(u, l)' => thread'[u] = thread[u]
      /\ \A u \in HttpThreads : \A l : (IsUp(l)' => IsUp(l)) => (Has(u, l)' => Has(u, l))
  BY <1>1, <1>2, <1>3, Aside
<1>5. thread'[Closer] = c
  BY <1>1, <1>2, Turned
<1>6. \A l \in Links : /\ IsUp(l)' => IsUp(l)
                       /\ Unused(l)' => Unused(l)
                       /\ conn[l] \in {"up", "closing"} => conn'[l] \in {"up", "closing"}
                       /\ Known(l)' <=> Known(l)
                       /\ conn[l] = "lost" => conn'[l] = "lost"
                       /\ l \in connected' => conn'[l] \in {"up", "closing", "lost"}
                       /\ ~Told(l)' \/ conn'[l] = "up" => Known(l)'
  BY Breaks
<1>7. SessionsOnce'
  <2>1. \A u \in HttpThreads, l \in Links : Has(u, l)' => Has(u, l)
    BY <1>4, <1>6
  <2>2. Distinct(idle)' /\ \A l : (Offered(l)' <=> Offered(l)) /\ (Awaits(l)' <=> Awaits(l))
    BY DEF SessionsOnce, Offered, Awaits, Told
  <2>. QED BY <1>6, <2>1, <2>2, SessionsStay
<1>8. SendersOK'
  BY <1>4, <1>6, SendersStay
<1>9. ThreadsOK'
  <2>1. ThreadOK(Closer)'
    BY <1>1, <1>2, <1>3, <1>5 DEF ThreadOK, CloserSteps, Using, Holding
  <2>. QED BY <1>1, <1>2, <1>6, <2>1, ThreadsTurn
<1>10. LinksOK'
  BY <1>6 DEF LinksOK, Offered, HttpTypeOK
<1>. QED BY <1>2, <1>4, <1>5, <1>7, <1>8, <1>9, <1>10

LEMMA CloseSteps ==
  ASSUME HttpInv, CloseBegins \/ StopTaskThread \/ CloseService \/ SessionsEmpty
  PROVE  HttpOK'
<1>. USE DEF HttpInv, HttpOK
<1>1. /\ UNCHANGED <<core, idle, pending, connected, answered>>
      /\ \A l \in Links : \/ conn'[l] = conn[l]
                          \/ conn[l] \in {"connecting", "up"} /\ conn'[l] = "closing"
  BY DEF CloseBegins, StopTaskThread, CloseService, SessionsEmpty, listVars, tellVars, Cut
<1>2. PICK p \in {"stop", "join", "drain", "fail"} :
        /\ ToStep(Closer, p)
        /\ p = "fail" => InPool = {} /\ conn' = conn
        /\ p = "stop" => poolClosed'
        /\ p # "stop" => poolClosed' = poolClosed /\ ~Is(Closer, "idle")
        /\ thread[Closer].step \in {"idle", "stop", "join", "drain"}
  BY DEF CloseBegins, StopTaskThread, CloseService, SessionsEmpty, Is
<1>3. /\ SessionsOnce' /\ SendersOK' /\ ThreadsOK' /\ LinksOK' /\ thread'[Closer].step = p
      /\ \A u \in HttpThreads : \A r : Carries(u, r)' <=> Carries(u, r)
  BY <1>1, <1>2, CloserGoes DEF CloserSteps
<1>4. RequestsOnce'
  BY <1>1, <1>3, RequestsStay DEF RequestsOnce, Queued
<1>5. ClosingOK'
  <2>1. poolClosed' /\ ~Is(Closer, "idle")' /\ ~Is(Closer, "closed")'
    BY <1>2, <1>3 DEF ClosingOK, Is
  <2>2. ASSUME ~WorkersRun' PROVE \A s \in Links : conn'[s] \in {"none", "connecting", "gone"}
    <3>1. InPool = {} /\ conn' = conn
      BY <1>2, <1>3, <2>2 DEF WorkersRun
    <3>. QED BY <3>1 DEF InPool, HttpTypeOK, ConnStates
  <2>. QED BY <2>1, <2>2 DEF ClosingOK
<1>. QED BY <1>3, <1>4, <1>5

LEMMA FailPendingStep ==
  ASSUME HttpInv, FailPendingRequests
  PROVE  HttpOK'
<1>. USE DEF HttpInv, HttpOK
<1>1. /\ Is(Closer, "fail") /\ pending' = <<>> /\ Answer(ToSet(pending)) /\ ToStep(Closer, "closed")
      /\ UNCHANGED <<conn, core, idle, connected, poolClosed>>
  BY DEF FailPendingRequests
<1>2. /\ SessionsOnce' /\ SendersOK' /\ ThreadsOK' /\ LinksOK' /\ thread'[Closer].step = "closed"
      /\ \A u \in HttpThreads : \A r : Carries(u, r)' <=> Carries(u, r)
  BY <1>1, CloserGoes DEF CloserSteps, Is
<1>3. RequestsOnce'
  <2>1. \A x : x \in ToSet(pending) <=> Queued(x)
    BY DEF ToSet, Members, Queued
  <2>2. Distinct(pending)' /\ \A r : ~Queued(r)'
    BY <1>1 DEF Distinct, Queued, Members
  <2>. QED BY <1>1, <1>2, <2>1, <2>2, QueueAnswered
<1>4. ClosingOK'
  BY <1>1, <1>2 DEF ClosingOK, Is, WorkersRun
<1>. QED BY <1>2, <1>3, <1>4

LEMMA TimePassesStep ==
  ASSUME HttpInv, NEW r \in Requests, TimePasses(r)
  PROVE  HttpOK'
  BY CoresSame DEF TimePasses, listVars
-----------------------------------------------------------------------------
(* The invariant holds at first, and every step keeps it.                    *)
LEMMA InitHttp == ASSUME PoolInit PROVE HttpInv
<1>. USE DEF PoolInit
<1>1. /\ \A s \in Links : conn[s] \in {"none", "connecting"}
      /\ \A s \in Links : core[s] = Fresh
      /\ idle = <<>> /\ pending = <<>> /\ connected = {} /\ poolClosed = FALSE
      /\ \A r \in Requests : answered[r] = 0
  BY Zenon
<1>2. /\ Fresh.request = NoRequest /\ Fresh.sending = FALSE /\ Fresh \in Cores
  BY DEF Fresh, Cores
<1>3. ASSUME NEW t \in HttpThreads
      PROVE  /\ thread[t].step = IF t \in Requests THEN "new" ELSE "idle"
             /\ thread[t].req = IF t \in Requests THEN t ELSE NoRequest
             /\ thread[t].ses = NoLink
             /\ thread[t] \in Calls
  <2>1. thread[t] = IF t \in Requests THEN [Resting EXCEPT !.step = "new", !.req = t] ELSE Resting
    OBVIOUS
  <2>2. Resting \in Calls
    BY DEF Resting, Calls, Steps
  <2>3. CASE t \in Requests
    <3>1. thread[t] = [Resting EXCEPT !.step = "new", !.req = t]
      BY <2>1, <2>3
    <3>. QED BY <2>3, <3>1 DEF Resting, Calls, Steps
  <2>4. CASE t \notin Requests
    <3>1. thread[t] = Resting
      BY <2>1, <2>4
    <3>. QED BY <2>2, <2>4, <3>1 DEF Resting
  <2>. QED BY <2>3, <2>4
<1>4. HttpTypeOK
  <2>1. conn \in [Links -> ConnStates]
    <3>1. PICK S : conn = [s \in Links |-> IF s \in S THEN "connecting" ELSE "none"]
      BY Zenon
    <3>. QED BY ONLY <3>1 DEF ConnStates
  <2>4. core \in [Links -> Cores]
    <3>1. core = [s \in Links |-> Fresh]
      OBVIOUS
    <3>. QED BY ONLY <1>2, <3>1
  <2>2. thread \in [HttpThreads -> Calls]
    <3>1. DOMAIN thread = HttpThreads /\ thread = [t \in HttpThreads |-> thread[t]]
      OBVIOUS
    <3>. QED BY ONLY <1>3, <3>1
  <2>3. left \in [Requests -> Int] /\ answered \in [Requests -> Nat]
    <3>1. /\ left = [r \in Requests |-> IF r \in Idempotent THEN 1 ELSE 0]
          /\ answered = [r \in Requests |-> 0]
      OBVIOUS
    <3>. QED BY ONLY <3>1
  <2>5. idle \in Seq(Links) /\ pending \in Seq(Requests)
    BY ONLY <1>1
  <2>6. stopped = FALSE /\ reconnects = 0 /\ scan = {} /\ late = {}
    OBVIOUS
  <2>. QED BY ONLY <1>1, <2>1, <2>2, <2>3, <2>4, <2>5, <2>6 DEF HttpTypeOK
<1>. HIDE DEF PoolInit
<1>5. Requests \subseteq HttpThreads /\ Closer \in HttpThreads /\ Closer \notin Requests
  BY HttpConnPoolConstants DEF HttpThreads
<1>6. RequestsOnce
  <2>1. \A t \in HttpThreads, r \in Requests : Carries(t, r) <=> t = r
    BY <1>3, <1>5 DEF Carries, Holding
  <2>2. \A r \in Requests : Carried(r) /\ ~Awaited(r) /\ ~Queued(r)
    BY <1>1, <1>2, <1>5, <2>1, HttpConnPoolConstants DEF Carried, Awaited, Queued, Members
  <2>. QED BY <1>1, <1>2, <2>1, <2>2, HttpConnPoolConstants DEF RequestsOnce, Distinct
<1>7. \A s \in Links : Told(s) /\ ~core[s].sending /\ ~Awaits(s) /\ ~Offered(s)
  BY <1>1, <1>2 DEF Told, Awaits, Offered, Members
<1>8. SessionsOnce
  <2>1. \A t \in HttpThreads, s \in Links : ~Has(t, s)
    BY <1>3, HttpConnPoolConstants DEF Has
  <2>. QED BY <1>1, <1>7, <2>1 DEF SessionsOnce, Had, Distinct
<1>9. SendersOK
  BY <1>3, <1>7, HttpConnPoolConstants DEF SendersOK, SentBy
<1>10. ThreadsOK
  BY <1>3, <1>5 DEF ThreadsOK, ThreadOK, Steps, CloserSteps, Holding, Using
<1>11. LinksOK
  BY <1>1, <1>7 DEF LinksOK
<1>12. ClosingOK
  BY <1>1, <1>3, <1>5 DEF ClosingOK, Is, WorkersRun
<1>. QED BY <1>4, <1>6, <1>8, <1>9, <1>10, <1>11, <1>12 DEF HttpInv, HttpOK

LEMMA NextHttp == ASSUME HttpInv, PoolNext PROVE HttpInv'
<1>1. ASSUME NEW t \in HttpThreads, SubmitClosed(t) PROVE HttpInv'
  BY <1>1, PoolStepsTyped, SubmitClosedStep DEF HttpInv
<1>2. ASSUME NEW t \in HttpThreads, SubmitIdle(t) PROVE HttpInv'
  BY <1>2, PoolStepsTyped, SubmitIdleStep DEF HttpInv
<1>3. ASSUME NEW t \in HttpThreads, SubmitQueued(t) PROVE HttpInv'
  BY <1>3, PoolStepsTyped, SubmitQueuedStep DEF HttpInv
<1>4. ASSUME NEW t \in HttpThreads, ConnectOneMore(t) \/ ConnectFails(t) PROVE HttpInv'
  BY <1>4, PoolStepsTyped, ConnectStep DEF HttpInv
<1>5. ASSUME NEW t \in HttpThreads, Begin(t) PROVE HttpInv'
  BY <1>5, SendStepsTyped, BeginStep DEF HttpInv
<1>6. ASSUME NEW t \in HttpThreads, SendBytes(t) PROVE HttpInv'
  BY <1>6, SendStepsTyped, SendBytesStep DEF HttpInv
<1>7. ASSUME NEW t \in HttpThreads, SentAnswered(t) PROVE HttpInv'
  BY <1>7, SendStepsTyped, SentAnsweredStep DEF HttpInv
<1>8. ASSUME NEW t \in HttpThreads, Sent(t) PROVE HttpInv'
  BY <1>8, SendStepsTyped, SentStep DEF HttpInv
<1>9. ASSUME NEW t \in HttpThreads, SentTold(t) PROVE HttpInv'
  BY <1>9, SendStepsTyped, SentToldStep DEF HttpInv
<1>10. ASSUME NEW t \in HttpThreads, SentFailed(t) PROVE HttpInv'
  BY <1>10, SendStepsTyped, SentFailedStep DEF HttpInv
<1>11. ASSUME NEW t \in HttpThreads, RetryFailed(t) PROVE HttpInv'
  BY <1>11, PoolStepsTyped, RetryStep DEF HttpInv
<1>12. ASSUME NEW t \in HttpThreads, Discard(t) PROVE HttpInv'
  BY <1>12, PoolStepsTyped, DiscardStep DEF HttpInv
<1>13. ASSUME NEW t \in HttpThreads, Reuse(t) PROVE HttpInv'
  BY <1>13, PoolStepsTyped, ReuseStep DEF HttpInv
<1>14. ASSUME NEW t \in HttpThreads, DispatchNext(t) PROVE HttpInv'
  BY <1>14, PoolStepsTyped, DispatchNextStep DEF HttpInv
<1>15. ASSUME NEW t \in HttpThreads, BecomeIdle(t) PROVE HttpInv'
  BY <1>15, PoolStepsTyped, BecomeIdleStep DEF HttpInv
<1>16. ASSUME NEW r \in Requests, TimePasses(r) PROVE HttpInv'
  BY <1>16, TimerStepsTyped, TimePassesStep DEF HttpInv
<1>17. ASSUME NEW s \in Links, OnSessionConnected(s) PROVE HttpInv'
  BY <1>17, LinkStepsTyped, ConnectedStep DEF HttpInv
<1>18. ASSUME NEW s \in Links, Broken(s) PROVE HttpInv'
  BY <1>18, LinkStepsTyped, BrokenStep DEF HttpInv
<1>19. ASSUME NEW s \in Links, FeedMore(s) PROVE HttpInv'
  BY <1>19, LinkStepsTyped, FeedMoreStep DEF HttpInv
<1>20. ASSUME NEW s \in Links, FeedComplete(s) PROVE HttpInv'
  BY <1>20, LinkStepsTyped, FeedCompleteStep DEF HttpInv
<1>21. ASSUME NEW s \in Links, OnSessionDisconnected(s) PROVE HttpInv'
  BY <1>21, LinkStepsTyped, DisconnectedStep DEF HttpInv
<1>22. ASSUME NEW s \in Links, Down(s) \/ ReleaseSession(s) PROVE HttpInv'
  BY <1>22, LinkStepsTyped, DownStep DEF HttpInv
<1>23. CASE Reconnect
  BY <1>23, TimerStepsTyped, ReconnectStep DEF HttpInv
<1>24. CASE ScanTimeouts
  BY <1>24, TimerStepsTyped, ScanTimeoutsStep DEF HttpInv
<1>25. CASE CheckTimeout
  BY <1>25, TimerStepsTyped, CheckTimeoutStep DEF HttpInv
<1>26. CASE CloseBegins \/ StopTaskThread \/ CloseService \/ SessionsEmpty
  BY <1>26, TimerStepsTyped, CloseSteps DEF HttpInv
<1>27. CASE FailPendingRequests
  BY <1>27, TimerStepsTyped, FailPendingStep DEF HttpInv
<1>. QED
  BY <1>1, <1>2, <1>3, <1>4, <1>5, <1>6, <1>7, <1>8, <1>9, <1>10, <1>11, <1>12, <1>13, <1>14,
     <1>15, <1>16, <1>17, <1>18, <1>19, <1>20, <1>21, <1>22, <1>23, <1>24, <1>25, <1>26, <1>27
  DEF PoolNext

(* The inductive invariant: every request and every session is in one place, *)
(* whatever the numbers of requests, sessions and reserved reconnections.    *)
THEOREM HttpInductive == PoolSpec => []HttpInv
<1>1. PoolInit => HttpInv
  BY InitHttp
<1>2. HttpInv /\ [PoolNext]_poolVars => HttpInv'
  <2>1. CASE PoolNext
    BY <2>1, NextHttp
  <2>2. CASE UNCHANGED poolVars
    <3>1. HttpInv => HttpOK'
      BY <2>2, CoresSame DEF poolVars, listVars, timerVars, tellVars
    <3>2. HttpInv => HttpTypeOK'
      BY <2>2 DEF poolVars, listVars, timerVars, tellVars, HttpInv, HttpTypeOK
    <3>. QED BY <3>1, <3>2 DEF HttpInv
  <2>. QED BY <2>1, <2>2
<1>. QED BY <1>1, <1>2, PTL DEF PoolSpec

-----------------------------------------------------------------------------
(* How many elements a set of at most one has.                               *)
LEMMA AtMostOne ==
  ASSUME NEW A, \A x, y \in A : x = y
  PROVE  Cardinality(A) = IF A = {} THEN 0 ELSE 1
<1>1. CASE A = {}
  BY <1>1, FS_EmptySet
<1>2. CASE A # {}
  <2>1. PICK x : x \in A
    BY <1>2
  <2>2. A = {x}
    BY <2>1
  <2>. QED BY <1>2, <2>2, FS_Singleton
<1>. QED BY <1>1, <1>2

(* Each request has one place, and is answered when it has none.             *)
LEMMA PlacesOf ==
  ASSUME HttpInv, NEW r \in Requests
  PROVE  answered[r] + Places(r) = 1
<1>. USE DEF HttpInv, HttpOK
<1> DEFINE T == {t \in HttpThreads : HeldBy(t, r)}
           C == {s \in Links : core[s].request = r}
           Q == {i \in DOMAIN pending : pending[i] = r}
<1>1. \A t \in HttpThreads : HeldBy(t, r) <=> Carries(t, r)
  BY DEF HeldBy, Carries, Holding
<1>2. Cardinality(T) = IF T = {} THEN 0 ELSE 1
  <2>1. \A x, y \in T : x = y
    BY <1>1 DEF RequestsOnce
  <2>. HIDE DEF T
  <2>. QED BY <2>1, AtMostOne
<1>3. Cardinality(C) = IF C = {} THEN 0 ELSE 1
  <2>1. \A x, y \in C : x = y
    BY DEF RequestsOnce
  <2>. HIDE DEF C
  <2>. QED BY <2>1, AtMostOne
<1>4. Cardinality(Q) = IF Q = {} THEN 0 ELSE 1
  <2>1. \A x, y \in Q : x = y
    BY DEF RequestsOnce, Distinct
  <2>. HIDE DEF Q
  <2>. QED BY <2>1, AtMostOne
<1>5. (T # {} <=> Carried(r)) /\ (C # {} <=> Awaited(r)) /\ (Q # {} <=> Queued(r))
  BY <1>1 DEF Carried, Awaited, Queued, Members
<1>6. Places(r) = Cardinality(T) + Cardinality(C) + Cardinality(Q)
  BY DEF Places
<1>. HIDE DEF T, C, Q
<1>. QED BY <1>2, <1>3, <1>4, <1>5, <1>6 DEF RequestsOnce

(* The callback of every request is called once, and until then one thread,  *)
(* one session or the queue has it: the retry, the response that arrives     *)
(* during the send, the failed send, the time-out, the end of the session    *)
(* and Close() never answer it twice nor lose it, and what waits is known to *)
(* the scan or to a sender that will look.                                   *)
THEOREM AnsweredOnceAlways == PoolSpec => []AnsweredOnce
<1>1. ASSUME HttpInv PROVE AnsweredOnce
  <2>. USE <1>1 DEF HttpInv, HttpOK
  <2>1. \A r \in Requests : answered[r] + Places(r) = 1
    BY PlacesOf
  <2>2. pending # <<>> => ~Is(Closer, "closed")
    BY DEF ClosingOK
  <2>3. ASSUME NEW s \in Links, ~Told(s)
        PROVE  \/ conn[s] \in {"up", "closing"} /\ s \in connected /\ WorkersRun
               \/ \E t \in HttpThreads : SentBy(t, s) /\ thread[t].req = core[s].request
    <3>1. CASE core[s].sending
      BY <2>3, <3>1 DEF SendersOK
    <3>2. CASE ~core[s].sending
      <4>1. conn[s] \in {"up", "closing"}
        BY <2>3, <3>2 DEF SendersOK, Awaits
      <4>2. s \in connected
        BY <2>3, <4>1 DEF LinksOK, Known
      <4>3. WorkersRun
        BY <4>1 DEF ClosingOK
      <4>. QED BY <4>1, <4>2, <4>3
    <3>. QED BY <3>1, <3>2
  <2>. QED BY <2>1, <2>2, <2>3 DEF AnsweredOnce
<1>. QED BY <1>1, HttpInductive, PTL

(* No two requests share a connection: one taker, offer or sender of each    *)
(* session, and a session that is taken or offered awaits no response.       *)
THEOREM OneRequestPerSessionAlways == PoolSpec => []OneRequestPerSession
<1>1. ASSUME HttpInv PROVE OneRequestPerSession
  <2>. USE <1>1 DEF HttpInv, HttpOK
  <2>1. SUFFICES ASSUME NEW s \in Links
                 PROVE  LET takers == {t \in HttpThreads : thread[t].ses = s /\ thread[t].step \in {"begin", "give"}}
                            offers == Cardinality(takers) + Cardinality({i \in DOMAIN idle : idle[i] = s})
                        IN  /\ offers + Cardinality({t \in HttpThreads : SentBy(t, s)}) <= 1
                            /\ offers > 0 => Told(s)
    BY DEF OneRequestPerSession
  <2> DEFINE T == {t \in HttpThreads : thread[t].ses = s /\ thread[t].step \in {"begin", "give"}}
             I == {i \in DOMAIN idle : idle[i] = s}
             B == {t \in HttpThreads : SentBy(t, s)}
  <2>2. \A t \in T \union B : t \in HttpThreads /\ Has(t, s)
    BY DEF Has, SentBy
  <2>3. \A t \in T : t \notin B
    BY DEF SentBy
  <2>4. \A t, u \in T \union B : t = u
    BY <2>2 DEF SessionsOnce
  <2>5. I # {} <=> Offered(s)
    BY DEF Offered, Members
  <2>6. \A i, j \in I : i = j
    BY DEF SessionsOnce, Distinct
  <2>7. T # {} \/ I # {} => ~Awaits(s) /\ B = {}
    <3>1. T # {} => ~Awaits(s) /\ B = {}
      BY <2>2, <2>3, <2>4 DEF SessionsOnce, Had
    <3>2. I # {} => ~Awaits(s) /\ B = {}
      BY <2>2, <2>5 DEF SessionsOnce, Had
    <3>. QED BY <3>1, <3>2
  <2>8. T # {} => I = {}
    BY <2>2, <2>5 DEF SessionsOnce, Had
  <2>9. B = {} => ~core[s].sending
    BY DEF SendersOK
  <2>. HIDE DEF T, I, B
  <2>10. /\ Cardinality(T) = IF T = {} THEN 0 ELSE 1
         /\ Cardinality(I) = IF I = {} THEN 0 ELSE 1
         /\ Cardinality(B) = IF B = {} THEN 0 ELSE 1
    BY <2>4, <2>6, AtMostOne
  <2>11. /\ (Cardinality(T) + Cardinality(I)) + Cardinality(B) <= 1
         /\ Cardinality(T) + Cardinality(I) > 0 => Told(s)
    BY <2>7, <2>8, <2>9, <2>10 DEF Awaits
  <2>. QED BY <2>11 DEF T, I, B
<1>. QED BY <1>1, HttpInductive, PTL
====
