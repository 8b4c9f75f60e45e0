--------------------------- MODULE JobQueue_proofs --------------------------
(* Proofs about JobQueue, for any threads, queues and jobs: a queue that has *)
(* work is scheduled exactly once and executed by one thread at a time, and  *)
(* the queues implement SerialActors.  After it, proofs about RWSpinLock, for*)
(* any finite set of threads that fits its word, and about AsyncSrv, whose   *)
(* workers serve the requests of any feeders.                                *)
EXTENDS JobQueue, RWSpinLock, AsyncSrv, FiniteSetTheorems, SequenceTheorems, TLAPS

(* The threads between the two lines of Push() that count and queue a job.   *)
Enqueuing(q) == {t \in Threads : opPc[t] = "enqueue" /\ opQueue[t] = q}

(* What the program counters of one thread say about its other variables.    *)
LocalOK ==
    /\ IsFiniteSet(timer)
    /\ \A t \in Threads :
        /\ opPc[t] # "idle" => opQueue[t] \in Queues /\ execPc[t] \in {"idle", "job"}
        /\ opPc[t] = "enqueue" => opJob[t] \in Jobs
        /\ opPc[t] = "schedule" => wasZero[t]
        /\ opPc[t] = "uncount" /\ ~closing => execPc[t] = "job" /\ opQueue[t] = current[t]
        /\ opPc[t] # "uncount" => owe[t] = 0
        /\ execPc[t] = "idle" <=> current[t] = NoQueue
        /\ execPc[t] \notin {"next", "job"} => taken[t] = 0
        /\ execPc[t] = "job" => batch[t] # <<>>
        /\ Len(batch[t]) <= taken[t]
        /\ inDistribute[t] => execPc[t] = "idle" /\ (opPc[t] # "idle" => opOnly[t])
        /\ inDistribute[t] => distributing /\ ~closing
    /\ \A t, u \in Threads : inDistribute[t] /\ inDistribute[u] => t = u

(* One element for each job of q that a thread has cleared and not uncounted.*)
Owing(q) ==
    {x \in Threads \X Nat :
        opPc[x[1]] = "uncount" /\ opQueue[x[1]] = q /\ x[2] \in 1 .. owe[x[1]]}

(* The jobs that _jobCount still counts after they have left _jobs, but for  *)
(* the cleared ones: those the executor has taken and not settled.           *)
Surplus(q) ==
    jobCount[q] - (Len(jobs[q]) + Cardinality(Enqueuing(q)) + Cardinality(Owing(q)))

CountOK ==
    \A q \in Queues :
        /\ IsFiniteSet(Owing(q))
        /\ \A t \in Threads : current[t] = q => Surplus(q) = taken[t]
        /\ (\A t \in Threads : current[t] # q) => Surplus(q) = 0

InGlobal(q) == \E i \in 1 .. Len(global) : global[i] = q

(* Two threads, two places of the global queue, or one of each, never hold q.*)
AtMostOneHolder ==
    /\ \A i, j \in 1 .. Len(global) : global[i] = global[j] => i = j
    /\ \A q \in Queues :
        /\ \A t, u \in Threads : Scheduling(t, q) /\ Scheduling(u, q) => t = u
        /\ \A t, u \in Threads : current[t] = q /\ current[u] = q => t = u
        /\ \A t, u \in Threads : ~(Scheduling(t, q) /\ current[u] = q)
        /\ \A t \in Threads : Scheduling(t, q) \/ current[t] = q => ~InGlobal(q)

Held(q) ==
    \/ \E t \in Threads : Scheduling(t, q) \/ current[t] = q
    \/ InGlobal(q)

(* While jobs are posted a queue that is held has a positive count; once only*)
(* clearing goes on, a queue may be held with a count of zero.               *)
HeldIffCounted ==
    \A q \in Queues :
        /\ jobCount[q] > 0 => Held(q)
        /\ Held(q) /\ ~closing => jobCount[q] > 0

IInv == TypeOK /\ LocalOK /\ CountOK /\ AtMostOneHolder /\ HeldIffCounted
-----------------------------------------------------------------------------
LEMMA InitIInv == Init => IInv
<1> SUFFICES ASSUME Init PROVE IInv
  OBVIOUS
<1>1. TypeOK
  <2>1. /\ <<>> \in Seq(Jobs) /\ <<>> \in Seq(Queues)
        /\ <<>> \in Seq(Queues \X Jobs)
    BY EmptySeq
  <2>2. /\ jobs \in [Queues -> Seq(Jobs)] /\ global \in Seq(Queues)
        /\ batch \in [Threads -> Seq(Jobs)]
        /\ due \in [Threads -> Seq(Queues \X Jobs)]
    BY <2>1 DEF Init
  <2>3. /\ opPc \in [Threads -> {"idle", "enqueue", "schedule", "uncount"}]
        /\ execPc \in [Threads -> {"idle", "pop", "next", "job", "time"}]
        /\ jobCount \in [Queues -> Nat]
        /\ owe \in [Threads -> Nat] /\ taken \in [Threads -> Nat]
    BY DEF Init
  <2>4. /\ owned \in [Queues -> BOOLEAN] /\ distributing \in BOOLEAN
        /\ inDistribute \in [Threads -> BOOLEAN]
        /\ opOnly \in [Threads -> BOOLEAN] /\ wasZero \in [Threads -> BOOLEAN]
    BY DEF Init
  <2>5. /\ opQueue \in [Threads -> Queues \union {NoQueue}]
        /\ opJob \in [Threads -> Jobs \union {NoJob}]
        /\ current \in [Threads -> Queues \union {NoQueue}]
        /\ timer \in SUBSET (Queues \X Jobs) /\ fresh \in SUBSET Jobs
        /\ finished \in SUBSET Jobs /\ cleared \in SUBSET Jobs
        /\ expired \in SUBSET Jobs /\ closing \in BOOLEAN
    BY DEF Init
  <2>. QED
    BY <2>2, <2>3, <2>4, <2>5 DEF TypeOK
<1>2. LocalOK
  BY FS_EmptySet, QueuesAssumption DEF LocalOK, Init
<1>3. ASSUME NEW q \in Queues
      PROVE  /\ Cardinality(Enqueuing(q)) = 0
             /\ IsFiniteSet(Owing(q)) /\ Cardinality(Owing(q)) = 0
  <2>1. Enqueuing(q) = {} /\ Owing(q) = {}
    BY DEF Enqueuing, Owing, Init
  <2>. QED BY <2>1, FS_EmptySet
<1>4. CountOK
  BY <1>3, EmptySeq, QueuesAssumption DEF CountOK, Surplus, Init
<1>5. AtMostOneHolder /\ HeldIffCounted
  BY QueuesAssumption
  DEF AtMostOneHolder, HeldIffCounted, Held, Scheduling, InGlobal, Init
<1>. QED BY <1>1, <1>2, <1>4, <1>5 DEF IInv

(* The number of threads in the window of Push(), as a thread enters it,     *)
(* leaves it, or stays where it is.                                          *)
LEMMA EnqueuingFinite ==
  ASSUME NEW q PROVE IsFiniteSet(Enqueuing(q)) /\ Cardinality(Enqueuing(q)) \in Nat
  BY FS_Subset, FS_CardinalityType, ThreadsAssumption DEF Enqueuing

(* A call that does not begin or end clearing leaves the debts as they are.  *)
LEMMA OwingFrame ==
  ASSUME NEW q,
         \A u \in Threads :
            /\ (opPc[u] = "uncount")' <=> opPc[u] = "uncount"
            /\ opPc[u] = "uncount" => opQueue'[u] = opQueue[u] /\ owe'[u] = owe[u]
  PROVE  Owing(q)' = Owing(q)
<1>1. \A x \in Threads \X Nat : x[1] \in Threads
  OBVIOUS
<1>. QED BY <1>1 DEF Owing

(* The debt of one thread begins, or is paid.                                *)
LEMMA OwingChange ==
  ASSUME NEW q, NEW t \in Threads, NEW n \in Nat, NEW A, NEW B, IsFiniteSet(A),
         B = A \union ({t} \X (1 .. n)), \A x \in A : x[1] # t
  PROVE  IsFiniteSet(B) /\ Cardinality(B) = Cardinality(A) + n
<1> DEFINE I == 1 .. n
           D == {t} \X I
<1>1. IsFiniteSet(I) /\ Cardinality(I) = n
  BY FS_Interval
<1>2. IsFiniteSet({t}) /\ Cardinality({t}) = 1
  BY FS_Singleton
<1>3. A \intersect D = {}
  OBVIOUS
<1>. HIDE DEF I
<1>4. IsFiniteSet(D) /\ Cardinality(D) = 1 * n
  BY <1>1, <1>2, FS_Product
<1>5. B = A \union D
  BY DEF I
<1>. HIDE DEF D
<1>6. /\ IsFiniteSet(A \union D)
      /\ Cardinality(A \union D) = Cardinality(A) + Cardinality(D) - Cardinality({})
  BY <1>3, <1>4, FS_Union
<1>7. Cardinality({}) = 0 /\ Cardinality(A) \in Nat
  BY FS_EmptySet, FS_CardinalityType
<1>8. Cardinality(A \union D) = Cardinality(A) + n
  <2>1. n \in Nat
    OBVIOUS
  <2>. QED BY ONLY <1>4, <1>6, <1>7, <2>1
<1>. QED BY <1>5, <1>6, <1>8

(* The frame of a step that counts, queues and takes no job.                 *)
LEMMA SurplusFrame ==
  ASSUME NEW q, UNCHANGED <<jobs, jobCount>>, Enqueuing(q)' = Enqueuing(q),
         Owing(q)' = Owing(q)
  PROVE  Surplus(q)' = Surplus(q)
  BY DEF Surplus

LEMMA SurplusType ==
  ASSUME TypeOK, CountOK, NEW q \in Queues
  PROVE  /\ Len(jobs[q]) \in Nat /\ jobCount[q] \in Nat
         /\ Surplus(q) \in Int
         /\ IsFiniteSet(Owing(q)) /\ Cardinality(Owing(q)) \in Nat
         /\ jobCount[q] = Surplus(q) + Len(jobs[q]) + Cardinality(Enqueuing(q))
                         + Cardinality(Owing(q))
         /\ jobCount[q] >= Surplus(q)
<1>1. Len(jobs[q]) \in Nat
  BY LenProperties DEF TypeOK
<1>2. jobCount[q] \in Nat
  BY DEF TypeOK
<1>3. IsFiniteSet(Owing(q)) /\ Cardinality(Owing(q)) \in Nat
  BY FS_CardinalityType DEF CountOK
<1>4. Cardinality(Enqueuing(q)) \in Nat
  BY EnqueuingFinite
<1>5. /\ Surplus(q) = jobCount[q] - (Len(jobs[q]) + Cardinality(Enqueuing(q)) + Cardinality(Owing(q)))
  BY DEF Surplus
<1>. QED BY ONLY <1>1, <1>2, <1>3, <1>4, <1>5

(* The thread that counts a job of q becomes the one that has to schedule q  *)
(* exactly if nobody held q.                                                 *)
LEMMA PushCountStep ==
  ASSUME IInv, NEW t \in Threads, NEW q \in Queues, NEW j \in Jobs,
         NEW only \in BOOLEAN, opPc[t] = "idle", PushCount(t, q, j, only),
         ~closing, UNCHANGED <<global, execVars, closing>>
  PROVE  CountOK' /\ AtMostOneHolder' /\ HeldIffCounted'
<1> USE DEF IInv
<1>1. ASSUME NEW p \in Queues PROVE Surplus(p)' = Surplus(p) /\ Owing(p)' = Owing(p)
  <2>1. t \notin Enqueuing(p)
    BY DEF Enqueuing
  <2>2. Enqueuing(p)' = IF p = q THEN Enqueuing(p) \union {t} ELSE Enqueuing(p)
    BY <2>1 DEF Enqueuing, PushCount, TypeOK
  <2>3. Cardinality(Enqueuing(p))' = Cardinality(Enqueuing(p)) + (IF p = q THEN 1 ELSE 0)
    <3>1. CASE p = q
      <4>1. Enqueuing(p)' = Enqueuing(p) \union {t}
        BY <2>2, <3>1
      <4>2. Cardinality(Enqueuing(p) \union {t}) = Cardinality(Enqueuing(p)) + 1
        BY <2>1, EnqueuingFinite, FS_AddElement
      <4>. QED BY <3>1, <4>1, <4>2
    <3>2. CASE p # q
      BY <2>2, <3>2, EnqueuingFinite
    <3>. QED BY <3>1, <3>2
  <2>4. jobCount'[p] = jobCount[p] + (IF p = q THEN 1 ELSE 0) /\ jobs'[p] = jobs[p]
    BY DEF PushCount, TypeOK
  <2>5. Owing(p)' = Owing(p)
    BY OwingFrame DEF PushCount, TypeOK
  <2>6. /\ Surplus(p) = jobCount[p] - (Len(jobs[p]) + Cardinality(Enqueuing(p)) + Cardinality(Owing(p)))
        /\ Surplus(p)' = jobCount'[p] - (Len(jobs'[p]) + Cardinality(Enqueuing(p))' + Cardinality(Owing(p))')
    BY DEF Surplus
  <2>7. /\ Len(jobs[p]) \in Nat /\ jobCount[p] \in Nat /\ Cardinality(Owing(p)) \in Nat
        /\ Cardinality(Enqueuing(p)) \in Nat
    BY SurplusType, EnqueuingFinite
  <2>8. Surplus(p)' = Surplus(p)
    <3> DEFINE d == IF p = q THEN 1 ELSE 0
    <3>1. d \in Nat
      OBVIOUS
    <3>2. /\ jobCount'[p] = jobCount[p] + d /\ Len(jobs'[p]) = Len(jobs[p])
          /\ Cardinality(Enqueuing(p))' = Cardinality(Enqueuing(p)) + d
          /\ Cardinality(Owing(p))' = Cardinality(Owing(p))
      BY <2>3, <2>4, <2>5
    <3>. HIDE DEF d
    <3>3. Surplus(p)' = (jobCount[p] + d) - (Len(jobs[p]) + (Cardinality(Enqueuing(p)) + d)
                                             + Cardinality(Owing(p)))
      BY <2>6, <3>2
    <3>. QED BY ONLY <2>6, <2>7, <3>1, <3>3
  <2>. QED BY <2>5, <2>8
<1>2. CountOK'
  BY <1>1 DEF CountOK, LocalOK, TypeOK, PushCount, execVars
<1>3. \A p \in Queues, u \in Threads :
         Scheduling(u, p)' <=> Scheduling(u, p)
                              \/ (u = t /\ p = q /\ jobCount[q] = 0)
  BY DEF Scheduling, PushCount, TypeOK
<1>4. \A p \in Queues : InGlobal(p)' <=> InGlobal(p)
  BY DEF InGlobal
<1>5. jobCount[q] = 0 => ~Held(q)
  BY DEF HeldIffCounted
<1>6. AtMostOneHolder'
  BY <1>3, <1>4, <1>5 DEF AtMostOneHolder, Held, execVars
<1>7. \A p \in Queues : Held(p)' <=> Held(p) \/ (p = q /\ jobCount[q] = 0)
  BY <1>3, <1>4 DEF Held, execVars
<1>8. \A p \in Queues : jobCount[p] \in Nat /\ jobCount'[p] = IF p = q THEN jobCount[p] + 1 ELSE jobCount[p]
  BY DEF TypeOK, PushCount
<1>9. HeldIffCounted'
  BY <1>7, <1>8 DEF HeldIffCounted
<1>. QED BY <1>2, <1>6, <1>9

(* Adding q, that nobody holds any more, at the end of the global queue.     *)
LEMMA GlobalAppend ==
  ASSUME TypeOK, NEW q \in Queues, global' = Append(global, q)
  PROVE  /\ global' \in Seq(Queues)
         /\ \A p \in Queues : InGlobal(p)' <=> InGlobal(p) \/ p = q
         /\ (\A i, k \in 1 .. Len(global) : global[i] = global[k] => i = k)
               /\ ~InGlobal(q)
            => (\A i, k \in 1 .. Len(global') : global'[i] = global'[k] => i = k)
<1>1. global \in Seq(Queues) /\ Len(global) \in Nat
  BY LenProperties DEF TypeOK
<1>2. /\ global' \in Seq(Queues)
      /\ Len(global') = Len(global) + 1
      /\ \A i \in 1 .. Len(global) : global'[i] = global[i]
      /\ global'[Len(global) + 1] = q
  BY <1>1, AppendProperties
<1>3. 1 .. Len(global') = (1 .. Len(global)) \union {Len(global) + 1}
  BY <1>1, <1>2
<1>. QED BY <1>1, <1>2, <1>3 DEF InGlobal

LEMMA GlobalTail ==
  ASSUME TypeOK, global # <<>>, global' = Tail(global)
  PROVE  /\ Head(global) \in Queues /\ global' \in Seq(Queues)
         /\ InGlobal(Head(global))
         /\ \A p \in Queues : p # Head(global) => (InGlobal(p)' <=> InGlobal(p))
         /\ (\A i, k \in 1 .. Len(global) : global[i] = global[k] => i = k)
            => /\ \A p \in Queues : p = Head(global) => ~InGlobal(p)'
               /\ \A i, k \in 1 .. Len(global') : global'[i] = global'[k] => i = k
<1>1. global \in Seq(Queues) /\ Len(global) \in Nat \ {0}
  BY EmptySeq DEF TypeOK
<1>2. /\ Head(global) = global[1] /\ Head(global) \in Queues
      /\ global' \in Seq(Queues)
      /\ Len(global') = Len(global) - 1
      /\ \A i \in 1 .. Len(global') : global'[i] = global[i + 1]
  BY <1>1
<1>3. \A i \in 1 .. Len(global) : i # 1 => i - 1 \in 1 .. Len(global')
                                         /\ global'[i - 1] = global[i]
  BY <1>1, <1>2
<1>4. \A i \in 1 .. Len(global') : i + 1 \in 1 .. Len(global) /\ i + 1 # 1
  BY <1>1, <1>2
<1>5. 1 \in 1 .. Len(global)
  BY <1>1
<1>6. ASSUME NEW p \in Queues, p # Head(global) PROVE InGlobal(p)' <=> InGlobal(p)
  BY <1>2, <1>3, <1>4, <1>6 DEF InGlobal
<1>7. ASSUME \A i, k \in 1 .. Len(global) : global[i] = global[k] => i = k
      PROVE  /\ \A p \in Queues : p = Head(global) => ~InGlobal(p)'
             /\ \A i, k \in 1 .. Len(global') : global'[i] = global'[k] => i = k
  <2>1. \A i \in 1 .. Len(global') : global'[i] # Head(global)
    BY <1>2, <1>4, <1>5, <1>7
  <2>2. ASSUME NEW i \in 1 .. Len(global'), NEW k \in 1 .. Len(global'),
               global'[i] = global'[k]
        PROVE  i = k
    <3>1. i + 1 = k + 1
      BY <1>2, <1>4, <1>7, <2>2
    <3>. QED BY <3>1
  <2>. QED BY <2>1, <2>2 DEF InGlobal
<1>. QED BY <1>2, <1>5, <1>6, <1>7 DEF InGlobal

(* A step that does not touch what the tokens are made of.                   *)
LEMMA HolderFrame ==
  ASSUME AtMostOneHolder, HeldIffCounted, UNCHANGED <<global, jobCount, current>>,
         closing => closing',
         \A p \in Queues, u \in Threads : Scheduling(u, p)' <=> Scheduling(u, p)
  PROVE  AtMostOneHolder' /\ HeldIffCounted'
<1>1. \A p \in Queues : InGlobal(p)' <=> InGlobal(p)
  BY DEF InGlobal
<1>2. AtMostOneHolder'
  BY <1>1 DEF AtMostOneHolder
<1>3. \A p \in Queues : Held(p)' <=> Held(p)
  BY <1>1 DEF Held
<1>. QED BY <1>2, <1>3 DEF HeldIffCounted

LEMMA PushEnqueueStep ==
  ASSUME IInv, NEW t \in Threads, PushEnqueue(t) PROVE IInv'
<1> USE DEF IInv
<1>0. opQueue[t] \in Queues /\ opJob[t] \in Jobs
  BY DEF LocalOK, PushEnqueue
<1>1. TypeOK'
  <2>1. jobs[opQueue[t]] \in Seq(Jobs)
    BY <1>0 DEF TypeOK
  <2>2. PICK s \in Seq(Jobs) : s = jobs[opQueue[t]]
    BY <2>1
  <2>3. Append(s, opJob[t]) \in Seq(Jobs)
    BY <1>0, AppendProperties
  <2>4. Append(jobs[opQueue[t]], opJob[t]) \in Seq(Jobs)
    BY <2>2, <2>3
  <2>5. jobs' \in [Queues -> Seq(Jobs)]
    BY <1>0, <2>4 DEF TypeOK, PushEnqueue
  <2>6. /\ opPc' \in [Threads -> {"idle", "enqueue", "schedule", "uncount"}]
        /\ opQueue' \in [Threads -> Queues \union {NoQueue}]
        /\ opJob' \in [Threads -> Jobs \union {NoJob}]
        /\ opOnly' \in [Threads -> BOOLEAN]
        /\ wasZero' \in [Threads -> BOOLEAN]
        /\ owe' \in [Threads -> Nat]
    <3>1. CASE wasZero[t]
      BY <3>1 DEF TypeOK, PushEnqueue
    <3>2. CASE ~wasZero[t]
      <4>1. Return(t)
        BY <3>2 DEF PushEnqueue
      <4>. QED BY <4>1 DEF TypeOK, Return
    <3>. QED BY <3>1, <3>2
  <2>. QED BY <2>5, <2>6 DEF TypeOK, PushEnqueue, timerVars, execVars, history
<1>2. LocalOK'
  BY QueuesAssumption DEF TypeOK, LocalOK, PushEnqueue, jobVars, timerVars, opVars, execVars, history, Return
<1>3. ASSUME NEW p \in Queues PROVE Surplus(p)' = Surplus(p) /\ Owing(p)' = Owing(p)
  <2>0. Owing(p)' = Owing(p)
    <3>1. /\ opPc[t] # "uncount" /\ opPc'[t] # "uncount"
          /\ \A u \in Threads : u # t => /\ opPc'[u] = opPc[u] /\ opQueue'[u] = opQueue[u]
                                         /\ owe'[u] = owe[u]
      BY DEF TypeOK, PushEnqueue, Return
    <3>. QED BY <3>1, OwingFrame
  <2>1. CASE p = opQueue[t]
    <3>1. t \in Enqueuing(p) /\ Enqueuing(p)' = Enqueuing(p) \ {t}
      BY <2>1 DEF Enqueuing, TypeOK, PushEnqueue, jobVars, timerVars, opVars, execVars, history, Return
    <3>2. Cardinality(Enqueuing(p) \ {t}) = Cardinality(Enqueuing(p)) - 1
      BY <3>1, EnqueuingFinite, FS_RemoveElement
    <3>3. Len(jobs'[p]) = Len(jobs[p]) + 1
      <4>1. jobs'[p] = Append(jobs[p], opJob[t]) /\ jobs[p] \in Seq(Jobs)
        BY <1>0, <2>1 DEF TypeOK, PushEnqueue
      <4>. QED BY <1>0, <4>1, AppendProperties
    <3>4. jobCount'[p] = jobCount[p]
      BY DEF PushEnqueue
    <3>. QED BY <2>0, <3>1, <3>2, <3>3, <3>4, SurplusType, EnqueuingFinite DEF Surplus
  <2>2. CASE p # opQueue[t]
    <3>1. Enqueuing(p)' = Enqueuing(p)
      BY <2>2 DEF Enqueuing, TypeOK, PushEnqueue, jobVars, timerVars, opVars, execVars, history, Return
    <3>2. jobs'[p] = jobs[p] /\ jobCount'[p] = jobCount[p]
      BY <2>2 DEF TypeOK, PushEnqueue
    <3>. QED BY <2>0, <3>1, <3>2 DEF Surplus
  <2>. QED BY <2>0, <2>1, <2>2
<1>4. CountOK'
  BY <1>3, QueuesAssumption DEF CountOK, TypeOK, LocalOK, PushEnqueue, jobVars, timerVars, opVars, execVars, history, Return
<1>5. AtMostOneHolder' /\ HeldIffCounted'
  <2>1. \A p \in Queues, u \in Threads : Scheduling(u, p)' <=> Scheduling(u, p)
    BY DEF Scheduling, TypeOK, PushEnqueue, jobVars, timerVars, opVars, execVars, history, Return
  <2>. QED BY <2>1, HolderFrame DEF PushEnqueue, jobVars, timerVars, opVars, execVars, history, Return
<1>. QED BY <1>1, <1>2, <1>4, <1>5

LEMMA PushExecuteStep ==
  ASSUME IInv, NEW t \in Threads, PushExecute(t) PROVE IInv'
<1> USE DEF IInv
<1>1. TypeOK'
  BY DEF TypeOK, LocalOK, PushExecute, jobVars, timerVars, opVars, execVars, history, Return
<1>2. LocalOK'
  BY QueuesAssumption DEF TypeOK, LocalOK, PushExecute, jobVars, timerVars, opVars, execVars, history, Return
<1>35. \A u \in Threads : u # t =>
           current'[u] = current[u] /\ taken'[u] = taken[u] /\ owe'[u] = owe[u]
  BY DEF TypeOK, PushExecute, jobVars, timerVars, opVars, execVars, history, Return
<1>3. ASSUME NEW p \in Queues PROVE Surplus(p)' = Surplus(p) /\ Owing(p)' = Owing(p)
  <2>1. Enqueuing(p)' = Enqueuing(p)
    BY DEF Enqueuing, TypeOK, PushExecute, jobVars, timerVars, opVars, execVars, history, Return
  <2>2. Owing(p)' = Owing(p)
    BY OwingFrame DEF TypeOK, LocalOK, PushExecute, jobVars, timerVars, opVars, execVars, history, Return
  <2>. QED BY <2>1, <2>2, SurplusFrame DEF PushExecute, jobVars, timerVars, opVars, execVars, history, Return
<1>31. \A u \in Threads : current[u] # opQueue[t]
  BY DEF AtMostOneHolder, Scheduling, LocalOK, PushExecute
<1>32. /\ opQueue[t] \in Queues /\ current'[t] = opQueue[t] /\ current[t] = NoQueue
       /\ taken'[t] = 0 /\ owe'[t] = 0
  BY DEF TypeOK, LocalOK, PushExecute, jobVars, timerVars, opVars, execVars, history, Return
<1>4. CountOK'
  BY <1>3, <1>31, <1>32, <1>35, QueuesAssumption DEF CountOK
<1>5. AtMostOneHolder' /\ HeldIffCounted'
  <2>1. Scheduling(t, opQueue[t]) /\ opQueue[t] \in Queues
    BY DEF Scheduling, LocalOK, PushExecute
  <2>2. \A p \in Queues, u \in Threads : Scheduling(u, p)' <=> Scheduling(u, p) /\ u # t
    BY DEF Scheduling, TypeOK, PushExecute, jobVars, timerVars, opVars, execVars, history, Return
  <2>3. \A p \in Queues, u \in Threads :
           current'[u] = p <=> (IF u = t THEN p = opQueue[t] ELSE current[u] = p)
    BY DEF TypeOK, PushExecute
  <2>31. \A p \in Queues : current[t] # p
    BY QueuesAssumption DEF PushExecute
  <2>32. \A p \in Queues : Scheduling(t, p) => p = opQueue[t]
    BY DEF Scheduling
  <2>4. \A p \in Queues : InGlobal(p)' <=> InGlobal(p)
    BY DEF InGlobal, PushExecute
  <2>5. AtMostOneHolder'
    BY <2>1, <2>2, <2>3, <2>4 DEF AtMostOneHolder, PushExecute
  <2>6. \A p \in Queues : Held(p)' <=> Held(p)
    BY <2>1, <2>2, <2>3, <2>31, <2>32, <2>4 DEF Held
  <2>. QED BY <2>5, <2>6 DEF HeldIffCounted, PushExecute, jobVars
<1>. QED BY <1>1, <1>2, <1>4, <1>5

LEMMA PushGlobalStep ==
  ASSUME IInv, NEW t \in Threads, PushGlobal(t) PROVE IInv'
<1> USE DEF IInv
<1>1. TypeOK'
  <2>1. global' \in Seq(Queues)
    BY GlobalAppend DEF LocalOK, PushGlobal
  <2>. QED BY <2>1 DEF TypeOK, LocalOK, PushGlobal, jobVars, timerVars, opVars, execVars, history, Return
<1>2. LocalOK'
  BY QueuesAssumption DEF TypeOK, LocalOK, PushGlobal, jobVars, timerVars, opVars, execVars, history, Return
<1>3. ASSUME NEW p \in Queues PROVE Surplus(p)' = Surplus(p) /\ Owing(p)' = Owing(p)
  <2>1. Enqueuing(p)' = Enqueuing(p)
    BY DEF Enqueuing, TypeOK, PushGlobal, jobVars, timerVars, opVars, execVars, history, Return
  <2>2. Owing(p)' = Owing(p)
    BY OwingFrame DEF TypeOK, LocalOK, PushGlobal, jobVars, timerVars, opVars, execVars, history, Return
  <2>. QED BY <2>1, <2>2, SurplusFrame DEF PushGlobal, jobVars, timerVars, opVars, execVars, history, Return
<1>35. \A u \in Threads : u # t =>
           current'[u] = current[u] /\ taken'[u] = taken[u] /\ owe'[u] = owe[u]
  BY DEF TypeOK, PushGlobal, jobVars, timerVars, opVars, execVars, history, Return
<1>36. current'[t] = current[t] /\ taken'[t] = taken[t] /\ owe'[t] = owe[t]
  BY DEF TypeOK, LocalOK, PushGlobal, jobVars, timerVars, opVars, execVars, history, Return
<1>4. CountOK'
  BY <1>3, <1>35, <1>36 DEF CountOK
<1>5. AtMostOneHolder' /\ HeldIffCounted'
  <2>0. PICK q \in Queues : q = opQueue[t]
    BY DEF LocalOK, TypeOK, PushGlobal
  <2>1. Scheduling(t, q) /\ \A p \in Queues : p # q => ~(Scheduling(t, p))
    BY <2>0 DEF Scheduling, LocalOK, PushGlobal
  <2>2. \A p \in Queues, u \in Threads : Scheduling(u, p)' <=> Scheduling(u, p) /\ u # t
    BY DEF Scheduling, LocalOK, TypeOK, PushGlobal, jobVars, timerVars, opVars, execVars, history, Return
  <2>3. \A p \in Queues, u \in Threads : current'[u] = p <=> current[u] = p
    BY QueuesAssumption DEF LocalOK, TypeOK, PushGlobal, jobVars, timerVars, opVars, execVars, history, Return
  <2>4. /\ \A p \in Queues : InGlobal(p)' <=> InGlobal(p) \/ p = q
        /\ \A i, k \in 1 .. Len(global') : global'[i] = global'[k] => i = k
    BY <2>0, <2>1, GlobalAppend DEF AtMostOneHolder, PushGlobal
  <2>5. \A u \in Threads : ~Scheduling(u, q)' /\ current'[u] # q
    BY <2>1, <2>2, <2>3 DEF AtMostOneHolder
  <2>6. AtMostOneHolder'
    BY <2>1, <2>2, <2>3, <2>4, <2>5 DEF AtMostOneHolder
  <2>7. \A p \in Queues : p # q => (Held(p)' <=> Held(p))
    BY <2>1, <2>2, <2>3, <2>4 DEF Held, AtMostOneHolder
  <2>8. Held(q) /\ \A p \in Queues : p = q => Held(p)'
    BY <2>1, <2>4 DEF Held
  <2>. QED BY <2>1, <2>6, <2>7, <2>8 DEF HeldIffCounted, PushGlobal, jobVars
<1>. QED BY <1>1, <1>2, <1>4, <1>5

LEMMA ExecutePopAllStep ==
  ASSUME IInv, NEW t \in Threads, ExecutePopAll(t) PROVE IInv'
<1> USE DEF IInv
<1>0. /\ current[t] \in Queues /\ taken[t] = 0 /\ owe[t] = 0
      /\ \A u \in Threads : current[u] = current[t] => u = t
  BY DEF TypeOK, LocalOK, AtMostOneHolder, ExecutePopAll
<1>1. TypeOK'
  BY <1>0, SurplusType, EmptySeq DEF TypeOK, ExecutePopAll, jobVars, timerVars, opVars, execVars, history, Return
<1>2. LocalOK'
  BY QueuesAssumption DEF TypeOK, LocalOK, ExecutePopAll, jobVars, timerVars, opVars, execVars, history, Return
<1>3. ASSUME NEW p \in Queues
      PROVE  /\ Surplus(p)' = IF p = current[t] THEN taken'[t] ELSE Surplus(p)
             /\ Owing(p)' = Owing(p)
  <2>1. Enqueuing(p)' = Enqueuing(p)
    BY DEF Enqueuing, TypeOK, ExecutePopAll, jobVars, timerVars, opVars, execVars, history, Return
  <2>0. Owing(p)' = Owing(p)
    BY OwingFrame DEF ExecutePopAll, opVars
  <2>2. CASE p = current[t]
    <3>1. Surplus(p) = 0
      BY <2>2 DEF CountOK, LocalOK, ExecutePopAll
    <3>2. jobs'[p] = <<>> /\ jobCount'[p] = jobCount[p] /\ taken'[t] = Len(jobs[p])
      BY <2>2 DEF TypeOK, ExecutePopAll, jobVars, timerVars, opVars, execVars, history, Return
    <3>. QED BY <2>0, <2>1, <2>2, <3>1, <3>2, EmptySeq, SurplusType, EnqueuingFinite DEF Surplus
  <2>3. CASE p # current[t]
    BY <2>0, <2>1, <2>3 DEF Surplus, TypeOK, ExecutePopAll, jobVars, timerVars, opVars, execVars, history, Return
  <2>. QED BY <2>0, <2>2, <2>3
<1>35. \A u \in Threads : u # t =>
           current'[u] = current[u] /\ taken'[u] = taken[u] /\ owe'[u] = owe[u]
  BY DEF TypeOK, ExecutePopAll, jobVars, timerVars, opVars, execVars, history, Return
<1>36. current'[t] = current[t] /\ owe'[t] = 0 /\ taken'[t] \in Nat
  BY <1>0, SurplusType DEF TypeOK, LocalOK, ExecutePopAll, jobVars, timerVars, opVars, execVars, history, Return
<1>4. CountOK'
  BY <1>0, <1>3, <1>35, <1>36 DEF CountOK
<1>5. AtMostOneHolder' /\ HeldIffCounted'
  <2>1. \A p \in Queues, u \in Threads : Scheduling(u, p)' <=> Scheduling(u, p)
    BY DEF Scheduling, TypeOK, ExecutePopAll, jobVars, timerVars, opVars, execVars, history, Return
  <2>. QED BY <2>1, HolderFrame DEF ExecutePopAll, jobVars, timerVars, opVars, execVars, history, Return
<1>. QED BY <1>1, <1>2, <1>4, <1>5

LEMMA ExecuteStartJobStep ==
  ASSUME IInv, NEW t \in Threads, ExecuteStartJob(t) PROVE IInv'
<1> USE DEF IInv
<1>1. TypeOK'
  BY DEF TypeOK, LocalOK, ExecuteStartJob, jobVars, timerVars, opVars, execVars, history, Return
<1>2. LocalOK'
  BY QueuesAssumption DEF TypeOK, LocalOK, ExecuteStartJob, jobVars, timerVars, opVars, execVars, history, Return
<1>3. ASSUME NEW p \in Queues PROVE Surplus(p)' = Surplus(p) /\ Owing(p)' = Owing(p)
  <2>1. Enqueuing(p)' = Enqueuing(p)
    BY DEF Enqueuing, TypeOK, ExecuteStartJob, jobVars, timerVars, opVars, execVars, history, Return
  <2>2. Owing(p)' = Owing(p)
    BY OwingFrame DEF TypeOK, LocalOK, ExecuteStartJob, jobVars, timerVars, opVars, execVars, history, Return
  <2>. QED BY <2>1, <2>2, SurplusFrame DEF ExecuteStartJob, jobVars, timerVars, opVars, execVars, history, Return
<1>4. CountOK'
  BY <1>3, QueuesAssumption DEF CountOK, TypeOK, LocalOK, ExecuteStartJob, jobVars, timerVars, opVars, execVars, history, Return
<1>5. AtMostOneHolder' /\ HeldIffCounted'
  <2>1. \A p \in Queues, u \in Threads : Scheduling(u, p)' <=> Scheduling(u, p)
    BY DEF Scheduling, TypeOK, ExecuteStartJob, jobVars, timerVars, opVars, execVars, history, Return
  <2>. QED BY <2>1, HolderFrame DEF ExecuteStartJob, jobVars, timerVars, opVars, execVars, history, Return
<1>. QED BY <1>1, <1>2, <1>4, <1>5

LEMMA ExecuteEndJobStep ==
  ASSUME IInv, NEW t \in Threads, ExecuteEndJob(t) PROVE IInv'
<1> USE DEF IInv
<1>1. TypeOK'
  <2>1. UNCHANGED <<jobVars, owned, global, timerVars, opVars, current, taken, fresh, closing,
                    cleared, expired>>
    BY DEF ExecuteEndJob
  <2>2. Head(batch[t]) \in Jobs /\ Tail(batch[t]) \in Seq(Jobs)
    BY DEF TypeOK, LocalOK, ExecuteEndJob
  <2>3. /\ finished' \in SUBSET Jobs /\ batch' \in [Threads -> Seq(Jobs)]
        /\ execPc' \in [Threads -> {"idle", "pop", "next", "job", "time"}]
    BY <2>2 DEF TypeOK, ExecuteEndJob
  <2>4. TypeOK
    OBVIOUS
  <2>. QED BY ONLY <2>1, <2>3, <2>4 DEF TypeOK, jobVars, timerVars, opVars
<1>2. LocalOK'
  BY QueuesAssumption DEF TypeOK, LocalOK, ExecuteEndJob, jobVars, timerVars, opVars, execVars, history, Return
<1>3. ASSUME NEW p \in Queues PROVE Surplus(p)' = Surplus(p) /\ Owing(p)' = Owing(p)
  <2>1. Enqueuing(p)' = Enqueuing(p)
    BY DEF Enqueuing, TypeOK, ExecuteEndJob, jobVars, timerVars, opVars, execVars, history, Return
  <2>2. Owing(p)' = Owing(p)
    BY OwingFrame DEF TypeOK, LocalOK, ExecuteEndJob, jobVars, timerVars, opVars, execVars, history, Return
  <2>. QED BY <2>1, <2>2, SurplusFrame DEF ExecuteEndJob, jobVars, timerVars, opVars, execVars, history, Return
<1>4. CountOK'
  BY <1>3, QueuesAssumption DEF CountOK, TypeOK, LocalOK, ExecuteEndJob, jobVars, timerVars, opVars, execVars, history, Return
<1>5. AtMostOneHolder' /\ HeldIffCounted'
  <2>1. \A p \in Queues, u \in Threads : Scheduling(u, p)' <=> Scheduling(u, p)
    BY DEF Scheduling, TypeOK, ExecuteEndJob, jobVars, timerVars, opVars, execVars, history, Return
  <2>. QED BY <2>1, HolderFrame DEF ExecuteEndJob, jobVars, timerVars, opVars, execVars, history, Return
<1>. QED BY <1>1, <1>2, <1>4, <1>5

LEMMA ExecuteSettleStep ==
  ASSUME IInv, NEW t \in Threads, ExecuteSettle(t) PROVE IInv'
<1> USE DEF IInv
<1>0. current[t] \in Queues /\ owe[t] = 0 /\ taken[t] \in Nat
  BY DEF TypeOK, LocalOK, ExecuteSettle
<1>01. Surplus(current[t]) = taken[t]
  BY <1>0 DEF CountOK, TypeOK
<1>02. \A u \in Threads : current[u] = current[t] => u = t
  BY <1>0 DEF AtMostOneHolder
<1>03. /\ jobCount'[current[t]] = jobCount[current[t]] - taken[t]
       /\ jobCount'[current[t]] \in Nat
       /\ \A p \in Queues : p # current[t] => jobCount'[p] = jobCount[p]
  <2>1. jobCount' = [jobCount EXCEPT ![current[t]] = @ - taken[t]] /\ jobCount \in [Queues -> Nat]
    BY DEF ExecuteSettle, TypeOK
  <2>2. jobCount[current[t]] \in Nat /\ jobCount[current[t]] >= taken[t]
    BY <1>0, <1>01, SurplusType
  <2>. QED BY <1>0, <2>1, <2>2
<1>1. TypeOK'
  BY <1>0, <1>03 DEF TypeOK, ExecuteSettle, jobVars, timerVars, opVars, execVars, history, Return
<1>2. LocalOK'
  BY QueuesAssumption DEF TypeOK, LocalOK, ExecuteSettle, jobVars, timerVars, opVars, execVars, history, Return
<1>3. ASSUME NEW p \in Queues
      PROVE  /\ Surplus(p)' = IF p = current[t] THEN 0 ELSE Surplus(p)
             /\ Owing(p)' = Owing(p)
  <2>1. Enqueuing(p)' = Enqueuing(p)
    BY DEF Enqueuing, TypeOK, ExecuteSettle, jobVars, timerVars, opVars, execVars, history, Return
  <2>0. Owing(p)' = Owing(p)
    BY OwingFrame DEF ExecuteSettle, opVars
  <2>2. jobs'[p] = jobs[p]
    BY DEF ExecuteSettle, jobVars, timerVars, opVars, execVars, history, Return
  <2>3. CASE p = current[t]
    BY <1>0, <1>01, <1>03, <2>0, <2>1, <2>2, <2>3, SurplusType, EnqueuingFinite DEF Surplus
  <2>4. CASE p # current[t]
    BY <1>03, <2>0, <2>1, <2>2, <2>4 DEF Surplus
  <2>. QED BY <2>0, <2>3, <2>4
<1>35. \A u \in Threads : u # t =>
           current'[u] = current[u] /\ taken'[u] = taken[u] /\ owe'[u] = owe[u]
  BY DEF TypeOK, ExecuteSettle, jobVars, timerVars, opVars, execVars, history, Return
<1>36. /\ current'[t] \in {current[t], NoQueue}
       /\ taken'[t] = 0 /\ owe'[t] = 0
  BY <1>0 DEF TypeOK, ExecuteSettle, jobVars, timerVars, opVars, execVars, history, Return
<1>4. CountOK'
  BY <1>0, <1>02, <1>3, <1>35, <1>36, QueuesAssumption DEF CountOK
<1>5. AtMostOneHolder' /\ HeldIffCounted'
  <2>1. \A p \in Queues, u \in Threads : Scheduling(u, p)' <=> Scheduling(u, p)
    BY DEF Scheduling, ExecuteSettle, jobVars, timerVars, opVars, execVars, history, Return
  <2>2. \A p \in Queues : InGlobal(p)' <=> InGlobal(p)
    BY DEF InGlobal, ExecuteSettle
  <2>3. \A p \in Queues, u \in Threads :
           current'[u] = p <=> current[u] = p /\ (u = t => jobCount[p] # taken[t])
    BY QueuesAssumption DEF TypeOK, ExecuteSettle
  <2>4. AtMostOneHolder'
    BY <2>1, <2>2, <2>3 DEF AtMostOneHolder, ExecuteSettle
  <2>5. closing' = closing
    BY DEF ExecuteSettle
  <2>6. ASSUME NEW p \in Queues, p # current[t]
        PROVE  (Held(p)' <=> Held(p)) /\ jobCount'[p] = jobCount[p]
    BY <1>03, <2>1, <2>2, <2>3, <2>6 DEF Held
  <2>7. ASSUME NEW p \in Queues, p = current[t] PROVE Held(p)' <=> jobCount'[p] > 0
    <3>1. CASE jobCount[p] = taken[t]
      <4>1. ~Held(p)'
        BY <1>02, <2>1, <2>2, <2>3, <2>7, <3>1 DEF Held, AtMostOneHolder
      <4>. QED BY <1>0, <1>03, <2>7, <3>1, <4>1
    <3>2. CASE jobCount[p] # taken[t]
      <4>1. Held(p)'
        BY <2>3, <2>7, <3>2 DEF Held
      <4>2. jobCount[p] \in Nat /\ jobCount[p] >= taken[t]
        BY <1>01, <2>7, SurplusType
      <4>. QED BY <1>0, <1>03, <2>7, <3>2, <4>1, <4>2
    <3>. QED BY <3>1, <3>2
  <2>. QED BY <2>4, <2>5, <2>6, <2>7 DEF HeldIffCounted
<1>. QED BY <1>1, <1>2, <1>4, <1>5

LEMMA ExecuteAgainStep ==
  ASSUME IInv, NEW t \in Threads, ExecuteAgain(t) PROVE IInv'
<1> USE DEF IInv
<1>1. TypeOK'
  BY DEF TypeOK, LocalOK, ExecuteAgain, jobVars, timerVars, opVars, execVars, history, Return
<1>2. LocalOK'
  BY QueuesAssumption DEF TypeOK, LocalOK, ExecuteAgain, jobVars, timerVars, opVars, execVars, history, Return
<1>3. ASSUME NEW p \in Queues PROVE Surplus(p)' = Surplus(p) /\ Owing(p)' = Owing(p)
  <2>1. Enqueuing(p)' = Enqueuing(p)
    BY DEF Enqueuing, TypeOK, ExecuteAgain, jobVars, timerVars, opVars, execVars, history, Return
  <2>2. Owing(p)' = Owing(p)
    BY OwingFrame DEF TypeOK, LocalOK, ExecuteAgain, jobVars, timerVars, opVars, execVars, history, Return
  <2>. QED BY <2>1, <2>2, SurplusFrame DEF ExecuteAgain, jobVars, timerVars, opVars, execVars, history, Return
<1>4. CountOK'
  BY <1>3, QueuesAssumption DEF CountOK, TypeOK, LocalOK, ExecuteAgain, jobVars, timerVars, opVars, execVars, history, Return
<1>5. AtMostOneHolder' /\ HeldIffCounted'
  <2>1. \A p \in Queues, u \in Threads : Scheduling(u, p)' <=> Scheduling(u, p)
    BY DEF Scheduling, TypeOK, ExecuteAgain, jobVars, timerVars, opVars, execVars, history, Return
  <2>. QED BY <2>1, HolderFrame DEF ExecuteAgain, jobVars, timerVars, opVars, execVars, history, Return
<1>. QED BY <1>1, <1>2, <1>4, <1>5

LEMMA ExecuteYieldStep ==
  ASSUME IInv, NEW t \in Threads, ExecuteYield(t) PROVE IInv'
<1> USE DEF IInv
<1>0. /\ current[t] \in Queues
      /\ \A u \in Threads : current[u] = current[t] => u = t
      /\ taken[t] = 0 /\ owe[t] = 0
  BY DEF TypeOK, LocalOK, AtMostOneHolder, ExecuteYield
<1>1. TypeOK'
  <2>1. global' \in Seq(Queues)
    BY <1>0, GlobalAppend DEF ExecuteYield
  <2>. QED BY <2>1 DEF TypeOK, LocalOK, ExecuteYield, jobVars, timerVars, opVars, execVars, history, Return
<1>2. LocalOK'
  BY QueuesAssumption DEF TypeOK, LocalOK, ExecuteYield, jobVars, timerVars, opVars, execVars, history, Return
<1>3. ASSUME NEW p \in Queues PROVE Surplus(p)' = Surplus(p) /\ Owing(p)' = Owing(p)
  <2>1. Enqueuing(p)' = Enqueuing(p)
    BY DEF Enqueuing, TypeOK, ExecuteYield, jobVars, timerVars, opVars, execVars, history, Return
  <2>2. Owing(p)' = Owing(p)
    BY OwingFrame DEF TypeOK, LocalOK, ExecuteYield, jobVars, timerVars, opVars, execVars, history, Return
  <2>. QED BY <2>1, <2>2, SurplusFrame DEF ExecuteYield, jobVars, timerVars, opVars, execVars, history, Return
<1>35. \A u \in Threads : u # t =>
           current'[u] = current[u] /\ taken'[u] = taken[u] /\ owe'[u] = owe[u]
  BY DEF TypeOK, ExecuteYield, jobVars, timerVars, opVars, execVars, history, Return
<1>36. current'[t] = NoQueue
  BY DEF TypeOK, ExecuteYield, jobVars, timerVars, opVars, execVars, history, Return
<1>4. CountOK'
  BY <1>0, <1>3, <1>35, <1>36, QueuesAssumption DEF CountOK
<1>5. AtMostOneHolder' /\ HeldIffCounted'
  <2>0. PICK q \in Queues : q = current[t]
    BY DEF LocalOK, TypeOK, ExecuteYield
  <2>1. current[t] = q /\ \A p \in Queues : p # q => ~(current[t] = p)
    BY <2>0 DEF Scheduling, LocalOK, ExecuteYield
  <2>2. \A p \in Queues, u \in Threads : Scheduling(u, p)' <=> Scheduling(u, p)
    BY DEF Scheduling, LocalOK, TypeOK, ExecuteYield, jobVars, timerVars, opVars, execVars, history, Return
  <2>3. \A p \in Queues, u \in Threads : current'[u] = p <=> current[u] = p /\ u # t
    BY QueuesAssumption DEF LocalOK, TypeOK, ExecuteYield, jobVars, timerVars, opVars, execVars, history, Return
  <2>4. /\ \A p \in Queues : InGlobal(p)' <=> InGlobal(p) \/ p = q
        /\ \A i, k \in 1 .. Len(global') : global'[i] = global'[k] => i = k
    BY <2>0, <2>1, GlobalAppend DEF AtMostOneHolder, ExecuteYield
  <2>5. \A u \in Threads : ~Scheduling(u, q)' /\ current'[u] # q
    BY <2>1, <2>2, <2>3 DEF AtMostOneHolder
  <2>6. AtMostOneHolder'
    BY <2>1, <2>2, <2>3, <2>4, <2>5 DEF AtMostOneHolder
  <2>7. \A p \in Queues : p # q => (Held(p)' <=> Held(p))
    BY <2>1, <2>2, <2>3, <2>4 DEF Held, AtMostOneHolder
  <2>8. Held(q) /\ \A p \in Queues : p = q => Held(p)'
    BY <2>1, <2>4 DEF Held
  <2>. QED BY <2>1, <2>6, <2>7, <2>8 DEF HeldIffCounted, ExecuteYield, jobVars
<1>. QED BY <1>1, <1>2, <1>4, <1>5

LEMMA WorkerPopStep ==
  ASSUME IInv, NEW t \in Threads, WorkerPop(t) PROVE IInv'
<1> USE DEF IInv
<1>0. /\ Head(global) \in Queues
      /\ \A u \in Threads : current[u] # Head(global)
      /\ taken[t] = 0 /\ owe[t] = 0 /\ current[t] = NoQueue
  BY GlobalTail DEF LocalOK, AtMostOneHolder, WorkerPop
<1>1. TypeOK'
  <2>1. global' \in Seq(Queues)
    BY GlobalTail DEF WorkerPop
  <2>. QED BY <1>0, <2>1 DEF TypeOK, WorkerPop, jobVars, timerVars, opVars, execVars, history, Return
<1>2. LocalOK'
  BY <1>0, QueuesAssumption DEF TypeOK, LocalOK, WorkerPop, jobVars, timerVars, opVars, execVars, history, Return
<1>3. ASSUME NEW p \in Queues PROVE Surplus(p)' = Surplus(p) /\ Owing(p)' = Owing(p)
  <2>1. Enqueuing(p)' = Enqueuing(p)
    BY DEF Enqueuing, TypeOK, WorkerPop, jobVars, timerVars, opVars, execVars, history, Return
  <2>2. Owing(p)' = Owing(p)
    BY OwingFrame DEF TypeOK, LocalOK, WorkerPop, jobVars, timerVars, opVars, execVars, history, Return
  <2>. QED BY <2>1, <2>2, SurplusFrame DEF WorkerPop, jobVars, timerVars, opVars, execVars, history, Return
<1>35. \A u \in Threads : u # t =>
           current'[u] = current[u] /\ taken'[u] = taken[u] /\ owe'[u] = owe[u]
  BY DEF TypeOK, WorkerPop, jobVars, timerVars, opVars, execVars, history, Return
<1>36. current'[t] = Head(global) /\ taken'[t] = 0 /\ owe'[t] = 0
  BY <1>0 DEF TypeOK, WorkerPop, jobVars, timerVars, opVars, execVars, history, Return
<1>4. CountOK'
  BY <1>0, <1>3, <1>35, <1>36, QueuesAssumption DEF CountOK
<1>5. AtMostOneHolder' /\ HeldIffCounted'
  <2> DEFINE q == Head(global)
  <2>1. \A p \in Queues, u \in Threads : Scheduling(u, p)' <=> Scheduling(u, p)
    BY DEF Scheduling, WorkerPop, jobVars, timerVars, opVars, execVars, history, Return
  <2>2. \A p \in Queues, u \in Threads :
           current'[u] = p <=> current[u] = p \/ (u = t /\ p = q)
    BY <1>0, QueuesAssumption DEF TypeOK, WorkerPop
  <2>3. /\ InGlobal(q)
        /\ \A p \in Queues : InGlobal(p)' <=> InGlobal(p) /\ p # q
        /\ \A i, k \in 1 .. Len(global') : global'[i] = global'[k] => i = k
    BY GlobalTail DEF AtMostOneHolder, WorkerPop
  <2>4. \A u \in Threads : ~Scheduling(u, q) /\ current[u] # q
    BY <1>0, <2>3 DEF AtMostOneHolder
  <2>. HIDE DEF q
  <2>5. AtMostOneHolder'
    BY <1>0, <2>1, <2>2, <2>3, <2>4 DEF AtMostOneHolder
  <2>6. \A p \in Queues : Held(p)' <=> Held(p)
    BY <2>1, <2>2, <2>3 DEF Held
  <2>. QED BY <2>5, <2>6 DEF HeldIffCounted, WorkerPop, jobVars
<1>. QED BY <1>1, <1>2, <1>4, <1>5

LEMMA ClearPopAllStep ==
  ASSUME IInv, NEW t \in Threads, NEW q \in Queues, ClearPopAll(t, q) PROVE IInv'
<1> USE DEF IInv
<1>0. /\ jobs[q] \in Seq(Jobs) /\ Len(jobs[q]) \in Nat
      /\ opPc[t] = "idle" /\ execPc[t] \in {"idle", "job"} /\ ~inDistribute[t]
  BY SurplusType DEF TypeOK, ClearPopAll, InUserCode
<1>01. /\ opPc' = [opPc EXCEPT ![t] = "uncount"] /\ opQueue' = [opQueue EXCEPT ![t] = q]
       /\ owe' = [owe EXCEPT ![t] = Len(jobs[q])] /\ jobs' = [jobs EXCEPT ![q] = <<>>]
       /\ UNCHANGED <<jobCount, owned, global, timerVars, opJob, opOnly, wasZero, execVars,
                      fresh, closing, finished, expired>>
  BY DEF ClearPopAll
<1>02. current[t] = NoQueue => closing
  BY QueuesAssumption DEF ClearPopAll
<1>1. TypeOK'
  <2>1. Range(jobs[q]) \subseteq Jobs
    BY <1>0, RangeOfSeq
  <2>2. cleared' \in SUBSET Jobs
    BY <2>1 DEF ClearPopAll, TypeOK
  <2>3. /\ jobs' \in [Queues -> Seq(Jobs)] /\ owe' \in [Threads -> Nat]
        /\ opPc' \in [Threads -> {"idle", "enqueue", "schedule", "uncount"}]
        /\ opQueue' \in [Threads -> Queues \union {NoQueue}]
    BY <1>0, <1>01, EmptySeq DEF TypeOK
  <2>4. TypeOK
    OBVIOUS
  <2>. QED BY ONLY <1>01, <2>2, <2>3, <2>4 DEF TypeOK, timerVars, execVars
<1>2. LocalOK'
  <2>1. closing \/ (execPc[t] = "job" /\ q = current[t])
    BY <1>0, QueuesAssumption DEF ClearPopAll, LocalOK
  <2>. QED BY <1>0, <1>01, <2>1 DEF TypeOK, LocalOK, timerVars, execVars
<1>3. ASSUME NEW p \in Queues PROVE IsFiniteSet(Owing(p))' /\ Surplus(p)' = Surplus(p)
  <2>1. Enqueuing(p)' = Enqueuing(p)
    BY <1>0, <1>01 DEF Enqueuing, TypeOK
  <2>2. CASE p = q
    <3> DEFINE n == Len(jobs[q])
    <3>1. Owing(p)' = Owing(p) \union ({t} \X (1 .. n))
      <4>1. \A x \in Threads \X Nat : x[1] = t =>
               (opPc'[x[1]] = "uncount" /\ opQueue'[x[1]] = p /\ owe'[x[1]] = n)
               /\ opPc[x[1]] # "uncount"
        BY <1>0, <1>01, <2>2 DEF TypeOK
      <4>2. \A x \in Threads \X Nat : x[1] # t =>
               opPc'[x[1]] = opPc[x[1]] /\ opQueue'[x[1]] = opQueue[x[1]] /\ owe'[x[1]] = owe[x[1]]
        BY <1>01 DEF TypeOK
      <4>3. \A x \in {t} \X (1 .. n) : x \in Threads \X Nat /\ x[1] = t /\ x[2] \in 1 .. n
        BY <1>0
      <4>4. \A x \in Threads \X Nat : x[1] = t /\ x[2] \in 1 .. n => x \in {t} \X (1 .. n)
        OBVIOUS
      <4>. HIDE DEF n
      <4>. QED BY <4>1, <4>2, <4>3, <4>4 DEF Owing
    <3>2. \A x \in Owing(p) : x[1] # t
      BY <1>0 DEF Owing
    <3>3. IsFiniteSet(Owing(p))' /\ Cardinality(Owing(p))' = Cardinality(Owing(p)) + n
      <4>1. n \in Nat /\ IsFiniteSet(Owing(p))
        BY <1>0, SurplusType
      <4>. HIDE DEF n
      <4>. QED BY <3>1, <3>2, <4>1, OwingChange
    <3>4. Len(jobs'[p]) = 0 /\ jobCount'[p] = jobCount[p]
      BY <1>01, <2>2, EmptySeq DEF TypeOK
    <3>. QED BY <2>1, <2>2, <3>3, <3>4, SurplusType, EnqueuingFinite DEF Surplus
  <2>3. CASE p # q
    <3>1. Owing(p)' = Owing(p)
      <4>1. \A x \in Threads \X Nat :
               opPc'[x[1]] = "uncount" /\ opQueue'[x[1]] = p
               <=> opPc[x[1]] = "uncount" /\ opQueue[x[1]] = p
        BY <1>0, <1>01, <2>3 DEF TypeOK
      <4>2. \A x \in Threads \X Nat : opPc[x[1]] = "uncount" => owe'[x[1]] = owe[x[1]]
        BY <1>0, <1>01 DEF TypeOK
      <4>. QED BY <4>1, <4>2 DEF Owing
    <3>2. jobs'[p] = jobs[p] /\ jobCount'[p] = jobCount[p]
      BY <1>01, <2>3 DEF TypeOK
    <3>. QED BY <2>1, <3>1, <3>2, SurplusType DEF Surplus
  <2>. QED BY <2>2, <2>3
<1>4. CountOK'
  BY <1>01, <1>3 DEF CountOK, execVars
<1>5. AtMostOneHolder' /\ HeldIffCounted'
  <2>1. \A p \in Queues, u \in Threads : Scheduling(u, p)' <=> Scheduling(u, p)
    BY <1>0, <1>01 DEF Scheduling, TypeOK
  <2>. QED BY <1>01, <2>1, HolderFrame DEF execVars
<1>. QED BY <1>1, <1>2, <1>4, <1>5

LEMMA ClearUncountStep ==
  ASSUME IInv, NEW t \in Threads, ClearUncount(t) PROVE IInv'
<1> USE DEF IInv
<1>0. PICK q \in Queues, n \in Nat : q = opQueue[t] /\ n = owe[t]
  BY DEF TypeOK, LocalOK, ClearUncount
<1>01. /\ opPc[t] = "uncount" /\ jobCount' = [jobCount EXCEPT ![q] = @ - n]
       /\ opPc' = [opPc EXCEPT ![t] = "idle"]
       /\ opQueue' = [opQueue EXCEPT ![t] = NoQueue]
       /\ owe' = [owe EXCEPT ![t] = 0]
       /\ UNCHANGED <<jobs, owned, global, timerVars, execVars, fresh, closing, history>>
  BY <1>0 DEF ClearUncount, Return
<1>02. \A p \in Queues :
         /\ Enqueuing(p)' = Enqueuing(p)
         /\ p # q => Owing(p)' = Owing(p)
         /\ p = q => Owing(p) = Owing(p)' \union ({t} \X (1 .. n))
         /\ \A x \in Owing(p)' : x[1] # t
  <2>1. \A x \in Threads \X Nat : x[1] = t =>
           /\ opPc[x[1]] = "uncount" /\ opQueue[x[1]] = q /\ owe[x[1]] = n
           /\ opPc'[x[1]] # "uncount"
    BY <1>0, <1>01 DEF TypeOK
  <2>2. \A x \in Threads \X Nat : x[1] # t =>
           opPc'[x[1]] = opPc[x[1]] /\ opQueue'[x[1]] = opQueue[x[1]] /\ owe'[x[1]] = owe[x[1]]
    BY <1>01 DEF TypeOK
  <2>3. \A x \in {t} \X (1 .. n) : x \in Threads \X Nat /\ x[1] = t /\ x[2] \in 1 .. n
    OBVIOUS
  <2>4. \A x \in Threads \X Nat : x[1] = t /\ x[2] \in 1 .. n => x \in {t} \X (1 .. n)
    OBVIOUS
  <2>5. ASSUME NEW p \in Queues PROVE Enqueuing(p)' = Enqueuing(p)
    BY <1>01 DEF Enqueuing, TypeOK
  <2>6. ASSUME NEW p \in Queues, p # q PROVE Owing(p)' = Owing(p)
    BY <2>1, <2>2, <2>6 DEF Owing
  <2>7. ASSUME NEW p \in Queues, p = q
        PROVE  Owing(p) = Owing(p)' \union ({t} \X (1 .. n))
    BY <2>1, <2>2, <2>3, <2>4, <2>7 DEF Owing
  <2>8. ASSUME NEW p \in Queues PROVE \A x \in Owing(p)' : x[1] # t
    BY <2>1 DEF Owing
  <2>. QED BY <2>5, <2>6, <2>7, <2>8
<1>03. /\ IsFiniteSet(Owing(q)') /\ Cardinality(Owing(q)') \in Nat
       /\ Cardinality(Owing(q)) = Cardinality(Owing(q)') + n
  <2>1. IsFiniteSet(Owing(q)')
    BY <1>02, SurplusType, FS_Subset
  <2>. QED BY <1>02, <2>1, OwingChange, FS_CardinalityType
<1>04. Surplus(q) \in Nat
  <2>1. CASE \E u \in Threads : current[u] = q
    BY <2>1 DEF CountOK, TypeOK
  <2>2. CASE \A u \in Threads : current[u] # q
    BY <2>2 DEF CountOK
  <2>. QED BY <2>1, <2>2
<1>05. /\ jobCount[q] \in Nat /\ jobCount'[q] = jobCount[q] - n
       /\ jobCount'[q] \in Nat /\ jobCount'[q] >= Surplus(q)
       /\ \A p \in Queues : p # q => jobCount'[p] = jobCount[p]
  <2>1. jobCount'[q] = jobCount[q] - n /\ \A p \in Queues : p # q => jobCount'[p] = jobCount[p]
    BY <1>01 DEF TypeOK
  <2>2. /\ jobCount[q] \in Nat /\ Len(jobs[q]) \in Nat /\ Cardinality(Enqueuing(q)) \in Nat
        /\ jobCount[q] = Surplus(q) + Len(jobs[q]) + Cardinality(Enqueuing(q))
                        + (Cardinality(Owing(q)') + n)
    BY <1>03, SurplusType, EnqueuingFinite
  <2>3. jobCount[q] - n \in Nat /\ jobCount[q] - n >= Surplus(q)
    <3>1. n \in Nat
      OBVIOUS
    <3>. QED BY ONLY <1>03, <1>04, <2>2, <3>1
  <2>4. jobCount'[q] \in Nat /\ jobCount'[q] >= Surplus(q)
    BY ONLY <2>1, <2>3
  <2>. QED BY <2>1, <2>2, <2>4
<1>1. TypeOK'
  <2>1. jobCount' \in [Queues -> Nat]
    BY <1>01, <1>05 DEF TypeOK
  <2>2. /\ opPc' = [opPc EXCEPT ![t] = "idle"] /\ opQueue' = [opQueue EXCEPT ![t] = NoQueue]
        /\ opJob' = [opJob EXCEPT ![t] = NoJob] /\ owe' = [owe EXCEPT ![t] = 0]
        /\ opOnly' = [opOnly EXCEPT ![t] = FALSE] /\ wasZero' = [wasZero EXCEPT ![t] = FALSE]
    BY DEF ClearUncount, Return
  <2>3. TypeOK
    OBVIOUS
  <2>4. UNCHANGED <<jobs, owned, global, timer, distributing, inDistribute, due, execPc,
                    current, batch, taken, fresh, closing, finished, cleared, expired>>
    BY <1>01 DEF timerVars, execVars, history
  <2>. QED BY ONLY <2>1, <2>2, <2>3, <2>4 DEF TypeOK
<1>2. LocalOK'
  <2>1. /\ opJob' = [opJob EXCEPT ![t] = NoJob] /\ opOnly' = [opOnly EXCEPT ![t] = FALSE]
        /\ wasZero' = [wasZero EXCEPT ![t] = FALSE]
    BY DEF ClearUncount, Return
  <2>. QED BY <1>01, <2>1 DEF TypeOK, LocalOK, timerVars, execVars
<1>3. ASSUME NEW p \in Queues PROVE IsFiniteSet(Owing(p))' /\ Surplus(p)' = Surplus(p)
  <2>1. CASE p # q
    BY <1>01, <1>02, <1>05, <2>1, SurplusType DEF Surplus
  <2>2. CASE p = q
    <3>1. /\ Surplus(q)' = jobCount'[q] - (Len(jobs[q]) + Cardinality(Enqueuing(q))
                                            + Cardinality(Owing(q)'))
          /\ Surplus(q) = jobCount[q] - (Len(jobs[q]) + Cardinality(Enqueuing(q))
                                            + Cardinality(Owing(q)))
      BY <1>01, <1>02 DEF Surplus
    <3>2. Len(jobs[q]) \in Nat /\ Cardinality(Enqueuing(q)) \in Nat
      BY SurplusType, EnqueuingFinite
    <3>3. Surplus(q)' = Surplus(q)
      BY ONLY <1>0, <1>03, <1>05, <3>1, <3>2
    <3>. QED BY <1>03, <2>2, <3>3
  <2>. QED BY <2>1, <2>2
<1>4. CountOK'
  BY <1>01, <1>3 DEF CountOK, execVars
<1>5. AtMostOneHolder' /\ HeldIffCounted'
  <2>1. \A p \in Queues, u \in Threads : Scheduling(u, p)' <=> Scheduling(u, p)
    <3>1. wasZero' = [wasZero EXCEPT ![t] = FALSE]
      BY DEF ClearUncount, Return
    <3>. QED BY <1>01, <3>1 DEF Scheduling, TypeOK
  <2>2. \A p \in Queues : (InGlobal(p)' <=> InGlobal(p)) /\ (Held(p)' <=> Held(p))
    BY <1>01, <2>1 DEF InGlobal, Held, execVars
  <2>3. AtMostOneHolder'
    BY <1>01, <2>1, <2>2 DEF AtMostOneHolder, execVars
  <2>4. ~closing => jobCount'[q] > 0
    <3>1. ~closing => current[t] = q /\ execPc[t] = "job"
      BY <1>0, <1>01 DEF LocalOK
    <3>2. execPc[t] = "job" => taken[t] > 0
      <4>1. taken[t] \in Nat /\ batch[t] \in Seq(Jobs)
        BY DEF TypeOK
      <4>2. batch[t] # <<>> => Len(batch[t]) > 0
        BY <4>1, EmptySeq
      <4>. QED BY <4>1, <4>2, LenProperties DEF LocalOK
    <3>3. current[t] = q => Surplus(q) = taken[t]
      BY DEF CountOK
    <3>. QED BY <1>04, <1>05, <3>1, <3>2, <3>3
  <2>5. jobCount'[q] > 0 => jobCount[q] > 0
    BY <1>0, <1>05
  <2>6. closing' = closing
    BY <1>01
  <2>7. ASSUME NEW p \in Queues
        PROVE  /\ jobCount'[p] > 0 => Held(p)'
               /\ Held(p)' /\ ~closing' => jobCount'[p] > 0
    BY <1>05, <2>2, <2>4, <2>5, <2>6 DEF HeldIffCounted
  <2>. QED BY <2>3, <2>7 DEF HeldIffCounted
<1>. QED BY <1>1, <1>2, <1>4, <1>5

LEMMA DoAsyncStep ==
  ASSUME IInv, NEW t \in Threads, NEW q \in Queues, DoAsync(t, q) PROVE IInv'
<1> USE DEF IInv
<1>0. PICK j \in fresh : fresh' = fresh \ {j} /\ PushCount(t, q, j, FALSE)
  BY DEF DoAsync
<1>1. j \in Jobs /\ opPc[t] = "idle" /\ execPc[t] \in {"idle", "job"}
      /\ ~inDistribute[t] /\ ~closing
  BY DEF DoAsync, InUserCode, TypeOK
<1>2. TypeOK'
  <2>1. UNCHANGED <<jobs, owe, owned, global, timer, distributing, inDistribute, due,
                    execPc, current, batch, taken, closing, finished, cleared, expired>>
    BY <1>0 DEF DoAsync, PushCount, timerVars, execVars, history
  <2>2. /\ fresh' \in SUBSET Jobs /\ jobCount' \in [Queues -> Nat]
        /\ wasZero' \in [Threads -> BOOLEAN] /\ opOnly' \in [Threads -> BOOLEAN]
    BY <1>0 DEF TypeOK, PushCount
  <2>3. /\ opPc' \in [Threads -> {"idle", "enqueue", "schedule", "uncount"}]
        /\ opQueue' \in [Threads -> Queues \union {NoQueue}] /\ opJob' \in [Threads -> Jobs \union {NoJob}]
    BY <1>0, <1>1 DEF TypeOK, PushCount
  <2>4. TypeOK
    OBVIOUS
  <2>. QED BY ONLY <2>1, <2>2, <2>3, <2>4 DEF TypeOK
<1>3. LocalOK'
  BY <1>0, <1>1, QueuesAssumption
  DEF TypeOK, LocalOK, DoAsync, PushCount, timerVars, execVars
<1>4. CountOK' /\ AtMostOneHolder' /\ HeldIffCounted'
  BY <1>0, <1>1, PushCountStep DEF DoAsync
<1>. QED BY <1>2, <1>3, <1>4

(* A step that leaves the queues, the calls and the executions alone.        *)
LEMMA TokenFrame ==
  ASSUME IInv, UNCHANGED <<jobVars, global, opVars, execVars>>,
         closing => closing'
  PROVE  CountOK' /\ AtMostOneHolder' /\ HeldIffCounted'
<1> USE DEF IInv
<1>1. ASSUME NEW p \in Queues PROVE Surplus(p)' = Surplus(p) /\ Owing(p)' = Owing(p)
  <2>1. Enqueuing(p)' = Enqueuing(p)
    BY DEF Enqueuing, opVars
  <2>2. Owing(p)' = Owing(p)
    BY DEF Owing, opVars
  <2>. QED BY <2>1, <2>2, SurplusFrame DEF jobVars
<1>2. CountOK'
  BY <1>1 DEF CountOK, opVars, execVars
<1>3. \A p \in Queues, u \in Threads : Scheduling(u, p)' <=> Scheduling(u, p)
  BY DEF Scheduling, opVars
<1>. QED BY <1>2, <1>3, HolderFrame DEF jobVars, execVars

LEMMA DoTimerStep ==
  ASSUME IInv, NEW t \in Threads, NEW q \in Queues, DoTimer(t, q) PROVE IInv'
<1> USE DEF IInv
<1>0. PICK j \in fresh : fresh' = fresh \ {j} /\ timer' = timer \union {<<q, j>>}
  BY DEF DoTimer
<1>1. IsFiniteSet(timer')
  BY <1>0, FS_AddElement DEF LocalOK
<1>2. TypeOK'
  BY <1>0 DEF TypeOK, DoTimer, jobVars, opVars, execVars, history
<1>3. LocalOK'
  BY <1>1 DEF LocalOK, DoTimer, opVars, execVars
<1>4. CountOK' /\ AtMostOneHolder' /\ HeldIffCounted'
  BY TokenFrame DEF DoTimer
<1>. QED BY <1>2, <1>3, <1>4

LEMMA DistributeStep ==
  ASSUME IInv, NEW t \in Threads, Distribute(t) PROVE IInv'
<1> USE DEF IInv
<1>0a. PICK items \in SUBSET timer : \E order \in SetToSeqs(items) :
        timer' = timer \ items /\ due' = [due EXCEPT ![t] = order]
  BY DEF Distribute
<1>0. PICK order \in SetToSeqs(items) :
        timer' = timer \ items /\ due' = [due EXCEPT ![t] = order]
  BY <1>0a
<1>1. order \in Seq(Queues \X Jobs)
  <2>1. IsFiniteSet(items) /\ Cardinality(items) \in Nat
    BY FS_Subset, FS_CardinalityType DEF LocalOK
  <2>2. order \in [1 .. Cardinality(items) -> items]
    BY DEF SetToSeqs
  <2>3. items \subseteq Queues \X Jobs
    BY DEF TypeOK
  <2>4. order \in [1 .. Cardinality(items) -> Queues \X Jobs]
    BY <2>2, <2>3
  <2>. QED BY <2>1, <2>4, SeqDef
<1>2. IsFiniteSet(timer')
  BY <1>0, FS_Subset DEF LocalOK
<1>3. TypeOK'
  BY <1>0, <1>1 DEF TypeOK, Distribute, jobVars, opVars, execVars, history
<1>4. LocalOK'
  BY <1>2 DEF TypeOK, LocalOK, Distribute, opVars, execVars
<1>5. CountOK' /\ AtMostOneHolder' /\ HeldIffCounted'
  BY TokenFrame DEF Distribute
<1>. QED BY <1>3, <1>4, <1>5

LEMMA DistributePushStep ==
  ASSUME IInv, NEW t \in Threads, DistributePush(t) PROVE IInv'
<1> USE DEF IInv
<1>0. due[t] \in Seq(Queues \X Jobs) /\ due[t] # <<>>
  BY DEF DistributePush, TypeOK
<1>1. Head(due[t]) \in Queues \X Jobs /\ Tail(due[t]) \in Seq(Queues \X Jobs)
  BY <1>0, HeadTailProperties
<1>2. PICK q \in Queues, j \in Jobs : q = Head(due[t])[1] /\ j = Head(due[t])[2]
  BY <1>1
<1>3. due' \in [Threads -> Seq(Queues \X Jobs)]
  BY <1>1 DEF TypeOK, DistributePush
<1>4. CASE Alive(q)
  <2>1. PushCount(t, q, j, TRUE) /\ expired' = expired
    BY <1>2, <1>4 DEF DistributePush
  <2>a. /\ jobCount' \in [Queues -> Nat]
        /\ opPc' \in [Threads -> {"idle", "enqueue", "schedule", "uncount"}]
        /\ opQueue' \in [Threads -> Queues \union {NoQueue}]
        /\ opJob' \in [Threads -> Jobs \union {NoJob}]
        /\ opOnly' \in [Threads -> BOOLEAN]
        /\ wasZero' \in [Threads -> BOOLEAN]
    BY <2>1 DEF TypeOK, PushCount
  <2>2. TypeOK'
    BY <1>3, <2>1, <2>a DEF TypeOK, DistributePush, PushCount, execVars
  <2>3. LocalOK'
    BY <2>1, QueuesAssumption
    DEF TypeOK, LocalOK, DistributePush, PushCount, execVars
  <2>4. CountOK' /\ AtMostOneHolder' /\ HeldIffCounted'
    BY <2>1, PushCountStep DEF DistributePush, LocalOK
  <2>. QED BY <2>2, <2>3, <2>4
<1>5. CASE ~Alive(q)
  <2>1. expired' = expired \union {j} /\ UNCHANGED <<jobVars, opVars>>
    BY <1>2, <1>5 DEF DistributePush
  <2>2. TypeOK'
    BY <1>3, <2>1 DEF TypeOK, DistributePush, jobVars, opVars, execVars
  <2>3. LocalOK'
    BY <2>1 DEF LocalOK, DistributePush, opVars, execVars
  <2>4. CountOK' /\ AtMostOneHolder' /\ HeldIffCounted'
    BY <2>1, TokenFrame DEF DistributePush
  <2>. QED BY <2>2, <2>3, <2>4
<1>. QED BY <1>4, <1>5

LEMMA DistributeEndStep ==
  ASSUME IInv, NEW t \in Threads, DistributeEnd(t) PROVE IInv'
<1> USE DEF IInv
<1>1. TypeOK'
  BY DEF TypeOK, DistributeEnd, jobVars, opVars, execVars, history
<1>2. LocalOK'
  BY DEF TypeOK, LocalOK, DistributeEnd, opVars, execVars
<1>3. CountOK' /\ AtMostOneHolder' /\ HeldIffCounted'
  BY TokenFrame DEF DistributeEnd
<1>. QED BY <1>1, <1>2, <1>3

LEMMA ReleaseStep ==
  ASSUME IInv, NEW q \in Queues, Release(q) PROVE IInv'
<1> USE DEF IInv
<1>1. TypeOK'
  BY DEF TypeOK, Release, jobVars, timerVars, opVars, execVars, history
<1>2. LocalOK'
  BY DEF LocalOK, Release, timerVars, opVars, execVars
<1>3. CountOK' /\ AtMostOneHolder' /\ HeldIffCounted'
  BY TokenFrame DEF Release
<1>. QED BY <1>1, <1>2, <1>3

LEMMA EndPostingStep == ASSUME IInv, EndPosting PROVE IInv'
<1> USE DEF IInv
<1>1. TypeOK'
  BY DEF TypeOK, EndPosting, jobVars, timerVars, opVars, execVars, history
<1>2. LocalOK'
  BY DEF LocalOK, EndPosting, timerVars, opVars, execVars
<1>3. CountOK' /\ AtMostOneHolder' /\ HeldIffCounted'
  BY TokenFrame DEF EndPosting
<1>. QED BY <1>1, <1>2, <1>3

LEMMA StutterStep == ASSUME IInv, UNCHANGED vars PROVE IInv'
<1> USE DEF IInv
<1>1. TypeOK' /\ LocalOK'
  BY DEF TypeOK, LocalOK, vars, jobVars, timerVars, opVars, execVars, history
<1>2. CountOK' /\ AtMostOneHolder' /\ HeldIffCounted'
  BY TokenFrame DEF vars
<1>. QED BY <1>1, <1>2

LEMMA NextIInv == IInv /\ [Next]_vars => IInv'
<1> SUFFICES ASSUME IInv, [Next]_vars PROVE IInv'
  OBVIOUS
<1>1. CASE UNCHANGED vars
  BY <1>1, StutterStep
<1>2. ASSUME NEW t \in Threads, Progress(t) PROVE IInv'
  BY <1>2, PushEnqueueStep, PushExecuteStep, PushGlobalStep, ExecutePopAllStep,
     ExecuteStartJobStep, ExecuteEndJobStep, ExecuteSettleStep,
     ExecuteAgainStep, ExecuteYieldStep, ClearUncountStep, DistributePushStep,
     DistributeEndStep
  DEF Progress
<1>3. ASSUME NEW t \in Threads, WorkerPop(t) \/ Distribute(t)
      PROVE  IInv'
  BY <1>3, WorkerPopStep, DistributeStep
<1>4. ASSUME NEW t \in Threads, NEW q \in Queues,
             DoAsync(t, q) \/ DoTimer(t, q) \/ ClearPopAll(t, q)
      PROVE  IInv'
  BY <1>4, DoAsyncStep, DoTimerStep, ClearPopAllStep
<1>5. ASSUME NEW q \in Queues, Release(q) PROVE IInv'
  BY <1>5, ReleaseStep
<1>6. ASSUME EndPosting PROVE IInv'
  BY <1>6, EndPostingStep
<1>. QED BY <1>1, <1>2, <1>3, <1>4, <1>5, <1>6 DEF Next

(* The inductive invariant of Push(), Execute() and ClearJobs().             *)
THEOREM Inductive == Spec => []IInv
  BY InitIInv, NextIInv, PTL DEF Spec

(* Every variable keeps its type; in particular _jobCount never wraps below 0.*)
THEOREM TypeCorrect == Spec => []TypeOK
<1>1. IInv => TypeOK
  BY DEF IInv
<1>. QED BY <1>1, Inductive, PTL

(* A job queue is never executed by two threads at the same time.            *)
THEOREM Serial == Spec => []SerialExecution
<1>1. IInv => SerialExecution
  BY DEF IInv, TypeOK, AtMostOneHolder, SerialExecution
<1>. QED BY <1>1, Inductive, PTL

LEMMA HoldersOne ==
  ASSUME IInv, NEW q \in Queues
  PROVE  /\ Cardinality(Holders(q)) <= 1
         /\ jobCount[q] > 0 => Holders(q) # {}
         /\ jobCount[q] = 0 /\ ~closing => Holders(q) = {}
<1> USE DEF IInv
<1>1. /\ \A t \in Threads : <<"push", t>> \in Holders(q) <=> Scheduling(t, q)
      /\ \A t \in Threads : <<"exec", t>> \in Holders(q) <=> current[t] = q
      /\ \A i \in 1 .. Len(global) : <<"global", i>> \in Holders(q) <=> global[i] = q
      /\ \A h \in Holders(q) :
            \/ \E t \in Threads : h = <<"push", t>> /\ Scheduling(t, q)
            \/ \E t \in Threads : h = <<"exec", t>> /\ current[t] = q
            \/ \E i \in 1 .. Len(global) : h = <<"global", i>> /\ global[i] = q
  <2>1. DOMAIN global = 1 .. Len(global)
    BY LenProperties DEF TypeOK
  <2>. QED BY <2>1 DEF Holders
<1>2. Held(q) <=> Holders(q) # {}
  BY <1>1 DEF Held, InGlobal
<1>3. CASE Holders(q) = {}
  <2>1. Cardinality(Holders(q)) = 0
    BY <1>3, FS_EmptySet
  <2>. QED BY <1>2, <2>1 DEF HeldIffCounted
<1>4. CASE Holders(q) # {}
  <2>1. PICK h : h \in Holders(q)
    BY <1>4
  <2>2. \A g \in Holders(q) : g = h
    BY <1>1, <2>1 DEF AtMostOneHolder, InGlobal
  <2>3. Holders(q) = {h}
    BY <2>1, <2>2
  <2>4. Cardinality(Holders(q)) = 1
    BY <2>3, FS_Singleton
  <2>5. jobCount[q] = 0 /\ ~closing => ~Held(q)
    BY DEF HeldIffCounted
  <2>. QED BY <1>2, <1>4, <2>4, <2>5
<1>. QED BY <1>3, <1>4

(* A queue is never scheduled twice, a queue whose count is positive is      *)
(* scheduled, and while jobs are posted one whose count is zero is not: Push,*)
(* Execute() and ClearJobs(), in a job or from another thread at the end,    *)
(* neither lose it nor queue it twice.                                       *)
THEOREM OncePerQueue == Spec => []ScheduledOnce
<1>1. IInv => ScheduledOnce
  BY HoldersOne DEF ScheduledOnce
<1>. QED BY <1>1, Inductive, PTL

(* A queue that holds jobs stays alive: whoever has to run it refers to it.  *)
THEOREM JobsKeepTheirQueue == Spec => []NoJobDiesWithItsQueue
<1>1. ASSUME IInv, NEW q \in Queues, jobs[q] # <<>> PROVE Alive(q)
  <2> USE <1>1 DEF IInv
  <2>1. jobCount[q] > 0
    <3>1. Len(jobs[q]) > 0
      BY EmptySeq DEF TypeOK
    <3>2. Surplus(q) >= 0
      <4>1. CASE \E t \in Threads : current[t] = q
        BY <4>1 DEF CountOK, TypeOK
      <4>2. CASE \A t \in Threads : current[t] # q
        BY <4>2 DEF CountOK
      <4>. QED BY <4>1, <4>2
    <3>. QED BY <3>1, <3>2, SurplusType, EnqueuingFinite
  <2>2. Held(q)
    BY <2>1 DEF HeldIffCounted
  <2>3. \A t \in Threads : Scheduling(t, q) => opPc[t] # "idle" /\ opQueue[t] = q
    BY DEF Scheduling
  <2>4. InGlobal(q) => q \in Range(global)
    BY LenProperties DEF InGlobal, TypeOK, Range
  <2>. QED BY <2>2, <2>3, <2>4 DEF Held, Alive
<1>2. IInv => NoJobDiesWithItsQueue
  BY <1>1 DEF NoJobDiesWithItsQueue
<1>. QED BY <1>2, Inductive, PTL

-----------------------------------------------------------------------------
(* Sequences of jobs: what is taken from the front and put at the end.       *)
LEMMA HeadTailOfConcat ==
  ASSUME NEW S, NEW x \in Seq(S), NEW y \in Seq(S), x # <<>>
  PROVE  x \o y # <<>> /\ Head(x \o y) = Head(x) /\ Tail(x \o y) = Tail(x) \o y
<1>1. /\ x \o y \in Seq(S) /\ Len(x \o y) = Len(x) + Len(y)
      /\ \A i \in 1 .. Len(x) + Len(y) : (x \o y)[i] = IF i <= Len(x) THEN x[i] ELSE y[i - Len(x)]
  BY ConcatProperties
<1>2. Len(x) \in Nat \ {0} /\ Len(y) \in Nat
  BY EmptySeq, LenProperties
<1>3. x \o y # <<>>
  BY <1>1, <1>2, EmptySeq
<1>4. Head(x \o y) = Head(x)
  <2>1. Head(x \o y) = (x \o y)[1] /\ Head(x) = x[1]
    BY <1>1, <1>3
  <2>. QED BY <1>1, <1>2, <2>1
<1>5. /\ Tail(x) \in Seq(S) /\ Len(Tail(x)) = Len(x) - 1
      /\ \A i \in 1 .. Len(Tail(x)) : Tail(x)[i] = x[i + 1]
  BY HeadTailProperties
<1>6. /\ Tail(x \o y) \in Seq(S) /\ Len(Tail(x \o y)) = Len(x \o y) - 1
      /\ \A i \in 1 .. Len(Tail(x \o y)) : Tail(x \o y)[i] = (x \o y)[i + 1]
  BY <1>1, <1>3, HeadTailProperties
<1>7. /\ Tail(x) \o y \in Seq(S) /\ Len(Tail(x) \o y) = Len(x) - 1 + Len(y)
      /\ \A i \in 1 .. Len(x) - 1 + Len(y) :
           (Tail(x) \o y)[i] = IF i <= Len(x) - 1 THEN Tail(x)[i] ELSE y[i - (Len(x) - 1)]
  BY <1>5, ConcatProperties
<1>8. \A i \in 1 .. Len(x) - 1 + Len(y) : Tail(x \o y)[i] = (Tail(x) \o y)[i]
  <2>1. ASSUME NEW i \in 1 .. Len(x) - 1 + Len(y) PROVE Tail(x \o y)[i] = (Tail(x) \o y)[i]
    <3>1. Tail(x \o y)[i] = (x \o y)[i + 1] /\ i + 1 \in 1 .. Len(x) + Len(y)
      BY <1>1, <1>2, <1>6
    <3>2. CASE i <= Len(x) - 1
      BY <1>1, <1>2, <1>5, <1>7, <3>1, <3>2
    <3>3. CASE i > Len(x) - 1
      <4>1. i + 1 - Len(x) = i - (Len(x) - 1)
        BY <1>2
      <4>2. (x \o y)[i + 1] = y[i + 1 - Len(x)]
        BY <1>1, <1>2, <3>1, <3>3
      <4>3. (Tail(x) \o y)[i] = y[i - (Len(x) - 1)]
        BY <1>2, <1>7, <3>3
      <4>. QED BY <3>1, <4>1, <4>2, <4>3
    <3>. QED BY <1>2, <3>2, <3>3
  <2>. QED BY <2>1
<1>9. Len(Tail(x \o y)) = Len(x) - 1 + Len(y) /\ Len(Tail(x) \o y) = Len(x) - 1 + Len(y)
  BY <1>1, <1>2, <1>6, <1>7
<1>10. Tail(x \o y) = Tail(x) \o y
  BY <1>6, <1>7, <1>8, <1>9, SeqEqual
<1>. QED BY <1>3, <1>4, <1>10

LEMMA PrefixOfConcat ==
  ASSUME NEW S, NEW x \in Seq(S), NEW y \in Seq(S)
  PROVE  Len(x) \in 0 .. Len(x \o y) /\ x \o <<>> = SubSeq(x \o y, 1, Len(x))
<1>1. /\ x \o y \in Seq(S) /\ Len(x \o y) = Len(x) + Len(y)
      /\ \A i \in 1 .. Len(x) + Len(y) : (x \o y)[i] = IF i <= Len(x) THEN x[i] ELSE y[i - Len(x)]
  BY ConcatProperties
<1>2. Len(x) \in Nat /\ Len(y) \in Nat
  BY LenProperties
<1>3. \A i \in 1 .. Len(x) : (x \o y)[i] = x[i] /\ x[i] \in S
  BY <1>1, <1>2, ElementOfSeq
<1>4. /\ SubSeq(x \o y, 1, Len(x)) \in Seq(S)
      /\ Len(SubSeq(x \o y, 1, Len(x))) = (IF 1 <= Len(x) THEN Len(x) - 1 + 1 ELSE 0)
      /\ \A i \in 1 .. Len(x) - 1 + 1 : SubSeq(x \o y, 1, Len(x))[i] = (x \o y)[1 + i - 1]
  BY <1>2, <1>3, SubSeqProperties
<1>5. Len(SubSeq(x \o y, 1, Len(x))) = Len(x) /\ \A i \in 1 .. Len(x) : SubSeq(x \o y, 1, Len(x))[i] = x[i]
  BY <1>2, <1>3, <1>4
<1>6. x = SubSeq(x \o y, 1, Len(x))
  BY <1>4, <1>5, SeqEqual
<1>7. x \o <<>> = x
  BY ConcatEmptySeq
<1>. QED BY <1>1, <1>2, <1>6, <1>7

LEMMA AppendToConcat ==
  ASSUME NEW S, NEW x \in Seq(S), NEW y \in Seq(S), NEW e \in S
  PROVE  x \o Append(y, e) = Append(x \o y, e)
<1>1. <<e>> \in Seq(S) /\ x \o y \in Seq(S)
  BY ConcatProperties
<1>2. Append(y, e) = y \o <<e>> /\ Append(x \o y, e) = (x \o y) \o <<e>>
  BY <1>1, AppendIsConcat
<1>. QED BY <1>1, <1>2, ConcatAssociative

LEMMA RangeOfTail ==
  ASSUME NEW S, NEW x \in Seq(S), x # <<>>
  PROVE  Head(x) \in Range(x) /\ Range(Tail(x)) \subseteq Range(x)
<1>1. /\ Len(x) \in Nat \ {0} /\ DOMAIN x = 1 .. Len(x) /\ Head(x) = x[1]
  BY LenProperties, EmptySeq
<1>2. /\ DOMAIN Tail(x) = 1 .. Len(Tail(x)) /\ Len(Tail(x)) = Len(x) - 1
      /\ \A i \in 1 .. Len(Tail(x)) : Tail(x)[i] = x[i + 1]
  BY HeadTailProperties, LenProperties
<1>3. ASSUME NEW i \in 1 .. Len(Tail(x)) PROVE Tail(x)[i] \in Range(x)
  <2>1. i + 1 \in DOMAIN x
    BY <1>1, <1>2
  <2>. QED BY <1>2, <2>1 DEF Range
<1>. QED BY <1>1, <1>2, <1>3 DEF Range

LEMMA RangeOfConcat ==
  ASSUME NEW S, NEW x \in Seq(S), NEW y \in Seq(S)
  PROVE  Range(x \o y) \subseteq Range(x) \union Range(y)
<1>1. /\ x \o y \in Seq(S) /\ Len(x \o y) = Len(x) + Len(y)
      /\ \A i \in 1 .. Len(x) + Len(y) : (x \o y)[i] = IF i <= Len(x) THEN x[i] ELSE y[i - Len(x)]
  BY ConcatProperties
<1>2. /\ Len(x) \in Nat /\ Len(y) \in Nat /\ DOMAIN x = 1 .. Len(x) /\ DOMAIN y = 1 .. Len(y)
      /\ DOMAIN (x \o y) = 1 .. Len(x) + Len(y)
  BY <1>1, LenProperties
<1>3. ASSUME NEW i \in 1 .. Len(x) + Len(y) PROVE (x \o y)[i] \in Range(x) \union Range(y)
  <2>1. CASE i <= Len(x)
    <3>1. i \in DOMAIN x /\ (x \o y)[i] = x[i]
      BY <1>1, <1>2, <2>1
    <3>. QED BY <3>1 DEF Range
  <2>2. CASE i > Len(x)
    <3>1. i - Len(x) \in DOMAIN y /\ (x \o y)[i] = y[i - Len(x)]
      BY <1>1, <1>2, <2>2
    <3>. QED BY <3>1 DEF Range
  <2>. QED BY <1>2, <2>1, <2>2
<1>. QED BY <1>2, <1>3 DEF Range

-----------------------------------------------------------------------------
(* The refinement.  A job is on its way to a queue in one place - not made,  *)
(* in the timer, in the items of a Distribute(), in a Push() - until it gets *)
(* there, and it never gets there again.                                     *)
Timed(i, j) == i \in timer /\ i[2] = j
IsDue(t, n, j) == n \in 1 .. Len(due[t]) /\ due[t][n][2] = j
Pushing(t, j) == opPc[t] = "enqueue" /\ opJob[t] = j
Arrived(j) ==
    \/ j \in finished
    \/ \E q \in Queues : j \in Range(jobs[q])
    \/ \E t \in Threads : j \in Range(batch[t])

TimedOnce(j) == \A i, k : Timed(i, j) /\ Timed(k, j) => i = k
DueOnce(j) == \A t, u \in Threads : \A n, m \in Nat : IsDue(t, n, j) /\ IsDue(u, m, j) => t = u /\ n = m
PushedOnce(j) == \A t, u \in Threads : Pushing(t, j) /\ Pushing(u, j) => t = u

IsTimed(j) == \E i : Timed(i, j)
IsDueSomewhere(j) == \E t \in Threads : \E n \in Nat : IsDue(t, n, j)
IsPushed(j) == \E t \in Threads : Pushing(t, j)

Apart(j) ==
    /\ j \in fresh => ~IsTimed(j) /\ ~IsDueSomewhere(j) /\ ~IsPushed(j) /\ ~Arrived(j)
    /\ IsTimed(j) => ~IsDueSomewhere(j) /\ ~IsPushed(j) /\ ~Arrived(j)
    /\ IsDueSomewhere(j) => ~IsPushed(j) /\ ~Arrived(j)
    /\ IsPushed(j) => ~Arrived(j)

OnceOK == \A j \in Jobs : Apart(j) /\ TimedOnce(j) /\ DueOnce(j) /\ PushedOnce(j)

OnceOf(j) == Apart(j) /\ TimedOnce(j) /\ DueOnce(j) /\ PushedOnce(j)

(* A job that a step leaves where it is, or takes further than that.         *)
LEMMA JobStays ==
  ASSUME NEW j, OnceOf(j), j \in fresh' => j \in fresh,
         \A i : Timed(i, j)' => Timed(i, j),
         \A t \in Threads : \A n \in Nat : IsDue(t, n, j)' => IsDue(t, n, j),
         \A t \in Threads : Pushing(t, j)' => Pushing(t, j),
         Arrived(j)' => Arrived(j)
  PROVE  OnceOf(j)'
<1>1. /\ IsTimed(j)' => IsTimed(j)
      /\ IsDueSomewhere(j)' => IsDueSomewhere(j)
      /\ IsPushed(j)' => IsPushed(j)
  BY DEF IsTimed, IsDueSomewhere, IsPushed
<1>2. Apart(j)'
  BY <1>1 DEF OnceOf, Apart
<1>3. TimedOnce(j)' /\ DueOnce(j)' /\ PushedOnce(j)'
  BY DEF OnceOf, TimedOnce, DueOnce, PushedOnce
<1>. QED BY <1>2, <1>3 DEF OnceOf

LEMMA QuietOnce ==
  ASSUME OnceOK, UNCHANGED <<fresh, timer, due>>,
         \A t \in Threads : opPc'[t] = "enqueue" => opPc[t] = "enqueue" /\ opJob'[t] = opJob[t],
         \A j \in Jobs : Arrived(j)' => Arrived(j)
  PROVE  OnceOK'
<1>1. ASSUME NEW j \in Jobs PROVE OnceOf(j)'
  <2>1. OnceOf(j)
    BY DEF OnceOK, OnceOf
  <2>2. \A i : Timed(i, j)' => Timed(i, j)
    BY DEF Timed
  <2>3. \A t \in Threads : \A n \in Nat : IsDue(t, n, j)' => IsDue(t, n, j)
    BY DEF IsDue
  <2>4. \A t \in Threads : Pushing(t, j)' => Pushing(t, j)
    BY DEF Pushing
  <2>. QED BY <2>1, <2>2, <2>3, <2>4, JobStays
<1>. QED BY <1>1 DEF OnceOK, OnceOf

LEMMA ArrivedSame ==
  ASSUME UNCHANGED <<jobs, batch, finished>>, NEW j PROVE Arrived(j)' <=> Arrived(j)
  BY DEF Arrived

(* A new job goes to Push() or to the timer.                                 *)
LEMMA DoAsyncOnce ==
  ASSUME IInv, OnceOK, NEW t \in Threads, NEW q \in Queues, DoAsync(t, q) PROVE OnceOK'
<1>0. TypeOK
  BY DEF IInv
<1>1. PICK k \in fresh : fresh' = fresh \ {k} /\ PushCount(t, q, k, FALSE)
  BY DEF DoAsync
<1>2. /\ opPc[t] = "idle" /\ opPc'[t] = "enqueue" /\ opJob'[t] = k
      /\ \A u \in Threads \ {t} : opPc'[u] = opPc[u] /\ opJob'[u] = opJob[u]
      /\ UNCHANGED <<timer, due, jobs, batch, finished>>
  BY <1>0, <1>1 DEF DoAsync, InUserCode, PushCount, TypeOK, timerVars, execVars, history
<1>3. ASSUME NEW j \in Jobs PROVE OnceOf(j)'
  <2>1. OnceOf(j)
    BY DEF OnceOK, OnceOf
  <2>2. /\ \A i : Timed(i, j)' <=> Timed(i, j)
        /\ \A u \in Threads : \A n \in Nat : IsDue(u, n, j)' <=> IsDue(u, n, j)
        /\ Arrived(j)' <=> Arrived(j)
    BY <1>2, ArrivedSame DEF Timed, IsDue
  <2>3. CASE j # k
    <3>1. \A u \in Threads : Pushing(u, j)' => Pushing(u, j)
      BY <1>2, <2>3 DEF Pushing
    <3>. QED BY <1>1, <2>1, <2>2, <3>1, JobStays
  <2>4. CASE j = k
    <3>1. ~IsTimed(j)' /\ ~IsDueSomewhere(j)' /\ ~Arrived(j)' /\ j \notin fresh'
      BY <1>1, <2>1, <2>2, <2>4 DEF OnceOf, Apart, IsTimed, IsDueSomewhere
    <3>2. \A u \in Threads : Pushing(u, j)' => u = t
      BY <1>1, <1>2, <2>1, <2>4 DEF Pushing, OnceOf, Apart, IsPushed
    <3>3. Apart(j)' /\ PushedOnce(j)'
      BY <3>1, <3>2 DEF Apart, PushedOnce
    <3>4. TimedOnce(j)' /\ DueOnce(j)'
      BY <2>1, <2>2 DEF OnceOf, TimedOnce, DueOnce
    <3>. QED BY <3>3, <3>4 DEF OnceOf
  <2>. QED BY <2>3, <2>4
<1>. QED BY <1>3 DEF OnceOK, OnceOf

LEMMA DoTimerOnce ==
  ASSUME IInv, OnceOK, NEW t \in Threads, NEW q \in Queues, DoTimer(t, q) PROVE OnceOK'
<1>1. PICK k \in fresh : fresh' = fresh \ {k} /\ timer' = timer \union {<<q, k>>}
  BY DEF DoTimer
<1>2. UNCHANGED <<due, jobs, batch, finished, opPc, opJob>>
  BY DEF DoTimer, jobVars, opVars, execVars, history
<1>3. ASSUME NEW j \in Jobs PROVE OnceOf(j)'
  <2>1. OnceOf(j)
    BY DEF OnceOK, OnceOf
  <2>2. /\ \A u \in Threads : \A n \in Nat : IsDue(u, n, j)' <=> IsDue(u, n, j)
        /\ \A u \in Threads : Pushing(u, j)' <=> Pushing(u, j)
        /\ Arrived(j)' <=> Arrived(j)
    BY <1>2, ArrivedSame DEF IsDue, Pushing
  <2>3. CASE j # k
    <3>1. \A i : Timed(i, j)' => Timed(i, j)
      BY <1>1, <2>3 DEF Timed
    <3>. QED BY <1>1, <2>1, <2>2, <3>1, JobStays
  <2>4. CASE j = k
    <3>1. ~IsPushed(j)' /\ ~IsDueSomewhere(j)' /\ ~Arrived(j)' /\ j \notin fresh'
      BY <1>1, <2>1, <2>2, <2>4 DEF OnceOf, Apart, IsPushed, IsDueSomewhere
    <3>2. \A i : Timed(i, j)' => i = <<q, k>>
      BY <1>1, <2>1, <2>4 DEF Timed, OnceOf, Apart, IsTimed
    <3>3. Apart(j)' /\ TimedOnce(j)'
      BY <3>1, <3>2 DEF Apart, TimedOnce
    <3>4. PushedOnce(j)' /\ DueOnce(j)'
      BY <2>1, <2>2 DEF OnceOf, PushedOnce, DueOnce
    <3>. QED BY <3>3, <3>4 DEF OnceOf
  <2>. QED BY <2>3, <2>4
<1>. QED BY <1>3 DEF OnceOK, OnceOf

(* The items that are due leave the timer, each of them once.                *)
LEMMA DistributeOnce ==
  ASSUME IInv, OnceOK, NEW t \in Threads, Distribute(t) PROVE OnceOK'
<1>0. TypeOK /\ IsFiniteSet(timer)
  BY DEF IInv, LocalOK
<1>1. PICK items \in SUBSET timer : \E order \in SetToSeqs(items) :
        timer' = timer \ items /\ due' = [due EXCEPT ![t] = order]
  BY DEF Distribute
<1>2. PICK order \in SetToSeqs(items) :
        timer' = timer \ items /\ due' = [due EXCEPT ![t] = order]
  BY <1>1
<1>3. Cardinality(items) \in Nat
  BY <1>0, FS_Subset, FS_CardinalityType
<1>4. /\ order \in [1 .. Cardinality(items) -> items]
      /\ \A n, m \in 1 .. Cardinality(items) : n # m => order[n] # order[m]
  BY DEF SetToSeqs
<1>5. Len(order) = Cardinality(items)
  <2>1. order \in Seq(items)
    BY <1>3, <1>4, SeqDef
  <2>. QED BY <1>3, <1>4, <2>1, LenProperties
<1>6. UNCHANGED <<fresh, jobs, batch, finished, opPc, opJob>>
  BY DEF Distribute, jobVars, opVars, execVars, history
<1>7. due'[t] = order /\ \A u \in Threads \ {t} : due'[u] = due[u]
  BY <1>0, <1>2 DEF TypeOK
<1>8. ASSUME NEW j \in Jobs PROVE OnceOf(j)'
  <2>1. OnceOf(j)
    BY DEF OnceOK, OnceOf
  <2>2. /\ \A u \in Threads : Pushing(u, j)' <=> Pushing(u, j)
        /\ Arrived(j)' <=> Arrived(j)
        /\ \A i : Timed(i, j)' <=> Timed(i, j) /\ i \notin items
    BY <1>2, <1>6, ArrivedSame DEF Pushing, Timed
  <2>3. \A n \in Nat : IsDue(t, n, j)' => n \in 1 .. Cardinality(items) /\ order[n] \in items /\ Timed(order[n], j)
    BY <1>4, <1>5, <1>7 DEF IsDue, Timed
  <2>4. \A u \in Threads \ {t} : \A n \in Nat : IsDue(u, n, j)' <=> IsDue(u, n, j)
    BY <1>7 DEF IsDue
  <2>5. CASE \A n \in Nat : ~IsDue(t, n, j)'
    <3>1. \A u \in Threads : \A n \in Nat : IsDue(u, n, j)' => IsDue(u, n, j)
      BY <2>4, <2>5
    <3>. QED BY <1>6, <2>1, <2>2, <3>1, JobStays
  <2>6. CASE \E n \in Nat : IsDue(t, n, j)'
    <3>1. PICK n \in Nat : IsDue(t, n, j)'
      BY <2>6
    <3>2. Timed(order[n], j) /\ order[n] \in items /\ n \in 1 .. Cardinality(items)
      BY <2>3, <3>1
    <3>3. IsTimed(j)
      BY <3>2 DEF IsTimed
    <3>4. \A i : ~Timed(i, j)'
      BY <2>1, <2>2, <3>2 DEF OnceOf, TimedOnce
    <3>5. j \notin fresh /\ ~IsDueSomewhere(j) /\ ~IsPushed(j) /\ ~Arrived(j)
      BY <2>1, <3>3 DEF OnceOf, Apart
    <3>6. \A m \in Nat : IsDue(t, m, j)' => m = n
      BY <1>4, <2>1, <2>3, <3>2 DEF OnceOf, TimedOnce
    <3>7. \A u \in Threads : \A m \in Nat : IsDue(u, m, j)' => u = t
      BY <2>4, <3>5 DEF IsDueSomewhere
    <3>8. DueOnce(j)'
      BY <3>6, <3>7 DEF DueOnce
    <3>9. ~IsTimed(j)' /\ TimedOnce(j)' /\ PushedOnce(j)' /\ ~IsPushed(j)'
      BY <2>2, <3>4, <3>5 DEF IsTimed, TimedOnce, PushedOnce, IsPushed
    <3>10. Apart(j)'
      BY <1>6, <2>2, <3>5, <3>9 DEF Apart
    <3>. QED BY <3>8, <3>9, <3>10 DEF OnceOf
  <2>. QED BY <2>5, <2>6
<1>. QED BY <1>8 DEF OnceOK, OnceOf

(* The next item goes to its queue, or away with its queue.                  *)
LEMMA DistributePushOnce ==
  ASSUME IInv, OnceOK, NEW t \in Threads, DistributePush(t) PROVE OnceOK'
<1>0. TypeOK
  BY DEF IInv
<1>1. due[t] \in Seq(Queues \X Jobs) /\ due[t] # <<>> /\ opPc[t] = "idle"
  BY <1>0 DEF DistributePush, TypeOK
<1>2. /\ Len(Tail(due[t])) = Len(due[t]) - 1 /\ Len(due[t]) \in Nat \ {0}
      /\ \A n \in 1 .. Len(Tail(due[t])) : Tail(due[t])[n] = due[t][n + 1]
      /\ Head(due[t]) = due[t][1]
  BY <1>1, HeadTailProperties, EmptySeq
<1>3. due'[t] = Tail(due[t]) /\ \A u \in Threads \ {t} : due'[u] = due[u]
  BY <1>0 DEF TypeOK, DistributePush
<1>4. PICK k : k = Head(due[t])[2]
  OBVIOUS
<1>5. /\ UNCHANGED <<fresh, timer, jobs, batch, finished>>
      /\ \A u \in Threads \ {t} : opPc'[u] = opPc[u] /\ opJob'[u] = opJob[u]
      /\ opPc'[t] = "enqueue" => opJob'[t] = k
  BY <1>0, <1>1, <1>4 DEF DistributePush, PushCount, TypeOK, jobVars, opVars, execVars
<1>6. ASSUME NEW j \in Jobs PROVE OnceOf(j)'
  <2>1. OnceOf(j)
    BY DEF OnceOK, OnceOf
  <2>2. /\ \A i : Timed(i, j)' <=> Timed(i, j)
        /\ Arrived(j)' <=> Arrived(j)
    BY <1>5, ArrivedSame DEF Timed
  <2>3. \A n \in Nat : IsDue(t, n, j)' => IsDue(t, n + 1, j) /\ n >= 1
    BY <1>2, <1>3 DEF IsDue
  <2>4. \A u \in Threads \ {t} : \A n \in Nat : IsDue(u, n, j)' <=> IsDue(u, n, j)
    BY <1>3 DEF IsDue
  <2>5. IsDueSomewhere(j)' => IsDueSomewhere(j)
    BY <2>3, <2>4 DEF IsDueSomewhere
  <2>6. DueOnce(j)'
    <3>1. ASSUME NEW u \in Threads, NEW v \in Threads, NEW n \in Nat, NEW m \in Nat, IsDue(u, n, j)', IsDue(v, m, j)'
          PROVE  u = v /\ n = m
      <4>1. PICK n2 \in Nat : IsDue(u, n2, j) /\ (IF u = t THEN n2 = n + 1 ELSE n2 = n)
        BY <2>3, <2>4, <3>1
      <4>2. PICK m2 \in Nat : IsDue(v, m2, j) /\ (IF v = t THEN m2 = m + 1 ELSE m2 = m)
        BY <2>3, <2>4, <3>1
      <4>3. u = v /\ n2 = m2
        BY <2>1, <4>1, <4>2 DEF OnceOf, DueOnce
      <4>. QED BY <4>1, <4>2, <4>3
    <3>. QED BY <3>1 DEF DueOnce
  <2>7. CASE j = k
    <3>1. IsDue(t, 1, j)
      BY <1>2, <1>4, <2>7 DEF IsDue
    <3>2. IsDueSomewhere(j)
      BY <3>1 DEF IsDueSomewhere
    <3>3. j \notin fresh /\ ~IsTimed(j) /\ ~IsPushed(j) /\ ~Arrived(j)
      BY <2>1, <3>2 DEF OnceOf, Apart
    <3>4. ~IsDueSomewhere(j)'
      <4>1. ASSUME NEW n \in Nat, IsDue(t, n, j)' PROVE FALSE
        <5>1. IsDue(t, n + 1, j) /\ n >= 1 /\ n + 1 \in Nat
          BY <2>3, <4>1
        <5>2. n + 1 = 1
          BY <2>1, <3>1, <5>1 DEF OnceOf, DueOnce
        <5>. QED BY <5>1, <5>2
      <4>2. ASSUME NEW u \in Threads \ {t}, NEW n \in Nat, IsDue(u, n, j)' PROVE FALSE
        BY <2>1, <2>4, <3>1, <4>2 DEF OnceOf, DueOnce
      <4>. QED BY <4>1, <4>2 DEF IsDueSomewhere
    <3>5. \A u \in Threads : Pushing(u, j)' => u = t
      BY <1>5, <3>3 DEF Pushing, IsPushed
    <3>6. Apart(j)' /\ PushedOnce(j)' /\ TimedOnce(j)'
      BY <1>5, <2>1, <2>2, <3>3, <3>4, <3>5 DEF Apart, PushedOnce, TimedOnce, IsTimed, OnceOf
    <3>. QED BY <2>6, <3>6 DEF OnceOf
  <2>8. CASE j # k
    <3>1. \A u \in Threads : Pushing(u, j)' => Pushing(u, j)
      BY <1>5, <2>8 DEF Pushing
    <3>2. IsTimed(j)' => IsTimed(j)
      BY <2>2 DEF IsTimed
    <3>3. IsPushed(j)' => IsPushed(j)
      BY <3>1 DEF IsPushed
    <3>4. Apart(j)'
      BY <1>5, <2>1, <2>2, <2>5, <3>2, <3>3 DEF OnceOf, Apart
    <3>5. TimedOnce(j)' /\ PushedOnce(j)'
      BY <2>1, <2>2, <3>1 DEF OnceOf, TimedOnce, PushedOnce
    <3>. QED BY <2>6, <3>4, <3>5 DEF OnceOf
  <2>. QED BY <2>7, <2>8
<1>. QED BY <1>6 DEF OnceOK, OnceOf

(* The job arrives.                                                          *)
LEMMA PushEnqueueOnce ==
  ASSUME IInv, OnceOK, NEW t \in Threads, PushEnqueue(t) PROVE OnceOK'
<1>0. TypeOK /\ opQueue[t] \in Queues /\ opJob[t] \in Jobs /\ opPc[t] = "enqueue"
  BY DEF IInv, LocalOK, PushEnqueue
<1>1. /\ UNCHANGED <<fresh, timer, due, batch, finished>>
      /\ \A u \in Threads : opPc'[u] = "enqueue" => u # t /\ opPc[u] = "enqueue" /\ opJob'[u] = opJob[u]
  BY <1>0 DEF PushEnqueue, Return, TypeOK, timerVars, execVars, history
<1>2. \A q \in Queues : Range(jobs'[q]) \subseteq Range(jobs[q]) \union {opJob[t]}
  <2>1. ASSUME NEW q \in Queues PROVE Range(Append(jobs[q], opJob[t])) \subseteq Range(jobs[q]) \union {opJob[t]}
    <3>1. jobs[q] \in Seq(Jobs)
      BY <1>0 DEF TypeOK
    <3>2. DOMAIN jobs[q] = 1 .. Len(jobs[q]) /\ DOMAIN Append(jobs[q], opJob[t]) = 1 .. Len(jobs[q]) + 1 /\ Len(jobs[q]) \in Nat
      BY <1>0, <3>1, AppendProperties, LenProperties
    <3>. QED BY <1>0, <3>1, <3>2, AppendProperties DEF Range
  <2>. QED BY <1>0, <2>1 DEF PushEnqueue, TypeOK
<1>3. ASSUME NEW j \in Jobs PROVE OnceOf(j)'
  <2>1. OnceOf(j)
    BY DEF OnceOK, OnceOf
  <2>2. /\ \A i : Timed(i, j)' <=> Timed(i, j)
        /\ \A u \in Threads : \A n \in Nat : IsDue(u, n, j)' <=> IsDue(u, n, j)
        /\ \A u \in Threads : Pushing(u, j)' => Pushing(u, j) /\ u # t
    BY <1>1 DEF Timed, IsDue, Pushing
  <2>3. CASE j # opJob[t]
    <3>1. Arrived(j)' => Arrived(j)
      BY <1>1, <1>2, <2>3 DEF Arrived
    <3>. QED BY <1>1, <2>1, <2>2, <3>1, JobStays
  <2>4. CASE j = opJob[t]
    <3>1. Pushing(t, j) /\ IsPushed(j)
      BY <1>0, <2>4 DEF Pushing, IsPushed
    <3>2. j \notin fresh' /\ ~IsTimed(j)' /\ ~IsDueSomewhere(j)'
      BY <1>1, <2>1, <2>2, <3>1 DEF OnceOf, Apart, IsTimed, IsDueSomewhere
    <3>3. \A u \in Threads : ~Pushing(u, j)'
      BY <2>1, <2>2, <3>1 DEF OnceOf, PushedOnce
    <3>4. Apart(j)' /\ PushedOnce(j)'
      BY <3>2, <3>3 DEF Apart, PushedOnce, IsPushed
    <3>5. TimedOnce(j)' /\ DueOnce(j)'
      BY <2>1, <2>2 DEF OnceOf, TimedOnce, DueOnce
    <3>. QED BY <3>4, <3>5 DEF OnceOf
  <2>. QED BY <2>3, <2>4
<1>. QED BY <1>3 DEF OnceOK, OnceOf

(* ClearJobs() takes the listed jobs away.                                   *)
LEMMA ClearOnce ==
  ASSUME IInv, OnceOK, NEW t \in Threads, NEW q \in Queues, ClearPopAll(t, q) PROVE OnceOK'
<1>0. TypeOK
  BY DEF IInv
<1>1. /\ UNCHANGED <<fresh, timer, due, opJob, finished, batch>>
      /\ \A u \in Threads : opPc'[u] = "enqueue" => opPc[u] = "enqueue"
      /\ \A p \in Queues : jobs'[p] = jobs[p] \/ jobs'[p] = <<>>
  BY <1>0 DEF ClearPopAll, TypeOK, timerVars, execVars
<1>2. Range(<<>>) = {}
  BY DEF Range
<1>3. ASSUME NEW j \in Jobs, Arrived(j)' PROVE Arrived(j)
  BY <1>1, <1>2, <1>3 DEF Arrived
<1>. QED BY <1>1, <1>3, QuietOnce

(* The steps of Execute() take jobs away, one after another.                 *)
LEMMA TakenOnce ==
  ASSUME IInv, OnceOK, NEW t \in Threads, ExecutePopAll(t) \/ ExecuteEndJob(t) PROVE OnceOK'
<1>0. TypeOK /\ current[t] \in Queues
  BY DEF IInv, TypeOK, LocalOK, ExecutePopAll, ExecuteEndJob
<1>1. UNCHANGED <<fresh, timer, due, opJob>> /\ \A u \in Threads : opPc'[u] = "enqueue" => opPc[u] = "enqueue"
  BY <1>0 DEF ExecutePopAll, ExecuteEndJob, TypeOK, timerVars, opVars, execVars, history
<1>2. Range(<<>>) = {}
  BY DEF Range
<1>3. ASSUME NEW j \in Jobs, Arrived(j)' PROVE Arrived(j)
  <2>1. CASE ExecutePopAll(t)
    <3>1. /\ finished' = finished
          /\ \A q \in Queues : jobs'[q] = jobs[q] \/ jobs'[q] = <<>>
          /\ \A u \in Threads : batch'[u] = batch[u] \/ batch'[u] = jobs[current[t]]
      BY <1>0, <2>1 DEF ExecutePopAll, TypeOK, history
    <3>. QED BY <1>0, <1>2, <1>3, <3>1 DEF Arrived
  <2>2. CASE ExecuteEndJob(t)
    <3>1. batch[t] \in Seq(Jobs) /\ batch[t] # <<>>
      BY <2>2 DEF IInv, TypeOK, LocalOK, ExecuteEndJob
    <3>2. Head(batch[t]) \in Range(batch[t]) /\ Range(Tail(batch[t])) \subseteq Range(batch[t])
      BY <3>1, RangeOfTail
    <3>3. /\ jobs' = jobs /\ finished' = finished \union {Head(batch[t])}
          /\ \A u \in Threads : batch'[u] = batch[u] \/ (u = t /\ batch'[u] = Tail(batch[t]))
      BY <1>0, <2>2 DEF ExecuteEndJob, TypeOK, jobVars
    <3>. QED BY <1>3, <3>2, <3>3 DEF Arrived
  <2>. QED BY <2>1, <2>2
<1>. QED BY <1>1, <1>3, QuietOnce

LEMMA OtherOnce ==
  ASSUME IInv, OnceOK, UNCHANGED <<fresh, timer, due, jobs, batch, finished>>,
         \A t \in Threads : opPc'[t] = "enqueue" => opPc[t] = "enqueue" /\ opJob'[t] = opJob[t]
  PROVE  OnceOK'
  BY ArrivedSame, QuietOnce

LEMMA InitOnce == Init => OnceOK
<1>. SUFFICES ASSUME Init, NEW j \in Jobs PROVE OnceOf(j)
  BY DEF OnceOK, OnceOf
<1>1. ~IsTimed(j) /\ TimedOnce(j)
  BY DEF Init, IsTimed, TimedOnce, Timed
<1>2. ~IsDueSomewhere(j) /\ DueOnce(j)
  BY DEF Init, IsDueSomewhere, DueOnce, IsDue
<1>3. ~IsPushed(j) /\ PushedOnce(j)
  BY DEF Init, IsPushed, PushedOnce, Pushing
<1>4. ~Arrived(j)
  BY DEF Init, Arrived, Range
<1>. QED BY <1>1, <1>2, <1>3, <1>4 DEF OnceOf, Apart

LEMMA NextOnce == IInv /\ OnceOK /\ [Next]_vars => OnceOK'
<1>. SUFFICES ASSUME IInv, OnceOK, [Next]_vars PROVE OnceOK'
  OBVIOUS
<1>0. TypeOK
  BY DEF IInv
<1>1. CASE UNCHANGED vars
  BY <1>1, OtherOnce DEF vars, jobVars, timerVars, opVars, execVars, history
<1>2. ASSUME NEW t \in Threads, Progress(t) PROVE OnceOK'
  <2>1. CASE PushEnqueue(t)
    BY <2>1, PushEnqueueOnce
  <2>2. CASE ExecutePopAll(t) \/ ExecuteEndJob(t)
    BY <2>2, TakenOnce
  <2>3. CASE DistributePush(t)
    BY <2>3, DistributePushOnce
  <2>4. CASE PushExecute(t) \/ PushGlobal(t) \/ ClearUncount(t)
    <3>1. UNCHANGED <<fresh, timer, due, jobs, batch, finished>>
      BY <2>4 DEF PushExecute, PushGlobal, ClearUncount, jobVars, timerVars, execVars, history
    <3>2. \A u \in Threads : opPc'[u] = "enqueue" => opPc[u] = "enqueue" /\ opJob'[u] = opJob[u]
      BY <1>0, <2>4 DEF PushExecute, PushGlobal, ClearUncount, Return, TypeOK
    <3>. QED BY <3>1, <3>2, OtherOnce
  <2>5. CASE ExecuteStartJob(t) \/ ExecuteSettle(t) \/ ExecuteAgain(t) \/ ExecuteYield(t) \/ DistributeEnd(t)
    BY <2>5, OtherOnce DEF ExecuteStartJob, ExecuteSettle, ExecuteAgain, ExecuteYield, DistributeEnd,
                           jobVars, timerVars, opVars, execVars, history
  <2>. QED BY <1>2, <2>1, <2>2, <2>3, <2>4, <2>5 DEF Progress
<1>3. ASSUME NEW t \in Threads, WorkerPop(t) PROVE OnceOK'
  BY <1>3, OtherOnce DEF WorkerPop, jobVars, timerVars, opVars, history
<1>4. ASSUME NEW t \in Threads, Distribute(t) PROVE OnceOK'
  BY <1>4, DistributeOnce
<1>5. ASSUME NEW t \in Threads, NEW q \in Queues, DoAsync(t, q) \/ DoTimer(t, q) \/ ClearPopAll(t, q) PROVE OnceOK'
  BY <1>5, DoAsyncOnce, DoTimerOnce, ClearOnce
<1>6. CASE EndPosting \/ \E q \in Queues : Release(q)
  BY <1>6, OtherOnce DEF EndPosting, Release, jobVars, timerVars, opVars, execVars, history
<1>. QED BY <1>1, <1>2, <1>3, <1>4, <1>5, <1>6 DEF Next

(* A job reaches a queue at most once, through Push() or through the timer.  *)
THEOREM PostedOnce == Spec => [](IInv /\ OnceOK)
<1>1. Init => IInv /\ OnceOK
  BY InitIInv, InitOnce
<1>2. (IInv /\ OnceOK) /\ [Next]_vars => (IInv /\ OnceOK)'
  BY NextIInv, NextOnce
<1>. QED BY <1>1, <1>2, PTL DEF Spec

-----------------------------------------------------------------------------
(* The mailbox of a queue that a thread executes, and of one nobody executes.*)
Rest(t) == IF execPc[t] = "job" THEN Tail(batch[t]) ELSE batch[t]
InHand(t) == IF execPc[t] = "job" THEN Head(batch[t]) ELSE NoJob

LEMMA ExecutedMailbox ==
  ASSUME AtMostOneHolder, NEW q \in Queues, NEW t \in Threads, current[t] = q
  PROVE  Waiting(q) = Rest(t) \o jobs[q] /\ RunningJob(q) = InHand(t)
<1>1. Executor(q) = {t}
  BY DEF AtMostOneHolder, Executor
<1>2. \A S : S = {t} => (CHOOSE u \in S : TRUE) = t
  OBVIOUS
<1>3. Executor(q) # {} /\ (CHOOSE u \in Executor(q) : TRUE) = t
  BY <1>1, <1>2
<1>4. Waiting(q) = Rest(t) \o jobs[q]
  BY <1>3 DEF Waiting, Rest
<1>5. {u \in Executor(q) : execPc[u] = "job"} = (IF execPc[t] = "job" THEN {t} ELSE {})
  BY <1>1
<1>6. RunningJob(q) = InHand(t)
  BY <1>2, <1>5 DEF RunningJob, InHand
<1>. QED BY <1>4, <1>6

LEMMA IdleMailbox ==
  ASSUME TypeOK, NEW q \in Queues, \A t \in Threads : current[t] # q
  PROVE  Waiting(q) = jobs[q] /\ RunningJob(q) = NoJob
<1>1. Executor(q) = {}
  BY DEF Executor
<1>2. <<>> \o jobs[q] = jobs[q]
  BY ConcatEmptySeq DEF TypeOK
<1>. QED BY <1>1, <1>2 DEF Waiting, RunningJob

LEMMA ExecutedMailboxNext ==
  ASSUME AtMostOneHolder', NEW q \in Queues, NEW t \in Threads, current'[t] = q
  PROVE  Waiting(q)' = Rest(t)' \o jobs'[q] /\ RunningJob(q)' = InHand(t)'
<1>1. Executor(q)' = {t}
  BY DEF AtMostOneHolder, Executor
<1>2. \A S : S = {t} => (CHOOSE u \in S : TRUE) = t
  OBVIOUS
<1>3. Executor(q)' # {} /\ (CHOOSE u \in Executor(q)' : TRUE) = t
  BY <1>1, <1>2
<1>4. Waiting(q)' = Rest(t)' \o jobs'[q]
  BY <1>3 DEF Waiting, Rest
<1>5. {u \in Executor(q)' : execPc'[u] = "job"} = (IF execPc'[t] = "job" THEN {t} ELSE {})
  BY <1>1
<1>6. RunningJob(q)' = InHand(t)'
  BY <1>2, <1>5 DEF RunningJob, InHand
<1>. QED BY <1>4, <1>6

LEMMA IdleMailboxNext ==
  ASSUME TypeOK', NEW q \in Queues, \A t \in Threads : current'[t] # q
  PROVE  Waiting(q)' = jobs'[q] /\ RunningJob(q)' = NoJob
<1>1. Executor(q)' = {}
  BY DEF Executor
<1>2. <<>> \o jobs'[q] = jobs'[q]
  BY ConcatEmptySeq DEF TypeOK
<1>. QED BY <1>1, <1>2 DEF Waiting, RunningJob

(* A queue that a step leaves alone, or hands over with nothing taken out.   *)
LEMMA MailboxSame ==
  ASSUME IInv, IInv', NEW q \in Queues, jobs'[q] = jobs[q],
         \A t \in Threads : current[t] = q =>
            IF current'[t] = q THEN Rest(t)' = Rest(t) /\ InHand(t)' = InHand(t)
                               ELSE Rest(t) = <<>> /\ InHand(t) = NoJob,
         \A t \in Threads : current'[t] = q /\ current[t] # q => Rest(t)' = <<>> /\ InHand(t)' = NoJob
  PROVE  Waiting(q)' = Waiting(q) /\ RunningJob(q)' = RunningJob(q)
<1>0. TypeOK /\ TypeOK' /\ AtMostOneHolder /\ AtMostOneHolder'
  BY DEF IInv
<1>1. <<>> \o jobs[q] = jobs[q]
  BY <1>0, ConcatEmptySeq DEF TypeOK
<1>2. PICK w, r : /\ w = Waiting(q) /\ r = RunningJob(q)
                  /\ \A t \in Threads : current[t] = q => w = Rest(t) \o jobs[q] /\ r = InHand(t)
                  /\ (\A t \in Threads : current[t] # q) => w = jobs[q] /\ r = NoJob
  BY <1>0, ExecutedMailbox, IdleMailbox
<1>5. ASSUME \A t \in Threads : current[t] = q => current'[t] # q PROVE w = jobs[q] /\ r = NoJob
  <2>1. CASE \E t \in Threads : current[t] = q
    <3>1. PICK t \in Threads : current[t] = q
      BY <2>1
    <3>2. Rest(t) = <<>> /\ InHand(t) = NoJob
      BY <1>5, <3>1
    <3>. QED BY <1>1, <1>2, <3>1, <3>2
  <2>. QED BY <1>2, <2>1
<1>3. CASE \E t \in Threads : current'[t] = q
  <2>1. PICK t \in Threads : current'[t] = q
    BY <1>3
  <2>2. Waiting(q)' = Rest(t)' \o jobs[q] /\ RunningJob(q)' = InHand(t)'
    BY <1>0, <2>1, ExecutedMailboxNext
  <2>3. CASE current[t] = q
    BY <1>2, <2>1, <2>2, <2>3
  <2>4. CASE current[t] # q
    <3>1. Waiting(q)' = jobs[q] /\ RunningJob(q)' = NoJob
      BY <1>1, <2>1, <2>2, <2>4
    <3>2. \A u \in Threads : current[u] = q => current'[u] # q
      BY <1>0, <2>1, <2>4 DEF AtMostOneHolder
    <3>. QED BY <1>2, <1>5, <3>1, <3>2
  <2>. QED BY <2>3, <2>4
<1>4. CASE \A t \in Threads : current'[t] # q
  <2>1. Waiting(q)' = jobs[q] /\ RunningJob(q)' = NoJob
    BY <1>0, <1>4, IdleMailboxNext
  <2>. QED BY <1>2, <1>4, <1>5, <2>1
<1>. QED BY <1>3, <1>4

(* Each step of the threads is a step of the actors, or none.                *)
Quiet == UNCHANGED finished /\ \A q \in Queues : Waiting(q)' = Waiting(q) /\ RunningJob(q)' = RunningJob(q)

LEMMA QuietIsStutter == Quiet => UNCHANGED Actors!vars
  BY DEF Quiet, Actors!vars

(* Nothing is taken out by a thread outside its jobs.                        *)
LEMMA EmptyHands ==
  ASSUME IInv, NEW t \in Threads, execPc[t] \in {"idle", "pop", "time"}
  PROVE  batch[t] = <<>> /\ Rest(t) = <<>> /\ InHand(t) = NoJob
<1>1. batch[t] \in Seq(Jobs) /\ Len(batch[t]) <= 0
  BY DEF IInv, TypeOK, LocalOK
<1>2. batch[t] = <<>>
  BY <1>1, EmptySeq, LenProperties
<1>. QED BY <1>2 DEF Rest, InHand

LEMMA HandsFrame ==
  ASSUME NEW t, execPc'[t] = execPc[t], batch'[t] = batch[t]
  PROVE  Rest(t)' = Rest(t) /\ InHand(t)' = InHand(t)
  BY DEF Rest, InHand

LEMMA CallSteps ==
  ASSUME IInv, IInv', UNCHANGED <<jobs, execVars, finished>>
  PROVE  Quiet
<1>1. ASSUME NEW q \in Queues PROVE Waiting(q)' = Waiting(q) /\ RunningJob(q)' = RunningJob(q)
  BY HandsFrame, MailboxSame DEF execVars
<1>. QED BY <1>1 DEF Quiet

(* A queue is taken up, or put down, with nothing in hand.                   *)
LEMMA HandOver ==
  ASSUME IInv, IInv', NEW t \in Threads, UNCHANGED <<jobs, batch, finished>>,
         \A u \in Threads \ {t} : execPc'[u] = execPc[u] /\ current'[u] = current[u],
         batch[t] = <<>>, execPc[t] # "job", execPc'[t] # "job"
  PROVE  Quiet
<1>1. Rest(t) = <<>> /\ InHand(t) = NoJob /\ Rest(t)' = <<>> /\ InHand(t)' = NoJob
  BY DEF Rest, InHand
<1>2. \A u \in Threads \ {t} : Rest(u)' = Rest(u) /\ InHand(u)' = InHand(u)
  BY HandsFrame
<1>3. ASSUME NEW q \in Queues PROVE Waiting(q)' = Waiting(q) /\ RunningJob(q)' = RunningJob(q)
  BY <1>1, <1>2, MailboxSame
<1>. QED BY <1>3 DEF Quiet

(* What the other queues see of a step of Execute() on queue q.              *)
LEMMA OtherQueues ==
  ASSUME IInv, IInv', NEW t \in Threads, NEW q \in Queues, current[t] = q, UNCHANGED current,
         \A u \in Threads \ {t} : execPc'[u] = execPc[u] /\ batch'[u] = batch[u],
         NEW p \in Queues, p # q, jobs'[p] = jobs[p]
  PROVE  Waiting(p)' = Waiting(p) /\ RunningJob(p)' = RunningJob(p)
<1>1. \A u \in Threads : current[u] = p => Rest(u)' = Rest(u) /\ InHand(u)' = InHand(u)
  BY HandsFrame
<1>. QED BY <1>1, MailboxSame

LEMMA ExecutedQueue ==
  ASSUME IInv, IInv', NEW t \in Threads, NEW q \in Queues, current[t] = q, UNCHANGED current
  PROVE  /\ Waiting(q) = Rest(t) \o jobs[q] /\ RunningJob(q) = InHand(t)
         /\ Waiting(q)' = Rest(t)' \o jobs'[q] /\ RunningJob(q)' = InHand(t)'
  BY ExecutedMailbox, ExecutedMailboxNext DEF IInv

LEMMA PopAllQuiet ==
  ASSUME IInv, IInv', NEW t \in Threads, ExecutePopAll(t) PROVE Quiet
<1>0. TypeOK
  BY DEF IInv
<1>1. PICK q \in Queues : q = current[t]
  BY DEF IInv, TypeOK, LocalOK, ExecutePopAll
<1>2. /\ UNCHANGED <<current, finished>> /\ jobs'[q] = <<>> /\ batch'[t] = jobs[q] /\ execPc'[t] = "next"
      /\ \A p \in Queues \ {q} : jobs'[p] = jobs[p]
      /\ \A u \in Threads \ {t} : execPc'[u] = execPc[u] /\ batch'[u] = batch[u]
  BY <1>0, <1>1 DEF ExecutePopAll, TypeOK, history
<1>3. Rest(t) = <<>> /\ InHand(t) = NoJob
  BY EmptyHands DEF ExecutePopAll
<1>4. Rest(t)' = jobs[q] /\ InHand(t)' = NoJob
  BY <1>2 DEF Rest, InHand
<1>5. jobs[q] \o <<>> = jobs[q] /\ <<>> \o jobs[q] = jobs[q]
  BY <1>0, ConcatEmptySeq DEF TypeOK
<1>6. Waiting(q)' = Waiting(q) /\ RunningJob(q)' = RunningJob(q)
  <2>1. /\ Waiting(q) = Rest(t) \o jobs[q] /\ RunningJob(q) = InHand(t)
        /\ Waiting(q)' = Rest(t)' \o jobs'[q] /\ RunningJob(q)' = InHand(t)'
    BY <1>1, <1>2, ExecutedQueue
  <2>2. Waiting(q) = <<>> \o jobs[q] /\ Waiting(q)' = jobs[q] \o <<>>
    BY <1>2, <1>3, <1>4, <2>1
  <2>. QED BY <1>3, <1>4, <1>5, <2>1, <2>2
<1>7. \A p \in Queues : p # q => Waiting(p)' = Waiting(p) /\ RunningJob(p)' = RunningJob(p)
  BY <1>1, <1>2, OtherQueues
<1>. QED BY <1>2, <1>6, <1>7 DEF Quiet

LEMMA StartIsStart ==
  ASSUME IInv, IInv', NEW t \in Threads, ExecuteStartJob(t) PROVE Actors!Next
<1>0. TypeOK
  BY DEF IInv
<1>1. PICK q \in Queues : q = current[t]
  BY DEF IInv, TypeOK, LocalOK, ExecuteStartJob
<1>2. /\ UNCHANGED <<current, finished, jobs, batch>> /\ execPc[t] = "next" /\ execPc'[t] = "job" /\ batch[t] # <<>>
      /\ \A u \in Threads \ {t} : execPc'[u] = execPc[u]
  BY <1>0 DEF ExecuteStartJob, TypeOK, history, jobVars
<1>3. Rest(t) = batch[t] /\ InHand(t) = NoJob /\ Rest(t)' = Tail(batch[t]) /\ InHand(t)' = Head(batch[t])
  BY <1>2 DEF Rest, InHand
<1>4. /\ Waiting(q) = batch[t] \o jobs[q] /\ RunningJob(q) = NoJob
      /\ Waiting(q)' = Tail(batch[t]) \o jobs[q] /\ RunningJob(q)' = Head(batch[t])
  BY <1>1, <1>2, <1>3, ExecutedQueue
<1>5. \A p \in Queues : p # q => Waiting(p)' = Waiting(p) /\ RunningJob(p)' = RunningJob(p)
  BY <1>1, <1>2, OtherQueues
<1>6. /\ Waiting(q) # <<>> /\ RunningJob(q)' = Head(Waiting(q)) /\ Waiting(q)' = Tail(Waiting(q))
  <2>1. batch[t] \in Seq(Jobs) /\ jobs[q] \in Seq(Jobs)
    BY <1>0 DEF TypeOK
  <2>2. PICK x, y : x = batch[t] /\ y = jobs[q]
    OBVIOUS
  <2>3. x \o y # <<>> /\ Head(x \o y) = Head(x) /\ Tail(x \o y) = Tail(x) \o y
    BY <1>2, <2>1, <2>2, HeadTailOfConcat
  <2>. QED BY <1>4, <2>2, <2>3
<1>7. Actors!Start(q)
  BY <1>2, <1>4, <1>5, <1>6 DEF Actors!Start
<1>. QED BY <1>7 DEF Actors!Next

LEMMA EndIsFinish ==
  ASSUME IInv, IInv', NEW t \in Threads, ExecuteEndJob(t) PROVE Actors!Next
<1>0. TypeOK
  BY DEF IInv
<1>1. PICK q \in Queues : q = current[t]
  BY DEF IInv, TypeOK, LocalOK, ExecuteEndJob
<1>2. /\ UNCHANGED <<current, jobs>> /\ execPc[t] = "job" /\ execPc'[t] = "next" /\ batch[t] # <<>>
      /\ batch'[t] = Tail(batch[t]) /\ finished' = finished \union {Head(batch[t])}
      /\ \A u \in Threads \ {t} : execPc'[u] = execPc[u] /\ batch'[u] = batch[u]
  BY <1>0 DEF ExecuteEndJob, TypeOK, jobVars, IInv, LocalOK
<1>3. Rest(t) = Tail(batch[t]) /\ InHand(t) = Head(batch[t]) /\ Rest(t)' = Tail(batch[t]) /\ InHand(t)' = NoJob
  BY <1>2 DEF Rest, InHand
<1>4. /\ Waiting(q)' = Waiting(q) /\ RunningJob(q) = Head(batch[t]) /\ RunningJob(q)' = NoJob
  BY <1>1, <1>2, <1>3, ExecutedQueue
<1>5. \A p \in Queues : p # q => Waiting(p)' = Waiting(p) /\ RunningJob(p)' = RunningJob(p)
  BY <1>1, <1>2, OtherQueues
<1>6. Head(batch[t]) # NoJob
  <2>1. batch[t] \in Seq(Jobs)
    BY <1>0 DEF TypeOK
  <2>. QED BY <1>2, <2>1, HeadTailProperties, JobsAssumption
<1>7. Actors!Finish(q)
  BY <1>2, <1>4, <1>5, <1>6 DEF Actors!Finish
<1>. QED BY <1>7 DEF Actors!Next

(* The jobs not taken out are dropped; those that are in hand stay.          *)
LEMMA ClearIsClear ==
  ASSUME IInv, IInv', NEW t \in Threads, NEW q \in Queues, ClearPopAll(t, q) PROVE Actors!Next
<1>0. TypeOK /\ TypeOK' /\ AtMostOneHolder
  BY DEF IInv
<1>1. /\ UNCHANGED <<current, finished, execPc, batch>> /\ jobs'[q] = <<>>
      /\ \A p \in Queues \ {q} : jobs'[p] = jobs[p]
  BY <1>0 DEF ClearPopAll, TypeOK, execVars
<1>2. \A u \in Threads : Rest(u)' = Rest(u) /\ InHand(u)' = InHand(u)
  BY <1>1, HandsFrame
<1>3. jobs[q] \in Seq(Jobs)
  BY <1>0 DEF TypeOK
<1>4. /\ RunningJob(q)' = RunningJob(q)
      /\ \E n \in 0 .. Len(Waiting(q)) : Waiting(q)' = SubSeq(Waiting(q), 1, n)
  <2>1. CASE \E u \in Threads : current[u] = q
    <3>1. PICK u \in Threads : current[u] = q
      BY <2>1
    <3>2. /\ Waiting(q) = Rest(u) \o jobs[q] /\ Waiting(q)' = Rest(u) \o <<>>
          /\ RunningJob(q)' = RunningJob(q)
      BY <1>1, <1>2, <3>1, ExecutedQueue
    <3>3. Rest(u) \in Seq(Jobs)
      <4>1. batch[u] \in Seq(Jobs) /\ (execPc[u] = "job" => batch[u] # <<>>)
        BY DEF IInv, TypeOK, LocalOK
      <4>. QED BY <4>1, HeadTailProperties DEF Rest
    <3>4. PICK x, y : x = Rest(u) /\ y = jobs[q]
      OBVIOUS
    <3>5. x \in Seq(Jobs) /\ y \in Seq(Jobs)
      BY <1>3, <3>3, <3>4
    <3>6. Len(x) \in 0 .. Len(x \o y) /\ x \o <<>> = SubSeq(x \o y, 1, Len(x))
      BY <3>5, PrefixOfConcat
    <3>. QED BY <3>2, <3>4, <3>6
  <2>2. CASE \A u \in Threads : current[u] # q
    <3>1. /\ Waiting(q) = jobs[q] /\ Waiting(q)' = <<>>
          /\ RunningJob(q) = NoJob /\ RunningJob(q)' = NoJob
      BY <1>0, <1>1, <2>2, IdleMailbox, IdleMailboxNext
    <3>2. PICK y : y = jobs[q] /\ y \in Seq(Jobs)
      BY <1>3
    <3>3. <<>> \in Seq(Jobs) /\ <<>> \o y = y /\ <<>> \o <<>> = <<>> /\ Len(<<>>) = 0
      BY <3>2, ConcatEmptySeq, EmptySeq
    <3>4. 0 \in 0 .. Len(y) /\ <<>> = SubSeq(y, 1, 0)
      BY <3>2, <3>3, PrefixOfConcat
    <3>. QED BY <3>1, <3>2, <3>4
  <2>. QED BY <2>1, <2>2
<1>5. \A p \in Queues : p # q => Waiting(p)' = Waiting(p) /\ RunningJob(p)' = RunningJob(p)
  BY <1>1, <1>2, MailboxSame
<1>6. Actors!Clear(q)
  BY <1>1, <1>4, <1>5 DEF Actors!Clear
<1>. QED BY <1>6 DEF Actors!Next

LEMMA EnqueueIsPost ==
  ASSUME IInv, IInv', OnceOK, NEW t \in Threads, PushEnqueue(t) PROVE Actors!Next
<1>0. TypeOK /\ TypeOK' /\ AtMostOneHolder
  BY DEF IInv
<1>1. PICK q \in Queues, j \in Jobs : q = opQueue[t] /\ j = opJob[t]
  BY DEF IInv, LocalOK, PushEnqueue
<1>2. /\ UNCHANGED <<finished, execPc, current, batch>> /\ jobs'[q] = Append(jobs[q], j)
      /\ \A p \in Queues \ {q} : jobs'[p] = jobs[p]
  BY <1>0, <1>1 DEF PushEnqueue, TypeOK, execVars, history
<1>3. \A u \in Threads : Rest(u)' = Rest(u) /\ InHand(u)' = InHand(u)
  BY <1>2, HandsFrame
<1>4. \A u \in Threads : current[u] \in Queues => Rest(u) \in Seq(Jobs)
  <2>1. ASSUME NEW u \in Threads PROVE Rest(u) \in Seq(Jobs)
    <3>1. batch[u] \in Seq(Jobs) /\ (execPc[u] = "job" => batch[u] # <<>>)
      BY DEF IInv, TypeOK, LocalOK
    <3>. QED BY <3>1, HeadTailProperties DEF Rest
  <2>. QED BY <2>1
<1>5. ~Arrived(j)
  <2>1. IsPushed(j)
    BY <1>1 DEF IsPushed, Pushing, PushEnqueue
  <2>. QED BY <2>1 DEF OnceOK, Apart
<1>6. ASSUME NEW p \in Queues
      PROVE  /\ Waiting(p)' = IF p = q THEN Append(Waiting(p), j) ELSE Waiting(p)
             /\ RunningJob(p)' = RunningJob(p)
             /\ j \notin Range(Waiting(p)) /\ RunningJob(p) # j
  <2>0. jobs[p] \in Seq(Jobs) /\ j \notin Range(jobs[p])
    BY <1>0, <1>5 DEF TypeOK, Arrived
  <2>1. CASE \E u \in Threads : current[u] = p
    <3>1. PICK u \in Threads : current[u] = p
      BY <2>1
    <3>2. /\ Waiting(p) = Rest(u) \o jobs[p] /\ RunningJob(p) = InHand(u)
          /\ Waiting(p)' = Rest(u) \o jobs'[p] /\ RunningJob(p)' = InHand(u)
      BY <1>2, <1>3, <3>1, ExecutedQueue
    <3>3. PICK x : x = Rest(u) /\ x \in Seq(Jobs)
      BY <1>4, <3>1
    <3>4. x \o Append(jobs[p], j) = Append(x \o jobs[p], j)
      BY <2>0, <3>3, AppendToConcat
    <3>5. batch[u] \in Seq(Jobs) /\ (execPc[u] = "job" => batch[u] # <<>>) /\ j \notin Range(batch[u])
      BY <1>5 DEF IInv, TypeOK, LocalOK, Arrived
    <3>6. j \notin Range(x)
      BY <3>3, <3>5, RangeOfTail DEF Rest
    <3>7. InHand(u) # j
      BY <3>5, RangeOfTail, JobsAssumption DEF InHand
    <3>8. j \notin Range(x \o jobs[p])
      BY <2>0, <3>3, <3>6, RangeOfConcat
    <3>. QED BY <1>2, <3>2, <3>3, <3>4, <3>7, <3>8
  <2>2. CASE \A u \in Threads : current[u] # p
    <3>1. /\ Waiting(p) = jobs[p] /\ RunningJob(p) = NoJob
          /\ Waiting(p)' = jobs'[p] /\ RunningJob(p)' = NoJob
      BY <1>0, <1>2, <2>2, IdleMailbox, IdleMailboxNext
    <3>. QED BY <1>2, <2>0, <3>1, JobsAssumption
  <2>. QED BY <2>1, <2>2
<1>7. j \notin finished
  BY <1>5 DEF Arrived
<1>8. Actors!Post(q, j)
  BY <1>2, <1>6, <1>7 DEF Actors!Post, Actors!Range, Range
<1>. QED BY <1>8 DEF Actors!Next

LEMMA StepImplements ==
  ASSUME IInv, IInv', OnceOK, [Next]_vars PROVE [Actors!Next]_(Actors!vars)
<1>0. TypeOK
  BY DEF IInv
<1>1. CASE UNCHANGED vars
  BY <1>1, CallSteps, QuietIsStutter DEF vars, jobVars, execVars, history
<1>2. ASSUME NEW t \in Threads, Progress(t) PROVE Actors!Next \/ Quiet
  <2>1. CASE PushEnqueue(t)
    BY <2>1, EnqueueIsPost
  <2>2. CASE ExecuteStartJob(t) \/ ExecuteEndJob(t)
    BY <2>2, StartIsStart, EndIsFinish
  <2>3. CASE ExecutePopAll(t)
    BY <2>3, PopAllQuiet
  <2>4. CASE PushGlobal(t) \/ ClearUncount(t) \/ DistributePush(t) \/ DistributeEnd(t)
    BY <2>4, CallSteps DEF PushGlobal, ClearUncount, DistributePush, DistributeEnd, PushCount, jobVars, history
  <2>5. CASE PushExecute(t)
    <3>1. execPc[t] = "idle"
      BY <2>5 DEF IInv, LocalOK, PushExecute
    <3>2. /\ UNCHANGED <<jobs, batch, finished>> /\ execPc'[t] # "job"
          /\ \A u \in Threads \ {t} : execPc'[u] = execPc[u] /\ current'[u] = current[u]
      BY <1>0, <2>5 DEF PushExecute, TypeOK, jobVars, history
    <3>. QED BY <3>1, <3>2, EmptyHands, HandOver
  <2>6. CASE ExecuteSettle(t) \/ ExecuteAgain(t) \/ ExecuteYield(t)
    <3>1. execPc[t] \in {"next", "time"} /\ batch[t] = <<>>
      BY <2>6, EmptyHands DEF ExecuteSettle, ExecuteAgain, ExecuteYield
    <3>2. /\ UNCHANGED <<jobs, batch, finished>> /\ execPc'[t] # "job"
          /\ \A u \in Threads \ {t} : execPc'[u] = execPc[u] /\ current'[u] = current[u]
      BY <1>0, <2>6 DEF ExecuteSettle, ExecuteAgain, ExecuteYield, TypeOK, jobVars, history
    <3>. QED BY <3>1, <3>2, HandOver
  <2>. QED BY <1>2, <2>1, <2>2, <2>3, <2>4, <2>5, <2>6 DEF Progress
<1>3. ASSUME NEW t \in Threads, WorkerPop(t) PROVE Quiet
  <2>1. /\ UNCHANGED <<jobs, batch, finished>> /\ execPc[t] = "idle" /\ execPc'[t] # "job"
        /\ \A u \in Threads \ {t} : execPc'[u] = execPc[u] /\ current'[u] = current[u]
    BY <1>0, <1>3 DEF WorkerPop, TypeOK, jobVars, history
  <2>. QED BY <2>1, EmptyHands, HandOver
<1>4. ASSUME NEW t \in Threads, NEW q \in Queues, ClearPopAll(t, q) PROVE Actors!Next
  BY <1>4, ClearIsClear
<1>5. ASSUME NEW t \in Threads, Distribute(t) PROVE Quiet
  BY <1>5, CallSteps DEF Distribute, jobVars, history
<1>6. ASSUME NEW t \in Threads, NEW q \in Queues, DoAsync(t, q) \/ DoTimer(t, q) PROVE Quiet
  BY <1>6, CallSteps DEF DoAsync, DoTimer, PushCount, jobVars, history
<1>7. CASE EndPosting \/ \E q \in Queues : Release(q)
  <2>1. Quiet
    BY <1>7, CallSteps DEF EndPosting, Release, jobVars, history
  <2>. QED BY <2>1, QuietIsStutter
<1>. QED BY <1>1, <1>2, <1>3, <1>4, <1>5, <1>6, <1>7, QuietIsStutter DEF Next

LEMMA InitImplements == Init => Actors!Init
<1>. SUFFICES ASSUME Init PROVE Actors!Init
  OBVIOUS
<1>1. \A q \in Queues : Waiting(q) = <<>> /\ RunningJob(q) = NoJob
  BY InitIInv, IdleMailbox, QueuesAssumption DEF IInv, Init
<1>. QED BY <1>1 DEF Actors!Init, Init

(* The job queues implement the serial actors: whichever threads post, run,  *)
(* yield, clear and distribute at once, every queue runs its jobs one at a   *)
(* time and in the order of posting, each at most once, and none disappears  *)
(* unless it is cleared.                                                     *)
THEOREM JobQueuesAreActors == Spec => ImplementsActors
<1>1. IInv /\ OnceOK /\ IInv' /\ [Next]_vars => [Actors!Next]_(Actors!vars)
  BY StepImplements
<1>. QED BY <1>1, InitImplements, PostedOnce, PTL DEF Spec, ImplementsActors, Actors!Spec

-----------------------------------------------------------------------------
(* The reader/writer spin lock.                                              *)

(* A compare_exchange is only tried on a word that was free.                 *)
ExpectedFree ==
    \A t \in Lockers : pc[t] \in {"writeCas", "tryWriteCas"} => Free(expected[t])

LockInv == LockTypeOK /\ CountsExact /\ MutualExclusion /\ ExpectedFree
-----------------------------------------------------------------------------
LEMMA SubsetsFinite ==
  ASSUME NEW S \in SUBSET Lockers
  PROVE  IsFiniteSet(S) /\ Cardinality(S) \in Nat
         /\ (Cardinality(S) = 0 <=> S = {})
  BY FS_Subset, FS_CardinalityType, FS_EmptySet, LockersAssumption

LEMMA LockCountType ==
  /\ IsFiniteSet(Counted) /\ Cardinality(Counted) \in Nat
  /\ IsFiniteSet(Announced) /\ Cardinality(Announced) \in Nat
  /\ Cardinality(Counted) = 0 <=> Counted = {}
  /\ Cardinality(Announced) = 0 <=> Announced = {}
  BY SubsetsFinite DEF Counted, Announced

LEMMA LockInitOK == LockInit => LockInv
<1> SUFFICES ASSUME LockInit PROVE LockInv
  OBVIOUS
<1>1. LockTypeOK
  BY DEF LockInit, LockTypeOK, Words, Unlocked, Labels
<1>2. Counted = {} /\ Announced = {} /\ Writing = {}
  BY DEF LockInit, Counted, Announced, Writing
<1>3. CountsExact
  BY <1>2, FS_EmptySet DEF LockInit, CountsExact, Unlocked
<1>4. MutualExclusion /\ ExpectedFree
  BY DEF LockInit, MutualExclusion, ExpectedFree
<1>. QED BY <1>1, <1>3, <1>4 DEF LockInv

(* What the fields of the word say about the threads.                        *)
LEMMA WordMeans ==
  ASSUME LockInv
  PROVE  /\ word.readers \in Nat /\ word.writers \in Nat /\ word.locked \in BOOLEAN
         /\ word.readers = 0 => \A t \in Lockers : pc[t] # "reading"
         /\ word.writers = 0 => \A t \in Lockers :
                                  pc[t] \notin {"writeWait", "writeCas", "writing"}
         /\ ~word.locked => \A t \in Lockers : pc[t] # "writing"
<1>1. word \in Words
  BY DEF LockInv, LockTypeOK
<1>2. word.readers = 0 => Counted = {}
  BY LockCountType DEF LockInv, CountsExact
<1>3. word.writers = 0 => Announced = {}
  BY LockCountType DEF LockInv, CountsExact
<1>. QED
  BY <1>1, <1>2, <1>3 DEF LockInv, CountsExact, Words, Counted, Announced, Writing

(* A thread enters or leaves one of the counted sets.                        *)
LEMMA Enter ==
  ASSUME NEW S, IsFiniteSet(S), NEW t, t \notin S, NEW n, n = Cardinality(S)
  PROVE  Cardinality(S \union {t}) = n + 1
  BY FS_AddElement

LEMMA Leave ==
  ASSUME NEW S, IsFiniteSet(S), NEW t \in S, NEW n, n = Cardinality(S)
  PROVE  Cardinality(S \ {t}) = n - 1
  BY FS_RemoveElement

-----------------------------------------------------------------------------
(* Steps that move a thread between places that count alike.                 *)
LEMMA SilentStep ==
  ASSUME LockInv, NEW t \in Lockers, NEW label \in Labels,
         word' = word, Goto(t, label),
         pc[t] \in {"reading", "readUndo", "tryReadUndo"}
            <=> label \in {"reading", "readUndo", "tryReadUndo"},
         pc[t] \in {"writeWait", "writeCas", "writing"}
            <=> label \in {"writeWait", "writeCas", "writing"},
         pc[t] # "writing", label \notin {"writing", "reading"},
         expected' \in [Lockers -> Words],
         \A u \in Lockers : u # t => expected'[u] = expected[u],
         label \in {"writeCas", "tryWriteCas"} => Free(expected'[t])
  PROVE  LockInv'
<1> USE DEF LockInv
<1>1. LockTypeOK'
  BY DEF LockTypeOK, Goto
<1>2. Counted' = Counted /\ Announced' = Announced /\ Writing' = Writing
  BY DEF LockTypeOK, Goto, Counted, Announced, Writing
<1>3. CountsExact'
  BY <1>2 DEF CountsExact
<1>4. MutualExclusion'
  BY DEF LockTypeOK, Goto, MutualExclusion
<1>5. ExpectedFree'
  BY DEF LockTypeOK, Goto, ExpectedFree
<1>. QED BY <1>1, <1>3, <1>4, <1>5

LEMMA ReadAddStep ==
  ASSUME LockInv, NEW t \in Lockers, ReadAdd(t) PROVE LockInv'
<1> USE DEF LockInv
<1>1. PICK label \in {"reading", "readUndo", "tryReadUndo"} :
         Goto(t, label) /\ (label = "reading" => NoWriter)
  BY DEF ReadAdd
<1>2. word' = [word EXCEPT !.readers = @ + 1] /\ expected' = expected
  BY DEF ReadAdd
<1>3. LockTypeOK'
  BY <1>1, <1>2 DEF LockTypeOK, Goto, Words, Labels
<1>4. /\ Counted' = Counted \union {t} /\ t \notin Counted
      /\ Announced' = Announced /\ Writing' = Writing
  BY <1>1 DEF LockTypeOK, Goto, ReadAdd, Counted, Announced, Writing
<1>5. CountsExact'
  <2>1. word'.readers = word.readers + 1
        /\ word'.writers = word.writers /\ word'.locked = word.locked
    BY <1>2 DEF LockTypeOK, Words
  <2>2. Cardinality(Counted \union {t}) = Cardinality(Counted) + 1
    BY <1>4, LockCountType, Enter
  <2>. QED BY <1>4, <2>1, <2>2 DEF CountsExact
<1>6. MutualExclusion'
  <2>1. label = "reading" => \A u \in Lockers : pc[u] # "writing"
    BY <1>1, WordMeans DEF NoWriter
  <2>. QED BY <1>1, <2>1 DEF LockTypeOK, Goto, MutualExclusion
<1>7. ExpectedFree'
  BY <1>1, <1>2 DEF LockTypeOK, Goto, ExpectedFree
<1>. QED BY <1>3, <1>5, <1>6, <1>7

LEMMA ReaderLeaves ==
  ASSUME LockInv, NEW t \in Lockers, NEW label \in {"idle", "readWait"},
         pc[t] \in {"reading", "readUndo", "tryReadUndo"},
         word' = [word EXCEPT !.readers = @ - 1], Goto(t, label),
         expected' = expected
  PROVE  LockInv'
<1> USE DEF LockInv
<1>1. t \in Counted
  BY DEF Counted
<1>2. /\ Counted' = Counted \ {t}
      /\ Announced' = Announced /\ Writing' = Writing
  BY DEF LockTypeOK, Goto, Counted, Announced, Writing
<1>3. Cardinality(Counted \ {t}) = Cardinality(Counted) - 1
      /\ Cardinality(Counted \ {t}) \in Nat
  BY <1>1, LockCountType, Leave, SubsetsFinite DEF Counted
<1>4. /\ word'.readers = word.readers - 1
      /\ word'.writers = word.writers /\ word'.locked = word.locked
      /\ word' = [locked |-> word.locked, readers |-> word.readers - 1,
                  writers |-> word.writers]
  BY DEF LockTypeOK, Words
<1>5. CountsExact'
  BY <1>2, <1>3, <1>4 DEF CountsExact
<1>6. LockTypeOK'
  <2>1. word' \in Words
    <3>1. word \in Words
      BY DEF LockTypeOK
    <3>2. word.readers - 1 \in Nat
      BY <1>3 DEF CountsExact
    <3>. QED BY <1>4, <3>1, <3>2 DEF Words
  <2>. QED BY <2>1 DEF LockTypeOK, Goto, Labels
<1>7. MutualExclusion' /\ ExpectedFree'
  BY DEF LockTypeOK, Goto, MutualExclusion, ExpectedFree
<1>. QED BY <1>5, <1>6, <1>7

LEMMA WriteLockStep ==
  ASSUME LockInv, NEW t \in Lockers, WriteLock(t) PROVE LockInv'
<1> USE DEF LockInv
<1>1. LockTypeOK'
  BY DEF LockTypeOK, WriteLock, Goto, Words, Labels
<1>2. /\ Counted' = Counted /\ Writing' = Writing
      /\ Announced' = Announced \union {t} /\ t \notin Announced
  BY DEF LockTypeOK, Goto, WriteLock, Counted, Announced, Writing
<1>3. CountsExact'
  <2>1. word'.writers = word.writers + 1
        /\ word'.readers = word.readers /\ word'.locked = word.locked
    BY DEF LockTypeOK, Words, WriteLock
  <2>2. Cardinality(Announced \union {t}) = Cardinality(Announced) + 1
    BY <1>2, LockCountType, Enter
  <2>. QED BY <1>2, <2>1, <2>2 DEF CountsExact
<1>4. MutualExclusion' /\ ExpectedFree'
  BY DEF LockTypeOK, Goto, WriteLock, MutualExclusion, ExpectedFree
<1>. QED BY <1>1, <1>3, <1>4

(* The exchange succeeds on a free word: nobody reads or writes.             *)
LEMMA WriterEnters ==
  ASSUME LockInv, NEW t \in Lockers, Free(word), NEW n \in Nat,
         word' = [locked |-> TRUE, readers |-> word.readers, writers |-> n],
         \/ pc[t] = "writeCas" /\ n = word.writers
         \/ pc[t] = "tryWriteCas" /\ n = word.writers + 1,
         Goto(t, "writing"), expected' = expected
  PROVE  LockInv'
<1> USE DEF LockInv
<1>1. LockTypeOK'
  <2>1. word' \in Words
    BY WordMeans DEF Words
  <2>. QED BY <2>1 DEF LockTypeOK, Goto, Labels
<1>2. /\ Counted' = Counted /\ Writing' # {}
      /\ pc[t] = "writeCas" => Announced' = Announced
      /\ pc[t] = "tryWriteCas" => Announced' = Announced \union {t} /\ t \notin Announced
  BY DEF LockTypeOK, Goto, Counted, Announced, Writing
<1>3. CountsExact'
  <2>1. Cardinality(Announced)' = n
    BY <1>2, LockCountType, Enter DEF CountsExact
  <2>. QED BY <1>2, <2>1 DEF CountsExact
<1>4. MutualExclusion'
  <2>1. \A u \in Lockers : pc[u] \notin {"reading", "writing"}
    BY WordMeans DEF Free
  <2>. QED BY <2>1 DEF LockTypeOK, Goto, MutualExclusion
<1>5. ExpectedFree'
  BY DEF LockTypeOK, Goto, ExpectedFree
<1>. QED BY <1>1, <1>3, <1>4, <1>5

LEMMA WriteUnlockStep ==
  ASSUME LockInv, NEW t \in Lockers, WriteUnlock(t) PROVE LockInv'
<1> USE DEF LockInv
<1>1. t \in Announced
  BY DEF Announced, WriteUnlock
<1>2. Counted' = Counted /\ Announced' = Announced \ {t} /\ Writing' = {}
  BY DEF LockTypeOK, Goto, WriteUnlock, MutualExclusion, Counted, Announced, Writing
<1>3. Cardinality(Announced \ {t}) = Cardinality(Announced) - 1
      /\ Cardinality(Announced \ {t}) \in Nat
  BY <1>1, LockCountType, Leave, SubsetsFinite DEF Announced
<1>4. /\ word'.writers = word.writers - 1
      /\ word'.readers = word.readers /\ word'.locked = FALSE
      /\ word' = [locked |-> FALSE, readers |-> word.readers,
                  writers |-> word.writers - 1]
  BY DEF LockTypeOK, Words, WriteUnlock
<1>5. CountsExact'
  BY <1>2, <1>3, <1>4 DEF CountsExact
<1>6. LockTypeOK'
  <2>1. word' \in Words
    BY <1>3, <1>4, WordMeans DEF CountsExact, Words
  <2>. QED BY <2>1 DEF LockTypeOK, Goto, Labels, WriteUnlock
<1>7. MutualExclusion' /\ ExpectedFree'
  BY DEF LockTypeOK, Goto, WriteUnlock, MutualExclusion, ExpectedFree
<1>. QED BY <1>5, <1>6, <1>7

LEMMA LockNextOK == LockInv /\ [LockNext]_lockVars => LockInv'
<1> SUFFICES ASSUME LockInv, [LockNext]_lockVars PROVE LockInv'
  OBVIOUS
<1> USE DEF LockInv
<1>0. CASE UNCHANGED lockVars
  BY <1>0 DEF lockVars, LockTypeOK, CountsExact, Counted, Announced, Writing,
              MutualExclusion, ExpectedFree
<1>1. ASSUME NEW t \in Lockers, ReadLock(t) PROVE LockInv'
  BY <1>1, SilentStep DEF ReadLock, Labels, LockTypeOK
<1>2. ASSUME NEW t \in Lockers, ReadSpin(t) \/ TryReadLock(t) PROVE LockInv'
  BY <1>2, SilentStep DEF ReadSpin, TryReadLock, Labels, LockTypeOK
<1>3. ASSUME NEW t \in Lockers, ReadUndo(t) \/ ReadUnlock(t) PROVE LockInv'
  BY <1>3, ReaderLeaves DEF ReadUndo, ReadUnlock
<1>4. ASSUME NEW t \in Lockers, WriteSpin(t) \/ TryWriteLock(t) PROVE LockInv'
  <2>1. /\ expected' \in [Lockers -> Words] /\ expected'[t] = word
        /\ \A u \in Lockers : u # t => expected'[u] = expected[u]
    BY <1>4 DEF WriteSpin, TryWriteLock, LockTypeOK
  <2>2. CASE WriteSpin(t)
    BY <2>1, <2>2, SilentStep DEF WriteSpin, Labels
  <2>3. CASE TryWriteLock(t)
    BY <2>1, <2>3, SilentStep DEF TryWriteLock, Labels
  <2>. QED BY <1>4, <2>2, <2>3
<1>5. ASSUME NEW t \in Lockers, WriteCas(t) PROVE LockInv'
  <2>1. CASE word = expected[t]
    <3>1. Free(word)
      BY <1>5, <2>1 DEF WriteCas, ExpectedFree
    <3>2. word' = [locked |-> TRUE, readers |-> word.readers,
                   writers |-> word.writers]
      BY <1>5, <2>1, WordMeans DEF WriteCas, LockTypeOK, Words
    <3>. QED BY <1>5, <2>1, <3>1, <3>2, WordMeans, WriterEnters DEF WriteCas
  <2>2. CASE word # expected[t]
    BY <1>5, <2>2, SilentStep DEF WriteCas, Labels, LockTypeOK
  <2>. QED BY <2>1, <2>2
<1>6. ASSUME NEW t \in Lockers, TryWriteCas(t) PROVE LockInv'
  <2>1. CASE word = expected[t]
    <3>1. Free(word)
      BY <1>6, <2>1 DEF TryWriteCas, ExpectedFree
    <3>2. word' = [locked |-> TRUE, readers |-> word.readers,
                   writers |-> word.writers + 1]
      BY <1>6, <2>1, WordMeans DEF TryWriteCas, LockTypeOK, Words
    <3>. QED BY <1>6, <2>1, <3>1, <3>2, WordMeans, WriterEnters DEF TryWriteCas
  <2>2. CASE word # expected[t]
    BY <1>6, <2>2, SilentStep DEF TryWriteCas, Labels, LockTypeOK
  <2>. QED BY <2>1, <2>2
<1>. QED
  BY <1>0, <1>1, <1>2, <1>3, <1>4, <1>5, <1>6, ReadAddStep, WriteLockStep,
     WriteUnlockStep
  DEF LockNext, LockProgress

THEOREM LockInductive == LockSpec => []LockInv
  BY LockInitOK, LockNextOK, PTL DEF LockSpec

(* A writer has the lock for itself, whatever the number of threads and      *)
(* however WriteLock, TryWriteLock, ReadLock and TryReadLock interleave.     *)
THEOREM Exclusion == LockSpec => []MutualExclusion
<1>1. LockInv => MutualExclusion
  BY DEF LockInv
<1>. QED BY <1>1, LockInductive, PTL

(* The fields of the word count exactly the readers, the announced writers   *)
(* and the writer inside.                                                    *)
THEOREM Counts == LockSpec => []CountsExact
<1>1. LockInv => CountsExact
  BY DEF LockInv
<1>. QED BY <1>1, LockInductive, PTL

(* Both hold together, which is what a user of the lock relies on.           *)
THEOREM LockHoldsAlways == LockSpec => []LockHolds
  BY Exclusion, Counts, PTL DEF LockHolds

(* The fields fit their bits: the overflow branches are dead code.           *)
THEOREM NoOverflow == LockSpec => [](word.readers <= 32767 /\ word.writers <= 65535)
<1>1. LockInv => word.readers <= 32767 /\ word.writers <= 65535
  <2>1. Cardinality(Counted) <= Cardinality(Lockers)
        /\ Cardinality(Announced) <= Cardinality(Lockers)
    BY FS_Subset, LockersAssumption DEF Counted, Announced
  <2>2. Cardinality(Lockers) \in Nat
    BY FS_CardinalityType, LockersAssumption
  <2>. QED BY <2>1, <2>2, LockCountType, LockersAssumption DEF LockInv, CountsExact
<1>. QED BY <1>1, LockInductive, PTL

(* A reader that enters finds no writer waiting.                             *)
THEOREM WriterPreference == LockSpec => NoReaderPassesWriter
<1> DEFINE Passes ==
      \A t, u \in Lockers :
          pc[t] # "reading" /\ pc'[t] = "reading" => pc[u] \notin {"writeWait", "writeCas"}
<1>1. LockInv /\ [LockNext]_lockVars => [Passes]_lockVars
  <2> SUFFICES ASSUME LockInv, LockNext, NEW t \in Lockers, NEW u \in Lockers,
                      pc[t] # "reading", pc'[t] = "reading"
               PROVE  pc[u] \notin {"writeWait", "writeCas"}
    OBVIOUS
  <2>1. pc \in [Lockers -> Labels]
    BY DEF LockInv, LockTypeOK
  <2>2. ReadAdd(t) /\ NoWriter
    BY <2>1 DEF LockNext, LockProgress, ReadLock, TryReadLock, WriteLock, TryWriteLock,
       ReadSpin, ReadAdd, ReadUndo, ReadUnlock, WriteSpin, WriteCas, TryWriteCas,
       WriteUnlock, Goto
  <2>. QED BY <2>2, WordMeans DEF NoWriter
<1>. QED BY <1>1, LockInductive, PTL DEF LockSpec, NoReaderPassesWriter

-----------------------------------------------------------------------------
(* AsyncSrv: the requests of an asynchronous database service.               *)
(* The invariant says where its threads may be ...                           *)
FeederSpots == {"begin", "asleep", "push", "undo", "notify", "end"}
ServerSpots == {"pop", "asleep", "room", "handle", "retry", "notify", "exited"}
DestroyerSpots == {"begin", "wake", "join", "flush", "end"}

AsyncTypeOK ==
    /\ queries \in Seq(Feeders)
    /\ localQueue \in [Servers -> Seq(Feeders)] /\ \A w \in Servers : Len(localQueue[w]) <= Chunk
    /\ query \in [Servers -> Feeders \union {NoQuery}]
    /\ stopThread \in BOOLEAN /\ outstanding \in Int
    /\ hungry = {w \in Servers : spot[w] = "asleep"}
    /\ crowded = {f \in Feeders : spot[f] = "asleep"}
    /\ DOMAIN spot = Feeders \union Servers \union {Destroyer}
    /\ \A f \in Feeders : spot[f] \in FeederSpots
    /\ \A w \in Servers : spot[w] \in ServerSpots
    /\ spot[Destroyer] \in DestroyerSpots
    /\ retried \subseteq Feeders
    /\ fate \in [Feeders -> {"none", "refused", "served", "dropped"}]

(* ... that a request which is neither refused nor over is in one place, and *)
(* every other in none ...                                                   *)
Present(r) == fate[r] = "none" /\ spot[r] \in {"notify", "end"}
Own(w) == ToSet(localQueue[w])

PlacedApart ==
    /\ IsInjective(queries) /\ \A w \in Servers : IsInjective(localQueue[w])
    /\ \A w \in Servers : ToSet(queries) \intersect Own(w) = {} /\ query[w] \notin ToSet(queries)
    /\ \A w, v \in Servers : query[w] \notin Own(v)
    /\ \A w \in Servers : \A v \in Servers \ {w} :
         Own(w) \intersect Own(v) = {} /\ (query[w] = query[v] => query[w] = NoQuery)

Placed(r) == r \in ToSet(queries) \/ \E w \in Servers : r \in Own(w) \/ query[w] = r
PresentPlaced == \A r \in Feeders : Present(r) <=> Placed(r)

(* ... what a place tells of the request or the worker that is there ...     *)
PlacesOK ==
    /\ \A f \in Feeders : spot[f] \in {"begin", "asleep", "push", "undo"} => fate[f] = "none"
    /\ \A w \in Servers :
         /\ query[w] # NoQuery <=> spot[w] \in {"handle", "retry"}
         /\ spot[w] \in {"asleep", "exited"} => localQueue[w] = <<>>
         /\ spot[w] = "exited" => stopThread /\ queries = <<>>

(* ... and how far the destructor is.                                        *)
StopOK ==
    /\ stopThread <=> spot[Destroyer] # "begin"
    /\ stopThread => spot[Destroyer] = "wake" \/ (hungry = {} /\ crowded = {})
    /\ spot[Destroyer] \in {"flush", "end"} => \A w \in Servers : spot[w] = "exited"

Live == {r \in Feeders : Present(r) \/ spot[r] \in {"push", "undo"}}

Awake(t) == spot[t] \in {"notify", "pop", "room", "handle", "retry"}
SomeoneSees ==
    /\ hungry # {} /\ (queries # <<>> \/ stopThread) =>
         spot[Destroyer] = "wake" \/ \E t \in Feeders \union Servers : Awake(t)
    /\ crowded # {} /\ (HasRoom \/ stopThread) =>
         spot[Destroyer] = "wake" \/ \E w \in Servers : spot[w] = "room"

AsyncInv ==
    /\ AsyncTypeOK /\ PlacedApart /\ PresentPlaced /\ PlacesOK /\ StopOK /\ SomeoneSees
    /\ outstanding = Cardinality(Live)

-----------------------------------------------------------------------------
(* What a queue of different requests holds.                                 *)
LEMMA AppendOnce ==
  ASSUME NEW S, NEW s \in Seq(S), NEW x \in S
  PROVE  /\ Append(s, x) \in Seq(S) /\ Append(s, x) # <<>>
         /\ ToSet(Append(s, x)) = ToSet(s) \union {x}
         /\ IsInjective(s) /\ x \notin ToSet(s) => IsInjective(Append(s, x))
<1>1. /\ Append(s, x) \in Seq(S) /\ DOMAIN Append(s, x) = 1..(Len(s) + 1) /\ Len(s) \in Nat
      /\ DOMAIN s = 1..Len(s) /\ Append(s, x)[Len(s) + 1] = x
      /\ \A i \in 1..Len(s) : Append(s, x)[i] = s[i]
      /\ Append(s, x) # <<>>
  OBVIOUS
<1> DEFINE a == Append(s, x)
<1>. HIDE DEF a
<1>2. ToSet(a) = ToSet(s) \union {x}
  <2>1. ToSet(a) \subseteq ToSet(s) \union {x}
    BY <1>1 DEF ToSet, a
  <2>2. ToSet(s) \subseteq ToSet(a)
    <3>1. ASSUME NEW i \in 1..Len(s) PROVE i \in DOMAIN a /\ a[i] = s[i]
      BY <1>1 DEF a
    <3>. QED BY <1>1, <3>1 DEF ToSet
  <2>3. x \in ToSet(a)
    <3>1. Len(s) + 1 \in DOMAIN a /\ a[Len(s) + 1] = x
      BY <1>1 DEF a
    <3>. QED BY <3>1 DEF ToSet
  <2>. QED BY <2>1, <2>2, <2>3
<1>3. ASSUME IsInjective(s), x \notin ToSet(s), NEW i \in DOMAIN a, NEW j \in DOMAIN a, a[i] = a[j]
      PROVE  i = j
  <2>1. \A k \in 1..Len(s) : s[k] # x
    BY <1>1, <1>3 DEF ToSet
  <2>2. i \in 1..Len(s) \/ i = Len(s) + 1
    BY <1>1 DEF a
  <2>3. j \in 1..Len(s) \/ j = Len(s) + 1
    BY <1>1 DEF a
  <2>. QED BY <1>1, <1>3, <2>1, <2>2, <2>3 DEF IsInjective, a
<1>. QED BY <1>1, <1>2, <1>3 DEF IsInjective, a

LEMMA TailOnce ==
  ASSUME NEW S, NEW s \in Seq(S), s # <<>>, IsInjective(s)
  PROVE  /\ Tail(s) \in Seq(S) /\ Len(Tail(s)) = Len(s) - 1 /\ Head(s) \in S /\ Head(s) \in ToSet(s)
         /\ ToSet(Tail(s)) = ToSet(s) \ {Head(s)} /\ IsInjective(Tail(s))
<1>1. /\ Tail(s) \in Seq(S) /\ Len(Tail(s)) = Len(s) - 1 /\ Len(s) \in Nat \ {0}
      /\ DOMAIN s = 1..Len(s) /\ DOMAIN Tail(s) = 1..(Len(s) - 1)
      /\ \A i \in 1..(Len(s) - 1) : Tail(s)[i] = s[i + 1]
      /\ Head(s) = s[1] /\ Head(s) \in S
  OBVIOUS
<1> DEFINE a == Tail(s)
<1>. HIDE DEF a
<1>2. Head(s) \in ToSet(s)
  BY <1>1 DEF ToSet
<1>3. ASSUME NEW i \in DOMAIN a PROVE i + 1 \in DOMAIN s /\ i + 1 # 1 /\ a[i] = s[i + 1]
  BY <1>1 DEF a
<1>4. ASSUME NEW i \in DOMAIN s, i # 1 PROVE i - 1 \in DOMAIN a /\ a[i - 1] = s[i]
  <2>1. i - 1 \in 1..(Len(s) - 1) /\ (i - 1) + 1 = i
    BY <1>1, <1>4
  <2>2. a[i - 1] = s[(i - 1) + 1] /\ i - 1 \in DOMAIN a
    BY <1>1, <2>1 DEF a
  <2>. QED BY <2>1, <2>2
<1>5. ToSet(a) = ToSet(s) \ {Head(s)}
  <2>1. ToSet(a) \subseteq ToSet(s) \ {Head(s)}
    <3>. SUFFICES ASSUME NEW i \in DOMAIN a PROVE a[i] \in ToSet(s) /\ a[i] # Head(s)
      BY DEF ToSet
    <3>1. i + 1 \in DOMAIN s /\ i + 1 # 1 /\ a[i] = s[i + 1] /\ 1 \in DOMAIN s
      BY <1>1, <1>3
    <3>. QED BY <1>1, <3>1 DEF ToSet, IsInjective
  <2>2. ToSet(s) \ {Head(s)} \subseteq ToSet(a)
    <3>. SUFFICES ASSUME NEW i \in DOMAIN s, s[i] # Head(s) PROVE s[i] \in ToSet(a)
      BY DEF ToSet
    <3>1. i # 1
      BY <1>1
    <3>. QED BY <1>4, <3>1 DEF ToSet
  <2>. QED BY <2>1, <2>2
<1>6. IsInjective(a)
  <2>. SUFFICES ASSUME NEW i \in DOMAIN a, NEW j \in DOMAIN a, a[i] = a[j] PROVE i = j
    BY DEF IsInjective
  <2>1. i + 1 = j + 1
    BY <1>3 DEF IsInjective
  <2>2. i \in Int /\ j \in Int
    BY <1>1 DEF a
  <2>. QED BY <2>1, <2>2
<1>. QED BY <1>1, <1>2, <1>5, <1>6 DEF a

LEMMA SplitOnce ==
  ASSUME NEW S, NEW s \in Seq(S), IsInjective(s), NEW n \in 0..Len(s)
  PROVE  LET a == SubSeq(s, 1, n)
             b == SubSeq(s, n + 1, Len(s))
         IN  /\ a \in Seq(S) /\ b \in Seq(S) /\ Len(a) = n /\ Len(b) = Len(s) - n
             /\ IsInjective(a) /\ IsInjective(b)
             /\ ToSet(a) \union ToSet(b) = ToSet(s) /\ ToSet(a) \intersect ToSet(b) = {}
<1> DEFINE a == SubSeq(s, 1, n)
           b == SubSeq(s, n + 1, Len(s))
<1>1. /\ a \in Seq(S) /\ b \in Seq(S) /\ Len(a) = n /\ Len(b) = Len(s) - n /\ Len(s) \in Nat
      /\ DOMAIN s = 1..Len(s) /\ DOMAIN a = 1..n /\ DOMAIN b = 1..(Len(s) - n)
      /\ \A i \in 1..n : a[i] = s[i]
      /\ \A i \in 1..(Len(s) - n) : b[i] = s[n + i]
  OBVIOUS
<1>. HIDE DEF a, b
<1>2. ASSUME NEW i \in DOMAIN a PROVE i \in DOMAIN s /\ i <= n /\ a[i] = s[i] /\ i \in Int
  BY <1>1
<1>3. ASSUME NEW i \in DOMAIN b PROVE n + i \in DOMAIN s /\ n + i > n /\ b[i] = s[n + i] /\ i \in Int
  BY <1>1
<1>4. IsInjective(a)
  BY <1>2 DEF IsInjective
<1>5. IsInjective(b)
  <2>. SUFFICES ASSUME NEW i \in DOMAIN b, NEW j \in DOMAIN b, b[i] = b[j] PROVE i = j
    BY DEF IsInjective
  <2>1. n + i = n + j
    BY <1>3 DEF IsInjective
  <2>. QED BY <1>3, <2>1
<1>6. ToSet(a) \union ToSet(b) = ToSet(s)
  <2>1. ToSet(a) \subseteq ToSet(s)
    BY <1>2 DEF ToSet
  <2>2. ToSet(b) \subseteq ToSet(s)
    BY <1>3 DEF ToSet
  <2>3. ASSUME NEW i \in DOMAIN s PROVE s[i] \in ToSet(a) \union ToSet(b)
    <3>1. CASE i <= n
      <4>1. i \in DOMAIN a /\ a[i] = s[i]
        BY <1>1, <3>1
      <4>. QED BY <4>1 DEF ToSet
    <3>2. CASE ~(i <= n)
      <4>1. i - n \in DOMAIN b /\ b[i - n] = s[i]
        BY <1>1, <3>2
      <4>. QED BY <4>1 DEF ToSet
    <3>. QED BY <3>1, <3>2
  <2>. QED BY <2>1, <2>2, <2>3 DEF ToSet
<1>7. ASSUME NEW i \in DOMAIN a, NEW j \in DOMAIN b PROVE a[i] # b[j]
  BY <1>2, <1>3 DEF IsInjective
<1>8. ToSet(a) \intersect ToSet(b) = {}
  BY <1>7 DEF ToSet
<1>. QED BY <1>1, <1>4, <1>5, <1>6, <1>8 DEF a, b

LEMMA NothingQueued ==
  ASSUME NEW S, NEW s \in Seq(S)
  PROVE  ToSet(s) = {} <=> s = <<>>
<1>1. s # <<>> => 1 \in DOMAIN s
  OBVIOUS
<1>. QED BY <1>1 DEF ToSet

(* A request that occurs once is counted once.                               *)
LEMMA CountOnce ==
  ASSUME NEW A, NEW a, \A x \in A : x = a
  PROVE  IsFiniteSet(A) /\ Cardinality(A) = IF a \in A THEN 1 ELSE 0
<1>1. A = IF a \in A THEN {a} ELSE {}
  OBVIOUS
<1>. QED BY <1>1, FS_Singleton, FS_EmptySet

LEMMA LiveChange ==
  /\ Cardinality(Live) \in Int
  /\ \A r : Live' = Live \union {r} /\ r \notin Live => Cardinality(Live') = Cardinality(Live) + 1
  /\ \A r : Live' = Live \ {r} /\ r \in Live => Cardinality(Live') = Cardinality(Live) - 1
<1>1. IsFiniteSet(Live)
  BY AsyncSrvThreads, FS_Subset DEF Live
<1>. QED BY <1>1, FS_CardinalityType, FS_AddElement, FS_RemoveElement

-----------------------------------------------------------------------------
(* Who moves, and who does not.                                              *)
LEMMA SpotMoves ==
  ASSUME AsyncTypeOK, NEW t \in Feeders \union Servers \union {Destroyer}, NEW p, MovesTo(t, p)
  PROVE  /\ DOMAIN spot' = Feeders \union Servers \union {Destroyer}
         /\ spot'[t] = p
         /\ \A u \in (Feeders \union Servers \union {Destroyer}) \ {t} : spot'[u] = spot[u]
         /\ t \in Feeders => \A w \in Servers : w # t
         /\ t \in Servers => \A f \in Feeders : f # t
         /\ t # Destroyer => spot'[Destroyer] = spot[Destroyer]
         /\ t = Destroyer => \A u \in Feeders \union Servers : u # t /\ spot'[u] = spot[u]
  BY AsyncSrvConstants DEF MovesTo, AsyncTypeOK

(* A feeder does something that concerns no place of a request.              *)
LEMMA FeederMoves ==
  ASSUME AsyncInv, NEW f \in Feeders, NEW p \in FeederSpots, MovesTo(f, p),
         spot[f] # "notify", p # "notify", spot[f] # "asleep",
         UNCHANGED <<queries, localQueue, query, stopThread, hungry, retried>>,
         crowded' = IF p = "asleep" THEN crowded \union {f} ELSE crowded,
         p = "asleep" => ~HasRoom /\ ~stopThread,
         fate' = IF p = "end" THEN [fate EXCEPT ![f] = "refused"] ELSE fate,
         spot[f] # "end",
         outstanding' = outstanding
           + (IF p \in {"push", "undo"} THEN 1 ELSE 0) - (IF spot[f] \in {"push", "undo"} THEN 1 ELSE 0)
  PROVE  AsyncInv'
<1>. USE DEF AsyncInv
<1>1. /\ DOMAIN spot' = Feeders \union Servers \union {Destroyer}
      /\ spot'[f] = p /\ \A g \in Feeders \ {f} : spot'[g] = spot[g]
      /\ \A w \in Servers : spot'[w] = spot[w] /\ w # f
      /\ spot'[Destroyer] = spot[Destroyer]
  BY SpotMoves, AsyncSrvConstants
<1>2. /\ fate' \in [Feeders -> {"none", "refused", "served", "dropped"}]
      /\ \A g \in Feeders \ {f} : fate'[g] = fate[g]
      /\ p # "end" => fate'[f] = fate[f]
      /\ p = "end" => fate'[f] = "refused"
      /\ fate[f] = "none"
  BY DEF AsyncTypeOK, PlacesOK, FeederSpots
<1>3. AsyncTypeOK'
  <2>1. hungry' = {w \in Servers : spot'[w] = "asleep"}
    BY <1>1 DEF AsyncTypeOK
  <2>2. crowded' = {g \in Feeders : spot'[g] = "asleep"}
    BY <1>1 DEF AsyncTypeOK
  <2>3. /\ \A g \in Feeders : spot'[g] \in FeederSpots
        /\ \A w \in Servers : spot'[w] \in ServerSpots
        /\ spot'[Destroyer] \in DestroyerSpots
    BY <1>1 DEF AsyncTypeOK
  <2>4. outstanding' \in Int
    BY DEF AsyncTypeOK
  <2>5. /\ queries' \in Seq(Feeders)
        /\ localQueue' \in [Servers -> Seq(Feeders)] /\ \A w \in Servers : Len(localQueue'[w]) <= Chunk
        /\ query' \in [Servers -> Feeders \union {NoQuery}]
        /\ stopThread' \in BOOLEAN /\ retried' \subseteq Feeders
    BY DEF AsyncTypeOK
  <2>. QED BY <1>1, <1>2, <2>1, <2>2, <2>3, <2>4, <2>5 DEF AsyncTypeOK
<1>4. PlacedApart'
  BY DEF PlacedApart, Own
<1>5. ~Present(f) /\ ~Present(f)' /\ \A g \in Feeders \ {f} : Present(g)' <=> Present(g)
  BY <1>1, <1>2 DEF Present, FeederSpots, AsyncTypeOK
<1>6. PresentPlaced'
  BY <1>5 DEF PresentPlaced, Placed, Own
<1>7. PlacesOK'
  BY <1>1, <1>2 DEF PlacesOK
<1>8. StopOK'
  BY <1>1 DEF StopOK
<1>9. SomeoneSees'
  <2>1. \A t \in Feeders \union Servers : Awake(t) => Awake(t)'
    BY <1>1 DEF Awake, AsyncTypeOK, FeederSpots
  <2>. QED BY <1>1, <2>1 DEF SomeoneSees, HasRoom
<1>10. outstanding' = Cardinality(Live')
  <2>1. f \in Live <=> spot[f] \in {"push", "undo"}
    BY <1>5 DEF Live
  <2>2. f \in Live' <=> p \in {"push", "undo"}
    BY <1>1, <1>5 DEF Live
  <2>3. \A g \in Feeders \ {f} : g \in Live' <=> g \in Live
    BY <1>1, <1>5 DEF Live
  <2>4. Live \subseteq Feeders /\ Live' \subseteq Feeders
    BY DEF Live
  <2>5. CASE f \in Live <=> f \in Live'
    <3>1. Live' = Live
      BY <2>3, <2>4, <2>5
    <3>. QED BY <2>1, <2>2, <2>5, <3>1, LiveChange
  <2>6. CASE f \in Live /\ f \notin Live'
    <3>1. Live' = Live \ {f}
      BY <2>3, <2>4, <2>6
    <3>2. Cardinality(Live') = Cardinality(Live) - 1 /\ Cardinality(Live) \in Int
      BY ONLY <2>6, <3>1, LiveChange
    <3>3. outstanding' = outstanding - 1
      BY <2>1, <2>2, <2>6 DEF AsyncTypeOK
    <3>. QED BY <3>2, <3>3
  <2>7. CASE f \notin Live /\ f \in Live'
    <3>1. Live' = Live \union {f}
      BY <2>3, <2>4, <2>7
    <3>2. Cardinality(Live') = Cardinality(Live) + 1 /\ Cardinality(Live) \in Int
      BY ONLY <2>7, <3>1, LiveChange
    <3>3. outstanding' = outstanding + 1
      BY <2>1, <2>2, <2>7 DEF AsyncTypeOK
    <3>. QED BY <3>2, <3>3
  <2>. QED BY <2>5, <2>6, <2>7
<1>. QED BY <1>3, <1>4, <1>6, <1>7, <1>8, <1>9, <1>10

LEMMA FeederSteps ==
  ASSUME AsyncInv, NEW f \in Feeders,
         \/ FindsRoom(f) \/ RefusedFull(f) \/ WaitPushCapacity(f) \/ RefusedStopped(f)
         \/ (PushNew(f) /\ stopThread)
  PROVE  AsyncInv'
<1>1. /\ {"push", "end", "asleep", "undo"} \subseteq FeederSpots
      /\ fate[f] \in {"none", "refused", "served", "dropped"} /\ fate \in [Feeders -> {"none", "refused", "served", "dropped"}]
      /\ spot[f] \in {"begin", "push", "undo"} => fate[f] = "none"
      /\ outstanding \in Int
  BY DEF FeederSpots, AsyncInv, AsyncTypeOK, PlacesOK
<1>3. CASE FindsRoom(f)
  BY <1>1, <1>3, FeederMoves DEF FindsRoom
<1>4. CASE RefusedFull(f)
  <2>1. /\ spot[f] = "begin" /\ MovesTo(f, "end") /\ fate' = [fate EXCEPT ![f] = "refused"]
        /\ UNCHANGED <<queries, localQueue, query, stopThread, hungry, crowded, retried>>
        /\ outstanding' = outstanding
             + (IF "end" \in {"push", "undo"} THEN 1 ELSE 0) - (IF spot[f] \in {"push", "undo"} THEN 1 ELSE 0)
    BY <1>1, <1>4 DEF RefusedFull
  <2>. QED BY <1>1, <2>1, FeederMoves
<1>5. CASE WaitPushCapacity(f)
  BY <1>1, <1>5, FeederMoves DEF WaitPushCapacity
<1>6. CASE RefusedStopped(f)
  <2>1. /\ spot[f] = "undo" /\ MovesTo(f, "end") /\ fate' = [fate EXCEPT ![f] = "refused"]
        /\ UNCHANGED <<queries, localQueue, query, stopThread, hungry, crowded, retried>>
        /\ outstanding' = outstanding
             + (IF "end" \in {"push", "undo"} THEN 1 ELSE 0) - (IF spot[f] \in {"push", "undo"} THEN 1 ELSE 0)
    BY <1>1, <1>6 DEF RefusedStopped
  <2>. QED BY <1>1, <2>1, FeederMoves
<1>7. CASE PushNew(f) /\ stopThread
  BY <1>1, <1>7, FeederMoves DEF PushNew
<1>. QED BY <1>3, <1>4, <1>5, <1>6, <1>7

LEMMA PushNewStep ==
  ASSUME AsyncInv, NEW f \in Feeders, PushNew(f), ~stopThread
  PROVE  AsyncInv'
<1>. USE DEF AsyncInv
<1>1. /\ spot[f] = "push" /\ MovesTo(f, "notify") /\ queries' = Append(queries, f)
      /\ UNCHANGED <<localQueue, query, stopThread, outstanding, hungry, crowded, retried, fate>>
  BY DEF PushNew
<1>2. /\ DOMAIN spot' = Feeders \union Servers \union {Destroyer}
      /\ spot'[f] = "notify" /\ \A g \in Feeders \ {f} : spot'[g] = spot[g]
      /\ \A w \in Servers : spot'[w] = spot[w] /\ w # f
      /\ spot'[Destroyer] = spot[Destroyer]
  BY <1>1, SpotMoves, AsyncSrvConstants
<1>3. fate[f] = "none" /\ ~Present(f) /\ Present(f)' /\ \A g \in Feeders \ {f} : Present(g)' <=> Present(g)
  BY <1>1, <1>2 DEF PlacesOK, Present
<1>4. ~Placed(f)
  BY <1>3 DEF PresentPlaced
<1>5. /\ queries' \in Seq(Feeders) /\ queries' # <<>>
      /\ ToSet(queries') = ToSet(queries) \union {f} /\ IsInjective(queries')
  BY <1>1, <1>4, AppendOnce DEF AsyncTypeOK, PlacedApart, Placed
<1>6. AsyncTypeOK'
  BY <1>1, <1>2, <1>5 DEF AsyncTypeOK, FeederSpots
<1>7. PlacedApart'
  BY <1>1, <1>4, <1>5 DEF PlacedApart, Placed, Own
<1>8. PresentPlaced'
  <2>1. \A g \in Feeders : Placed(g)' <=> Placed(g) \/ g = f
    BY <1>1, <1>5 DEF Placed, Own
  <2>. QED BY <1>3, <2>1 DEF PresentPlaced
<1>9. PlacesOK'
  BY <1>1, <1>2 DEF PlacesOK
<1>10. StopOK'
  BY <1>1, <1>2 DEF StopOK
<1>11. SomeoneSees'
  <2>1. Awake(f)'
    BY <1>2 DEF Awake
  <2>2. HasRoom' => HasRoom
    <3>1. Len(queries') = Len(queries) + 1 /\ Len(queries) \in Nat
      BY <1>1 DEF AsyncTypeOK
    <3>. QED BY <3>1, AsyncSrvConstants DEF HasRoom
  <2>. QED BY <1>1, <1>2, <2>1, <2>2 DEF SomeoneSees
<1>12. outstanding' = Cardinality(Live')
  <2>1. Live' = Live
    BY <1>1, <1>2, <1>3 DEF Live
  <2>. QED BY <1>1, <2>1
<1>. QED BY <1>6, <1>7, <1>8, <1>9, <1>10, <1>11, <1>12

(* Threads move, and the requests stay where they are.                       *)
LEMMA OnlyMoves ==
  ASSUME AsyncInv, UNCHANGED <<queries, localQueue, query, outstanding, fate>>,
         \A f \in Feeders : \/ spot'[f] = spot[f]
                            \/ spot[f] = "notify" /\ spot'[f] = "end"
                            \/ spot[f] = "asleep" /\ spot'[f] = "begin"
  PROVE  /\ PlacedApart' /\ PresentPlaced' /\ outstanding' = Cardinality(Live')
         /\ \A f \in Feeders : spot'[f] \in FeederSpots
         /\ \A f \in Feeders : spot'[f] \in {"begin", "asleep", "push", "undo"} => fate'[f] = "none"
<1>. USE DEF AsyncInv
<1>1. \A f \in Feeders : /\ Present(f)' <=> Present(f)
                         /\ spot'[f] \in {"push", "undo"} <=> spot[f] \in {"push", "undo"}
  BY DEF Present
<1>2. Live' = Live
  BY <1>1 DEF Live
<1>3. PlacedApart'
  BY DEF PlacedApart, Own
<1>4. PresentPlaced'
  BY <1>1 DEF PresentPlaced, Placed, Own
<1>5. /\ \A f \in Feeders : spot'[f] \in FeederSpots
      /\ \A f \in Feeders : spot'[f] \in {"begin", "asleep", "push", "undo"} => fate'[f] = "none"
  BY DEF AsyncTypeOK, FeederSpots, PlacesOK
<1>. QED BY <1>2, <1>3, <1>4, <1>5

LEMMA NotifyServerStep ==
  ASSUME AsyncInv, NEW t \in Feeders \union Servers, NotifyServer(t)
  PROVE  AsyncInv'
<1>. USE DEF AsyncInv
<1>1. PICK woken \in IF hungry = {} THEN {{}} ELSE {{w} : w \in hungry} :
         /\ hungry' = hungry \ woken
         /\ spot' = [u \in DOMAIN spot |->
                        IF u \in woken \union (Servers \intersect {t}) THEN "pop"
                        ELSE IF u = t THEN "end" ELSE spot[u]]
  BY DEF NotifyServer
<1>2. /\ spot[t] = "notify"
      /\ UNCHANGED <<queries, localQueue, query, stopThread, outstanding, crowded, retried, fate>>
  BY DEF NotifyServer
<1>3. /\ woken \subseteq hungry /\ hungry \subseteq Servers /\ (hungry # {} => woken # {})
      /\ \A w \in woken : spot[w] = "asleep"
      /\ \A u \in Servers : u \notin Feeders /\ u # Destroyer
      /\ Destroyer \notin Feeders
  BY <1>1, AsyncSrvConstants DEF AsyncTypeOK
<1>4. /\ DOMAIN spot' = Feeders \union Servers \union {Destroyer}
      /\ \A w \in Servers : spot'[w] = IF w \in woken \/ w = t THEN "pop" ELSE spot[w]
      /\ \A f \in Feeders : spot'[f] = IF f = t THEN "end" ELSE spot[f]
      /\ spot'[Destroyer] = spot[Destroyer]
  <2>1. DOMAIN spot = Feeders \union Servers \union {Destroyer}
    BY DEF AsyncTypeOK
  <2>2. t # Destroyer
    BY AsyncSrvConstants
  <2>. QED BY <1>1, <1>3, <2>1, <2>2
<1>5. /\ PlacedApart' /\ PresentPlaced' /\ outstanding' = Cardinality(Live')
      /\ \A f \in Feeders : spot'[f] \in FeederSpots
      /\ \A f \in Feeders : spot'[f] \in {"begin", "asleep", "push", "undo"} => fate'[f] = "none"
  BY <1>2, <1>4, OnlyMoves
<1>6. /\ hungry' = {w \in Servers : spot'[w] = "asleep"}
      /\ crowded' = {f \in Feeders : spot'[f] = "asleep"}
      /\ \A w \in Servers : spot'[w] \in ServerSpots
  BY <1>1, <1>2, <1>3, <1>4 DEF AsyncTypeOK, ServerSpots
<1>7. AsyncTypeOK'
  BY <1>2, <1>4, <1>5, <1>6 DEF AsyncTypeOK
<1>8. PlacesOK'
  <2>1. \A w \in Servers : spot'[w] = spot[w] \/ (spot'[w] = "pop" /\ spot[w] \in {"asleep", "notify"})
    BY <1>2, <1>3, <1>4
  <2>. QED BY <1>2, <1>5, <2>1 DEF PlacesOK
<1>9. StopOK'
  BY <1>2, <1>3, <1>4, <1>1 DEF StopOK
<1>10. SomeoneSees'
  <2>1. hungry # {} => \E w \in Servers : Awake(w)'
    BY <1>3, <1>4 DEF Awake
  <2>2. hungry' # {} => hungry # {}
    BY <1>1
  <2>3. \A w \in Servers : spot[w] = "room" => spot'[w] = "room"
    BY <1>2, <1>3, <1>4
  <2>. QED BY <1>2, <1>4, <2>1, <2>2, <2>3 DEF SomeoneSees, HasRoom
<1>. QED BY <1>5, <1>7, <1>8, <1>9, <1>10

LEMMA PopSleepsStep ==
  ASSUME AsyncInv, NEW w \in Servers, PopSleeps(w) \/ PopNothing(w) \/ HandlerTimedOut(w)
  PROVE  AsyncInv'
<1>. USE DEF AsyncInv
<1>1. PICK p \in {"asleep", "exited", "retry"} : MovesTo(w, p)
  BY DEF PopSleeps, PopNothing, HandlerTimedOut
<1>2. /\ DOMAIN spot' = Feeders \union Servers \union {Destroyer}
      /\ spot'[w] = p /\ \A v \in Servers \ {w} : spot'[v] = spot[v]
      /\ \A f \in Feeders : spot'[f] = spot[f] /\ f # w
      /\ spot'[Destroyer] = spot[Destroyer]
  BY <1>1, SpotMoves, AsyncSrvConstants
<1>3. /\ UNCHANGED <<queries, localQueue, query, stopThread, outstanding, crowded, fate>>
      /\ p = "asleep" => PopSleeps(w)
      /\ p = "exited" => PopNothing(w)
      /\ p = "retry" => HandlerTimedOut(w)
  <2>1. spot'[w] = p
    BY <1>2
  <2>2. PopSleeps(w) => spot'[w] = "asleep"
    BY <1>2, SpotMoves DEF PopSleeps
  <2>3. PopNothing(w) => spot'[w] = "exited"
    BY <1>2, SpotMoves DEF PopNothing
  <2>4. HandlerTimedOut(w) => spot'[w] = "retry"
    BY <1>2, SpotMoves DEF HandlerTimedOut
  <2>. QED BY <2>1, <2>2, <2>3, <2>4 DEF PopSleeps, PopNothing, HandlerTimedOut
<1>4. /\ PlacedApart' /\ PresentPlaced' /\ outstanding' = Cardinality(Live')
      /\ \A f \in Feeders : spot'[f] \in FeederSpots
      /\ \A f \in Feeders : spot'[f] \in {"begin", "asleep", "push", "undo"} => fate'[f] = "none"
  BY <1>2, <1>3, OnlyMoves
<1>5. AsyncTypeOK'
  <2>1. hungry' = {v \in Servers : spot'[v] = "asleep"} /\ retried' \subseteq Feeders
    <3>1. CASE p = "asleep"
      BY <1>2, <1>3, <3>1 DEF PopSleeps, AsyncTypeOK
    <3>2. CASE p = "exited"
      BY <1>2, <1>3, <3>2 DEF PopNothing, AsyncTypeOK
    <3>3. CASE p = "retry"
      <4>1. query[w] \in Feeders
        BY <1>3, <3>3 DEF HandlerTimedOut, PlacesOK, AsyncTypeOK
      <4>. QED BY <1>2, <1>3, <3>3, <4>1 DEF HandlerTimedOut, AsyncTypeOK
    <3>. QED BY <3>1, <3>2, <3>3
  <2>2. \A v \in Servers : spot'[v] \in ServerSpots
    BY <1>2 DEF AsyncTypeOK, ServerSpots
  <2>. QED BY <1>2, <1>3, <1>4, <2>1, <2>2 DEF AsyncTypeOK
<1>6. PlacesOK'
  <2>1. /\ p = "asleep" => spot[w] = "pop" /\ localQueue[w] = <<>>
        /\ p = "exited" => spot[w] = "pop" /\ localQueue[w] = <<>> /\ queries = <<>> /\ stopThread
        /\ p = "retry" => spot[w] = "handle"
    BY <1>3 DEF PopSleeps, PopNothing, HandlerTimedOut
  <2>2. ASSUME NEW v \in Servers
        PROVE  /\ query'[v] # NoQuery <=> spot'[v] \in {"handle", "retry"}
               /\ spot'[v] \in {"asleep", "exited"} => localQueue'[v] = <<>>
               /\ spot'[v] = "exited" => stopThread' /\ queries' = <<>>
    BY <1>2, <1>3, <2>1 DEF PlacesOK
  <2>. QED BY <1>4, <2>2 DEF PlacesOK
<1>7. StopOK'
  <2>1. hungry' = hungry \/ ~stopThread
    BY <1>3 DEF PopSleeps, PopNothing, HandlerTimedOut
  <2>2. \A v \in Servers : spot[v] = "exited" => spot'[v] = "exited"
    BY <1>2, <1>3 DEF PopSleeps, PopNothing, HandlerTimedOut
  <2>. QED BY <1>2, <1>3, <2>1, <2>2 DEF StopOK
<1>8. SomeoneSees'
  <2>1. \A v \in Servers : spot[v] = "room" => spot'[v] = "room"
    BY <1>2, <1>3 DEF PopSleeps, PopNothing, HandlerTimedOut
  <2>2. \A t \in Feeders \union Servers : Awake(t) => Awake(t)' \/ t = w
    BY <1>2 DEF Awake
  <2>3. CASE p = "asleep"
    <3>1. queries = <<>> /\ ~stopThread
      BY <1>3, <2>3 DEF PopSleeps
    <3>. QED BY <1>2, <1>3, <2>1, <3>1 DEF SomeoneSees, HasRoom
  <2>4. CASE p = "exited"
    <3>1. stopThread /\ hungry' = hungry
      BY <1>3, <2>4 DEF PopNothing
    <3>2. hungry # {} => spot[Destroyer] = "wake"
      BY <3>1 DEF StopOK
    <3>. QED BY <1>2, <1>3, <2>1, <3>1, <3>2 DEF SomeoneSees, HasRoom
  <2>5. CASE p = "retry"
    <3>1. Awake(w)' /\ hungry' = hungry
      BY <1>2, <1>3, <2>5 DEF Awake, HandlerTimedOut
    <3>. QED BY <1>2, <1>3, <2>1, <3>1 DEF SomeoneSees, HasRoom
  <2>. QED BY <2>3, <2>4, <2>5
<1>. QED BY <1>4, <1>5, <1>6, <1>7, <1>8

LEMMA NotifyFeedersStep ==
  ASSUME AsyncInv, NEW w \in Servers, NotifyFeeders(w)
  PROVE  AsyncInv'
<1>. USE DEF AsyncInv
<1>1. /\ spot[w] = "room" /\ crowded' = {}
      /\ spot' = [u \in DOMAIN spot |->
                   IF u \in crowded THEN "begin" ELSE IF u = w THEN "pop" ELSE spot[u]]
      /\ UNCHANGED <<queries, localQueue, query, stopThread, outstanding, hungry, retried, fate>>
  BY DEF NotifyFeeders
<1>2. /\ crowded \subseteq Feeders /\ \A f \in crowded : spot[f] = "asleep"
      /\ \A f \in Feeders \ crowded : spot[f] # "asleep"
      /\ \A u \in Servers : u \notin Feeders /\ u # Destroyer
      /\ Destroyer \notin Feeders
      /\ DOMAIN spot = Feeders \union Servers \union {Destroyer}
  BY AsyncSrvConstants DEF AsyncTypeOK
<1>3. /\ DOMAIN spot' = Feeders \union Servers \union {Destroyer}
      /\ spot'[w] = "pop" /\ \A v \in Servers \ {w} : spot'[v] = spot[v]
      /\ \A f \in Feeders : spot'[f] = IF f \in crowded THEN "begin" ELSE spot[f]
      /\ spot'[Destroyer] = spot[Destroyer]
  BY <1>1, <1>2
<1>4. /\ PlacedApart' /\ PresentPlaced' /\ outstanding' = Cardinality(Live')
      /\ \A f \in Feeders : spot'[f] \in FeederSpots
      /\ \A f \in Feeders : spot'[f] \in {"begin", "asleep", "push", "undo"} => fate'[f] = "none"
  BY <1>1, <1>2, <1>3, OnlyMoves
<1>5. /\ hungry' = {v \in Servers : spot'[v] = "asleep"}
      /\ crowded' = {f \in Feeders : spot'[f] = "asleep"}
      /\ \A v \in Servers : spot'[v] \in ServerSpots
  BY <1>1, <1>2, <1>3 DEF AsyncTypeOK, ServerSpots
<1>6. AsyncTypeOK'
  BY <1>1, <1>3, <1>4, <1>5 DEF AsyncTypeOK
<1>7. PlacesOK'
  BY <1>1, <1>3, <1>4 DEF PlacesOK
<1>8. StopOK'
  BY <1>1, <1>3 DEF StopOK
<1>9. SomeoneSees'
  <2>1. Awake(w)'
    BY <1>3 DEF Awake
  <2>. QED BY <1>1, <1>3, <2>1 DEF SomeoneSees
<1>. QED BY <1>4, <1>6, <1>7, <1>8, <1>9

-----------------------------------------------------------------------------
(* Requests go from place to place.                                          *)
LEMMA PopLocalStep ==
  ASSUME AsyncInv, NEW w \in Servers, PopLocal(w)
  PROVE  AsyncInv'
<1>. USE DEF AsyncInv
<1> DEFINE r == Head(localQueue[w])
<1>1. /\ spot[w] = "pop" /\ localQueue[w] # <<>> /\ MovesTo(w, "handle")
      /\ query' = [query EXCEPT ![w] = r]
      /\ localQueue' = [localQueue EXCEPT ![w] = Tail(localQueue[w])]
      /\ UNCHANGED <<queries, stopThread, outstanding, hungry, crowded, retried, fate>>
  BY DEF PopLocal
<1>2. /\ DOMAIN spot' = Feeders \union Servers \union {Destroyer}
      /\ spot'[w] = "handle" /\ \A v \in Servers \ {w} : spot'[v] = spot[v]
      /\ \A f \in Feeders : spot'[f] = spot[f] /\ f # w
      /\ spot'[Destroyer] = spot[Destroyer]
  BY <1>1, SpotMoves, AsyncSrvConstants
<1>3. /\ Tail(localQueue[w]) \in Seq(Feeders) /\ Len(Tail(localQueue[w])) <= Chunk
      /\ r \in Feeders /\ r \in Own(w) /\ r # NoQuery
      /\ ToSet(Tail(localQueue[w])) = Own(w) \ {r} /\ IsInjective(Tail(localQueue[w]))
  <2>1. /\ localQueue[w] \in Seq(Feeders) /\ IsInjective(localQueue[w])
        /\ Len(localQueue[w]) <= Chunk /\ Len(localQueue[w]) \in Nat
    BY DEF AsyncTypeOK, PlacedApart
  <2>2. /\ Tail(localQueue[w]) \in Seq(Feeders) /\ Len(Tail(localQueue[w])) = Len(localQueue[w]) - 1
        /\ r \in Feeders /\ r \in ToSet(localQueue[w])
        /\ ToSet(Tail(localQueue[w])) = ToSet(localQueue[w]) \ {r} /\ IsInjective(Tail(localQueue[w]))
    BY <1>1, <2>1, TailOnce
  <2>. QED BY <2>1, <2>2, AsyncSrvConstants DEF Own
<1>. HIDE DEF r
<1>4. /\ localQueue'[w] = Tail(localQueue[w]) /\ \A v \in Servers \ {w} : localQueue'[v] = localQueue[v]
      /\ query'[w] = r /\ \A v \in Servers \ {w} : query'[v] = query[v]
      /\ localQueue' \in [Servers -> Seq(Feeders)] /\ query' \in [Servers -> Feeders \union {NoQuery}]
  BY <1>1, <1>3 DEF AsyncTypeOK
<1>5. /\ Own(w)' = Own(w) \ {r} /\ \A v \in Servers \ {w} : Own(v)' = Own(v)
      /\ query[w] = NoQuery
  BY <1>1, <1>3, <1>4 DEF Own, PlacesOK
<1>6. AsyncTypeOK'
  <2>1. hungry' = {v \in Servers : spot'[v] = "asleep"} /\ crowded' = {f \in Feeders : spot'[f] = "asleep"}
        /\ \A v \in Servers : spot'[v] \in ServerSpots
    BY <1>1, <1>2 DEF AsyncTypeOK, ServerSpots
  <2>2. \A v \in Servers : Len(localQueue'[v]) <= Chunk
    BY <1>3, <1>4 DEF AsyncTypeOK
  <2>. QED BY <1>1, <1>2, <1>4, <2>1, <2>2 DEF AsyncTypeOK
<1>7. PlacedApart'
  <2>1. /\ IsInjective(queries') /\ \A v \in Servers : IsInjective(localQueue'[v])
    BY <1>1, <1>3, <1>4 DEF PlacedApart
  <2>2. r \notin ToSet(queries) /\ \A v \in Servers \ {w} : r \notin Own(v) /\ query[v] # r
    BY <1>3 DEF PlacedApart
  <2>3. \A v \in Servers : ToSet(queries') \intersect Own(v)' = {} /\ query'[v] \notin ToSet(queries')
    BY <1>1, <1>4, <1>5, <2>2 DEF PlacedApart
  <2>0. /\ \A u, v \in Servers : query[u] \notin Own(v)
        /\ \A u \in Servers : \A v \in Servers \ {u} :
             Own(u) \intersect Own(v) = {} /\ (query[u] = query[v] => query[u] = NoQuery)
    BY DEF PlacedApart
  <2>6. \A v \in Servers : Own(v)' \subseteq Own(v) /\ r \notin Own(v)'
    BY <1>5, <2>2
  <2>7. \A u \in Servers : query'[u] = r \/ query'[u] = query[u]
    BY <1>4
  <2>4. \A u, v \in Servers : query'[u] \notin Own(v)'
    BY ONLY <2>0, <2>6, <2>7
  <2>8. \A u, v \in Servers : u # v => Own(u)' \intersect Own(v)' = {}
    <3>1. \A u, v \in Servers : u # v => Own(u) \intersect Own(v) = {}
      BY ONLY <2>0
    <3>. QED BY ONLY <3>1, <2>6
  <2>9. \A u \in Servers : \A v \in Servers \ {u} : query'[u] = query'[v] => query'[u] = NoQuery
    <3>1. \A u \in Servers \ {w} : query'[u] = query[u] /\ query[u] # r
      BY <1>4, <2>2
    <3>2. query'[w] = r
      BY <1>4
    <3>. QED BY ONLY <2>0, <3>1, <3>2
  <2>5. \A u \in Servers : \A v \in Servers \ {u} :
           Own(u)' \intersect Own(v)' = {} /\ (query'[u] = query'[v] => query'[u] = NoQuery)
    BY ONLY <2>8, <2>9
  <2>. QED BY <2>1, <2>3, <2>4, <2>5 DEF PlacedApart
<1>8. /\ \A f \in Feeders : Present(f)' <=> Present(f)
      /\ \A f \in Feeders : spot'[f] \in {"push", "undo"} <=> spot[f] \in {"push", "undo"}
  BY <1>1, <1>2 DEF Present
<1>9. PresentPlaced'
  <2>1. \A f \in Feeders : Placed(f)' <=> Placed(f)
    BY <1>1, <1>3, <1>4, <1>5, AsyncSrvConstants DEF Placed
  <2>. QED BY <1>8, <2>1 DEF PresentPlaced
<1>10. PlacesOK'
  <2>1. PlacesOK
    BY DEF AsyncInv
  <2>2. \A f \in Feeders : spot'[f] = spot[f]
    BY <1>2
  <2>3. fate' = fate /\ stopThread' = stopThread /\ queries' = queries
    BY <1>1
  <2>4. ASSUME NEW v \in Servers
        PROVE  /\ query'[v] # NoQuery <=> spot'[v] \in {"handle", "retry"}
               /\ spot'[v] \in {"asleep", "exited"} => localQueue'[v] = <<>>
               /\ spot'[v] = "exited" => stopThread' /\ queries' = <<>>
    <3>1. CASE v = w
      BY <1>2, <1>3, <1>4, <3>1
    <3>2. CASE v # w
      <4>1. query'[v] = query[v] /\ spot'[v] = spot[v] /\ localQueue'[v] = localQueue[v]
        BY <1>2, <1>4, <3>2
      <4>. QED BY <2>1, <2>3, <4>1 DEF PlacesOK
    <3>. QED BY <3>1, <3>2
  <2>. QED BY <2>1, <2>2, <2>3, <2>4 DEF PlacesOK
<1>11. StopOK'
  BY <1>1, <1>2 DEF StopOK
<1>12. SomeoneSees'
  <2>1. Awake(w)'
    BY <1>2 DEF Awake
  <2>. QED BY <1>1, <1>2, <2>1 DEF SomeoneSees, HasRoom
<1>13. Live' = Live
  BY <1>8 DEF Live
<1>. QED BY <1>1, <1>6, <1>7, <1>9, <1>10, <1>11, <1>12, <1>13

LEMMA SwapChunkStep ==
  ASSUME AsyncInv, NEW w \in Servers, SwapChunk(w)
  PROVE  AsyncInv'
<1>. USE DEF AsyncInv
<1> DEFINE n == IF Len(queries) < Chunk THEN Len(queries) ELSE Chunk
           a == SubSeq(queries, 1, n)
           b == SubSeq(queries, n + 1, Len(queries))
<1>1. /\ spot[w] = "pop" /\ localQueue[w] = <<>> /\ queries # <<>> /\ MovesTo(w, "room")
      /\ localQueue' = [localQueue EXCEPT ![w] = a] /\ queries' = b
      /\ UNCHANGED <<query, stopThread, outstanding, hungry, crowded, retried, fate>>
  BY DEF SwapChunk
<1>2. /\ DOMAIN spot' = Feeders \union Servers \union {Destroyer}
      /\ spot'[w] = "room" /\ \A v \in Servers \ {w} : spot'[v] = spot[v]
      /\ \A f \in Feeders : spot'[f] = spot[f] /\ f # w
      /\ spot'[Destroyer] = spot[Destroyer]
  BY <1>1, SpotMoves, AsyncSrvConstants
<1>3. /\ a \in Seq(Feeders) /\ b \in Seq(Feeders) /\ Len(a) <= Chunk
      /\ IsInjective(a) /\ IsInjective(b)
      /\ ToSet(a) \union ToSet(b) = ToSet(queries) /\ ToSet(a) \intersect ToSet(b) = {}
  <2>1. queries \in Seq(Feeders) /\ IsInjective(queries) /\ Len(queries) \in Nat
    BY DEF AsyncTypeOK, PlacedApart
  <2>2. n \in 0..Len(queries) /\ n <= Chunk
    BY <2>1, AsyncSrvConstants
  <2>. HIDE DEF n
  <2>3. /\ a \in Seq(Feeders) /\ b \in Seq(Feeders) /\ Len(a) = n
        /\ IsInjective(a) /\ IsInjective(b)
        /\ ToSet(a) \union ToSet(b) = ToSet(queries) /\ ToSet(a) \intersect ToSet(b) = {}
    BY <2>1, <2>2, SplitOnce
  <2>. QED BY <2>2, <2>3
<1>. HIDE DEF a, b, n
<1>4. /\ localQueue'[w] = a /\ \A v \in Servers \ {w} : localQueue'[v] = localQueue[v]
      /\ localQueue' \in [Servers -> Seq(Feeders)]
  BY <1>1, <1>3 DEF AsyncTypeOK
<1>5. /\ Own(w)' = ToSet(a) /\ \A v \in Servers \ {w} : Own(v)' = Own(v)
      /\ Own(w) = {} /\ ToSet(queries') = ToSet(b)
  <2>1. Own(w) = {}
    BY <1>1, NothingQueued DEF Own, AsyncTypeOK
  <2>. QED BY <1>1, <1>4, <2>1 DEF Own
<1>6. AsyncTypeOK'
  <2>1. hungry' = {v \in Servers : spot'[v] = "asleep"} /\ crowded' = {f \in Feeders : spot'[f] = "asleep"}
        /\ \A v \in Servers : spot'[v] \in ServerSpots
    BY <1>1, <1>2 DEF AsyncTypeOK, ServerSpots
  <2>2. \A v \in Servers : Len(localQueue'[v]) <= Chunk
    BY <1>3, <1>4 DEF AsyncTypeOK
  <2>. QED BY <1>1, <1>2, <1>3, <1>4, <2>1, <2>2 DEF AsyncTypeOK
<1>7. PlacedApart'
  <2>1. /\ IsInjective(queries') /\ \A v \in Servers : IsInjective(localQueue'[v])
    BY <1>1, <1>3, <1>4 DEF PlacedApart
  <2>3. \A v \in Servers : ToSet(queries') \intersect Own(v)' = {} /\ query'[v] \notin ToSet(queries')
    BY <1>1, <1>3, <1>5 DEF PlacedApart
  <2>4. \A u, v \in Servers : query'[u] \notin Own(v)'
    BY <1>1, <1>3, <1>5 DEF PlacedApart
  <2>5. \A u \in Servers : \A v \in Servers \ {u} :
           Own(u)' \intersect Own(v)' = {} /\ (query'[u] = query'[v] => query'[u] = NoQuery)
    <3>1. \A v \in Servers \ {w} : ToSet(a) \intersect Own(v) = {}
      BY <1>3 DEF PlacedApart
    <3>. QED BY <1>1, <1>5, <3>1 DEF PlacedApart
  <2>. QED BY <2>1, <2>3, <2>4, <2>5 DEF PlacedApart
<1>8. /\ \A f \in Feeders : Present(f)' <=> Present(f)
      /\ \A f \in Feeders : spot'[f] \in {"push", "undo"} <=> spot[f] \in {"push", "undo"}
  BY <1>1, <1>2 DEF Present
<1>9. PresentPlaced'
  <2>1. \A f \in Feeders : Placed(f)' <=> Placed(f)
    <3>. SUFFICES ASSUME NEW f \in Feeders PROVE Placed(f)' <=> Placed(f)
      OBVIOUS
    <3>1. f \in ToSet(queries) \/ f \in Own(w) <=> f \in ToSet(queries') \/ f \in Own(w)'
      BY <1>3, <1>5
    <3>2. /\ \A v \in Servers \ {w} : f \in Own(v) <=> f \in Own(v)'
          /\ \A v \in Servers : query'[v] = query[v]
      BY <1>1, <1>5
    <3>3. Placed(f) <=> \/ f \in ToSet(queries) \/ f \in Own(w)
                        \/ \E v \in Servers \ {w} : f \in Own(v)
                        \/ \E v \in Servers : query[v] = f
      BY DEF Placed
    <3>4. Placed(f)' <=> \/ f \in ToSet(queries') \/ f \in Own(w)'
                         \/ \E v \in Servers \ {w} : f \in Own(v)'
                         \/ \E v \in Servers : query'[v] = f
      BY DEF Placed
    <3>. QED BY <3>1, <3>2, <3>3, <3>4
  <2>. QED BY <1>8, <2>1 DEF PresentPlaced
<1>10. PlacesOK'
  <2>1. \A v \in Servers : spot[v] # "exited" \/ queries' = <<>>
    BY <1>1 DEF PlacesOK
  <2>. QED BY <1>1, <1>2, <1>4, <2>1 DEF PlacesOK
<1>11. StopOK'
  BY <1>1, <1>2 DEF StopOK
<1>12. SomeoneSees'
  <2>1. Awake(w)' /\ spot'[w] = "room"
    BY <1>2 DEF Awake
  <2>. QED BY <2>1 DEF SomeoneSees
<1>13. Live' = Live
  BY <1>8 DEF Live
<1>. QED BY <1>1, <1>6, <1>7, <1>9, <1>10, <1>11, <1>12, <1>13

LEMMA OverStep ==
  ASSUME AsyncInv, NEW w \in Servers, Handled(w) \/ RetryDropped(w)
  PROVE  AsyncInv'
<1>. USE DEF AsyncInv
<1>0. PICK r : r = query[w]
  OBVIOUS
<1>1. PICK as \in {"served", "dropped"} :
        /\ fate' = [fate EXCEPT ![r] = as] /\ outstanding' = outstanding - 1
        /\ query' = [query EXCEPT ![w] = NoQuery] /\ MovesTo(w, "pop")
        /\ spot[w] \in {"handle", "retry"}
        /\ UNCHANGED <<queries, localQueue, stopThread, hungry, crowded, retried>>
  BY <1>0 DEF Handled, RetryDropped, Over
<1>2. /\ DOMAIN spot' = Feeders \union Servers \union {Destroyer}
      /\ spot'[w] = "pop" /\ \A v \in Servers \ {w} : spot'[v] = spot[v]
      /\ \A f \in Feeders : spot'[f] = spot[f] /\ f # w
      /\ spot'[Destroyer] = spot[Destroyer]
  BY <1>1, SpotMoves, AsyncSrvConstants
<1>3. r \in Feeders /\ r # NoQuery /\ NoQuery \notin Feeders
  BY <1>0, <1>1, AsyncSrvConstants DEF AsyncTypeOK, PlacesOK
<1>4. /\ fate' \in [Feeders -> {"none", "refused", "served", "dropped"}]
      /\ fate'[r] = as /\ \A f \in Feeders \ {r} : fate'[f] = fate[f]
      /\ query' \in [Servers -> Feeders \union {NoQuery}]
      /\ query'[w] = NoQuery /\ \A v \in Servers \ {w} : query'[v] = query[v]
  BY <1>1, <1>3 DEF AsyncTypeOK
<1>5. Present(r)
  BY <1>0, <1>3 DEF PresentPlaced, Placed
<1>6. AsyncTypeOK'
  <2>1. hungry' = {v \in Servers : spot'[v] = "asleep"} /\ crowded' = {f \in Feeders : spot'[f] = "asleep"}
        /\ \A v \in Servers : spot'[v] \in ServerSpots
    BY <1>1, <1>2 DEF AsyncTypeOK, ServerSpots
  <2>2. outstanding' \in Int
    BY <1>1 DEF AsyncTypeOK
  <2>3. \A f \in Feeders : spot'[f] \in FeederSpots
    BY <1>2 DEF AsyncTypeOK
  <2>. QED BY <1>1, <1>2, <1>4, <2>1, <2>2, <2>3 DEF AsyncTypeOK
<1>7. \A v \in Servers : Own(v)' = Own(v)
  BY <1>1 DEF Own
<1>8. /\ r \notin ToSet(queries) /\ \A v \in Servers : r \notin Own(v)
      /\ \A v \in Servers \ {w} : query[v] # r
      /\ query[w] = r
  BY <1>0, <1>3 DEF PlacedApart
<1>9. PlacedApart'
  <2>1. ToSet(queries) \subseteq Feeders /\ \A v \in Servers : Own(v) \subseteq Feeders
    BY DEF AsyncTypeOK, ToSet, Own
  <2>. QED BY <1>1, <1>3, <1>4, <1>7, <2>1 DEF PlacedApart
<1>10. /\ ~Present(r)' /\ \A f \in Feeders \ {r} : Present(f)' <=> Present(f)
       /\ \A f \in Feeders : spot'[f] \in {"push", "undo"} <=> spot[f] \in {"push", "undo"}
  BY <1>1, <1>2, <1>4 DEF Present
<1>11. PresentPlaced'
  <2>1. ~Placed(r)'
    BY <1>1, <1>3, <1>4, <1>7, <1>8 DEF Placed
  <2>2. \A f \in Feeders \ {r} : Placed(f)' <=> Placed(f)
    BY <1>1, <1>3, <1>4, <1>7, <1>8 DEF Placed
  <2>. QED BY <1>10, <2>1, <2>2 DEF PresentPlaced
<1>12. PlacesOK'
  <2>1. \A f \in Feeders : spot'[f] \in {"begin", "asleep", "push", "undo"} => fate'[f] = "none"
    BY <1>2, <1>4, <1>5 DEF PlacesOK, Present
  <2>2. ASSUME NEW v \in Servers
        PROVE  /\ query'[v] # NoQuery <=> spot'[v] \in {"handle", "retry"}
               /\ spot'[v] \in {"asleep", "exited"} => localQueue'[v] = <<>>
               /\ spot'[v] = "exited" => stopThread' /\ queries' = <<>>
    BY <1>1, <1>2, <1>4 DEF PlacesOK
  <2>. QED BY <2>1, <2>2 DEF PlacesOK
<1>13. StopOK'
  <2>1. spot[w] # "exited"
    BY <1>1
  <2>. QED BY <1>1, <1>2, <2>1 DEF StopOK
<1>14. SomeoneSees'
  <2>1. Awake(w)' /\ \A v \in Servers : spot[v] = "room" => spot'[v] = "room"
    BY <1>1, <1>2 DEF Awake
  <2>. QED BY <1>1, <1>2, <2>1 DEF SomeoneSees, HasRoom
<1>15. outstanding' = Cardinality(Live')
  <2>1. r \in Live /\ r \notin Live'
    BY <1>2, <1>3, <1>5, <1>10 DEF Live, Present
  <2>2. Live' = Live \ {r}
    BY <1>10, <2>1 DEF Live
  <2>3. Cardinality(Live') = Cardinality(Live) - 1
    BY ONLY <2>1, <2>2, LiveChange
  <2>. QED BY <1>1, <2>3
<1>. QED BY <1>6, <1>9, <1>11, <1>12, <1>13, <1>14, <1>15

LEMMA PushRetryStep ==
  ASSUME AsyncInv, NEW w \in Servers, PushRetry(w)
  PROVE  AsyncInv'
<1>. USE DEF AsyncInv
<1>0. PICK r : r = query[w]
  OBVIOUS
<1>1. /\ queries' = Append(queries, r) /\ ~stopThread
      /\ query' = [query EXCEPT ![w] = NoQuery] /\ MovesTo(w, "notify")
      /\ spot[w] = "retry"
      /\ UNCHANGED <<localQueue, stopThread, outstanding, hungry, crowded, retried, fate>>
  BY <1>0 DEF PushRetry
<1>2. /\ DOMAIN spot' = Feeders \union Servers \union {Destroyer}
      /\ spot'[w] = "notify" /\ \A v \in Servers \ {w} : spot'[v] = spot[v]
      /\ \A f \in Feeders : spot'[f] = spot[f] /\ f # w
      /\ spot'[Destroyer] = spot[Destroyer]
  BY <1>1, SpotMoves, AsyncSrvConstants
<1>3. r \in Feeders /\ r # NoQuery /\ NoQuery \notin Feeders
  BY <1>0, <1>1, AsyncSrvConstants DEF AsyncTypeOK, PlacesOK
<1>4. /\ query' \in [Servers -> Feeders \union {NoQuery}]
      /\ query'[w] = NoQuery /\ \A v \in Servers \ {w} : query'[v] = query[v]
  BY <1>1 DEF AsyncTypeOK
<1>5. /\ r \notin ToSet(queries) /\ \A v \in Servers : r \notin Own(v)
      /\ \A v \in Servers \ {w} : query[v] # r
      /\ query[w] = r
  BY <1>0, <1>3 DEF PlacedApart
<1>6. /\ queries' \in Seq(Feeders) /\ queries' # <<>>
      /\ ToSet(queries') = ToSet(queries) \union {r} /\ IsInjective(queries')
  BY <1>1, <1>3, <1>5, AppendOnce DEF AsyncTypeOK, PlacedApart
<1>7. AsyncTypeOK'
  <2>1. hungry' = {v \in Servers : spot'[v] = "asleep"} /\ crowded' = {f \in Feeders : spot'[f] = "asleep"}
        /\ \A v \in Servers : spot'[v] \in ServerSpots
    BY <1>1, <1>2 DEF AsyncTypeOK, ServerSpots
  <2>. QED BY <1>1, <1>2, <1>4, <1>6, <2>1 DEF AsyncTypeOK
<1>8. \A v \in Servers : Own(v)' = Own(v)
  BY <1>1 DEF Own
<1>9. PlacedApart'
  <2>1. ToSet(queries') \subseteq Feeders /\ \A v \in Servers : Own(v) \subseteq Feeders
    BY <1>6 DEF AsyncTypeOK, ToSet, Own
  <2>2. \A v \in Servers : ToSet(queries') \intersect Own(v)' = {} /\ query'[v] \notin ToSet(queries')
    BY <1>3, <1>4, <1>5, <1>6, <1>8, <2>1 DEF PlacedApart
  <2>. QED BY <1>1, <1>3, <1>4, <1>6, <1>8, <2>1, <2>2 DEF PlacedApart
<1>10. /\ \A f \in Feeders : Present(f)' <=> Present(f)
       /\ \A f \in Feeders : spot'[f] \in {"push", "undo"} <=> spot[f] \in {"push", "undo"}
  BY <1>1, <1>2 DEF Present
<1>11. PresentPlaced'
  <2>1. Placed(r)' /\ Placed(r)
    BY <1>5, <1>6 DEF Placed
  <2>2. \A f \in Feeders \ {r} : Placed(f)' <=> Placed(f)
    BY <1>3, <1>4, <1>5, <1>6, <1>8 DEF Placed
  <2>. QED BY <1>10, <2>1, <2>2 DEF PresentPlaced
<1>12. PlacesOK'
  <2>1. \A v \in Servers : spot[v] # "exited"
    BY <1>1 DEF PlacesOK
  <2>2. ASSUME NEW v \in Servers
        PROVE  /\ query'[v] # NoQuery <=> spot'[v] \in {"handle", "retry"}
               /\ spot'[v] \in {"asleep", "exited"} => localQueue'[v] = <<>>
               /\ spot'[v] # "exited"
    BY <1>1, <1>2, <1>4, <2>1 DEF PlacesOK
  <2>. QED BY <1>1, <1>2, <2>2 DEF PlacesOK
<1>13. StopOK'
  BY <1>1, <1>2 DEF StopOK
<1>14. SomeoneSees'
  <2>1. Awake(w)' /\ \A v \in Servers : spot[v] = "room" => spot'[v] = "room"
    BY <1>1, <1>2 DEF Awake
  <2>2. HasRoom' => HasRoom
    <3>1. Len(queries') = Len(queries) + 1 /\ Len(queries) \in Nat
      BY <1>1 DEF AsyncTypeOK
    <3>. QED BY <3>1, AsyncSrvConstants DEF HasRoom
  <2>. QED BY <1>1, <1>2, <2>1, <2>2 DEF SomeoneSees
<1>15. Live' = Live
  BY <1>10 DEF Live
<1>. QED BY <1>1, <1>7, <1>9, <1>11, <1>12, <1>13, <1>14, <1>15

-----------------------------------------------------------------------------
(* The destructor.                                                           *)
LEMMA StopStep ==
  ASSUME AsyncInv, Stop
  PROVE  AsyncInv'
<1>. USE DEF AsyncInv
<1>1. /\ spot[Destroyer] = "begin" /\ stopThread' = TRUE /\ MovesTo(Destroyer, "wake")
      /\ UNCHANGED <<queries, localQueue, query, outstanding, hungry, crowded, retried, fate>>
  BY DEF Stop
<1>2. /\ DOMAIN spot' = Feeders \union Servers \union {Destroyer}
      /\ spot'[Destroyer] = "wake"
      /\ \A u \in Feeders \union Servers : u # Destroyer /\ spot'[u] = spot[u]
  BY <1>1, SpotMoves
<1>3. AsyncTypeOK'
  BY <1>1, <1>2 DEF AsyncTypeOK, DestroyerSpots
<1>4. PlacedApart'
  BY <1>1 DEF PlacedApart, Own
<1>5. \A f \in Feeders : /\ Present(f)' <=> Present(f)
                         /\ spot'[f] \in {"push", "undo"} <=> spot[f] \in {"push", "undo"}
  BY <1>1, <1>2 DEF Present
<1>6. PresentPlaced'
  BY <1>1, <1>5 DEF PresentPlaced, Placed, Own
<1>7. PlacesOK'
  BY <1>1, <1>2 DEF PlacesOK
<1>8. StopOK'
  BY <1>1, <1>2 DEF StopOK
<1>9. SomeoneSees'
  BY <1>2 DEF SomeoneSees
<1>10. Live' = Live
  BY <1>5 DEF Live
<1>. QED BY <1>1, <1>3, <1>4, <1>6, <1>7, <1>8, <1>9, <1>10

LEMMA WakeAllStep ==
  ASSUME AsyncInv, WakeAll
  PROVE  AsyncInv'
<1>. USE DEF AsyncInv
<1>1. /\ spot[Destroyer] = "wake" /\ hungry' = {} /\ crowded' = {} /\ stopThread
      /\ UNCHANGED <<queries, localQueue, query, stopThread, outstanding, retried, fate>>
  BY DEF WakeAll, StopOK
<1>2. /\ DOMAIN spot' = Feeders \union Servers \union {Destroyer}
      /\ spot'[Destroyer] = "join"
      /\ \A f \in Feeders : spot'[f] = IF spot[f] = "asleep" THEN "begin" ELSE spot[f]
      /\ \A w \in Servers : spot'[w] = IF spot[w] = "asleep" THEN "pop" ELSE spot[w]
  <2>1. /\ hungry = {w \in Servers : spot[w] = "asleep"} /\ crowded = {f \in Feeders : spot[f] = "asleep"}
        /\ DOMAIN spot = Feeders \union Servers \union {Destroyer}
    BY DEF AsyncTypeOK
  <2>2. /\ \A f \in Feeders : f \notin hungry /\ f # Destroyer
        /\ \A w \in Servers : w \notin crowded /\ w # Destroyer
        /\ Destroyer \notin hungry /\ Destroyer \notin crowded
    BY <2>1, AsyncSrvConstants
  <2>3. spot' = [u \in DOMAIN spot |->
                   IF u \in hungry THEN "pop" ELSE IF u \in crowded THEN "begin"
                   ELSE IF u = Destroyer THEN "join" ELSE spot[u]]
    BY DEF WakeAll
  <2>. QED BY <2>1, <2>2, <2>3
<1>3. AsyncTypeOK'
  <2>1. hungry' = {w \in Servers : spot'[w] = "asleep"} /\ crowded' = {f \in Feeders : spot'[f] = "asleep"}
    BY <1>1, <1>2
  <2>2. /\ \A f \in Feeders : spot'[f] \in FeederSpots
        /\ \A w \in Servers : spot'[w] \in ServerSpots
        /\ spot'[Destroyer] \in DestroyerSpots
    BY <1>2 DEF AsyncTypeOK, FeederSpots, ServerSpots, DestroyerSpots
  <2>. QED BY <1>1, <1>2, <2>1, <2>2 DEF AsyncTypeOK
<1>4. PlacedApart'
  BY <1>1 DEF PlacedApart, Own
<1>5. \A f \in Feeders : /\ Present(f)' <=> Present(f)
                         /\ spot'[f] \in {"push", "undo"} <=> spot[f] \in {"push", "undo"}
  BY <1>1, <1>2 DEF Present
<1>6. PresentPlaced'
  BY <1>1, <1>5 DEF PresentPlaced, Placed, Own
<1>7. PlacesOK'
  <2>1. \A f \in Feeders : spot'[f] \in {"begin", "asleep", "push", "undo"} => fate'[f] = "none"
    BY <1>1, <1>2 DEF PlacesOK
  <2>2. ASSUME NEW w \in Servers
        PROVE  /\ query'[w] # NoQuery <=> spot'[w] \in {"handle", "retry"}
               /\ spot'[w] \in {"asleep", "exited"} => localQueue'[w] = <<>>
               /\ spot'[w] = "exited" => stopThread' /\ queries' = <<>>
    BY <1>1, <1>2 DEF PlacesOK
  <2>. QED BY <2>1, <2>2 DEF PlacesOK
<1>8. StopOK'
  BY <1>1, <1>2 DEF StopOK
<1>9. SomeoneSees'
  BY <1>1 DEF SomeoneSees
<1>10. Live' = Live
  BY <1>5 DEF Live
<1>. QED BY <1>1, <1>3, <1>4, <1>6, <1>7, <1>8, <1>9, <1>10

LEMMA JoinStep ==
  ASSUME AsyncInv, Join
  PROVE  AsyncInv'
<1>. USE DEF AsyncInv
<1>1. /\ spot[Destroyer] = "join" /\ \A w \in Servers : spot[w] = "exited"
      /\ MovesTo(Destroyer, "flush")
      /\ UNCHANGED <<queries, localQueue, query, stopThread, outstanding, hungry, crowded, retried, fate>>
  BY DEF Join
<1>2. /\ DOMAIN spot' = Feeders \union Servers \union {Destroyer}
      /\ spot'[Destroyer] = "flush"
      /\ \A u \in Feeders \union Servers : u # Destroyer /\ spot'[u] = spot[u]
  BY <1>1, SpotMoves
<1>3. AsyncTypeOK'
  BY <1>1, <1>2 DEF AsyncTypeOK, DestroyerSpots
<1>4. PlacedApart'
  BY <1>1 DEF PlacedApart, Own
<1>5. \A f \in Feeders : /\ Present(f)' <=> Present(f)
                         /\ spot'[f] \in {"push", "undo"} <=> spot[f] \in {"push", "undo"}
  BY <1>1, <1>2 DEF Present
<1>6. PresentPlaced'
  BY <1>1, <1>5 DEF PresentPlaced, Placed, Own
<1>7. PlacesOK'
  BY <1>1, <1>2 DEF PlacesOK
<1>8. StopOK'
  BY <1>1, <1>2 DEF StopOK
<1>9. SomeoneSees'
  BY <1>1, <1>8, <1>2 DEF SomeoneSees, StopOK
<1>10. Live' = Live
  BY <1>5 DEF Live
<1>. QED BY <1>1, <1>3, <1>4, <1>6, <1>7, <1>8, <1>9, <1>10

(* The flush finds nothing: the last worker left an empty queue.             *)
LEMMA FlushStep ==
  ASSUME AsyncInv, FlushRemainingTasks
  PROVE  AsyncInv'
<1>. USE DEF AsyncInv
<1>1. queries = <<>>
  <2>1. PICK w \in Servers : TRUE
    BY AsyncSrvThreads
  <2>2. spot[w] = "exited"
    BY <2>1 DEF FlushRemainingTasks, StopOK
  <2>. QED BY <2>2 DEF PlacesOK
<1>2. ToSet(queries) = {} /\ Len(queries) = 0
  BY <1>1, NothingQueued DEF AsyncTypeOK
<1>3. fate' = fate
  <2>1. fate' = [r \in Feeders |-> fate[r]]
    BY <1>2 DEF FlushRemainingTasks
  <2>. QED BY <2>1 DEF AsyncTypeOK
<1>4. outstanding' = outstanding
  BY <1>2 DEF FlushRemainingTasks, AsyncTypeOK
<1>5. /\ spot[Destroyer] = "flush" /\ queries' = queries /\ MovesTo(Destroyer, "end")
      /\ UNCHANGED <<localQueue, query, stopThread, hungry, crowded, retried>>
  BY <1>1 DEF FlushRemainingTasks
<1>6. /\ DOMAIN spot' = Feeders \union Servers \union {Destroyer}
      /\ spot'[Destroyer] = "end"
      /\ \A u \in Feeders \union Servers : u # Destroyer /\ spot'[u] = spot[u]
  BY <1>5, SpotMoves
<1>7. AsyncTypeOK'
  BY <1>3, <1>4, <1>5, <1>6 DEF AsyncTypeOK, DestroyerSpots
<1>8. PlacedApart'
  BY <1>5 DEF PlacedApart, Own
<1>9. \A f \in Feeders : /\ Present(f)' <=> Present(f)
                         /\ spot'[f] \in {"push", "undo"} <=> spot[f] \in {"push", "undo"}
  BY <1>3, <1>6 DEF Present
<1>10. PresentPlaced'
  BY <1>5, <1>9 DEF PresentPlaced, Placed, Own
<1>11. PlacesOK'
  BY <1>3, <1>5, <1>6 DEF PlacesOK
<1>12. StopOK'
  BY <1>5, <1>6 DEF StopOK
<1>13. SomeoneSees'
  BY <1>5, <1>6, <1>12 DEF SomeoneSees, StopOK
<1>14. Live' = Live
  BY <1>9 DEF Live
<1>. QED BY <1>4, <1>7, <1>8, <1>10, <1>11, <1>12, <1>13, <1>14

-----------------------------------------------------------------------------
LEMMA AsyncInitOK == AsyncInit => AsyncInv
<1>. SUFFICES ASSUME AsyncInit PROVE AsyncInv
  OBVIOUS
<1>1. /\ queries = <<>> /\ localQueue = [w \in Servers |-> <<>>] /\ query = [w \in Servers |-> NoQuery]
      /\ stopThread = FALSE /\ outstanding = 0 /\ hungry = {} /\ crowded = {} /\ retried = {}
      /\ fate = [r \in Feeders |-> "none"]
      /\ spot = [t \in Feeders \union Servers \union {Destroyer} |->
                   IF t \in Servers THEN "pop" ELSE "begin"]
  BY DEF AsyncInit
<1>2. /\ \A f \in Feeders : spot[f] = "begin" /\ f # NoQuery
      /\ \A w \in Servers : spot[w] = "pop" /\ localQueue[w] = <<>> /\ query[w] = NoQuery
      /\ spot[Destroyer] = "begin"
  BY <1>1, AsyncSrvConstants
<1>3. <<>> \in Seq(Feeders) /\ ToSet(<<>>) = {} /\ IsInjective(<<>>) /\ Len(<<>>) <= Chunk
  BY AsyncSrvConstants DEF ToSet, IsInjective
<1>4. AsyncTypeOK
  <2>1. localQueue \in [Servers -> Seq(Feeders)] /\ \A w \in Servers : Len(localQueue[w]) <= Chunk
    BY <1>1, <1>2, <1>3
  <2>2. /\ \A f \in Feeders : spot[f] \in FeederSpots
        /\ \A w \in Servers : spot[w] \in ServerSpots
        /\ spot[Destroyer] \in DestroyerSpots
    BY <1>2 DEF FeederSpots, ServerSpots, DestroyerSpots
  <2>3. hungry = {w \in Servers : spot[w] = "asleep"} /\ crowded = {f \in Feeders : spot[f] = "asleep"}
    BY <1>1, <1>2
  <2>4. DOMAIN spot = Feeders \union Servers \union {Destroyer} /\ stopThread \in BOOLEAN
    BY <1>1
  <2>5. /\ query \in [Servers -> Feeders \union {NoQuery}]
        /\ fate \in [Feeders -> {"none", "refused", "served", "dropped"}]
    BY <1>1
  <2>. QED BY <1>1, <1>3, <2>1, <2>2, <2>3, <2>4, <2>5 DEF AsyncTypeOK
<1>5. \A w \in Servers : Own(w) = {}
  BY <1>2, <1>3 DEF Own
<1>6. PlacedApart
  BY <1>1, <1>2, <1>3, <1>5 DEF PlacedApart
<1>7. PresentPlaced
  BY <1>1, <1>2, <1>3, <1>5 DEF PresentPlaced, Placed, Present
<1>8. PlacesOK
  BY <1>1, <1>2 DEF PlacesOK
<1>9. StopOK
  BY <1>1, <1>2 DEF StopOK
<1>10. SomeoneSees
  BY <1>1 DEF SomeoneSees
<1>11. Live = {}
  BY <1>2 DEF Live, Present
<1>. QED BY <1>1, <1>4, <1>6, <1>7, <1>8, <1>9, <1>10, <1>11, FS_EmptySet DEF AsyncInv

LEMMA AsyncNextOK == AsyncInv /\ [AsyncNext]_asyncVars => AsyncInv'
<1>. SUFFICES ASSUME AsyncInv, [AsyncNext]_asyncVars PROVE AsyncInv'
  OBVIOUS
<1>1. ASSUME NEW f \in Feeders,
             FindsRoom(f) \/ RefusedFull(f) \/ WaitPushCapacity(f) \/ PushNew(f) \/ RefusedStopped(f)
      PROVE  AsyncInv'
  BY <1>1, FeederSteps, PushNewStep
<1>2. ASSUME NEW w \in Servers,
             \/ PopLocal(w) \/ PopSleeps(w) \/ PopNothing(w) \/ SwapChunk(w) \/ NotifyFeeders(w)
             \/ Handled(w) \/ HandlerTimedOut(w) \/ PushRetry(w) \/ RetryDropped(w)
      PROVE  AsyncInv'
  BY <1>2, PopLocalStep, PopSleepsStep, SwapChunkStep, NotifyFeedersStep,
     OverStep, PushRetryStep
<1>3. ASSUME NEW t \in Feeders \union Servers, NotifyServer(t) PROVE AsyncInv'
  BY <1>3, NotifyServerStep
<1>4. CASE Stop \/ WakeAll \/ Join \/ FlushRemainingTasks
  BY <1>4, StopStep, WakeAllStep, JoinStep, FlushStep
<1>5. CASE UNCHANGED asyncVars
  BY <1>5 DEF asyncVars, AsyncInv, AsyncTypeOK, PlacedApart, Own, PresentPlaced, Present, Placed,
     PlacesOK, StopOK, SomeoneSees, Awake, HasRoom, Live
<1>. QED BY <1>1, <1>2, <1>3, <1>4, <1>5 DEF AsyncNext

(* The places of the requests, the destructor's progress and the wakeups     *)
(* stay consistent in every execution, with any number of feeders and        *)
(* workers and any capacity.                                                 *)
THEOREM AsyncInductive == AsyncSpec => []AsyncInv
  BY AsyncInitOK, AsyncNextOK, PTL DEF AsyncSpec

(* A request in a place is counted there once, and in no other.              *)
LEMMA InsideOnce ==
  ASSUME AsyncInv, NEW r \in Feeders
  PROVE  Inside(r) = IF Placed(r) THEN 1 ELSE 0
<1>. USE DEF AsyncInv
<1> DEFINE A == {i \in DOMAIN queries : queries[i] = r}
           B == InChunks(r)
           C == {w \in Servers : query[w] = r}
<1>1. Cardinality(A) = IF r \in ToSet(queries) THEN 1 ELSE 0
  <2>1. \A i, j \in A : i = j
    BY DEF PlacedApart, IsInjective
  <2>2. A # {} <=> r \in ToSet(queries)
    BY DEF ToSet
  <2>. HIDE DEF A
  <2>3. CASE A = {}
    BY <2>2, <2>3, FS_EmptySet
  <2>4. CASE A # {}
    <3>1. PICK i \in A : TRUE
      BY <2>4
    <3>. QED BY <2>1, <2>2, <3>1, CountOnce
  <2>. QED BY <2>3, <2>4
<1>2. Cardinality(B) = IF \E w \in Servers : r \in Own(w) THEN 1 ELSE 0
  <2>0. ASSUME NEW w \in Servers
        PROVE  /\ DOMAIN localQueue[w] = 1..Len(localQueue[w]) /\ Len(localQueue[w]) \in Nat
               /\ Len(localQueue[w]) <= Chunk /\ Chunk \in Nat
    <3>1. localQueue[w] \in Seq(Feeders)
      BY DEF AsyncTypeOK
    <3>. QED BY <3>1, AsyncSrvConstants DEF AsyncTypeOK
  <2>1. ASSUME NEW p \in B
        PROVE  /\ p = <<p[1], p[2]>> /\ p[1] \in Servers /\ p[2] \in DOMAIN localQueue[p[1]]
               /\ localQueue[p[1]][p[2]] = r /\ r \in Own(p[1])
    <3>1. /\ p = <<p[1], p[2]>> /\ p[1] \in Servers /\ p[2] \in 1..Chunk
          /\ p[2] <= Len(localQueue[p[1]]) /\ localQueue[p[1]][p[2]] = r
      BY DEF InChunks
    <3>2. p[2] \in DOMAIN localQueue[p[1]]
      BY <2>0, <3>1
    <3>. QED BY <3>1, <3>2 DEF Own, ToSet
  <2>2. ASSUME NEW p \in B, NEW q \in B PROVE p = q
    <3>1. p[1] = q[1]
      BY <2>1 DEF PlacedApart
    <3>2. p[2] = q[2]
      BY <2>1, <3>1 DEF PlacedApart, IsInjective
    <3>. QED BY <2>1, <3>1, <3>2
  <2>3. ASSUME NEW w \in Servers, r \in Own(w) PROVE B # {}
    <3>1. PICK i \in DOMAIN localQueue[w] : localQueue[w][i] = r
      BY <2>3 DEF Own, ToSet
    <3>2. i \in 1..Chunk /\ i <= Len(localQueue[w])
      BY <2>0, <3>1
    <3>3. <<w, i>> \in B
      BY <3>1, <3>2 DEF InChunks
    <3>. QED BY <3>3
  <2>. HIDE DEF B
  <2>4. CASE B = {}
    BY <2>3, <2>4, FS_EmptySet
  <2>5. CASE B # {}
    <3>1. PICK p \in B : TRUE
      BY <2>5
    <3>. QED BY <2>1, <2>2, <3>1, CountOnce
  <2>. QED BY <2>4, <2>5
<1>3. Cardinality(C) = IF \E w \in Servers : query[w] = r THEN 1 ELSE 0
  <2>1. \A w, v \in C : w = v
    BY AsyncSrvConstants DEF PlacedApart
  <2>2. C # {} <=> \E w \in Servers : query[w] = r
    OBVIOUS
  <2>. HIDE DEF C
  <2>3. CASE C = {}
    BY <2>2, <2>3, FS_EmptySet
  <2>4. CASE C # {}
    <3>1. PICK w \in C : TRUE
      BY <2>4
    <3>. QED BY <2>1, <2>2, <3>1, CountOnce
  <2>. QED BY <2>3, <2>4
<1>4. /\ ~(r \in ToSet(queries) /\ \E w \in Servers : r \in Own(w))
      /\ ~(r \in ToSet(queries) /\ \E w \in Servers : query[w] = r)
      /\ ~((\E w \in Servers : r \in Own(w)) /\ \E w \in Servers : query[w] = r)
  BY DEF PlacedApart
<1>5. Inside(r) = Cardinality(A) + Cardinality(B) + Cardinality(C)
  BY DEF Inside
<1>. HIDE DEF A, B, C
<1>. QED BY <1>1, <1>2, <1>3, <1>4, <1>5 DEF Placed

(* An accepted request is in exactly one of the shared queue, a worker's     *)
(* chunk and a worker's hands until it is over; the outstanding requests are *)
(* those; the workers leave nothing to the flush; and nobody stays asleep    *)
(* who has work or room with no one awake who sees to it.                    *)
THEOREM AcceptedIsServedAlways == AsyncSpec => []AcceptedIsServed
<1>1. AsyncInv => AcceptedIsServed
  <2>. SUFFICES ASSUME AsyncInv PROVE AcceptedIsServed
    OBVIOUS
  <2>1. ASSUME NEW r \in Feeders
        PROVE  Inside(r) = IF fate[r] = "none" /\ spot[r] \in {"notify", "end"} THEN 1 ELSE 0
    BY InsideOnce DEF AsyncInv, PresentPlaced, Present
  <2>2. outstanding = Cardinality({r \in Feeders : Inside(r) = 1 \/ spot[r] \in {"push", "undo"}})
    <3>1. Live = {r \in Feeders : Inside(r) = 1 \/ spot[r] \in {"push", "undo"}}
      BY <2>1 DEF Live, Present
    <3>. QED BY <3>1 DEF AsyncInv
  <2>3. ASSUME spot[Destroyer] \in {"flush", "end"}, NEW r \in Feeders PROVE Inside(r) = 0
    <3>1. \A w \in Servers : spot[w] = "exited"
      BY <2>3 DEF AsyncInv, StopOK
    <3>2. \A w \in Servers : localQueue[w] = <<>> /\ query[w] = NoQuery /\ queries = <<>>
      BY <3>1 DEF AsyncInv, PlacesOK
    <3>3. ToSet(queries) = {} /\ \A w \in Servers : Own(w) = {}
      BY <3>2, AsyncSrvThreads DEF Own, ToSet
    <3>4. ~Placed(r)
      BY <3>2, <3>3, AsyncSrvConstants DEF Placed
    <3>. QED BY <3>4, InsideOnce
  <2>4. SomeoneSees
    BY DEF AsyncInv
  <2>. QED BY <2>1, <2>2, <2>3, <2>4 DEF AcceptedIsServed, SomeoneSees, Awake
<1>. QED BY <1>1, AsyncInductive, PTL

=============================================================================
