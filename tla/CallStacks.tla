----------------------------- MODULE CallStacks -----------------------------
(* Facts about the call stacks of threads, innermost call first, as the      *)
(* session modules keep them: how the number of frames with given labels     *)
(* changes when a call is made, goes on, or returns.                         *)
EXTENDS Integers, Sequences, FiniteSets, SequencesExt, FiniteSetTheorems, TLAPS

(* The frames with one of the labels, as <<thread, depth>>; the depth of the *)
(* outermost call is 1.                                                      *)
FramesOf(stk, labels) ==
    UNION {{<<t, d>> : d \in {i \in DOMAIN stk[t] :
                                stk[t][Len(stk[t]) + 1 - i] \in labels}} :
           t \in DOMAIN stk}

Stacks(T, S) == [T -> Seq(S)]
Popped(stk, t) == [stk EXCEPT ![t] = Tail(@)]
Pushed(stk, t, a) == [stk EXCEPT ![t] = <<a>> \o @]

CountOf(stk, labels) == Cardinality(FramesOf(stk, labels))
Hits(label, labels) == IF label \in labels THEN 1 ELSE 0

-----------------------------------------------------------------------------
LEMMA FramesFinite ==
  ASSUME NEW T, IsFiniteSet(T), NEW S, NEW stk \in Stacks(T, S), NEW L
  PROVE  /\ IsFiniteSet(FramesOf(stk, L))
         /\ CountOf(stk, L) \in Nat
         /\ CountOf(stk, L) = 0 <=> FramesOf(stk, L) = {}
  <1> DEFINE all == [t \in T |-> {t} \X (1..Len(stk[t]))]
             R == {all[t] : t \in T}
  <1>1. IsFiniteSet(R)
    <2>1. all \in Surjection(T, R)
      BY DEF Surjection
    <2>. QED BY <2>1, FS_Surjection
  <1>2. \A t \in T : IsFiniteSet(all[t])
    <2> TAKE t \in T
    <2>1. Len(stk[t]) \in Nat
      OBVIOUS
    <2>2. IsFiniteSet(1..Len(stk[t]))
      BY <2>1, FS_Interval
    <2>3. IsFiniteSet({t})
      BY FS_Singleton
    <2>. QED BY <2>2, <2>3, FS_Product
  <1>3. IsFiniteSet(UNION R)
    BY <1>1, <1>2, FS_UNION
  <1>4. FramesOf(stk, L) \subseteq UNION R
    BY DEF FramesOf, Stacks
  <1>. QED BY <1>3, <1>4, FS_Subset, FS_CardinalityType, FS_EmptySet DEF CountOf

LEMMA FrameIs ==
  ASSUME NEW stk, NEW L, NEW u \in DOMAIN stk, NEW d
  PROVE  <<u, d>> \in FramesOf(stk, L)
         <=> d \in DOMAIN stk[u] /\ stk[u][Len(stk[u]) + 1 - d] \in L
  BY DEF FramesOf

LEMMA FramesPairs ==
  ASSUME NEW stk, NEW L, NEW F, F \subseteq (DOMAIN stk) \X Nat,
         \A u \in DOMAIN stk, d \in Nat : <<u, d>> \in FramesOf(stk, L) <=> <<u, d>> \in F
  PROVE  FramesOf(stk, L) = F
  <1>1. FramesOf(stk, L) \subseteq (DOMAIN stk) \X Nat
    BY DEF FramesOf
  <1>2. ASSUME NEW f \in (DOMAIN stk) \X Nat PROVE f \in FramesOf(stk, L) <=> f \in F
    <2>1. PICK u \in DOMAIN stk, d \in Nat : f = <<u, d>>
      OBVIOUS
    <2>. QED BY <2>1
  <1>. QED BY <1>1, <1>2

(* The innermost call returns.                                               *)
LEMMA PopFrames ==
  ASSUME NEW T, NEW S, NEW stk \in Stacks(T, S), NEW t \in T, stk[t] # <<>>,
         NEW L
  PROVE  FramesOf(Popped(stk, t), L) = FramesOf(stk, L) \ {<<t, Len(stk[t])>>}
  <1> DEFINE stk2 == Popped(stk, t)
             n == Len(stk[t])
             F == FramesOf(stk, L) \ {<<t, n>>}
  <1>1. /\ DOMAIN stk = T /\ DOMAIN stk2 = T
        /\ stk[t] \in Seq(S) /\ n \in Nat \ {0} /\ stk2[t] = Tail(stk[t])
        /\ \A u \in T \ {t} : stk2[u] = stk[u]
    BY DEF Stacks, Popped, Pushed
  <1>. HIDE DEF stk2
  <1>2. /\ Len(stk2[t]) = n - 1
        /\ \A i \in 1..(n - 1) : stk2[t][i] = stk[t][i + 1]
    BY <1>1
  <1>3. ASSUME NEW u \in T, NEW d \in Nat
        PROVE  <<u, d>> \in F <=> <<u, d>> \in FramesOf(stk, L) /\ ~(u = t /\ d = n)
    OBVIOUS
  <1>. HIDE DEF F
  <1>4. ASSUME NEW u \in T, NEW d \in Nat
        PROVE  <<u, d>> \in FramesOf(stk2, L) <=> <<u, d>> \in F
    <2>1. CASE u = t
      <3>1. <<t, d>> \in FramesOf(stk2, L) <=> d \in 1..(n - 1) /\ stk2[t][n - d] \in L
        <4>1. <<t, d>> \in FramesOf(stk2, L)
              <=> d \in 1..(n - 1) /\ stk2[t][(n - 1) + 1 - d] \in L
          BY <1>1, <1>2 DEF FramesOf
        <4>. QED BY <4>1, <1>1
      <3>2. <<t, d>> \in FramesOf(stk, L) <=> d \in 1..n /\ stk[t][n + 1 - d] \in L
        BY <1>1 DEF FramesOf
      <3>3. d \in 1..(n - 1) => stk2[t][n - d] = stk[t][n + 1 - d]
        <4>1. d \in 1..(n - 1) => n - d \in 1..(n - 1) /\ (n - d) + 1 = n + 1 - d
          BY <1>1
        <4>. QED BY <4>1, <1>2
      <3>. QED BY <2>1, <3>1, <3>2, <3>3, <1>1, <1>3
    <2>2. CASE u # t
      <3>1. <<u, d>> \in FramesOf(stk2, L) <=> <<u, d>> \in FramesOf(stk, L)
        BY <1>1, <2>2 DEF FramesOf
      <3>. QED BY <3>1, <2>2, <1>3
    <2>. QED BY <2>1, <2>2
  <1>5. F \subseteq T \X Nat
    BY DEF FramesOf, F, Stacks
  <1>6. FramesOf(stk2, L) = F
    <2>1. F \subseteq (DOMAIN stk2) \X Nat
      BY <1>1, <1>5
    <2>2. \A u \in DOMAIN stk2, d \in Nat : <<u, d>> \in FramesOf(stk2, L) <=> <<u, d>> \in F
      BY <1>1, <1>4
    <2>. QED BY ONLY <2>1, <2>2, FramesPairs
  <1>. QED BY <1>6 DEF F, stk2

(* A call is made.                                                           *)
LEMMA PushFrames ==
  ASSUME NEW T, NEW S, NEW stk \in Stacks(T, S), NEW t \in T, NEW a \in S,
         NEW L
  PROVE  FramesOf(Pushed(stk, t, a), L) = FramesOf(stk, L) \union (IF a \in L THEN {<<t, Len(stk[t]) + 1>>} ELSE {})
  <1> DEFINE stk2 == Pushed(stk, t, a)
             n == Len(stk[t])
             F == FramesOf(stk, L) \union (IF a \in L THEN {<<t, n + 1>>} ELSE {})
  <1>1. /\ DOMAIN stk = T /\ DOMAIN stk2 = T
        /\ stk[t] \in Seq(S) /\ n \in Nat /\ stk2[t] = <<a>> \o stk[t]
        /\ \A u \in T \ {t} : stk2[u] = stk[u]
    BY DEF Stacks, Popped, Pushed
  <1>. HIDE DEF stk2
  <1>2. /\ Len(stk2[t]) = n + 1 /\ stk2[t][1] = a
        /\ \A i \in 1..n : stk2[t][i + 1] = stk[t][i]
    BY <1>1
  <1>3. ASSUME NEW u \in T, NEW d \in Nat
        PROVE  <<u, d>> \in F <=> <<u, d>> \in FramesOf(stk, L) \/ (a \in L /\ u = t /\ d = n + 1)
    OBVIOUS
  <1>. HIDE DEF F
  <1>4. ASSUME NEW u \in T, NEW d \in Nat
        PROVE  <<u, d>> \in FramesOf(stk2, L) <=> <<u, d>> \in F
    <2>1. CASE u = t
      <3>1. <<t, d>> \in FramesOf(stk2, L) <=> d \in 1..(n + 1) /\ stk2[t][n + 2 - d] \in L
        <4>1. <<t, d>> \in FramesOf(stk2, L)
              <=> d \in DOMAIN stk2[t] /\ stk2[t][Len(stk2[t]) + 1 - d] \in L
          BY SMTT(20), <1>1 DEF FramesOf
        <4>2. DOMAIN stk2[t] = 1..(n + 1)
          BY <1>1
        <4>. QED BY <4>1, <4>2, <1>1, <1>2
      <3>2. <<t, d>> \in FramesOf(stk, L) <=> d \in 1..n /\ stk[t][n + 1 - d] \in L
        BY <1>1 DEF FramesOf
      <3>3. d \in 1..n => stk2[t][n + 2 - d] = stk[t][n + 1 - d]
        <4>1. d \in 1..n => n + 1 - d \in 1..n /\ (n + 1 - d) + 1 = n + 2 - d
          BY <1>1
        <4>. QED BY <4>1, <1>2
      <3>4. d = n + 1 => stk2[t][n + 2 - d] = a
        <4>1. d = n + 1 => n + 2 - d = 1
          BY <1>1
        <4>. QED BY <4>1, <1>2
      <3>. QED BY <2>1, <3>1, <3>2, <3>3, <3>4, <1>1, <1>3
    <2>2. CASE u # t
      <3>1. <<u, d>> \in FramesOf(stk2, L) <=> <<u, d>> \in FramesOf(stk, L)
        BY <1>1, <2>2 DEF FramesOf
      <3>. QED BY <3>1, <2>2, <1>3
    <2>. QED BY <2>1, <2>2
  <1>5. F \subseteq T \X Nat
    <2>1. <<t, n + 1>> \in T \X Nat
      BY <1>1
    <2>2. FramesOf(stk, L) \subseteq T \X Nat
      BY DEF FramesOf, Stacks
    <2>. QED BY <2>1, <2>2 DEF F
  <1>6. FramesOf(stk2, L) = F
    <2>1. F \subseteq (DOMAIN stk2) \X Nat
      BY <1>1, <1>5
    <2>2. \A u \in DOMAIN stk2, d \in Nat : <<u, d>> \in FramesOf(stk2, L) <=> <<u, d>> \in F
      BY <1>1, <1>4
    <2>. QED BY ONLY <2>1, <2>2, FramesPairs
  <1>. QED BY <1>6 DEF F, stk2

-----------------------------------------------------------------------------
(* The same as counts.                                                       *)
LEMMA TopFrame ==
  ASSUME NEW T, NEW S, NEW stk \in Stacks(T, S), NEW t \in T, stk[t] # <<>>, NEW L
  PROVE  <<t, Len(stk[t])>> \in FramesOf(stk, L) <=> Head(stk[t]) \in L
  <1>1. /\ DOMAIN stk = T /\ Len(stk[t]) \in Nat \ {0}
        /\ stk[t][1] = Head(stk[t]) /\ Len(stk[t]) + 1 - Len(stk[t]) = 1
    BY DEF Stacks
  <1>2. <<t, Len(stk[t])>> \in FramesOf(stk, L)
        <=> Len(stk[t]) \in DOMAIN stk[t] /\ stk[t][Len(stk[t]) + 1 - Len(stk[t])] \in L
    BY <1>1, FrameIs
  <1>3. Len(stk[t]) \in DOMAIN stk[t]
    BY DEF Stacks
  <1>. QED BY <1>1, <1>2, <1>3

LEMMA PopCount ==
  ASSUME NEW T, IsFiniteSet(T), NEW S, NEW stk \in Stacks(T, S), NEW t \in T, stk[t] # <<>>
  PROVE  /\ Popped(stk, t) \in Stacks(T, S)
         /\ \A L : CountOf(Popped(stk, t), L) = CountOf(stk, L) - Hits(Head(stk[t]), L)
  <1>1. Popped(stk, t) \in Stacks(T, S)
    BY DEF Stacks, Popped
  <1>2. ASSUME NEW L
        PROVE  CountOf(Popped(stk, t), L) = CountOf(stk, L) - Hits(Head(stk[t]), L)
    <2>1. FramesOf(Popped(stk, t), L) = FramesOf(stk, L) \ {<<t, Len(stk[t])>>}
      BY PopFrames
    <2>2. IsFiniteSet(FramesOf(stk, L)) /\ CountOf(stk, L) \in Nat
      BY FramesFinite
    <2>3. <<t, Len(stk[t])>> \in FramesOf(stk, L) <=> Head(stk[t]) \in L
      BY TopFrame
    <2>4. Cardinality(FramesOf(stk, L) \ {<<t, Len(stk[t])>>})
          = IF <<t, Len(stk[t])>> \in FramesOf(stk, L) THEN Cardinality(FramesOf(stk, L)) - 1
                                                      ELSE Cardinality(FramesOf(stk, L))
      BY ONLY <2>2, FS_RemoveElement
    <2>. QED BY <2>1, <2>2, <2>3, <2>4 DEF Hits, CountOf
  <1>. QED BY <1>1, <1>2

LEMMA PushCount ==
  ASSUME NEW T, IsFiniteSet(T), NEW S, NEW stk \in Stacks(T, S), NEW t \in T, NEW a \in S
  PROVE  /\ Pushed(stk, t, a) \in Stacks(T, S)
         /\ \A L : CountOf(Pushed(stk, t, a), L) = CountOf(stk, L) + Hits(a, L)
  <1> DEFINE stk2 == Pushed(stk, t, a)
  <1>1. stk2 \in Stacks(T, S)
    BY DEF Stacks, Pushed
  <1>2. ASSUME NEW L
        PROVE  CountOf(stk2, L) = CountOf(stk, L) + Hits(a, L)
    <2>1. FramesOf(stk2, L) = FramesOf(stk, L) \union (IF a \in L THEN {<<t, Len(stk[t]) + 1>>} ELSE {})
      BY PushFrames
    <2>. HIDE DEF stk2
    <2>2. IsFiniteSet(FramesOf(stk, L)) /\ CountOf(stk, L) \in Nat
      BY FramesFinite
    <2>3. <<t, Len(stk[t]) + 1>> \notin FramesOf(stk, L)
      <3>1. Len(stk[t]) \in Nat
        BY DEF Stacks
      <3>. QED BY <3>1 DEF FramesOf
    <2>4. CASE a \in L
      <3>1. Cardinality(FramesOf(stk2, L)) = Cardinality(FramesOf(stk, L)) + 1
        BY ONLY <2>1, <2>2, <2>3, <2>4, FS_AddElement
      <3>. QED BY <3>1, <2>4 DEF CountOf, Hits
    <2>5. CASE a \notin L
      <3>1. FramesOf(stk2, L) = FramesOf(stk, L)
        BY <2>1, <2>5
      <3>. QED BY <3>1, <2>2, <2>5 DEF CountOf, Hits
    <2>. QED BY <2>4, <2>5
  <1>. QED BY <1>1, <1>2

LEMMA CountType ==
  ASSUME NEW T, IsFiniteSet(T), NEW S, NEW stk \in Stacks(T, S)
  PROVE  \A L : CountOf(stk, L) \in Nat
  BY FramesFinite

(* The innermost call goes on elsewhere.                                     *)
LEMMA ReplaceCount ==
  ASSUME NEW T, IsFiniteSet(T), NEW S, NEW stk \in Stacks(T, S), NEW t \in T, stk[t] # <<>>, NEW a \in S
  PROVE  /\ Pushed(Popped(stk, t), t, a) \in Stacks(T, S)
         /\ \A L : CountOf(Pushed(Popped(stk, t), t, a), L)
                    = CountOf(stk, L) - Hits(Head(stk[t]), L) + Hits(a, L)
  <1>1. /\ Popped(stk, t) \in Stacks(T, S)
        /\ \A L : CountOf(Popped(stk, t), L) = CountOf(stk, L) - Hits(Head(stk[t]), L)
    BY PopCount
  <1>2. /\ Pushed(Popped(stk, t), t, a) \in Stacks(T, S)
        /\ \A L : CountOf(Pushed(Popped(stk, t), t, a), L) = CountOf(Popped(stk, t), L) + Hits(a, L)
    BY <1>1, PushCount
  <1>. QED BY <1>1, <1>2

(* It makes a call, after which it goes on elsewhere.                        *)
LEMMA CallCount ==
  ASSUME NEW T, IsFiniteSet(T), NEW S, NEW stk \in Stacks(T, S), NEW t \in T, stk[t] # <<>>,
         NEW a \in S, NEW b \in S
  PROVE  /\ Pushed(Pushed(Popped(stk, t), t, b), t, a) \in Stacks(T, S)
         /\ \A L : CountOf(Pushed(Pushed(Popped(stk, t), t, b), t, a), L)
                    = CountOf(stk, L) - Hits(Head(stk[t]), L) + Hits(b, L) + Hits(a, L)
  <1>1. /\ Pushed(Popped(stk, t), t, b) \in Stacks(T, S)
        /\ \A L : CountOf(Pushed(Popped(stk, t), t, b), L)
                   = CountOf(stk, L) - Hits(Head(stk[t]), L) + Hits(b, L)
    BY ReplaceCount
  <1>2. /\ Pushed(Pushed(Popped(stk, t), t, b), t, a) \in Stacks(T, S)
        /\ \A L : CountOf(Pushed(Pushed(Popped(stk, t), t, b), t, a), L)
                   = CountOf(Pushed(Popped(stk, t), t, b), L) + Hits(a, L)
    BY <1>1, PushCount
  <1>. QED BY <1>1, <1>2

-----------------------------------------------------------------------------
LEMMA CountAtLeastTop ==
  ASSUME NEW T, IsFiniteSet(T), NEW S, NEW stk \in Stacks(T, S), NEW t \in T, stk[t] # <<>>, NEW L
  PROVE  CountOf(stk, L) \in Nat /\ CountOf(stk, L) >= Hits(Head(stk[t]), L)
  <1>1. /\ CountOf(stk, L) \in Nat
        /\ CountOf(stk, L) = 0 <=> FramesOf(stk, L) = {}
    BY FramesFinite
  <1>2. <<t, Len(stk[t])>> \in FramesOf(stk, L) <=> Head(stk[t]) \in L
    BY TopFrame
  <1>. QED BY <1>1, <1>2 DEF Hits

LEMMA CountMonotone ==
  ASSUME NEW T, IsFiniteSet(T), NEW S, NEW stk \in Stacks(T, S), NEW L, NEW M, L \subseteq M
  PROVE  CountOf(stk, L) <= CountOf(stk, M)
  <1>1. FramesOf(stk, L) \subseteq FramesOf(stk, M)
    BY DEF FramesOf
  <1>2. IsFiniteSet(FramesOf(stk, M))
    BY FramesFinite
  <1>. QED BY <1>1, <1>2, FS_Subset DEF CountOf

LEMMA CountUnion ==
  ASSUME NEW T, IsFiniteSet(T), NEW S, NEW stk \in Stacks(T, S), NEW L, NEW M, L \intersect M = {}
  PROVE  CountOf(stk, L \union M) = CountOf(stk, L) + CountOf(stk, M)
  <1>1. FramesOf(stk, L \union M) = FramesOf(stk, L) \union FramesOf(stk, M)
    BY DEF FramesOf
  <1>2. FramesOf(stk, L) \intersect FramesOf(stk, M) = {}
    BY DEF FramesOf
  <1>3. IsFiniteSet(FramesOf(stk, L)) /\ IsFiniteSet(FramesOf(stk, M))
    BY FramesFinite
  <1>4. CountOf(stk, L) \in Nat /\ CountOf(stk, M) \in Nat
    BY FramesFinite
  <1>5. Cardinality(FramesOf(stk, L \union M))
        = Cardinality(FramesOf(stk, L)) + Cardinality(FramesOf(stk, M)) - Cardinality({})
    BY ONLY <1>1, <1>2, <1>3, FS_Union
  <1>. QED BY <1>4, <1>5, FS_EmptySet DEF CountOf

LEMMA NoFrames ==
  ASSUME NEW T, IsFiniteSet(T), NEW S, NEW L
  PROVE  CountOf([t \in T |-> <<>>], L) = 0
  <1>1. FramesOf([t \in T |-> <<>>], L) = {}
    BY DEF FramesOf
  <1>. QED BY <1>1, FS_EmptySet DEF CountOf

-----------------------------------------------------------------------------
(* Frames together with what is outside of the stacks under a label of its   *)
(* own: the events that are posted to the system.                            *)
WorkOf(stk, events, labels) == CountOf(stk, labels) + Cardinality(events \intersect labels)

LEMMA EventsType ==
  ASSUME NEW E, IsFiniteSet(E), NEW L
  PROVE  IsFiniteSet(E \intersect L) /\ Cardinality(E \intersect L) \in Nat
  <1>1. IsFiniteSet(E \intersect L)
    BY FS_Subset
  <1>. QED BY <1>1, FS_CardinalityType

LEMMA WorkType ==
  ASSUME NEW T, IsFiniteSet(T), NEW S, NEW stk \in Stacks(T, S), NEW E, IsFiniteSet(E)
  PROVE  \A L : WorkOf(stk, E, L) \in Nat
  BY CountType, EventsType DEF WorkOf

LEMMA PostEvent ==
  ASSUME NEW E, IsFiniteSet(E), NEW e, e \notin E, NEW L
  PROVE  Cardinality((E \union {e}) \intersect L) = Cardinality(E \intersect L) + Hits(e, L)
  <1>1. IsFiniteSet(E \intersect L) /\ Cardinality(E \intersect L) \in Nat
    BY EventsType
  <1>2. CASE e \in L
    <2>1. (E \union {e}) \intersect L = (E \intersect L) \union {e} /\ e \notin E \intersect L
      BY <1>2
    <2>2. Cardinality((E \intersect L) \union {e}) = Cardinality(E \intersect L) + 1
      BY ONLY <1>1, <2>1, FS_AddElement
    <2>. QED BY <2>1, <2>2, <1>2 DEF Hits
  <1>3. CASE e \notin L
    <2>1. (E \union {e}) \intersect L = E \intersect L
      BY <1>3
    <2>2. Cardinality((E \union {e}) \intersect L) = Cardinality(E \intersect L)
      BY ONLY <2>1
    <2>3. Hits(e, L) = 0
      BY <1>3 DEF Hits
    <2>. QED BY <1>1, <2>2, <2>3
  <1>. QED BY <1>2, <1>3

LEMMA TakeEvent ==
  ASSUME NEW E, IsFiniteSet(E), NEW e \in E, NEW L
  PROVE  Cardinality((E \ {e}) \intersect L) = Cardinality(E \intersect L) - Hits(e, L)
  <1>1. IsFiniteSet(E \ {e}) /\ (E \ {e}) \union {e} = E /\ e \notin E \ {e}
    BY FS_Subset
  <1>2. Cardinality((E \ {e}) \intersect L) \in Nat
    BY <1>1, EventsType
  <1>3. Cardinality(((E \ {e}) \union {e}) \intersect L) = Cardinality((E \ {e}) \intersect L) + Hits(e, L)
    BY ONLY <1>1, PostEvent
  <1>. QED BY <1>1, <1>2, <1>3 DEF Hits

LEMMA EventAtLeast ==
  ASSUME NEW T, IsFiniteSet(T), NEW S, NEW stk \in Stacks(T, S), NEW E, IsFiniteSet(E), NEW L,
         E \intersect L # {}
  PROVE  WorkOf(stk, E, L) > 0
  <1>1. CountOf(stk, L) \in Nat
    BY CountType
  <1>2. Cardinality(E \intersect L) \in Nat /\ Cardinality(E \intersect L) # 0
    BY EventsType, FS_EmptySet
  <1>. QED BY <1>1, <1>2 DEF WorkOf

LEMMA WorkAtLeastTop ==
  ASSUME NEW T, IsFiniteSet(T), NEW S, NEW stk \in Stacks(T, S), NEW t \in T, stk[t] # <<>>,
         NEW E, IsFiniteSet(E), NEW L, Head(stk[t]) \in L
  PROVE  WorkOf(stk, E, L) > 0
  <1>1. CountOf(stk, L) \in Nat /\ CountOf(stk, L) >= 1
    BY CountAtLeastTop DEF Hits
  <1>2. Cardinality(E \intersect L) \in Nat
    BY EventsType
  <1>. QED BY <1>1, <1>2 DEF WorkOf

LEMMA WorkMonotone ==
  ASSUME NEW T, IsFiniteSet(T), NEW S, NEW stk \in Stacks(T, S), NEW E, IsFiniteSet(E),
         NEW L, NEW M, L \subseteq M
  PROVE  WorkOf(stk, E, L) <= WorkOf(stk, E, M)
  <1>1. CountOf(stk, L) \in Nat /\ CountOf(stk, M) \in Nat /\ CountOf(stk, L) <= CountOf(stk, M)
    BY CountType, CountMonotone
  <1>2. IsFiniteSet(E \intersect M) /\ E \intersect L \subseteq E \intersect M
    BY EventsType
  <1>3. Cardinality(E \intersect L) \in Nat /\ Cardinality(E \intersect M) \in Nat
        /\ Cardinality(E \intersect L) <= Cardinality(E \intersect M)
    BY <1>2, EventsType, FS_Subset
  <1>. QED BY <1>1, <1>3 DEF WorkOf

LEMMA WorkUnion ==
  ASSUME NEW T, IsFiniteSet(T), NEW S, NEW stk \in Stacks(T, S), NEW E, IsFiniteSet(E),
         NEW L, NEW M, L \intersect M = {}
  PROVE  WorkOf(stk, E, L \union M) = WorkOf(stk, E, L) + WorkOf(stk, E, M)
  <1>1. /\ CountOf(stk, L) \in Nat /\ CountOf(stk, M) \in Nat
    BY CountType
  <1>11. CountOf(stk, L \union M) = CountOf(stk, L) + CountOf(stk, M)
    BY CountUnion
  <1>2. IsFiniteSet(E \intersect L) /\ IsFiniteSet(E \intersect M)
        /\ Cardinality(E \intersect L) \in Nat /\ Cardinality(E \intersect M) \in Nat
    BY EventsType
  <1>3. E \intersect (L \union M) = (E \intersect L) \union (E \intersect M)
        /\ (E \intersect L) \intersect (E \intersect M) = {}
    OBVIOUS
  <1>4. Cardinality((E \intersect L) \union (E \intersect M))
        = Cardinality(E \intersect L) + Cardinality(E \intersect M) - Cardinality({})
    BY ONLY <1>2, <1>3, FS_Union
  <1>5. Cardinality(E \intersect (L \union M)) = Cardinality(E \intersect L) + Cardinality(E \intersect M)
    <2>1. Cardinality({}) = 0
      BY FS_EmptySet
    <2>2. Cardinality(E \intersect (L \union M)) = Cardinality((E \intersect L) \union (E \intersect M))
      BY ONLY <1>3
    <2>. QED BY ONLY <2>1, <2>2, <1>2, <1>4
  <1>. QED BY <1>1, <1>11, <1>2, <1>5 DEF WorkOf

(* A counted label is that of a frame of some thread, or of an event.        *)
LEMMA WorkNone ==
  ASSUME NEW T, IsFiniteSet(T), NEW S, NEW stk \in Stacks(T, S), NEW E, IsFiniteSet(E), NEW L,
         WorkOf(stk, E, L) = 0
  PROVE  /\ E \intersect L = {}
         /\ FramesOf(stk, L) = {}
         /\ \A t \in T : \A i \in DOMAIN stk[t] : stk[t][i] \notin L
  <1>1. CountOf(stk, L) \in Nat /\ Cardinality(E \intersect L) \in Nat /\ IsFiniteSet(E \intersect L)
    BY CountType, EventsType
  <1>2. CountOf(stk, L) = 0 /\ Cardinality(E \intersect L) = 0
    BY <1>1 DEF WorkOf
  <1>3. E \intersect L = {} /\ FramesOf(stk, L) = {}
    BY <1>1, <1>2, FS_EmptySet, FramesFinite
  <1>4. ASSUME NEW t \in T, NEW i \in DOMAIN stk[t], stk[t][i] \in L
        PROVE  FALSE
    <2>1. /\ DOMAIN stk = T /\ Len(stk[t]) \in Nat /\ i \in 1..Len(stk[t])
          /\ DOMAIN stk[t] = 1..Len(stk[t])
      BY DEF Stacks
    <2> DEFINE d == Len(stk[t]) + 1 - i
    <2>2. d \in 1..Len(stk[t]) /\ Len(stk[t]) + 1 - d = i
      BY <2>1
    <2>. HIDE DEF d
    <2>3. <<t, d>> \in FramesOf(stk, L)
      BY <1>4, <2>1, <2>2, FrameIs
    <2>. QED BY <2>3, <1>3
  <1>. QED BY <1>3, <1>4

-----------------------------------------------------------------------------
(* Sequences that are joined, and their prefixes.                            *)
LEMMA Concatenation ==
  ASSUME NEW S
  PROVE  /\ \A a, b \in Seq(S) : a \o b \in Seq(S)
         /\ \A a \in Seq(S) : a \o <<>> = a /\ <<>> \o a = a
         /\ \A a, b, c \in Seq(S) : (a \o b) \o c = a \o (b \o c)
  OBVIOUS

LEMMA PrefixItself == ASSUME NEW S, NEW a \in Seq(S) PROVE IsPrefix(a, a)
  BY DEF IsPrefix

LEMMA PrefixLonger ==
  ASSUME NEW S, NEW a \in Seq(S), NEW b \in Seq(S), NEW c \in Seq(S), IsPrefix(a, b)
  PROVE  IsPrefix(a, b \o c)
  BY DEF IsPrefix

LEMMA PrefixShorter ==
  ASSUME NEW S, NEW a \in Seq(S), NEW b \in Seq(S), NEW c \in Seq(S), IsPrefix(a \o c, b)
  PROVE  IsPrefix(a, b)
  BY DEF IsPrefix

=============================================================================
